SPECIFICATION FairManagerSpec
CONSTANTS
  MaxTime = 4
  MaxEvents = 3
  Width = 1000
  LateStart = FALSE
  MaskSchedules = FALSE
CHECK_DEADLOCK FALSE
INVARIANTS EachOnce TimeoutIsNext
PROPERTY EveryEventRuns
