SPECIFICATION FairSpec
CONSTANTS
  Procs = {p1}
  Versions = {v1, v2}
  Inodes = {i1, i2, i3, i4, i5}
  NoFile = NoFile
  NoVersion = NoVersion
  MaxRunning = 1
  Edits = "loading"
  Crashes = FALSE
  PidReuse = TRUE
  DiskFull = TRUE
  Unopenable = {"crkmeta", "bc"}
INVARIANTS
  CodeFromThisRun
  PublishedTogether
PROPERTIES
  EveryLoadEnds
CHECK_DEADLOCK FALSE
