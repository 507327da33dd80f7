SPECIFICATION FairQueueSpec
CONSTANTS
  Producer = {p1, p2, p3}
  PipeSize = 4
  ReadSize = 2
  Reentrant = TRUE
  MaxAdds = 4
CHECK_DEADLOCK FALSE
INVARIANTS NoStrandedElement ReadDoesNotBlock
PROPERTY EveryElementTaken
