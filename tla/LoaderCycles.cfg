SPECIFICATION FairSpec
CONSTANTS
  a = a  b = b  c = c
  i1 = i1  i2 = i2  i3 = i3
  Modules = {a, b, c}
  Texts <- FlatTexts
  NoModule = NoModule
  NoEntry = NoEntry
  MaxEdits = 2
CHECK_DEADLOCK FALSE
INVARIANTS CyclesReported LoadOrder Fresh CacheWellFounded
PROPERTY EveryRunEnds
