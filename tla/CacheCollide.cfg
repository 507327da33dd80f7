SPECIFICATION Spec
CONSTANTS
  Procs = {p1, p2, p3}
  Versions = {v1, v2}
  Inodes = {i1, i2, i3, i4, i5, i6, i7, i8, i9, i10, i11}
  NoFile = NoFile
  NoVersion = NoVersion
  MaxRunning = 3
  Edits = "idle"
  Crashes = TRUE
  PidReuse = FALSE
  DiskFull = FALSE
  Unopenable = {"bc"}
SYMMETRY Symmetry
INVARIANTS
  WholeFiles
  CacheSurvives
  NothingLeftBehind
CHECK_DEADLOCK FALSE
