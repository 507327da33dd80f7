SPECIFICATION Spec
CONSTANTS
  owner = owner
  user = user
  Threads = {owner, user}
  May <- MCMay
  Conns = {c1, s1}
  Served = {s1}
  MaxCalls = 3
  MaxStarts = 1
  Orderly = TRUE
  AddResponder = "fail"
  Handler = {"returns"}
  Accept = {"socket"}
INVARIANTS
  TerminatedOnce
  PolledIsOpen
PROPERTIES
  EveryCallReturns
  WrittenIsSent
CHECK_DEADLOCK FALSE
