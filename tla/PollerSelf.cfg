SPECIFICATION Spec
CONSTANTS
  h1 = h1  h2 = h2  h3 = h3
  fd1 = fd1  fd2 = fd2  fd3 = fd3
  none = none  in = in
  Handle = {h1, h2, h3}
  Fd = {fd1, fd2, fd3}
  FdOf <- MCFdOf
  NoFd = NoFd
  Mask = {none, in}
  Zero = none
  NoEvent = NoEvent
  Capacity = 3
  May <- MaySelf
CHECK_DEADLOCK FALSE
INVARIANTS OneToOne IteratorOnCaller NothingRepeated
