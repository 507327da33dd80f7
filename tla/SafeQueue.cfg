SPECIFICATION Spec
CONSTANTS
  Thread = {t1, t2, t3}
  NoThread = NoThread
  Spurious = TRUE
  Elem = {a, b}
  NoElem = NoElem
  MaxAdds = 3
SYMMETRY Symmetry
CHECK_DEADLOCK FALSE
INVARIANTS TakenIsFirst NoLostWakeup
PROPERTY FifoSpec
