SPECIFICATION Spec
CONSTANTS
  base = base
  derived = derived
  other = other
  ExTypes = {base, derived}
  Ancestors <- MCAncestors
  Kinds = {"try", "throw", "expr", "ternary", "return", "while", "break"}
  Tops = {"void"}
  MaxTokens = 4
  MaxDepth = 3
  ReleaseThrows = FALSE
INVARIANTS
  ReleasedOnce
  NothingLeaks
  CaughtByInnermost
