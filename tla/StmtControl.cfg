SPECIFICATION Spec
CONSTANTS
  base = base
  derived = derived
  other = other
  ExTypes = {base}
  Ancestors <- MCAncestors
  Kinds = {"call", "return", "break", "continue", "ifdefine", "while", "foriter"}
  Tops = {"void", "module"}
  MaxTokens = 4
  MaxDepth = 2
  ReleaseThrows = FALSE
INVARIANTS
  TerminalIsTerminated
  ReleasedOnce
  NothingLeaks
