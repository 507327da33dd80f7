SPECIFICATION Spec
CONSTANTS
  Names = {f, g}
  Forms = {"single", "several", "nested"}
  MaxClasses = 3
  MaxTokens = 5
SYMMETRY Symmetry
INVARIANTS
  VirtualCallsReachOverride
  NoAbstractEntry
  DestructorReached
  NoInternalError
CHECK_DEADLOCK FALSE
