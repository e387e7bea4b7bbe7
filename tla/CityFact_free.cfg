SPECIFICATION SameModeSpec
CONSTANTS
  Run = {q1}
  NoRun = NoRun
  MaxRetries = 1
SYMMETRY Symmetry
INVARIANTS
  FreeFactNeedsNoLlm
CHECK_DEADLOCK FALSE
