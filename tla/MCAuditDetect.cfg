CONSTANTS
  Registries <- MCSingle
  Modes = {"detect"}
  MaxChanges = 0
SPECIFICATION Spec
INVARIANT DetectRunsNoCheck
\* The audit ends.
CHECK_DEADLOCK FALSE
