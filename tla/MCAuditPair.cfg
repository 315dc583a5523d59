CONSTANTS
  Registries <- MCPair
  Modes = {"audit", "all", "detect"}
  MaxChanges = 1
SPECIFICATION FairSpec
INVARIANTS
  OneResultPerCheck
  AbsenceExplained
PROPERTY Terminates
\* The audit ends.
CHECK_DEADLOCK FALSE
