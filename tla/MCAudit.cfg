CONSTANTS
  Registries <- MCSingle
  Modes = {"audit", "all", "detect"}
  MaxChanges = 2
SPECIFICATION Spec
INVARIANTS
  TypeOK
  VerdictsAgree
  PassIsEarned
  AbsentNotJudged
PROPERTY LateVerdictsAreOld
\* The audit ends.
CHECK_DEADLOCK FALSE
