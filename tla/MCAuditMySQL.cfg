CONSTANTS
  Registries <- MCMySQL
  Modes = {"audit"}
  MaxChanges = 0
SPECIFICATION Spec
INVARIANT MySQLPassIsEarned
\* The audit ends.
CHECK_DEADLOCK FALSE
