CONSTANTS
  Invocations = {p}
  None = None
  Options <- MCAllOptions
  MaxMinute = 2
SPECIFICATION FairSpec
INVARIANTS
  SuccessIsComplete
  TempRemoved
PROPERTY OnlyChildHolds
\* The invocation ends.
CHECK_DEADLOCK FALSE
