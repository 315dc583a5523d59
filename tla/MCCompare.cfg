CONSTANTS
  Ids = {1, 2}
  Ratings <- MCRatings
  ModuleOf <- MCModuleOf
  MaxAudits = 2
SPECIFICATION Spec
INVARIANTS
  LedgerExact
  MirrorImage
  SilenceMeansSame
\* The comparisons end with the last report.
CHECK_DEADLOCK FALSE
