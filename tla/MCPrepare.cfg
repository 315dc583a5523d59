CONSTANTS
  Results <- MCResults
  MaxResults = 3
  ModuleIds <- MCModuleIds
  MaxModules = 2
  TopLimit = 2
  MaxPasses = 1
  PageLimit = 2
  HostLimit = 1
SPECIFICATION Spec
INVARIANTS
  TypeOK
  CountsExact
  FindingsSorted
  TopIsWorst
  RowsAgree
  ScoreMeans
  PagesComplete
  TopHeadsPage
  WordsFitPage
PROPERTY SecondPassAgrees
\* PrepareReport returns: a report is prepared and that is the end of it.
CHECK_DEADLOCK FALSE
