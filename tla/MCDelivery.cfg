CONSTANTS
  Invocations = {p, q}
  None = None
  Options <- MCOptions
  MaxMinute = 2
SPECIFICATION Spec
SYMMETRY Permuted
INVARIANTS
  TypeOK
  LinksResolve
  AttachmentIsOwn
  ArtifactsAsAsked
  BatchFailsForAReason
\* The invocations end.
CHECK_DEADLOCK FALSE
