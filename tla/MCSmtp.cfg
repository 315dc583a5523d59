CONSTANTS
  Recipients <- MCRecipients
  TLSModes = {"starttls", "implicit", "none", "odd"}
SPECIFICATION FairSpec
INVARIANTS
  TypeOK
  NothingInTheClear
  WholeEnvelope
PROPERTIES
  KeepsPromise
  OnlyServerHolds
\* Send returns, or waits for a server that does not answer.
CHECK_DEADLOCK FALSE
