CONSTANTS
  Packages = {"searchengine"}
  Setups <- MCSetups
  MaxChanges = 2
SPECIFICATION Spec
INVARIANTS
  LocalhostAccepted
