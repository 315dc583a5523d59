CONSTANTS
  Packages = {"mysql"}
  Setups <- MCSetups
  MaxChanges = 2
SPECIFICATION Spec
INVARIANTS
  SocketPolicyAccepted
