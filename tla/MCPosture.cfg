CONSTANTS
  Packages = {"linux", "sshd", "docker", "mysql", "redis", "nginx", "varnish", "phpfpm", "searchengine"}
  Setups <- MCSetups
  MaxChanges = 2
SPECIFICATION Spec
INVARIANTS
  TypeOK
  RiskIsShown
  ChecksAgree
PROPERTIES
  LossClearsNobody
  LossAccusesNobody
  HardeningPays
