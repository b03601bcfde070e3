SPECIFICATION FairSpec
CONSTANTS
  Procs = {"p1", "p2"}
  Zones = {"z1", "z2"}
  Host <- HostOf
  Addrs = {a1, a2}
  LoginServer = login
  Home = "z1"
  None = none
  MaxLogins = 2
  MaxHops = 2
  MaxVersion = 1
  MaxStrays = 1
  MaxCrashes = 1
INVARIANTS
  SessionTypeOK
  OneOwner
  RowStands
  ClientIsUnderstood
PROPERTIES
  OlderOnlyFromLeftovers
  SessionsDrain
CHECK_DEADLOCK FALSE
