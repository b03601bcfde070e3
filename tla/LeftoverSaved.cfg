SPECIFICATION Spec
CONSTANTS
  Procs = {"p1", "p2"}
  Zones = {"z1", "z2"}
  Host <- HostOf
  Addrs = {a1}
  LoginServer = login
  Home = "z1"
  None = none
  MaxLogins = 2
  MaxHops = 2
  MaxVersion = 1
  MaxStrays = 1
  MaxCrashes = 0
PROPERTIES
  OtherMapIsSpared
CHECK_DEADLOCK FALSE
