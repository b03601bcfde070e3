SPECIFICATION MCSpec
CONSTANTS
  Chars <- MCChars
  Procs = {p1, p2}
  None = none
  MaxMembers = 3
  Hasty = FALSE
  MaxActs = 2
  MaxCrashes = 0
INVARIANTS
  KickIsHeard
CHECK_DEADLOCK FALSE
