SPECIFICATION Spec
CONSTANTS
  p1 = p1
  gil = gil
  arrow = arrow
  ring = ring
  none = none
  Players = {p1}
  Size = 2
  Kinds = {gil, arrow, ring}
  Gil = gil
  NoKind = none
  StackSize <- MCStackSize
  Rare = {arrow}
  Ammo = {arrow}
  Txs = {t1, t2}
  Idle = idle
  Irreversible = {t2}
  Loaded <- OneBag
  FirstUid = 3
  MaxUid = 4
  MaxUndos = 2
  MaxFaults = 0
INVARIANTS
  ClaimsExclusive
PROPERTIES
  HolderOnly
  DeadClaimsStayDead
  ImplementsAtomic
CHECK_DEADLOCK FALSE
