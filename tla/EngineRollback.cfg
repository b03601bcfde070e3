SPECIFICATION FairSpec
CONSTANTS
  p1 = p1
  gil = gil
  arrow = arrow
  ring = ring
  none = none
  Players = {p1}
  Size = 2
  Kinds = {gil, arrow, ring}
  Gil = gil
  NoKind = none
  StackSize <- MCStackSize
  Rare = {ring}
  Ammo = {arrow}
  Txs = {t1}
  Idle = idle
  Irreversible = {}
  Loaded <- OneBag
  FirstUid = 3
  MaxUid = 5
  MaxUndos = 4
  MaxFaults = 1
INVARIANTS
  TypeOK
  MemoryMatchesDatabase
PROPERTIES
  RollbackRestores
  RollbackEnds
CHECK_DEADLOCK FALSE
