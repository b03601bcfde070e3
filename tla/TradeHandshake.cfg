SPECIFICATION TradeSpec
CONSTANTS
  p1 = p1
  p2 = p2
  p3 = p3
  gil = gil
  none = none
  arrow = arrow
  potion = potion
  Players = {p1, p2, p3}
  Size = 0
  Kinds = {gil}
  Gil = gil
  NoKind = none
  StackSize <- MCStackSize
  Rare = {}
  Ammo = {}
  Txs = {t1, t2}
  Trades = {t1, t2}
  Idle = idle
  Irreversible = {}
  Loaded <- Purses
  FirstUid = 4
  MaxUid = 20
  MaxUndos = 9
  MaxFaults = 0
  TradeSlots = {}
  Exclusive = {}
  Targids = {1, 2, 3}
  Nobody = nobody
  Away = away
  Entrances = 1
  Restless = {}
INVARIANTS
  OpenTradeIsMutual
SYMMETRY Interchangeable
CHECK_DEADLOCK FALSE
