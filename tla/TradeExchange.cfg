SPECIFICATION FairTradeSpec
CONSTANTS
  p1 = p1
  p2 = p2
  p3 = p3
  gil = gil
  arrow = arrow
  potion = potion
  none = none
  Players = {p1, p2}
  Size = 2
  Kinds = {gil, arrow, potion}
  Gil = gil
  NoKind = none
  StackSize <- MCStackSize
  Rare = {potion}
  Ammo = {arrow}
  Txs = {t1, b1}
  Trades = {t1}
  Idle = idle
  Irreversible = {}
  Loaded <- Goods
  FirstUid = 5
  MaxUid = 20
  MaxUndos = 9
  MaxFaults = 1
  TradeSlots = {1, 2}
  Exclusive = {}
  Targids = {1, 2}
  Nobody = nobody
  Away = away
  Entrances = 0
  Restless = {p1}
INVARIANTS
  TradeTypeOK
  StagedIsHeld
  NothingIsLost
PROPERTIES
  SwapIsExact
  TradeCloses
CHECK_DEADLOCK FALSE
