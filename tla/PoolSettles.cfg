SPECIFICATION FairSpec
CONSTANTS
  Chars = {c1, c2}
  Items = {ore, sword}
  Rare = {sword}
  Exclusive = {sword}
  NoRareCheck = {}
  NoItem = none
  PoolSize = 2
  Life = 1
  ZoneWide = FALSE
  MaxLot = 2
  MaxRoom = 1
INVARIANTS
  TreasureTypeOK
  LottersAreMembers
PROPERTIES
  PassedNeverWins
  ItemsAreSettled
