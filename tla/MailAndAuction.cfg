SPECIFICATION MCSpec
CONSTANTS
  a = a
  b = b
  g = g
  Chars = {a, b}
  Goods = {g}
  Gil = Gil
  Sums = {1, 2}
  Cells = {0, 1}
  None = None
  Belongings <- MCBelongings
  BagSize = 2
  Savings <- MCSavings
  MaxInflight = 2
  MaxFaults = 1
  MaxDeletions = 1
  Fee = 1
  ListLimit = 1
  MaxListings = 1
INVARIANTS
  AuctionTypeOK
  CancelFindsTheMail
  
  
  
