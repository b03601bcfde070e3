SPECIFICATION FairSpec
CONSTANTS
  Chars = {c1, c2}
  Values = {v1, v2}
  WriteOrder <- OneFacet
  Effects = "Effects"
  LoadFlags = {}
  Direct = {}
  Initial = v1
  None = none
  MaxFaults = 0
INVARIANTS
  PersistTypeOK
PROPERTIES
  LeftForGood
  FlagsDrain
