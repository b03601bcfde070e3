SPECIFICATION Spec
CONSTANTS
  Chars = {c1}
  Values = {v1, v2}
  WriteOrder <- ThreeFacets
  Effects = "Effects"
  LoadFlags = {"Equip"}
  Direct = {"Equip"}
  Initial = v1
  None = none
  MaxFaults = 2
INVARIANTS
  OwedOrOnItsWay
PROPERTIES
  NeverGoesBack
