SPECIFICATION Spec
CONSTANTS
  Keys <- MCKeys
  Values <- MCValues
  Default <- MCDefault
  Ssids = {"cafe"}
  CfgSize = 4
  ItemBound = 4
INVARIANTS ReadableAtBoot StationStaysLearnt
PROPERTIES SetChangesOneItem
