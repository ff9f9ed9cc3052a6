SPECIFICATION FairSpec
CONSTANTS
  s1 = s1
  s2 = s2
  Order <- TwoServers
  Export <- Lists
  Valid <- Names
  Known <- Inventory
CHECK_DEADLOCK FALSE
INVARIANTS CatalogSound VerifiedIsServable NoSlotLeft NoneLeftBehind
PROPERTIES Decided
