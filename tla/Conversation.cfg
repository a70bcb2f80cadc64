SPECIFICATION Spec
CONSTANTS
  None = None
  N = 3
  Acts = {mine, craft}
  Codes = {"missing_item"}
  Stock = {0, 1}
  RoundLimit = 2
INVARIANTS
  ChainsLinkFailures
  InventoryToldOnce
PROPERTIES
  KeepsUp
