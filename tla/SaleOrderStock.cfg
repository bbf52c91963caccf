CONSTANTS
  o1 = o1 o2 = o2 w1 = w1 w2 = w2 i1 = i1 None = None
  Orders = {o1, o2}
  Warehouses = {w1, w2}
  StockItems = {i1}
  Flows <- MCFlows
  Transitions <- MCTransitions
  Rollbacks <- MCRollbacks
  Edits <- MCEdits
  Opening <- MCOrder
  OnHand <- MCOnHand
  Lote = {o2}
  MaxOnHand = 1
SPECIFICATION Spec
INVARIANTS StockConserved ConsumedOnce PolicyCoversStock
PROPERTY ReservedKept
CHECK_DEADLOCK FALSE
