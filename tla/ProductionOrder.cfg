SPECIFICATION LiveSpec
CONSTANTS
  ProductionOrders = {o1, o2}
  Workers = {w1}
  Quantities = {0, 1}
  Usages = {1, 2}
  Waits = {"past", "far"}
  OpeningOnHand = 4
  Others = 1
  MaxFaults = 1
INVARIANTS HoldsWhatItNeeds PostedOnceClosed InProgressIsWatched
PROPERTIES StartedEnds
CHECK_DEADLOCK FALSE
