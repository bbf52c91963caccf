CONSTANTS
  r1 = r1  r2 = r2  x1 = x1  x2 = x2
  Handlers = {r1, r2}
  Receptions = {x1, x2}
  Ordered = 2
  Counts <- MCCounts
  Spare = 1
  MaxActs = 5
  MaxRestarts = 1
  Timer = Timer
  None = None
SPECIFICATION FairPurchaseSpec
INVARIANTS ReceptionStatusTrue StockAsRecorded
PROPERTIES SentIsAwaited
CHECK_DEADLOCK FALSE
