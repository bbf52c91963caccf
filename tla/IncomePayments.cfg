SPECIFICATION Spec
CONSTANTS
  o1 = o1
  o2 = o2
  r1 = r1
  b1 = b1
  Orders = {o1, o2}
  Payments = {1, 2}
  Refunds = {r1}
  Rows = {b1}
  LineAmount = 2
  Amounts = {1, 2}
  Totals = {1, 2}
  MaxCorrections = 1
  None = None
SYMMETRY MCSymmetry
INVARIANTS PaymentConserved CreditNotOverspent ClosedHoldsNothing ReconciliationSound
PROPERTY CancellationSettles
CHECK_DEADLOCK FALSE
