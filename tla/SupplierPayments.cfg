SPECIFICATION Spec
CONSTANTS
  Requests = {r1, r2}
  Payments = {p1, p2}
  Total = 2
  Opening = 1
  r1 = r1  r2 = r2  p1 = p1  p2 = p2
  Amount <- MCAmount
SYMMETRY MCSymmetry
INVARIANTS PayableBalanced QuotaWithinAllocated PaidIsPosted
CHECK_DEADLOCK FALSE
