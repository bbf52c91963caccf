CONSTANTS
  r1 = r1
  r2 = r2
  Requests = {r1, r2}
  Orders = {1}
  MaxRevision = 3
SPECIFICATION Spec
SYMMETRY MCSymmetry
INVARIANT OneCurrent
INVARIANT OneDraft
INVARIANT DraftsOnlyInTests
PROPERTY PublicationComplete
