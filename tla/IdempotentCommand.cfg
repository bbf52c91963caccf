CONSTANTS
  a1 = a1  a2 = a2  a3 = a3  k1 = k1  k2 = k2  q1 = q1  q2 = q2
  Attempts = {a1, a2, a3}
  Keys = {k1, k2}
  CancelKeys = {k2}
  Requests = {q1, q2}
  NoResolution = q1
  None = None
SPECIFICATION FairSpec
INVARIANTS NoFalseRefusal
PROPERTIES KeepsPromise Answered

