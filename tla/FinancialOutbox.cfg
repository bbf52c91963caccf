CONSTANTS
  p1 = p1  p2 = p2
  Publishers = {p1, p2}
  Events = {1, 2, 3}
  BatchLimit = 2
  MAX_ATTEMPTS = 2
  MaxRetries = 1
  MaxLosses = 1
SPECIFICATION FairOutboxSpec
INVARIANTS SentOnceUnlessLost RoundsComplete
PROPERTY Delivered
