CONSTANTS
  u1 = u1  u2 = u2  i1 = i1  i2 = i2
  Uploads = {u1, u2}
  Images = {i1, i2}
  RecoveryAttempts = 2
  MaxCrashes = 1
  MaxDamage = 1
  Nothing = Nothing
SPECIFICATION FairEvidenceSpec
INVARIANTS EvidenceKept StoredWhatWasSent
PROPERTIES RecoveredOrGivenUp
CHECK_DEADLOCK FALSE
