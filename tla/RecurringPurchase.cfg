CONSTANTS
  r1 = r1  r2 = r2  Job = Job
  Requests = {r1, r2}
  Len = 2
  Windows = {1}
  MaxDay = 4
  MaxCalls = 2
  MaxPayables = 2
  MaxFaults = 1
SPECIFICATION FairSpec
INVARIANTS NoPeriodSkipped
PROPERTIES RecordedNotResent DueIsGenerated
CHECK_DEADLOCK FALSE
