SPECIFICATION HangingSpec
CONSTANTS
  j1 = j1
  j2 = j2
  Jobs = {j1, j2}
  NoJob = NoJob
  MaxRetries = 1
INVARIANTS
  TypeOK
  NoLostTermination
PROPERTIES
  NeverRestarted
  TerminatedJobsEnd
  RunReturnsUnlessThreadDied
CHECK_DEADLOCK FALSE
