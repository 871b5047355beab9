SPECIFICATION FairSpec
CONSTANTS
  Thread = {t1, t2}
  Sandboxed = {t1}
  MaxSignals = 2
  MaxPrompts = 1
INVARIANTS
  LeftAsFound
  HandlerNeverRaces
PROPERTIES
  ThreadsEnd
CHECK_DEADLOCK FALSE
