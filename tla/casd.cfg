SPECIFICATION FairSpec
CONSTANTS
  t1 = t1
  t2 = t2
  Client = {t1, t2}
  Asked <- OneOfEach
  Monitor = monitor
  NoThread = none
INVARIANTS
  StubOrError
  NothingLeftBehind

  
CHECK_DEADLOCK FALSE
