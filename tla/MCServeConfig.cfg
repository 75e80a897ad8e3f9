SPECIFICATION LiveSpec
CONSTANTS
  Callers = {c1, c2}
  Nobody = Nobody
  Limits <- Bounds
  Calls = 2
  Changes = 1
  Fails = 1
INVARIANTS
  TypeOK
  CacheCoversWrites
PROPERTIES
  WritesWhatWasAsked
  EveryCallReturns
CHECK_DEADLOCK FALSE
