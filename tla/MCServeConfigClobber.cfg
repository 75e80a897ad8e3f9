SPECIFICATION Spec
CONSTANTS
  Callers = {c1, c2}
  Nobody = Nobody
  Limits <- Bounds
  Calls = 2
  Changes = 1
  Fails = 1
PROPERTIES
  ConcurrentChangeSurvives
CHECK_DEADLOCK FALSE
