SPECIFICATION ConfigSpec
CONSTANTS
  Requests = {r1}
  Main = Main
  Legacy = TRUE
  ConfigLimits <- MCConfigLimits
INVARIANTS
  RestartChangesNothing
CHECK_DEADLOCK FALSE
