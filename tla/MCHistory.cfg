SPECIFICATION LiveSpec
CONSTANTS
  Names = {f, g}
  Owners = {o1}
  Grace = 1
  MaxKept = 3
  Limits <- Bounds
  Arrivals = 2
  Rest = 2
INVARIANTS
  TypeOK
  SessionsSurviveRestart
  SessionsAreSeparate
PROPERTIES
  VanishedIsClosed
CHECK_DEADLOCK FALSE
