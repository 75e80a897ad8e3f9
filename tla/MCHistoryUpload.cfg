SPECIFICATION Spec
CONSTANTS
  Names = {f}
  Owners = {o1}
  Grace = 2
  MaxKept = 5
  Limits <- Bounds
  Arrivals = 1
  Rest = 2
PROPERTIES
  WaitingNotMarkedDeleted
CHECK_DEADLOCK FALSE
