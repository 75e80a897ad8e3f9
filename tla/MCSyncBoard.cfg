SPECIFICATION BoardSpec
CONSTANTS
  Posts = {p1, p2, p3, p4}
  Cap = 2
  Owner = Owner
  Nobody = Nobody
  BoardLimits <- Bounds
SYMMETRY Symmetry
INVARIANTS
  BoardTypeOK
  ListedHasPayload
  NothingLeaks
PROPERTIES
  ShownSpec
CHECK_DEADLOCK FALSE
