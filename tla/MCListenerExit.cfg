SPECIFICATION ListenerSpec
CONSTANTS
  Rebinds = {t1}
  ListenerLimits <- MCListenerLimits
INVARIANTS
  StaysUp
CHECK_DEADLOCK FALSE
