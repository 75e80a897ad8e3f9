SPECIFICATION PartsSpec
CONSTANTS
  p1 = p1
  p2 = p2
  RatePerMin = 7
  MaxTime = 40
  Pauses = {8, 9, 20}
  Requests = {r1, r2}
  Main = Main
  Legacy = FALSE
  ConfigLimits <- MCConfigLimits
  Files = {f1}
  Own = Own
  Peers = {p1, p2}
  PeerLists <- MCPeerLists
  Senders = {s1, s2}
  SendLimits <- MCSendLimits
  Rebinds = {t1, t2}
  ListenerLimits <- MCListenerLimits
  Flushes = {a1, a2}
  FlushAt = 2
  BatchMax = 3
  TelemetryLimits <- MCTelemetryLimits
  Versions = {1, 2, 3}
  Current = 2
  Polls = {k1}
  Jobs = {q1, q2}
  UpdateLimits <- MCUpdateLimits
INVARIANTS
  PartsTypeOK
  GrantsBounded
  RetryIsExact
  SettingsKept
  NoShareLost
  SendsAccounted
  ListensAsAsked
  EachEventOnce
  OffersOnlyNewer
  NotFoundUnlessRaced
PROPERTIES
  TokenStableUnlessRaced
  EverySendEnds
CHECK_DEADLOCK FALSE
