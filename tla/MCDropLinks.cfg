SPECIFICATION LiveSpec
CONSTANTS
  Tokens = {t1}
  Uploads = {u1, u2}
  Admins = {a1, a2}
  Dirs = {}
  Lifetimes = {60}
  UseLimits = {0, 1}
  RateLimits = {0, 1}
  NoLink = NoLink
  NoDir = NoDir
  Nobody = Nobody
  TickSecs = 61
  MaxTime = 61
  MaxCrashes = 1
  MaxDiskErrs = 1
INVARIANTS
  TypeOK
  UploadsSerialized
  UseBudget
  LandedWithinBudget
  UsesAreUploads
  WrittenWhenQuiet
PROPERTIES
  RevokedMeansGone
  EveryUploadAnswered
CHECK_DEADLOCK FALSE
