SPECIFICATION Spec
CONSTANTS
  Tokens = {1, 2}
  Uploads = {u1, u2}
  Removers = {r1, r2}
  Base = photos
  Bases = {photos}
  MaxSuffix = 2
  DaemonNames <- TakenByDaemon
  NoToken = NoToken
  NoFile = NoFile
  Nobody = Nobody
  MaxCrashes = 1
  MaxDiskErrs = 1
SYMMETRY Symmetric
INVARIANTS
  TypeOK
  NoUploadLost
  
PROPERTY
  NothingOverwritten
CHECK_DEADLOCK FALSE
