SPECIFICATION Spec
CONSTANTS
  Tokens = {1, 2}
  Uploads = {u1, u2}
  Removers = {r1, r2}
  Base = photos
  Bases = {photos}
  MaxSuffix = 2
  DaemonNames <- TakenByDaemon
  NoToken = NoToken
  NoFile = NoFile
  Nobody = Nobody
  MaxCrashes = 0
  MaxDiskErrs = 0
SYMMETRY Symmetric
INVARIANT
  UploadNamesUnique
CHECK_DEADLOCK FALSE
