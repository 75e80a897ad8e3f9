SPECIFICATION MCSpec
CONSTANTS
  Files = {1, 2}
  Names = {n}
  Requests = {r}
  MaxSuffix = 2
  MaxEvents = 1
  NoFile = NoFile
  Other = Other
  Cap = 1
INVARIANTS
  TypeOK
  SavedOnce
PROPERTIES
  EveryFileIsSaved
  PageCatchesUp
