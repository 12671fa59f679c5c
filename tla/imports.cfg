\* Two imports of one player; every operation named may fail.
CONSTANTS
  Imports = {i1, i2}
  Player = player
  None = None
  Slots = 3
  Uploads <- SomeUploads
  Cap = 3
  MaxDepth = 2
  WorldSav = 0
  RegionNames = {1, 3}
  Faults = {"upload", "list", "clear", "rename", "chown", "rollback"}
  MaxCrashes = 1
SPECIFICATION Spec
INVARIANTS UploadsReadRightly PlayerRegionsKept SourcesStayStaged InstalledAreOwned
PROPERTIES AnswerIsTrue
SYMMETRY Symmetry
CHECK_DEADLOCK FALSE
