SPECIFICATION Spec
CONSTANTS
  NFatEnt = 6
  CSize = 2
  SS = 2
  NFats = 2
  Files <- MCFiles
  Dirs <- MCDirs
  LongNames = {"long"}
  Lengths = {1, 5}
  Offsets = {0, 6}
  MaxOps = 5
  MaxCrashes = 1
INVARIANTS VolumeSound CompletedStays ReadsBack   FreeCountExact NoLostClusters
CHECK_DEADLOCK FALSE
