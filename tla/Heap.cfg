SPECIFICATION FairSpec
CONSTANTS
  NBits = 12
  Sizes = {0, 8, 16, 24}
  MaxSize = 24
  Beyond = {14}
INVARIANTS
  RunsAreBlocks
  BlocksDisjoint
  NoLeak
PROPERTIES
  AllocEnds
