SPECIFICATION Spec
CONSTANTS
  NFd = 5
  MaxPipe = 2
  PipeRefs = 2
  MaxUnits = 4
  MaxOpened = 5
  MaxSize = 1
  MaxCalls = 5
  MaxBoots = 2
  Paths <- MCPaths
  Raw <- MCRaw
  Targets = {0, 1}
  Modes <- MCModes
  Cards <- MCCards
INVARIANTS
  DescriptorsUsable
  FilesCounted
  ClosedIsRecorded
  PipesApart
PROPERTIES
  StaysReachable
CHECK_DEADLOCK FALSE
