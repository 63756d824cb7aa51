SPECIFICATION Spec
CONSTANTS
  NTests = 1
  MaxClones = 2
  Pointers = {"stack"}
  UnfreezeAfter = 0
  IntMax = 1
INVARIANT
  StatusStored
