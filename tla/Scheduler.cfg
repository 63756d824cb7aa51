SPECIFICATION FairSpec
CONSTANTS
  NTests = 2
  MaxClones = 2
  Pointers = {"null", "stack", "data"}
  UnfreezeAfter = 1
  IntMax = 2
INVARIANTS
  OneState
  
  NoLostExit
  DeadWaitIsReal
  
PROPERTIES
  SignalledWaiterRuns
  
