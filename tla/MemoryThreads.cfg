\* A thread that ends before its creator.
SPECIFICATION Spec
CONSTANTS
  NPages = 15
  MaxCalls = 6
  NText = 1
  NData = 1
  MaxPid = 3
  MaxBreak = 2
  MaxMap = 2
  MaxAddr = 2
INVARIANTS
  StacksNotFree
CHECK_DEADLOCK FALSE
