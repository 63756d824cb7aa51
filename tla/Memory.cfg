\* Three processes or threads; enough pages for two forks or for both regions.
SPECIFICATION Spec
CONSTANTS
  NPages = 15
  MaxCalls = 6
  NText = 1
  NData = 1
  MaxPid = 3
  MaxBreak = 2
  MaxMap = 2
  MaxAddr = 2
INVARIANTS
  OneUse
  
  TablesMatch
  
  CountsExact
CHECK_DEADLOCK FALSE
