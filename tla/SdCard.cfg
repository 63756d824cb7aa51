\* Two data sectors, both kinds of card, two faults, one reset of the board.
SPECIFICATION Spec
CONSTANTS
  Last = 2
  Data = {"x", "y"}
  BSIZE = 2
  Tries = 3
  Slow = 1
  MaxCalls = 2
  MaxMisses = 2
  MaxResets = 1
INVARIANTS
  InitMatchesCard
  InitSucceeds
  ReadsRight
  WritesLand
  InStep
PROPERTIES
  OthersKept
  CallReturns
CHECK_DEADLOCK FALSE
