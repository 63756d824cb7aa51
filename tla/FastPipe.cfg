\* One reader, one writer, data longer than the pipe.
SPECIFICATION Spec
CONSTANTS
  Readers = {"r1"}
  Writers = {"w1"}
  Byte = {0, 1}
  PipeBufLength = 3
  MaxCount = 3
  ReadPatience = 0
  WritePatience = 0
INVARIANTS
  CountsAreFresh
  SelectStaysTrue
PROPERTIES
  ImplementsChannel
CHECK_DEADLOCK FALSE
