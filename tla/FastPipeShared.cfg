SPECIFICATION FairSpec
CONSTANTS
  Readers = {"rw"}
  Writers = {"w1", "rw"}
  Byte = {0, 1}
  PipeBufLength = 2
  MaxCount = 2
  ReadPatience = 0
  WritePatience = 0
PROPERTIES
  ImplementsChannel
  CallsEnd
CHECK_DEADLOCK FALSE
