\* The handler of a timer that ran out runs after the packet's.
SPECIFICATION Spec
CONSTANTS
  MaxCommands = 1
  Replies = {"DATA"}
  Faults = {}
  ReadSize = 4
PROPERTIES TimeoutMeansNoPacket
CHECK_DEADLOCK FALSE
