\* A read that completed just before the timeout is started again after it.
SPECIFICATION FairSpec
CONSTANTS
  MaxCommands = 1
  Replies = {"DATA"}
  Faults = {}
  ReadSize = 1
PROPERTIES RunEndsAfterTimeout
CHECK_DEADLOCK FALSE
