SPECIFICATION FairSpec
CONSTANTS
  MaxCommands = 3
  Replies = {"DATA"}
  Faults = {"read", "write"}
  ReadSize = 1
INVARIANTS
  StaleNeedsTimeout
  OwnWriteOnly
  ReadsNeedTimeout
  Cp210xQuiet
  TimeoutOfTheWaiting
PROPERTIES
  ReturnsUnlessUnheard
  ImplementsCommandService
\* the caller may stop issuing commands, and closing ends the system
CHECK_DEADLOCK FALSE
