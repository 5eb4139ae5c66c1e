\* Two commands, every kind of reply, errors of the port.
SPECIFICATION FairSpec
CONSTANTS
  MaxCommands = 2
  Replies = {"DATA", "SHORT_DATA", "NACK", "BAD_CRC"}
  Faults = {"read", "write"}
  ReadSize = 4
INVARIANTS TypeOK
PROPERTIES
  ImplementsCommandService
  EveryCommandReturns
\* The application may stop issuing commands, and Close ends the system.
CHECK_DEADLOCK FALSE
