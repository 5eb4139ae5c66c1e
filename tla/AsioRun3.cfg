\* Three commands, bytes read one at a time, errors of the port.
SPECIFICATION Spec
CONSTANTS
  MaxCommands = 3
  Replies = {"DATA", "NACK"}
  Faults = {"read", "write"}
  ReadSize = 1
INVARIANTS
  RunReturnsAnswered
  NothingOutlivesCommand
  MisattributionNeedsTimeout
  IoErrorIsAFault
PROPERTIES
  ImplementsCommandService
\* The application may stop issuing commands.
CHECK_DEADLOCK FALSE
