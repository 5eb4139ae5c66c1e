\* Three commands, every interleaving; errors of the port.
SPECIFICATION Spec
CONSTANTS
  MaxCommands = 3
  Replies = {"DATA"}
  Faults = {"read", "write"}
  ReadSize = 4
INVARIANTS
  WaitingClientHasWaker
  OneListener
  MisattributionNeedsTimeout
  ReadsAccounted
  IoErrorNeedsTimeout
\* The application may stop issuing commands, and Close ends the system.
CHECK_DEADLOCK FALSE
