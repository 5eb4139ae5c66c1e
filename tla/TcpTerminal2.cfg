\* Two commands, with or without a timeout, good and bad replies, every error.
SPECIFICATION FairSpec
CONSTANTS
    MaxCommands = 2
    Replies = {"DATA", "BAD_CRC"}
    Faults = {"read", "write"}
    ReadSize = 4
    Request = {gate, barrier}
    Unassigned = unassigned
    Timeouts = {TRUE, FALSE}
INVARIANTS
    NoAnswerIsTimeout
PROPERTIES
    ImplementsCommandService
    EveryCommandReturns
\* The application may stop issuing commands, and Close ends the system.
CHECK_DEADLOCK FALSE
