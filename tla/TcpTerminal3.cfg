\* Three commands that wait for their replies.
SPECIFICATION Spec
CONSTANTS
    MaxCommands = 3
    Replies = {"DATA"}
    Faults = {}
    ReadSize = 6
    Request = {gate, barrier}
    Unassigned = unassigned
    Timeouts = {TRUE}
INVARIANTS
    OneListener
    WaitingClientHasWaker
    MisattributionNeedsSameRequest
    ReplyUsedOnce
\* The application may stop issuing commands, and Close ends the system.
CHECK_DEADLOCK FALSE
