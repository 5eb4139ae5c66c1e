\* Two requests whose replies may arrive in one chunk.
SPECIFICATION Spec
CONSTANTS
    MaxCommands = 2
    Replies = {"DATA"}
    Faults = {}
    ReadSize = 4
    Request = {gate, barrier}
    Unassigned = unassigned
    Timeouts = {TRUE}
INVARIANTS
    HeardIsAnswered
CHECK_DEADLOCK FALSE
