\* Hosts of up to three endpoints; two cards of different types, two calls,
\* packages of two frames.
SPECIFICATION FairLifeSpec
CONSTANTS
    MaxEndpoints = 3
    c1 = c1
    c2 = c2
    Cards = {c1, c2}
    OtherType = {c2}
    Faults = {"error", "late", "zero"}
    MaxLate = 1
    MaxCalls = 2
    FrameSize = 2
    Lengths = {3, 4}
INVARIANTS
    OnlyTheLastCounts
    ClosedOnlyByTimer
    InterruptedFails
    PackageWhole
    SavesWhatIsOpen
PROPERTIES
    SpeaksOfTheCard
    EveryCallReturns
\* The caller may stop making calls, and closing ends the system.
CHECK_DEADLOCK FALSE
