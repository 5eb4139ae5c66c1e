\* Two sectors, so that one can be open and another asked for; a write shows
\* in the block's encryption, so that one content is enough.
SPECIFICATION Spec
CONSTANTS
    Sectors = 2
    Blocks = 1
    Keys = {0, 1}
    Encs = {plain, coded}
    Contents = {blank}
    NoEnc = plain
    Blank = blank
INVARIANTS
    OneSectorOpen
    OpenWasGranted
PROPERTIES
    ClosedIsUntouched
CHECK_DEADLOCK FALSE
