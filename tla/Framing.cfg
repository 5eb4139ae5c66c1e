\* Data of up to three bytes; the largest packet fits the buffer exactly, and
\* only the length its checksum is computed over wraps.
SPECIFICATION Spec
CONSTANTS
    SubwayBytes <- MCSubwayBytes
    TerminalBytes <- MCTerminalBytes
    MaxData = 3
    LengthMod = 7
    BufferSize = 10
    LibraryCrc <- CRC16_Calc
    DeviceCrc <- Ccitt
INVARIANTS
    FilterOK
    FoundWithItsLastByte
    OnlyWhatWasSent
\* A packet that has been delivered is the end.
CHECK_DEADLOCK FALSE
