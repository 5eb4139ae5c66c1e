----------------------------- MODULE MCFraming -----------------------------
(* Framing with every byte the two protocols treat in a way of its own, *)
(* and with the checksum of Crc16.                                      *)
EXTENDS Framing, Crc16

\* 163: four of them have FBGN at the end of their checksum.
MCSubwayBytes == {FBGN, FESC, TFBGN, TFESC, 163}
MCTerminalBytes == {FSSTR, FMSTR, FEND, FMID}

(* The library's checksum is the device's, unless the length it is of has  *)
(* wrapped: such a packet is never accepted, intact as it is.              *)
ASSUME WrappedIsRefused ==
    \A data \in SeqOf(SubwayBytes, MaxData) :
        LET p == SubwayPacket(data)
            n == Len(p) - 2
            crc == LibraryCrc(p, n)
        IN  SubSeq(p, n + 1, n + 2) = <<crc.low, crc.high>> <=> n < LengthMod

=============================================================================
