------------------------------ MODULE Framing ------------------------------
(***************************************************************************)
(* The byte level of both protocols: a reply packet of the device, stuffed *)
(* and cut into chunks by the line in any way, and the protocol object     *)
(* that is fed the chunks.  The line may first deliver what is left of an  *)
(* earlier packet.  Exchange and TcpTerminal work on two fragments instead *)
(* of bytes; this module is why that is enough.                            *)
(***************************************************************************)
EXTENDS Integers, Sequences, SequencesExt

CONSTANTS SubwayBytes,       \* bytes the data of a subway packet is made of
          TerminalBytes,     \* bytes the data of a terminal packet is made of
          MaxData,           \* bound: bytes of data in a packet
          BufferSize,        \* of the unbytestaffers (1024 in the code)
          LibraryCrc(_, _),  \* the library's checksum: of a buffer, of a length
          DeviceCrc(_)       \* the device's, a number of 16 bits

FBGN == 255
FESC == 241
TFBGN == 242
TFESC == 243
FSSTR == 62
FMSTR == 60
FEND == 59
FMID == 47
FACK == 43
ADDR == 1
CODE == 71
Byte == 0..255

ASSUME FramingAssumption ==
    /\ SubwayBytes \subseteq Byte /\ TerminalBytes \subseteq Byte
    /\ MaxData \in Byte
    /\ BufferSize \in Nat /\ MaxData + 7 <= BufferSize   \* a packet fits

VARIABLES protocol,  \* "subway" or "terminal"
          packet,    \* the packet the device sends
          wire,      \* bytes the line has not delivered yet
          clean,     \* no start byte was left of an earlier packet
          filter,    \* the unbytestaffer: buffer, waiting, escape, completed
          state      \* the protocol: "listening", or what set_answer was given

vars == <<protocol, packet, wire, clean, filter, state>>

-----------------------------------------------------------------------------
(* Packets, and what the sender does to them. *)

(* The device's checksum is of all bytes before it. *)
SubwayPacket(data) ==
    LET p == <<FBGN, 0, 2, Len(data)>> \o data
        crc == DeviceCrc(p)
    IN  p \o <<crc % 256, crc \div 256>>

Total(s) == LET sum[i \in 0..Len(s)] == IF i = 0 THEN 0 ELSE sum[i - 1] + s[i] IN sum[Len(s)]

(* checksum_calc of a packet: the bytes between start and checksum. *)
checksum_calc(p) ==
    LET sum == Total(SubSeq(p, 2, Len(p) - 3)) % 65536 IN <<sum \div 256, sum % 256>>

TerminalPacket(data) ==
    LET p == <<FSSTR, FACK, ADDR, CODE>> \o data
        sum == checksum_calc(p \o <<0, 0, FEND>>)
    IN  p \o sum \o <<FEND>>

Escaped(c) ==
    CASE c = FBGN -> <<FESC, TFBGN>>
      [] c = FESC -> <<FESC, TFESC>>
      [] OTHER    -> <<c>>

TerminalEscaped(c) == IF c \in {FSSTR, FMSTR, FEND, FMID} THEN <<FMID, c>> ELSE <<c>>

(* bytestaff: the first byte is not looked at. *)
bytestaff(p) ==
    FlattenSeq([i \in 1..Len(p) |-> IF i = 1 THEN <<p[i]>> ELSE Escaped(p[i])])

(* terminal_bytestaff: neither the first nor the last byte. *)
terminal_bytestaff(p) ==
    FlattenSeq([i \in 1..Len(p) |-> IF i \in {1, Len(p)} THEN <<p[i]>> ELSE TerminalEscaped(p[i])])

-----------------------------------------------------------------------------
(* The receiving side. *)

Fresh == [buffer |-> <<>>, waiting |-> TRUE, escape |-> FALSE, completed |-> FALSE]

Listening == [result |-> "NONE"]
Failed(error) == [result |-> error]
Reply(code, data) == [result |-> "SUCCESS", code |-> code, data |-> data]

Least(m, n) == IF m < n THEN m ELSE n

(* Variant: room is made for both bytes of an unknown escape. *)
StoreBoth(f, bytes) ==
    [f EXCEPT !.buffer = @ \o bytes, !.waiting = FALSE, !.escape = FALSE]

(* What does not fit is dropped. *)
Store(f, bytes) ==
    [f EXCEPT !.buffer = SubSeq(@ \o bytes, 1, Least(Len(@ \o bytes), BufferSize)),
              !.waiting = FALSE, !.escape = FALSE]

Full(f) == Len(f.buffer) >= BufferSize

(* One byte through SubwayUnbytestaffer::feed. *)
SubwayStep(f, c) ==
    IF (f.waiting /\ c # FBGN) \/ Full(f) THEN f
    ELSE IF f.escape THEN Store(f, IF c = TFBGN THEN <<FBGN>>
                                   ELSE IF c = TFESC THEN <<FESC>> ELSE <<FESC, c>>)
    ELSE IF c = FESC THEN [f EXCEPT !.escape = TRUE]
    ELSE Store(f, <<c>>)

(* One byte through TerminalUnbytestaffer::feed: an escaped byte before    *)
(* the start is skipped with its escape.                                   *)
TerminalStep(f, c) ==
    IF Full(f) \/ f.completed THEN f
    ELSE IF f.escape THEN IF f.waiting THEN [f EXCEPT !.escape = FALSE] ELSE Store(f, <<c>>)
    ELSE IF ~f.waiting /\ c = FEND THEN [Store(f, <<c>>) EXCEPT !.completed = TRUE]
    ELSE IF c = FMID THEN [f EXCEPT !.escape = TRUE]
    ELSE IF f.waiting /\ c # FSSTR THEN f
    ELSE Store(f, <<c>>)

(* Variant: an escape does not survive the end of a chunk. *)
EscapeForgotten(f) == [f EXCEPT !.escape = FALSE]

(* escape is a member: it does. *)
NextChunk(f) == f

Step(f, c) == IF protocol = "subway" THEN SubwayStep(f, c) ELSE TerminalStep(f, c)

Feed(chunk) ==
    LET after[i \in 0..Len(chunk)] ==
            IF i = 0 THEN NextChunk(filter) ELSE Step(after[i - 1], chunk[i])
    IN  after[Len(chunk)]

full_size(b) == 4 + b[4] + 2

(* Variant: the checksum's two bytes are not waited for. *)
HeaderAndData(b) == Len(b) >= 4 /\ Len(b) >= 4 + b[4]

(* SubwayProtocol::feed waits for the header and for full_size(). *)
Enough(b) == Len(b) >= 4 /\ Len(b) >= full_size(b)

(* Variant: the CRC is not looked at. *)
NoCheck(b) == TRUE

crc_check(b) ==
    LET len == full_size(b) - 2
        crc == LibraryCrc(b, len)
    IN  b[len + 1] = crc.low /\ b[len + 2] = crc.high

subway_feed(chunk) ==
    LET f == Feed(chunk)
        b == f.buffer
    IN  /\ filter' = f
        /\ state' = IF ~Enough(b) THEN Listening
                    ELSE IF crc_check(b) THEN Reply(b[3], SubSeq(b, 5, 4 + b[4]))
                    ELSE Failed("PACKET_CRC_ERROR")

(* A packet with another address or code than TerminalPacket's: reset. *)
terminal_feed(chunk) ==
    LET f == Feed(chunk)
        b == f.buffer
        n == Len(b)
        foreign == n < 4 \/ b[3] # ADDR \/ b[4] # CODE
    IN  /\ filter' = IF f.completed /\ foreign THEN Fresh ELSE f
        /\ state' = IF ~f.completed \/ foreign THEN Listening
                    ELSE IF n < 7 THEN Failed("WRONG_ANSWER")
                    ELSE IF SubSeq(b, n - 2, n - 1) # checksum_calc(b) THEN Failed("PACKET_CRC_ERROR")
                    ELSE Reply(b[2], SubSeq(b, 5, n - 3))

-----------------------------------------------------------------------------
(* What is left of an earlier packet: a piece without its beginning, or    *)
(* one without its end.                                                    *)
Pieces(s) == {SubSeq(s, i, Len(s)) : i \in 2..Len(s)} \cup {SubSeq(s, 1, i) : i \in 1..(Len(s) - 1)}

(* The data of that packet, which may fill the buffer: one byte repeated,  *)
(* as a sum of 16 bits does not tell all packets glued together apart.     *)
Longer(x) == [i \in 1..(MaxData + 1) |-> x]

(* The line delivers such a piece, or nothing, then the packet. *)
Carries(name, sent, stuffed, Earlier) ==
    /\ protocol = name
    /\ packet = sent
    /\ \E left \in {<<>>} \cup UNION {Pieces(e) : e \in Earlier} :
          /\ wire = left \o stuffed
          /\ clean = (Head(sent) \notin ToSet(left))

Init ==
    /\ filter = Fresh
    /\ state = Listening
    /\ \/ \E data \in SeqOf(SubwayBytes, MaxData) :
             LET p == SubwayPacket(data)
             IN  Carries("subway", p, bytestaff(p),
                         {bytestaff(SubwayPacket(Longer(x))) : x \in SubwayBytes})
       \/ \E data \in SeqOf(TerminalBytes, MaxData) :
             LET p == TerminalPacket(data)
             IN  Carries("terminal", p, terminal_bytestaff(p),
                         {terminal_bytestaff(TerminalPacket(Longer(x))) : x \in TerminalBytes})

(* The line delivers some bytes. *)
Deliver ==
    /\ state = Listening
    /\ \E n \in 1..Len(wire) :
          /\ wire' = SubSeq(wire, n + 1, Len(wire))
          /\ IF protocol = "subway" THEN subway_feed(SubSeq(wire, 1, n))
                                    ELSE terminal_feed(SubSeq(wire, 1, n))
    /\ UNCHANGED <<protocol, packet, clean>>

Next == Deliver

Spec == Init /\ [][Next]_vars

-----------------------------------------------------------------------------
(* Properties. *)

Sent ==
    IF protocol = "subway" THEN Reply(packet[3], SubSeq(packet, 5, Len(packet) - 2))
                           ELSE Reply(packet[2], SubSeq(packet, 5, Len(packet) - 3))

(* The library computes the checksum the device has sent. *)
Intact == protocol = "subway" => crc_check(packet)

(* However the packet is cut, escapes included, and whatever bytes are in  *)
(* it, the protocol finds it with its last byte and not before; the end of *)
(* an earlier packet makes no difference unless a start byte is in it,     *)
(* which can only be an escaped one that has lost its escape.  Then its    *)
(* checksum decides, and nothing else.                                     *)
FoundWithItsLastByte ==
    clean => state = IF wire # <<>> THEN Listening
                     ELSE IF Intact THEN Sent ELSE Failed("PACKET_CRC_ERROR")

(* Whatever piece of the earlier packet came before, data that is passed   *)
(* on is the data sent: packets glued together are never taken for one,    *)
(* nor the inside of one for a packet.                                     *)
OnlyWhatWasSent ==
    state # Listening /\ state.result = "SUCCESS" => state = Sent

(* The filter of bytes never exceeds its buffer, and holds nothing while   *)
(* it waits for a packet to start.                                         *)
FilterOK ==
    /\ Len(filter.buffer) <= BufferSize
    /\ filter.waiting => filter.buffer = <<>> /\ ~filter.completed
    /\ filter.completed => Last(filter.buffer) = FEND
=============================================================================
