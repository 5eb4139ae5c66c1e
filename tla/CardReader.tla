----------------------------- MODULE CardReader -----------------------------
(***************************************************************************)
(* What the API functions see of a Reader: send_command as one step, with  *)
(* the card reader at the other end of it.  That a reply may come after    *)
(* its command has ended, and then be taken for the reply to a later one,  *)
(* is what Exchange shows of the providers.                                *)
(***************************************************************************)
EXTENDS Integers, Sequences

CONSTANTS Cards,      \* cards that may be held to the reader
          OtherType,  \* those of another type
          Faults,     \* "error": a command fails; "late": its reply comes
                      \* all the same; "zero": a NACK with the code 0
          MaxLate     \* bound: replies still to come

ASSUME ReaderAssumption ==
    /\ OtherType \subseteq Cards
    /\ "no card" \notin Cards
    /\ MaxLate \in Nat

NoCard == "no card"

VARIABLES field,   \* the card held to the reader
          opened,  \* its sector that was authenticated last, or 0
          got,     \* frames of the package under way the reader has taken
          taken,   \* the bytes in them
          late,    \* replies to commands that have ended without
          missed,  \* history: there was such a reply
          zero     \* history: a NACK with the code 0 was received

device == <<field, opened, got, taken>>
line == <<late, missed, zero>>

TypeOf(card) == IF card \in OtherType THEN "other" ELSE "standard"

-----------------------------------------------------------------------------
(* Requests, replies, and what send_command makes of a reply. *)

Auths == {"AUTH", "AUTH_DYN"}
Reads == {"BLOCK_READ", "SECTOR_READ"}
Writes == {"BLOCK_WRITE", "SECTOR_WRITE"}
ToSectors == Auths \cup Reads \cup Writes \cup {"SET_TRAILER", "SET_TRAILER_DYN"}
ToCards == {"REQUEST_STD", "ANTICOLLISION", "SELECT", "MFPLUS_PERSO"} \cup ToSectors

NoFrame == [shift |-> 0, last |-> TRUE, size |-> 0]

Request(code) == [code |-> code, sector |-> 0, frame |-> NoFrame]
ToSector(code, sector) == [Request(code) EXCEPT !.sector = sector]
Package(frame) == [Request("MULTIBYTE_PACKAGE") EXCEPT !.frame = frame]

(* The data of a reply differ in length from code to code. *)
Data(code) == IF code \in {"REQUEST_STD", "ANTICOLLISION"} \cup Reads THEN code ELSE "none"

Reply(q, what) == [data |-> Data(q.code), kind |-> what, from |-> field]

(* A serial number is shorter than the SerialNumber it is received in. *)
Fits(code, p) == p.data = Data(code) /\ code # "ANTICOLLISION"

(* The result, with what was copied into the answer: a reply of another    *)
(* length is copied as far as it goes; a NACK whose code is 0 is a reply   *)
(* without data.                                                           *)
Received(code, p) ==
    [result |-> CASE p.kind = "nack" -> "NACK"
                  [] p.kind = "zero" -> IF Data(code) = "none" THEN "OK" ELSE "LEN"
                  [] p.kind = "data" -> IF Fits(code, p) THEN "OK" ELSE "LEN",
     data   |-> IF p.kind = "data" THEN p.data ELSE "none",
     from   |-> p.from]

Failed == [result |-> "ERROR", data |-> "none", from |-> NoCard]

-----------------------------------------------------------------------------
(* The card reader. *)

CanAnswer(q) ==
    /\ q.code \in ToCards => field # NoCard
    /\ q.code \in Reads \cup Writes => opened = q.sector

Replies(q) ==
    {Reply(q, "nack")} \cup {Reply(q, what) : what \in Faults \cap {"zero"}}
                       \cup {p \in {Reply(q, "data")} : CanAnswer(q)}

Serve(q, p) ==
    /\ opened' = CASE q.code \in Auths -> IF p.kind = "data" THEN q.sector ELSE 0
                   [] q.code \in {"REQUEST_STD", "SELECT"} -> 0
                   [] OTHER -> opened
    /\ IF q.code = "MULTIBYTE_PACKAGE" /\ p.kind = "data"
       THEN got' = Append(got, q.frame) /\ taken' = taken + q.frame.size
       ELSE UNCHANGED <<got, taken>>
    /\ field' = field

(* A card comes, goes, or is replaced. *)
Hold(card) ==
    /\ field' = card /\ card # field
    /\ opened' = 0
    /\ UNCHANGED <<got, taken, line>>

-----------------------------------------------------------------------------
(* Reader::send_command: the first packet that comes while it waits is the *)
(* answer.                                                                 *)

Answers(q) ==
    {Failed} \cup {Received(q.code, p) : p \in Replies(q) \cup {late[k] : k \in 1..Len(late)}}

Take(q, queue, r) ==
    \E k \in 1..Len(queue) :
        /\ r = Received(q.code, queue[k])
        /\ late' = SubSeq(queue, k + 1, Len(queue))
        /\ missed' = (missed \/ late' # <<>>)
        /\ zero' = (zero \/ queue[k].kind = "zero")

Fail(queue, r) ==
    /\ "error" \in Faults
    /\ r = Failed
    /\ \/ late' = late
       \/ "late" \in Faults /\ Len(queue) <= MaxLate /\ late' = queue
    /\ missed' = (missed \/ late' # <<>>)
    /\ zero' = zero

send_command(q, r) ==
    \/ \E p \in Replies(q) :
          /\ Serve(q, p)
          /\ Take(q, Append(late, p), r) \/ Fail(Append(late, p), r)
    \/ Fail(late, r) /\ UNCHANGED device

ReaderOn ==
    /\ field = NoCard /\ opened = 0 /\ got = <<>> /\ taken = 0
    /\ late = <<>> /\ missed = FALSE /\ zero = FALSE

=============================================================================
