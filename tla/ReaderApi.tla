------------------------------ MODULE ReaderApi ------------------------------
(***************************************************************************)
(* The calls of the library that take several commands: scanning a card,   *)
(* finding it again, saving what is on it, sending a package in frames.    *)
(* One call at a time, one command a step; cards come and go in between.   *)
(***************************************************************************)
EXTENDS CardReader

CONSTANTS MaxCalls,   \* bound: calls made
          FrameSize,  \* MAX_FRAME_SIZE
          Lengths     \* lengths of the packages sent

ASSUME ApiAssumption ==
    /\ MaxCalls \in Nat
    /\ FrameSize \in Nat \ {0}
    /\ Lengths \subseteq Nat

VARIABLES op,     \* the call that was made last
          at,     \* the command it is to send next; "returned"
          result, \* what it has returned
          calls,  \* number of calls so far
          moved,  \* history: the card was moved since the call was made
          type,   \* Card::type of the caller's card
          sn,     \* Card::sn: whose serial number it is
          entry,  \* save: entry of the access table
          key,    \* save: the key the sector is tried with
          todo,   \* package: bytes still to send
          shift,  \* package: number of the next frame
          len     \* package: length

held == <<type, sn>>
saving == <<entry, key>>
package == <<todo, shift, len>>
api == <<op, at, result, calls, moved, held, saving, package>>

(* access: sector, key, mode, and whether it is to be read by blocks. *)
Entry(num, k, mode, blocks) == [num |-> num, key |-> k, mode |-> mode, blocks |-> blocks]

access == <<
    Entry(1, 2, "AUTH", FALSE), Entry(2, 3, "AUTH", FALSE), Entry(3, 7, "AUTH", FALSE),
    Entry(4, 7, "AUTH", FALSE), Entry(5, 6, "AUTH", FALSE), Entry(9, 4, "AUTH", FALSE),
    Entry(10, 5, "AUTH", FALSE), Entry(11, 8, "AUTH", TRUE),
    Entry(13, 27, "AUTH_DYN", FALSE), Entry(14, 27, "AUTH_DYN", TRUE) >>

Idle == at = "returned"

(* A call with its locals, for a package of n bytes. *)
Begin(call, first, n) ==
    /\ Idle /\ calls < MaxCalls
    /\ op' = call /\ at' = first
    /\ result' = "none"
    /\ calls' = calls + 1
    /\ moved' = FALSE
    /\ entry' = 1 /\ key' = access[1].key
    /\ len' = n /\ todo' = n /\ shift' = 0
    /\ got' = <<>> /\ taken' = 0
    /\ UNCHANGED <<field, opened, line, held>>

At(call, step) == op = call /\ at = step

Goto(step) == at' = step /\ UNCHANGED <<op, result, calls, moved>>

Finish(value) == at' = "returned" /\ result' = value /\ UNCHANGED <<op, calls, moved>>

-----------------------------------------------------------------------------
(* Functions of one command, or none. *)

NoCommand(call, value) ==
    /\ Idle /\ calls < MaxCalls
    /\ op' = call /\ at' = "returned"
    /\ result' = value
    /\ calls' = calls + 1
    /\ moved' = FALSE
    /\ UNCHANGED <<held, saving, package, device, line>>

Single(q) ==
    /\ Idle /\ calls < MaxCalls
    /\ op' = "single" /\ at' = "returned"
    /\ \E r \in Answers(q) : send_command(q, r) /\ result' = r.result
    /\ calls' = calls + 1
    /\ moved' = FALSE
    /\ UNCHANGED <<held, saving, package>>

reader_command ==
    \E code \in {"FIELD_ON", "FIELD_OFF", "UPDATE_START", "SYNC_WITH_DEVICE"} : Single(Request(code))

(* A file may be written in pieces that no packet has room for. *)
transport_command ==
    \/ \E code \in {"SET_MODE", "SET_TIME", "WRITE_FILE"} : Single(Request(code))
    \/ NoCommand("single", "NOT_SENT")

card_command == \E code \in {"MFPLUS_PERSO", "SELECT"} : Single(Request(code))

(* A block that is out of range is refused before anything is sent. *)
sector_command ==
    \/ \E code \in ToSectors : Single(ToSector(code, 1))
    \/ NoCommand("single", "NO_BLOCK")

-----------------------------------------------------------------------------
(* Card::scan, Card::reset. *)

(* What the answer leaves in a type; of an answer without data, nothing. *)
ReceivedType(r, old) ==
    IF r.data = "none" THEN old
    ELSE IF r.result = "OK" THEN TypeOf(r.from) ELSE "mixed"

(* anticollision: an answer of any other length is a serial number that is *)
(* put right by fix().                                                     *)
anticollision(r) == r.result \in {"OK", "LEN"}

(* SerialNumber::fix on what another answer has left is nobody's number. *)
ReceivedSn(r) == IF r.data = "ANTICOLLISION" THEN r.from ELSE "mixed"

card_scan == Begin("scan", "REQUEST_STD", 0)

scan_request_std ==
    /\ At("scan", "REQUEST_STD")
    /\ \E r \in Answers(Request("REQUEST_STD")) :
          /\ send_command(Request("REQUEST_STD"), r)
          /\ type' = ReceivedType(r, type)
          /\ CASE r.result = "OK" -> Goto("ANTICOLLISION")
               [] r.result = "NACK" -> Finish("NO_CARD")
               [] OTHER -> Finish(r.result)
    /\ UNCHANGED <<sn, saving, package>>

scan_anticollision ==
    /\ At("scan", "ANTICOLLISION")
    /\ \E r \in Answers(Request("ANTICOLLISION")) :
          /\ send_command(Request("ANTICOLLISION"), r)
          /\ sn' = IF anticollision(r) THEN ReceivedSn(r) ELSE sn
          /\ CASE anticollision(r) -> Finish("OK")
               [] r.result = "NACK" -> Finish("NO_CARD")
               [] OTHER -> Finish(r.result)
    /\ UNCHANGED <<type, saving, package>>

card_reset == Begin("reset", "REQUEST_STD", 0)

(* this->type != type *)
SameType(r) == IF type # "mixed" THEN {TypeOf(r.from) = type} ELSE BOOLEAN

reset_request_std ==
    /\ At("reset", "REQUEST_STD")
    /\ \E r \in Answers(Request("REQUEST_STD")) :
          /\ send_command(Request("REQUEST_STD"), r)
          /\ CASE r.result # "OK" -> Finish(r.result)
               [] OTHER -> \E same \in SameType(r) :
                              IF same THEN Goto("ANTICOLLISION") ELSE Finish("WRONG_CARD")
    /\ UNCHANGED <<held, saving, package>>

(* Variant: whatever number was received will do. *)
AnyNumber(r) == {TRUE}

(* this->sn == sn, where sn may be what was on the stack before. *)
SameNumber(r) ==
    IF r.data = "ANTICOLLISION" /\ sn # "mixed" THEN {r.from = sn} ELSE BOOLEAN

reset_anticollision ==
    /\ At("reset", "ANTICOLLISION")
    /\ \E r \in Answers(Request("ANTICOLLISION")) :
          /\ send_command(Request("ANTICOLLISION"), r)
          /\ \/ ~anticollision(r) /\ Finish(r.result)
             \/ /\ anticollision(r)
                /\ \E same \in SameNumber(r) : Finish(IF same THEN "OK" ELSE "WRONG_CARD")
    /\ UNCHANGED <<held, saving, package>>

-----------------------------------------------------------------------------
(* reader_send_package. *)

Smaller(m, n) == IF m < n THEN m ELSE n

(* shift is a field of 15 bits. *)
Shifts == 32768

(* Variant: the frame is numbered before it is sent. *)
FrameAhead(size) == [shift |-> (shift + 1) % Shifts, last |-> size # FrameSize, size |-> size]

Frame(size) == [shift |-> shift, last |-> size # FrameSize, size |-> size]

reader_send_package(n) == Begin("package", "frame", n)

SendFrame ==
    /\ At("package", "frame") /\ todo > 0
    /\ LET size == Smaller(todo, FrameSize)
       IN  \E r \in Answers(Package(Frame(size))) :
              /\ send_command(Package(Frame(size)), r)
              /\ \/ /\ r.result = "OK"
                    /\ todo' = todo - size
                    /\ shift' = (shift + 1) % Shifts
                    /\ Goto("frame")
                 \/ /\ r.result # "OK"
                    /\ Finish(r.result)
                    /\ UNCHANGED <<todo, shift>>
    /\ UNCHANGED <<len, held, saving>>

PackageSent ==
    /\ At("package", "frame") /\ todo = 0
    /\ Finish("OK")
    /\ UNCHANGED <<device, line, held, saving, package>>

-----------------------------------------------------------------------------
(* Reader::save of a provider that is no ISaveLoadable. *)

save == Begin("save", "REQUEST_STD", 0)

(* card.scan of a Card of its own. *)
save_request_std ==
    /\ At("save", "REQUEST_STD")
    /\ \E r \in Answers(Request("REQUEST_STD")) :
          /\ send_command(Request("REQUEST_STD"), r)
          /\ CASE r.result = "OK" -> Goto("ANTICOLLISION")
               [] r.result = "NACK" -> Finish("NO_CARD")
               [] OTHER -> Finish(r.result)
    /\ UNCHANGED <<held, saving, package>>

save_anticollision ==
    /\ At("save", "ANTICOLLISION")
    /\ \E r \in Answers(Request("ANTICOLLISION")) :
          /\ send_command(Request("ANTICOLLISION"), r)
          /\ CASE anticollision(r) -> Goto("AUTH")
               [] r.result = "NACK" -> Finish("NO_CARD")
               [] OTHER -> Finish(r.result)
    /\ UNCHANGED <<held, saving, package>>

(* Variants: the key stays what it was; a sector that refuses the key 0    *)
(* too is read all the same.                                               *)
SameKey == Goto("AUTH") /\ UNCHANGED saving

ReadAnyway ==
    \/ key # 0 /\ Goto("AUTH") /\ key' = 0 /\ entry' = entry
    \/ key = 0 /\ Goto("SECTOR_READ") /\ UNCHANGED saving

(* sector->key: once more with the key 0. *)
TryAgain ==
    \/ key # 0 /\ Goto("AUTH") /\ key' = 0 /\ entry' = entry
    \/ key = 0 /\ Finish("ERROR_READ") /\ UNCHANGED saving

(* authenticate, then read_block; both must succeed. *)
card_sector_auth_tenacious ==
    /\ op = "save" /\ at \in {"AUTH", "BLOCK_READ"}
    /\ LET q == ToSector(IF at = "AUTH" THEN access[entry].mode ELSE at, access[entry].num)
       IN  \E r \in Answers(q) :
              /\ send_command(q, r)
              /\ \/ r.result # "OK" /\ TryAgain
                 \/ /\ r.result = "OK"
                    /\ Goto(IF at = "AUTH" THEN "BLOCK_READ" ELSE "SECTOR_READ")
                    /\ UNCHANGED saving
    /\ UNCHANGED <<held, package>>

NextEntry ==
    \/ /\ entry < Len(access)
       /\ entry' = entry + 1 /\ key' = access[entry + 1].key
       /\ Goto("AUTH")
    \/ entry = Len(access) /\ Finish("NO_IMPL_SUPPORT") /\ UNCHANGED saving

(* The result is not looked at; the loop over the blocks tests the index   *)
(* of the entry, 7 or 9, and ends before the first block.                  *)
save_sector ==
    /\ At("save", "SECTOR_READ")
    /\ \/ /\ ~access[entry].blocks
          /\ LET q == ToSector("SECTOR_READ", access[entry].num)
             IN  \E r \in Answers(q) : send_command(q, r)
       \/ access[entry].blocks /\ UNCHANGED <<device, line>>
    /\ NextEntry
    /\ UNCHANGED <<held, package>>

-----------------------------------------------------------------------------
ApiInit ==
    /\ ReaderOn
    /\ op = "none" /\ at = "returned" /\ result = "none" /\ calls = 0 /\ moved = FALSE
    /\ type = "mixed" /\ sn = "mixed"
    /\ entry = 1 /\ key = access[1].key
    /\ todo = 0 /\ shift = 0 /\ len = 0

Calls ==
    \/ reader_command \/ transport_command \/ card_command \/ sector_command
    \/ card_scan \/ card_reset \/ save
    \/ \E n \in Lengths : reader_send_package(n)

Proceeds ==
    \/ scan_request_std \/ scan_anticollision
    \/ reset_request_std \/ reset_anticollision
    \/ SendFrame \/ PackageSent
    \/ save_request_std \/ save_anticollision
    \/ card_sector_auth_tenacious \/ save_sector

CardMoves ==
    /\ \E card \in Cards \cup {NoCard} : Hold(card)
    /\ moved' = TRUE
    /\ UNCHANGED <<op, at, result, calls, held, saving, package>>

-----------------------------------------------------------------------------
(* Properties. *)

(* A package that was sent has reached the reader whole, in frames that    *)
(* are numbered from 0, full but for the last, and marked as the last when *)
(* they are not full: not at all if the length is a multiple of FrameSize. *)
(* Unless a reply was mistaken for another, or a frame was refused with    *)
(* the code 0.                                                             *)
PackageWhole ==
    op = "package" /\ result = "OK" /\ ~missed /\ ~zero =>
        /\ taken = len
        /\ \A k \in 1..Len(got) :
              /\ got[k].shift = (k - 1) % Shifts
              /\ k < Len(got) => got[k].size = FrameSize
              /\ got[k].last <=> got[k].size # FrameSize

(* scan and reset succeed only with the serial number of the card that is  *)
(* held to the reader, although an answer of any length passes for one;    *)
(* with the same two exceptions, and but for the reset of a card that was  *)
(* never scanned.                                                          *)
OwnNumber ==
    ~Idle /\ at' = "returned" /\ result' = "OK" =>
        /\ op = "scan" => missed' \/ zero' \/ sn' = field
        /\ op = "reset" => missed' \/ zero' \/ sn' \in {"mixed", field}

SpeaksOfTheCard == [][OwnNumber]_<<api, device, line>>

(* save reads a sector only while it is the one authenticated, whatever    *)
(* keys it was tried with, unless a reply came late or the card was moved. *)
SavesWhatIsOpen ==
    At("save", "SECTOR_READ") => moved \/ missed \/ opened = access[entry].num

=============================================================================
