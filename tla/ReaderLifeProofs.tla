-------------------------- MODULE ReaderLifeProofs --------------------------
(***************************************************************************)
(* What is proved of ReaderLife, for any cards, faults, frame size and     *)
(* lengths, any number of endpoints and any number of late replies.        *)
(***************************************************************************)
EXTENDS ReaderLife, SequenceTheorems, TLAPS

(* The line: as long as no reply has outlived its command, none is under   *)
(* way, and the first packet that comes is the reply to the command that   *)
(* waits for it.                                                           *)
LineInv == ~missed => late = <<>>

(* Whatever becomes of a command, the line remains as LineInv has it. *)
LEMMA CommandKeepsLine ==
    ASSUME NEW STATE q, NEW r, LineInv, send_command(q, r)
    PROVE  LineInv'
BY DEF LineInv, send_command, Take, Fail

(* What has happened to the line has happened. *)
LEMMA HistoryGrows ==
    ASSUME NEW STATE q, NEW r, send_command(q, r)
    PROVE  (missed => missed') /\ (zero => zero')
<1>1. ASSUME NEW STATE queue, Take(q, queue, r)
      PROVE  (missed => missed') /\ (zero => zero')
  BY <1>1 DEF Take
<1>2. ASSUME NEW STATE queue, Fail(queue, r)
      PROVE  (missed => missed') /\ (zero => zero')
  BY <1>2 DEF Fail
<1>3. CASE \E p \in Replies(q) : Take(q, Append(late, p), r) \/ Fail(Append(late, p), r)
  BY <1>3, <1>1, <1>2
<1>4. CASE Fail(late, r)
  BY <1>4, <1>2
<1> QED BY <1>3, <1>4 DEF send_command

(* An answer is an error, or else the reply the card reader has just made, *)
(* as long as no reply is late.                                            *)
LEMMA OwnReply ==
    ASSUME NEW STATE q, NEW r, LineInv, send_command(q, r), ~missed', r.result # "ERROR"
    PROVE  /\ \E p \in Replies(q) : /\ Serve(q, p)
                                    /\ r = Received(q.code, p)
                                    /\ zero' = (zero \/ p.kind = "zero")
<1>1. CASE \E p \in Replies(q) : Serve(q, p) /\ Take(q, Append(late, p), r)
  <2>1. PICK p \in Replies(q) : Serve(q, p) /\ Take(q, Append(late, p), r)
    BY <1>1
  <2>2. late = <<>>
    BY <2>1 DEF Take, LineInv
  <2>3. Append(late, p) = <<p>>
    BY <2>2
  <2>4. PICK k \in 1..Len(<<p>>) : /\ r = Received(q.code, <<p>>[k])
                                   /\ zero' = (zero \/ <<p>>[k].kind = "zero")
    BY <2>1, <2>3 DEF Take
  <2>5. k = 1 /\ <<p>>[1] = p
    OBVIOUS
  <2> QED BY <2>1, <2>4, <2>5
<1>2. CASE ~\E p \in Replies(q) : Serve(q, p) /\ Take(q, Append(late, p), r)
  <2>1. r = Failed
    BY <1>2 DEF send_command, Fail
  <2> QED BY <2>1 DEF Failed
<1> QED BY <1>1, <1>2

-----------------------------------------------------------------------------
(* Packages. *)

FrameType == [shift : Nat, last : BOOLEAN, size : Nat]

(* The locals of reader_send_package and the frames that were taken. *)
PackageTyped ==
    /\ got \in Seq(FrameType)
    /\ taken \in Nat /\ todo \in Nat /\ shift \in Nat /\ len \in Nat

(* The frames taken so far are well made, and what they hold and what is   *)
(* still to send add up to the package.                                    *)
Progress ==
    /\ taken + todo = len
    /\ shift = Len(got) % Shifts
    /\ \A k \in 1..Len(got) :
          /\ got[k].shift = (k - 1) % Shifts
          /\ k < Len(got) \/ todo > 0 => got[k].size = FrameSize
          /\ got[k].last <=> got[k].size # FrameSize

PackageInv ==
    /\ LineInv
    /\ PackageTyped
    /\ op = "package" /\ ~missed /\ ~zero /\ (~Idle \/ result = "OK") =>
           Progress /\ (result = "OK" => todo = 0)

(* What a package has come to is what PackageWhole says of it. *)
LEMMA InvIsWhole == PackageInv => PackageWhole
<1> SUFFICES ASSUME PackageInv, op = "package", result = "OK", ~missed, ~zero
             PROVE  PackageWhole
  BY DEF PackageWhole
<1>1. Progress /\ todo = 0
  BY DEF PackageInv
<1>2. taken = len
  BY <1>1 DEF Progress, PackageInv, PackageTyped
<1> QED BY <1>1, <1>2 DEF Progress, PackageWhole

(* A command leaves what a package is made of in its types. *)
LEMMA CommandTyped ==
    ASSUME NEW STATE q, NEW r, q.frame \in FrameType, got \in Seq(FrameType), taken \in Nat,
           send_command(q, r)
    PROVE  got' \in Seq(FrameType) /\ taken' \in Nat
<1>1. \/ \E p \in Replies(q) : Serve(q, p)
      \/ UNCHANGED <<got, taken>>
  BY DEF send_command, device
<1>2. q.frame.size \in Nat
  BY DEF FrameType
<1>3. ASSUME NEW p \in Replies(q), Serve(q, p)
      PROVE  got' \in Seq(FrameType) /\ taken' \in Nat
  <2>1. \/ got' = Append(got, q.frame) /\ taken' = taken + q.frame.size
        \/ UNCHANGED <<got, taken>>
    BY <1>3 DEF Serve
  <2>2. Append(got, q.frame) \in Seq(FrameType)
    BY AppendProperties
  <2>3. taken + q.frame.size \in Nat
    BY <1>2
  <2> QED BY <2>1, <2>2, <2>3
<1> QED BY <1>1, <1>3

(* A command that is not a frame adds nothing to the package. *)
LEMMA NoFrameTaken ==
    ASSUME NEW STATE q, NEW r, q.code # "MULTIBYTE_PACKAGE", send_command(q, r)
    PROVE  UNCHANGED <<got, taken>>
BY DEF send_command, Serve, Fail, device

(* A frame that is answered without an error, and with no reply late, was  *)
(* taken, unless it was refused with the code 0.                           *)
LEMMA FrameTaken ==
    ASSUME NEW STATE f, NEW r, LineInv, send_command(Package(f), r),
           ~missed', ~zero', r.result = "OK"
    PROVE  got' = Append(got, f) /\ taken' = taken + f.size
<1> DEFINE q == Package(f)
<1>1. q.code = "MULTIBYTE_PACKAGE" /\ q.frame = f
  BY DEF Package, Request
<1>2. PICK p \in Replies(q) : /\ Serve(q, p)
                              /\ r = Received(q.code, p)
                              /\ zero' = (zero \/ p.kind = "zero")
  BY OwnReply
<1>3. p.kind # "zero"
  BY <1>2
<1>4. p.kind # "nack"
  BY <1>2 DEF Received
<1>5. p.kind = "data"
  BY <1>3, <1>4 DEF Replies, Reply
<1> QED BY <1>1, <1>2, <1>5 DEF Serve

(* A call that begins has everything still to send. *)
LEMMA BeginKeeps ==
    ASSUME PackageInv, NEW call, NEW first, NEW n \in Nat, Begin(call, first, n), first # "returned"
    PROVE  PackageInv'
<1>1. LineInv' /\ PackageTyped'
  BY DEF PackageInv, Begin, LineInv, PackageTyped, line
<1>2. Progress' /\ result' = "none"
  BY DEF Begin, Progress, Shifts
<1> QED BY <1>1, <1>2 DEF PackageInv

(* A command of another call is no business of a package. *)
LEMMA OtherCommandKeeps ==
    ASSUME PackageInv, NEW STATE q, NEW r, send_command(q, r), q.frame \in FrameType,
           UNCHANGED package, op' # "package"
    PROVE  PackageInv'
<1>1. LineInv'
  BY CommandKeepsLine DEF PackageInv
<1>2. PackageTyped'
  BY CommandTyped DEF PackageInv, PackageTyped, package
<1> QED BY <1>1, <1>2 DEF PackageInv

LEMMA FrameTyped ==
    /\ \A code : Request(code).frame \in FrameType
    /\ \A code, sector : ToSector(code, sector).frame \in FrameType
BY DEF Request, ToSector, NoFrame, FrameType

(* One frame. *)
LEMMA SendFrameKeeps == PackageInv /\ SendFrame => PackageInv'
<1> SUFFICES ASSUME PackageInv, SendFrame
             PROVE  PackageInv'
  OBVIOUS
<1> DEFINE size == Smaller(todo, FrameSize)
           f == Frame(size)
<1> USE ApiAssumption DEF ApiAssumption
<1>1. PICK r \in Answers(Package(f)) :
        /\ send_command(Package(f), r)
        /\ \/ r.result = "OK" /\ todo' = todo - size /\ shift' = (shift + 1) % Shifts /\ Goto("frame")
           \/ r.result # "OK" /\ Finish(r.result) /\ UNCHANGED <<todo, shift>>
  BY DEF SendFrame
<1>2. size \in Nat /\ size <= todo /\ size <= FrameSize /\ (size < FrameSize => size = todo)
  BY DEF Smaller, PackageInv, PackageTyped
<1>3. f \in FrameType
  BY <1>2 DEF Frame, FrameType, PackageInv, PackageTyped
<1>4. Package(f).frame = f
  BY DEF Package, Request
<1>5. LineInv'
  BY <1>1, CommandKeepsLine DEF PackageInv
<1>6. todo' \in Nat /\ shift' \in Nat /\ len' = len
  BY <1>1, <1>2 DEF PackageInv, PackageTyped, Shifts, SendFrame
<1>7. got' \in Seq(FrameType) /\ taken' \in Nat
  BY <1>1, <1>3, <1>4, CommandTyped DEF PackageInv, PackageTyped
<1>8. PackageTyped'
  BY <1>6, <1>7 DEF PackageInv, PackageTyped
<1>9. ASSUME ~missed', ~zero', ~Idle' \/ result' = "OK"
      PROVE  Progress' /\ (result' = "OK" => todo' = 0)
  <2>1. r.result = "OK"
    BY <1>1, <1>9 DEF Finish, Idle
  <2>2. todo' = todo - size /\ shift' = (shift + 1) % Shifts /\ result' = result
    BY <1>1, <2>1 DEF Goto
  <2>3. got' = Append(got, f) /\ taken' = taken + f.size
    BY <1>1, <1>9, <2>1, FrameTaken DEF PackageInv
  <2>4. ~missed /\ ~zero
    BY <1>1, <1>9, HistoryGrows
  <2>5. op = "package" /\ ~Idle /\ todo > 0
    BY DEF SendFrame, At, Idle
  <2>6. Progress /\ (result = "OK" => todo = 0)
    BY <2>4, <2>5 DEF PackageInv
  <2>7. result # "OK"
    BY <2>5, <2>6
  <2>8. f.size = size /\ f.shift = shift /\ (f.last <=> size # FrameSize)
    BY DEF Frame
  <2>9. taken' + todo' = len'
    <3>1. taken \in Nat /\ todo \in Nat /\ taken + todo = len
      BY <2>6 DEF Progress, PackageInv, PackageTyped
    <3>2. taken' = taken + size /\ todo' = todo - size /\ len' = len
      BY <1>6, <2>2, <2>3, <2>8
    <3> HIDE DEF size
    <3> QED BY <1>2, <3>1, <3>2
  <2>10. /\ Len(got') = Len(got) + 1
         /\ \A k \in 1..Len(got) : got'[k] = got[k]
         /\ got'[Len(got) + 1] = f
    BY <1>3, <2>3, AppendProperties DEF PackageInv, PackageTyped
  <2>11. Len(got) \in Nat
    BY DEF PackageInv, PackageTyped
  <2>12. shift' = Len(got') % Shifts
    BY <2>2, <2>6, <2>10, <2>11 DEF Progress, Shifts
  <2>13. ASSUME NEW k \in 1..Len(got')
         PROVE  /\ got'[k].shift = (k - 1) % Shifts
                /\ k < Len(got') \/ todo' > 0 => got'[k].size = FrameSize
                /\ got'[k].last <=> got'[k].size # FrameSize
    <3>1. CASE k \in 1..Len(got)
      BY <3>1, <2>5, <2>6, <2>10 DEF Progress
    <3>2. CASE k = Len(got) + 1
      <4>1. got'[k] = f /\ k - 1 = Len(got) /\ ~(k < Len(got'))
        BY <3>2, <2>10, <2>11
      <4>2. todo' > 0 => size = FrameSize
        BY <1>2, <2>2 DEF PackageInv, PackageTyped
      <4> QED BY <4>1, <4>2, <2>6, <2>8 DEF Progress
    <3> QED BY <3>1, <3>2, <2>10, <2>11
  <2> QED BY <2>2, <2>7, <2>9, <2>12, <2>13 DEF Progress
<1> QED BY <1>5, <1>8, <1>9 DEF PackageInv

(* The end of the loop. *)
LEMMA PackageSentKeeps == PackageInv /\ PackageSent => PackageInv'
<1> SUFFICES ASSUME PackageInv, PackageSent
             PROVE  PackageInv'
  OBVIOUS
<1>1. UNCHANGED <<op, device, line, package>> /\ todo = 0 /\ ~Idle
  BY DEF PackageSent, Finish, At, Idle
<1>2. LineInv' /\ PackageTyped'
  BY <1>1 DEF PackageInv, LineInv, PackageTyped, device, line, package
<1>3. ASSUME op = "package", ~missed, ~zero
      PROVE  Progress' /\ todo' = 0
  BY <1>1, <1>3 DEF PackageInv, Progress, device, package
<1> QED BY <1>1, <1>2, <1>3 DEF PackageInv, line

(* Calls that send nothing, and what is none of a package's business. *)
LEMMA NoCommandKeeps ==
    ASSUME PackageInv, NEW call, NEW value, NoCommand(call, value), call # "package"
    PROVE  PackageInv'
BY DEF PackageInv, NoCommand, LineInv, PackageTyped, device, line, package

LEMMA ElsewhereKeeps ==
    PackageInv /\ UNCHANGED <<op, at, result, package, got, taken, line>> => PackageInv'
BY DEF PackageInv, LineInv, PackageTyped, Progress, Idle, line, package

LEMMA SingleKeeps ==
    ASSUME PackageInv, NEW STATE q, q.frame \in FrameType, Single(q)
    PROVE  PackageInv'
<1>1. PICK r \in Answers(q) : send_command(q, r)
  BY DEF Single
<1>2. UNCHANGED package /\ op' # "package"
  BY DEF Single
<1> QED BY <1>1, <1>2, OtherCommandKeeps

-----------------------------------------------------------------------------
(* The calls that begin. *)

LEMMA CallsKeep == PackageInv /\ Calls => PackageInv'
<1> SUFFICES ASSUME PackageInv, Calls
             PROVE  PackageInv'
  OBVIOUS
<1>1. ASSUME NEW code, Single(Request(code))
      PROVE  PackageInv'
  BY <1>1, SingleKeeps, FrameTyped
<1>2. ASSUME NEW code, NEW sector, Single(ToSector(code, sector))
      PROVE  PackageInv'
  BY <1>2, SingleKeeps, FrameTyped
<1>3. ASSUME NEW value, NoCommand("single", value)
      PROVE  PackageInv'
  BY <1>3, NoCommandKeeps
<1>4. CASE reader_command
  BY <1>1, <1>4 DEF reader_command
<1>5. CASE transport_command
  BY <1>1, <1>3, <1>5 DEF transport_command
<1>6. CASE card_command
  BY <1>1, <1>6 DEF card_command
<1>7. CASE sector_command
  BY <1>2, <1>3, <1>7 DEF sector_command
<1>8. CASE card_scan \/ card_reset \/ save
  BY <1>8, BeginKeeps DEF card_scan, card_reset, save
<1>9. CASE \E n \in Lengths : reader_send_package(n)
  BY <1>9, BeginKeeps, ApiAssumption DEF ApiAssumption, reader_send_package
<1> QED BY <1>4, <1>5, <1>6, <1>7, <1>8, <1>9 DEF Calls

(* The commands of the other calls. *)
LEMMA StepKeeps ==
    ASSUME PackageInv, NEW STATE code, NEW STATE sector, NEW r, op' # "package", UNCHANGED package,
           \/ send_command(Request(code), r)
           \/ send_command(ToSector(code, sector), r)
    PROVE  PackageInv'
BY OtherCommandKeeps, FrameTyped

LEMMA ProceedsKeep == PackageInv /\ Proceeds => PackageInv'
<1> SUFFICES ASSUME PackageInv, Proceeds
             PROVE  PackageInv'
  OBVIOUS
<1>1. CASE scan_request_std
  BY <1>1, StepKeeps DEF scan_request_std, At, Goto, Finish
<1>2. CASE scan_anticollision
  BY <1>2, StepKeeps DEF scan_anticollision, At, Goto, Finish
<1>3. CASE reset_request_std
  BY <1>3, StepKeeps DEF reset_request_std, At, Goto, Finish
<1>4. CASE reset_anticollision
  BY <1>4, StepKeeps DEF reset_anticollision, At, Goto, Finish
<1>5. CASE save_request_std
  BY <1>5, StepKeeps DEF save_request_std, At, Goto, Finish
<1>6. CASE save_anticollision
  BY <1>6, StepKeeps DEF save_anticollision, At, Goto, Finish
<1>7. CASE card_sector_auth_tenacious
  BY <1>7, StepKeeps DEF card_sector_auth_tenacious, TryAgain, At, Goto, Finish
<1>8. CASE save_sector
  <2>1. UNCHANGED <<op, package>> /\ op = "save"
    BY <1>8 DEF save_sector, At, NextEntry, Goto, Finish
  <2>2. \/ \E r : send_command(ToSector("SECTOR_READ", access[entry].num), r)
        \/ UNCHANGED <<device, line>>
    BY <1>8 DEF save_sector
  <2>3. CASE UNCHANGED <<device, line>>
    BY <2>1, <2>3 DEF PackageInv, LineInv, PackageTyped, device, line, package
  <2> QED BY <2>1, <2>2, <2>3, StepKeeps
<1> QED BY <1>1, <1>2, <1>3, <1>4, <1>5, <1>6, <1>7, <1>8, SendFrameKeeps, PackageSentKeeps DEF Proceeds

-----------------------------------------------------------------------------
(* The reader's life. *)

LEMMA LifeKeepsPackage == PackageInv /\ [LifeNext]_lvars => PackageInv'
<1> SUFFICES ASSUME PackageInv, [LifeNext]_lvars
             PROVE  PackageInv'
  OBVIOUS
<1>1. ASSUME UNCHANGED <<api, device, line>>
      PROVE  PackageInv'
  BY <1>1, ElsewhereKeeps DEF api, device
<1>2. CASE reader_open \/ Connects \/ Opens \/ io_service_thread \/ Network \/ WithoutProvider
           \/ reader_close \/ UNCHANGED lvars
  BY <1>1, <1>2 DEF reader_open, Connects, Opens, io_service_thread, Network, WithoutProvider,
     reader_close, lvars
<1>3. CASE OverLine
  BY <1>3, CallsKeep, ProceedsKeep DEF OverLine
<1>4. CASE reader_load \/ reader_save \/ terminal_call
  BY <1>4, NoCommandKeeps DEF reader_load, reader_save, terminal_call, Returns
<1>5. CASE CardMoves
  BY <1>5, ElsewhereKeeps DEF CardMoves, Hold
<1> QED BY <1>2, <1>3, <1>4, <1>5 DEF LifeNext

(* A package that was sent has reached the card reader whole. *)
THEOREM PackageIsWhole == LifeSpec => []PackageWhole
<1>1. LifeInit => PackageInv
  BY DEF LifeInit, ApiInit, ReaderOn, PackageInv, LineInv, PackageTyped
<1>2. PackageInv /\ [LifeNext]_lvars => PackageInv'
  BY LifeKeepsPackage
<1> QED BY <1>1, <1>2, InvIsWhole, PTL DEF LifeSpec

-----------------------------------------------------------------------------
(* Serial numbers. *)

(* A serial number that was taken for one, or put right to be one, is the  *)
(* card's, as long as no reply is late and none was refused with 0.        *)
LEMMA NumberOfTheCard ==
    ASSUME NEW r, LineInv, send_command(Request("ANTICOLLISION"), r), anticollision(r),
           ~missed', ~zero'
    PROVE  r.data = "ANTICOLLISION" /\ r.from = field
<1> DEFINE q == Request("ANTICOLLISION")
<1>1. q.code = "ANTICOLLISION" /\ Data(q.code) = "ANTICOLLISION"
  BY DEF Request, Data
<1>2. r.result \in {"OK", "LEN"}
  BY DEF anticollision
<1>3. PICK p \in Replies(q) : /\ Serve(q, p)
                              /\ r = Received(q.code, p)
                              /\ zero' = (zero \/ p.kind = "zero")
  BY <1>2, OwnReply
<1>4. p.kind # "zero"
  BY <1>3
<1>5. p.kind # "nack"
  BY <1>2, <1>3 DEF Received
<1>6. p = Reply(q, "data")
  BY <1>3, <1>4, <1>5 DEF Replies, Reply
<1> QED BY <1>1, <1>3, <1>6 DEF Received, Reply

LEMMA ScanSpeaks == LineInv /\ scan_anticollision => OwnNumber
<1> SUFFICES ASSUME LineInv, scan_anticollision, result' = "OK", ~missed', ~zero'
             PROVE  sn' = field /\ op = "scan"
  BY DEF OwnNumber
<1>1. PICK r : /\ send_command(Request("ANTICOLLISION"), r)
               /\ sn' = IF anticollision(r) THEN ReceivedSn(r) ELSE sn
               /\ CASE anticollision(r) -> Finish("OK")
                    [] r.result = "NACK" -> Finish("NO_CARD")
                    [] OTHER -> Finish(r.result)
  BY DEF scan_anticollision
<1>2. anticollision(r)
  BY <1>1 DEF Finish, anticollision
<1>3. r.data = "ANTICOLLISION" /\ r.from = field
  BY <1>1, <1>2, NumberOfTheCard
<1> QED BY <1>1, <1>2, <1>3 DEF ReceivedSn, scan_anticollision, At

LEMMA ResetSpeaks == LineInv /\ reset_anticollision => OwnNumber
<1> SUFFICES ASSUME LineInv, reset_anticollision, result' = "OK", ~missed', ~zero', sn # "mixed"
             PROVE  sn' = field /\ op = "reset"
  BY DEF OwnNumber, reset_anticollision, held, At
<1>1. PICK r : /\ send_command(Request("ANTICOLLISION"), r)
               /\ \/ ~anticollision(r) /\ Finish(r.result)
                  \/ /\ anticollision(r)
                     /\ \E same \in SameNumber(r) : Finish(IF same THEN "OK" ELSE "WRONG_CARD")
  BY DEF reset_anticollision
<1>2. anticollision(r) /\ \E same \in SameNumber(r) : same
  BY <1>1 DEF Finish, anticollision
<1>3. r.data = "ANTICOLLISION" /\ r.from = field
  BY <1>1, <1>2, NumberOfTheCard
<1>4. r.from = sn
  BY <1>2, <1>3 DEF SameNumber
<1> QED BY <1>3, <1>4 DEF reset_anticollision, held, At

(* No other step ends a scan or a reset with success. *)
LEMMA LifeSpeaks == LineInv /\ [LifeNext]_lvars => [OwnNumber]_<<api, device, line>>
<1> SUFFICES ASSUME LineInv, [LifeNext]_lvars, ~Idle, at' = "returned", result' = "OK",
                    op \in {"scan", "reset"}
             PROVE  OwnNumber
  BY DEF OwnNumber
<1>1. ~UNCHANGED at
  BY DEF Idle
<1>2. ~Calls
  BY DEF Calls, reader_command, transport_command, card_command, sector_command, card_scan,
     card_reset, save, reader_send_package, Single, NoCommand, Begin
<1>3. OverLine
  BY <1>1 DEF LifeNext, lvars, api, reader_open, Connects, Opens, io_service_thread, Network,
     WithoutProvider, reader_load, reader_save, terminal_call, Returns, NoCommand, reader_close,
     CardMoves
<1>4. Proceeds
  BY <1>2, <1>3 DEF OverLine
<1>5. ~scan_request_std /\ ~reset_request_std
  BY DEF scan_request_std, reset_request_std, Finish, Goto
<1>6. scan_anticollision \/ reset_anticollision
  BY <1>4, <1>5 DEF Proceeds, SendFrame, PackageSent, save_request_std, save_anticollision,
     card_sector_auth_tenacious, save_sector, At
<1> QED BY <1>6, ScanSpeaks, ResetSpeaks

(* scan and reset speak of the card that is held to the reader. *)
THEOREM NumberIsTheCards == LifeSpec => SpeaksOfTheCard
<1>1. LifeInit => PackageInv
  BY DEF LifeInit, ApiInit, ReaderOn, PackageInv, LineInv, PackageTyped
<1>2. PackageInv /\ [LifeNext]_lvars => PackageInv'
  BY LifeKeepsPackage
<1>3. PackageInv /\ [LifeNext]_lvars => [OwnNumber]_<<api, device, line>>
  BY LifeSpeaks DEF PackageInv
<1> QED BY <1>1, <1>2, <1>3, PTL DEF LifeSpec, SpeaksOfTheCard

-----------------------------------------------------------------------------
(* Saving. *)

(* A block that was read without an error is of the open sector.           *)
LEMMA ReadIsOpen ==
    ASSUME NEW STATE sector, NEW r, LineInv, send_command(ToSector("BLOCK_READ", sector), r),
           r.result = "OK", ~missed'
    PROVE  opened' = sector
<1> DEFINE q == ToSector("BLOCK_READ", sector)
<1>1. q.code = "BLOCK_READ" /\ q.sector = sector /\ Data(q.code) = "BLOCK_READ"
  BY DEF ToSector, Request, Data, Reads
<1>2. PICK p \in Replies(q) : Serve(q, p) /\ r = Received(q.code, p)
  BY OwnReply
<1>3. p.kind # "nack" /\ p.kind # "zero"
  BY <1>1, <1>2 DEF Received
<1>4. CanAnswer(q)
  BY <1>2, <1>3 DEF Replies, Reply
<1>5. opened = sector
  BY <1>1, <1>4 DEF CanAnswer, Reads
<1> QED BY <1>1, <1>2, <1>5 DEF Serve, Auths

LEMMA LifeKeepsOpen == LineInv /\ SavesWhatIsOpen /\ [LifeNext]_lvars => SavesWhatIsOpen'
<1> SUFFICES ASSUME LineInv, SavesWhatIsOpen, [LifeNext]_lvars,
                    op' = "save", at' = "SECTOR_READ", ~moved', ~missed'
             PROVE  opened' = access[entry]'.num
  BY DEF SavesWhatIsOpen, At
<1>1. CASE UNCHANGED <<api, device, line>>
  BY <1>1 DEF SavesWhatIsOpen, At, api, device, line, saving, access
<1>2. CASE card_sector_auth_tenacious
  <2>1. at = "BLOCK_READ" /\ UNCHANGED saving
    BY <1>2 DEF card_sector_auth_tenacious, TryAgain, Goto, Finish
  <2>2. PICK r : /\ send_command(ToSector("BLOCK_READ", access[entry].num), r)
                 /\ r.result = "OK"
    BY <1>2, <2>1 DEF card_sector_auth_tenacious, TryAgain, Goto, Finish
  <2>3. opened' = access[entry].num
    BY <2>2, ReadIsOpen
  <2> QED BY <2>1, <2>3 DEF saving, access
<1>3. ~Calls
  BY DEF Calls, reader_command, transport_command, card_command, sector_command, card_scan,
     card_reset, save, reader_send_package, Single, NoCommand, Begin
<1>4. Proceeds => card_sector_auth_tenacious
  BY DEF Proceeds, scan_request_std, scan_anticollision, reset_request_std, reset_anticollision,
     SendFrame, PackageSent, save_request_std, save_anticollision, save_sector, NextEntry,
     At, Goto, Finish
<1>5. ~CardMoves
  BY DEF CardMoves
<1>6. OverLine => card_sector_auth_tenacious
  BY <1>3, <1>4 DEF OverLine
<1>7. ~reader_load /\ ~reader_save /\ ~terminal_call
  <2>1. ASSUME NEW call, NEW value, Returns(call, value)
        PROVE  FALSE
    BY <2>1 DEF Returns, NoCommand, Idle
  <2> QED BY <2>1 DEF reader_load, reader_save, terminal_call
<1> QED
  BY <1>1, <1>2, <1>5, <1>6, <1>7 DEF LifeNext, lvars, reader_open, Connects, Opens,
     io_service_thread, Network, WithoutProvider, reader_close

(* A sector that is saved is the one that is open. *)
THEOREM SectorIsOpen == LifeSpec => []SavesWhatIsOpen
<1>1. LifeInit => PackageInv /\ SavesWhatIsOpen
  BY DEF LifeInit, ApiInit, ReaderOn, PackageInv, LineInv, PackageTyped, SavesWhatIsOpen, At
<1>2. PackageInv /\ SavesWhatIsOpen /\ [LifeNext]_lvars => (PackageInv /\ SavesWhatIsOpen)'
  BY LifeKeepsPackage, LifeKeepsOpen DEF PackageInv
<1> QED BY <1>1, <1>2, PTL DEF LifeSpec

-----------------------------------------------------------------------------
(* The connection. *)

(* It is closed only after the timer has expired. *)
Standing == peer # None \/ expired

(* What waits for the io thread: a timer's handler is in earnest only if   *)
(* it expired, a connection that was made still stands, and a host without *)
(* endpoints is an error.                                                  *)
Due ==
    {h \in [op : {"resolve", "connect", "timeout"}, i : Nat,
            error : {"ok", "refused", "not_found", "already_connected", "operation_aborted"}] :
        /\ h.op = "timeout" /\ h.error # "operation_aborted" => expired
        /\ h.op = "connect" /\ h.error = "ok" => Standing
        /\ h.op = "resolve" /\ h.error = "ok" => endpoints # 0}

ConnectInv ==
    /\ ready \in Seq(Due)
    /\ attempt \in Nat
    /\ promise = "ok" => Standing

(* Waiting changes nothing about them, while what stands remains. *)
LEMMA StillDue ==
    ASSUME Standing => Standing', expired => expired', endpoints' = endpoints
    PROVE  \A queue \in Seq(Due) : queue \in Seq(Due')
<1>1. Due \subseteq Due'
  BY DEF Due
<1> QED BY <1>1

LEMMA OneMore ==
    ASSUME NEW STATE queue, queue \in Seq(Due'), NEW STATE h, h \in Due'
    PROVE  Append(queue, h) \in Seq(Due')
BY AppendProperties

LEMMA Rest ==
    ASSUME ready \in Seq(Due), ready # <<>>
    PROVE  Head(ready) \in Due /\ Tail(ready) \in Seq(Due)
BY HeadTailProperties

(* timeout.cancel(). *)
LEMMA CancelKeeps ==
    ASSUME NEW STATE queue, queue \in Seq(Due')
    PROVE  WithAbortedWait(queue) \in Seq(Due')
<1>1. Complete("timeout", None, "operation_aborted") \in Due'
  BY DEF Complete, Due, None
<1> QED BY <1>1, OneMore DEF WithAbortedWait

(* An endpoint that is tried. *)
LEMMA AnswerKeeps ==
    ASSUME NEW STATE i, i \in Nat, i # None, NEW STATE queue, queue \in Seq(Due),
           Answer(i, queue), UNCHANGED <<endpoints, expired>>
    PROVE  ready' \in Seq(Due') /\ (Standing => Standing')
<1>1. Standing => Standing'
  BY DEF Answer, Standing
<1>2. queue \in Seq(Due')
  BY <1>1, StillDue
<1>3. CASE ready' = Append(queue, Complete("connect", i, "ok")) /\ peer' = i
  <2>1. Complete("connect", i, "ok") \in Due'
    BY <1>3 DEF Complete, Due, Standing
  <2> QED BY <1>1, <1>2, <1>3, <2>1, OneMore
<1>4. CASE ready' = Append(queue, Complete("connect", i, "refused"))
  <2>1. Complete("connect", i, "refused") \in Due'
    BY DEF Complete, Due
  <2> QED BY <1>1, <1>2, <1>4, <2>1, OneMore
<1> QED BY <1>3, <1>4 DEF Answer

LEMMA ConnectKeeps ==
    ASSUME NEW STATE i, i \in Nat, i # None, NEW STATE queue, queue \in Seq(Due), attempt \in Nat,
           async_connect(i, queue), UNCHANGED <<endpoints, expired>>
    PROVE  ready' \in Seq(Due') /\ attempt' \in Nat /\ (Standing => Standing')
<1>1. CASE Answer(i, queue) /\ UNCHANGED attempt
  BY <1>1, AnswerKeeps
<1>2. CASE ready' = queue /\ attempt' = i /\ UNCHANGED peer
  BY <1>2, StillDue DEF Standing
<1>3. CASE ready' = Append(queue, Complete("connect", i, "already_connected")) /\ UNCHANGED <<attempt, peer>>
  <2>1. Complete("connect", i, "already_connected") \in Due'
    BY DEF Complete, Due
  <2>2. queue \in Seq(Due')
    BY <1>3, StillDue DEF Standing
  <2> QED BY <1>3, <2>1, <2>2, OneMore DEF Standing
<1> QED BY <1>1, <1>2, <1>3 DEF async_connect

(* The promise. *)
LEMMA PromiseKeeps ==
    ASSUME NEW STATE error, error = "ok" => Standing, NEW STATE queue, queue \in Seq(Due),
           attempt \in Nat, SetPromise(error, queue), UNCHANGED <<endpoints, expired>>
    PROVE  ConnectInv'
<1>1. UNCHANGED <<peer, attempt>> /\ promise' = error /\ ready' = WithAbortedWait(queue)
  BY DEF SetPromise
<1>2. Standing' = Standing /\ queue \in Seq(Due')
  BY <1>1, StillDue DEF Standing
<1> QED BY <1>1, <1>2, CancelKeeps DEF ConnectInv

-----------------------------------------------------------------------------
(* The io thread. *)

LEMMA IoThreadKeeps == ConnectInv /\ IoThread => ConnectInv'
<1> SUFFICES ASSUME ConnectInv, IoThread
             PROVE  ConnectInv'
  OBVIOUS
<1> DEFINE h == Head(ready)
           queue == Tail(ready)
<1>1. h \in Due /\ queue \in Seq(Due) /\ UNCHANGED <<endpoints, expired>>
  BY Rest DEF ConnectInv, IoThread
<1>2. h.i \in Nat /\ (h.op = "timeout" /\ h.error # "operation_aborted" => expired)
      /\ (h.op = "connect" /\ h.error = "ok" => Standing)
      /\ (h.op = "resolve" /\ h.error = "ok" => endpoints # 0)
  BY <1>1 DEF Due
<1>3. CASE h.op = "resolve" /\ resolve_callback(h, queue)
  <2>1. CASE async_connect(1, queue) /\ UNCHANGED promise
    <3>1. 1 \in Nat /\ 1 # None
      BY DEF None
    <3> QED BY <1>1, <2>1, <3>1, ConnectKeeps DEF ConnectInv
  <2>2. CASE endpoints = 0 /\ SetPromise(h.error, queue)
    BY <1>1, <1>2, <1>3, <2>2, PromiseKeeps DEF ConnectInv
  <2> QED BY <1>3, <2>1, <2>2 DEF resolve_callback, NoEndpoint
<1>4. CASE h.op = "connect" /\ connect_callback(h, queue)
  <2>1. CASE async_connect(h.i + 1, queue) /\ UNCHANGED promise
    <3>1. h.i + 1 \in Nat /\ h.i + 1 # None
      BY <1>2 DEF None
    <3> QED BY <1>1, <2>1, <3>1, ConnectKeeps DEF ConnectInv
  <2>2. CASE SetPromise(h.error, queue)
    BY <1>1, <1>2, <1>4, <2>2, PromiseKeeps DEF ConnectInv
  <2> QED BY <1>4, <2>1, <2>2 DEF connect_callback
<1>5. CASE h.op = "timeout" /\ timeout_callback(h, queue)
  <2>1. CASE InEarnest(h) /\ close(queue)
    <3>1. expired /\ Standing'
      BY <1>1, <1>2, <1>5, <2>1 DEF InEarnest, Standing
    <3>2. queue \in Seq(Due')
      BY <1>1, <3>1, StillDue
    <3>3. attempt # None => Complete("connect", attempt, "operation_aborted") \in Due'
      BY DEF ConnectInv, Complete, Due
    <3>4. ready' \in Seq(Due')
      BY <2>1, <3>2, <3>3, OneMore DEF close
    <3> QED BY <2>1, <3>1, <3>4 DEF close, None, ConnectInv
  <2>2. CASE ready' = queue /\ UNCHANGED <<attempt, peer>>
    BY <1>1, <1>5, <2>2, StillDue DEF ConnectInv, Standing, timeout_callback
  <2> QED BY <1>5, <2>1, <2>2 DEF timeout_callback
<1> QED BY <1>3, <1>4, <1>5 DEF IoThread

(* The host, the network and the clock. *)
LEMMA NetworkKeeps == ConnectInv /\ (ConnectDone \/ ResolveDone \/ TimerExpires) => ConnectInv'
<1> SUFFICES ASSUME ConnectInv, ConnectDone \/ ResolveDone \/ TimerExpires
             PROVE  ConnectInv'
  OBVIOUS
<1>1. CASE ConnectDone
  BY <1>1, AnswerKeeps DEF ConnectDone, ConnectInv, None
<1>2. CASE ResolveDone
  <2> DEFINE h == Complete("resolve", None, IF endpoints = 0 THEN "not_found" ELSE "ok")
  <2>1. ready \in Seq(Due')
    BY <1>2, StillDue DEF ResolveDone, ConnectInv, Standing
  <2>2. h \in Due'
    BY <1>2 DEF ResolveDone, Complete, Due, None
  <2>3. ready' = Append(ready, h) /\ UNCHANGED <<attempt, promise, peer, expired>>
    BY <1>2 DEF ResolveDone
  <2> QED BY <2>1, <2>2, <2>3, OneMore DEF ConnectInv, Standing
<1>3. CASE TimerExpires
  <2> DEFINE h == Complete("timeout", None, "ok")
  <2>1. Standing' /\ expired'
    BY <1>3 DEF TimerExpires, Standing
  <2>2. ready \in Seq(Due')
    BY <1>3, <2>1, StillDue DEF TimerExpires, ConnectInv
  <2>3. h \in Due'
    BY <2>1 DEF Complete, Due, None
  <2> QED BY <1>3, <2>1, <2>2, <2>3, OneMore DEF ConnectInv, TimerExpires
<1> QED BY <1>1, <1>2, <1>3

LEMMA LifeKeepsConnection == ConnectInv /\ [LifeNext]_lvars => ConnectInv'
<1> SUFFICES ASSUME ConnectInv, [LifeNext]_lvars
             PROVE  ConnectInv'
  OBVIOUS
<1>1. ASSUME UNCHANGED <<endpoints, attempt, ready, peer, promise, expired>>
      PROVE  ConnectInv'
  BY <1>1 DEF ConnectInv, Due, Standing
<1>2. CASE Connects
  BY <1>1, <1>2 DEF Connects, async_resolve, async_wait
<1>3. CASE Opens
  <2>1. ready' = WithAbortedWait(ready)
        /\ UNCHANGED <<endpoints, attempt, peer, promise, expired>>
    BY <1>3 DEF Opens, Return
  <2>2. ready \in Seq(Due')
    BY <2>1, StillDue DEF ConnectInv, Standing
  <2> QED BY <2>1, <2>2, CancelKeeps DEF ConnectInv, Standing
<1>4. CASE io_service_thread
  BY <1>4, IoThreadKeeps DEF io_service_thread
<1>5. CASE Network
  BY <1>5, NetworkKeeps DEF Network
<1>6. CASE UNCHANGED vars
  BY <1>1, <1>6 DEF vars
<1> QED
  BY <1>2, <1>3, <1>4, <1>5, <1>6 DEF LifeNext, lvars, reader_open, OverLine, WithoutProvider,
     reader_load, reader_save, terminal_call, Returns, reader_close

(* A reader over tcp loses its connection only to a timer that expired.    *)
THEOREM OnlyTheTimerCloses == LifeSpec => []ClosedOnlyByTimer
<1>1. LifeInit => ConnectInv
  BY DEF LifeInit, Init, ConnectInv, None
<1>2. ConnectInv /\ [LifeNext]_lvars => ConnectInv'
  BY LifeKeepsConnection
<1>3. ConnectInv => ClosedOnlyByTimer
  BY DEF ConnectInv, Standing, ClosedOnlyByTimer
<1> QED BY <1>1, <1>2, <1>3, PTL DEF LifeSpec

-----------------------------------------------------------------------------
(* The chain of endpoints.  Resolving, connecting, the handlers of both    *)
(* and the promise are one token, which is in one place at a time.         *)

Handler == [op : {"resolve", "connect", "timeout"}, i : Nat,
            error : {"ok", "refused", "not_found", "already_connected", "operation_aborted"}]

(* What a handler that waits may say. *)
Told ==
    {h \in Handler :
        /\ h.op = "timeout" /\ h.error # "operation_aborted" => expired
        /\ h.op = "resolve" /\ h.error = "ok" => endpoints # 0
        /\ h.op = "connect" => h.i \in 1..endpoints
        /\ h.op = "connect" /\ ~expired => h.error # "operation_aborted"
        /\ h.op = "connect" /\ ~expired /\ h.error = "ok" => accepted = {h.i}
        /\ h.op # "timeout" /\ aborted => h.op = "connect" /\ h.error = "operation_aborted"}

NoLink(queue) == \A k \in 1..Len(queue) : queue[k].op = "timeout"

OneLink(queue) ==
    \A j, k \in 1..Len(queue) : queue[j].op # "timeout" /\ queue[k].op # "timeout" => j = k

TokenInv ==
    /\ endpoints \in Nat /\ attempt \in 0..endpoints
    /\ ready \in Seq(Told) /\ OneLink(ready)
    /\ NoLink(ready) \/ (~resolving /\ attempt = None /\ promise = "none" /\ pc # "resolve")
    /\ resolving => attempt = None /\ promise = "none" /\ pc # "resolve"
    /\ attempt # None => promise = "none" /\ pc # "resolve"
    /\ pc = "resolve" => promise = "none"

(* What has come of it while the timer has not fired, and once it has      *)
(* interrupted an attempt.                                                 *)
OutcomeInv ==
    /\ ~expired => /\ peer = None <=> accepted = {}
                   /\ attempt # None => accepted = {}
                   /\ promise = "ok" => accepted = {endpoints}
    /\ aborted => /\ pc # "resolve" /\ ~resolving /\ attempt = None
                  /\ promise \in {"none", "operation_aborted"}

ChainInv == TokenInv /\ OutcomeInv

LEMMA NoLinkOneLink == \A queue : NoLink(queue) => OneLink(queue)
BY DEF NoLink, OneLink

(* Handlers of timers are told the same whatever the endpoints answer.     *)
LEMMA StillTold ==
    ASSUME NEW STATE queue, queue \in Seq(Told), expired => expired',
           NoLink(queue) \/ (UNCHANGED <<endpoints, accepted>> /\ (aborted' => aborted))
    PROVE  queue \in Seq(Told')
<1>1. \A k \in 1..Len(queue) : queue[k] \in Told
  OBVIOUS
<1>2. \A k \in 1..Len(queue) : queue[k] \in Told'
  BY <1>1 DEF Told, NoLink
<1> QED BY <1>2

LEMMA OneMoreTold ==
    ASSUME NEW STATE queue, queue \in Seq(Told'), NEW STATE h, h \in Told'
    PROVE  /\ Append(queue, h) \in Seq(Told')
           /\ NoLink(queue) => OneLink(Append(queue, h))
           /\ h.op = "timeout" => (NoLink(queue) => NoLink(Append(queue, h)))
           /\ h.op = "timeout" => (OneLink(queue) => OneLink(Append(queue, h)))
BY AppendProperties DEF NoLink, OneLink

(* The handler at the head, and what is behind it. *)
LEMMA RestTold ==
    ASSUME ready \in Seq(Told), ready # <<>>, OneLink(ready)
    PROVE  /\ Head(ready) \in Told /\ Tail(ready) \in Seq(Told)
           /\ OneLink(Tail(ready))
           /\ Head(ready).op # "timeout" => NoLink(Tail(ready))
           /\ NoLink(ready) => NoLink(Tail(ready))
           /\ Head(ready).op = "timeout" /\ NoLink(Tail(ready)) => NoLink(ready)
<1>1. /\ Head(ready) = ready[1] /\ Len(ready) \in Nat /\ Len(ready) > 0
      /\ Len(Tail(ready)) = Len(ready) - 1
      /\ \A k \in 1..Len(Tail(ready)) : Tail(ready)[k] = ready[k + 1]
  BY HeadTailProperties
<1>2. Head(ready) \in Told /\ Tail(ready) \in Seq(Told)
  BY HeadTailProperties
<1>3. \A k \in 1..Len(Tail(ready)) : k + 1 \in 1..Len(ready) /\ k + 1 # 1
  BY <1>1
<1>4. OneLink(Tail(ready))
  <2> SUFFICES ASSUME NEW j \in 1..Len(Tail(ready)), NEW k \in 1..Len(Tail(ready)),
                      Tail(ready)[j].op # "timeout", Tail(ready)[k].op # "timeout"
               PROVE  j = k
    BY DEF OneLink
  <2>1. ready[j + 1].op # "timeout" /\ ready[k + 1].op # "timeout"
    BY <1>1
  <2>2. j + 1 = k + 1
    BY <2>1, <1>3 DEF OneLink
  <2> QED BY <2>2
<1>5. Head(ready).op # "timeout" => NoLink(Tail(ready))
  <2> SUFFICES ASSUME ready[1].op # "timeout", NEW k \in 1..Len(Tail(ready)),
                      ready[k + 1].op # "timeout"
               PROVE  FALSE
    BY <1>1 DEF NoLink
  <2>1. 1 \in 1..Len(ready)
    BY <1>1
  <2> QED BY <2>1, <1>3 DEF OneLink
<1>6. NoLink(ready) => NoLink(Tail(ready))
  BY <1>1, <1>3 DEF NoLink
<1>7. Head(ready).op = "timeout" /\ NoLink(Tail(ready)) => NoLink(ready)
  <2> SUFFICES ASSUME ready[1].op = "timeout", NoLink(Tail(ready)), NEW k \in 1..Len(ready)
               PROVE  ready[k].op = "timeout"
    BY <1>1 DEF NoLink
  <2>1. k = 1 \/ (k - 1 \in 1..Len(Tail(ready)) /\ Tail(ready)[k - 1] = ready[k])
    BY <1>1
  <2> QED BY <2>1 DEF NoLink
<1> QED BY <1>2, <1>4, <1>5, <1>6, <1>7

LEMMA CancelTold ==
    ASSUME NEW STATE queue, queue \in Seq(Told')
    PROVE  /\ WithAbortedWait(queue) \in Seq(Told')
           /\ NoLink(queue) => NoLink(WithAbortedWait(queue))
           /\ OneLink(queue) => OneLink(WithAbortedWait(queue))
<1> DEFINE h == Complete("timeout", None, "operation_aborted")
<1>1. h \in Told' /\ h.op = "timeout"
  BY DEF Complete, Told, Handler, None
<1> QED BY <1>1, OneMoreTold DEF WithAbortedWait

(* An endpoint that is tried when no handler of the chain waits.           *)
LEMMA AnswerChain ==
    ASSUME NEW STATE i, i \in 1..endpoints, NEW STATE queue, queue \in Seq(Told), NoLink(queue),
           endpoints \in Nat, pc # "resolve", ~resolving, promise = "none", ~aborted,
           OutcomeInv, ~expired => accepted = {},
           Answer(i, queue), attempt' = None,
           UNCHANGED <<pc, endpoints, resolving, promise, expired, aborted>>
    PROVE  ChainInv'
<1>1. queue \in Seq(Told')
  BY StillTold
<1>2. ASSUME NEW error \in {"ok", "refused"}, ready' = Append(queue, Complete("connect", i, error)),
             error = "ok" /\ ~expired => accepted' = {i}
      PROVE  ready' \in Seq(Told') /\ OneLink(ready')
  <2> DEFINE h == Complete("connect", i, error)
  <2>1. h \in Told'
    BY <1>2 DEF Complete, Told, Handler
  <2> HIDE DEF h
  <2> QED BY <1>1, <1>2, <2>1, OneMoreTold DEF h
<1>3. CASE /\ ready' = Append(queue, Complete("connect", i, "ok"))
           /\ peer' = i /\ accepted' = accepted \cup {i}
  <2>1. ready' \in Seq(Told') /\ OneLink(ready')
    BY <1>2, <1>3
  <2> QED BY <1>3, <2>1 DEF ChainInv, TokenInv, OutcomeInv, None
<1>4. CASE /\ ready' = Append(queue, Complete("connect", i, "refused"))
           /\ UNCHANGED <<peer, accepted>>
  <2>1. ready' \in Seq(Told') /\ OneLink(ready')
    BY <1>2, <1>4
  <2> QED BY <1>4, <2>1 DEF ChainInv, TokenInv, OutcomeInv, None
<1> QED BY <1>3, <1>4 DEF Answer

LEMMA ConnectChain ==
    ASSUME NEW STATE i, i \in 1..endpoints, NEW STATE queue, queue \in Seq(Told), NoLink(queue),
           endpoints \in Nat, pc # "resolve", ~resolving, promise = "none", ~aborted,
           OutcomeInv, attempt = None, async_connect(i, queue),
           UNCHANGED <<pc, endpoints, resolving, promise, expired, aborted>>
    PROVE  ChainInv'
<1>1. CASE peer # None /\ UNCHANGED <<attempt, peer, accepted>>
           /\ ready' = Append(queue, Complete("connect", i, "already_connected"))
  <2> DEFINE h == Complete("connect", i, "already_connected")
  <2>1. h \in Told'
    BY DEF Complete, Told, Handler
  <2>2. queue \in Seq(Told')
    BY StillTold
  <2> HIDE DEF h
  <2>3. ready' \in Seq(Told') /\ OneLink(ready')
    BY <1>1, <2>1, <2>2, OneMoreTold DEF h
  <2> QED BY <1>1, <2>3 DEF ChainInv, TokenInv, OutcomeInv, None
<1>2. CASE peer = None /\ attempt' = i /\ ready' = queue /\ UNCHANGED <<peer, accepted>>
  <2>1. ready' \in Seq(Told') /\ OneLink(ready') /\ NoLink(ready')
    BY <1>2, StillTold, NoLinkOneLink
  <2> QED BY <1>2, <2>1 DEF ChainInv, TokenInv, OutcomeInv, None
<1>3. CASE peer = None /\ Answer(i, queue) /\ UNCHANGED attempt
  BY <1>3, AnswerChain DEF OutcomeInv
<1> QED BY <1>1, <1>2, <1>3 DEF async_connect

(* The end of the chain. *)
LEMMA PromiseChain ==
    ASSUME NEW STATE error, NEW STATE queue, queue \in Seq(Told), NoLink(queue),
           endpoints \in Nat, attempt = None, ~resolving, pc # "resolve", OutcomeInv,
           error = "ok" /\ ~expired => accepted = {endpoints},
           aborted => error = "operation_aborted",
           SetPromise(error, queue), UNCHANGED <<pc, endpoints, resolving, expired, aborted>>
    PROVE  ChainInv'
<1>1. UNCHANGED <<attempt, peer, accepted>> /\ promise' = error /\ ready' = WithAbortedWait(queue)
  BY DEF SetPromise
<1>2. queue \in Seq(Told')
  BY StillTold
<1>3. ready' \in Seq(Told') /\ NoLink(ready') /\ OneLink(ready')
  BY <1>1, <1>2, CancelTold, NoLinkOneLink
<1> QED BY <1>1, <1>3 DEF ChainInv, TokenInv, OutcomeInv, None

(* socket.close(): an attempt under way is interrupted, and is the last.   *)
LEMMA CloseChain ==
    ASSUME ChainInv, NEW STATE queue, queue \in Seq(Told), OneLink(queue),
           NoLink(queue) => NoLink(ready), NoLink(ready) => NoLink(queue), expired, close(queue),
           UNCHANGED <<pc, endpoints, resolving, promise, accepted, expired>>
    PROVE  ChainInv'
<1>1. CASE attempt = None
  <2>1. ready' = queue /\ (aborted' <=> aborted) /\ attempt' = None
    BY <1>1 DEF close
  <2>2. ready' \in Seq(Told') /\ OneLink(ready')
    BY <2>1, StillTold
  <2>3. NoLink(ready) => NoLink(ready')
    BY <2>1
  <2> QED BY <1>1, <2>1, <2>2, <2>3 DEF ChainInv, TokenInv, OutcomeInv
<1>2. CASE attempt # None
  <2> DEFINE h == Complete("connect", attempt, "operation_aborted")
  <2>1. ready' = Append(queue, h) /\ aborted' /\ attempt' = None
    BY <1>2 DEF close
  <2>2. NoLink(queue) /\ promise = "none" /\ pc # "resolve" /\ ~resolving
    BY <1>2 DEF ChainInv, TokenInv
  <2>3. h \in Told'
    BY <1>2 DEF Complete, Told, Handler, ChainInv, TokenInv, None
  <2>4. queue \in Seq(Told')
    BY <2>2, StillTold
  <2> HIDE DEF h
  <2>5. ready' \in Seq(Told') /\ OneLink(ready')
    BY <2>1, <2>2, <2>3, <2>4, OneMoreTold
  <2> QED BY <2>1, <2>2, <2>5 DEF ChainInv, TokenInv, OutcomeInv, None
<1> QED BY <1>1, <1>2

LEMMA IoThreadChain == ChainInv /\ IoThread => ChainInv'
<1> SUFFICES ASSUME ChainInv, IoThread
             PROVE  ChainInv'
  OBVIOUS
<1> DEFINE h == Head(ready)
           queue == Tail(ready)
<1>1. /\ h \in Told /\ queue \in Seq(Told) /\ OneLink(queue)
      /\ h.op # "timeout" => NoLink(queue) /\ ~NoLink(ready)
      /\ NoLink(ready) => NoLink(queue)
      /\ h.op = "timeout" /\ NoLink(queue) => NoLink(ready)
      /\ endpoints \in Nat
  BY RestTold, HeadTailProperties DEF ChainInv, TokenInv, IoThread, NoLink
<1>2. UNCHANGED <<pc, endpoints, resolving, expired>>
  BY DEF IoThread
<1>3. h.op # "timeout" => attempt = None /\ promise = "none" /\ pc # "resolve" /\ ~resolving
  BY <1>1 DEF ChainInv, TokenInv
<1> HIDE DEF h, queue
<1>4. CASE h.op = "resolve" /\ resolve_callback(h, queue) /\ UNCHANGED aborted
  <2>1. ~aborted
    BY <1>1, <1>4 DEF Told
  <2>2. CASE endpoints # 0 /\ async_connect(1, queue) /\ UNCHANGED promise
    <3>1. 1 \in 1..endpoints
      BY <1>1, <2>2
    <3> QED BY <1>1, <1>2, <1>3, <1>4, <2>1, <2>2, <3>1, ConnectChain DEF ChainInv
  <2>3. CASE endpoints = 0 /\ SetPromise(h.error, queue)
    <3>1. h.error # "ok"
      BY <1>1, <1>4, <2>3 DEF Told
    <3> QED BY <1>1, <1>2, <1>3, <1>4, <2>1, <2>3, <3>1, PromiseChain DEF ChainInv
  <2> QED BY <1>4, <2>2, <2>3 DEF resolve_callback, NoEndpoint
<1>5. CASE h.op = "connect" /\ connect_callback(h, queue) /\ UNCHANGED aborted
  <2>1. h.i \in 1..endpoints
    BY <1>1, <1>5 DEF Told
  <2>2. CASE More(h) /\ async_connect(h.i + 1, queue) /\ UNCHANGED promise
    <3>1. h.i + 1 \in 1..endpoints /\ ~aborted
      BY <1>1, <1>5, <2>1, <2>2 DEF More, Told
    <3> QED BY <1>1, <1>2, <1>3, <1>5, <2>2, <3>1, ConnectChain DEF ChainInv
  <2>3. CASE ~More(h) /\ SetPromise(h.error, queue)
    <3>1. h.error = "ok" => h.i = endpoints
      BY <1>1, <2>1, <2>3 DEF More
    <3>2. h.error = "ok" /\ ~expired => accepted = {endpoints}
      BY <1>1, <1>5, <3>1 DEF Told
    <3>3. aborted => h.error = "operation_aborted"
      BY <1>1, <1>5 DEF Told
    <3> QED BY <1>1, <1>2, <1>3, <1>5, <2>3, <3>2, <3>3, PromiseChain DEF ChainInv
  <2> QED BY <1>5, <2>2, <2>3 DEF connect_callback
<1>6. CASE h.op = "timeout" /\ timeout_callback(h, queue)
  <2>1. CASE InEarnest(h) /\ close(queue)
    <3>1. expired
      BY <1>1, <1>6, <2>1 DEF InEarnest, Told
    <3> QED BY <1>1, <1>2, <1>6, <2>1, <3>1, CloseChain DEF timeout_callback
  <2>2. CASE ready' = queue /\ UNCHANGED <<attempt, peer, aborted>>
    <3>1. UNCHANGED <<promise, accepted>>
      BY <1>6 DEF timeout_callback
    <3>2. queue \in Seq(Told')
      BY <1>1, <1>2, <2>2, <3>1, StillTold
    <3> QED BY <1>1, <1>2, <2>2, <3>1, <3>2 DEF ChainInv, TokenInv, OutcomeInv
  <2> QED BY <1>6, <2>1, <2>2 DEF timeout_callback
<1> QED BY <1>4, <1>5, <1>6 DEF IoThread, h, queue

LEMMA NetworkChain == ChainInv /\ (ConnectDone \/ ResolveDone \/ TimerExpires) => ChainInv'
<1> SUFFICES ASSUME ChainInv, ConnectDone \/ ResolveDone \/ TimerExpires
             PROVE  ChainInv'
  OBVIOUS
<1>1. CASE ConnectDone
  <2>1. /\ attempt \in 1..endpoints /\ endpoints \in Nat /\ NoLink(ready) /\ ready \in Seq(Told)
        /\ pc # "resolve" /\ ~resolving /\ promise = "none" /\ ~aborted
        /\ OutcomeInv /\ (~expired => accepted = {})
    BY <1>1 DEF ConnectDone, ChainInv, TokenInv, OutcomeInv, None
  <2> QED BY <1>1, <2>1, AnswerChain DEF ConnectDone
<1>2. CASE ResolveDone
  <2> DEFINE h == Complete("resolve", None, IF endpoints = 0 THEN "not_found" ELSE "ok")
  <2>1. /\ ready' = Append(ready, h) /\ ~resolving'
        /\ UNCHANGED <<pc, endpoints, attempt, peer, promise, accepted, expired, aborted>>
    BY <1>2 DEF ResolveDone
  <2>2. NoLink(ready) /\ attempt = None /\ promise = "none" /\ pc # "resolve" /\ ~aborted
    BY <1>2 DEF ResolveDone, ChainInv, TokenInv, OutcomeInv
  <2>3. h \in Told'
    BY <2>1, <2>2 DEF Complete, Told, Handler, None
  <2>4. ready \in Seq(Told')
    BY <2>1, <2>2, StillTold DEF ChainInv, TokenInv
  <2> HIDE DEF h
  <2>5. ready' \in Seq(Told') /\ OneLink(ready')
    BY <2>1, <2>2, <2>3, <2>4, OneMoreTold
  <2> QED BY <2>1, <2>2, <2>5 DEF ChainInv, TokenInv, OutcomeInv
<1>3. CASE TimerExpires
  <2> DEFINE h == Complete("timeout", None, "ok")
  <2>1. /\ ready' = Append(ready, h) /\ expired'
        /\ UNCHANGED <<pc, endpoints, resolving, attempt, peer, promise, accepted, aborted>>
    BY <1>3 DEF TimerExpires
  <2>2. h \in Told' /\ h.op = "timeout"
    BY <2>1 DEF Complete, Told, Handler, None
  <2>3. ready \in Seq(Told')
    BY <2>1, StillTold DEF ChainInv, TokenInv
  <2> HIDE DEF h
  <2>4. ready' \in Seq(Told') /\ OneLink(ready') /\ (NoLink(ready) => NoLink(ready'))
    BY <2>1, <2>2, <2>3, OneMoreTold DEF ChainInv, TokenInv
  <2> QED BY <2>1, <2>4 DEF ChainInv, TokenInv, OutcomeInv
<1> QED BY <1>1, <1>2, <1>3

LEMMA LifeKeepsChain == ChainInv /\ [LifeNext]_lvars => ChainInv'
<1> SUFFICES ASSUME ChainInv, [LifeNext]_lvars
             PROVE  ChainInv'
  OBVIOUS
<1>1. CASE Connects
  <2>1. CASE async_resolve
    <3>1. /\ ready \in Seq(Told) /\ NoLink(ready) /\ attempt = None /\ promise = "none"
          /\ ~aborted
      BY <2>1 DEF async_resolve, ChainInv, TokenInv, OutcomeInv
    <3>2. ready \in Seq(Told')
      BY <2>1, <3>1, StillTold DEF async_resolve
    <3> QED BY <2>1, <3>1, <3>2 DEF async_resolve, ChainInv, TokenInv, OutcomeInv, NoLink, OneLink
  <2>2. CASE async_wait
    <3>1. ready \in Seq(Told')
      BY <2>2, StillTold DEF async_wait, ChainInv, TokenInv
    <3> QED BY <2>2, <3>1 DEF async_wait, ChainInv, TokenInv, OutcomeInv, NoLink, OneLink
  <2> QED BY <1>1, <2>1, <2>2 DEF Connects
<1>2. CASE Opens
  <2>1. /\ ready' = WithAbortedWait(ready) /\ pc' # "resolve" /\ pc # "resolve"
        /\ UNCHANGED <<endpoints, resolving, attempt, peer, promise, accepted, expired, aborted>>
    BY <1>2 DEF Opens, Return
  <2>2. ready \in Seq(Told')
    BY <2>1, StillTold DEF ChainInv, TokenInv
  <2>3. ready' \in Seq(Told') /\ OneLink(ready') /\ (NoLink(ready) => NoLink(ready'))
    BY <2>1, <2>2, CancelTold DEF ChainInv, TokenInv
  <2> QED BY <2>1, <2>3 DEF ChainInv, TokenInv, OutcomeInv
<1>3. CASE io_service_thread
  BY <1>3, IoThreadChain DEF io_service_thread
<1>4. CASE Network
  BY <1>4, NetworkChain DEF Network
<1>5. CASE UNCHANGED vars
  BY <1>5 DEF vars, ChainInv, TokenInv, OutcomeInv, Told, NoLink, OneLink
<1> QED
  BY <1>1, <1>2, <1>3, <1>4, <1>5 DEF LifeNext, lvars, reader_open, OverLine, WithoutProvider,
     reader_load, reader_save, terminal_call, Returns, reader_close

LEMMA LifeStartsChain == LifeInit => ChainInv
BY ConnectorAssumption DEF ConnectorAssumption, LifeInit, Init, ChainInv, TokenInv, OutcomeInv,
   NoLink, OneLink, None

(* Without a timeout the constructor succeeds exactly when the last        *)
(* endpoint of the name accepts and every one before it has refused.       *)
THEOREM LastEndpointDecides == LifeSpec => []OnlyTheLastCounts
<1>1. ChainInv => OnlyTheLastCounts
  BY DEF ChainInv, OutcomeInv, OnlyTheLastCounts
<1> QED BY <1>1, LifeStartsChain, LifeKeepsChain, PTL DEF LifeSpec

(* An attempt the timer interrupts is the last one.                        *)
THEOREM InterruptedIsLast == LifeSpec => []InterruptedFails
<1>1. ChainInv => InterruptedFails
  <2> SUFFICES ASSUME ChainInv, aborted, NEW k \in 1..Len(ready), ready[k].op = "connect"
               PROVE  ready[k].error = "operation_aborted"
    BY DEF ChainInv, OutcomeInv, InterruptedFails
  <2>1. ready[k] \in Told
    BY DEF ChainInv, TokenInv
  <2> QED BY <2>1 DEF Told
<1> QED BY <1>1, LifeStartsChain, LifeKeepsChain, PTL DEF LifeSpec

=============================================================================
