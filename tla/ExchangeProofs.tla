--------------------------- MODULE ExchangeProofs ---------------------------
(***************************************************************************)
(* Proofs about what AsioMT and AsioRun share: the steps of Exchange,      *)
(* whoever runs them and in whatever order.                                *)
(***************************************************************************)
EXTENDS Exchange, SequenceTheorems, FiniteSetTheorems, TLAPS

(* The one step of AsioRun that Exchange does not have: run() returns.     *)
RunEnds ==
    /\ pc = "running"
    /\ pc' = "waiting"
    /\ UNCHANGED <<cmd, returned, protocol, asio, line, history>>

AnyClient ==
    \/ Construct \/ SendFails \/ GetAnswer \/ Destroy \/ Close \/ Join
    \/ SendThen("running") \/ SendThen("waiting") \/ RunEnds

ExchangeNext == AnyClient \/ RunOne \/ Environment

-----------------------------------------------------------------------------
(* What an interval of numbers counts. *)
LEMMA IntervalSize ==
    \A n \in Nat : IsFiniteSet(1..n) /\ Cardinality(1..n) = n
<1>1. TAKE n \in Nat
<1>2. IsFiniteSet(1..n) /\ Cardinality(1..n) = IF 1 > n THEN 0 ELSE n - 1 + 1
  BY FS_Interval
<1>3. 1 > n => n = 0
  OBVIOUS
<1>4. n - 1 + 1 = n
  OBVIOUS
<1> QED BY <1>2, <1>3, <1>4

(* The inductive invariant for types.  A queued read handler names a       *)
(* prefix of read_buf by its length only: that the buffer is still at      *)
(* least that long, however many reads have overwritten it, is what keeps  *)
(* the bytes fed to the filters well typed.                                *)
Bounded(k) == {h \in Handler : h.n <= k}

TypeInv ==
    /\ TypeOK
    /\ ready \in Seq(Bounded(Len(read_buf)))

(* A longer buffer holds what a shorter one held. *)
LEMMA BoundedMonotonic ==
    ASSUME NEW k \in Nat, NEW m \in Nat, k <= m, NEW q \in Seq(Bounded(k))
    PROVE  q \in Seq(Bounded(m))
<1>1. Bounded(k) \subseteq Bounded(m)
  BY DEF Bounded, Handler
<1>2. QED
  BY <1>1, SeqMonotonic

(* The handlers with no bytes fit any buffer. *)
LEMMA EmptyHandlers ==
    ASSUME NEW k \in Nat, NEW c \in Command, NEW err \in BOOLEAN
    PROVE  /\ WriteHandler(c, err) \in Bounded(k)
           /\ WaitHandler(c, err) \in Bounded(k)
           /\ ReadHandler(0, err) \in Bounded(k)
  BY DEF WriteHandler, WaitHandler, ReadHandler, Bounded, Handler, None

(* Cancelling a wait queues one more such handler. *)
LEMMA WithAbortedWaitType ==
    ASSUME NEW k \in Nat, NEW q \in Seq(Bounded(k)), timer \in Command \cup {None}
    PROVE  WithAbortedWait(q) \in Seq(Bounded(k))
<1>1. CASE timer = None
  BY <1>1 DEF WithAbortedWait
<1>2. CASE timer # None
  <2>1. WaitHandler(timer, TRUE) \in Bounded(k)
    BY <1>2, EmptyHandlers
  <2>2. QED
    BY <1>2, <2>1, AppendProperties DEF WithAbortedWait
<1>3. QED
  BY <1>1, <1>2

(* A function on 1..n is a sequence of that length. *)
LEMMA FunctionIsSeq ==
    ASSUME NEW n \in Nat, NEW S, NEW f \in [1..n -> S]
    PROVE  f \in Seq(S) /\ Len(f) = n
  OBVIOUS

(* What a prefix or a suffix of a sequence is. *)
LEMMA PartOfSeq ==
    ASSUME NEW S, NEW s \in Seq(S), NEW a \in Nat \ {0}, NEW b \in Nat,
           b <= Len(s)
    PROVE  /\ SubSeq(s, a, b) \in Seq(S)
           /\ Len(SubSeq(s, a, b)) = IF a <= b THEN b - a + 1 ELSE 0
<1>1. Len(s) \in Nat /\ a \in Int /\ b \in Int
  BY LenProperties
<1>2. \A i \in a..b : s[i] \in S
  BY <1>1, ElementOfSeq
<1>3. QED
  BY ONLY <1>1, <1>2, SubSeqProperties

(* A completed read overwrites a prefix of the buffer, which never gets    *)
(* shorter, and its handler names no more than is there.                   *)
LEMMA ReadIntoType ==
    ASSUME TypeOK, NEW q \in Seq(Bounded(Len(read_buf))), ReadInto(q)
    PROVE  /\ read_buf' \in Seq(Fragment)
           /\ rx' \in Seq(Fragment)
           /\ ready' \in Seq(Bounded(Len(read_buf')))
<1> DEFINE n    == Readable
           data == SubSeq(rx, 1, n)
           rest == SubSeq(read_buf, n + 1, Len(read_buf))
<1>1. Len(rx) \in Nat /\ Len(read_buf) \in Nat /\ n \in Nat /\ n <= Len(rx)
  BY ExchangeAssumption, LenProperties DEF TypeOK, Readable
<1>2. data \in Seq(Fragment) /\ Len(data) = n
  BY <1>1, PartOfSeq DEF TypeOK
<1>3. /\ rest \in Seq(Fragment)
      /\ Len(rest) = IF n + 1 <= Len(read_buf) THEN Len(read_buf) - n ELSE 0
  BY <1>1, PartOfSeq DEF TypeOK
<1>4. read_buf' = data \o rest
  BY <1>2 DEF ReadInto, Overwrite
<1> HIDE DEF n, data, rest
<1>5. read_buf' \in Seq(Fragment) /\ Len(read_buf') = Len(data) + Len(rest)
  BY <1>2, <1>3, <1>4, ConcatProperties
<1>6. Len(read_buf') \in Nat /\ n <= Len(read_buf') /\ Len(read_buf) <= Len(read_buf')
  BY <1>1, <1>2, <1>3, <1>5
<1>7. rx' \in Seq(Fragment)
  BY <1>1, PartOfSeq DEF ReadInto, TypeOK, n
<1>8. q \in Seq(Bounded(Len(read_buf')))
  BY <1>1, <1>6, BoundedMonotonic
<1>9. ReadHandler(n, FALSE) \in Bounded(Len(read_buf'))
  BY <1>1, <1>6 DEF ReadHandler, Bounded, Handler, None
<1>10. ready' \in Seq(Bounded(Len(read_buf')))
  BY <1>8, <1>9, AppendProperties DEF ReadInto, n
<1>11. QED
  BY <1>5, <1>7, <1>10

(* Starting a read keeps the types, whether it completes at once or not. *)
LEMMA InitiateReadType ==
    ASSUME TypeOK, NEW q \in Seq(Bounded(Len(read_buf))), initiate_read(q)
    PROVE  /\ read_buf' \in Seq(Fragment)
           /\ rx' \in Seq(Fragment)
           /\ reads' \in Nat
           /\ ready' \in Seq(Bounded(Len(read_buf')))
<1>1. CASE ReadInto(q) /\ reads' = reads
  BY <1>1, ReadIntoType DEF TypeOK
<1>2. CASE reads' = reads + 1 /\ ready' = q /\ UNCHANGED <<read_buf, rx>>
  BY <1>2 DEF TypeOK
<1>3. QED
  BY <1>1, <1>2 DEF initiate_read

(* The filter holds what it is fed, or less. *)
LEMMA UnbytestaffType ==
    ASSUME NEW S, NEW f \in Seq(S), NEW chunk \in Seq(S)
    PROVE  Unbytestaff(f, chunk) \in Seq(S)
<1> DEFINE lead == {i \in 1..Len(chunk) : \A j \in 1..i : chunk[j].part # "head"}
<1>1. Len(chunk) \in Nat
  BY LenProperties
<1>2. IsFiniteSet(1..Len(chunk))
  BY <1>1, FS_Interval
<1>3. IsFiniteSet(lead)
  BY <1>2, FS_Subset
<1>4. Skipped(chunk) \in Nat
  BY <1>3, FS_CardinalityType DEF Skipped
<1>5. FromHead(chunk) \in Seq(S)
  BY <1>1, <1>4, PartOfSeq DEF FromHead
<1>6. QED
  BY <1>5, ConcatProperties DEF Unbytestaff

(* A complete packet gives a proper answer. *)
LEMMA VerdictType ==
    ASSUME NEW f \in Seq(Fragment), Complete(f)
    PROVE  Verdict(f) \in Answer
<1>1. Len(f) \in Nat /\ Len(f) >= 2
  BY LenProperties DEF Complete
<1>2. f[1] \in Fragment /\ f[2] \in Fragment
  BY <1>1, ElementOfSeq
<1>3. QED
  BY <1>2 DEF Verdict, Answer, PacketAnswer, ErrorAnswer, Packet, Error, Fragment

(* No answer is the value of a promise not yet set. *)
LEMMA AnswerIsSet == Unset \notin Answer
  BY DEF Unset, Answer, PacketAnswer, ErrorAnswer, Error, Command, None

(* Setting a promise, or finding it set, keeps the answers well typed. *)
LEMMA SatisfiedType ==
    ASSUME TypeOK, NEW s, NEW a \in Answer
    PROVE  Satisfied(s, a) \in [Command -> Answer \cup {Unset}]
  BY DEF Satisfied, TypeOK

(* The queue's first handler and the rest. *)
LEMMA ReadyParts ==
    ASSUME TypeInv, ready # <<>>
    PROVE  /\ Head(ready) \in Bounded(Len(read_buf))
           /\ Head(ready) \in Handler
           /\ Head(ready).n <= Len(read_buf)
           /\ Tail(ready) \in Seq(Bounded(Len(read_buf)))
           /\ Len(read_buf) \in Nat
<1>1. Head(ready) \in Bounded(Len(read_buf)) /\ Tail(ready) \in Seq(Bounded(Len(read_buf)))
  BY HeadTailProperties DEF TypeInv
<1>2. QED
  BY <1>1, LenProperties DEF Bounded, TypeInv, TypeOK

LEMMA TypeInit == ASSUME NEW k \in Nat PROVE Opened(k) => TypeInv
<1>1. /\ <<>> \in Seq(Fragment)
      /\ <<>> \in Seq(Command)
      /\ <<>> \in Seq(Handler)
      /\ <<>> \in Seq(Bounded(Len(<<>>)))
  OBVIOUS
<1>r. Unset \in Returned
  BY DEF Returned
<1>2. Opened(k) => TypeOK
  <2> SUFFICES ASSUME Opened(k) PROVE TypeOK
    OBVIOUS
  <2>1. /\ filter \in [Command -> Seq(Fragment)]
        /\ answer \in [Command -> Answer \cup {Unset}]
        /\ returned \in [Command -> Returned]
        /\ device \in [Command -> {"none", "received", "responding", "done"}]
    BY <1>1, <1>r DEF Opened
  <2>2. /\ writes \in Seq(Command)
        /\ ready \in Seq(Handler)
        /\ read_buf \in Seq(Fragment)
        /\ rx \in Seq(Fragment)
    BY <1>1 DEF Opened
  <2>3. QED
    BY <2>1, <2>2 DEF Opened, TypeOK
<1>3. QED
  BY <1>1, <1>2 DEF Opened, TypeInv

(* The client's steps and those of the port and the device. *)
LEMMA TypeClient == TypeInv /\ AnyClient => TypeInv'
<1> SUFFICES ASSUME TypeInv, AnyClient PROVE TypeInv'
  OBVIOUS
<1> USE DEF TypeInv, TypeOK, asio, line, protocol, client, history
<1>1. CASE Construct
  BY <1>1, ExchangeAssumption DEF Construct, Command, None
<1>2. ASSUME NEW p \in {"running", "waiting"}, SendThen(p) PROVE TypeInv'
  BY <1>2, AppendProperties DEF SendThen
<1>3. CASE SendFails
  BY <1>3 DEF SendFails, Returned
<1>4. CASE GetAnswer
  BY <1>4 DEF GetAnswer, Returned
<1>5. CASE Destroy
  BY <1>5 DEF Destroy
<1>6. CASE Close \/ Join
  BY <1>6 DEF Close, Join
<1>7. CASE RunEnds
  BY <1>7 DEF RunEnds
<1>8. QED
  BY <1>1, <1>2, <1>3, <1>4, <1>5, <1>6, <1>7 DEF AnyClient

LEMMA TypeEnvironment == TypeInv /\ Environment => TypeInv'
<1> SUFFICES ASSUME TypeInv, Environment PROVE TypeInv'
  OBVIOUS
<1> DEFINE k == Len(read_buf)
<1>k. k \in Nat
  BY LenProperties DEF TypeInv, TypeOK
<1>b. \A h : \A q \in Seq(Bounded(k)) : h \in Bounded(k) => Append(q, h) \in Seq(Bounded(k))
  BY AppendProperties
<1>s. ASSUME NEW q \in Seq(Bounded(k)) PROVE q \in Seq(Handler)
  <2>1. Bounded(k) \subseteq Handler
    BY DEF Bounded
  <2>2. QED
    BY <2>1, SeqMonotonic
<1> HIDE DEF k
<1>1. ASSUME writes # <<>>
      PROVE  Head(writes) \in Command /\ Tail(writes) \in Seq(Command)
  BY <1>1, HeadTailProperties DEF TypeInv, TypeOK
<1>2. CASE WriteDone
  <2>1. device' \in [Command -> {"none", "received", "responding", "done"}]
    BY <1>1, <1>2 DEF WriteDone, TypeInv, TypeOK
  <2>2. WriteHandler(Head(writes), FALSE) \in Bounded(k)
    BY <1>k, <1>1, <1>2, EmptyHandlers DEF WriteDone
  <2>3. ready' \in Seq(Bounded(k))
    BY <1>2, <1>b, <2>2 DEF WriteDone, TypeInv, k
  <2>4. QED
    BY <1>1, <1>2, <1>s, <2>1, <2>3 DEF WriteDone, TypeInv, TypeOK, client, protocol, history, k
<1>3. CASE WriteFails
  <2>2. WriteHandler(Head(writes), TRUE) \in Bounded(k)
    BY <1>k, <1>1, <1>3, EmptyHandlers DEF WriteFails
  <2>3. ready' \in Seq(Bounded(k))
    BY <1>3, <1>b, <2>2 DEF WriteFails, TypeInv, k
  <2>4. QED
    BY <1>1, <1>3, <1>s, <2>3 DEF WriteFails, TypeInv, TypeOK, client, protocol, line, k
<1>4. CASE ReadSome
  <2>1. /\ read_buf' \in Seq(Fragment)
        /\ rx' \in Seq(Fragment)
        /\ ready' \in Seq(Bounded(Len(read_buf')))
    BY <1>4, ReadIntoType DEF ReadSome, TypeInv
  <2>2. ready' \in Seq(Handler)
    <3>1. Bounded(Len(read_buf')) \subseteq Handler
      BY DEF Bounded
    <3>2. QED
      BY <2>1, <3>1, SeqMonotonic
  <2>3. QED
    BY <1>4, <2>1, <2>2 DEF ReadSome, TypeInv, TypeOK, client, protocol, history
<1>5. CASE ReadFails
  <2>1. ready' \in Seq(Bounded(k))
    <3>1. ReadHandler(0, TRUE) \in Bounded(k)
      BY <1>k DEF ReadHandler, Bounded, Handler, None
    <3>2. QED
      BY <1>5, <1>b, <3>1 DEF ReadFails, TypeInv, k
  <2>2. reads' \in Nat
    BY <1>5 DEF ReadFails, TypeInv, TypeOK
  <2>3. QED
    BY <1>5, <1>s, <2>1, <2>2 DEF ReadFails, TypeInv, TypeOK, client, protocol, line, history, k
<1>6. CASE TimerExpires
  <2>0. timer \in Command
    BY <1>6 DEF TimerExpires, TypeInv, TypeOK
  <2>1. ready' \in Seq(Bounded(k))
    <3>1. WaitHandler(timer, FALSE) \in Bounded(k)
      BY <1>k, <2>0, EmptyHandlers
    <3>2. QED
      BY <1>6, <1>b, <3>1 DEF TimerExpires, TypeInv, k
  <2>2. QED
    BY <1>6, <1>s, <2>0, <2>1 DEF TimerExpires, TypeInv, TypeOK, client, protocol, line, k
<1>7. CASE Respond
  <2>1. PICK c \in Command :
          /\ device' \in {[device EXCEPT ![c] = "responding"], [device EXCEPT ![c] = "done"]}
          /\ \E part \in {"head"} \cup Replies : rx' = Append(rx, [of |-> c, part |-> part])
    BY <1>7 DEF Respond
  <2>2. rx' \in Seq(Fragment)
    BY <2>1, AppendProperties DEF Fragment, TypeInv, TypeOK
  <2>3. device' \in [Command -> {"none", "received", "responding", "done"}]
    BY <2>1 DEF TypeInv, TypeOK
  <2>4. QED
    BY <1>7, <2>2, <2>3 DEF Respond, TypeInv, TypeOK, client, protocol, asio, history
<1>8. QED
  BY <1>2, <1>3, <1>4, <1>5, <1>6, <1>7 DEF Environment

(* serial.cancel() queues one handler without bytes per operation. *)
LEMMA AbortedType ==
    ASSUME TypeOK, NEW k \in Nat
    PROVE  /\ AbortedReads \in Seq(Bounded(k))
           /\ AbortedWrites \in Seq(Bounded(k))
           /\ Len(AbortedWrites) = Len(writes)
           /\ \A i \in 1..Len(writes) : AbortedWrites[i] = WriteHandler(writes[i], TRUE)
<1>1. ReadHandler(0, TRUE) \in Bounded(k) /\ reads \in Nat
  BY DEF ReadHandler, Bounded, Handler, None, TypeOK
<1>2. AbortedReads \in Seq(Bounded(k))
  BY <1>1, FunctionIsSeq DEF AbortedReads
<1>3. Len(writes) \in Nat /\ \A i \in 1..Len(writes) : writes[i] \in Command
  BY LenProperties, ElementOfSeq DEF TypeOK
<1>4. \A i \in 1..Len(writes) : WriteHandler(writes[i], TRUE) \in Bounded(k)
  BY <1>3, EmptyHandlers
<1>5. AbortedWrites \in [1..Len(writes) -> Bounded(k)]
  BY <1>4 DEF AbortedWrites
<1>6. AbortedWrites \in Seq(Bounded(k)) /\ Len(AbortedWrites) = Len(writes)
  BY <1>3, <1>5, FunctionIsSeq
<1>7. QED
  BY <1>2, <1>6 DEF AbortedWrites

(* The handlers. *)
LEMMA TypeHandlers == TypeInv /\ RunOne => TypeInv'
<1> SUFFICES ASSUME TypeInv, RunOne PROVE TypeInv'
  OBVIOUS
<1> DEFINE k == Len(read_buf)
<1>k. k \in Nat
  BY LenProperties DEF TypeInv, TypeOK
<1>t. timer \in Command \cup {None} /\ TypeOK
  BY DEF TypeInv, TypeOK
<1>q. ASSUME ready # <<>>
      PROVE  /\ Head(ready) \in Handler
             /\ Head(ready).n \in 0..k
             /\ Head(ready).this \in Command \cup {None}
             /\ Tail(ready) \in Seq(Bounded(k))
             /\ WithAbortedWait(Tail(ready)) \in Seq(Bounded(k))
  <2>1. /\ Head(ready) \in Handler
        /\ Head(ready).n <= k
        /\ Tail(ready) \in Seq(Bounded(k))
    BY <1>q, ReadyParts
  <2>2. Head(ready).n \in 0..k /\ Head(ready).this \in Command \cup {None}
    BY <1>k, <2>1 DEF Handler
  <2>3. QED
    BY <1>k, <1>t, <2>1, <2>2, WithAbortedWaitType
<1>s. ASSUME NEW m, NEW q \in Seq(Bounded(m)) PROVE q \in Seq(Handler)
  <2>1. Bounded(m) \subseteq Handler
    BY DEF Bounded
  <2>2. QED
    BY <2>1, SeqMonotonic
<1>e. /\ Error("IO_ERROR") \in Answer
      /\ TimeoutAnswer \in Answer
  BY DEF Answer, ErrorAnswer, TimeoutAnswer
<1>1. CASE write_callback
  <2> DEFINE q == WithAbortedWait(Tail(ready))
  <2>0. ready # <<>>
    BY <1>1 DEF write_callback, Dispatch
  <2>1. CASE Head(ready).error
    <3>1. PICK s : SetAnswer(s, Error("IO_ERROR"))
      BY <1>1, <2>1 DEF write_callback
    <3>2. answer' \in [Command -> Answer \cup {Unset}]
      BY <1>e, <1>t, <3>1, SatisfiedType DEF SetAnswer
    <3>3. slots' \subseteq Command /\ timer' \in Command \cup {None}
      BY <1>t, <3>1 DEF SetAnswer, TypeOK
    <3>4. ready' = q /\ UNCHANGED <<reads, read_buf, rx>>
      BY <1>1, <2>1 DEF write_callback
    <3>5. ready' \in Seq(Bounded(Len(read_buf'))) /\ ready' \in Seq(Handler)
      BY <1>q, <1>s, <2>0, <3>4
    <3>6. QED
      BY <1>1, <1>t, <3>2, <3>3, <3>4, <3>5 DEF write_callback, TypeInv, TypeOK, client
  <2>2. CASE ~Head(ready).error
    <3>1. initiate_read(q) /\ timer' = Head(ready).this
      BY <1>1, <2>2 DEF write_callback, SetTimeout
    <3>2. /\ read_buf' \in Seq(Fragment)
          /\ rx' \in Seq(Fragment)
          /\ reads' \in Nat
          /\ ready' \in Seq(Bounded(Len(read_buf')))
      BY <1>q, <1>t, <2>0, <3>1, InitiateReadType
    <3>3. timer' \in Command \cup {None} /\ ready' \in Seq(Handler)
      BY <1>q, <1>s, <2>0, <3>1, <3>2
    <3>4. UNCHANGED <<slots, answer>>
      BY <1>1, <2>2 DEF write_callback
    <3>5. QED
      BY <1>1, <1>t, <3>2, <3>3, <3>4 DEF write_callback, TypeInv, TypeOK, client
  <2>3. QED
    BY <2>1, <2>2
<1>2. CASE read_callback
  <2> DEFINE h     == Head(ready)
             q     == Tail(ready)
             chunk == SubSeq(read_buf, 1, h.n)
             fed   == [c \in Command |-> IF c \in slots THEN Unbytestaff(filter[c], chunk)
                                                        ELSE filter[c]]
             found == {c \in slots : Complete(fed[c])}
  <2>0. ready # <<>>
    BY <1>2 DEF read_callback, Dispatch
  <2>1. CASE h.error
    <3>1. ready' = q /\ UNCHANGED <<protocol, reads, timer, read_buf, rx, stale>>
      BY <1>2, <2>1 DEF read_callback
    <3>2. ready' \in Seq(Bounded(Len(read_buf'))) /\ ready' \in Seq(Handler)
      BY <1>q, <1>s, <2>0, <3>1
    <3>3. QED
      BY <1>2, <1>t, <3>1, <3>2 DEF read_callback, TypeInv, TypeOK, client, protocol
  <2>2. CASE ~h.error
    <3>1. chunk \in Seq(Fragment)
      BY <1>q, <1>t, <2>0, PartOfSeq DEF TypeOK
    <3>2. fed \in [Command -> Seq(Fragment)]
      BY <1>t, <3>1, UnbytestaffType DEF TypeOK
    <3>3. \A c \in found : Verdict(fed[c]) \in Answer
      BY <1>t, <3>2, VerdictType DEF TypeOK
    <3>a. /\ filter' = fed
          /\ stale' \in BOOLEAN
          /\ \/ found = {} /\ Reread(found, q) /\ UNCHANGED <<slots, answer, timer>>
             \/ \E c \in found : /\ SetAnswer(c, Verdict(fed[c]))
                                 /\ Reread(found, WithAbortedWait(q))
      BY <1>2, <2>2 DEF read_callback
    <3> HIDE DEF h, q, chunk, fed, found
    <3>4. CASE found = {} /\ Reread(found, q) /\ UNCHANGED <<slots, answer, timer>>
      <4>1. initiate_read(q)
        BY <3>4 DEF Reread
      <4>2. /\ read_buf' \in Seq(Fragment)
            /\ rx' \in Seq(Fragment)
            /\ reads' \in Nat
            /\ ready' \in Seq(Bounded(Len(read_buf')))
        BY <1>q, <1>t, <2>0, <4>1, InitiateReadType DEF q
      <4>3. ready' \in Seq(Handler)
        BY <1>s, <4>2
      <4>4. QED
        BY <1>2, <1>t, <3>2, <3>4, <3>a, <4>2, <4>3 DEF read_callback, TypeInv, TypeOK, client
    <3>5. ASSUME NEW c \in found,
                 SetAnswer(c, Verdict(fed[c])), Reread(found, WithAbortedWait(q))
          PROVE  TypeInv'
      <4>1. ready' = WithAbortedWait(q) /\ UNCHANGED <<reads, read_buf, rx>>
        BY <3>5 DEF Reread
      <4>2. ready' \in Seq(Bounded(Len(read_buf'))) /\ ready' \in Seq(Handler)
        BY <1>q, <1>s, <2>0, <4>1 DEF q
      <4>3. answer' \in [Command -> Answer \cup {Unset}]
        BY <1>t, <3>3, <3>5, SatisfiedType DEF SetAnswer
      <4>4. slots' \subseteq Command /\ timer' \in Command \cup {None}
        BY <1>t, <3>5 DEF SetAnswer, TypeOK
      <4>5. QED
        BY <1>2, <1>t, <3>2, <3>a, <4>1, <4>2, <4>3, <4>4
        DEF read_callback, TypeInv, TypeOK, client
    <3>6. QED
      BY <3>4, <3>5, <3>a
  <2>3. QED
    BY <2>1, <2>2
<1>3. CASE wait_callback
  <2>0. ready # <<>>
    BY <1>3 DEF wait_callback, Dispatch
  <2>1. CASE Cancelled(Head(ready))
    <3>1. ready' = Tail(ready) /\ UNCHANGED <<slots, answer, timer, io, stale>>
      BY <1>3, <2>1 DEF wait_callback
    <3>2. ready' \in Seq(Bounded(k)) /\ ready' \in Seq(Handler)
      BY <1>q, <1>s, <2>0, <3>1
    <3>3. QED
      BY <1>3, <1>t, <3>1, <3>2 DEF wait_callback, TypeInv, TypeOK, client, line
  <2>2. CASE ~Cancelled(Head(ready))
    <3>1. PICK s : SetAnswer(s, TimeoutAnswer)
      BY <1>3, <2>2 DEF wait_callback
    <3>2. answer' \in [Command -> Answer \cup {Unset}]
      BY <1>e, <1>t, <3>1, SatisfiedType DEF SetAnswer
    <3>3. slots' \subseteq Command /\ timer' \in Command \cup {None}
      BY <1>t, <3>1 DEF SetAnswer, TypeOK
    <3>4. ready' \in Seq(Bounded(k)) /\ ready' \in Seq(Handler)
      BY <1>3, <1>q, <1>s, <2>0, <2>2 DEF wait_callback
    <3>5. io' \in {"idle", "cancel"} /\ stale' \in BOOLEAN
      BY <1>3, <2>2 DEF wait_callback
    <3>6. QED
      BY <1>3, <1>t, <3>2, <3>3, <3>4, <3>5 DEF wait_callback, TypeInv, TypeOK, client, line
  <2>3. QED
    BY <2>1, <2>2
<1>4. CASE CancelSerial
  <2>1. AbortedReads \in Seq(Bounded(k)) /\ AbortedWrites \in Seq(Bounded(k))
    BY <1>k, <1>t, AbortedType
  <2>2. ready' = ready \o AbortedReads \o AbortedWrites
    BY <1>4 DEF CancelSerial
  <2>3. ready \o AbortedReads \in Seq(Bounded(k))
    BY <2>1, ConcatProperties DEF TypeInv
  <2>4. ready' \in Seq(Bounded(k))
    BY <2>1, <2>2, <2>3, ConcatProperties
  <2>5. ready' \in Seq(Handler)
    BY <1>s, <2>4
  <2>6. QED
    BY <1>4, <1>t, <2>4, <2>5, EmptySeq
    DEF CancelSerial, TypeInv, TypeOK, client, protocol, line, history
<1>5. QED
  BY <1>1, <1>2, <1>3, <1>4 DEF RunOne

LEMMA TypeStep == TypeInv /\ [ExchangeNext]_vars => TypeInv'
<1>2. TypeInv /\ UNCHANGED vars => TypeInv'
  BY DEF TypeInv, TypeOK, vars, client, protocol, asio, line, history
<1>3. QED
  BY <1>2, TypeClient, TypeEnvironment, TypeHandlers DEF ExchangeNext

-----------------------------------------------------------------------------
(* No chunk of bytes reaches the protocol of an earlier command: whatever  *)
(* order handlers and client run in, only the protocol now on the client's *)
(* stack is connected to the signal.                                       *)
LEMMA ListenerStep == TypeInv /\ OneListener /\ [ExchangeNext]_vars => OneListener'
<1> SUFFICES ASSUME TypeInv, OneListener, [ExchangeNext]_vars PROVE OneListener'
  OBVIOUS
<1> USE DEF OneListener, Live
<1>1. CASE Construct
  BY <1>1 DEF Construct
<1>2. CASE SendThen("running") \/ SendThen("waiting")
  BY <1>2 DEF SendThen, protocol
<1>3. CASE SendFails
  BY <1>3 DEF SendFails, protocol
<1>4. CASE GetAnswer
  BY <1>4 DEF GetAnswer, protocol
<1>5. CASE Destroy
  BY <1>5 DEF Destroy
<1>6. CASE Close \/ Join \/ RunEnds
  BY <1>6 DEF Close, Join, RunEnds, protocol
<1>7. ASSUME client' = client, slots' \subseteq slots PROVE OneListener'
  BY <1>7 DEF client
<1>8. CASE RunOne
  <2>1. client' = client
    BY <1>8 DEF RunOne, write_callback, read_callback, wait_callback, CancelSerial
  <2>2. slots' \subseteq slots
    <3>1. CASE write_callback
      BY <3>1 DEF write_callback, SetAnswer
    <3>2. CASE read_callback
      BY <3>2 DEF read_callback, SetAnswer, protocol
    <3>3. CASE wait_callback
      BY <3>3 DEF wait_callback, SetAnswer
    <3>4. CASE CancelSerial
      BY <3>4 DEF CancelSerial, protocol
    <3>5. QED
      BY <1>8, <3>1, <3>2, <3>3, <3>4 DEF RunOne
  <2>3. QED
    BY <1>7, <2>1, <2>2
<1>9. CASE Environment \/ UNCHANGED vars
  <2>1. client' = client /\ protocol' = protocol
    BY <1>9 DEF Environment, WriteDone, WriteFails, ReadSome, ReadFails, TimerExpires,
                Respond, vars
  <2>2. QED
    BY <1>7, <2>1 DEF protocol
<1>10. QED
  BY <1>1, <1>2, <1>3, <1>4, <1>5, <1>6, <1>8, <1>9 DEF ExchangeNext, AnyClient, RunOne

-----------------------------------------------------------------------------
(* Every element of one queue is in the other. *)
Kept(p, q) == \A i \in 1..Len(p) : \E j \in 1..Len(q) : q[j] = p[i]

LEMMA KeptAppend ==
    ASSUME NEW q \in Seq(Handler), NEW h \in Handler
    PROVE  Kept(q, Append(q, h))
  BY AppendProperties, LenProperties DEF Kept

LEMMA KeptTransitive ==
    ASSUME NEW p, NEW q, NEW r, Kept(p, q), Kept(q, r)
    PROVE  Kept(p, r)
  BY DEF Kept

LEMMA KeptSelf ==
    ASSUME NEW q
    PROVE  Kept(q, q)
  BY DEF Kept

LEMMA KeptWithAbortedWait ==
    ASSUME TypeOK, NEW q \in Seq(Handler)
    PROVE  Kept(q, WithAbortedWait(q)) /\ WithAbortedWait(q) \in Seq(Handler)
<1>1. CASE timer = None
  BY <1>1, KeptSelf DEF WithAbortedWait
<1>2. CASE timer # None
  <2>1. WaitHandler(timer, TRUE) \in Handler
    BY <1>2 DEF TypeOK, WaitHandler, Handler
  <2>2. QED
    BY <1>2, <2>1, KeptAppend, AppendProperties DEF WithAbortedWait
<1>3. QED
  BY <1>1, <1>2

LEMMA KeptReadInto ==
    ASSUME TypeOK, NEW q \in Seq(Handler), ReadInto(q)
    PROVE  Kept(q, ready')
<1>1. Readable \in Nat
  BY ExchangeAssumption, LenProperties DEF TypeOK, Readable
<1>2. ReadHandler(Readable, FALSE) \in Handler
  BY <1>1 DEF ReadHandler, Handler
<1>3. QED
  BY <1>2, KeptAppend DEF ReadInto

LEMMA KeptInitiateRead ==
    ASSUME TypeOK, NEW q \in Seq(Handler), initiate_read(q)
    PROVE  Kept(q, ready')
  BY KeptReadInto, KeptSelf DEF initiate_read

(* A handler only takes its own entry out of the queue. *)
LEMMA HandlersKeepTail ==
    ASSUME TypeOK, write_callback \/ read_callback \/ wait_callback
    PROVE  Kept(Tail(ready), ready')
<1>1. ready # <<>>
  BY DEF write_callback, read_callback, wait_callback, Dispatch
<1>2. Tail(ready) \in Seq(Handler)
  BY <1>1, HeadTailProperties DEF TypeOK
<1> DEFINE q == WithAbortedWait(Tail(ready))
<1>3. Kept(Tail(ready), q) /\ q \in Seq(Handler)
  BY <1>2, KeptWithAbortedWait
<1>4. CASE ready' \in {Tail(ready), q}
  BY <1>3, <1>4, KeptSelf
<1>5. CASE initiate_read(Tail(ready))
  BY <1>2, <1>5, KeptInitiateRead
<1>6. CASE initiate_read(q)
  BY <1>3, <1>6, KeptInitiateRead, KeptTransitive
<1>7. CASE write_callback
  BY <1>4, <1>6, <1>7 DEF write_callback
<1>8. CASE read_callback
  <2>1. \/ ready' = Tail(ready)
        \/ \E found : Reread(found, Tail(ready)) \/ Reread(found, q)
    BY <1>8 DEF read_callback
  <2>2. QED
    BY <1>4, <1>5, <1>6, <2>1 DEF Reread
<1>9. CASE wait_callback
  BY <1>4, <1>9 DEF wait_callback
<1>10. QED
  BY <1>7, <1>8, <1>9

LEMMA QueuedKept ==
    ASSUME Kept(ready, ready'), NEW kind, NEW c, NEW err, Queued(kind, c, err)
    PROVE  Queued(kind, c, err)'
  BY DEF Kept, Queued

(* An entry is either the one whose handler runs or one of the rest. *)
LEMMA QueuedHeadOrTail ==
    ASSUME TypeOK, ready # <<>>, Kept(Tail(ready), ready'),
           NEW kind, NEW c, NEW err, Queued(kind, c, err)
    PROVE  \/ Head(ready).handler = kind /\ Head(ready).this = c /\ Head(ready).error = err
           \/ Queued(kind, c, err)'
<1>1. PICK i \in 1..Len(ready) :
        ready[i].handler = kind /\ ready[i].this = c /\ ready[i].error = err
  BY DEF Queued
<1>2. Len(ready) \in Nat
  BY LenProperties DEF TypeOK
<1>3. CASE i = 1
  BY <1>1, <1>3, HeadTailProperties DEF TypeOK
<1>4. CASE i # 1
  <2>1. i - 1 \in 1..Len(Tail(ready)) /\ Tail(ready)[i - 1] = ready[i]
    BY <1>1, <1>2, <1>4, HeadTailProperties DEF TypeOK
  <2>2. PICK j \in 1..Len(ready') : ready'[j] = Tail(ready)[i - 1]
    BY <2>1 DEF Kept
  <2>3. QED
    BY <1>1, <2>1, <2>2 DEF Queued
<1>5. QED
  BY <1>3, <1>4

(* An answer given to the waiting command's protocol is there afterwards,  *)
(* whether it was the first one or not.                                    *)
LEMMA AnswerGiven ==
    ASSUME TypeOK, cmd \in Command, NEW a \in Answer, SetAnswer(cmd, a)
    PROVE  answer'[cmd] # Unset
  BY AnswerIsSet DEF SetAnswer, Satisfied, TypeOK

(* The handlers answer the command the client waits for, or nobody; that   *)
(* the port failed is what write_callback says, of its own error.          *)
LEMMA OnlyItsAnswer ==
    ASSUME TypeInv, OneListener, ExchangeNext
    PROVE  /\ \A d \in Command : d # cmd => answer'[d] = answer[d]
           /\ cmd' \in {cmd, cmd + 1} /\ expired \subseteq expired' /\ faulted \subseteq faulted'
           /\ \A d \in Command :
                 answer'[d] = Error("IO_ERROR") /\ answer[d] # Error("IO_ERROR")
                     => write_callback /\ Head(ready).error
<1>1. TypeOK /\ answer \in [Command -> Answer \cup {Unset}]
  BY DEF TypeInv, TypeOK
<1>2. ASSUME NEW s \in {cmd, None}, NEW a, SetAnswer(s, a)
      PROVE  /\ \A d \in Command : d # cmd => answer'[d] = answer[d]
             /\ \A d \in Command : answer'[d] \in {answer[d], a}
  BY <1>1, <1>2 DEF SetAnswer, Satisfied, Command, None
<1>3. \A c \in Command \cup {None} : Storage(c) \subseteq {cmd, None}
  BY DEF Storage, Live
<1>4. Error("NO_ANSWER") # Error("IO_ERROR")
  BY DEF Error
<1>5. CASE write_callback
  <2>1. Head(ready) \in Handler /\ Head(ready).this \in Command \cup {None}
    BY <1>5, ReadyParts DEF write_callback, Dispatch, Handler
  <2>2. UNCHANGED <<cmd, expired, faulted>>
    BY <1>5 DEF write_callback, client
  <2>3. CASE UNCHANGED answer
    BY <1>5, <2>2, <2>3
  <2>4. CASE Head(ready).error /\ \E s \in Storage(Head(ready).this) : SetAnswer(s, Error("IO_ERROR"))
    <3>1. PICK s \in {cmd, None} : SetAnswer(s, Error("IO_ERROR"))
      BY <1>3, <2>1, <2>4
    <3> QED BY <1>2, <1>5, <2>2, <2>4, <3>1
  <2> QED BY <1>5, <2>3, <2>4 DEF write_callback
<1>6. CASE wait_callback
  <2>1. Head(ready) \in Handler /\ Head(ready).this \in Command \cup {None}
    BY <1>6, ReadyParts DEF wait_callback, Dispatch, Handler
  <2>2. UNCHANGED <<cmd, expired, faulted>>
    BY <1>6 DEF wait_callback, client
  <2>3. CASE UNCHANGED answer
    BY <2>2, <2>3
  <2>4. CASE \E s \in Storage(Head(ready).this) : SetAnswer(s, TimeoutAnswer)
    <3>1. PICK s \in {cmd, None} : SetAnswer(s, Error("NO_ANSWER"))
      BY <1>3, <2>1, <2>4 DEF TimeoutAnswer
    <3> QED BY <1>2, <1>4, <2>2, <3>1
  <2> QED BY <1>6, <2>3, <2>4 DEF wait_callback
<1>7. CASE read_callback
  <2> DEFINE chunk == SubSeq(read_buf, 1, Head(ready).n)
             fed   == [c \in Command |-> IF c \in slots THEN Unbytestaff(filter[c], chunk)
                                                        ELSE filter[c]]
  <2>1. UNCHANGED <<cmd, expired, faulted>>
    BY <1>7 DEF read_callback, client
  <2>2. CASE UNCHANGED answer
    BY <2>1, <2>2
  <2>3. CASE \E c \in slots : SetAnswer(c, Verdict(fed[c]))
    <3>1. PICK c \in slots : SetAnswer(c, Verdict(fed[c]))
      BY <2>3
    <3>2. PICK a : a = Verdict(fed[c])
      OBVIOUS
    <3>3. a # Error("IO_ERROR")
      BY <3>2 DEF Verdict, Packet, Error
    <3>4. c \in {cmd, None}
      BY DEF OneListener, Live
    <3>5. SetAnswer(c, a)
      BY <3>1, <3>2
    <3> HIDE DEF fed, chunk
    <3> QED BY <1>2, <2>1, <3>3, <3>4, <3>5
  <2> QED BY <1>7, <2>2, <2>3 DEF read_callback, protocol
<1>8. CASE AnyClient \/ CancelSerial \/ Environment
  <2>1. UNCHANGED answer /\ expired \subseteq expired' /\ faulted \subseteq faulted'
        /\ cmd' \in {cmd, cmd + 1}
    BY <1>8 DEF AnyClient, Construct, SendThen, RunEnds, SendFails, GetAnswer, Destroy, Close, Join,
         CancelSerial, Environment, WriteDone, WriteFails, ReadSome, ReadFails, TimerExpires,
         Respond, client, protocol, history
  <2> QED BY <2>1
<1> QED BY <1>5, <1>6, <1>7, <1>8 DEF ExchangeNext, RunOne

-----------------------------------------------------------------------------
(* One thing that will wake the client up. *)
Waker ==
    \/ answer[cmd] # Unset
    \/ \E i \in 1..Len(writes) : writes[i] = cmd
    \/ \E err \in BOOLEAN : Queued("write_callback", cmd, err)
    \/ timer = cmd
    \/ Queued("wait_callback", cmd, FALSE)

(* The port only moves what wakes the client up towards its handler.       *)
LEMMA EnvironmentKeepsWaker ==
    ASSUME TypeInv, Waker, Environment
    PROVE  Waker'
<1>1. TypeOK /\ cmd' = cmd /\ answer' = answer /\ Len(ready) \in Nat /\ ready \in Seq(Handler)
  BY LenProperties DEF Environment, WriteDone, WriteFails, ReadSome, ReadFails, TimerExpires,
     Respond, client, protocol, TypeInv, TypeOK
<1>q. ASSUME NEW e \in Handler, ready' = Append(ready, e)
      PROVE  /\ \A kind, err : Queued(kind, cmd, err) => Queued(kind, cmd, err)'
             /\ e.this = cmd => Queued(e.handler, cmd, e.error)'
  <2>1. Kept(ready, ready')
    BY <1>1, <1>q, KeptAppend
  <2>2. Len(ready') = Len(ready) + 1 /\ ready'[Len(ready) + 1] = e
    BY <1>1, <1>q, AppendProperties
  <2>3. Len(ready) + 1 \in 1..Len(ready')
    BY <1>1, <2>2
  <2>4. QED
    BY <1>1, <2>1, <2>2, <2>3, QueuedKept DEF Queued
<1>w. ASSUME writes # <<>>, NEW err \in BOOLEAN, writes' = Tail(writes), timer' = timer,
             ready' = Append(ready, WriteHandler(Head(writes), err))
      PROVE  Waker'
  <2>1. /\ Head(writes) \in Command
        /\ \A i \in 1..Len(writes) : i = 1 \/ (i - 1 \in 1..Len(writes') /\ writes'[i - 1] = writes[i])
        /\ Head(writes) = writes[1]
    BY <1>1, <1>w, HeadTailProperties, LenProperties DEF TypeOK
  <2>2. WriteHandler(Head(writes), err) \in Handler
    BY <2>1 DEF WriteHandler, Handler
  <2>3. Head(writes) = cmd => Queued("write_callback", cmd, err)'
    BY <1>w, <1>q, <2>2 DEF WriteHandler
  <2>4. QED
    BY <1>1, <1>w, <1>q, <2>1, <2>2, <2>3 DEF Waker
<1>2. CASE WriteDone
  BY <1>2, <1>w DEF WriteDone
<1>3. CASE WriteFails
  BY <1>3, <1>w DEF WriteFails
<1>r. ASSUME NEW n \in Nat, NEW err \in BOOLEAN, UNCHANGED <<writes, timer>>,
             ready' = Append(ready, ReadHandler(n, err))
      PROVE  Waker'
  <2>1. ReadHandler(n, err) \in Handler
    BY DEF ReadHandler, Handler
  <2>2. QED
    BY <1>1, <1>q, <1>r, <2>1 DEF Waker
<1>4. CASE ReadSome
  <2>1. Readable \in Nat
    BY <1>1, ExchangeAssumption, LenProperties DEF TypeOK, Readable
  <2>2. QED
    BY <1>4, <1>r, <2>1 DEF ReadSome, ReadInto
<1>5. CASE ReadFails
  BY <1>5, <1>r DEF ReadFails
<1>6. CASE TimerExpires
  <2>1. /\ timer \in Command
        /\ ready' = Append(ready, WaitHandler(timer, FALSE))
        /\ writes' = writes
    BY <1>1, <1>6 DEF TimerExpires, TypeOK
  <2>2. WaitHandler(timer, FALSE) \in Handler
    BY <2>1 DEF WaitHandler, Handler
  <2>3. timer = cmd => Queued("wait_callback", cmd, FALSE)'
    BY <1>q, <2>1, <2>2 DEF WaitHandler
  <2>4. QED
    BY <1>1, <1>q, <2>1, <2>2, <2>3 DEF Waker
<1>7. CASE Respond
  BY <1>1, <1>7 DEF Respond, asio, Waker, Queued
<1>8. QED
  BY <1>2, <1>3, <1>4, <1>5, <1>6, <1>7 DEF Environment

-----------------------------------------------------------------------------
(* The service.  What the device has heard of, what it says and what is    *)
(* left of it in buffers and filters comes from commands that were sent;   *)
(* so does every reply a promise is given.                                 *)
Sent == {c \in 1..cmd : returned[c] # Error("TOO_LONG") /\ (c = cmd => pc # "listening")}

OfSent == {g \in Fragment : g.of \in Sent}

SentInv ==
    /\ writes \in Seq(Sent)
    /\ \A c \in Command : device[c] # "none" => c \in Sent
    /\ rx \in Seq(OfSent)
    /\ read_buf \in Seq(OfSent)
    /\ \A c \in Command : filter[c] \in Seq(OfSent)

(* Where send_command is and what it has returned. *)
CallInv ==
    /\ pc \in {"listening", "running", "waiting"} => returned[cmd] = Unset
    /\ pc = "returning" => returned[cmd] # Unset
    /\ \A c \in Command : c > cmd => returned[c] = Unset

ServiceInv == SentInv /\ CallInv

(* The value returned for an answer is that of no other outcome. *)
LEMMA ResultOfAnswer ==
    ASSUME NEW a \in Answer
    PROVE  Result(a) # Unset /\ Result(a) # Error("TOO_LONG")
<1>1. CASE a \in PacketAnswer
  <2>1. /\ a \in [result : {"DATA", "SHORT_DATA", "NACK"}, of : Command]
        /\ a.result \in {"DATA", "SHORT_DATA", "NACK"}
    BY <1>1 DEF PacketAnswer
  <2> QED BY <2>1 DEF Result, Unset, Error
<1>2. CASE a \in ErrorAnswer
  BY <1>2 DEF ErrorAnswer, Result, Unset, Error
<1> QED BY <1>1, <1>2 DEF Answer

(* What send_command works with: all that the client's side of a provider  *)
(* needs to be typed, whatever serves the handlers.                        *)
CallTypes ==
    /\ cmd \in Command \cup {None}
    /\ pc \in {"listening", "running", "waiting", "returning"} => cmd \in Command
    /\ returned \in [Command -> Returned]
    /\ answer \in [Command -> Answer \cup {Unset}]

(* Only the client's steps change where send_command is.                   *)
LEMMA ClientOrNot == [ExchangeNext]_vars => AnyClient \/ UNCHANGED client
  BY DEF ExchangeNext, RunOne, write_callback, read_callback, wait_callback, CancelSerial,
     Environment, WriteDone, WriteFails, ReadSome, ReadFails, TimerExpires, Respond, vars

(* The client's side of send_command. *)
LEMMA CallStep ==
    ASSUME CallTypes, CallInv, AnyClient \/ UNCHANGED client
    PROVE  CallInv' /\ Sent \subseteq Sent'
<1>1. cmd \in Nat
  BY DEF CallTypes, Command, None
<1> USE DEF CallTypes
<1>2. ASSUME UNCHANGED client PROVE CallInv' /\ Sent \subseteq Sent'
  BY <1>2 DEF client, CallInv, Sent
<1>3. CASE Construct
  <2>1. cmd' = cmd + 1 /\ pc' = "listening" /\ returned' = returned /\ cmd + 1 \in Command
    BY <1>1, <1>3, ExchangeAssumption DEF Construct, Command
  <2>2. returned[cmd + 1] = Unset
    BY <1>1, <2>1 DEF CallInv
  <2>3. Sent \subseteq Sent'
    BY <1>1, <2>1 DEF Sent
  <2>4. CallInv'
    BY <1>1, <2>1, <2>2 DEF CallInv, Command
  <2> QED BY <2>3, <2>4
<1>4. CASE SendThen("running") \/ SendThen("waiting")
  BY <1>1, <1>4 DEF SendThen, CallInv, Sent
<1>5. CASE SendFails
  <2>1. /\ cmd \in Command /\ cmd' = cmd /\ pc = "listening" /\ pc' = "returning"
        /\ returned' = [returned EXCEPT ![cmd] = Error("TOO_LONG")]
    BY <1>1, <1>5 DEF SendFails
  <2>2. returned'[cmd] # Unset /\ \A d \in Command : d # cmd => returned'[d] = returned[d]
    BY <1>1, <2>1 DEF Unset, Error
  <2>3. CallInv'
    BY <1>1, <2>1, <2>2 DEF CallInv, Command
  <2>4. Sent \subseteq Sent'
    BY <1>1, <2>1, <2>2, ExchangeAssumption DEF Sent, Command
  <2> QED BY <2>3, <2>4
<1>6. CASE GetAnswer
  <2>1. /\ cmd \in Command /\ cmd' = cmd /\ pc = "waiting" /\ pc' = "returning"
        /\ answer[cmd] \in Answer
        /\ returned' = [returned EXCEPT ![cmd] = Result(answer[cmd])]
    BY <1>1, <1>6 DEF GetAnswer
  <2>2. /\ returned'[cmd] # Unset /\ returned'[cmd] # Error("TOO_LONG")
        /\ \A d \in Command : d # cmd => returned'[d] = returned[d]
    BY <1>1, <2>1, ResultOfAnswer
  <2>3. CallInv'
    BY <1>1, <2>1, <2>2 DEF CallInv, Command
  <2>4. Sent \subseteq Sent'
    BY <1>1, <2>1, <2>2, ExchangeAssumption DEF Sent, Command
  <2> QED BY <2>3, <2>4
<1>7. CASE Destroy \/ Close \/ Join \/ RunEnds
  BY <1>7 DEF Destroy, Close, Join, RunEnds, CallInv, Sent
<1> QED BY <1>2, <1>3, <1>4, <1>5, <1>6, <1>7 DEF AnyClient

(* Reading moves fragments, and makes none. *)
LEMMA ReadIntoOf ==
    ASSUME NEW S, rx \in Seq(S), read_buf \in Seq(S), NEW q,
           initiate_read(q) \/ ReadInto(q) \/ UNCHANGED <<rx, read_buf>>
    PROVE  rx' \in Seq(S) /\ read_buf' \in Seq(S)
<1>1. CASE ReadInto(q)
  <2> DEFINE n == Readable
             data == SubSeq(rx, 1, n)
  <2>1. n \in Nat /\ n <= Len(rx) /\ Len(rx) \in Nat /\ Len(read_buf) \in Nat
    BY ExchangeAssumption, LenProperties DEF Readable
  <2>2. data \in Seq(S) /\ SubSeq(rx, n + 1, Len(rx)) \in Seq(S)
    BY <2>1, PartOfSeq
  <2>3. Len(data) \in Nat
    BY <2>2, LenProperties
  <2>4. SubSeq(read_buf, Len(data) + 1, Len(read_buf)) \in Seq(S)
    BY <2>1, <2>3, PartOfSeq
  <2> QED BY <1>1, <2>2, <2>4, ConcatProperties DEF ReadInto, Overwrite
<1> QED BY <1>1 DEF initiate_read

(* Everything on the line stays with commands that were sent. *)
LEMMA SentStep ==
    ASSUME TypeInv, ServiceInv, [ExchangeNext]_vars
    PROVE  SentInv'
<1>1. TypeOK /\ SentInv /\ CallInv
  BY DEF TypeInv, ServiceInv
<1>2. Sent \subseteq Sent' /\ OfSent \subseteq OfSent' /\ OfSent \subseteq Fragment
  BY <1>1, CallStep, ClientOrNot DEF OfSent, CallTypes, TypeOK
<1>3. Seq(Sent) \subseteq Seq(Sent') /\ Seq(OfSent) \subseteq Seq(OfSent')
  BY <1>2, SeqMonotonic
<1>4. writes' \in Seq(Sent')
  <2>1. CASE SendThen("running") \/ SendThen("waiting")
    <3>1. cmd \in Sent' /\ writes' = Append(writes, cmd)
      <4>1. cmd' = cmd /\ returned' = returned /\ pc' # "listening" /\ cmd \in 1..cmd
            /\ pc = "listening" /\ writes' = Append(writes, cmd)
        BY <1>1, <2>1 DEF SendThen, TypeOK, Command
      <4>2. returned[cmd] # Error("TOO_LONG")
        BY <1>1, <4>1 DEF CallInv, Unset, Error
      <4> QED BY <4>1, <4>2 DEF Sent
    <3> QED BY <1>1, <1>3, <3>1, AppendProperties DEF SentInv
  <2>2. CASE WriteDone \/ WriteFails
    BY <1>1, <1>3, <2>2, HeadTailProperties DEF WriteDone, WriteFails, SentInv
  <2>3. CASE CancelSerial
    BY <2>3, EmptySeq DEF CancelSerial
  <2>4. CASE UNCHANGED writes
    BY <1>1, <1>3, <2>4 DEF SentInv
  <2> QED BY <2>1, <2>2, <2>3, <2>4 DEF ExchangeNext, AnyClient, RunOne, Construct, RunEnds, SendFails, GetAnswer, Destroy, Close,
         Join, write_callback, read_callback, wait_callback, Environment, ReadSome,
         ReadFails, TimerExpires, Respond, asio, vars
<1>5. \A c \in Command : device'[c] # "none" => c \in Sent'
  <2>1. CASE WriteDone
    <3>1. Head(writes) \in Sent
      BY <1>1, <2>1, HeadTailProperties DEF WriteDone, SentInv
    <3>2. \A c \in Command : c # Head(writes) => device'[c] = device[c]
      BY <1>1, <2>1 DEF WriteDone, TypeOK
    <3> QED BY <1>1, <1>2, <3>1, <3>2 DEF SentInv
  <2>2. CASE Respond
    <3>1. \A c \in Command : device'[c] # "none" => device[c] # "none"
      BY <1>1, <2>2 DEF Respond, TypeOK
    <3> QED BY <1>1, <1>2, <3>1 DEF SentInv
  <2>3. CASE UNCHANGED device
    BY <1>1, <1>2, <2>3 DEF SentInv
  <2> QED BY <2>1, <2>2, <2>3 DEF ExchangeNext, AnyClient, RunOne, Construct, SendThen, RunEnds, SendFails, GetAnswer, Destroy,
         Close, Join, write_callback, read_callback, wait_callback, CancelSerial,
         Environment, WriteFails, ReadSome, ReadFails, TimerExpires, line, vars
<1>6. rx' \in Seq(OfSent') /\ read_buf' \in Seq(OfSent')
  <2>1. CASE Respond
    <3>1. PICK g \in Fragment : g.of \in Command /\ device[g.of] # "none" /\ rx' = Append(rx, g)
      BY <2>1, ExchangeAssumption DEF Respond, Fragment
    <3>2. g \in OfSent /\ read_buf' = read_buf
      BY <1>1, <2>1, <3>1 DEF Respond, SentInv, OfSent, asio
    <3> QED BY <1>1, <1>3, <3>1, <3>2, AppendProperties DEF SentInv
  <2>2. CASE write_callback \/ read_callback \/ ReadSome
    <3>1. \E q : initiate_read(q) \/ ReadInto(q) \/ UNCHANGED <<rx, read_buf>>
      BY <2>2 DEF write_callback, read_callback, ReadSome, Reread
    <3>2. PICK q : initiate_read(q) \/ ReadInto(q) \/ UNCHANGED <<rx, read_buf>>
      BY <3>1
    <3>3. rx' \in Seq(OfSent) /\ read_buf' \in Seq(OfSent)
      BY <1>1, <3>2, ReadIntoOf DEF SentInv
    <3> QED BY <1>3, <3>3
  <2>3. CASE UNCHANGED <<rx, read_buf>>
    BY <1>1, <1>3, <2>3 DEF SentInv
  <2> QED BY <2>1, <2>2, <2>3 DEF ExchangeNext, AnyClient, RunOne, Construct, SendThen, RunEnds, SendFails, GetAnswer, Destroy,
         Close, Join, wait_callback, CancelSerial, Environment, WriteDone, WriteFails,
         ReadFails, TimerExpires, asio, line, vars
<1>7. \A c \in Command : filter'[c] \in Seq(OfSent')
  <2>1. CASE read_callback /\ ~Head(ready).error
    <3> DEFINE chunk == SubSeq(read_buf, 1, Head(ready).n)
    <3>1. chunk \in Seq(OfSent)
      <4>1. Head(ready).n \in Nat /\ Head(ready).n <= Len(read_buf)
        BY <2>1, ReadyParts DEF read_callback, Dispatch, Handler
      <4> QED BY <1>1, <4>1, PartOfSeq DEF SentInv
    <3>2. \A c \in Command : filter'[c] \in {filter[c], Unbytestaff(filter[c], chunk)}
      BY <2>1 DEF read_callback
    <3> HIDE DEF chunk
    <3>3. \A c \in Command : filter'[c] \in Seq(OfSent)
      BY <1>1, <3>1, <3>2, UnbytestaffType DEF SentInv
    <3> QED BY <1>3, <3>3
  <2>2. CASE UNCHANGED filter
    BY <1>1, <1>3, <2>2 DEF SentInv
  <2> QED BY <2>1, <2>2 DEF ExchangeNext, AnyClient, RunOne, Construct, SendThen, RunEnds, SendFails, GetAnswer, Destroy,
         Close, Join, write_callback, read_callback, wait_callback, CancelSerial, Environment,
         WriteDone, WriteFails, ReadSome, ReadFails, TimerExpires, Respond, protocol, vars
<1> QED BY <1>4, <1>5, <1>6, <1>7 DEF SentInv

-----------------------------------------------------------------------------
(* What every proof about a provider starts from.                          *)
BaseInv == TypeInv /\ OneListener /\ ServiceInv

LEMMA BaseInit == ASSUME NEW k \in Nat PROVE Opened(k) => BaseInv
<1>1. Opened(k) => OneListener /\ ServiceInv
  BY EmptySeq DEF Opened, OneListener, ServiceInv, SentInv, CallInv
<1>2. QED
  BY <1>1, TypeInit DEF BaseInv

LEMMA BaseStep == BaseInv /\ [ExchangeNext]_vars => BaseInv'
<1>1. BaseInv => CallTypes /\ CallInv
  BY DEF BaseInv, TypeInv, TypeOK, CallTypes, ServiceInv
<1>2. QED
  BY <1>1, TypeStep, ListenerStep, SentStep, CallStep, ClientOrNot DEF BaseInv, ServiceInv

-----------------------------------------------------------------------------
(* The caller's view.                                                      *)

Open == pc \in {"listening", "running", "waiting", "returning"}

(* A promise set through the object of the open command, or through dead   *)
(* memory, is the service's answer or changes nothing the caller sees.     *)
LEMMA AnswerServes ==
    ASSUME CallTypes, UNCHANGED <<cmd, returned>>, Open' <=> Open,
           NEW s \in Live \cup {None}, NEW a, answer' = Satisfied(s, a),
           \/ a \in {Error(e) : e \in {"PACKET_CRC_ERROR", "IO_ERROR", "NO_ANSWER"}}
           \/ a \in {Packet(r, c) : r \in {"DATA", "SHORT_DATA", "NACK"}, c \in Sent}
    PROVE  Service!Resolve \/ UNCHANGED Service!vars
<1> USE DEF Service!vars, Open
<1>1. CASE s = None \/ answer[s] # Unset
  <2>1. answer' = answer
    BY <1>1 DEF Satisfied, CallTypes, Command, None
  <2> QED BY <2>1
<1>2. CASE s # None /\ answer[s] = Unset
  <2>1. /\ s = cmd /\ cmd \in Command /\ answer[cmd] = Unset
        /\ pc \in {"listening", "running", "waiting", "returning"}
    BY <1>2 DEF Live, CallTypes
  <2>2. answer' = [answer EXCEPT ![cmd] = a]
    BY <1>2, <2>1 DEF Satisfied, CallTypes
  <2>3. \/ \E e \in {"PACKET_CRC_ERROR", "IO_ERROR", "NO_ANSWER"} : a = [result |-> e, of |-> None]
        \/ \E r \in {"DATA", "SHORT_DATA", "NACK"},
              c \in (1..cmd) \ {d \in Command : returned[d] = Error("TOO_LONG")} :
              a = [result |-> r, of |-> c]
    BY DEF Sent, Error, Packet
  <2> QED BY <2>1, <2>2, <2>3
          DEF Service!Resolve, Service!Unset, Service!None, Unset, Error, None
<1> QED BY <1>1, <1>2

LEMMA SetAnswerServes ==
    ASSUME CallTypes, UNCHANGED client,
           NEW s \in Live \cup {None}, NEW a, SetAnswer(s, a),
           \/ a \in {Error(e) : e \in {"PACKET_CRC_ERROR", "IO_ERROR", "NO_ANSWER"}}
           \/ a \in {Packet(r, c) : r \in {"DATA", "SHORT_DATA", "NACK"}, c \in Sent}
    PROVE  Service!Resolve \/ UNCHANGED Service!vars
<1>1. UNCHANGED <<cmd, returned>> /\ (Open' <=> Open) /\ answer' = Satisfied(s, a)
  BY DEF client, Open, SetAnswer
<1> QED BY <1>1, AnswerServes

(* The client's steps are the service's steps of the same meaning.         *)
LEMMA ClientServes ==
    ASSUME CallTypes, CallInv, AnyClient
    PROVE  [Service!Next]_(Service!vars)
<1> USE DEF Service!vars
<1>1. cmd \in Nat
  BY DEF CallTypes, Command, None
<1>2. CASE Construct
  BY <1>1, <1>2 DEF Construct, protocol, Service!Next, Service!Issue
<1>3. CASE SendThen("running") \/ SendThen("waiting") \/ RunEnds
  BY <1>3 DEF SendThen, RunEnds, protocol
<1>4. CASE SendFails
  <2>1. /\ cmd \in Command /\ pc = "listening" /\ pc' = "returning" /\ returned[cmd] = Unset
        /\ returned' = [returned EXCEPT ![cmd] = Error("TOO_LONG")] /\ UNCHANGED <<cmd, answer>>
    BY <1>1, <1>4 DEF SendFails, CallTypes, CallInv, protocol
  <2>2. {c \in Command : returned'[c] = Error("TOO_LONG")}
            = {c \in Command : returned[c] = Error("TOO_LONG")} \cup {cmd}
    BY <1>1, <2>1 DEF CallTypes
  <2> QED BY <2>1, <2>2 DEF Service!Next, Service!Refuse, Service!Unset, Service!None, Unset, Error, None
<1>5. CASE GetAnswer
  <2>1. /\ cmd \in Command /\ pc = "waiting" /\ pc' = "returning" /\ returned[cmd] = Unset
        /\ answer[cmd] \in Answer /\ answer[cmd] # Unset
        /\ returned' = [returned EXCEPT ![cmd] = Result(answer[cmd])] /\ UNCHANGED <<cmd, answer>>
    BY <1>1, <1>5 DEF GetAnswer, CallTypes, CallInv, protocol
  <2>2. returned'[cmd] # Error("TOO_LONG") /\ returned[cmd] # Error("TOO_LONG")
    BY <1>1, <2>1, ResultOfAnswer DEF CallTypes, Unset, Error
  <2>3. {c \in Command : returned'[c] = Error("TOO_LONG")}
            = {c \in Command : returned[c] = Error("TOO_LONG")}
    BY <1>1, <2>1, <2>2 DEF CallTypes
  <2> QED BY <2>1, <2>3 DEF Service!Next, Service!Return, Service!Unset, Service!None, Unset, Error, None
<1>6. CASE Destroy
  BY <1>1, <1>6 DEF Destroy, CallTypes, CallInv, Service!Next, Service!Finish, Service!Unset,
     Service!None, Unset, Error, None
<1>7. CASE Close \/ Join
  BY <1>7 DEF Close, Join, protocol
<1> QED BY <1>2, <1>3, <1>4, <1>5, <1>6, <1>7 DEF AnyClient

(* A handler sets the promise of the command that is open, or no promise;  *)
(* what it sets it to is an error or the reply to a command that was sent. *)
LEMMA HandlerServes ==
    ASSUME BaseInv, RunOne
    PROVE  Service!Resolve \/ UNCHANGED Service!vars
<1> USE DEF Service!vars
<1>1. TypeInv /\ TypeOK /\ OneListener /\ ServiceInv /\ SentInv /\ CallInv /\ CallTypes
  BY DEF BaseInv, TypeInv, TypeOK, ServiceInv, CallTypes
<1>2. UNCHANGED client
  BY DEF RunOne, write_callback, read_callback, wait_callback, CancelSerial
<1>3. CASE UNCHANGED answer
  BY <1>2, <1>3 DEF client
<1>4. \A c \in Command \cup {None} : Storage(c) \subseteq Live \cup {None}
  BY DEF Storage
<1>5. CASE write_callback
  <2>1. Head(ready).this \in Command \cup {None}
    BY <1>1, <1>5, ReadyParts DEF write_callback, Dispatch, Handler
  <2>2. UNCHANGED answer \/ \E s \in Live \cup {None} : SetAnswer(s, Error("IO_ERROR"))
    BY <1>4, <1>5, <2>1 DEF write_callback
  <2> QED BY <1>1, <1>2, <1>3, <2>2, SetAnswerServes
<1>6. CASE wait_callback
  <2>1. Head(ready).this \in Command \cup {None}
    BY <1>1, <1>6, ReadyParts DEF wait_callback, Dispatch, Handler
  <2>2. UNCHANGED answer \/ \E s \in Live \cup {None} : SetAnswer(s, Error("NO_ANSWER"))
    BY <1>4, <1>6, <2>1 DEF wait_callback, TimeoutAnswer
  <2> QED BY <1>1, <1>2, <1>3, <2>2, SetAnswerServes
<1>7. CASE read_callback /\ ~Head(ready).error
  <2>1. \/ UNCHANGED answer
        \/ \E c \in slots : SetAnswer(c, Verdict(filter'[c])) /\ Complete(filter'[c])
    <3> DEFINE chunk == SubSeq(read_buf, 1, Head(ready).n)
               fed   == [c \in Command |-> IF c \in slots THEN Unbytestaff(filter[c], chunk)
                                                          ELSE filter[c]]
    <3>1. /\ filter' = fed
          /\ UNCHANGED answer \/ \E c \in slots : Complete(fed[c]) /\ SetAnswer(c, Verdict(fed[c]))
      BY <1>7 DEF read_callback
    <3> HIDE DEF fed, chunk
    <3> QED BY <3>1
  <2>2. CASE \E c \in slots : SetAnswer(c, Verdict(filter'[c])) /\ Complete(filter'[c])
    <3>1. PICK c \in slots : SetAnswer(c, Verdict(filter'[c])) /\ Complete(filter'[c])
      BY <2>2
    <3>2. PICK f : f = filter'[c]
      OBVIOUS
    <3>3. c \in Live /\ c \in Command
      BY <1>1 DEF OneListener, TypeOK
    <3>4. f \in Seq(OfSent)
      <4>1. f \in Seq(OfSent') /\ OfSent' = OfSent
        BY <1>1, <1>2, <3>2, <3>3, SentStep DEF ExchangeNext, SentInv, OfSent, Sent, client
      <4> QED BY <4>1
    <3>5. f[1] \in OfSent
      BY <3>1, <3>2, <3>4, ElementOfSeq, LenProperties DEF Complete
    <3>6. PICK a : a = Verdict(f)
      OBVIOUS
    <3>7. \/ a = Error("PACKET_CRC_ERROR")
          \/ \E r \in {"DATA", "SHORT_DATA", "NACK"}, d \in Sent : a = Packet(r, d)
      BY <3>5, <3>6 DEF Verdict, OfSent
    <3>8. SetAnswer(c, a)
      BY <3>1, <3>2, <3>6
    <3> QED BY <1>1, <1>2, <3>3, <3>7, <3>8, SetAnswerServes
  <2> QED BY <1>3, <2>1, <2>2
<1>8. CASE CancelSerial \/ (read_callback /\ Head(ready).error)
  BY <1>3, <1>8 DEF CancelSerial, read_callback, protocol
<1> QED BY <1>5, <1>6, <1>7, <1>8 DEF RunOne

(* Every step of the threads, the port and the device is a step of the     *)
(* service or none that its caller sees.                                   *)
LEMMA ServiceStep == BaseInv /\ [ExchangeNext]_vars => [Service!Next]_(Service!vars)
<1> SUFFICES ASSUME BaseInv, [ExchangeNext]_vars PROVE [Service!Next]_(Service!vars)
  OBVIOUS
<1>1. CASE AnyClient
  BY <1>1, ClientServes DEF BaseInv, TypeInv, TypeOK, ServiceInv, CallTypes
<1>2. CASE RunOne
  BY <1>2, HandlerServes DEF Service!Next
<1>3. CASE Environment \/ UNCHANGED vars
  BY <1>3 DEF Environment, WriteDone, WriteFails, ReadSome, ReadFails, TimerExpires, Respond, vars,
     client, protocol, Service!vars
<1> QED BY <1>1, <1>2, <1>3 DEF ExchangeNext

LEMMA ServiceInit == ASSUME NEW k \in Nat PROVE Opened(k) => Service!Init
  BY DEF Opened, Service!Init, None, Service!None, Command, Service!Command, Unset, Error,
     Service!Unset

-----------------------------------------------------------------------------
(* Whose reply an answer is.  As long as no command has been answered with *)
(* NO_ANSWER, the bytes under way are those of the command that waits: its *)
(* write, the handler of its write, or one read that has no more before it *)
(* than what the device has sent for it.  What is left of a command when   *)
(* it returns in that order is nothing, and nothing of it comes back.      *)
Awaited == pc \in {"running", "waiting"} /\ answer[cmd] = Unset

Calm(d) == \A e \in 1..d : answer[e] # Error("NO_ANSWER")

(* Handlers that stand for a write or for bytes read. *)
Token(h) == h.handler = "write_callback" \/ (h.handler = "read_callback" /\ ~h.error)

TokenFree(q) == \A k \in 1..Len(q) : ~Token(q[k])

(* No more than one of them, and that one of S. *)
OneToken(q, S) ==
    /\ \A j, k \in 1..Len(q) : Token(q[j]) /\ Token(q[k]) => j = k
    /\ \A k \in 1..Len(q) : Token(q[k]) => q[k] \in S

(* How many fragments the device has sent for c. *)
Given(c) == IF device[c] = "done" THEN 2 ELSE IF device[c] = "responding" THEN 1 ELSE 0

Silent(c) == device[c] \in {"none", "done"}

(* A handler that serves the command the client waits for. *)
Serving ==
    {h \in Handler :
        /\ Awaited /\ writes = <<>> /\ reads = 0
        /\ h.handler = "write_callback" => h.this = cmd /\ (h.error => device[cmd] = "none")
        /\ h.handler = "read_callback" => Len(filter[cmd]) + h.n + Len(rx) <= Given(cmd)}

Orderly ==
    /\ OneToken(ready, Serving)
    /\ writes # <<>> => writes = <<cmd>> /\ reads = 0 /\ Awaited /\ device[cmd] = "none"
    /\ reads # 0 => reads = 1 /\ Awaited
    /\ Awaited => Len(filter[cmd]) + Len(rx) <= Given(cmd)
    /\ ~Awaited => rx = <<>>
    /\ \A c \in Command : Silent(c) \/ (c = cmd /\ Awaited)
    /\ pc = "listening" => answer[cmd] = Unset /\ filter[cmd] = <<>>

Others(d) == {g \in Fragment : g.of # d}

(* Handlers of reads that brought nothing of d. *)
Without(d) ==
    {h \in Handler : h.handler = "read_callback" /\ ~h.error =>
        \A i \in 1..h.n : i \in 1..Len(read_buf) /\ read_buf[i] \in Others(d)}

Gone(d) ==
    /\ Silent(d)
    /\ writes \in Seq(Command \ {d})
    /\ rx \in Seq(Others(d))
    /\ cmd \in Command => filter[cmd] \in Seq(Others(d))
    /\ ready \in Seq(Without(d))

OrderInv ==
    /\ \A c \in Command : c > cmd => filter[c] = <<>> /\ answer[c] = Unset
    /\ Calm(cmd) => Orderly
    /\ \A d \in Command : d < cmd /\ Calm(d) => Gone(d)
    /\ MisattributionNeedsTimeout

(* A promise once set stays as it is. *)
LEMMA AnswersStay ==
    ASSUME BaseInv, [ExchangeNext]_vars, NEW c \in Command, answer[c] # Unset
    PROVE  answer'[c] = answer[c]
<1>1. [Service!Next]_(Service!vars) /\ answer \in [Command -> Answer \cup {Unset}]
  BY ServiceStep DEF BaseInv, TypeInv, TypeOK
<1>2. Service!Unset = Unset
  BY DEF Service!Unset, Unset, Error, None, Service!None
<1> QED BY <1>1, <1>2 DEF Service!Next, Service!vars, Service!Issue, Service!Resolve, Service!Return,
           Service!Refuse, Service!Finish

(* A filter only changes while its protocol listens, and by being fed.     *)
LEMMA FilterFed ==
    ASSUME BaseInv, [ExchangeNext]_vars, NEW c \in Command, filter'[c] # filter[c]
    PROVE  /\ read_callback /\ ~Head(ready).error /\ c = cmd /\ c \in Live
           /\ filter'[c] = Unbytestaff(filter[c], SubSeq(read_buf, 1, Head(ready).n))
<1>1. read_callback
  BY DEF ExchangeNext, AnyClient, RunOne, Construct, SendThen, RunEnds, SendFails, GetAnswer, Destroy,
     Close, Join, write_callback, wait_callback, CancelSerial, Environment, WriteDone, WriteFails,
     ReadSome, ReadFails, TimerExpires, Respond, vars, protocol
<1>2. ~Head(ready).error
  BY <1>1 DEF read_callback, protocol
<1>3. filter'[c] = IF c \in slots THEN Unbytestaff(filter[c], SubSeq(read_buf, 1, Head(ready).n))
                                  ELSE filter[c]
  BY <1>1, <1>2 DEF read_callback
<1>4. c \in slots
  BY <1>3
<1> QED BY <1>1, <1>2, <1>3, <1>4 DEF BaseInv, OneListener, Live

(* Only feed answers with a reply. *)
LEMMA ReplyIsFed ==
    ASSUME BaseInv, ExchangeNext, NEW c \in Command, answer'[c] # answer[c], answer'[c].of # None
    PROVE  c = cmd /\ cmd' = cmd /\ Complete(filter'[c]) /\ answer'[c] = Verdict(filter'[c])
<1>1. TypeInv /\ OneListener /\ TypeOK /\ answer \in [Command -> Answer \cup {Unset}]
  BY DEF BaseInv, TypeInv, TypeOK
<1>2. c = cmd
  BY <1>1, OnlyItsAnswer
<1>3. ASSUME NEW s, NEW code, SetAnswer(s, Error(code)) PROVE FALSE
  BY <1>1, <1>3 DEF SetAnswer, Satisfied, Error
<1>4. read_callback
  BY <1>3 DEF ExchangeNext, AnyClient, RunOne, Construct, SendThen, RunEnds, SendFails, GetAnswer,
     Destroy, Close, Join, write_callback, wait_callback, CancelSerial, Environment, WriteDone,
     WriteFails, ReadSome, ReadFails, TimerExpires, Respond, protocol, TimeoutAnswer
<1> DEFINE chunk == SubSeq(read_buf, 1, Head(ready).n)
           fed   == [e \in Command |-> IF e \in slots THEN Unbytestaff(filter[e], chunk)
                                                      ELSE filter[e]]
<1>5. \E s \in slots : Complete(fed[s]) /\ SetAnswer(s, Verdict(fed[s])) /\ filter' = fed
  BY <1>4 DEF read_callback, protocol
<1> HIDE DEF fed, chunk
<1>6. PICK s \in slots : Complete(fed[s]) /\ SetAnswer(s, Verdict(fed[s])) /\ filter' = fed
  BY <1>5
<1>7. c = s /\ answer'[c] = Verdict(fed[s])
  BY <1>1, <1>6 DEF SetAnswer, Satisfied
<1>8. cmd' = cmd
  BY <1>4 DEF read_callback, client
<1> QED BY <1>2, <1>6, <1>7, <1>8

(* What Unbytestaff returns is no longer than what it was given. *)
LEMMA UnbytestaffLength ==
    ASSUME NEW S, NEW f \in Seq(S), NEW chunk \in Seq(S)
    PROVE  /\ Len(Unbytestaff(f, chunk)) <= Len(f) + Len(chunk)
           /\ Len(f) \in Nat /\ Len(chunk) \in Nat
<1> DEFINE lead == {i \in 1..Len(chunk) : \A j \in 1..i : chunk[j].part # "head"}
<1>1. Len(chunk) \in Nat /\ Len(f) \in Nat
  BY LenProperties
<1>2. IsFiniteSet(lead)
  <2>1. IsFiniteSet(1..Len(chunk))
    BY <1>1, FS_Interval
  <2> QED BY <2>1, FS_Subset
<1>3. Skipped(chunk) \in Nat
  BY <1>2, FS_CardinalityType DEF Skipped
<1>4. Len(FromHead(chunk)) <= Len(chunk) /\ Len(FromHead(chunk)) \in Nat
  BY <1>1, <1>3, PartOfSeq DEF FromHead
<1>5. CASE f = <<>>
  BY <1>1, <1>4, <1>5 DEF Unbytestaff
<1>6. CASE f # <<>>
  BY <1>1, <1>6, ConcatProperties DEF Unbytestaff
<1> QED BY <1>5, <1>6

(* What a read leaves of the buffer and of what had arrived. *)
LEMMA ReadIntoParts ==
    ASSUME NEW S, rx \in Seq(S), read_buf \in Seq(Fragment), S \subseteq Fragment,
           NEW q, ReadInto(q)
    PROVE  /\ rx' \in Seq(S) /\ Len(rx') = Len(rx) - Readable
           /\ Readable \in Nat /\ Len(rx) \in Nat /\ Readable <= Len(rx)
           /\ Len(read_buf) <= Len(read_buf') /\ Readable <= Len(read_buf')
           /\ Len(read_buf') \in Nat /\ Len(read_buf) \in Nat
           /\ \A i \in 1..Len(read_buf) : read_buf'[i] \in S \/ read_buf'[i] = read_buf[i]
           /\ \A i \in 1..Readable : read_buf'[i] \in S
<1> DEFINE n    == Readable
           data == SubSeq(rx, 1, n)
           rest == SubSeq(read_buf, n + 1, Len(read_buf))
<1>1. Len(rx) \in Nat /\ Len(read_buf) \in Nat /\ n \in Nat /\ n <= Len(rx)
  BY ExchangeAssumption, LenProperties DEF Readable
<1>2. data \in Seq(S) /\ Len(data) = n
  BY <1>1, PartOfSeq
<1>3. /\ rest \in Seq(Fragment)
      /\ Len(rest) = IF n + 1 <= Len(read_buf) THEN Len(read_buf) - n ELSE 0
      /\ \A i \in 1..Len(rest) : rest[i] = read_buf[n + i]
  <2>1. \A i \in n + 1..Len(read_buf) : read_buf[i] \in Fragment
    BY <1>1, ElementOfSeq
  <2>2. n + 1 \in Int /\ Len(read_buf) \in Int
    BY <1>1
  <2>3. \A i \in 1..Len(rest) : rest[i] = read_buf[n + 1 + i - 1]
    BY <2>1, <2>2, SubSeqProperties
  <2>4. \A i \in Nat : n + 1 + i - 1 = n + i
    BY <1>1
  <2>5. Len(rest) \in Nat /\ rest \in Seq(Fragment)
        /\ Len(rest) = IF n + 1 <= Len(read_buf) THEN Len(read_buf) - n ELSE 0
    BY <1>1, PartOfSeq
  <2> HIDE DEF rest
  <2> QED BY <2>3, <2>4, <2>5
<1>4. /\ read_buf' = data \o rest
      /\ rx' = SubSeq(rx, n + 1, Len(rx))
  BY <1>2 DEF ReadInto, Overwrite
<1>5. rx' \in Seq(S) /\ Len(rx') = Len(rx) - n
  BY <1>1, <1>4, PartOfSeq
<1> HIDE DEF n, data, rest
<1>6. data \in Seq(Fragment)
  BY <1>2, SeqMonotonic
<1>7. /\ Len(read_buf') = Len(data) + Len(rest)
      /\ \A i \in 1..Len(data) + Len(rest) :
            read_buf'[i] = IF i <= Len(data) THEN data[i] ELSE rest[i - Len(data)]
  BY <1>3, <1>4, <1>6, ConcatProperties
<1>8. \A i \in 1..n : read_buf'[i] \in S
  <2>1. \A i \in 1..n : data[i] \in S
    BY <1>2, ElementOfSeq
  <2>2. Len(rest) \in Nat
    BY <1>3, LenProperties
  <2> QED BY <1>1, <1>2, <1>7, <2>1, <2>2
<1>9. ASSUME NEW i \in 1..Len(read_buf), ~(i <= n) PROVE read_buf'[i] = read_buf[i]
  <2>1. i \in 1..Len(data) + Len(rest) /\ i - n \in 1..Len(rest) /\ n + (i - n) = i
    BY <1>1, <1>2, <1>3, <1>9
  <2> QED BY <1>1, <1>2, <1>3, <1>7, <1>9, <2>1
<1>10. \A i \in 1..Len(read_buf) : i <= n => i \in 1..n
  BY <1>1
<1>11. Len(read_buf) <= Len(read_buf') /\ n <= Len(read_buf') /\ Len(read_buf') \in Nat
  BY <1>1, <1>2, <1>3, <1>7
<1> QED BY <1>1, <1>5, <1>8, <1>9, <1>10, <1>11 DEF n

(* Whatever set the handlers in the queue belong to, they still do after a *)
(* step, if what the step may add belongs to it.                           *)
LEMMA QueueStep ==
    ASSUME NEW S, TypeOK, ready \in Seq(S), RunOne \/ Environment,
           \A c \in Command, e \in BOOLEAN : WaitHandler(c, e) \in S,
           \A c \in Command, e \in BOOLEAN : (\E i \in 1..Len(writes) : writes[i] = c) => WriteHandler(c, e) \in S,
           ReadHandler(0, TRUE) \in S,
           (\E q : ReadInto(q)) => ReadHandler(Readable, FALSE) \in S
    PROVE  ready' \in Seq(S)
<1>1. ready # <<>> => Tail(ready) \in Seq(S)
  BY HeadTailProperties
<1>2. \A q \in Seq(S) : WithAbortedWait(q) \in Seq(S)
  BY AppendProperties DEF WithAbortedWait, TypeOK
<1>3. \A q \in Seq(S) : ReadInto(q) \/ initiate_read(q) => ready' \in Seq(S)
  <2> SUFFICES ASSUME NEW q \in Seq(S), ReadInto(q) \/ initiate_read(q)
               PROVE  ready' \in Seq(S)
    OBVIOUS
  <2>1. CASE ReadInto(q)
    <3>1. ReadHandler(Readable, FALSE) \in S /\ ready' = Append(q, ReadHandler(Readable, FALSE))
      BY <2>1 DEF ReadInto
    <3> QED BY <3>1, AppendProperties
  <2> QED BY <2>1 DEF initiate_read
<1>4. writes # <<>> => Head(writes) \in Command /\ Head(writes) = writes[1] /\ 1 \in 1..Len(writes)
  BY HeadTailProperties, LenProperties DEF TypeOK
<1>5. CASE write_callback
  BY <1>1, <1>2, <1>3, <1>5 DEF write_callback, Dispatch
<1>6. CASE read_callback
  <2>1. ready # <<>>
    BY <1>6 DEF read_callback, Dispatch
  <2>2. \/ ready' \in {Tail(ready), WithAbortedWait(Tail(ready))}
        \/ initiate_read(Tail(ready)) \/ initiate_read(WithAbortedWait(Tail(ready)))
    BY <1>6 DEF read_callback, Reread
  <2> QED BY <1>1, <1>2, <1>3, <2>1, <2>2
<1>7. CASE wait_callback
  BY <1>1, <1>2, <1>7 DEF wait_callback, Dispatch
<1>8. CASE CancelSerial
  <2>1. AbortedReads \in Seq(S)
    BY FunctionIsSeq DEF AbortedReads, TypeOK
  <2>2. AbortedWrites \in Seq(S)
    <3>1. Len(writes) \in Nat /\ \A i \in 1..Len(writes) : writes[i] \in Command
      BY LenProperties, ElementOfSeq DEF TypeOK
    <3>2. AbortedWrites \in [1..Len(writes) -> S]
      BY <3>1 DEF AbortedWrites
    <3> QED BY <3>1, <3>2, FunctionIsSeq
  <2>3. ready' = ready \o AbortedReads \o AbortedWrites
    BY <1>8 DEF CancelSerial
  <2>4. ready \o AbortedReads \in Seq(S)
    BY <2>1, ConcatProperties
  <2> QED BY <2>2, <2>3, <2>4, ConcatProperties
<1>9. CASE WriteDone \/ WriteFails
  <2>1. PICK e \in BOOLEAN : ready' = Append(ready, WriteHandler(Head(writes), e)) /\ writes # <<>>
    BY <1>9 DEF WriteDone, WriteFails
  <2>2. WriteHandler(Head(writes), e) \in S
    BY <1>4, <2>1
  <2> QED BY <2>1, <2>2, AppendProperties
<1>10. CASE ReadSome
  BY <1>3, <1>10 DEF ReadSome
<1>11. CASE ReadFails
  BY <1>11, AppendProperties DEF ReadFails
<1>12. CASE TimerExpires
  BY <1>12, AppendProperties DEF TimerExpires, TypeOK
<1>13. CASE Respond
  BY <1>13 DEF Respond, asio
<1> QED BY <1>5, <1>6, <1>7, <1>8, <1>9, <1>10, <1>11, <1>12, <1>13 DEF RunOne, Environment

(* What is gone does not come back: the write of a command is started once *)
(* and the device answers what it has received once.                       *)
LEMMA GoneStep ==
    ASSUME BaseInv, [ExchangeNext]_vars, NEW d \in Command, d < cmd, Gone(d),
           \A c \in Command : c > cmd => filter[c] = <<>>
    PROVE  Gone(d)'
<1>1. TypeOK /\ TypeInv /\ cmd \in Command /\ cmd \in Nat
  BY DEF BaseInv, TypeInv, TypeOK, Command, None
<1>2. Silent(d)'
  <2>1. CASE WriteDone
    <3>1. Head(writes) \in Command \ {d}
      BY <2>1, HeadTailProperties DEF WriteDone, Gone
    <3> QED BY <1>1, <2>1, <3>1 DEF WriteDone, Gone, Silent, TypeOK
  <2>2. CASE Respond
    BY <1>1, <2>2 DEF Respond, Gone, Silent, TypeOK
  <2>3. CASE UNCHANGED device
    BY <2>3 DEF Gone, Silent
  <2> QED BY <2>1, <2>2, <2>3 DEF ExchangeNext, AnyClient, RunOne, Construct, RunEnds, SendThen,
         SendFails, GetAnswer, Destroy, Close, Join, write_callback, read_callback, wait_callback,
         CancelSerial, Environment, WriteFails, ReadSome, ReadFails, TimerExpires, line, vars
<1>3. writes' \in Seq(Command \ {d})
  <2>1. CASE SendThen("running") \/ SendThen("waiting")
    <3>1. writes' = Append(writes, cmd) /\ cmd \in Command \ {d}
      BY <1>1, <2>1 DEF SendThen
    <3> QED BY <3>1, AppendProperties DEF Gone
  <2>2. CASE WriteDone \/ WriteFails
    <3>1. writes # <<>> /\ writes \in Seq(Command \ {d}) /\ writes' = Tail(writes)
      BY <2>2 DEF WriteDone, WriteFails, Gone
    <3> QED BY <3>1, HeadTailProperties
  <2>3. CASE CancelSerial
    BY <2>3, EmptySeq DEF CancelSerial
  <2>4. CASE UNCHANGED writes
    BY <2>4 DEF Gone
  <2> QED BY <2>1, <2>2, <2>3, <2>4 DEF ExchangeNext, AnyClient, RunOne, Construct, RunEnds, SendFails,
         GetAnswer, Destroy, Close, Join, write_callback, read_callback, wait_callback, Environment,
         ReadSome, ReadFails, TimerExpires, Respond, asio, vars
<1>4. Others(d) \subseteq Fragment /\ rx \in Seq(Others(d)) /\ read_buf \in Seq(Fragment)
  BY <1>1 DEF Others, Gone, TypeOK
<1>5. rx' \in Seq(Others(d))
  <2>1. CASE Respond
    <3>1. PICK g \in Fragment : ~Silent(g.of) /\ rx' = Append(rx, g)
      BY <1>1, <2>1, ExchangeAssumption DEF Respond, Fragment, Silent, TypeOK
    <3>2. g \in Others(d)
      BY <3>1 DEF Gone, Others
    <3> QED BY <1>4, <3>1, <3>2, AppendProperties
  <2>2. ASSUME NEW q, ReadInto(q) PROVE rx' \in Seq(Others(d))
    BY <1>4, <2>2, ReadIntoParts
  <2>3. CASE UNCHANGED rx
    BY <1>4, <2>3
  <2>4. (\E q : ReadInto(q)) \/ UNCHANGED rx \/ Respond
    BY DEF ExchangeNext, AnyClient, RunOne, Construct, RunEnds, SendThen,
       SendFails, GetAnswer, Destroy, Close, Join, write_callback, read_callback, wait_callback,
       Reread, initiate_read, CancelSerial, Environment, WriteDone, WriteFails, ReadSome, ReadFails,
       TimerExpires, asio, line, vars
  <2> QED BY <2>1, <2>2, <2>3, <2>4
<1>6. cmd' \in Command => filter'[cmd'] \in Seq(Others(d))
  <2>1. CASE cmd' = cmd
    <3>1. CASE filter'[cmd] = filter[cmd]
      BY <1>1, <2>1, <3>1 DEF Gone
    <3>2. CASE filter'[cmd] # filter[cmd]
      <4> DEFINE n == Head(ready).n
                 chunk == SubSeq(read_buf, 1, n)
      <4>1. /\ read_callback
            /\ filter'[cmd] = Unbytestaff(filter[cmd], chunk)
        BY <1>1, <3>2, FilterFed
      <4>2. /\ Head(ready) \in Without(d) /\ n \in Nat
            /\ Head(ready).handler = "read_callback" /\ ~Head(ready).error
        <5>1. /\ ready # <<>> /\ ready \in Seq(Without(d))
              /\ Head(ready).handler = "read_callback" /\ ~Head(ready).error
          BY <1>1, <4>1, <3>2, FilterFed DEF read_callback, Dispatch, Gone
        <5>2. Head(ready) \in Without(d)
          BY <5>1, HeadTailProperties
        <5> QED BY <5>1, <5>2 DEF Without, Handler
      <4>3. \A i \in 1..n : read_buf[i] \in Others(d)
        BY <4>2 DEF Without
      <4>4. chunk \in Seq(Others(d))
        BY <4>2, <4>3, SubSeqProperties
      <4> HIDE DEF n, chunk
      <4> QED BY <1>1, <2>1, <4>1, <4>4, UnbytestaffType DEF Gone
    <3> QED BY <3>1, <3>2
  <2>2. CASE Construct
    <3>1. cmd' = cmd + 1 /\ filter' = filter
      BY <2>2 DEF Construct
    <3>2. cmd' \in Command => filter'[cmd'] = <<>>
      BY <1>1, <3>1
    <3> QED BY <3>2, EmptySeq
  <2>3. cmd' = cmd \/ Construct
    BY DEF ExchangeNext, AnyClient, RunOne, RunEnds, SendThen,
       SendFails, GetAnswer, Destroy, Close, Join, write_callback, read_callback, wait_callback,
       CancelSerial, Environment, WriteDone, WriteFails, ReadSome, ReadFails,
       TimerExpires, Respond, client, vars
  <2> QED BY <2>1, <2>2, <2>3
<1>7. ready' \in Seq(Without(d)')
  <2>1. PICK S : S = Without(d)'
    OBVIOUS
  <2>2. (\E q : ReadInto(q)) \/ UNCHANGED read_buf
    BY DEF ExchangeNext, AnyClient, RunOne, Construct, RunEnds, SendThen,
       SendFails, GetAnswer, Destroy, Close, Join, write_callback, read_callback, wait_callback,
       Reread, initiate_read, CancelSerial, Environment, WriteDone, WriteFails, ReadSome, ReadFails,
       TimerExpires, Respond, asio, vars
  <2>3. Without(d) \subseteq S /\ ((\E q : ReadInto(q)) => ReadHandler(Readable, FALSE) \in S)
    <3>1. ASSUME NEW q, ReadInto(q)
          PROVE  Without(d) \subseteq S /\ ReadHandler(Readable, FALSE) \in S
      <4>1. /\ Readable \in Nat /\ Readable <= Len(read_buf')
            /\ Len(read_buf) \in Nat /\ Len(read_buf') \in Nat /\ Len(read_buf) <= Len(read_buf')
            /\ \A i \in 1..Len(read_buf) : read_buf'[i] \in Others(d) \/ read_buf'[i] = read_buf[i]
            /\ \A i \in 1..Readable : read_buf'[i] \in Others(d)
        BY <1>4, <3>1, ReadIntoParts
      <4>2. \A i \in 1..Len(read_buf) : i \in 1..Len(read_buf')
        BY <4>1
      <4>3. \A i \in 1..Readable : i \in 1..Len(read_buf')
        BY <4>1
      <4>4. ReadHandler(Readable, FALSE) \in Handler
        BY <4>1 DEF ReadHandler, Handler
      <4>5. Without(d) \subseteq S
        BY <2>1, <4>1, <4>2 DEF Without
      <4>6. ReadHandler(Readable, FALSE) \in S
        BY <2>1, <4>1, <4>3, <4>4 DEF Without, ReadHandler
      <4> QED BY <4>5, <4>6
    <3>2. CASE UNCHANGED read_buf
      <4>1. Without(d) = S
        BY <2>1, <3>2 DEF Without
      <4> QED BY <3>1, <4>1
    <3> QED BY <2>2, <3>1, <3>2
  <2>4. ready \in Seq(S)
    BY <2>3, SeqMonotonic DEF Gone
  <2>5. CASE RunOne \/ Environment
    <3>1. \A c \in Command, e \in BOOLEAN : WaitHandler(c, e) \in S /\ WriteHandler(c, e) \in S
      BY <2>1 DEF WaitHandler, WriteHandler, Without, Handler
    <3>2. ReadHandler(0, TRUE) \in S
      BY <2>1 DEF ReadHandler, Without, Handler
    <3>3. ready' \in Seq(S)
      BY <1>1, <2>3, <2>4, <2>5, <3>1, <3>2, QueueStep
    <3> QED BY <2>1, <3>3
  <2>6. CASE UNCHANGED ready
    BY <2>1, <2>4, <2>6
  <2> QED BY <2>5, <2>6 DEF ExchangeNext, AnyClient, Construct, RunEnds, SendThen,
         SendFails, GetAnswer, Destroy, Close, Join, asio, vars
<1> QED BY <1>2, <1>3, <1>5, <1>6, <1>7 DEF Gone, Others

(* A handler that stands for nothing does not count, wherever it is. *)
LEMMA OneTokenAppend ==
    ASSUME NEW q \in Seq(Handler), NEW h \in Handler, NEW S,
           OneToken(q, S), Token(h) => TokenFree(q) /\ h \in S
    PROVE  /\ Append(q, h) \in Seq(Handler) /\ OneToken(Append(q, h), S)
           /\ TokenFree(q) /\ ~Token(h) => TokenFree(Append(q, h))
<1>1. PICK r : r = Append(q, h)
  OBVIOUS
<1>2. r \in Seq(Handler) /\ Len(r) = Len(q) + 1 /\ r[Len(q) + 1] = h /\ Len(q) \in Nat
  BY <1>1, AppendProperties, LenProperties
<1>3. \A k \in 1..Len(q) : r[k] = q[k]
  BY <1>1, AppendProperties
<1>4. \A k \in 1..Len(r) : k = Len(q) + 1 \/ k \in 1..Len(q)
  BY <1>2
<1> QED BY <1>1, <1>2, <1>3, <1>4 DEF OneToken, TokenFree

(* What is left when the first handler runs. *)
LEMMA OneTokenTail ==
    ASSUME NEW q \in Seq(Handler), NEW S, OneToken(q, S), q # <<>>
    PROVE  /\ Tail(q) \in Seq(Handler) /\ OneToken(Tail(q), S)
           /\ Head(q) \in Handler
           /\ Token(Head(q)) => TokenFree(Tail(q)) /\ Head(q) \in S
<1>1. PICK r, n : r = Tail(q) /\ n = Len(q)
  OBVIOUS
<1>2. r \in Seq(Handler) /\ Len(r) = n - 1 /\ n \in Nat /\ n # 0
  BY <1>1, HeadTailProperties, LenProperties, EmptySeq
<1>3. \A k \in 1..Len(r) : k + 1 \in 1..n /\ r[k] = q[k + 1] /\ k + 1 # 1
  <2>1. \A k \in 1..n - 1 : r[k] = q[k + 1]
    BY <1>1, HeadTailProperties
  <2> QED BY <1>2, <2>1
<1>4. Head(q) = q[1] /\ 1 \in 1..n /\ Head(q) \in Handler
  BY <1>2, HeadTailProperties
<1>5. \A j, k \in 1..Len(r) : j + 1 = k + 1 => j = k
  BY <1>2
<1> QED BY <1>1, <1>2, <1>3, <1>4, <1>5 DEF OneToken, TokenFree

LEMMA OneTokenFree ==
    ASSUME NEW q, TokenFree(q), NEW S
    PROVE  OneToken(q, S)
BY DEF TokenFree, OneToken

LEMMA OneTokenWider ==
    ASSUME NEW S, NEW T, NEW q, OneToken(q, S), S \subseteq T
    PROVE  OneToken(q, T)
BY DEF OneToken

(* The handler of a wait stands for nothing. *)
LEMMA OneTokenAbortedWait ==
    ASSUME TypeOK, NEW q \in Seq(Handler), NEW S, OneToken(q, S)
    PROVE  /\ WithAbortedWait(q) \in Seq(Handler) /\ OneToken(WithAbortedWait(q), S)
           /\ TokenFree(q) => TokenFree(WithAbortedWait(q))
<1>1. timer # None => WaitHandler(timer, TRUE) \in Handler /\ ~Token(WaitHandler(timer, TRUE))
  BY DEF WaitHandler, Handler, Token, TypeOK
<1> QED BY <1>1, OneTokenAppend DEF WithAbortedWait

(* The calm before and after: an answer once given stays. *)
LEMMA CalmBefore ==
    ASSUME BaseInv, [ExchangeNext]_vars, NEW d \in Command \cup {None},
           \A e \in 1..d : answer'[e] # Error("NO_ANSWER")
    PROVE  Calm(d)
<1>1. Error("NO_ANSWER") # Unset
  BY DEF Error, Unset
<1>2. \A e \in 1..d : e \in Command
  BY ExchangeAssumption DEF Command, None
<1> QED BY <1>1, <1>2, AnswersStay DEF Calm

(* Nothing of what an orderly line carries outlives the wait.              *)
LEMMA OrderlyQuiet ==
    ASSUME TypeOK, Orderly, ~Awaited
    PROVE  /\ TokenFree(ready) /\ writes = <<>> /\ reads = 0 /\ rx = <<>>
           /\ \A c \in Command : Silent(c)
BY DEF Orderly, OneToken, TokenFree, Serving

(* Steps that leave the line, the queue and the wait alone.                *)
LEMMA OrderlySteady ==
    ASSUME Orderly, UNCHANGED <<cmd, filter, answer, writes, reads, ready, line>>, Awaited' <=> Awaited,
           pc' = "listening" => pc = "listening"
    PROVE  Orderly'
<1>1. Serving' = Serving
  BY DEF Serving, Given, line
<1>2. OneToken(ready, Serving)' 
  BY <1>1 DEF OneToken, Orderly
<1> QED BY <1>2 DEF Orderly, Silent, Given, line

(* Reading on for the command that waits.                                  *)
LEMMA OrderlyRead ==
    ASSUME TypeOK, Awaited, NEW q \in Seq(Handler), TokenFree(q), reads \in {0, 1}, writes = <<>>,
           \/ initiate_read(q) /\ reads = 0
           \/ ReadInto(q) /\ reads' = 0,
           UNCHANGED <<client, answer, writes, device>>,
           Len(filter'[cmd]) + Len(rx) <= Given(cmd), filter'[cmd] \in Seq(Fragment),
           \A c \in Command : Silent(c) \/ c = cmd
    PROVE  Orderly'
<1>1. Len(filter'[cmd]) \in Nat /\ Given(cmd) \in Nat /\ Len(rx) \in Nat /\ cmd \in Command
  BY LenProperties DEF Given, TypeOK, Awaited
<1>2. /\ UNCHANGED <<cmd, pc, answer, writes, device>> /\ Awaited' /\ Given(cmd)' = Given(cmd)
      /\ \A c \in Command : Silent(c)' = Silent(c)
  BY DEF client, Awaited, Given, Silent
<1>3. CASE ReadInto(q) /\ reads' = 0
  <2>1. Readable \in Nat /\ Len(rx') = Len(rx) - Readable /\ Readable <= Len(rx)
    <3>1. rx \in Seq(Fragment) /\ read_buf \in Seq(Fragment)
      BY DEF TypeOK
    <3> QED BY <1>3, <3>1, ReadIntoParts
  <2>2. PICK h : h = ReadHandler(Readable, FALSE)
    OBVIOUS
  <2>3. /\ h \in Handler /\ h.handler = "read_callback" /\ h.n = Readable /\ h.error = FALSE
    BY <2>1, <2>2 DEF ReadHandler, Handler
  <2>4. PICK S : S = Serving'
    OBVIOUS
  <2>5. h \in S
    BY <1>1, <1>2, <1>3, <2>1, <2>3, <2>4 DEF Serving
  <2>6. OneToken(Append(q, h), S)
    BY <2>3, <2>5, OneTokenFree, OneTokenAppend
  <2>7. ready' = Append(q, h)
    BY <1>3, <2>2 DEF ReadInto
  <2>8. OneToken(ready, Serving)'
    BY <2>4, <2>6, <2>7 DEF OneToken
  <2>9. Len(filter'[cmd]) + Len(rx') <= Given(cmd)
    BY <1>1, <2>1
  <2> QED BY <1>2, <1>3, <2>8, <2>9 DEF Orderly, Awaited
<1>4. CASE ready' = q /\ reads' = 1 /\ rx' = rx
  <2>1. OneToken(ready, Serving)'
    <3>1. PICK S : S = Serving'
      OBVIOUS
    <3>2. OneToken(q, S)
      BY OneTokenFree
    <3> QED BY <1>4, <3>1, <3>2 DEF OneToken
  <2> QED BY <1>2, <1>4, <2>1 DEF Orderly, Awaited
<1> QED BY <1>3, <1>4 DEF initiate_read

(* The client starts a write when nothing of an earlier one is left.       *)
LEMMA OrderlyClient ==
    ASSUME BaseInv, Orderly, AnyClient,
           \A c \in Command : c > cmd => filter[c] = <<>> /\ answer[c] = Unset
    PROVE  Orderly'
<1>1. TypeOK /\ TypeOK' /\ ServiceInv
  BY BaseStep DEF BaseInv, TypeInv, ExchangeNext
<1>2. CASE Construct
  <2>1. ~Awaited /\ ~Awaited'
    BY <1>2 DEF Construct, Awaited
  <2>2. cmd' = cmd + 1 /\ cmd + 1 \in Command /\ cmd + 1 > cmd /\ cmd \in Nat
    BY <1>1, <1>2, ExchangeAssumption DEF Construct, TypeOK, Command, None
  <2>3. filter[cmd'] = <<>> /\ answer[cmd'] = Unset
    BY <2>2
  <2>4. UNCHANGED <<writes, reads, ready, rx, filter, answer, device>>
    BY <1>2 DEF Construct, asio, line
  <2>5. TokenFree(ready) /\ writes = <<>> /\ reads = 0 /\ rx = <<>> /\ \A c \in Command : Silent(c)
    BY <1>1, <2>1, OrderlyQuiet
  <2>6. PICK S : S = Serving'
    OBVIOUS
  <2>7. OneToken(ready, S)
    BY <2>5, OneTokenFree
  <2>8. OneToken(ready, Serving)'
    BY <2>4, <2>6, <2>7 DEF OneToken
  <2> QED BY <2>1, <2>3, <2>4, <2>5, <2>8 DEF Orderly, Silent
<1>3. CASE SendThen("running") \/ SendThen("waiting")
  <2>1. /\ pc = "listening" /\ ~Awaited /\ cmd \in Command
        /\ answer[cmd] = Unset /\ filter[cmd] = <<>>
        /\ pc' \in {"running", "waiting"}
        /\ UNCHANGED <<cmd, filter, answer, reads, ready, rx, device>>
    BY <1>1, <1>3 DEF SendThen, Awaited, Orderly, TypeOK, protocol, line
  <2>2. TokenFree(ready) /\ writes = <<>> /\ reads = 0 /\ rx = <<>> /\ \A c \in Command : Silent(c)
    BY <1>1, <2>1, OrderlyQuiet
  <2>3. writes' = <<cmd>>
    BY <1>3, <2>2 DEF SendThen
  <2>4. device[cmd] = "none"
    BY <1>1, <2>1 DEF ServiceInv, SentInv, Sent
  <2>5. PICK S : S = Serving'
    OBVIOUS
  <2>6. OneToken(ready, S)
    BY <2>2, OneTokenFree
  <2>7. OneToken(ready, Serving)'
    BY <2>1, <2>5, <2>6 DEF OneToken
  <2>8. Given(cmd) = 0 /\ Len(filter[cmd]) = 0 /\ Len(rx) = 0
    BY <2>1, <2>2, <2>4, EmptySeq DEF Given
  <2> QED BY <2>1, <2>2, <2>3, <2>4, <2>7, <2>8 DEF Orderly, Silent, Awaited, Given
<1>4. CASE SendFails \/ GetAnswer \/ Destroy \/ Close \/ Join \/ RunEnds
  <2>1. /\ UNCHANGED <<cmd, filter, answer, writes, reads, ready, line>>
        /\ pc' = "listening" => pc = "listening"
    BY <1>4 DEF SendFails, GetAnswer, Destroy, Close, Join, RunEnds, protocol, asio
  <2>2. Awaited' <=> Awaited
    BY <1>4 DEF SendFails, GetAnswer, Destroy, Close, Join, RunEnds, protocol, Awaited
  <2> QED BY <2>1, <2>2, OrderlySteady
<1> QED BY <1>2, <1>3, <1>4 DEF AnyClient

(* The handlers hand the turn on: from the write to the read, from a read  *)
(* to the next, from the last to the answer.                               *)
LEMMA OrderlyHandlers ==
    ASSUME BaseInv, Orderly, write_callback \/ read_callback \/ wait_callback,
           cmd \in Command => answer'[cmd] # Error("NO_ANSWER")
    PROVE  Orderly'
<1> DEFINE h == Head(ready)
           t == Tail(ready)
<1>1. /\ TypeInv /\ TypeOK /\ TypeOK' /\ ready # <<>> /\ UNCHANGED <<client, writes, device>>
      /\ slots \subseteq Live
  BY BaseStep DEF BaseInv, TypeInv, ExchangeNext, RunOne, write_callback, read_callback, wait_callback,
     Dispatch, line, OneListener
<1>2. /\ t \in Seq(Handler) /\ h \in Handler /\ OneToken(t, Serving)
      /\ Token(h) => TokenFree(t) /\ h \in Serving
  <2>1. ready \in Seq(Handler) /\ OneToken(ready, Serving)
    BY <1>1 DEF TypeOK, Orderly
  <2> QED BY <1>1, <2>1, OneTokenTail
<1>3. /\ WithAbortedWait(t) \in Seq(Handler) /\ OneToken(WithAbortedWait(t), Serving)
      /\ TokenFree(t) => TokenFree(WithAbortedWait(t))
  BY <1>1, <1>2, OneTokenAbortedWait
<1>4. UNCHANGED <<cmd, pc>>
  BY <1>1 DEF client
<1>5. ASSUME NEW q, OneToken(q, Serving), ready' = q, UNCHANGED <<filter, answer, reads, rx>>
      PROVE  Orderly'
  <2>1. Serving' = Serving
    BY <1>1, <1>4, <1>5 DEF Serving, Given, Awaited
  <2>2. OneToken(ready, Serving)'
    BY <1>5, <2>1 DEF OneToken
  <2> QED BY <1>1, <1>4, <1>5, <2>2 DEF Orderly, Silent, Given, Awaited
<1>6. ASSUME NEW q, TokenFree(q), ready' = q, writes = <<>>, reads' = 0, rx' = <<>>,
             answer'[cmd] # Unset, pc # "listening", \A c \in Command : Silent(c)
      PROVE  Orderly'
  <2>1. PICK S : S = Serving'
    OBVIOUS
  <2>2. OneToken(q, S)
    BY <1>6, OneTokenFree
  <2>3. OneToken(ready, Serving)'
    BY <1>6, <2>1, <2>2 DEF OneToken
  <2> QED BY <1>1, <1>4, <1>6, <2>3 DEF Orderly, Silent, Awaited
<1>7. ASSUME Awaited
      PROVE  /\ Live = {cmd} /\ cmd \in Command
             /\ Len(filter[cmd]) \in Nat /\ Len(rx) \in Nat /\ Given(cmd) \in 0..2
             /\ filter[cmd] \in Seq(Fragment)
             /\ Len(rx) = 0 => rx = <<>>
             /\ \A c \in Command : Silent(c) \/ c = cmd
  <2>1. cmd \in Command /\ rx \in Seq(Fragment) /\ filter \in [Command -> Seq(Fragment)]
    BY <1>1, <1>7 DEF Awaited, TypeOK
  <2>2. Len(rx) = 0 => rx = <<>>
    BY <2>1, EmptySeq
  <2>3. Len(filter[cmd]) \in Nat /\ Len(rx) \in Nat
    BY <2>1, LenProperties
  <2> QED BY <1>7, <2>1, <2>2, <2>3 DEF Awaited, Live, Orderly, Given
<1>8. CASE write_callback
  <2>1. h.handler = "write_callback" /\ Token(h)
    BY <1>8 DEF write_callback, Dispatch, Token
  <2>2. Awaited /\ writes = <<>> /\ reads = 0 /\ h.this = cmd /\ (h.error => device[cmd] = "none")
    BY <1>2, <2>1 DEF Serving
  <2>3. Len(filter[cmd]) + Len(rx) <= Given(cmd) /\ TokenFree(WithAbortedWait(t))
    BY <1>2, <1>3, <2>1, <2>2 DEF Orderly
  <2>4. CASE h.error
    <3>1. /\ ready' = WithAbortedWait(t) /\ UNCHANGED <<reads, rx>>
          /\ \E s \in Storage(h.this) : SetAnswer(s, Error("IO_ERROR"))
      BY <1>8, <2>4 DEF write_callback
    <3>2. SetAnswer(cmd, Error("IO_ERROR"))
      BY <1>7, <2>2, <3>1 DEF Storage
    <3>3. answer'[cmd] # Unset
      BY <1>1, <1>7, <2>2, <3>2, AnswerGiven DEF Answer, ErrorAnswer
    <3>4. Given(cmd) = 0 /\ rx = <<>> /\ \A c \in Command : Silent(c)
      BY <1>7, <2>2, <2>3, <2>4 DEF Given, Silent
    <3>5. pc # "listening"
      BY <2>2 DEF Awaited
    <3> QED BY <1>6, <2>2, <2>3, <3>1, <3>3, <3>4, <3>5
  <2>5. CASE ~h.error
    <3>1. initiate_read(WithAbortedWait(t)) /\ UNCHANGED <<filter, answer>>
      BY <1>8, <2>5 DEF write_callback
    <3> HIDE DEF t
    <3> QED BY <1>1, <1>3, <1>7, <2>2, <2>3, <3>1, OrderlyRead
  <2> QED BY <2>4, <2>5
<1>9. CASE wait_callback
  <2>0. UNCHANGED <<filter, reads, rx>>
    BY <1>9 DEF wait_callback, line
  <2>1. CASE Cancelled(h)
    <3>1. ready' = t /\ answer' = answer
      BY <1>9, <2>1 DEF wait_callback
    <3> QED BY <1>2, <1>5, <2>0, <3>1
  <2>2. CASE ~Cancelled(h)
    <3>1. ready' = WithAbortedWait(t) /\ \E s \in Storage(h.this) : SetAnswer(s, TimeoutAnswer)
      BY <1>9, <2>2 DEF wait_callback
    <3>2. PICK s \in Live \cup {None} : answer' = Satisfied(s, Error("NO_ANSWER"))
      BY <3>1 DEF SetAnswer, TimeoutAnswer, Storage
    <3>3. answer' = answer
      <4>1. ASSUME NEW c \in Command, answer'[c] # answer[c] PROVE FALSE
        BY <3>2, <4>1 DEF Satisfied, Live, Command, None
      <4> QED BY <1>1, <4>1 DEF TypeOK
    <3> QED BY <1>3, <1>5, <2>0, <3>1, <3>3
  <2> QED BY <2>1, <2>2
<1>10. CASE read_callback
  <2>0. h.handler = "read_callback"
    BY <1>10 DEF read_callback, Dispatch
  <2>1. CASE h.error
    <3>1. ready' = t /\ UNCHANGED <<filter, answer, reads, rx>>
      BY <1>10, <2>1 DEF read_callback, protocol
    <3> QED BY <1>2, <1>5, <3>1
  <2>2. CASE ~h.error
    <3> DEFINE chunk == SubSeq(read_buf, 1, h.n)
               fed   == [c \in Command |-> IF c \in slots THEN Unbytestaff(filter[c], chunk)
                                                          ELSE filter[c]]
               found == {c \in slots : Complete(fed[c])}
    <3>1. /\ Awaited /\ writes = <<>> /\ reads = 0 /\ TokenFree(t)
          /\ Len(filter[cmd]) + h.n + Len(rx) <= Given(cmd)
      BY <1>2, <2>0, <2>2 DEF Token, Serving
    <3>2. h.n \in Nat /\ chunk \in Seq(Fragment) /\ Len(chunk) = h.n
      <4>1. h.n \in Nat /\ h.n <= Len(read_buf) /\ read_buf \in Seq(Fragment)
        BY <1>1, ReadyParts DEF TypeOK, Handler
      <4>2. \A m \in Nat : (IF 1 <= m THEN m - 1 + 1 ELSE 0) = m
        OBVIOUS
      <4>3. chunk \in Seq(Fragment) /\ Len(chunk) = IF 1 <= h.n THEN h.n - 1 + 1 ELSE 0
        BY <4>1, PartOfSeq
      <4> QED BY <4>1, <4>2, <4>3
    <3>3. fed[cmd] \in Seq(Fragment) /\ Len(fed[cmd]) <= Len(filter[cmd]) + h.n
          /\ Len(fed[cmd]) \in Nat
      <4>1. Len(filter[cmd]) \in Nat /\ cmd \in Command /\ filter[cmd] \in Seq(Fragment)
        BY <1>7, <3>1
      <4>2. /\ Unbytestaff(filter[cmd], chunk) \in Seq(Fragment)
            /\ Len(Unbytestaff(filter[cmd], chunk)) <= Len(filter[cmd]) + Len(chunk)
        BY <3>2, <4>1, UnbytestaffType, UnbytestaffLength
      <4> HIDE DEF chunk
      <4>3. fed[cmd] \in Seq(Fragment) /\ Len(fed[cmd]) <= Len(filter[cmd]) + h.n
        BY <3>2, <4>1, <4>2
      <4> QED BY <4>3, LenProperties
    <3>4. \/ found = {} /\ initiate_read(t) /\ UNCHANGED answer
          \/ \E c \in found : /\ SetAnswer(c, Verdict(fed[c]))
                              /\ ready' = WithAbortedWait(t) /\ UNCHANGED <<reads, rx>>
      BY <1>10, <2>2 DEF read_callback, Reread
    <3>5. filter' = fed
      BY <1>10, <2>2 DEF read_callback
    <3>6. found \subseteq {cmd}
      BY <1>1, <1>7, <3>1
    <3>7. CASE found = {} /\ initiate_read(t) /\ UNCHANGED answer
      <4>1. filter'[cmd] \in Seq(Fragment) /\ Len(filter'[cmd]) + Len(rx) <= Given(cmd)
        <5> HIDE DEF fed, h
        <5> QED BY <1>7, <3>1, <3>2, <3>3, <3>5
      <4> HIDE DEF t, fed, found, h, chunk
      <4> QED BY <1>1, <1>2, <1>7, <3>1, <3>7, <4>1, OrderlyRead
    <3>8. CASE found # {}
      <4>1. Complete(fed[cmd]) /\ SetAnswer(cmd, Verdict(fed[cmd]))
            /\ ready' = WithAbortedWait(t) /\ UNCHANGED <<reads, rx>>
        BY <3>4, <3>6, <3>8
      <4>2. answer'[cmd] # Unset
        <5> HIDE DEF fed
        <5> QED BY <1>1, <1>7, <3>1, <3>3, <4>1, AnswerGiven, VerdictType
      <4>3. Given(cmd) = 2 /\ Len(rx) = 0
        <5> HIDE DEF fed, h
        <5> QED BY <1>7, <3>1, <3>2, <3>3, <4>1 DEF Complete
      <4>4. rx = <<>> /\ \A c \in Command : Silent(c)
        BY <1>7, <3>1, <4>3 DEF Given, Silent
      <4>5. pc # "listening" /\ TokenFree(WithAbortedWait(t))
        BY <1>3, <3>1 DEF Awaited
      <4> HIDE DEF t, fed, found, h, chunk
      <4> QED BY <1>6, <3>1, <4>1, <4>2, <4>4, <4>5
    <3> HIDE DEF found
    <3> QED BY <3>4, <3>7, <3>8
  <2> QED BY <2>1, <2>2
<1> QED BY <1>8, <1>9, <1>10

(* serial.cancel() turns the pending write into its handler, and the       *)
(* pending read into one that brings nothing.                              *)
LEMMA OrderlyCancel ==
    ASSUME BaseInv, Orderly, CancelSerial
    PROVE  Orderly'
<1> DEFINE q == ready \o AbortedReads
<1>1. /\ TypeOK /\ UNCHANGED <<client, answer, filter, line>>
      /\ ready' = q \o AbortedWrites /\ reads' = 0 /\ writes' = <<>>
  BY DEF BaseInv, TypeInv, CancelSerial, protocol
<1>2. UNCHANGED <<cmd, pc, device, rx>>
  BY <1>1 DEF client, line
<1>3. /\ AbortedReads \in Seq(Handler) /\ AbortedWrites \in Seq(Handler)
      /\ Len(AbortedWrites) = Len(writes)
      /\ \A i \in 1..Len(writes) : AbortedWrites[i] = WriteHandler(writes[i], TRUE)
      /\ Len(AbortedReads) = reads /\ reads \in Nat
      /\ \A i \in 1..reads : AbortedReads[i] = ReadHandler(0, TRUE)
  <2>1. Bounded(0) \subseteq Handler
    BY DEF Bounded
  <2>2. reads \in Nat /\ AbortedReads \in [1..reads -> Handler]
    BY <1>1 DEF AbortedReads, TypeOK, ReadHandler, Handler
  <2>3. AbortedReads \in Seq(Handler) /\ Len(AbortedReads) = reads
    BY <2>2, FunctionIsSeq
  <2> QED BY <1>1, <2>1, <2>2, <2>3, AbortedType, SeqMonotonic DEF AbortedReads
<1>4. ready \in Seq(Handler) /\ Len(ready) \in Nat /\ OneToken(ready, Serving)
  BY <1>1, LenProperties DEF TypeOK, Orderly
<1>5. /\ q \in Seq(Handler) /\ Len(q) = Len(ready) + reads
      /\ \A i \in 1..Len(ready) : q[i] = ready[i]
      /\ \A i \in 1..Len(q) : i \notin 1..Len(ready) => ~Token(q[i])
  <2>1. /\ q \in Seq(Handler) /\ Len(q) = Len(ready) + reads
        /\ \A i \in 1..Len(ready) + reads :
              q[i] = IF i <= Len(ready) THEN ready[i] ELSE AbortedReads[i - Len(ready)]
    BY <1>3, <1>4, ConcatProperties
  <2> HIDE DEF q
  <2>2. ASSUME NEW i \in 1..Len(q), i \notin 1..Len(ready) PROVE ~Token(q[i])
    <3>1. i - Len(ready) \in 1..reads /\ ~(i <= Len(ready)) /\ i \in 1..Len(ready) + reads
      BY <1>3, <1>4, <2>1, <2>2
    <3>2. q[i] = ReadHandler(0, TRUE)
      BY <1>3, <2>1, <3>1
    <3> QED BY <3>2 DEF Token, ReadHandler
  <2>3. \A i \in 1..Len(ready) : i \in 1..Len(ready) + reads /\ i <= Len(ready)
    BY <1>3, <1>4
  <2> QED BY <2>1, <2>2, <2>3
<1> HIDE DEF q
<1>6. CASE writes = <<>>
  <2>1. ready' = q
    <3>1. AbortedWrites = <<>>
      BY <1>3, <1>6, EmptySeq
    <3> QED BY <1>1, <1>5, <3>1, ConcatEmptySeq
  <2>2. OneToken(q, Serving)
    BY <1>4, <1>5 DEF OneToken
  <2>3. PICK S : S = Serving'
    OBVIOUS
  <2>4. Serving \subseteq S
    BY <1>1, <1>2, <1>6, <2>3 DEF Serving, Given, Awaited
  <2>5. OneToken(q, S)
    BY <2>2, <2>4, OneTokenWider
  <2>6. OneToken(ready, Serving)'
    BY <2>1, <2>3, <2>5 DEF OneToken
  <2> QED BY <1>1, <1>2, <2>6 DEF Orderly, Silent, Given, Awaited
<1>7. CASE writes # <<>>
  <2>1. writes = <<cmd>> /\ reads = 0 /\ Awaited /\ device[cmd] = "none" /\ cmd \in Command
    BY <1>1, <1>7 DEF Orderly, Awaited, TypeOK
  <2>2. TokenFree(q)
    <3>1. TokenFree(ready)
      BY <1>4, <1>7 DEF OneToken, TokenFree, Serving
    <3> QED BY <1>4, <1>5, <3>1 DEF TokenFree
  <2>3. PICK h : h = WriteHandler(cmd, TRUE)
    OBVIOUS
  <2>4. h \in Handler /\ Token(h) /\ h.handler = "write_callback" /\ h.this = cmd
    BY <2>1, <2>3 DEF WriteHandler, Handler, Token
  <2>5. ready' = Append(q, h)
    <3>1. Len(writes) = 1 /\ writes[1] = cmd /\ 1 \in 1..Len(writes)
      BY <2>1
    <3>2. Len(AbortedWrites) = 1 /\ AbortedWrites[1] = h
      <4>1. AbortedWrites[1] = WriteHandler(writes[1], TRUE)
        BY <1>3, <3>1
      <4> QED BY <1>3, <2>3, <3>1, <4>1
    <3>3. AbortedWrites = <<h>>
      BY <1>3, <3>2
    <3>4. q \o <<h>> = Append(q, h)
      BY <1>5, <2>4, AppendIsConcat
    <3> QED BY <1>1, <3>3, <3>4
  <2>6. PICK S : S = Serving'
    OBVIOUS
  <2>7. h \in S
    BY <1>1, <1>2, <2>1, <2>4, <2>6 DEF Serving, Awaited
  <2>8. OneToken(Append(q, h), S)
    BY <1>5, <2>2, <2>4, <2>7, OneTokenFree, OneTokenAppend
  <2>9. OneToken(ready, Serving)'
    BY <2>5, <2>6, <2>8 DEF OneToken
  <2> QED BY <1>1, <1>2, <2>9 DEF Orderly, Silent, Given, Awaited
<1> QED BY <1>6, <1>7

(* The port and the device do their part of the turn. *)
LEMMA OrderlyEnvironment ==
    ASSUME BaseInv, Orderly, Environment
    PROVE  Orderly'
<1>1. /\ TypeOK /\ UNCHANGED <<client, answer, filter>> /\ OneToken(ready, Serving)
      /\ ready \in Seq(Handler) /\ cmd \in Command \cup {None}
  BY DEF BaseInv, TypeInv, TypeOK, Orderly, Environment, WriteDone, WriteFails, ReadSome, ReadFails,
     TimerExpires, Respond, protocol
<1>2. UNCHANGED <<cmd, pc, answer, filter>> /\ Awaited' = Awaited
  BY <1>1 DEF client, Awaited
<1>3. ASSUME writes # <<>>, NEW e \in BOOLEAN, writes' = Tail(writes),
             UNCHANGED <<reads, rx>>, ready' = Append(ready, WriteHandler(Head(writes), e)),
             e => device' = device,
             device' \in {device, [device EXCEPT ![Head(writes)] = "received"]}
      PROVE  Orderly'
  <2>1. writes = <<cmd>> /\ reads = 0 /\ Awaited /\ device[cmd] = "none" /\ cmd \in Command
    BY <1>1, <1>3 DEF Orderly, Awaited, TypeOK
  <2>2. Head(writes) = cmd /\ writes' = <<>>
    BY <1>3, <2>1
  <2>3. TokenFree(ready)
    BY <1>1, <1>3 DEF OneToken, TokenFree, Serving
  <2>4. PICK h : h = WriteHandler(cmd, e)
    OBVIOUS
  <2>5. h \in Handler /\ Token(h) /\ h.handler = "write_callback" /\ h.this = cmd /\ h.error = e
    BY <2>1, <2>4 DEF WriteHandler, Handler, Token
  <2>6. PICK S : S = Serving'
    OBVIOUS
  <2>7. h \in S
    BY <1>2, <1>3, <2>1, <2>2, <2>5, <2>6 DEF Serving
  <2>8. OneToken(Append(ready, h), S)
    BY <1>1, <2>3, <2>5, <2>7, OneTokenFree, OneTokenAppend
  <2>9. OneToken(ready, Serving)'
    BY <1>3, <2>2, <2>4, <2>6, <2>8 DEF OneToken
  <2>10. /\ device'[cmd] \in {"none", "received"}
         /\ \A c \in Command : c # cmd => device'[c] = device[c]
    BY <1>1, <1>3, <2>1, <2>2 DEF TypeOK
  <2>11. Len(filter[cmd]) + Len(rx) <= 0
    BY <2>1 DEF Orderly, Given
  <2>12. Given(cmd)' = 0
    BY <1>2, <2>10 DEF Given
  <2>13. \A c \in Command : Silent(c)' \/ c = cmd
    BY <2>10 DEF Orderly, Silent
  <2> QED BY <1>2, <1>3, <2>1, <2>2, <2>9, <2>11, <2>12, <2>13 DEF Orderly
<1>4. CASE WriteDone
  BY <1>3, <1>4 DEF WriteDone
<1>5. CASE WriteFails
  BY <1>3, <1>5 DEF WriteFails, line
<1>6. CASE ReadSome
  <2>1. reads > 0 /\ ReadInto(ready) /\ reads' = reads - 1 /\ UNCHANGED <<writes, device>>
    BY <1>6 DEF ReadSome
  <2>2. reads = 1 /\ Awaited /\ writes = <<>> /\ Len(filter[cmd]) + Len(rx) <= Given(cmd)
        /\ \A c \in Command : Silent(c) \/ c = cmd
    BY <2>1 DEF Orderly
  <2>3. TokenFree(ready)
    BY <1>1, <2>2 DEF OneToken, TokenFree, Serving
  <2>4. filter'[cmd] = filter[cmd] /\ filter[cmd] \in Seq(Fragment)
    BY <1>1, <2>2 DEF TypeOK, Awaited
  <2> QED BY <1>1, <2>1, <2>2, <2>3, <2>4, OrderlyRead
<1>7. ASSUME NEW h \in Handler, ~Token(h), ready' = Append(ready, h), reads' \in {0, reads},
             UNCHANGED <<writes, device, rx>>
      PROVE  Orderly'
  <2>1. OneToken(Append(ready, h), Serving)
    BY <1>1, <1>7, OneTokenAppend
  <2>2. PICK S : S = Serving'
    OBVIOUS
  <2>3. Serving \subseteq S
    BY <1>2, <1>7, <2>2 DEF Serving, Given
  <2>4. OneToken(Append(ready, h), S)
    BY <2>1, <2>3, OneTokenWider
  <2>5. OneToken(ready, Serving)'
    BY <1>7, <2>2, <2>4 DEF OneToken
  <2> QED BY <1>2, <1>7, <2>5 DEF Orderly, Silent, Given
<1>8. CASE ReadFails
  <2>1. ReadHandler(0, TRUE) \in Handler /\ ~Token(ReadHandler(0, TRUE))
    BY DEF ReadHandler, Handler, Token
  <2>2. reads' = 0
    BY <1>8 DEF ReadFails, Orderly
  <2> QED BY <1>7, <1>8, <2>1, <2>2 DEF ReadFails, line
<1>9. CASE TimerExpires
  <2>1. WaitHandler(timer, FALSE) \in Handler /\ ~Token(WaitHandler(timer, FALSE))
    BY <1>1, <1>9 DEF WaitHandler, Handler, Token, TypeOK, TimerExpires
  <2> QED BY <1>7, <1>9, <2>1 DEF TimerExpires, line
<1>10. CASE Respond
  <2>1. PICK c \in Command : /\ device[c] \in {"received", "responding"}
                             /\ device' = [device EXCEPT ![c] = IF device[c] = "received"
                                                                THEN "responding" ELSE "done"]
                             /\ \E g \in Fragment : rx' = Append(rx, g)
    BY <1>10, ExchangeAssumption DEF Respond, Fragment
  <2>2. c = cmd /\ Awaited
    BY <2>1 DEF Orderly, Silent
  <2>3. UNCHANGED <<writes, reads, ready>>
    BY <1>10 DEF Respond, asio
  <2>4. writes = <<>> /\ device[cmd] # "none"
    BY <2>1, <2>2 DEF Orderly
  <2>5. Len(rx') = Len(rx) + 1 /\ Len(rx) \in Nat /\ Len(filter[cmd]) \in Nat
    BY <1>1, <2>1, <2>2, AppendProperties, LenProperties DEF TypeOK
  <2>6. device'[cmd] = IF device[cmd] = "received" THEN "responding" ELSE "done"
    BY <1>1, <2>1, <2>2 DEF TypeOK
  <2>7. Given(cmd)' = Given(cmd) + 1 /\ Given(cmd) \in Nat
    BY <1>2, <2>1, <2>2, <2>6 DEF Given
  <2>8. PICK S : S = Serving'
    OBVIOUS
  <2>9. Serving \subseteq S
    <3> SUFFICES ASSUME NEW h \in Serving PROVE h \in S
      OBVIOUS
    <3>1. h.n \in Nat /\ h \in Handler
      BY DEF Serving, Handler
    <3>2. h.handler = "read_callback" => Len(filter'[cmd']) + h.n + Len(rx') <= Given(cmd)'
      BY <1>2, <2>5, <2>7, <3>1 DEF Serving
    <3>3. h.handler = "write_callback" => h.this = cmd /\ ~h.error
      BY <2>4 DEF Serving
    <3> QED BY <1>2, <2>2, <2>3, <2>4, <2>8, <3>1, <3>2, <3>3 DEF Serving
  <2>10. OneToken(ready, S)
    BY <1>1, <2>9, OneTokenWider
  <2>11. OneToken(ready, Serving)'
    BY <2>3, <2>8, <2>10 DEF OneToken
  <2>12. Len(filter'[cmd']) + Len(rx') <= Given(cmd)'
    <3>1. Len(filter[cmd]) + Len(rx) <= Given(cmd)
      BY <2>2 DEF Orderly
    <3>2. Len(filter'[cmd']) = Len(filter[cmd])
      BY <1>2
    <3>3. \A x, y, z \in Nat : x + y <= z => x + (y + 1) <= z + 1
      OBVIOUS
    <3> QED BY <2>5, <2>7, <3>1, <3>2, <3>3
  <2>13. \A d \in Command : Silent(d)' \/ d = cmd
    <3>1. \A d \in Command : d # cmd => device'[d] = device[d]
      BY <1>1, <2>1, <2>2 DEF TypeOK
    <3> QED BY <3>1 DEF Orderly, Silent
  <2>14. pc' # "listening"
    BY <1>2, <2>2 DEF Awaited
  <2> QED BY <1>2, <2>2, <2>3, <2>4, <2>11, <2>12, <2>13, <2>14 DEF Orderly
<1> QED BY <1>4, <1>5, <1>6, <1>8, <1>9, <1>10 DEF Environment

LEMMA OrderlyStep ==
    ASSUME BaseInv, OrderInv, [ExchangeNext]_vars, Calm(cmd)'
    PROVE  Orderly'
<1>1. TypeOK /\ cmd \in Command \cup {None} /\ cmd' \in {cmd, cmd + 1}
  BY OnlyItsAnswer DEF BaseInv, TypeInv, TypeOK, vars, client
<1>2. Calm(cmd) /\ Orderly
  <2>1. \A e \in 1..cmd : e \in 1..cmd'
    BY <1>1, ExchangeAssumption DEF Command, None
  <2>2. \A e \in 1..cmd : answer'[e] # Error("NO_ANSWER")
    BY <2>1 DEF Calm
  <2> QED BY <1>1, <2>2, CalmBefore DEF OrderInv
<1>3. CASE AnyClient
  BY <1>2, <1>3, OrderlyClient DEF OrderInv
<1>4. CASE write_callback \/ read_callback \/ wait_callback
  <2>1. cmd' = cmd
    BY <1>4 DEF write_callback, read_callback, wait_callback, client
  <2>2. cmd \in Command => cmd \in 1..cmd
    BY ExchangeAssumption DEF Command
  <2>3. cmd \in Command => answer'[cmd] # Error("NO_ANSWER")
    BY <2>1, <2>2 DEF Calm
  <2> QED BY <1>2, <1>4, <2>3, OrderlyHandlers
<1>5. CASE CancelSerial
  BY <1>2, <1>5, OrderlyCancel
<1>6. CASE Environment
  BY <1>2, <1>6, OrderlyEnvironment
<1>7. CASE UNCHANGED vars
  <2>1. UNCHANGED <<cmd, pc, filter, answer, writes, reads, ready, line>>
    BY <1>7 DEF vars, client, protocol, asio
  <2>2. Awaited' <=> Awaited
    BY <2>1 DEF Awaited
  <2> QED BY <1>2, <2>1, <2>2, OrderlySteady
<1> QED BY <1>3, <1>4, <1>5, <1>6, <1>7 DEF ExchangeNext, RunOne

(* A command that returned in the calm has left nothing of itself when the *)
(* next one is constructed.                                                *)
LEMMA GoneAfterCalm ==
    ASSUME BaseInv, Orderly, Construct, cmd \in Command,
           \A c \in Command : c > cmd => filter[c] = <<>>
    PROVE  \A d \in Command : d = cmd => Gone(d)'
<1> SUFFICES ASSUME NEW d \in Command, d = cmd PROVE Gone(d)'
  OBVIOUS
<1>1. TypeOK /\ ~Awaited
  BY DEF BaseInv, TypeInv, Construct, Awaited
<1>2. TokenFree(ready) /\ writes = <<>> /\ rx = <<>> /\ \A c \in Command : Silent(c)
  BY <1>1, OrderlyQuiet
<1>3. UNCHANGED <<writes, ready, rx, filter, device, read_buf>> /\ cmd' = cmd + 1 /\ cmd + 1 > cmd
  BY ExchangeAssumption DEF Construct, asio, line, Command
<1>4. cmd' \in Command => filter'[cmd'] = <<>>
  BY <1>3
<1>5. ready \in Seq(Without(d))
  <2>1. PICK q : q = ready
    OBVIOUS
  <2>2. q \in Seq(Handler) /\ \A k \in 1..Len(q) : ~Token(q[k])
    BY <1>1, <1>2, <2>1 DEF TypeOK, TokenFree
  <2>3. \A k \in 1..Len(q) : q[k] \in Handler
    BY <2>2, ElementOfSeq
  <2>4. \A k \in 1..Len(q) : q[k] \in Without(d)
    BY <2>2, <2>3 DEF Token, Without
  <2>5. Len(q) \in Nat /\ q \in [1..Len(q) -> Without(d)]
    BY <2>2, <2>4, LenProperties
  <2> QED BY <2>1, <2>5, FunctionIsSeq
<1>6. Without(d)' = Without(d)
  BY <1>3 DEF Without
<1>7. Silent(d)'
  BY <1>2, <1>3 DEF Silent
<1> QED BY <1>2, <1>3, <1>4, <1>5, <1>6, <1>7, EmptySeq DEF Gone

LEMMA OrderStep == BaseInv /\ OrderInv /\ [ExchangeNext]_vars => OrderInv'
<1> SUFFICES ASSUME BaseInv, OrderInv, [ExchangeNext]_vars PROVE OrderInv'
  OBVIOUS
<1>1. /\ TypeOK /\ cmd \in Command \cup {None} /\ cmd' \in {cmd, cmd + 1}
      /\ \A c \in Command : c # cmd => answer'[c] = answer[c]
      /\ cmd' \in Command \cup {None}
  <2>1. BaseInv'
    BY BaseStep
  <2> QED BY <2>1, OnlyItsAnswer DEF BaseInv, TypeInv, TypeOK, vars, client, protocol
<1>2. \A c \in Command : c > cmd' => filter'[c] = <<>> /\ answer'[c] = Unset
  <2> SUFFICES ASSUME NEW c \in Command, c > cmd' PROVE filter'[c] = <<>> /\ answer'[c] = Unset
    OBVIOUS
  <2>1. c > cmd /\ c # cmd
    BY <1>1, ExchangeAssumption DEF Command, None
  <2>2. filter'[c] = filter[c]
    BY <2>1, FilterFed
  <2> QED BY <1>1, <2>1, <2>2 DEF OrderInv
<1>3. (Calm(cmd) => Orderly)'
  BY OrderlyStep
<1>4. ASSUME NEW d \in Command, d < cmd', \A e \in 1..d : answer'[e] # Error("NO_ANSWER")
      PROVE  Gone(d)'
  <2>1. Calm(d)
    BY <1>4, CalmBefore
  <2>2. CASE d < cmd
    <3>1. Gone(d) /\ \A c \in Command : c > cmd => filter[c] = <<>>
      BY <2>1, <2>2 DEF OrderInv
    <3> QED BY <2>2, <3>1, GoneStep
  <2>3. CASE ~(d < cmd)
    <3>1. d = cmd /\ cmd' # cmd
      BY <1>1, <1>4, <2>3, ExchangeAssumption DEF Command, None
    <3>2. Construct
      BY <3>1 DEF ExchangeNext, AnyClient, SendFails, SendThen, RunEnds, GetAnswer, Destroy, Close, Join,
         RunOne, write_callback, read_callback, wait_callback, CancelSerial, Environment, WriteDone,
         WriteFails, ReadSome, ReadFails, TimerExpires, Respond, client, vars
    <3>3. Orderly /\ \A c \in Command : c > cmd => filter[c] = <<>>
      BY <2>1, <3>1 DEF OrderInv
    <3> QED BY <3>1, <3>2, <3>3, GoneAfterCalm
  <2> QED BY <2>2, <2>3
<1>5. ASSUME NEW c \in Command, NEW d \in Command, answer'[c].of = d, d # c
      PROVE  d < c /\ \E e \in 1..d : answer'[e] = Error("NO_ANSWER")
  <2>1. CASE answer'[c] = answer[c]
    <3>1. d < c /\ \E e \in 1..d : answer[e] = Error("NO_ANSWER")
      BY <1>5, <2>1 DEF OrderInv, MisattributionNeedsTimeout
    <3>2. Error("NO_ANSWER") # Unset /\ \A e \in 1..d : e \in Command
      BY ExchangeAssumption DEF Error, Unset, Command
    <3> QED BY <3>1, <3>2, AnswersStay
  <2>2. CASE answer'[c] # answer[c]
    <3>1. ExchangeNext /\ answer'[c].of # None
      BY <1>5, <2>2 DEF vars, protocol, Command, None
    <3>2. c = cmd /\ cmd' = cmd /\ Complete(filter'[c]) /\ answer'[c] = Verdict(filter'[c])
      BY <2>2, <3>1, ReplyIsFed
    <3>3. filter'[c][1].of = d
      BY <1>5, <3>1, <3>2 DEF Verdict, Packet, Error
    <3>4. filter'[c] \in Seq(OfSent')
      <4>1. SentInv'
        BY BaseStep DEF BaseInv, ServiceInv
      <4> QED BY <4>1 DEF SentInv
    <3>5. Len(filter'[c]) \in Nat /\ 1 \in 1..Len(filter'[c])
      BY <3>2, <3>4, LenProperties DEF Complete
    <3>6. filter'[c][1] \in OfSent'
      BY <3>4, <3>5, ElementOfSeq
    <3>7. d <= cmd'
      BY <3>3, <3>6, <1>1, ExchangeAssumption DEF OfSent, Sent, Command, None
    <3>8. d < c
      BY <1>5, <3>2, <3>7, ExchangeAssumption DEF Command
    <3>9. ASSUME \A e \in 1..d : answer'[e] # Error("NO_ANSWER") PROVE FALSE
      <4>1. Gone(d)'
        BY <1>4, <3>2, <3>8, <3>9
      <4>2. filter'[c] \in Seq(Others(d))
        BY <3>2, <4>1 DEF Gone, Others
      <4>3. filter'[c][1] \in Others(d)
        BY <3>5, <4>2, ElementOfSeq
      <4> QED BY <3>3, <4>3 DEF Others
    <3> QED BY <3>8, <3>9
  <2> QED BY <2>1, <2>2
<1>6. \A d \in Command : (d < cmd /\ Calm(d) => Gone(d))'
  BY <1>4 DEF Calm
<1>7. MisattributionNeedsTimeout'
  BY <1>5 DEF MisattributionNeedsTimeout
<1> QED BY <1>2, <1>3, <1>6, <1>7 DEF OrderInv

(* A provider that is opened with no read begun has nothing to mix up.     *)
LEMMA OrderInit == Opened(0) => OrderInv
<1> SUFFICES ASSUME Opened(0) PROVE OrderInv
  OBVIOUS
<1>1. Len(ready) = 0 /\ ~Awaited
  BY EmptySeq DEF Opened, Awaited
<1>2. OneToken(ready, Serving)
  BY <1>1 DEF OneToken
<1>3. Orderly
  BY <1>1, <1>2 DEF Opened, Orderly, Silent
<1>4. \A d \in Command : ~(d < cmd)
  BY ExchangeAssumption DEF Opened, Command, None
<1>5. MisattributionNeedsTimeout
  BY DEF Opened, MisattributionNeedsTimeout, Unset, Error, Command, None
<1>6. \A c \in Command : filter[c] = <<>> /\ answer[c] = Unset
  BY DEF Opened
<1> QED BY <1>3, <1>4, <1>5, <1>6 DEF OrderInv

-----------------------------------------------------------------------------
(* Reads under way, begun or with their bytes in the queue.                *)
Brings(h) == h.handler = "read_callback" /\ ~h.error

BringFree(q) == \A k \in 1..Len(q) : ~Brings(q[k])

OneRead ==
    /\ reads <= 1
    /\ \A j, k \in 1..Len(ready) : Brings(ready[j]) /\ Brings(ready[k]) => j = k
    /\ reads # 0 => BringFree(ready)

(* No more than one read under way, counted. *)
LEMMA OneReadCounted ==
    ASSUME NEW S, ready \in Seq(S), reads \in Nat, OneRead
    PROVE  ReadsInFlight \in Nat /\ ReadsInFlight <= 1
<1> DEFINE done == {i \in 1..Len(ready) : ready[i].handler = "read_callback" /\ ~ready[i].error}
<1>1. Len(ready) \in Nat /\ reads \in Nat
  BY LenProperties
<1>2. CASE done = {}
  <2>1. Cardinality(done) = 0
    BY <1>2, FS_EmptySet
  <2>2. reads + 0 <= 1
    BY <1>1 DEF OneRead
  <2> QED BY <2>1, <2>2 DEF ReadsInFlight
<1>3. CASE done # {}
  <2>1. PICK i \in done : TRUE
    BY <1>3
  <2>2. done = {i}
    BY <2>1 DEF OneRead, Brings
  <2>3. Cardinality(done) = 1
    BY <2>2, FS_Singleton
  <2>4. reads = 0
    BY <2>1 DEF OneRead, BringFree, Brings
  <2> QED BY <2>3, <2>4 DEF ReadsInFlight
<1> QED BY <1>2, <1>3

=============================================================================
