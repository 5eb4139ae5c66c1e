---------------------------- MODULE AsioMTProofs ----------------------------
(***************************************************************************)
(* Proofs about AsioMT, for any number of commands, any kinds of reply,    *)
(* any faults and any read size.                                           *)
(***************************************************************************)
EXTENDS AsioMT, ExchangeProofs

-----------------------------------------------------------------------------
(* The threaded provider takes no other steps than those of Exchange.      *)
LEMMA NextOfExchange == Next => ExchangeNext
  BY DEF Next, Client, Send, IoThread, ExchangeNext, AnyClient, RunOne

LEMMA StepOfExchange == [Next]_vars => [ExchangeNext]_vars
  BY NextOfExchange

LEMMA BaseHolds == Spec => []BaseInv
<1>1. Init => BaseInv
  BY BaseInit DEF Init
<1>2. QED
  BY <1>1, BaseStep, StepOfExchange, PTL DEF Spec

(* Every variable of the threaded provider stays in its range.             *)
THEOREM TypeCorrect == Spec => []TypeOK
<1>1. BaseInv => TypeOK
  BY DEF BaseInv, TypeInv
<1>2. QED
  BY <1>1, BaseHolds, PTL

(* No chunk of bytes reaches the protocol of an earlier command: whatever  *)
(* order handlers and client run in, only the protocol now on the client's *)
(* stack is connected to the signal.                                       *)
THEOREM ListenerIsCurrent == Spec => []OneListener
<1>1. BaseInv => OneListener
  BY DEF BaseInv
<1>2. QED
  BY <1>1, BaseHolds, PTL

-----------------------------------------------------------------------------
(* A handler either keeps what wakes the client up or replaces it: the     *)
(* write's handler starts the timer or reports the error, and whoever      *)
(* drops the timer of a live protocol has set its promise.                 *)
LEMMA HandlersKeepWaker ==
    ASSUME TypeInv, pc = "waiting", ~stale', Waker,
           write_callback \/ read_callback \/ wait_callback
    PROVE  Waker'
<1>1. /\ cmd' = cmd
      /\ writes' = writes
      /\ ready # <<>>
      /\ TypeOK
      /\ cmd \in Command
      /\ Live = {cmd}
      /\ Kept(Tail(ready), ready')
  BY HandlersKeepTail
  DEF write_callback, read_callback, wait_callback, Dispatch, client, TypeInv, TypeOK, Live
<1> DEFINE h == Head(ready)
<1>a. ASSUME NEW s \in Storage(h.this), h.this \in Live, NEW a \in Answer, SetAnswer(s, a)
      PROVE  answer'[cmd] # Unset
  <2>1. s = cmd
    BY <1>1, <1>a DEF Storage
  <2>2. QED
    BY <1>1, <1>a, <2>1, AnswerGiven
<1>b. Error("IO_ERROR") \in Answer /\ TimeoutAnswer \in Answer
  BY DEF Answer, ErrorAnswer, TimeoutAnswer
<1>2. CASE write_callback
  <2>1. h.this = cmd /\ h.this \in Live /\ h.handler = "write_callback"
    BY <1>1, <1>2 DEF write_callback, Dispatch
  <2>2. CASE h.error
    BY <1>1, <1>2, <1>a, <1>b, <2>1, <2>2 DEF write_callback, Waker
  <2>3. CASE ~h.error
    BY <1>1, <1>2, <2>1, <2>3 DEF write_callback, SetTimeout, Waker
  <2>4. QED
    BY <2>2, <2>3
<1>3. CASE wait_callback
  <2>0. h.handler = "wait_callback"
    BY <1>3 DEF wait_callback, Dispatch
  <2>1. CASE Cancelled(h)
    <3>1. UNCHANGED <<answer, timer>> /\ h.error
      BY <1>3, <2>1 DEF wait_callback, Cancelled
    <3>2. \A kind, err : Queued(kind, cmd, err) /\ (kind # "wait_callback" \/ err = FALSE)
                             => Queued(kind, cmd, err)'
      BY <1>1, <2>0, <3>1, QueuedHeadOrTail
    <3>3. QED
      BY <1>1, <3>1, <3>2 DEF Waker
  <2>2. CASE ~Cancelled(h)
    <3>1. h.this \in Live
      BY <1>3, <2>2 DEF wait_callback
    <3>2. PICK s \in Storage(h.this) : SetAnswer(s, TimeoutAnswer)
      BY <1>3, <2>2 DEF wait_callback
    <3>3. QED
      BY <1>1, <1>a, <1>b, <3>1, <3>2 DEF Waker
  <2>3. QED
    BY <2>1, <2>2
<1>4. CASE read_callback
  <2>0. h.handler = "read_callback"
    BY <1>4 DEF read_callback, Dispatch
  <2>1. CASE UNCHANGED <<answer, timer>>
    <3>1. \A kind, err : Queued(kind, cmd, err) /\ kind # "read_callback"
                             => Queued(kind, cmd, err)'
      BY <1>1, <2>0, QueuedHeadOrTail
    <3>2. QED
      BY <1>1, <2>1, <3>1 DEF Waker
  <2> DEFINE chunk == SubSeq(read_buf, 1, h.n)
             fed   == [c \in Command |-> IF c \in slots THEN Unbytestaff(filter[c], chunk)
                                                        ELSE filter[c]]
             found == {c \in slots : Complete(fed[c])}
  <2>2. ASSUME NEW c \in found, SetAnswer(c, Verdict(fed[c])), slots \subseteq Live
        PROVE  Waker'
    <3>1. chunk \in Seq(Fragment)
      BY <1>1, ReadyParts, PartOfSeq DEF TypeOK, Handler
    <3>2. fed \in [Command -> Seq(Fragment)]
      BY <1>1, <3>1, UnbytestaffType DEF TypeOK
    <3>3. Verdict(fed[c]) \in Answer
      BY <1>1, <3>2, VerdictType DEF TypeOK
    <3>4. c = cmd
      BY <1>1, <2>2
    <3>5. answer'[cmd] # Unset
      BY <1>1, <2>2, <3>3, <3>4, AnswerGiven
    <3>6. QED
      BY <1>1, <3>5 DEF Waker
  <2>3. \/ UNCHANGED <<answer, timer>>
        \/ slots \subseteq Live /\ \E c \in found : SetAnswer(c, Verdict(fed[c]))
    BY <1>4 DEF read_callback, protocol
  <2>4. QED
    BY <2>1, <2>2, <2>3
<1>5. QED
  BY <1>2, <1>3, <1>4

(* serial.cancel() completes the pending write: its handler is queued.     *)
LEMMA CancelKeepsWaker ==
    ASSUME TypeInv, Waker, CancelSerial
    PROVE  Waker'
<1> DEFINE q == ready \o AbortedReads
<1>1. /\ cmd' = cmd /\ answer' = answer /\ timer' = timer
      /\ ready' = q \o AbortedWrites
      /\ TypeOK
  BY DEF CancelSerial, client, protocol, TypeInv
<1>2. /\ AbortedReads \in Seq(Handler)
      /\ AbortedWrites \in Seq(Handler)
      /\ Len(AbortedWrites) = Len(writes)
      /\ \A i \in 1..Len(writes) : AbortedWrites[i] = WriteHandler(writes[i], TRUE)
  <2>1. Bounded(0) \subseteq Handler
    BY DEF Bounded
  <2>2. QED
    BY <1>1, <2>1, AbortedType, SeqMonotonic
<1>3. Len(writes) \in Nat /\ Len(ready) \in Nat /\ Len(AbortedReads) \in Nat
  BY <1>1, <1>2, LenProperties DEF TypeOK
<1>4. q \in Seq(Handler) /\ Len(q) \in Nat /\ Kept(ready, q)
  <2>1. /\ q \in Seq(Handler)
        /\ Len(q) = Len(ready) + Len(AbortedReads)
        /\ \A i \in 1..Len(ready) + Len(AbortedReads) :
              q[i] = IF i <= Len(ready) THEN ready[i] ELSE AbortedReads[i - Len(ready)]
    BY <1>1, <1>2, ConcatProperties DEF TypeOK
  <2> HIDE DEF q
  <2>2. QED
    BY <1>3, <2>1 DEF Kept
<1> HIDE DEF q
<1>5. /\ Len(ready') = Len(q) + Len(writes)
      /\ \A i \in 1..Len(q) : ready'[i] = q[i]
      /\ \A i \in 1..Len(writes) : ready'[Len(q) + i] = WriteHandler(writes[i], TRUE)
  <2>1. /\ Len(ready') = Len(q) + Len(AbortedWrites)
        /\ \A i \in 1..Len(q) + Len(AbortedWrites) :
              ready'[i] = IF i <= Len(q) THEN q[i] ELSE AbortedWrites[i - Len(q)]
    <3>1. /\ Len(q \o AbortedWrites) = Len(q) + Len(AbortedWrites)
          /\ \A i \in 1..Len(q) + Len(AbortedWrites) :
                (q \o AbortedWrites)[i] = IF i <= Len(q) THEN q[i] ELSE AbortedWrites[i - Len(q)]
      <4>1. PICK x, y : x = q /\ y = AbortedWrites
        OBVIOUS
      <4>2. x \in Seq(Handler) /\ y \in Seq(Handler)
        BY <1>2, <1>4, <4>1
      <4>3. /\ Len(x \o y) = Len(x) + Len(y)
            /\ \A i \in 1..Len(x) + Len(y) : (x \o y)[i] = IF i <= Len(x) THEN x[i] ELSE y[i - Len(x)]
        BY ONLY <4>2, ConcatProperties
      <4> QED BY <4>1, <4>3
    <3>2. QED
      BY <1>1, <3>1
  <2>2. ASSUME NEW i \in 1..Len(writes)
        PROVE  /\ Len(q) + i \in 1..Len(q) + Len(AbortedWrites)
               /\ ~(Len(q) + i <= Len(q))
               /\ Len(q) + i - Len(q) = i
    BY <1>2, <1>3, <1>4
  <2>3. \A i \in 1..Len(q) : i \in 1..Len(q) + Len(AbortedWrites) /\ i <= Len(q)
    BY <1>2, <1>3, <1>4
  <2>4. ASSUME NEW i \in 1..Len(writes)
        PROVE  ready'[Len(q) + i] = WriteHandler(writes[i], TRUE)
    <3>1. ready'[Len(q) + i] = AbortedWrites[Len(q) + i - Len(q)]
      BY <2>1, <2>2
    <3>2. QED
      BY <1>2, <2>2, <3>1
  <2>5. QED
    BY <1>2, <2>1, <2>3, <2>4
<1>6. Kept(ready, ready')
  <2>1. Kept(q, ready')
    BY <1>3, <1>4, <1>5 DEF Kept
  <2>2. QED
    BY <1>4, <2>1, KeptTransitive
<1>7. ASSUME NEW i \in 1..Len(writes), writes[i] = cmd PROVE Waker'
  <2>1. Len(q) + i \in 1..Len(ready')
    BY <1>3, <1>4, <1>5
  <2>2. ready'[Len(q) + i] = WriteHandler(cmd, TRUE)
    BY <1>5, <1>7
  <2>3. /\ ready'[Len(q) + i].handler = "write_callback"
        /\ ready'[Len(q) + i].this = cmd
        /\ ready'[Len(q) + i].error = TRUE
    BY <2>2 DEF WriteHandler
  <2>4. Queued("write_callback", cmd, TRUE)'
    BY <1>1, <2>1, <2>3 DEF Queued
  <2>5. QED
    BY <1>1, <2>4 DEF Waker
<1>8. \A kind, err : Queued(kind, cmd, err) => Queued(kind, cmd, err)'
  BY <1>6, <1>1, QueuedKept
<1>9. QED
  BY <1>1, <1>7, <1>8 DEF Waker

(* Only Send makes the client wait, and it leaves the write pending.       *)
LEMMA WakerStep == TypeInv /\ WaitingClientHasWaker /\ [Next]_vars => WaitingClientHasWaker'
<1> SUFFICES ASSUME TypeInv, WaitingClientHasWaker, [Next]_vars, pc' = "waiting", ~stale'
             PROVE  Waker'
  BY DEF WaitingClientHasWaker, Waker, Queued
<1>1. CASE Send
  <2>1. cmd' = cmd /\ writes' = Append(writes, cmd) /\ writes \in Seq(Command) /\ cmd \in Command
    BY <1>1 DEF Send, SendThen, TypeInv, TypeOK
  <2>2. Len(writes') = Len(writes) + 1 /\ writes'[Len(writes) + 1] = cmd /\ Len(writes) \in Nat
    BY <2>1, AppendProperties, LenProperties
  <2>3. Len(writes) + 1 \in 1..Len(writes')
    BY <2>2
  <2>4. QED
    BY <2>1, <2>2, <2>3 DEF Waker
<1>2. CASE Construct \/ SendFails \/ GetAnswer \/ Destroy \/ Close \/ Join
  BY <1>2 DEF Construct, SendFails, GetAnswer, Destroy, Close, Join
<1>3. CASE RunOne \/ Environment \/ UNCHANGED vars
  <2>1. pc = "waiting"
    BY <1>3 DEF RunOne, write_callback, read_callback, wait_callback, CancelSerial, Environment,
       WriteDone, WriteFails, ReadSome, ReadFails, TimerExpires, Respond, vars, client
  <2>2. ~stale
    BY <1>3 DEF RunOne, write_callback, read_callback, wait_callback, CancelSerial, Environment,
       WriteDone, WriteFails, ReadSome, ReadFails, TimerExpires, Respond, vars, history,
       TypeInv, TypeOK
  <2>3. Waker
    BY <2>1, <2>2 DEF WaitingClientHasWaker, Waker
  <2>4. CASE UNCHANGED vars
    BY <2>3, <2>4 DEF Waker, Queued, vars, client, protocol, asio
  <2>5. QED
    BY <1>3, <2>1, <2>3, <2>4, HandlersKeepWaker, CancelKeepsWaker, EnvironmentKeepsWaker
    DEF RunOne
<1>4. QED
  BY <1>1, <1>2, <1>3 DEF Next, Client, IoThread, RunOne

(* A client blocked in get_answer always has a write, a timer or one of    *)
(* their handlers still to come that will set its promise, in every        *)
(* behaviour in which no handler has used a destroyed protocol.            *)
THEOREM ClientHasWaker == Spec => []WaitingClientHasWaker
<1>1. Init => WaitingClientHasWaker
  BY DEF Init, Opened, WaitingClientHasWaker
<1>2. BaseInv => TypeInv
  BY DEF BaseInv
<1>3. QED
  BY <1>1, <1>2, BaseHolds, WakerStep, PTL DEF Spec

-----------------------------------------------------------------------------
(* IO_ERROR.  As long as no earlier command's timer has expired, one thing *)
(* at most is under way for the command that waits: its write, the handler *)
(* of its write, or its timer with one read; nothing of an earlier command *)
(* is left but handlers that do nothing.                                   *)

(* Handlers of cancelled waits and of failed reads do nothing. *)
Effective(h) == h.handler = "write_callback" \/ ~h.error

NoneEffective(q) == \A k \in 1..Len(q) : ~Effective(q[k])

OneEffective(q) == \A j, k \in 1..Len(q) : Effective(q[j]) /\ Effective(q[k]) => j = k

Serves(h) ==
    \/ h.handler = "write_callback" /\ h.this = cmd /\ timer = None /\ (h.error => cmd \in faulted)
    \/ h.handler = "read_callback" /\ timer = cmd

Unanswered == pc = "waiting" /\ answer[cmd] = Unset

(* Before any timer has expired. *)
Untimed ==
    /\ io = "idle"
    /\ OneEffective(ready)
    /\ \A k \in 1..Len(ready) :
          Effective(ready[k]) => Serves(ready[k]) /\ Unanswered /\ writes = <<>> /\ reads = 0
    /\ writes # <<>> => writes = <<cmd>> /\ timer = None /\ reads = 0 /\ Unanswered
    /\ reads # 0 => reads = 1 /\ timer = cmd /\ timer # None
    /\ timer # None => timer = cmd /\ Unanswered
    /\ pc = "listening" => answer[cmd] = Unset

NoWriteHandler(q) == \A k \in 1..Len(q) : q[k].handler # "write_callback"

(* After the timer of the command itself has. *)
JustTimed ==
    /\ writes = <<>> /\ timer = None /\ pc # "listening"
    /\ NoWriteHandler(ready)

TimedBefore == \E e \in expired : e < cmd

IoErrorInv ==
    /\ \/ TimedBefore
       \/ expired = {} /\ Untimed
       \/ expired = {cmd} /\ JustTimed
    /\ \A d \in Command : d > cmd => answer[d] = Unset
    /\ IoErrorNeedsTimeout

LEMMA AppendEffective ==
    ASSUME NEW q \in Seq(Handler), NEW h \in Handler
    PROVE  /\ NoneEffective(q) => OneEffective(Append(q, h))
           /\ ~Effective(h) /\ NoneEffective(q) => NoneEffective(Append(q, h))
           /\ ~Effective(h) /\ OneEffective(q) => OneEffective(Append(q, h))
           /\ \A k \in 1..Len(Append(q, h)) :
                 (k \in 1..Len(q) /\ Append(q, h)[k] = q[k]) \/ Append(q, h)[k] = h
           /\ h.handler # "write_callback" /\ NoWriteHandler(q) => NoWriteHandler(Append(q, h))
<1>1. /\ Len(Append(q, h)) = Len(q) + 1 /\ Len(q) \in Nat
      /\ \A k \in 1..Len(q) : Append(q, h)[k] = q[k]
      /\ Append(q, h)[Len(q) + 1] = h
  BY AppendProperties, LenProperties
<1> QED BY <1>1 DEF NoneEffective, OneEffective, NoWriteHandler

LEMMA TailEffective ==
    ASSUME NEW q \in Seq(Handler), q # <<>>
    PROVE  /\ Head(q) \in Handler /\ Tail(q) \in Seq(Handler)
           /\ OneEffective(q) => OneEffective(Tail(q))
           /\ OneEffective(q) /\ Effective(Head(q)) => NoneEffective(Tail(q))
           /\ NoWriteHandler(q) => NoWriteHandler(Tail(q)) /\ Head(q).handler # "write_callback"
           /\ 1 \in 1..Len(q) /\ Head(q) = q[1]
           /\ \A k \in 1..Len(Tail(q)) : k + 1 \in 1..Len(q) /\ Tail(q)[k] = q[k + 1]
<1>1. /\ Head(q) = q[1] /\ Head(q) \in Handler /\ Tail(q) \in Seq(Handler)
      /\ Len(q) \in Nat /\ Len(q) > 0 /\ Len(Tail(q)) = Len(q) - 1
      /\ \A k \in 1..Len(Tail(q)) : Tail(q)[k] = q[k + 1]
  BY HeadTailProperties, LenProperties
<1>2. \A k \in 1..Len(Tail(q)) : k + 1 \in 1..Len(q) /\ k + 1 # 1
  BY <1>1
<1>3. 1 \in 1..Len(q)
  BY <1>1
<1>4. OneEffective(q) => OneEffective(Tail(q))
  <2> SUFFICES ASSUME OneEffective(q), NEW j \in 1..Len(Tail(q)), NEW k \in 1..Len(Tail(q)),
                      Effective(Tail(q)[j]), Effective(Tail(q)[k])
               PROVE  j = k
    BY DEF OneEffective
  <2>1. j + 1 = k + 1
    BY <1>1, <1>2 DEF OneEffective
  <2> QED BY <2>1
<1>5. OneEffective(q) /\ Effective(Head(q)) => NoneEffective(Tail(q))
  BY <1>1, <1>2, <1>3 DEF OneEffective, NoneEffective
<1>6. NoWriteHandler(q) => NoWriteHandler(Tail(q)) /\ Head(q).handler # "write_callback"
  BY <1>1, <1>2, <1>3 DEF NoWriteHandler
<1> QED BY <1>1, <1>2, <1>3, <1>4, <1>5, <1>6

LEMMA AbortedWaitEffective ==
    ASSUME TypeOK, NEW q \in Seq(Handler)
    PROVE  /\ WithAbortedWait(q) \in Seq(Handler)
           /\ NoneEffective(q) => NoneEffective(WithAbortedWait(q))
<1>1. timer # None => WaitHandler(timer, TRUE) \in Handler /\ ~Effective(WaitHandler(timer, TRUE))
  BY DEF TypeOK, WaitHandler, Handler, Effective
<1> QED BY <1>1, AppendEffective, AppendProperties DEF WithAbortedWait

(* A queue without effective handlers is all that is asked of it.          *)
LEMMA NoneIsOne == \A q : NoneEffective(q) => OneEffective(q)
BY DEF NoneEffective, OneEffective

(* The one read of the command whose timer runs. *)
LEMMA ReadUntimed ==
    ASSUME TypeOK, NEW q \in Seq(Handler), NoneEffective(q), initiate_read(q), reads = 0,
           io = "idle", timer' = cmd, UNCHANGED <<client, io>>, Unanswered', writes' = <<>>,
           cmd \in Command
    PROVE  Untimed'
<1>1. cmd' = cmd /\ timer' # None
  BY DEF client, Command, None
<1>2. CASE ReadInto(q) /\ reads' = reads
  <2> DEFINE h == ReadHandler(Readable, FALSE)
  <2>1. h \in Handler /\ h.handler = "read_callback"
    BY ExchangeAssumption, LenProperties DEF TypeOK, Readable, ReadHandler, Handler
  <2>2. ready' = Append(q, h)
    BY <1>2 DEF ReadInto
  <2> HIDE DEF h
  <2>3. /\ OneEffective(ready')
        /\ \A k \in 1..Len(ready') : Effective(ready'[k]) => ready'[k].handler = "read_callback"
    BY <2>1, <2>2, AppendEffective DEF NoneEffective
  <2> QED BY <1>1, <1>2, <2>3 DEF Untimed, Serves, Unanswered
<1>3. CASE reads' = reads + 1 /\ ready' = q
  BY <1>1, <1>3, NoneIsOne DEF Untimed, NoneEffective, Unanswered
<1> QED BY <1>2, <1>3 DEF initiate_read

(* The handlers, before any timer has expired. *)
LEMMA HandlersUntimed ==
    ASSUME TypeInv, OneListener, Untimed, expired = {},
           write_callback \/ read_callback \/ wait_callback
    PROVE  Untimed' /\ expired' = {}
<1> DEFINE h == Head(ready)
           q == Tail(ready)
<1>1. /\ TypeOK /\ ready # <<>> /\ ready \in Seq(Handler)
      /\ UNCHANGED <<client, writes, expired, faulted>> /\ cmd' = cmd /\ pc' = pc
  BY DEF write_callback, read_callback, wait_callback, Dispatch, TypeInv, TypeOK, client
<1>2. /\ h \in Handler /\ q \in Seq(Handler) /\ OneEffective(q)
      /\ Effective(h) => NoneEffective(q)
      /\ 1 \in 1..Len(ready) /\ h = ready[1]
      /\ \A k \in 1..Len(q) : k + 1 \in 1..Len(ready) /\ q[k] = ready[k + 1]
  BY <1>1, TailEffective DEF Untimed
<1>3. Effective(h) => Serves(h) /\ Unanswered /\ writes = <<>> /\ reads = 0 /\ cmd \in Command /\ Live = {cmd}
  BY <1>1, <1>2 DEF Untimed, Unanswered, TypeOK, Live
<1>4. WithAbortedWait(q) \in Seq(Handler) /\ (NoneEffective(q) => NoneEffective(WithAbortedWait(q)))
  BY <1>1, <1>2, AbortedWaitEffective
<1> HIDE DEF h, q
(* A handler that does nothing leaves the rest of the queue as it was. *)
<1>5. ASSUME ready' = q, UNCHANGED <<protocol, reads, timer, io>>
      PROVE  Untimed'
  <2>1. \A k \in 1..Len(q) : Effective(q[k]) => Serves(q[k]) /\ Unanswered /\ writes = <<>> /\ reads = 0
    BY <1>2 DEF Untimed
  <2>2. (OneEffective(ready) /\ \A k \in 1..Len(ready) : Effective(ready[k]) =>
            Serves(ready[k]) /\ Unanswered /\ writes = <<>> /\ reads = 0)'
    BY <1>1, <1>2, <1>5, <2>1 DEF Serves, Unanswered, protocol, client
  <2> QED BY <1>1, <1>5, <2>2 DEF Untimed, Unanswered, protocol, client
(* The answer ends the command: nothing of it is left. *)
<1>6. ASSUME timer' = None, ready' = WithAbortedWait(q), Effective(h), UNCHANGED <<reads, io>>
      PROVE  Untimed'
  <2>1. NoneEffective(ready') /\ timer' = None /\ writes' = <<>> /\ reads' = 0 /\ pc' = "waiting"
    BY <1>1, <1>2, <1>3, <1>4, <1>6 DEF Unanswered
  <2> QED BY <1>6, <2>1, NoneIsOne DEF Untimed, NoneEffective
<1>7. CASE write_callback
  <2>1. h.handler = "write_callback" /\ Effective(h) /\ io' = io
    BY <1>7 DEF write_callback, Dispatch, Effective, h
  <2>2. h.this = cmd /\ timer = None /\ h.this \in Live
    BY <1>3, <2>1 DEF Serves
  <2>3. CASE h.error
    <3>1. PICK s \in Storage(h.this) : SetAnswer(s, Error("IO_ERROR"))
      BY <1>7, <2>3 DEF write_callback, h
    <3>2. s \in {cmd}
      BY <2>2, <3>1 DEF Storage
    <3> QED BY <1>1, <1>6, <1>7, <2>1, <2>3, <3>1, <3>2 DEF write_callback, SetAnswer, h, q
  <2>4. CASE ~h.error
    <3>1. initiate_read(q) /\ timer' = cmd /\ UNCHANGED answer
      BY <1>7, <2>2, <2>4 DEF write_callback, SetTimeout, WithAbortedWait, h, q
    <3>2. Unanswered' /\ writes' = <<>> /\ io = "idle"
      BY <1>1, <1>3, <2>1, <3>1 DEF Unanswered, Untimed
    <3> QED BY <1>1, <1>2, <1>3, <2>1, <3>1, <3>2, ReadUntimed
  <2> QED BY <1>1, <2>3, <2>4
<1>8. CASE read_callback
  <2> DEFINE chunk == SubSeq(read_buf, 1, h.n)
             fed   == [c \in Command |-> IF c \in slots THEN Unbytestaff(filter[c], chunk)
                                                        ELSE filter[c]]
             found == {c \in slots : Complete(fed[c])}
  <2>1. io' = io /\ h.handler = "read_callback"
    BY <1>8 DEF read_callback, Dispatch, h
  <2>2. CASE h.error
    BY <1>1, <1>5, <1>8, <2>1, <2>2 DEF read_callback, h, q
  <2>3. CASE ~h.error
    <3>1. Effective(h) /\ timer = cmd
      BY <1>3, <2>1, <2>3 DEF Effective, Serves
    <3>2. \/ found = {} /\ Reread(found, q) /\ UNCHANGED <<slots, answer, timer>>
          \/ \E c \in found : SetAnswer(c, Verdict(fed[c])) /\ Reread(found, WithAbortedWait(q))
      BY <1>8, <2>3 DEF read_callback, h, q
    <3>3. found \subseteq {cmd}
      BY <1>3, <3>1 DEF OneListener
    <3> HIDE DEF found, fed, chunk
    <3>4. CASE found = {} /\ Reread(found, q) /\ UNCHANGED <<slots, answer, timer>>
      <4>1. initiate_read(q) /\ timer' = cmd /\ Unanswered' /\ writes' = <<>> /\ io = "idle"
        BY <1>1, <1>3, <3>1, <3>4 DEF Reread, Unanswered, Untimed
      <4> QED BY <1>1, <1>2, <1>3, <2>1, <3>1, <4>1, ReadUntimed
    <3>5. CASE \E c \in found : SetAnswer(c, Verdict(fed[c])) /\ Reread(found, WithAbortedWait(q))
      <4>1. PICK c \in {cmd} : /\ c \in found /\ SetAnswer(c, Verdict(fed[c]))
                               /\ Reread(found, WithAbortedWait(q))
        BY <3>3, <3>5
      <4>2. ready' = WithAbortedWait(q) /\ UNCHANGED reads
        BY <4>1 DEF Reread
      <4>3. timer' = None
        BY <4>1 DEF SetAnswer
      <4> QED BY <1>1, <1>6, <2>1, <3>1, <4>2, <4>3
    <3> QED BY <1>1, <3>2, <3>4, <3>5
  <2> QED BY <1>1, <2>2, <2>3
<1>9. CASE wait_callback
  <2>1. h.handler = "wait_callback"
    BY <1>9 DEF wait_callback, Dispatch, h
  <2>2. h.error
    BY <1>3, <2>1 DEF Effective, Serves
  <2> QED BY <1>1, <1>5, <1>9, <2>2 DEF wait_callback, Cancelled, protocol, h, q
<1> QED BY <1>1, <1>7, <1>8, <1>9

(* The client, before any timer has expired. *)
LEMMA ClientUntimed ==
    ASSUME TypeInv, Untimed, expired = {}, Client,
           \A d \in Command : d > cmd => answer[d] = Unset
    PROVE  Untimed' /\ expired' = {}
<1>1. TypeOK /\ UNCHANGED <<answer, reads, timer, ready, io, history>>
  BY DEF Client, Construct, Send, SendThen, SendFails, GetAnswer, Destroy, Close, Join,
         TypeInv, protocol, asio
<1>2. expired' = {}
  BY <1>1 DEF history
<1> DEFINE Steady == /\ ~Unanswered /\ UNCHANGED writes
                     /\ pc' = "listening" => answer[cmd'] = Unset
<1>3. ASSUME Steady PROVE Untimed'
  <2>1. NoneEffective(ready) /\ writes = <<>> /\ reads = 0 /\ timer = None
    BY <1>1, <1>3 DEF Untimed, NoneEffective, TypeOK
  <2> QED BY <1>1, <1>3, <2>1, NoneIsOne DEF Untimed, NoneEffective
<1>4. CASE Construct
  <2>1. /\ pc = "idle" /\ cmd \in Nat /\ cmd' = cmd + 1 /\ cmd + 1 \in Command
        /\ answer' = answer /\ writes' = writes
    BY <1>1, <1>4, ExchangeAssumption DEF Construct, asio, TypeOK, Command, None
  <2>2. answer[cmd'] = Unset
    BY <2>1
  <2> QED BY <1>2, <1>3, <2>1, <2>2 DEF Unanswered
<1>5. CASE Send
  <2>1. NoneEffective(ready) /\ writes = <<>> /\ reads = 0 /\ timer = None /\ answer[cmd] = Unset
    BY <1>1, <1>5 DEF Send, SendThen, Untimed, Unanswered, NoneEffective, TypeOK
  <2>2. writes' = <<cmd>> /\ pc' = "waiting" /\ cmd' = cmd
    BY <1>1, <1>5, <2>1 DEF Send, SendThen, TypeOK
  <2>3. /\ io' = "idle" /\ ready' = ready /\ timer' = None /\ reads' = 0 /\ Unanswered'
        /\ NoneEffective(ready')
    BY <1>1, <2>1, <2>2 DEF Untimed, Unanswered
  <2> QED BY <1>2, <2>2, <2>3, NoneIsOne DEF Untimed, NoneEffective
<1>6. CASE SendFails \/ GetAnswer \/ Destroy \/ Close \/ Join
  <2>1. ~Unanswered /\ writes' = writes /\ pc' # "listening"
    BY <1>6 DEF SendFails, GetAnswer, Destroy, Close, Join, Unanswered, asio
  <2> QED BY <1>2, <1>3, <2>1
<1> QED BY <1>2, <1>4, <1>5, <1>6 DEF Client

(* Port, device and timer, before any timer has expired. *)
LEMMA EnvironmentUntimed ==
    ASSUME TypeInv, Untimed, expired = {}, Environment
    PROVE  \/ Untimed' /\ expired' = {}
           \/ JustTimed' /\ expired' = {cmd'}
<1>1. TypeOK /\ ready \in Seq(Handler) /\ UNCHANGED <<cmd, pc, answer, io>>
  BY DEF Environment, WriteDone, WriteFails, ReadSome, ReadFails, TimerExpires, Respond,
         TypeInv, TypeOK, client, protocol, asio
<1>2. ASSUME NEW err \in BOOLEAN, writes # <<>>, writes' = Tail(writes),
             ready' = Append(ready, WriteHandler(Head(writes), err)),
             UNCHANGED <<reads, timer>>, faulted \subseteq faulted', err => cmd \in faulted'
      PROVE  Untimed'
  <2> DEFINE h == WriteHandler(cmd, err)
  <2>1. /\ writes = <<cmd>> /\ timer = None /\ reads = 0 /\ Unanswered
        /\ NoneEffective(ready) /\ cmd \in Command
    BY <1>1, <1>2 DEF Untimed, NoneEffective, Unanswered, TypeOK
  <2>2. writes' = <<>> /\ ready' = Append(ready, h) /\ h \in Handler
    BY <1>2, <2>1 DEF WriteHandler, Handler
  <2>3. h.handler = "write_callback" /\ h.this = cmd /\ h.error = err
    BY DEF WriteHandler
  <2> HIDE DEF h
  <2>4. /\ OneEffective(ready')
        /\ \A k \in 1..Len(ready') : Effective(ready'[k]) => ready'[k] = h
    BY <1>1, <2>1, <2>2, AppendEffective DEF NoneEffective
  <2> QED BY <1>1, <1>2, <2>1, <2>2, <2>3, <2>4 DEF Untimed, Serves, Unanswered
<1>3. CASE WriteDone
  BY <1>2, <1>3 DEF WriteDone, protocol, history
<1>4. CASE WriteFails
  <2>1. Head(writes) = cmd
    BY <1>4 DEF WriteFails, Untimed
  <2> QED BY <1>2, <1>4, <2>1 DEF WriteFails, protocol
<1>5. ASSUME reads # 0, UNCHANGED <<writes, timer>>
      PROVE  timer = cmd /\ Unanswered /\ Unanswered' /\ writes' = <<>> /\ timer' = cmd'
             /\ NoneEffective(ready) /\ reads - 1 = 0 /\ timer # None
  BY <1>1, <1>5 DEF Untimed, NoneEffective, Unanswered, TypeOK, Command, None
<1>6. CASE ReadSome
  <2> DEFINE h == ReadHandler(Readable, FALSE)
  <2>1. h \in Handler /\ h.handler = "read_callback"
    BY <1>1, ExchangeAssumption, LenProperties DEF TypeOK, Readable, ReadHandler, Handler
  <2>2. ready' = Append(ready, h) /\ reads # 0 /\ reads' = reads - 1 /\ UNCHANGED <<writes, timer>>
        /\ UNCHANGED history
    BY <1>1, <1>6 DEF ReadSome, ReadInto, TypeOK
  <2> HIDE DEF h
  <2>3. /\ OneEffective(ready')
        /\ \A k \in 1..Len(ready') : Effective(ready'[k]) => ready'[k].handler = "read_callback"
    BY <1>1, <1>5, <2>1, <2>2, AppendEffective DEF NoneEffective
  <2> QED BY <1>1, <1>5, <2>2, <2>3 DEF Untimed, Serves, Unanswered, history
<1>7. CASE ReadFails
  <2> DEFINE h == ReadHandler(0, TRUE)
  <2>1. h \in Handler /\ ~Effective(h)
    BY DEF ReadHandler, Handler, Effective
  <2>2. ready' = Append(ready, h) /\ reads # 0 /\ reads' = reads - 1 /\ UNCHANGED <<writes, timer>>
        /\ UNCHANGED history
    BY <1>1, <1>7 DEF ReadFails, TypeOK
  <2> HIDE DEF h
  <2>3. NoneEffective(ready')
    BY <1>1, <1>5, <2>1, <2>2, AppendEffective
  <2> QED BY <1>1, <1>5, <2>2, <2>3, NoneIsOne DEF Untimed, NoneEffective, history
<1>8. CASE TimerExpires
  <2>1. /\ timer = cmd /\ pc = "waiting" /\ writes = <<>> /\ expired' = {cmd}
        /\ timer' = None /\ UNCHANGED writes /\ cmd \in Command
    BY <1>1, <1>8 DEF TimerExpires, Untimed, Unanswered, TypeOK
  <2>2. NoWriteHandler(ready)
    BY <1>8 DEF TimerExpires, Untimed, NoWriteHandler, Effective, Serves
  <2>3. WaitHandler(timer, FALSE) \in Handler /\ WaitHandler(timer, FALSE).handler # "write_callback"
    BY <2>1 DEF WaitHandler, Handler
  <2>4. NoWriteHandler(ready')
    BY <1>1, <1>8, <2>2, <2>3, AppendEffective DEF TimerExpires
  <2> QED BY <1>1, <2>1, <2>4 DEF JustTimed, NoWriteHandler
<1>9. CASE Respond
  BY <1>1, <1>9 DEF Respond, Untimed, Serves, Unanswered, protocol, asio, history
<1> QED BY <1>3, <1>4, <1>6, <1>7, <1>8, <1>9 DEF Environment, WriteDone, WriteFails, history

(* After the timer of the last command has expired, until the next one.    *)
LEMMA JustTimedStep ==
    ASSUME TypeInv, OneListener, JustTimed, expired = {cmd}, Next
    PROVE  \/ JustTimed' /\ expired' = {cmd'}
           \/ TimedBefore'
<1>1. TypeOK /\ ready \in Seq(Handler)
  BY DEF TypeInv, TypeOK
<1>2. CASE Construct
  <2>1. cmd \in Nat /\ cmd' = cmd + 1 /\ cmd \in expired'
    BY <1>1, <1>2 DEF Construct, history, TypeOK, Command, None
  <2> QED BY <2>1 DEF TimedBefore
<1>3. CASE Send \/ SendFails
  BY <1>3 DEF Send, SendThen, SendFails, JustTimed
<1>4. CASE GetAnswer \/ Destroy \/ Close \/ Join
  BY <1>4 DEF GetAnswer, Destroy, Close, Join, JustTimed, NoWriteHandler, asio, history
<1>5. ASSUME NoWriteHandler(ready'), UNCHANGED <<cmd, pc, expired>>, timer' = None, writes' = <<>>
      PROVE  JustTimed' /\ expired' = {cmd'}
  BY <1>5 DEF JustTimed, NoWriteHandler
<1>6. ASSUME NEW q \in Seq(Handler), NoWriteHandler(q), initiate_read(q)
      PROVE  NoWriteHandler(ready')
  <2>1. ReadHandler(Readable, FALSE) \in Handler
        /\ ReadHandler(Readable, FALSE).handler # "write_callback"
    BY <1>1, ExchangeAssumption, LenProperties DEF TypeOK, Readable, ReadHandler, Handler
  <2> QED BY <1>6, <2>1, AppendEffective DEF initiate_read, ReadInto
<1>7. CASE write_callback
  BY <1>1, <1>7, TailEffective DEF write_callback, Dispatch, JustTimed
<1>8. CASE read_callback \/ wait_callback
  <2> DEFINE q == Tail(ready)
  <2>1. ready # <<>> /\ UNCHANGED <<cmd, pc, expired, writes>>
    BY <1>8 DEF read_callback, wait_callback, Dispatch, client
  <2>2. q \in Seq(Handler) /\ NoWriteHandler(q) /\ WithAbortedWait(q) = q /\ timer = None /\ writes = <<>>
    BY <1>1, <2>1, TailEffective DEF JustTimed, WithAbortedWait
  <2>3. timer' = None /\ (ready' = q \/ initiate_read(q))
    BY <1>8, <2>2 DEF read_callback, wait_callback, Reread, SetAnswer
  <2> QED BY <1>5, <1>6, <2>1, <2>2, <2>3
<1>9. CASE CancelSerial
  <2>1. AbortedWrites = <<>> /\ AbortedWrites \in Seq(Handler)
    BY DEF JustTimed, AbortedWrites
  <2>2. AbortedReads \in Seq(Handler) /\ NoWriteHandler(AbortedReads)
    <3>1. \A i \in 1..reads : AbortedReads[i] = ReadHandler(0, TRUE)
      BY DEF AbortedReads
    <3>2. AbortedReads \in Seq(Handler) /\ Len(AbortedReads) = reads
      <4>1. ReadHandler(0, TRUE) \in Handler /\ reads \in Nat
        BY <1>1 DEF ReadHandler, Handler, TypeOK
      <4>2. AbortedReads \in [1..reads -> Handler]
        BY <4>1 DEF AbortedReads
      <4> QED BY <4>1, <4>2, LenProperties, FunctionIsSeq DEF AbortedReads
    <3> QED BY <3>1, <3>2 DEF NoWriteHandler, ReadHandler
  <2>3. ready \o AbortedReads \in Seq(Handler) /\ ready' = ready \o AbortedReads
    BY <1>1, <1>9, <2>1, <2>2, ConcatProperties DEF CancelSerial
  <2>4. NoWriteHandler(ready')
    BY <1>1, <2>2, <2>3, ConcatProperties, LenProperties DEF NoWriteHandler, JustTimed
  <2> QED BY <1>5, <1>9, <2>4 DEF CancelSerial, JustTimed, client, history, AbortedWrites
<1>10. CASE Environment
  <2>1. UNCHANGED <<cmd, pc, writes, timer, expired>> /\ writes = <<>> /\ timer = None
    BY <1>10 DEF Environment, WriteDone, WriteFails, ReadSome, ReadFails, TimerExpires, Respond,
                 JustTimed, client, asio, history
  <2>2. CASE ReadSome \/ ReadFails
    <3>1. \E n \in Nat, e \in BOOLEAN : ready' = Append(ready, ReadHandler(n, e))
      BY <1>1, <2>2, ExchangeAssumption, LenProperties DEF ReadSome, ReadInto, ReadFails, Readable, TypeOK
    <3>2. PICK n \in Nat, e \in BOOLEAN : ready' = Append(ready, ReadHandler(n, e))
      BY <3>1
    <3>3. ReadHandler(n, e) \in Handler /\ ReadHandler(n, e).handler # "write_callback"
      BY DEF ReadHandler, Handler
    <3>4. NoWriteHandler(ready')
      BY <1>1, <3>2, <3>3, AppendEffective DEF JustTimed
    <3> QED BY <1>5, <2>1, <3>4
  <2>3. CASE Respond
    BY <2>3, <2>1 DEF Respond, JustTimed, NoWriteHandler, client, asio, history
  <2>4. CASE WriteDone \/ WriteFails \/ TimerExpires
    BY <2>1, <2>4 DEF WriteDone, WriteFails, TimerExpires
  <2> QED BY <1>10, <2>2, <2>3, <2>4 DEF Environment
<1> QED BY <1>2, <1>3, <1>4, <1>7, <1>8, <1>9, <1>10 DEF Next, Client, IoThread

LEMMA IoErrorStep == TypeInv /\ OneListener /\ IoErrorInv /\ [Next]_vars => IoErrorInv'
<1> SUFFICES ASSUME TypeInv, OneListener, IoErrorInv, [Next]_vars PROVE IoErrorInv'
  OBVIOUS
<1>1. CASE UNCHANGED vars
  BY <1>1 DEF vars, client, protocol, asio, line, history, IoErrorInv, TimedBefore, Untimed,
     JustTimed, IoErrorNeedsTimeout, Serves, Unanswered, NoWriteHandler, OneEffective
<1>2. CASE Next
  <2>1. TypeOK /\ cmd \in Nat /\ expired \subseteq Nat /\ ready \in Seq(Handler)
    BY DEF TypeInv, TypeOK, Command, None
  <2>2. /\ \A d \in Command : d # cmd => answer'[d] = answer[d]
        /\ cmd' \in {cmd, cmd + 1} /\ expired \subseteq expired' /\ faulted \subseteq faulted'
        /\ \A d \in Command :
              answer'[d] = Error("IO_ERROR") /\ answer[d] # Error("IO_ERROR")
                  => write_callback /\ Head(ready).error
    BY <1>2, OnlyItsAnswer, NextOfExchange
  <2>3. TimedBefore \/ (expired = {} /\ Untimed) \/ (expired = {cmd} /\ JustTimed)
    BY DEF IoErrorInv
  <2>4. \A d \in Command : d > cmd => answer[d] = Unset
    BY DEF IoErrorInv
  <2>5. TimedBefore => TimedBefore'
    <3> SUFFICES ASSUME NEW e \in expired, e < cmd PROVE e \in expired' /\ e < cmd'
      BY DEF TimedBefore
    <3> QED BY <2>1, <2>2
  <2>6. ASSUME expired = {}, Untimed
        PROVE  \/ Untimed' /\ expired' = {}
               \/ JustTimed' /\ expired' = {cmd'}
    <3>1. ~CancelSerial
      BY <2>6 DEF Untimed, CancelSerial
    <3> QED BY <1>2, <2>4, <2>6, <3>1, ClientUntimed, EnvironmentUntimed, HandlersUntimed
            DEF Next, IoThread
  <2>7. \A d \in Command : d > cmd' => answer'[d] = Unset
    <3> SUFFICES ASSUME NEW d \in Command, d > cmd' PROVE answer'[d] = Unset
      OBVIOUS
    <3>1. d > cmd /\ d # cmd
      BY <2>1, <2>2 DEF Command
    <3> QED BY <2>2, <2>4, <3>1
  <2>8. IoErrorNeedsTimeout'
    <3> SUFFICES ASSUME NEW c \in Command, answer'[c] = Error("IO_ERROR")
                 PROVE  c \in faulted' \/ \E e \in expired' : e < c
      BY DEF IoErrorNeedsTimeout
    <3>1. CASE answer[c] = Error("IO_ERROR")
      BY <2>2, <3>1 DEF IoErrorInv, IoErrorNeedsTimeout
    <3>2. CASE answer[c] # Error("IO_ERROR")
      <4>1. c = cmd /\ write_callback /\ Head(ready).error
        BY <2>2, <3>2
      <4>2. CASE TimedBefore
        BY <2>2, <4>1, <4>2 DEF TimedBefore
      <4>3. ready # <<>> /\ Head(ready) = ready[1] /\ 1 \in 1..Len(ready)
            /\ Head(ready).handler = "write_callback"
        BY <2>1, <4>1, TailEffective DEF write_callback, Dispatch
      <4>4. CASE Untimed
        BY <2>2, <4>1, <4>3, <4>4 DEF Untimed, Serves, Effective
      <4>5. ~JustTimed
        BY <4>3 DEF JustTimed, NoWriteHandler
      <4> QED BY <2>3, <4>2, <4>4, <4>5
    <3> QED BY <3>1, <3>2
  <2>9. TimedBefore' \/ (expired' = {} /\ Untimed') \/ (expired' = {cmd'} /\ JustTimed')
    BY <1>2, <2>3, <2>5, <2>6, JustTimedStep
  <2> QED BY <2>7, <2>8, <2>9 DEF IoErrorInv
<1> QED BY <1>1, <1>2

(* When send_command reports IO_ERROR, the port refused that command's own *)
(* write or the timer of an earlier command had expired: serial.cancel()   *)
(* in wait_callback never cancels the write of a command before which no   *)
(* timeout occurred.                                                       *)
THEOREM IoErrorIsBlamed == Spec => []IoErrorNeedsTimeout
<1>1. Init => IoErrorInv
  BY DEF Init, Opened, IoErrorInv, Untimed, IoErrorNeedsTimeout, OneEffective, Unset, Error, None
<1>2. BaseInv => TypeInv /\ OneListener
  BY DEF BaseInv
<1>3. IoErrorInv => IoErrorNeedsTimeout
  BY DEF IoErrorInv
<1> QED BY <1>1, <1>2, <1>3, BaseHolds, IoErrorStep, PTL DEF Spec

-----------------------------------------------------------------------------
(* The threaded provider implements CommandService: a command is answered  *)
(* at most once and while it is open, with an error or with a reply the    *)
(* device made to a command that was sent before, and returns that.        *)
THEOREM ServiceIsGiven == Spec => ImplementsCommandService
<1>1. Init => Service!Init
  BY ServiceInit DEF Init
<1>2. BaseInv /\ [Next]_vars => [Service!Next]_(Service!vars)
  BY ServiceStep, StepOfExchange
<1> QED BY <1>1, <1>2, BaseHolds, PTL DEF Spec, ImplementsCommandService, Service!Spec

(* A command is never given the reply to another one unless a command up   *)
(* to the one that was replied to had timed out: as long as nothing times  *)
(* out, the write, the reads and the reply of a command are over when it   *)
(* returns.                                                                *)
THEOREM RepliesInTurn == Spec => []MisattributionNeedsTimeout
<1>1. Init => OrderInv
  BY OrderInit DEF Init
<1>2. BaseInv /\ OrderInv /\ [Next]_vars => OrderInv'
  BY OrderStep, StepOfExchange
<1>3. OrderInv => MisattributionNeedsTimeout
  BY DEF OrderInv
<1> QED BY <1>1, <1>2, <1>3, BaseHolds, PTL DEF Spec

-----------------------------------------------------------------------------
(* The reads in flight.  Reading goes on by turns: each write, each         *)
(* handler of a write or of bytes read and each pending read is followed   *)
(* by no more than one read.  A turn ends with an answer, except that a    *)
(* timeout leaves it running: so there are no more turns than commands     *)
(* whose promise is not yet set, and timeouts.                             *)
Tokens(q) == {k \in 1..Len(q) : Token(q[k])}

Turns == reads + Len(writes) + Cardinality(Tokens(ready))

NoAnswers == {c \in Command : answer[c] = Error("NO_ANSWER")}

Owed == IF cmd # None /\ answer[cmd] = Unset THEN 1 ELSE 0

(* The current command's turn that has not begun, or never will.           *)
Unsent ==
    IF pc = "listening" \/ (cmd # None /\ answer[cmd] = Unset /\ pc \notin {"running", "waiting"})
    THEN 1 ELSE 0

TurnsInv == Turns + Unsent <= Cardinality(NoAnswers) + Owed

(* Numbers moved by n are as many as before. *)
LEMMA ShiftedCount ==
    ASSUME NEW A \in SUBSET Nat, IsFiniteSet(A), NEW n \in Nat,
           NEW B, B = {n + k : k \in A}
    PROVE  IsFiniteSet(B) /\ Cardinality(B) = Cardinality(A)
<1> DEFINE f == [k \in A |-> n + k]
<1>1. f \in [A -> B]
  OBVIOUS
<1>2. \A j, k \in A : f[j] = f[k] => j = k
  OBVIOUS
<1>3. \A y \in B : \E k \in A : f[k] = y
  OBVIOUS
<1>4. f \in Bijection(A, B)
  BY <1>1, <1>2, <1>3 DEF Bijection, Injection, Surjection, IsInjective
<1>5. ExistsBijection(A, B)
  BY <1>4 DEF ExistsBijection
<1> QED BY <1>5, FS_Bijection

(* The handlers of two queues in a row. *)
LEMMA TokensConcat ==
    ASSUME NEW p \in Seq(Handler), NEW q \in Seq(Handler)
    PROVE  /\ Cardinality(Tokens(p \o q)) = Cardinality(Tokens(p)) + Cardinality(Tokens(q))
           /\ Cardinality(Tokens(p)) \in Nat /\ Cardinality(Tokens(q)) \in Nat
<1> DEFINE n == Len(p)
           B == {n + k : k \in Tokens(q)}
<1>1. n \in Nat /\ Len(q) \in Nat
  BY LenProperties
<1>2. \A s \in {p, q} : IsFiniteSet(Tokens(s)) /\ Cardinality(Tokens(s)) \in Nat /\ Tokens(s) \subseteq Nat
  <2> SUFFICES ASSUME NEW s \in {p, q}
               PROVE  IsFiniteSet(Tokens(s)) /\ Cardinality(Tokens(s)) \in Nat /\ Tokens(s) \subseteq Nat
    OBVIOUS
  <2>1. IsFiniteSet(1..Len(s)) /\ 1..Len(s) \subseteq Nat
    <3>1. Len(s) \in Nat
      BY <1>1
    <3>2. IsFiniteSet(1..Len(s))
      BY <3>1, FS_Interval
    <3> QED BY <3>1, <3>2
  <2>2. Tokens(s) \in SUBSET (1..Len(s))
    BY DEF Tokens
  <2> QED BY <2>1, <2>2, FS_Subset, FS_CardinalityType
<1>3. IsFiniteSet(B) /\ Cardinality(B) = Cardinality(Tokens(q))
  <2>1. PICK A : A = Tokens(q)
    OBVIOUS
  <2>2. IsFiniteSet(A) /\ A \subseteq Nat /\ n \in Nat
    BY <1>1, <1>2, <2>1
  <2> HIDE DEF n
  <2>3. LET C == {n + k : k \in A} IN IsFiniteSet(C) /\ Cardinality(C) = Cardinality(A)
    BY <2>2, ShiftedCount
  <2> QED BY <2>1, <2>3
<1>4. PICK r : r = p \o q
  OBVIOUS
<1>5. Len(r) = n + Len(q) /\ \A i \in 1..n + Len(q) : r[i] = IF i <= n THEN p[i] ELSE q[i - n]
  BY <1>4, ConcatProperties
<1>6. \A i \in 1..n : i \in 1..n + Len(q) /\ r[i] = p[i]
  BY <1>1, <1>5
<1>7. \A k \in 1..Len(q) : n + k \in 1..n + Len(q) /\ r[n + k] = q[k] /\ n + k > n
  <2> SUFFICES ASSUME NEW k \in 1..Len(q)
               PROVE  n + k \in 1..n + Len(q) /\ r[n + k] = q[k] /\ n + k > n
    OBVIOUS
  <2>1. n + k \in 1..n + Len(q) /\ ~(n + k <= n) /\ n + k - n = k
    BY <1>1
  <2> QED BY <1>1, <1>5, <2>1
<1>8. \A i \in 1..n + Len(q) : i \in 1..n \/ \E k \in 1..Len(q) : i = n + k
  <2> SUFFICES ASSUME NEW i \in 1..n + Len(q), i \notin 1..n PROVE \E k \in 1..Len(q) : i = n + k
    OBVIOUS
  <2>1. i - n \in 1..Len(q) /\ i = n + (i - n)
    BY <1>1
  <2> QED BY <2>1
<1>9. Tokens(r) = Tokens(p) \cup B
  <2>1. \A i \in Tokens(r) : i \in Tokens(p) \/ i \in B
    BY <1>5, <1>6, <1>7, <1>8 DEF Tokens
  <2>2. \A i \in Tokens(p) : i \in Tokens(r)
    BY <1>5, <1>6 DEF Tokens
  <2>3. \A i \in B : i \in Tokens(r)
    BY <1>5, <1>7 DEF Tokens
  <2> QED BY <2>1, <2>2, <2>3
<1>10. Tokens(p) \cap B = {}
  <2>1. \A i \in Tokens(p) : i <= n
    BY <1>1 DEF Tokens
  <2>2. \A i \in B : ~(i <= n)
    BY <1>1, <1>7 DEF Tokens
  <2> QED BY <2>1, <2>2
<1> HIDE DEF B, n
<1>11. Cardinality(Tokens(r)) = Cardinality(Tokens(p)) + Cardinality(B) - Cardinality(Tokens(p) \cap B)
  BY <1>2, <1>3, <1>9, FS_Union
<1>12. Cardinality(Tokens(p) \cap B) = 0
  BY <1>10, FS_EmptySet
<1> QED BY <1>2, <1>3, <1>4, <1>11, <1>12

(* One handler alone, and none. *)
LEMMA TokensOfOne ==
    ASSUME NEW h \in Handler
    PROVE  /\ <<h>> \in Seq(Handler)
           /\ Cardinality(Tokens(<<h>>)) = IF Token(h) THEN 1 ELSE 0
<1>1. <<h>> \in Seq(Handler)
  OBVIOUS
<1>2. Tokens(<<h>>) = IF Token(h) THEN {1} ELSE {}
  <2>1. Len(<<h>>) = 1 /\ <<h>>[1] = h
    OBVIOUS
  <2>2. 1..1 = {1}
    OBVIOUS
  <2> QED BY <2>1, <2>2 DEF Tokens
<1> QED BY <1>1, <1>2, FS_EmptySet, FS_Singleton

LEMMA TokensAppend ==
    ASSUME NEW q \in Seq(Handler), NEW h \in Handler
    PROVE  /\ Append(q, h) \in Seq(Handler)
           /\ Cardinality(Tokens(Append(q, h))) = Cardinality(Tokens(q)) + (IF Token(h) THEN 1 ELSE 0)
           /\ Cardinality(Tokens(q)) \in Nat
<1>1. Append(q, h) = q \o <<h>>
  BY AppendIsConcat
<1>2. <<h>> \in Seq(Handler) /\ Cardinality(Tokens(<<h>>)) = IF Token(h) THEN 1 ELSE 0
  BY TokensOfOne
<1>3. /\ Cardinality(Tokens(q \o <<h>>)) = Cardinality(Tokens(q)) + Cardinality(Tokens(<<h>>))
      /\ Cardinality(Tokens(q)) \in Nat
  BY <1>2, TokensConcat
<1>4. Append(q, h) \in Seq(Handler)
  BY AppendProperties
<1> QED BY <1>1, <1>2, <1>3, <1>4

LEMMA TokensTail ==
    ASSUME NEW q \in Seq(Handler), q # <<>>
    PROVE  /\ Head(q) \in Handler /\ Tail(q) \in Seq(Handler)
           /\ Cardinality(Tokens(q)) = Cardinality(Tokens(Tail(q))) + (IF Token(Head(q)) THEN 1 ELSE 0)
           /\ Cardinality(Tokens(Tail(q))) \in Nat /\ Cardinality(Tokens(q)) \in Nat
<1>1. PICK h, t, n : h = Head(q) /\ t = Tail(q) /\ n = Len(q)
  OBVIOUS
<1>2. h \in Handler /\ t \in Seq(Handler) /\ Len(t) = n - 1 /\ h = q[1]
      /\ \A i \in 1..n - 1 : t[i] = q[i + 1]
  BY <1>1, HeadTailProperties
<1>3. n \in Nat /\ n # 0
  BY <1>1, LenProperties, EmptySeq
<1>4. <<h>> \in Seq(Handler) /\ Len(<<h>>) = 1 /\ <<h>>[1] = h
  BY <1>2
<1>5. PICK r : r = <<h>> \o t
  OBVIOUS
<1>6. r \in Seq(Handler) /\ Len(r) = n
      /\ \A i \in 1..n : r[i] = IF i <= 1 THEN <<h>>[i] ELSE t[i - 1]
  <2>1. 1 + (n - 1) = n
    BY <1>3
  <2>2. /\ r \in Seq(Handler) /\ Len(r) = Len(<<h>>) + Len(t)
        /\ \A i \in 1..Len(<<h>>) + Len(t) : r[i] = IF i <= Len(<<h>>) THEN <<h>>[i] ELSE t[i - Len(<<h>>)]
    BY <1>2, <1>4, <1>5, ConcatProperties
  <2> QED BY <1>2, <1>4, <2>1, <2>2
<1>7. \A i \in 1..n : r[i] = q[i]
  <2> SUFFICES ASSUME NEW i \in 1..n PROVE r[i] = q[i]
    OBVIOUS
  <2>1. CASE i = 1
    BY <1>2, <1>3, <1>4, <1>6, <2>1
  <2>2. CASE i # 1
    <3>1. i - 1 \in 1..n - 1 /\ (i - 1) + 1 = i /\ ~(i <= 1)
      BY <1>3, <2>2
    <3>2. t[i - 1] = q[(i - 1) + 1]
      BY <1>2, <3>1
    <3> QED BY <1>6, <3>1, <3>2
  <2> QED BY <2>1, <2>2
<1>8. Tokens(r) = Tokens(q)
  BY <1>1, <1>6, <1>7 DEF Tokens
<1>9. Cardinality(Tokens(r)) = Cardinality(Tokens(<<h>>)) + Cardinality(Tokens(t))
      /\ Cardinality(Tokens(t)) \in Nat /\ Cardinality(Tokens(<<h>>)) \in Nat
  BY <1>2, <1>4, <1>5, TokensConcat
<1>10. Cardinality(Tokens(<<h>>)) = IF Token(h) THEN 1 ELSE 0
  BY <1>2, TokensOfOne
<1> QED BY <1>1, <1>2, <1>8, <1>9, <1>10

LEMMA CountsAreNumbers ==
    ASSUME TypeOK
    PROVE  /\ reads \in Nat /\ Len(writes) \in Nat /\ Cardinality(Tokens(ready)) \in Nat
           /\ Owed \in 0..1 /\ Unsent \in 0..1
           /\ IsFiniteSet(NoAnswers) /\ Cardinality(NoAnswers) \in Nat
<1>1. Cardinality(Tokens(ready)) \in Nat
  BY TokensConcat DEF TypeOK
<1>2. IsFiniteSet(Command)
  BY ExchangeAssumption, FS_Interval DEF Command
<1>3. NoAnswers \in SUBSET Command
  BY DEF NoAnswers
<1>4. IsFiniteSet(NoAnswers)
  BY <1>2, <1>3, FS_Subset
<1> QED BY <1>1, <1>4, FS_CardinalityType, LenProperties DEF TypeOK, Owed, Unsent

(* Reading on takes one turn. *)
LEMMA ReadTurn ==
    ASSUME TypeOK, NEW q \in Seq(Handler)
    PROVE  /\ ReadInto(q) => Cardinality(Tokens(ready')) = Cardinality(Tokens(q)) + 1
           /\ initiate_read(q) =>
                reads' + Cardinality(Tokens(ready')) = reads + Cardinality(Tokens(q)) + 1
<1>1. Cardinality(Tokens(q)) \in Nat /\ reads \in Nat
  BY TokensConcat DEF TypeOK
<1>2. ASSUME ReadInto(q) PROVE Cardinality(Tokens(ready')) = Cardinality(Tokens(q)) + 1
  <2>1. Readable \in Nat
    BY ExchangeAssumption, LenProperties DEF TypeOK, Readable
  <2>2. PICK h : h = ReadHandler(Readable, FALSE)
    OBVIOUS
  <2>3. h \in Handler /\ Token(h) /\ ready' = Append(q, h)
    BY <1>2, <2>1, <2>2 DEF ReadHandler, Handler, Token, ReadInto
  <2> QED BY <2>3, TokensAppend
<1>3. CASE initiate_read(q) /\ ready' = q /\ reads' = reads + 1
  BY <1>1, <1>2, <1>3
<1>4. CASE initiate_read(q) /\ ReadInto(q) /\ reads' = reads
  BY <1>1, <1>2, <1>4
<1> QED BY <1>2, <1>3, <1>4 DEF initiate_read

LEMMA AbortedWaitTurn ==
    ASSUME TypeOK, NEW q \in Seq(Handler)
    PROVE  /\ WithAbortedWait(q) \in Seq(Handler)
           /\ Cardinality(Tokens(WithAbortedWait(q))) = Cardinality(Tokens(q))
           /\ Cardinality(Tokens(q)) \in Nat
<1>1. timer # None => WaitHandler(timer, TRUE) \in Handler /\ ~Token(WaitHandler(timer, TRUE))
  BY DEF WaitHandler, Handler, Token, TypeOK
<1>2. CASE timer = None
  BY <1>2, TokensConcat DEF WithAbortedWait
<1>3. CASE timer # None
  <2>1. PICK h \in Handler : h = WaitHandler(timer, TRUE) /\ ~Token(h)
    BY <1>1, <1>3
  <2>2. /\ Append(q, h) \in Seq(Handler) /\ Cardinality(Tokens(q)) \in Nat
        /\ Cardinality(Tokens(Append(q, h))) = Cardinality(Tokens(q))
    <3>1. (IF Token(h) THEN 1 ELSE 0) = 0
      BY <2>1
    <3>2. /\ Append(q, h) \in Seq(Handler) /\ Cardinality(Tokens(q)) \in Nat
          /\ Cardinality(Tokens(Append(q, h))) = Cardinality(Tokens(q)) + (IF Token(h) THEN 1 ELSE 0)
      BY TokensAppend
    <3> QED BY <3>1, <3>2
  <2> QED BY <1>3, <2>1, <2>2 DEF WithAbortedWait
<1> QED BY <1>2, <1>3

(* An answer ends a turn of the command it is given to, a timeout makes up *)
(* for the turn it leaves.                                                 *)
LEMMA AnswerPays ==
    ASSUME TypeOK, TypeOK', UNCHANGED client, NEW s \in Live \cup {None}, NEW a \in Answer, SetAnswer(s, a)
    PROVE  /\ Cardinality(NoAnswers) + Owed + Unsent'
                <= Cardinality(NoAnswers)' + Owed' + Unsent + 1
           /\ a = Error("NO_ANSWER") =>
                Cardinality(NoAnswers) + Owed + Unsent' <= Cardinality(NoAnswers)' + Owed' + Unsent
<1>1. UNCHANGED <<cmd, pc>> /\ answer' = Satisfied(s, a)
  BY DEF client, SetAnswer
<1>2. CASE answer' = answer
  <2>1. NoAnswers' = NoAnswers /\ Owed' = Owed /\ Unsent' = Unsent
    BY <1>1, <1>2 DEF NoAnswers, Owed, Unsent
  <2> QED BY <2>1, CountsAreNumbers
<1>3. CASE answer' # answer
  <2>1. s \in Command /\ answer[s] = Unset
    <3>1. \E c \in Command : answer'[c] # answer[c]
      BY <1>3 DEF TypeOK
    <3> QED BY <1>1, <3>1 DEF Satisfied
  <2>2. s = cmd /\ cmd # None /\ cmd \in Command
    BY <2>1 DEF Live, Command, None
  <2>3. answer'[cmd] = a /\ \A c \in Command : c # cmd => answer'[c] = answer[c]
    BY <1>1, <2>1, <2>2 DEF Satisfied
  <2>4. a # Unset /\ Unset # Error("NO_ANSWER")
    BY AnswerIsSet DEF Unset, Error
  <2>5. /\ Owed = 1 /\ Owed' = 0 /\ Unsent' <= Unsent /\ Unsent \in Nat /\ Unsent' \in Nat
        /\ Cardinality(NoAnswers) \in Nat
    BY <1>1, <2>1, <2>2, <2>3, <2>4, CountsAreNumbers DEF Owed, Unsent
  <2>6. cmd \notin NoAnswers
    BY <2>1, <2>2, <2>4 DEF NoAnswers
  <2>7. CASE a = Error("NO_ANSWER")
    <3>1. NoAnswers' = NoAnswers \cup {cmd}
      BY <2>2, <2>3, <2>7 DEF NoAnswers
    <3>2. Cardinality(NoAnswers)' = Cardinality(NoAnswers) + 1
      BY <2>6, <3>1, CountsAreNumbers, FS_AddElement
    <3> QED BY <2>5, <3>2
  <2>8. CASE a # Error("NO_ANSWER")
    <3>1. NoAnswers' = NoAnswers
      BY <2>3, <2>6, <2>8 DEF NoAnswers
    <3>2. Cardinality(NoAnswers)' = Cardinality(NoAnswers)
      BY <3>1
    <3> QED BY <2>5, <2>8, <3>2
  <2> QED BY <2>7, <2>8
<1> QED BY <1>2, <1>3

LEMMA HandlersTurn ==
    ASSUME BaseInv, write_callback \/ read_callback \/ wait_callback, TurnsInv
    PROVE  TurnsInv'
<1> DEFINE h == Head(ready)
           t == Tail(ready)
           w == WithAbortedWait(Tail(ready))
<1>1. TypeOK /\ TypeOK' /\ TypeInv /\ ready # <<>> /\ UNCHANGED <<client, writes>> /\ slots \subseteq Live
  BY BaseStep DEF BaseInv, TypeInv, OneListener, ExchangeNext, RunOne, write_callback, read_callback,
     wait_callback, Dispatch
<1>2. /\ h \in Handler /\ t \in Seq(Handler)
      /\ Cardinality(Tokens(ready)) = Cardinality(Tokens(t)) + (IF Token(h) THEN 1 ELSE 0)
      /\ Cardinality(Tokens(t)) \in Nat
  BY <1>1, TokensTail DEF TypeOK
<1>3. w \in Seq(Handler) /\ Cardinality(Tokens(w)) = Cardinality(Tokens(t))
  BY <1>1, <1>2, AbortedWaitTurn
<1>4. \A s : s \in Storage(h.this) => s \in Live \cup {None}
  BY DEF Storage
<1> HIDE DEF h, t, w
<1>7. /\ reads \in Nat /\ reads' \in Nat /\ Len(writes) \in Nat /\ Len(writes') = Len(writes)
      /\ Cardinality(Tokens(ready')) \in Nat
  BY <1>1, TokensConcat, LenProperties DEF TypeOK
<1>11. ASSUME Token(h), reads' = reads, Cardinality(Tokens(ready')) = Cardinality(Tokens(t))
       PROVE  Turns' + 1 <= Turns
  <2>1. Cardinality(Tokens(ready)) = Cardinality(Tokens(ready')) + 1
    BY <1>2, <1>11
  <2>2. \A r, n, k \in Nat : r + n + k + 1 <= r + n + (k + 1)
    OBVIOUS
  <2> QED BY <1>7, <1>11, <2>1, <2>2 DEF Turns
<1>12. ASSUME Token(h), reads' + Cardinality(Tokens(ready')) = reads + Cardinality(Tokens(t)) + 1
       PROVE  Turns' <= Turns
  <2>1. Cardinality(Tokens(ready)) = Cardinality(Tokens(t)) + 1
    BY <1>2, <1>12
  <2>2. \A r, q, n, k, l \in Nat : q + k = r + l + 1 => q + n + k <= r + n + (l + 1)
    OBVIOUS
  <2> QED BY <1>2, <1>7, <1>12, <2>1, <2>2 DEF Turns
<1>5. ASSUME UNCHANGED answer, Turns' <= Turns PROVE TurnsInv'
  <2>1. NoAnswers' = NoAnswers /\ Owed' = Owed /\ Unsent' = Unsent
    BY <1>1, <1>5 DEF NoAnswers, Owed, Unsent, client
  <2>2. Cardinality(NoAnswers)' = Cardinality(NoAnswers)
    BY <2>1
  <2>3. Turns \in Nat /\ Turns' \in Nat
    BY <1>1, <1>7, CountsAreNumbers DEF Turns
  <2> QED BY <1>1, <1>5, <2>1, <2>2, <2>3, CountsAreNumbers DEF TurnsInv
<1>6. ASSUME NEW s \in Live \cup {None}, NEW a \in Answer, SetAnswer(s, a),
             Turns' + 1 <= Turns \/ (Turns' <= Turns /\ a = Error("NO_ANSWER"))
      PROVE  TurnsInv'
  <2>1. /\ Cardinality(NoAnswers) + Owed + Unsent'
             <= Cardinality(NoAnswers)' + Owed' + Unsent + 1
        /\ a = Error("NO_ANSWER") =>
             Cardinality(NoAnswers) + Owed + Unsent' <= Cardinality(NoAnswers)' + Owed' + Unsent
    BY <1>1, <1>6, AnswerPays
  <2>2. Turns \in Nat /\ Turns' \in Nat
    BY <1>1, <1>7, CountsAreNumbers DEF Turns
  <2>3. /\ Owed \in Nat /\ Unsent \in Nat /\ Cardinality(NoAnswers) \in Nat
        /\ Owed' \in Nat /\ Unsent' \in Nat /\ Cardinality(NoAnswers)' \in Nat
    <3>1. Command \in SUBSET Command /\ IsFiniteSet(Command) /\ NoAnswers' \in SUBSET Command
      BY ExchangeAssumption, FS_Interval DEF Command, NoAnswers
    <3>2. IsFiniteSet(NoAnswers)'
      BY <3>1, FS_Subset
    <3>3. Cardinality(NoAnswers)' \in Nat
      BY <3>2, FS_CardinalityType
    <3> QED BY <1>1, <3>3, CountsAreNumbers DEF Owed, Unsent
  <2>4. Turns + Unsent <= Cardinality(NoAnswers) + Owed
    BY DEF TurnsInv
  <2>5. Turns' + Unsent' <= Cardinality(NoAnswers)' + Owed'
    <3>1. CASE Turns' + 1 <= Turns
      <4>1. PICK x, y, n, o, u, m, p, v \in Nat :
              /\ x = Turns /\ y = Turns'
              /\ n = Cardinality(NoAnswers) /\ o = Owed /\ u = Unsent
              /\ m = Cardinality(NoAnswers)' /\ p = Owed' /\ v = Unsent'
        BY <2>2, <2>3
      <4>2. n + o + v <= m + p + u + 1
        BY <2>1, <4>1
      <4>3. x + u <= n + o /\ y + 1 <= x
        BY <2>4, <3>1, <4>1
      <4>4. y + v <= m + p
        BY <4>2, <4>3
      <4> QED BY <4>1, <4>4
    <3>2. CASE Turns' <= Turns /\ a = Error("NO_ANSWER")
      <4>1. Cardinality(NoAnswers) + Owed + Unsent' <= Cardinality(NoAnswers)' + Owed' + Unsent
        BY <2>1, <3>2
      <4> QED BY <2>2, <2>3, <2>4, <3>2, <4>1
    <3> QED BY <1>6, <3>1, <3>2
  <2> QED BY <2>5 DEF TurnsInv
<1>8. CASE write_callback
  <2>1. Token(h)
    BY <1>8 DEF write_callback, Dispatch, Token, h
  <2>2. CASE h.error
    <3>1. /\ ready' = w /\ reads' = reads
          /\ \E s \in Storage(h.this) : SetAnswer(s, Error("IO_ERROR"))
      BY <1>8, <2>2 DEF write_callback, h, w
    <3>2. PICK s \in Live \cup {None} : SetAnswer(s, Error("IO_ERROR"))
      BY <1>4, <3>1
    <3>3. Turns' + 1 <= Turns
      BY <1>3, <1>11, <2>1, <3>1
    <3> QED BY <1>6, <3>2, <3>3 DEF Answer, ErrorAnswer
  <2>3. CASE ~h.error
    <3>1. initiate_read(w) /\ UNCHANGED answer
      BY <1>8, <2>3 DEF write_callback, h, w
    <3>2. reads' + Cardinality(Tokens(ready')) = reads + Cardinality(Tokens(w)) + 1
      BY <1>1, <1>3, <3>1, ReadTurn
    <3>3. Turns' <= Turns
      BY <1>3, <1>12, <2>1, <3>2
    <3> QED BY <1>5, <3>1, <3>3
  <2> QED BY <2>2, <2>3
<1>9. CASE wait_callback
  <2>0. reads' = reads
    BY <1>9 DEF wait_callback
  <2>1. CASE Cancelled(h)
    <3>1. ready' = t /\ UNCHANGED answer
      BY <1>9, <2>1 DEF wait_callback, h, t
    <3>2. Turns' <= Turns
      BY <1>2, <1>7, <2>0, <3>1 DEF Turns
    <3> QED BY <1>5, <3>1, <3>2
  <2>2. CASE ~Cancelled(h)
    <3>1. ready' = w /\ \E s \in Storage(h.this) : SetAnswer(s, Error("NO_ANSWER"))
      BY <1>9, <2>2 DEF wait_callback, h, w, TimeoutAnswer
    <3>2. PICK s \in Live \cup {None} : SetAnswer(s, Error("NO_ANSWER"))
      BY <1>4, <3>1
    <3>3. Turns' <= Turns
      BY <1>2, <1>3, <1>7, <2>0, <3>1 DEF Turns
    <3> QED BY <1>6, <3>2, <3>3 DEF Answer, ErrorAnswer
  <2> QED BY <2>1, <2>2
<1>10. CASE read_callback
  <2>0. h.handler = "read_callback"
    BY <1>10 DEF read_callback, Dispatch, h
  <2>1. CASE h.error
    <3>1. ready' = t /\ UNCHANGED <<answer, reads>>
      BY <1>10, <2>1 DEF read_callback, protocol, h, t
    <3>2. Turns' <= Turns
      BY <1>2, <1>7, <3>1 DEF Turns
    <3> QED BY <1>5, <3>1, <3>2
  <2>2. CASE ~h.error
    <3> DEFINE chunk == SubSeq(read_buf, 1, h.n)
               fed   == [c \in Command |-> IF c \in slots THEN Unbytestaff(filter[c], chunk)
                                                          ELSE filter[c]]
               found == {c \in slots : Complete(fed[c])}
    <3>1. Token(h)
      BY <2>0, <2>2 DEF Token
    <3>2. \/ found = {} /\ initiate_read(t) /\ UNCHANGED answer
          \/ \E c \in found : /\ SetAnswer(c, Verdict(fed[c]))
                              /\ ready' = w /\ UNCHANGED reads
      BY <1>10, <2>2 DEF read_callback, Reread, h, t, w
    <3>3. ASSUME NEW c \in found, SetAnswer(c, Verdict(fed[c])), ready' = w, UNCHANGED reads
          PROVE  TurnsInv'
      <4>1. chunk \in Seq(Fragment)
        BY <1>1, ReadyParts, PartOfSeq DEF TypeOK, Handler, h
      <4>2. c \in Live /\ c \in Command /\ Complete(fed[c])
        BY <1>1 DEF TypeOK
      <4>3. fed[c] \in Seq(Fragment)
        BY <1>1, <4>1, <4>2, UnbytestaffType DEF TypeOK
      <4> HIDE DEF fed, found
      <4>4. Verdict(fed[c]) \in Answer
        BY <4>2, <4>3, VerdictType
      <4>5. Turns' + 1 <= Turns
        BY <1>3, <1>11, <3>1, <3>3
      <4> QED BY <1>6, <3>3, <4>2, <4>4, <4>5
    <3>4. CASE initiate_read(t) /\ UNCHANGED answer
      <4>1. reads' + Cardinality(Tokens(ready')) = reads + Cardinality(Tokens(t)) + 1
        BY <1>1, <1>2, <3>4, ReadTurn
      <4>2. Turns' <= Turns
        BY <1>12, <3>1, <4>1
      <4> QED BY <1>5, <3>4, <4>2
    <3> HIDE DEF fed, found
    <3> QED BY <3>2, <3>3, <3>4
  <2> QED BY <2>1, <2>2
<1> QED BY <1>8, <1>9, <1>10

(* The client begins a turn with each command it sends. *)
LEMMA ClientTurn ==
    ASSUME BaseInv, Client, TurnsInv, \A c \in Command : c > cmd => answer[c] = Unset
    PROVE  TurnsInv'
<1>1. TypeOK /\ UNCHANGED <<answer, reads, ready>>
  BY DEF BaseInv, TypeInv, Client, Construct, Send, SendThen, SendFails, GetAnswer, Destroy, Close,
     Join, protocol, asio
<1>2. NoAnswers' = NoAnswers
  BY <1>1 DEF NoAnswers
<1>3. Cardinality(NoAnswers)' = Cardinality(NoAnswers)
  BY <1>2
<1>4. UNCHANGED writes => Turns' = Turns
  BY <1>1 DEF Turns
<1>5. /\ reads \in Nat /\ Len(writes) \in Nat /\ Cardinality(Tokens(ready)) \in Nat
      /\ Owed \in Nat /\ Unsent \in Nat /\ Cardinality(NoAnswers) \in Nat /\ Turns \in Nat
      /\ Turns + Unsent <= Cardinality(NoAnswers) + Owed
  BY <1>1, CountsAreNumbers DEF Turns, TurnsInv
<1>6. CASE Construct
  <2>1. cmd' \in Command /\ cmd' # None /\ answer'[cmd'] = Unset /\ pc = "idle" /\ pc' = "listening"
    <3>1. cmd' = cmd + 1 /\ cmd + 1 \in Command /\ cmd + 1 > cmd
      BY <1>1, <1>6, ExchangeAssumption DEF Construct, TypeOK, Command, None
    <3> QED BY <1>1, <1>6, <3>1 DEF Construct, Command, None
  <2>2. Owed' = 1 /\ Unsent' = 1 /\ Owed = Unsent
    BY <2>1 DEF Owed, Unsent
  <2>3. Turns' = Turns
    BY <1>4, <1>6 DEF Construct, asio
  <2>4. Turns <= Cardinality(NoAnswers)
    BY <1>5, <2>2
  <2>5. Turns' + 1 <= Cardinality(NoAnswers)' + 1
    BY <1>3, <1>5, <2>3, <2>4
  <2> QED BY <2>2, <2>5 DEF TurnsInv
<1>7. CASE Send
  <2>1. /\ pc = "listening" /\ pc' = "waiting" /\ cmd' = cmd /\ cmd \in Command
        /\ writes' = Append(writes, cmd)
    BY <1>1, <1>7 DEF Send, SendThen, TypeOK
  <2>2. Unsent = 1 /\ Unsent' = 0 /\ Owed' = Owed
    BY <1>1, <2>1 DEF Unsent, Owed
  <2>3. Len(writes') = Len(writes) + 1
    BY <1>1, <2>1, AppendProperties DEF TypeOK
  <2>4. Turns' = Turns + 1
    BY <1>1, <1>5, <2>3 DEF Turns
  <2>5. Turns' + 0 <= Cardinality(NoAnswers)' + Owed
    BY <1>3, <1>5, <2>2, <2>4
  <2> QED BY <2>2, <2>5 DEF TurnsInv
<1>8. CASE SendFails \/ GetAnswer \/ Destroy \/ Close \/ Join
  <2>1. cmd' = cmd /\ Turns' = Turns
    BY <1>4, <1>8 DEF SendFails, GetAnswer, Destroy, Close, Join, asio
  <2>2. Owed' = Owed
    BY <1>1, <2>1 DEF Owed
  <2>3. Unsent' <= Unsent /\ Unsent' \in Nat
    <3>1. pc = "waiting" => answer[cmd] # Unset
      BY <1>8 DEF SendFails, GetAnswer, Destroy, Close, Join
    <3>2. pc' # "listening" /\ pc # "running"
      BY <1>8 DEF SendFails, GetAnswer, Destroy, Close, Join
    <3> QED BY <1>1, <2>1, <3>1, <3>2 DEF Unsent
  <2>4. Turns' + Unsent' <= Cardinality(NoAnswers)' + Owed'
    BY <1>3, <1>5, <2>1, <2>2, <2>3
  <2> QED BY <2>4 DEF TurnsInv
<1> QED BY <1>6, <1>7, <1>8 DEF Client

(* serial.cancel() ends the reads and keeps the writes' turns. *)
LEMMA CancelTurn ==
    ASSUME TypeOK, CancelSerial
    PROVE  Turns' <= Turns /\ Turns' \in Nat
<1> DEFINE q == ready \o AbortedReads
<1>1. ready' = q \o AbortedWrites /\ reads' = 0 /\ writes' = <<>>
  BY DEF CancelSerial
<1>2. /\ AbortedReads \in Seq(Handler) /\ AbortedWrites \in Seq(Handler) /\ ready \in Seq(Handler)
      /\ Len(AbortedWrites) = Len(writes)
  <2>1. Bounded(0) \subseteq Handler
    BY DEF Bounded
  <2> QED BY <2>1, AbortedType, SeqMonotonic DEF TypeOK
<1>3. Cardinality(Tokens(AbortedReads)) = 0
  <2>1. \A i \in 1..Len(AbortedReads) : ~Token(AbortedReads[i])
    <3>1. Len(AbortedReads) = reads /\ reads \in Nat
      <4>1. AbortedReads \in [1..reads -> Handler] /\ reads \in Nat
        BY DEF AbortedReads, TypeOK, ReadHandler, Handler
      <4> QED BY <4>1, FunctionIsSeq
    <3> QED BY <3>1 DEF AbortedReads, ReadHandler, Token
  <2>2. Tokens(AbortedReads) = {}
    BY <2>1 DEF Tokens
  <2> QED BY <2>2, FS_EmptySet
<1>4. Cardinality(Tokens(AbortedWrites)) <= Len(writes)
  <2>1. IsFiniteSet(1..Len(writes)) /\ Cardinality(1..Len(writes)) = Len(writes)
    <3>1. Len(writes) \in Nat
      BY LenProperties DEF TypeOK
    <3>2. \A n \in Nat : IsFiniteSet(1..n) /\ Cardinality(1..n) = n
      BY IntervalSize
    <3> QED BY <3>1, <3>2
  <2>2. Tokens(AbortedWrites) \in SUBSET (1..Len(writes))
    BY <1>2 DEF Tokens
  <2> QED BY <2>1, <2>2, FS_Subset
<1>5. /\ q \in Seq(Handler)
      /\ Cardinality(Tokens(q)) = Cardinality(Tokens(ready)) + Cardinality(Tokens(AbortedReads))
      /\ Cardinality(Tokens(ready)) \in Nat
  BY <1>2, TokensConcat, ConcatProperties
<1> HIDE DEF q
<1>6. /\ Cardinality(Tokens(ready')) = Cardinality(Tokens(q)) + Cardinality(Tokens(AbortedWrites))
      /\ Cardinality(Tokens(AbortedWrites)) \in Nat
  BY <1>1, <1>2, <1>5, TokensConcat
<1>7. Len(writes) \in Nat /\ reads \in Nat /\ Len(writes') = 0
  BY <1>1, LenProperties, EmptySeq DEF TypeOK
<1>8. Turns' = Cardinality(Tokens(ready)) + Cardinality(Tokens(AbortedWrites))
  BY <1>1, <1>3, <1>5, <1>6, <1>7 DEF Turns
<1> QED BY <1>4, <1>5, <1>6, <1>7, <1>8 DEF Turns

(* The port passes the turns on. *)
LEMMA EnvironmentTurn ==
    ASSUME TypeOK, Environment
    PROVE  Turns' <= Turns /\ Turns' \in Nat
<1>1. /\ ready \in Seq(Handler) /\ reads \in Nat /\ Len(writes) \in Nat
      /\ Cardinality(Tokens(ready)) \in Nat
  BY CountsAreNumbers DEF TypeOK
<1>2. CASE WriteDone \/ WriteFails
  <2>1. PICK e \in BOOLEAN : ready' = Append(ready, WriteHandler(Head(writes), e))
    BY <1>2 DEF WriteDone, WriteFails
  <2>2. writes # <<>> /\ writes' = Tail(writes) /\ reads' = reads
    BY <1>2 DEF WriteDone, WriteFails
  <2>3. Len(writes') = Len(writes) - 1 /\ Head(writes) \in Command /\ Len(writes) # 0
    BY <2>2, HeadTailProperties, EmptySeq DEF TypeOK
  <2>4. WriteHandler(Head(writes), e) \in Handler
    BY <2>3 DEF WriteHandler, Handler
  <2>5. Cardinality(Tokens(ready')) = Cardinality(Tokens(ready)) + 1
    <3>1. Token(WriteHandler(Head(writes), e))
      BY DEF Token, WriteHandler
    <3> QED BY <1>1, <2>1, <2>4, <3>1, TokensAppend
  <2> QED BY <1>1, <2>2, <2>3, <2>5 DEF Turns
<1>3. CASE ReadSome
  <2>1. ReadInto(ready) /\ reads' = reads - 1 /\ reads > 0 /\ writes' = writes
    BY <1>3 DEF ReadSome
  <2>2. Cardinality(Tokens(ready')) = Cardinality(Tokens(ready)) + 1
    BY <1>1, <2>1, ReadTurn
  <2> QED BY <1>1, <2>1, <2>2 DEF Turns
<1>4. ASSUME NEW h \in Handler, ~Token(h), ready' = Append(ready, h),
             reads' \in Nat, reads' <= reads, UNCHANGED writes
      PROVE  Turns' <= Turns /\ Turns' \in Nat
  <2>1. Cardinality(Tokens(Append(ready, h))) = Cardinality(Tokens(ready)) + (IF Token(h) THEN 1 ELSE 0)
    BY <1>1, TokensAppend
  <2>2. (IF Token(h) THEN 1 ELSE 0) = 0
    BY <1>4
  <2>3. Cardinality(Tokens(ready')) = Cardinality(Tokens(ready))
    BY <1>1, <1>4, <2>1, <2>2
  <2> QED BY <1>1, <1>4, <2>3 DEF Turns
<1>5. CASE ReadFails
  <2>1. ReadHandler(0, TRUE) \in Handler /\ ~Token(ReadHandler(0, TRUE))
    BY DEF ReadHandler, Handler, Token
  <2>2. PICK h \in Handler : ~Token(h) /\ ready' = Append(ready, h)
    BY <1>5, <2>1 DEF ReadFails
  <2>3. reads' \in Nat /\ reads' <= reads /\ UNCHANGED writes
    BY <1>1, <1>5 DEF ReadFails
  <2> QED BY <1>4, <2>2, <2>3
<1>6. CASE TimerExpires
  <2>1. WaitHandler(timer, FALSE) \in Handler /\ ~Token(WaitHandler(timer, FALSE))
    BY <1>6 DEF WaitHandler, Handler, Token, TypeOK, TimerExpires
  <2>2. PICK h \in Handler : ~Token(h) /\ ready' = Append(ready, h)
    BY <1>6, <2>1 DEF TimerExpires
  <2>3. reads' \in Nat /\ reads' <= reads /\ UNCHANGED writes
    BY <1>1, <1>6 DEF TimerExpires
  <2> QED BY <1>4, <2>2, <2>3
<1>7. CASE Respond
  BY <1>1, <1>7 DEF Respond, asio, Turns
<1> QED BY <1>2, <1>3, <1>5, <1>6, <1>7 DEF Environment

LEMMA TurnsStep == BaseInv /\ OrderInv /\ TurnsInv /\ [Next]_vars => TurnsInv'
<1> SUFFICES ASSUME BaseInv, OrderInv, TurnsInv, [Next]_vars PROVE TurnsInv'
  OBVIOUS
<1>1. TypeOK
  BY DEF BaseInv, TypeInv
<1>2. CASE Client
  BY <1>2, ClientTurn DEF OrderInv
<1>3. CASE write_callback \/ read_callback \/ wait_callback
  BY <1>3, HandlersTurn
<1>4. ASSUME UNCHANGED <<cmd, pc, answer>>, Turns' <= Turns, Turns' \in Nat PROVE TurnsInv'
  <2>1. NoAnswers' = NoAnswers /\ Owed' = Owed /\ Unsent' = Unsent
    BY <1>4 DEF NoAnswers, Owed, Unsent
  <2>2. Cardinality(NoAnswers)' = Cardinality(NoAnswers)
    BY <2>1
  <2>3. Turns \in Nat /\ Owed \in Nat /\ Unsent \in Nat /\ Cardinality(NoAnswers) \in Nat
    BY <1>1, CountsAreNumbers DEF Turns
  <2>4. Turns' + Unsent <= Cardinality(NoAnswers) + Owed
    BY <1>4, <2>3 DEF TurnsInv
  <2> QED BY <2>1, <2>2, <2>4 DEF TurnsInv
<1>5. CASE CancelSerial
  <2>1. UNCHANGED <<cmd, pc, answer>>
    BY <1>5 DEF CancelSerial, client, protocol
  <2> QED BY <1>1, <1>4, <1>5, <2>1, CancelTurn
<1>6. CASE Environment
  <2>1. UNCHANGED <<cmd, pc, answer>>
    BY <1>6 DEF Environment, WriteDone, WriteFails, ReadSome, ReadFails, TimerExpires, Respond,
       client, protocol
  <2> QED BY <1>1, <1>4, <1>6, <2>1, EnvironmentTurn
<1>7. CASE UNCHANGED vars
  <2>1. UNCHANGED <<cmd, pc, answer, reads, writes, ready>>
    BY <1>7 DEF vars, client, protocol, asio
  <2>2. Turns' = Turns /\ Turns \in Nat
    BY <1>1, <2>1, CountsAreNumbers DEF Turns
  <2> QED BY <1>4, <2>1, <2>2
<1> QED BY <1>2, <1>3, <1>5, <1>6, <1>7 DEF Next, IoThread

(* Left-over reads do not pile up: there are no more reads in flight than  *)
(* commands that ended in a timeout, and one for the current command.      *)
THEOREM ReadsAreAccounted == Spec => []ReadsAccounted
<1>1. Init => TurnsInv
  <2> SUFFICES ASSUME Init PROVE TurnsInv
    OBVIOUS
  <2>1. /\ cmd = None /\ pc = "idle" /\ reads = 0 /\ ready = <<>> /\ writes = <<>>
        /\ \A c \in Command : answer[c] = Unset
    BY DEF Init, Opened
  <2>2. Tokens(ready) = {} /\ NoAnswers = {}
    BY <2>1, EmptySeq DEF Tokens, NoAnswers, Unset, Error
  <2>3. Turns = 0 /\ Unsent = 0 /\ Owed = 0 /\ Cardinality(NoAnswers) = 0
    BY <2>1, <2>2, EmptySeq, FS_EmptySet DEF Turns, Unsent, Owed
  <2> QED BY <2>3 DEF TurnsInv
<1>2. Init => OrderInv
  BY OrderInit DEF Init
<1>3. BaseInv /\ OrderInv /\ [Next]_vars => OrderInv'
  BY OrderStep, StepOfExchange
<1>4. BaseInv /\ TurnsInv => ReadsAccounted
  <2> SUFFICES ASSUME BaseInv, TurnsInv PROVE ReadsAccounted
    OBVIOUS
  <2> DEFINE done == {i \in 1..Len(ready) : ready[i].handler = "read_callback" /\ ~ready[i].error}
  <2>1. TypeOK
    BY DEF BaseInv, TypeInv
  <2>2. IsFiniteSet(Tokens(ready)) /\ done \in SUBSET Tokens(ready)
    <3>1. IsFiniteSet(1..Len(ready))
      <4>1. Len(ready) \in Nat
        BY <2>1, LenProperties DEF TypeOK
      <4> QED BY <4>1, FS_Interval
    <3>2. Tokens(ready) \in SUBSET (1..Len(ready))
      BY DEF Tokens
    <3>3. IsFiniteSet(Tokens(ready))
      BY <3>1, <3>2, FS_Subset
    <3> QED BY <3>3 DEF Tokens, Token
  <2>3. Cardinality(done) <= Cardinality(Tokens(ready)) /\ Cardinality(done) \in Nat
    BY <2>2, FS_Subset, FS_CardinalityType
  <2>4. ReadsInFlight = reads + Cardinality(done)
    BY DEF ReadsInFlight
  <2> HIDE DEF done
  <2>5. ReadsInFlight <= Turns /\ ReadsInFlight \in Nat /\ Turns \in Nat
    BY <2>1, <2>3, <2>4, CountsAreNumbers DEF Turns
  <2>6. Turns <= Cardinality(NoAnswers) + Owed
    BY <2>1, <2>5, CountsAreNumbers DEF TurnsInv
  <2>7. ReadsInFlight <= Cardinality(NoAnswers) + Owed
    BY <2>1, <2>5, <2>6, CountsAreNumbers
  <2> QED BY <2>7 DEF ReadsAccounted, NoAnswers, Owed
<1> QED BY <1>1, <1>2, <1>3, <1>4, BaseHolds, TurnsStep, PTL DEF Spec

=============================================================================
