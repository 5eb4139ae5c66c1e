--------------------------- MODULE AsioRunProofs ---------------------------
(***************************************************************************)
(* Proofs about AsioRun, for any number of commands, any kinds of reply,   *)
(* any faults and any read size.                                           *)
(***************************************************************************)
EXTENDS AsioRun, ExchangeProofs

LEMMA NextOfExchange == Next => ExchangeNext
  BY DEF Next, Client, Send, Run, RunReturns, RunEnds, ExchangeNext, AnyClient

LEMMA BaseHolds == Spec => []BaseInv
<1>1. Init => BaseInv
  BY BaseInit DEF Init
<1>2. BaseInv /\ [Next]_vars => BaseInv'
  BY BaseStep, NextOfExchange
<1>3. QED
  BY <1>1, <1>2, PTL DEF Spec

(* The one thread provider keeps the same promise to its caller: a command *)
(* is answered at most once and while it is open, with an error or with a  *)
(* reply to a command that was sent before, and returns that.              *)
THEOREM ServiceIsGiven == Spec => ImplementsCommandService
<1>1. Init => Service!Init
  BY ServiceInit DEF Init
<1>2. BaseInv /\ [Next]_vars => [Service!Next]_(Service!vars)
  BY ServiceStep, NextOfExchange
<1>3. QED
  BY <1>1, <1>2, BaseHolds, PTL DEF Spec, ImplementsCommandService, Service!Spec

-----------------------------------------------------------------------------
(* The phases of a run.  Before and after it nothing is pending; in it the *)
(* write is pending, then its handler is queued, and from then on there    *)
(* are only reads and the command's own timer, of which something is left  *)
(* until the promise is set.                                               *)
Idle == ready = <<>> /\ reads = 0 /\ timer = None /\ writes = <<>> /\ io = "idle"

Writing == writes = <<cmd>> /\ ready = <<>> /\ reads = 0 /\ timer = None /\ io = "idle"

Written ==
    /\ \E err \in BOOLEAN : ready = <<WriteHandler(cmd, err)>> /\ (err => cmd \in faulted)
    /\ writes = <<>> /\ reads = 0 /\ timer = None /\ io = "idle"

Own(h) == h.handler = "read_callback" \/ (h.handler = "wait_callback" /\ h.this = cmd)

OwnHandlers(q) == \A i \in 1..Len(q) : Own(q[i])

Awaking == answer[cmd] # Unset \/ timer = cmd \/ Queued("wait_callback", cmd, FALSE)

Reading ==
    /\ writes = <<>>
    /\ timer \in {None, cmd}
    /\ OwnHandlers(ready)
    /\ Awaking

RunInv ==
    /\ ~stale
    /\ pc # "running" => Idle
    /\ pc = "running" => Writing \/ Written \/ Reading
    /\ RunReturnsAnswered
    /\ IoErrorIsAFault

LEMMA OwnAppend ==
    ASSUME NEW q \in Seq(Handler), NEW h \in Handler, OwnHandlers(q), Own(h)
    PROVE  OwnHandlers(Append(q, h)) /\ Append(q, h) \in Seq(Handler)
<1>1. /\ Len(Append(q, h)) = Len(q) + 1 /\ Len(q) \in Nat /\ Append(q, h) \in Seq(Handler)
      /\ \A i \in 1..Len(q) : Append(q, h)[i] = q[i]
      /\ Append(q, h)[Len(q) + 1] = h
  BY AppendProperties, LenProperties
<1> QED BY <1>1 DEF OwnHandlers

LEMMA OwnTail ==
    ASSUME NEW q \in Seq(Handler), q # <<>>, OwnHandlers(q)
    PROVE  /\ Own(Head(q)) /\ OwnHandlers(Tail(q)) /\ Tail(q) \in Seq(Handler)
           /\ Head(q) \in Handler
<1>1. /\ Head(q) = q[1] /\ Head(q) \in Handler /\ Tail(q) \in Seq(Handler)
      /\ Len(q) \in Nat /\ Len(q) > 0 /\ Len(Tail(q)) = Len(q) - 1
      /\ \A i \in 1..Len(Tail(q)) : Tail(q)[i] = q[i + 1]
  BY HeadTailProperties, LenProperties
<1>2. 1 \in 1..Len(q) /\ \A i \in 1..Len(Tail(q)) : i + 1 \in 1..Len(q)
  BY <1>1
<1> QED BY <1>1, <1>2 DEF OwnHandlers

(* What handlers add to the queue is the command's own. *)
LEMMA OwnAdded ==
    ASSUME TypeOK, timer \in {None, cmd}, NEW q \in Seq(Handler), OwnHandlers(q)
    PROVE  /\ OwnHandlers(WithAbortedWait(q)) /\ WithAbortedWait(q) \in Seq(Handler)
           /\ ReadInto(q) \/ initiate_read(q) => OwnHandlers(ready')
<1>1. ASSUME timer # None PROVE Own(WaitHandler(timer, TRUE)) /\ WaitHandler(timer, TRUE) \in Handler
  BY <1>1 DEF TypeOK, Own, WaitHandler, Handler
<1>2. Own(ReadHandler(Readable, FALSE)) /\ ReadHandler(Readable, FALSE) \in Handler
  BY ExchangeAssumption, LenProperties DEF TypeOK, Own, ReadHandler, Readable, Handler
<1>3. ReadInto(q) => OwnHandlers(ready')
  BY <1>2, OwnAppend DEF ReadInto
<1> QED BY <1>1, <1>3, OwnAppend DEF WithAbortedWait, initiate_read

LEMMA InitRun == Init => RunInv
  BY DEF Init, Opened, RunInv, Idle, RunReturnsAnswered, IoErrorIsAFault, Unset, Error

(* The client: a run begins with the write alone and ends when there is    *)
(* nothing left, hence no timer, hence with an answer.                     *)
LEMMA ClientRun ==
    ASSUME BaseInv, RunInv, Client
    PROVE  RunInv'
<1>1. TypeOK /\ UNCHANGED <<answer, reads, timer, ready, io, stale, faulted>>
  BY DEF Client, Construct, Send, SendThen, SendFails, RunReturns, GetAnswer, Destroy, BaseInv,
         TypeInv, protocol, asio, history
<1>2. IoErrorIsAFault' /\ ~stale'
  BY <1>1 DEF RunInv, IoErrorIsAFault
<1>3. CASE Construct \/ SendFails \/ GetAnswer \/ Destroy
  <2>1. pc # "running" /\ pc' \notin {"running", "waiting"} /\ UNCHANGED writes
    BY <1>3 DEF Construct, SendFails, GetAnswer, Destroy, asio
  <2> QED BY <1>1, <1>2, <2>1 DEF RunInv, Idle, RunReturnsAnswered
<1>4. CASE Send
  <2>1. pc = "listening" /\ pc' = "running" /\ writes' = Append(writes, cmd) /\ cmd' = cmd
    BY <1>4 DEF Send, SendThen
  <2>2. writes' = <<cmd>>
    BY <1>1, <2>1 DEF RunInv, Idle, TypeOK
  <2> QED BY <1>1, <1>2, <2>1, <2>2 DEF RunInv, Idle, Writing, RunReturnsAnswered
<1>5. CASE RunReturns
  <2>1. pc = "running" /\ pc' = "waiting" /\ ~HasWork /\ cmd' = cmd /\ UNCHANGED writes
        /\ cmd \in Command
    BY <1>1, <1>5 DEF RunReturns, asio, TypeOK
  <2>2. Idle /\ ~Writing /\ ~Written
    <3>1. ready = <<>> /\ io = "idle" /\ ~(reads > 0) /\ reads \in Nat /\ writes = <<>> /\ timer = None
      BY <1>1, <2>1 DEF HasWork, TypeOK
    <3>2. ~Writing
      BY <3>1 DEF Writing
    <3>3. ~Written
      BY <3>1 DEF Written
    <3> QED BY <3>1, <3>2, <3>3 DEF Idle
  <2>3. answer[cmd] # Unset
    BY <2>1, <2>2 DEF RunInv, Reading, Awaking, Idle, Queued, Command, None
  <2> QED BY <1>1, <1>2, <2>1, <2>2, <2>3 DEF RunInv, Idle, RunReturnsAnswered
<1> QED BY <1>3, <1>4, <1>5 DEF Client

(* A handler in a run. *)
LEMMA HandlersRun ==
    ASSUME BaseInv, RunInv, pc = "running", write_callback \/ read_callback \/ wait_callback
    PROVE  Reading' /\ ~stale'
<1> DEFINE h == Head(ready)
           q == Tail(ready)
<1>1. /\ TypeOK /\ TypeInv /\ OneListener /\ ready # <<>> /\ cmd \in Command /\ Live = {cmd}
      /\ UNCHANGED <<client, writes, faulted>> /\ cmd' = cmd /\ ~stale
      /\ ready \in Seq(Handler) /\ slots \subseteq {cmd}
  BY DEF write_callback, read_callback, wait_callback, Dispatch, BaseInv, TypeInv, TypeOK, Live,
         OneListener, client, RunInv
<1>2. Written \/ Reading
  BY <1>1 DEF RunInv, Writing
<1>3. Kept(q, ready')
  BY <1>1, HandlersKeepTail
<1>a. ASSUME NEW s \in Storage(h.this), h.this = cmd, NEW a \in Answer, SetAnswer(s, a)
      PROVE  answer'[cmd] # Unset /\ timer' = None
  <2>1. s = cmd
    BY <1>1, <1>a DEF Storage
  <2> QED BY <1>1, <1>a, <2>1, AnswerGiven DEF SetAnswer
<1>b. Error("IO_ERROR") \in Answer /\ TimeoutAnswer \in Answer
  BY DEF Answer, ErrorAnswer, TimeoutAnswer
<1>o. ASSUME OwnHandlers(ready') PROVE (OwnHandlers(ready))'
  BY <1>1, <1>o DEF OwnHandlers, Own
(* The end of the write starts the timer, or sets the promise. *)
<1>4. CASE write_callback
  <2>1. Written
    <3>1. Reading => Own(h)
      BY <1>1, OwnTail DEF Reading
    <3> QED BY <1>2, <1>4, <3>1 DEF Own, write_callback, Dispatch
  <2>2. /\ h.this = cmd /\ q = <<>> /\ timer = None /\ writes = <<>> /\ WithAbortedWait(q) = <<>>
        /\ OwnHandlers(<<>>) /\ <<>> \in Seq(Handler)
    <3>1. PICK err \in BOOLEAN : ready = <<WriteHandler(cmd, err)>>
      BY <2>1 DEF Written
    <3> QED BY <2>1, <3>1 DEF Written, WriteHandler, WithAbortedWait, OwnHandlers
  <2> HIDE DEF h, q
  <2>3. ~stale'
    BY <1>1, <1>4, <2>2 DEF write_callback, h
  <2>4. CASE h.error
    <3>1. answer'[cmd] # Unset /\ timer' = None /\ ready' = <<>>
      BY <1>4, <1>a, <1>b, <2>2, <2>4 DEF write_callback, h, q
    <3> QED BY <1>1, <1>o, <2>2, <2>3, <3>1 DEF Reading, Awaking
  <2>5. CASE ~h.error
    <3>1. timer' = cmd /\ initiate_read(<<>>)
      BY <1>4, <2>2, <2>5 DEF write_callback, SetTimeout, h, q
    <3>2. OwnHandlers(ready')
      BY <1>1, <2>2, <3>1, OwnAdded
    <3> QED BY <1>1, <1>o, <2>2, <2>3, <3>1, <3>2 DEF Reading, Awaking
  <2> QED BY <2>4, <2>5
<1>5. ASSUME read_callback \/ wait_callback
      PROVE  /\ Reading /\ Own(h) /\ h \in Handler /\ OwnHandlers(q) /\ q \in Seq(Handler)
             /\ OwnHandlers(WithAbortedWait(q)) /\ WithAbortedWait(q) \in Seq(Handler)
             /\ \A p \in {q, WithAbortedWait(q)} : initiate_read(p) => OwnHandlers(ready')
  <2>1. ~Written
    BY <1>5 DEF Written, WriteHandler, read_callback, wait_callback, Dispatch
  <2>2. Reading /\ timer \in {None, cmd} /\ OwnHandlers(ready)
    BY <1>2, <2>1 DEF Reading
  <2>3. Own(h) /\ h \in Handler /\ OwnHandlers(q) /\ q \in Seq(Handler)
    BY <1>1, <2>2, OwnTail
  <2> QED BY <1>1, <2>2, <2>3, OwnAdded
(* A handler that does nothing keeps what will set the promise. *)
<1>6. ASSUME Reading, OwnHandlers(ready'), UNCHANGED <<answer, timer>>,
             h.handler # "wait_callback" \/ h.error # FALSE
      PROVE  Reading'
  <2>1. Queued("wait_callback", cmd, FALSE) => Queued("wait_callback", cmd, FALSE)'
    BY <1>1, <1>3, <1>6, QueuedHeadOrTail
  <2> QED BY <1>1, <1>o, <1>6, <2>1 DEF Reading, Awaking
<1>7. CASE wait_callback
  <2>1. h.handler = "wait_callback" /\ h.this = cmd
    BY <1>5, <1>7 DEF Own, wait_callback, Dispatch
  <2>2. CASE Cancelled(h)
    <3>1. ready' = q /\ UNCHANGED <<answer, timer, stale>> /\ h.error
      BY <1>7, <2>2 DEF wait_callback, Cancelled
    <3> QED BY <1>1, <1>5, <1>6, <1>7, <3>1
  <2>3. CASE ~Cancelled(h)
    <3>1. ready' = WithAbortedWait(q) /\ answer'[cmd] # Unset /\ timer' = None /\ ~stale'
      BY <1>1, <1>7, <1>a, <1>b, <2>1, <2>3 DEF wait_callback
    <3> QED BY <1>1, <1>5, <1>7, <1>o, <3>1 DEF Reading, Awaking
  <2> QED BY <2>2, <2>3
<1>8. CASE read_callback
  <2> DEFINE chunk == SubSeq(read_buf, 1, h.n)
             fed   == [c \in Command |-> IF c \in slots THEN Unbytestaff(filter[c], chunk)
                                                        ELSE filter[c]]
             found == {c \in slots : Complete(fed[c])}
  <2>0. h.handler = "read_callback" /\ ~stale'
    <3>1. stale' \in {stale, stale \/ ~(slots \subseteq Live)}
      BY <1>8 DEF read_callback
    <3> QED BY <1>1, <1>8, <3>1 DEF read_callback, Dispatch
  <2>1. CASE h.error
    <3>1. ready' = q /\ UNCHANGED <<answer, timer>>
      BY <1>8, <2>1 DEF read_callback, protocol
    <3> QED BY <1>5, <1>6, <1>8, <2>0, <3>1
  <2>2. CASE ~h.error /\ found = {} /\ Reread(found, q) /\ UNCHANGED <<slots, answer, timer>>
    <3>1. initiate_read(q)
      BY <2>2 DEF Reread
    <3> QED BY <1>5, <1>6, <1>8, <2>0, <2>2, <3>1
  <2>3. ASSUME ~h.error, NEW c \in found, SetAnswer(c, Verdict(fed[c])),
               Reread(found, WithAbortedWait(q))
        PROVE  Reading'
    <3>1. chunk \in Seq(Fragment)
      BY <1>1, ReadyParts, PartOfSeq DEF TypeOK, Handler
    <3>2. fed \in [Command -> Seq(Fragment)]
      BY <1>1, <3>1, UnbytestaffType DEF TypeOK
    <3>3. Verdict(fed[c]) \in Answer
      BY <1>1, <3>2, VerdictType DEF TypeOK
    <3>4. c = cmd
      BY <1>1
    <3>5. answer'[cmd] # Unset /\ timer' = None
      BY <1>1, <2>3, <3>3, <3>4, AnswerGiven DEF SetAnswer
    <3>6. ready' = WithAbortedWait(q)
      BY <2>3 DEF Reread
    <3> QED BY <1>1, <1>5, <1>8, <1>o, <3>5, <3>6 DEF Reading, Awaking
  <2>4. \/ h.error
        \/ ~h.error /\ found = {} /\ Reread(found, q) /\ UNCHANGED <<slots, answer, timer>>
        \/ ~h.error /\ \E c \in found : /\ SetAnswer(c, Verdict(fed[c]))
                                        /\ Reread(found, WithAbortedWait(q))
    BY <1>8 DEF read_callback
  <2> QED BY <2>0, <2>1, <2>2, <2>3, <2>4
<1> QED BY <1>4, <1>7, <1>8

(* serial.cancel() in a run only finds reads. *)
LEMMA CancelRun ==
    ASSUME BaseInv, RunInv, pc = "running", CancelSerial
    PROVE  Reading' /\ ~stale'
<1>1. /\ TypeOK /\ Reading /\ UNCHANGED <<cmd, answer, timer>> /\ ~stale' /\ writes' = <<>>
      /\ ready \in Seq(Handler) /\ reads \in Nat
  BY DEF CancelSerial, RunInv, Writing, Written, BaseInv, TypeInv, TypeOK, client, protocol, history
<1>2. AbortedWrites = <<>> /\ AbortedWrites \in Seq(Handler)
  BY <1>1 DEF AbortedWrites, Reading
<1>3. AbortedReads \in Seq(Handler) /\ OwnHandlers(AbortedReads)
  <2>1. ReadHandler(0, TRUE) \in Handler /\ Own(ReadHandler(0, TRUE))
    BY DEF ReadHandler, Handler, Own
  <2>2. AbortedReads \in [1..reads -> Handler]
    BY <2>1 DEF AbortedReads
  <2>3. AbortedReads \in Seq(Handler) /\ Len(AbortedReads) = reads
    BY <1>1, <2>2, FunctionIsSeq
  <2>4. \A i \in 1..reads : AbortedReads[i] = ReadHandler(0, TRUE)
    BY DEF AbortedReads
  <2> QED BY <2>1, <2>3, <2>4 DEF OwnHandlers
<1>4. ready' = ready \o AbortedReads
  <2>1. ready \o AbortedReads \in Seq(Handler)
    BY <1>1, <1>3, ConcatProperties
  <2> QED BY <1>2, <2>1 DEF CancelSerial
<1>5. OwnHandlers(ready') /\ Kept(ready, ready')
  BY <1>1, <1>3, <1>4, ConcatProperties, LenProperties DEF OwnHandlers, Kept, Reading
<1>6. Queued("wait_callback", cmd, FALSE) => Queued("wait_callback", cmd, FALSE)'
  BY <1>1, <1>5, QueuedKept
<1> QED BY <1>1, <1>5, <1>6 DEF Reading, Awaking, OwnHandlers, Own

(* The port, the timer and the device. *)
LEMMA EnvironmentRun ==
    ASSUME BaseInv, RunInv, Environment
    PROVE  RunInv'
<1>1. /\ TypeOK /\ UNCHANGED <<cmd, pc, answer, io, stale>> /\ faulted \subseteq faulted'
      /\ ready \in Seq(Handler) /\ ~stale
  BY DEF Environment, WriteDone, WriteFails, ReadSome, ReadFails, TimerExpires, Respond,
         BaseInv, TypeInv, TypeOK, RunInv, client, protocol, asio, history
<1>2. IoErrorIsAFault' /\ ~stale' /\ RunReturnsAnswered'
  BY <1>1 DEF RunInv, IoErrorIsAFault, RunReturnsAnswered
<1>3. ASSUME pc = "running", Written' \/ Reading' PROVE RunInv'
  BY <1>1, <1>2, <1>3 DEF RunInv
<1>4. ASSUME NEW err \in BOOLEAN, writes # <<>>, writes' = Tail(writes),
             ready' = Append(ready, WriteHandler(Head(writes), err)),
             UNCHANGED <<reads, timer>>, err => Head(writes) \in faulted'
      PROVE  RunInv'
  <2>1. pc = "running" /\ Writing /\ cmd \in Command
    BY <1>1, <1>4 DEF RunInv, Idle, Writing, Written, Reading, TypeOK
  <2>2. writes' = <<>> /\ ready' = <<WriteHandler(cmd, err)>> /\ (err => cmd \in faulted')
    BY <1>4, <2>1 DEF Writing
  <2>3. Written'
    BY <1>1, <1>4, <2>1, <2>2 DEF Writing, Written
  <2> QED BY <1>3, <2>1, <2>3
<1>5. CASE WriteDone
  BY <1>4, <1>5 DEF WriteDone
<1>6. CASE WriteFails
  BY <1>4, <1>6 DEF WriteFails
<1>7. ASSUME reads > 0 \/ timer # None PROVE pc = "running" /\ Reading
  BY <1>7 DEF RunInv, Idle, Writing, Written
<1>8. ASSUME Reading, OwnHandlers(ready'), Kept(ready, ready'), writes' = writes,
             timer' = timer \/ (timer' = None /\ Queued("wait_callback", cmd, FALSE)')
      PROVE  Reading'
  <2>1. Queued("wait_callback", cmd, FALSE) => Queued("wait_callback", cmd, FALSE)'
    BY <1>1, <1>8, QueuedKept
  <2> QED BY <1>1, <1>8, <2>1 DEF Reading, Awaking, OwnHandlers, Own
<1>9. CASE ReadSome
  <2>1. pc = "running" /\ Reading /\ ReadInto(ready) /\ UNCHANGED <<writes, timer>>
    BY <1>7, <1>9 DEF ReadSome
  <2>2. OwnHandlers(ready') /\ Kept(ready, ready')
    BY <1>1, <2>1, OwnAdded, KeptReadInto DEF Reading
  <2> QED BY <1>3, <1>8, <2>1, <2>2
<1>10. CASE ReadFails
  <2>1. pc = "running" /\ Reading /\ UNCHANGED <<writes, timer>>
        /\ ready' = Append(ready, ReadHandler(0, TRUE))
    BY <1>7, <1>10 DEF ReadFails
  <2>2. ReadHandler(0, TRUE) \in Handler /\ Own(ReadHandler(0, TRUE))
    BY DEF ReadHandler, Handler, Own
  <2>3. OwnHandlers(ready') /\ Kept(ready, ready')
    BY <1>1, <2>1, <2>2, OwnAppend, KeptAppend DEF Reading
  <2> QED BY <1>3, <1>8, <2>1, <2>3
<1>11. CASE TimerExpires
  <2>1. /\ pc = "running" /\ Reading /\ timer = cmd /\ cmd \in Command /\ UNCHANGED writes
        /\ timer' = None /\ ready' = Append(ready, WaitHandler(cmd, FALSE))
    BY <1>1, <1>7, <1>11 DEF TimerExpires, Reading, TypeOK
  <2>2. WaitHandler(cmd, FALSE) \in Handler /\ Own(WaitHandler(cmd, FALSE))
    BY <2>1 DEF WaitHandler, Handler, Own
  <2>3. OwnHandlers(ready') /\ Kept(ready, ready')
    BY <1>1, <2>1, <2>2, OwnAppend, KeptAppend DEF Reading
  <2>4. Queued("wait_callback", cmd, FALSE)'
    <3>1. Len(ready') = Len(ready) + 1 /\ Len(ready) \in Nat
          /\ ready'[Len(ready) + 1] = WaitHandler(cmd, FALSE)
      BY <1>1, <2>1, <2>2, AppendProperties, LenProperties
    <3>2. Len(ready) + 1 \in 1..Len(ready')
      BY <3>1
    <3> QED BY <1>1, <3>1, <3>2 DEF Queued, WaitHandler
  <2> QED BY <1>3, <1>8, <2>1, <2>3, <2>4
<1>12. CASE Respond
  BY <1>1, <1>2, <1>12 DEF Respond, RunInv, Idle, Writing, Written, Reading, Awaking, OwnHandlers,
     Own, Queued, asio, history
<1> QED BY <1>5, <1>6, <1>9, <1>10, <1>11, <1>12 DEF Environment

LEMMA RunStep == BaseInv /\ RunInv /\ [Next]_vars => RunInv'
<1> SUFFICES ASSUME BaseInv, RunInv, [Next]_vars PROVE RunInv'
  OBVIOUS
<1>1. CASE UNCHANGED vars
  BY <1>1 DEF vars, client, protocol, asio, line, history, RunInv, Idle, Writing, Written, Reading,
     Awaking, OwnHandlers, Own, Queued, RunReturnsAnswered, IoErrorIsAFault
<1>2. CASE Run
  <2>1. pc = "running" /\ pc' = "running" /\ Reading' /\ ~stale'
    BY <1>2, HandlersRun, CancelRun DEF Run, RunOne, write_callback, read_callback, wait_callback,
       CancelSerial, client
  <2>2. IoErrorIsAFault'
    <3> SUFFICES ASSUME NEW c \in Command, answer'[c] = Error("IO_ERROR") PROVE c \in faulted'
      BY DEF IoErrorIsAFault
    <3>1. /\ faulted \subseteq faulted'
          /\ c # cmd => answer'[c] = answer[c]
          /\ answer[c] # Error("IO_ERROR") => write_callback /\ Head(ready).error
      BY <1>2, OnlyItsAnswer DEF BaseInv, ExchangeNext, Run
    <3>2. CASE answer[c] = Error("IO_ERROR")
      BY <3>1, <3>2 DEF RunInv, IoErrorIsAFault
    <3>3. CASE answer[c] # Error("IO_ERROR")
      <4>1. c = cmd /\ ready # <<>> /\ Head(ready).handler = "write_callback" /\ Head(ready).error
        BY <3>1, <3>3 DEF write_callback, Dispatch
      <4>2. ~Writing /\ ~Reading
        <5>1. Reading => Own(Head(ready))
          BY <4>1, OwnTail DEF Reading, BaseInv, TypeInv, TypeOK
        <5> QED BY <4>1, <5>1 DEF Writing, Own
      <4>3. cmd \in faulted
        BY <2>1, <4>1, <4>2 DEF RunInv, Written, WriteHandler
      <4> QED BY <3>1, <4>1, <4>3
    <3> QED BY <3>2, <3>3
  <2> QED BY <2>1, <2>2 DEF RunInv, RunReturnsAnswered
<1> QED BY <1>1, <1>2, ClientRun, EnvironmentRun DEF Next

LEMMA RunHolds == Spec => []RunInv
<1>1. BaseInv /\ RunInv /\ [Next]_vars => RunInv'
  BY RunStep
<1>2. QED
  BY <1>1, InitRun, BaseHolds, PTL DEF Spec

(* A run leaves nothing behind and no handler ever works on the protocol   *)
(* of an earlier command, whatever the port and the device do.             *)
THEOREM NothingIsLeft == Spec => []NothingOutlivesCommand
<1>1. RunInv => NothingOutlivesCommand
  BY DEF RunInv, Idle, NothingOutlivesCommand
<1>2. QED
  BY <1>1, RunHolds, PTL

(* When io_svc.run() returns the promise is set: get_answer never blocks.  *)
THEOREM RunAnswers == Spec => []RunReturnsAnswered
<1>1. RunInv => RunReturnsAnswered
  BY DEF RunInv
<1>2. QED
  BY <1>1, RunHolds, PTL

(* IO_ERROR is only reported for a write that the port itself refused.     *)
THEOREM IoErrorIsOwn == Spec => []IoErrorIsAFault
<1>1. RunInv => IoErrorIsAFault
  BY DEF RunInv
<1>2. QED
  BY <1>1, RunHolds, PTL

(* A command is never given the reply to another one unless a command up   *)
(* to the one that was replied to had timed out: as long as nothing times  *)
(* out, the write, the reads and the reply of a command are over when it   *)
(* returns.                                                                *)
THEOREM RepliesInTurn == Spec => []MisattributionNeedsTimeout
<1>1. Init => OrderInv
  BY OrderInit DEF Init
<1>2. BaseInv /\ OrderInv /\ [Next]_vars => OrderInv'
  BY OrderStep, NextOfExchange
<1>3. OrderInv => MisattributionNeedsTimeout
  BY DEF OrderInv
<1> QED BY <1>1, <1>2, <1>3, BaseHolds, PTL DEF Spec

=============================================================================
