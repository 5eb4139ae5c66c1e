------------------------ MODULE OwnTimerReaderProofs ------------------------
(***************************************************************************)
(* Proofs about OwnTimerReader, for any number of commands, any kinds of   *)
(* reply and any faults.                                                   *)
(***************************************************************************)
EXTENDS OwnTimerReader, ExchangeProofs

-----------------------------------------------------------------------------
(* What the completion port holds: completions, as the queue of boost.asio *)
(* does, and the packet that stops the loop.                               *)
Entry(k) == Bounded(k) \cup {KeyStop}

ReaderTypes ==
    /\ CallTypes
    /\ reads \in Nat
    /\ timer \in Command \cup {None}
    /\ sent \in Seq(Command)
    /\ ready \in Seq(Entry(Len(read_buf)))
    /\ device \in [Command -> {"none", "received", "responding", "done"}]
    /\ expired \subseteq Command
    /\ {stale, due} \subseteq BOOLEAN

(* The loop is stopped by a destructor that has begun. *)
Stopping == (\E k \in 1..Len(ready) : ready[k] = KeyStop) => pc \in {"closing", "closed"}

ReaderInv == ReaderTypes /\ ServiceInv /\ OneListener /\ Stopping

(* The ranges of the variables that are said to hold what was sent. *)
LEMMA SentTypes ==
    ASSUME ReaderInv
    PROVE  /\ writes \in Seq(Command)
           /\ rx \in Seq(Fragment) /\ read_buf \in Seq(Fragment)
           /\ Len(rx) \in Nat /\ Len(read_buf) \in Nat /\ Len(writes) \in Nat
           /\ Len(ready) \in Nat /\ Len(sent) \in Nat
           /\ slots \subseteq Command /\ slots \subseteq {cmd}
           /\ cmd \in Nat
<1>1. Sent \subseteq Command /\ OfSent \subseteq Fragment /\ cmd \in Nat
  BY ExchangeAssumption DEF Sent, OfSent, ReaderInv, ReaderTypes, CallTypes, Command, None
<1>2. writes \in Seq(Sent) /\ rx \in Seq(OfSent) /\ read_buf \in Seq(OfSent)
  BY DEF ReaderInv, ServiceInv, SentInv
<1>3. writes \in Seq(Command) /\ rx \in Seq(Fragment) /\ read_buf \in Seq(Fragment)
  BY <1>1, <1>2, SeqMonotonic
<1>4. ready \in Seq(Entry(Len(read_buf))) /\ sent \in Seq(Command)
  BY DEF ReaderInv, ReaderTypes
<1>5. slots \subseteq Command /\ slots \subseteq {cmd}
  BY DEF ReaderInv, OneListener, Live, ReaderTypes, CallTypes
<1> QED BY <1>1, <1>3, <1>4, <1>5, LenProperties

LEMMA EntryParts ==
    ASSUME NEW k \in Nat, NEW h \in Entry(k)
    PROVE  /\ h.n \in Nat /\ h.n <= k
           /\ h.handler = "KEY_STOP" => h = KeyStop
<1>1. CASE h \in Bounded(k)
  BY <1>1 DEF Bounded, Handler
<1>2. CASE h = KeyStop
  BY <1>2 DEF KeyStop
<1> QED BY <1>1, <1>2 DEF Entry

(* A longer buffer holds what a shorter one held. *)
LEMMA EntriesFit ==
    ASSUME NEW k \in Nat, NEW m \in Nat, k <= m, NEW q \in Seq(Entry(k))
    PROVE  q \in Seq(Entry(m))
<1>1. Entry(k) \subseteq Entry(m)
  BY DEF Entry, Bounded, Handler
<1> QED BY <1>1, SeqMonotonic

(* The packets that come into the queue. *)
LEMMA NewEntries ==
    ASSUME NEW k \in Nat
    PROVE  /\ \A c \in Command, err \in BOOLEAN :
                 WriteHandler(c, err) \in Entry(k) /\ WriteHandler(c, err) # KeyStop
           /\ ReadHandler(0, TRUE) \in Entry(k) /\ ReadHandler(0, TRUE) # KeyStop
           /\ k >= 1 => ReadHandler(1, FALSE) \in Entry(k) /\ ReadHandler(1, FALSE) # KeyStop
           /\ KeyStop \in Entry(k)
<1>1. \A c \in Command, err \in BOOLEAN :
         WriteHandler(c, err) \in Bounded(k) /\ WriteHandler(c, err).handler = "write_callback"
  BY EmptyHandlers DEF WriteHandler
<1>2. \A n \in Nat, err \in BOOLEAN :
         ReadHandler(n, err) \in Handler /\ ReadHandler(n, err).n = n
         /\ ReadHandler(n, err).handler = "read_callback"
  BY DEF ReadHandler, Handler
<1>3. KeyStop.handler = "KEY_STOP"
  BY DEF KeyStop
<1>4. \A n \in Nat, err \in BOOLEAN : n <= k => ReadHandler(n, err) \in Bounded(k)
  BY <1>2 DEF Bounded
<1>5. ReadHandler(0, TRUE) \in Bounded(k) /\ (k >= 1 => ReadHandler(1, FALSE) \in Bounded(k))
  <2>1. 0 \in Nat /\ 1 \in Nat /\ 0 <= k /\ TRUE \in BOOLEAN /\ FALSE \in BOOLEAN
    OBVIOUS
  <2>2. ReadHandler(0, TRUE) \in Bounded(k)
    BY <1>4, <2>1
  <2>3. ASSUME k >= 1 PROVE ReadHandler(1, FALSE) \in Bounded(k)
    BY <1>4, <2>1, <2>3
  <2> QED BY <2>2, <2>3
<1>6. ReadHandler(0, TRUE) # KeyStop /\ ReadHandler(1, FALSE) # KeyStop
  BY <1>2, <1>3
<1>7. \A c \in Command, err \in BOOLEAN : WriteHandler(c, err) # KeyStop
  BY <1>1, <1>3
<1> QED BY <1>1, <1>5, <1>6, <1>7 DEF Entry

(* p holds what q does, without its first one perhaps, and some of N. *)
Follows(p, q, N) ==
    \E m \in {0, 1} :
        \A k \in 1..Len(p) : p[k] \in N \/ (k + m \in 1..Len(q) /\ q[k + m] = p[k])

LEMMA FollowsTail ==
    ASSUME NEW S, NEW q \in Seq(S), q # <<>>
    PROVE  /\ Tail(q) \in Seq(S) /\ Head(q) \in S /\ Head(q) = q[1] /\ 1 \in 1..Len(q)
           /\ \A k \in 1..Len(Tail(q)) : k + 1 \in 1..Len(q) /\ Tail(q)[k] = q[k + 1]
           /\ Follows(Tail(q), q, {})
<1>1. /\ Tail(q) \in Seq(S) /\ Len(q) \in Nat /\ Len(Tail(q)) = Len(q) - 1 /\ Len(q) # 0
      /\ \A k \in 1..Len(Tail(q)) : Tail(q)[k] = q[k + 1]
  BY HeadTailProperties, LenProperties, EmptySeq
<1>2. Head(q) \in S /\ Head(q) = q[1]
  BY HeadTailProperties, ElementOfSeq, <1>1
<1>3. \A k \in 1..Len(Tail(q)) : k + 1 \in 1..Len(q) /\ q[k + 1] = Tail(q)[k]
  BY <1>1
<1>4. Follows(Tail(q), q, {})
  BY <1>3 DEF Follows
<1> QED BY <1>1, <1>2, <1>3, <1>4

LEMMA FollowsAppend ==
    ASSUME NEW S, NEW q \in Seq(S), NEW h \in S
    PROVE  /\ Append(q, h) \in Seq(S) /\ Len(Append(q, h)) = Len(q) + 1 /\ Len(q) \in Nat
           /\ \A k \in 1..Len(q) : Append(q, h)[k] = q[k]
           /\ Append(q, h)[Len(q) + 1] = h
           /\ Follows(Append(q, h), q, {h})
<1>1. /\ Append(q, h) \in Seq(S) /\ Len(Append(q, h)) = Len(q) + 1 /\ Len(q) \in Nat
      /\ \A k \in 1..Len(q) : Append(q, h)[k] = q[k]
      /\ Append(q, h)[Len(q) + 1] = h
  BY AppendProperties, LenProperties
<1>2. \A k \in 1..Len(Append(q, h)) :
          Append(q, h)[k] \in {h} \/ (k + 0 \in 1..Len(q) /\ q[k + 0] = Append(q, h)[k])
  BY <1>1
<1> QED BY <1>1, <1>2 DEF Follows

LEMMA FollowsConcat ==
    ASSUME NEW S, NEW q \in Seq(S), NEW N, N \subseteq S, NEW r \in Seq(N)
    PROVE  q \o r \in Seq(S) /\ Follows(q \o r, q, N)
<1>1. r \in Seq(S) /\ Len(q) \in Nat /\ Len(r) \in Nat
  BY SeqMonotonic, LenProperties
<1>2. /\ q \o r \in Seq(S) /\ Len(q \o r) = Len(q) + Len(r)
      /\ \A k \in 1..(Len(q) + Len(r)) : (q \o r)[k] = IF k <= Len(q) THEN q[k] ELSE r[k - Len(q)]
  BY <1>1, ConcatProperties
<1>3. \A k \in 1..Len(r) : r[k] \in N
  BY ElementOfSeq
<1>4. ASSUME NEW k \in 1..Len(q \o r)
      PROVE  (q \o r)[k] \in N \/ (k + 0 \in 1..Len(q) /\ q[k + 0] = (q \o r)[k])
  <2>1. CASE k <= Len(q)
    BY <1>1, <1>2, <2>1
  <2>2. CASE ~(k <= Len(q))
    BY <1>1, <1>2, <1>3, <2>2
  <2> QED BY <2>1, <2>2
<1> QED BY <1>2, <1>4 DEF Follows

LEMMA FollowsSelf == ASSUME NEW q PROVE Follows(q, q, {})
<1>1. \A k \in 1..Len(q) : k + 0 \in 1..Len(q) /\ q[k + 0] = q[k]
  OBVIOUS
<1> QED BY <1>1 DEF Follows

LEMMA FollowsWider ==
    ASSUME NEW p, NEW q, NEW M, NEW N, Follows(p, q, M), M \subseteq N
    PROVE  Follows(p, q, N)
  BY DEF Follows

-----------------------------------------------------------------------------
(* Answers.  A handler works on the protocol of the open command, or on    *)
(* dead bytes; it gives an error, or the reply to a command that was sent. *)
ReplyToSent == {Packet(r, c) : r \in {"DATA", "SHORT_DATA", "NACK"}, c \in Sent}

Tells(s, a) ==
    /\ s \in Live \cup {None}
    /\ a \in ErrorAnswer \cup ReplyToSent
    /\ slots' = slots \ {s}
    /\ answer' = Satisfied(s, a)
    /\ timer' = None /\ due' = FALSE

LEMMA ToldAnswer ==
    ASSUME ReaderInv, NEW s, NEW a, Tells(s, a)
    PROVE  /\ a \in Answer
           /\ answer' \in [Command -> Answer \cup {Unset}]
           /\ s \in Command => answer'[s] # Unset
           /\ \A c \in Command : c # s \/ answer[c] # Unset => answer'[c] = answer[c]
<1>1. Sent \subseteq Command
  BY ExchangeAssumption DEF Sent, ReaderInv, ReaderTypes, CallTypes, Command, None
<1>2. a \in Answer
  BY <1>1 DEF Tells, ReplyToSent, Answer, PacketAnswer, Packet
<1>3. answer' = [c \in Command |-> IF c = s /\ answer[c] = Unset THEN a ELSE answer[c]]
  BY DEF Tells, Satisfied
<1>4. answer \in [Command -> Answer \cup {Unset}]
  BY DEF ReaderInv, ReaderTypes, CallTypes
<1> QED BY <1>2, <1>3, <1>4, AnswerIsSet

LEMMA Checked ==
    ASSUME ReaderInv, check
    PROVE  /\ \E s : Tells(s, Error("NO_ANSWER")) /\ (timer \in Live => s = timer)
           /\ timer # None /\ due
           /\ timer \in Live => stale' = stale
<1>1. PICK s \in Storage(timer) : SetAnswerAndCancel(s, Error("NO_ANSWER"))
  BY DEF check, TimeoutAnswer
<1>2. s \in Live \cup {None} /\ (timer \in Live => s = timer)
  BY <1>1 DEF Storage
<1>3. Tells(s, Error("NO_ANSWER"))
  BY <1>1, <1>2 DEF Tells, SetAnswerAndCancel, SetAnswer, ErrorAnswer
<1>4. timer # None /\ due /\ (timer \in Live => stale' = stale)
  BY DEF check, TimedOut, ReaderInv, ReaderTypes
<1> QED BY <1>2, <1>3, <1>4

(* A chunk reaches the open command's protocol or none. *)
LEMMA Received ==
    ASSUME ReaderInv, NEW chunk \in Seq(OfSent), data_received(chunk)
    PROVE  /\ stale' = stale
           /\ \A c \in Command : filter'[c] \in Seq(OfSent)
           /\ \/ Found(chunk) = {} /\ UNCHANGED <<slots, answer, timer, due>>
              \/ Found(chunk) # {} /\ cmd \in slots /\ \E a : Tells(cmd, a)
<1>1. slots \subseteq Live /\ slots \subseteq Command /\ slots \subseteq {cmd}
  BY SentTypes DEF ReaderInv, OneListener
<1>2. filter' = Fed(chunk) /\ (\A c \in Command : filter[c] \in Seq(OfSent))
  BY DEF data_received, ReaderInv, ServiceInv, SentInv
<1>3. ASSUME NEW c \in Command PROVE Fed(chunk)[c] \in Seq(OfSent)
  <2>1. Unbytestaff(filter[c], chunk) \in Seq(OfSent)
    BY <1>2, UnbytestaffType
  <2> QED BY <1>2, <2>1 DEF Fed
<1>4. ASSUME NEW c \in Found(chunk), SetAnswerAndCancel(c, Verdict(Fed(chunk)[c]))
      PROVE  cmd \in slots /\ \E a : Tells(cmd, a)
  <2>1. c \in slots /\ c = cmd /\ Complete(Fed(chunk)[c]) /\ c \in Live /\ c \in Command
    BY <1>1 DEF Found
  <2>2. PICK f \in Seq(OfSent) : f = Fed(chunk)[c]
    BY <1>3, <2>1
  <2>3. f[1] \in OfSent
    BY <2>1, <2>2, ElementOfSeq, LenProperties DEF Complete
  <2>4. PICK a : a = Verdict(f)
    OBVIOUS
  <2>5. a \in ErrorAnswer \cup ReplyToSent
    <3>1. a = Error("PACKET_CRC_ERROR") \/ \E r \in {"DATA", "SHORT_DATA", "NACK"} : a = Packet(r, f[1].of)
      BY <2>4 DEF Verdict
    <3>2. f[1].of \in Sent
      BY <2>3 DEF OfSent
    <3> QED BY <3>1, <3>2 DEF ErrorAnswer, ReplyToSent
  <2>6. SetAnswerAndCancel(c, a)
    BY <1>4, <2>2, <2>4
  <2> QED BY <2>1, <2>5, <2>6 DEF Tells, SetAnswerAndCancel, SetAnswer
<1>5. stale' = stale
  BY <1>1 DEF data_received, ReaderInv, ReaderTypes
<1> QED BY <1>2, <1>3, <1>4, <1>5 DEF data_received

(* A refused write answers the open command, whoever else is called. *)
LEMMA Refused ==
    ASSUME ReaderInv, SendRefused \/ send_refused
    PROVE  /\ Tells(cmd, Error("IO_ERROR")) /\ pc = "listening" /\ pc' = "waiting" /\ cmd \in Command
           /\ UNCHANGED <<cmd, returned, filter>>
<1>1. pc = "listening" /\ cmd \in Command /\ Live = {cmd} /\ slots \subseteq Command
  BY SentTypes DEF SendRefused, send_refused, ReaderInv, ReaderTypes, CallTypes, Live
<1>2. CASE send_refused
  BY <1>1, <1>2 DEF send_refused, SetAnswerAndCancel, SetAnswer, Tells, ErrorAnswer
<1>3. CASE SendRefused
  <2> DEFINE called == {cmd} \cup {sent[i] : i \in 1..Len(sent)}
  <2>1. PICK at \in [called -> UNION {Storage(c) : c \in called}] :
          /\ \A c \in called : at[c] \in Storage(c)
          /\ slots' = slots \ {at[c] : c \in called}
          /\ answer' = [c \in Command |-> IF c \in {at[d] : d \in called} /\ answer[c] = Unset
                                          THEN Error("IO_ERROR") ELSE answer[c]]
    BY <1>3 DEF SendRefused
  <2>2. \A c \in called : at[c] \in {cmd, None}
    BY <1>1, <2>1 DEF Storage
  <2>3. at[cmd] = cmd
    BY <1>1, <2>1 DEF Storage
  <2>4. \A c \in Command : c \in {at[d] : d \in called} <=> c = cmd
    BY <2>2, <2>3 DEF Command, None
  <2> HIDE DEF called
  <2>5. slots' = slots \ {cmd}
    BY <1>1, <2>1, <2>4
  <2>6. answer' = Satisfied(cmd, Error("IO_ERROR"))
    BY <2>1, <2>4 DEF Satisfied
  <2> QED BY <1>1, <1>3, <2>5, <2>6 DEF SendRefused, Tells, ErrorAnswer
<1> QED BY <1>1, <1>2, <1>3 DEF SendRefused, send_refused

(* The steps by what they do to the call and its answer. *)
Calls == Construct \/ SendFails \/ GetAnswer \/ Destroy \/ SendThen("waiting")

Closes ==
    /\ pc \in {"idle", "closing"} /\ pc' \in {"closing", "closed"}
    /\ UNCHANGED <<cmd, returned, protocol, timer, due>>

Serves ==
    /\ UNCHANGED <<cmd, returned>>
    /\ pc' = pc \/ (pc = "listening" /\ pc' = "waiting" /\ answer'[cmd] # Unset)
    /\ \A c \in Command : filter'[c] \in Seq(OfSent)
    /\ UNCHANGED <<slots, answer>> \/ \E s, a : Tells(s, a)

LEMMA ReadPart ==
    ASSUME ReaderInv, ready # <<>>
    PROVE  SubSeq(read_buf, 1, Head(ready).n) \in Seq(OfSent)
<1>1. Head(ready) \in Entry(Len(read_buf)) /\ Len(read_buf) \in Nat
  BY FollowsTail, SentTypes DEF ReaderInv, ReaderTypes
<1>2. Head(ready).n \in Nat /\ Head(ready).n <= Len(read_buf)
  BY <1>1, EntryParts
<1> QED BY <1>1, <1>2, PartOfSeq DEF ReaderInv, ServiceInv, SentInv

LEMMA ReceivedPart ==
    ASSUME ReaderInv, NEW n \in 0..Len(rx)
    PROVE  SubSeq(rx, 1, n) \in Seq(OfSent) /\ SubSeq(rx, n + 1, Len(rx)) \in Seq(OfSent)
  BY SentTypes, PartOfSeq DEF ReaderInv, ServiceInv, SentInv

LEMMA StepCases ==
    ASSUME ReaderInv, [ReaderNext]_rvars
    PROVE  Calls \/ Closes \/ Serves
<1>1. \A c \in Command : filter[c] \in Seq(OfSent)
  BY DEF ReaderInv, ServiceInv, SentInv
<1>2. CASE BeforeSend \/ AfterSend \/ Send \/ send_async
  BY <1>2 DEF BeforeSend, AfterSend, Send, send_async, Calls
<1>3. CASE SendRefused \/ send_refused
  <2>1. Tells(cmd, Error("IO_ERROR")) /\ answer'[cmd] # Unset
    BY <1>3, Refused, ToldAnswer
  <2> QED BY <1>1, <1>3, <2>1, Refused DEF Serves
<1>4. CASE stop_iocp_thread \/ Destructor
  BY <1>4 DEF stop_iocp_thread, Destructor, Closes, asio, own
<1>5. CASE TurnStops /\ pc # "closed"
  <2>1. Head(ready) = KeyStop /\ Head(ready) = ready[1] /\ 1 \in 1..Len(ready)
    <3>1. ready # <<>> /\ Head(ready).handler = "KEY_STOP"
      BY <1>5 DEF TurnStops, Dequeues
    <3> QED BY <3>1, FollowsTail, EntryParts, SentTypes DEF ReaderInv, ReaderTypes
  <2>2. pc \in {"closing", "closed"}
    BY <2>1 DEF ReaderInv, Stopping
  <2> QED BY <1>5, <2>2 DEF TurnStops, Closes, asio, own
<1>6. CASE TurnTimesOut
  BY <1>1, <1>6, Checked DEF TurnTimesOut, Serves, client
<1>7. CASE TurnRead
  <2>1. ready # <<>> /\ UNCHANGED client /\ data_received(SubSeq(read_buf, 1, Head(ready).n))
    BY <1>7 DEF TurnRead, Dequeues
  <2>2. PICK chunk \in Seq(OfSent) : data_received(chunk)
    BY <2>1, ReadPart
  <2> QED BY <2>1, <2>2, Received DEF Serves, client
<1>8. CASE data_sent
  <2>1. UNCHANGED <<client, filter>>
    BY <1>8 DEF data_sent
  <2>2. ASSUME NEW s \in Storage(Head(writes)), SetAnswerAndCancel(s, Error("IO_ERROR"))
        PROVE  Tells(s, Error("IO_ERROR"))
    BY <2>2 DEF Storage, Tells, SetAnswerAndCancel, SetAnswer, ErrorAnswer
  <2>3. UNCHANGED <<slots, answer>> \/ \E s, a : Tells(s, a)
    BY <1>8, <2>2 DEF data_sent
  <2> QED BY <1>1, <2>1, <2>3 DEF Serves, client
<1>9. CASE recv_handler
  <2>1. PICK n \in 0..Len(rx) :
          \/ UNCHANGED <<slots, filter, answer>>
          \/ check /\ UNCHANGED filter
          \/ data_received(SubSeq(rx, 1, n))
    BY <1>9 DEF recv_handler
  <2>2. UNCHANGED client
    BY <1>9 DEF recv_handler
  <2>3. CASE data_received(SubSeq(rx, 1, n))
    <3>1. PICK chunk \in Seq(OfSent) : data_received(chunk)
      BY <2>3, ReceivedPart
    <3> QED BY <2>2, <3>1, Received DEF Serves, client
  <2> QED BY <1>1, <2>1, <2>2, <2>3, Checked DEF Serves, client
<1>10. CASE \/ DeviceAnswers \/ TimeRunsOut \/ CancelIo \/ TurnFailed \/ TurnWritten
            \/ ReadCompletes \/ ReadCompletesInError \/ WriteCompletes \/ WriteCompletesInError
            \/ UNCHANGED rvars
  BY <1>1, <1>10 DEF DeviceAnswers, Respond, TimeRunsOut, CancelIo, TurnFailed, TurnWritten, ReadCompletes,
     ReadCompletesInError, WriteCompletes, WriteDone, WriteCompletesInError, WriteFails, rvars, vars,
     client, protocol, Serves
<1> QED BY <1>2, <1>3, <1>4, <1>5, <1>6, <1>7, <1>8, <1>9, <1>10
        DEF ReaderNext, BlockwiseNext, Cp210xNext, iocp_thread

(* Every provider's step is one of the service, or none. *)
LEMMA CallsAreAnyClient == Calls => AnyClient /\ UNCHANGED <<filter, answer, timer>>
  BY DEF Calls, AnyClient, Construct, SendFails, GetAnswer, Destroy, SendThen, protocol, asio

LEMMA CallHolds ==
    ASSUME ReaderInv, [ReaderNext]_rvars
    PROVE  CallTypes' /\ CallInv' /\ Sent \subseteq Sent'
<1>1. CallTypes /\ CallInv
  BY DEF ReaderInv, ReaderTypes, ServiceInv
<1>2. CASE Calls
  <2>1. CallInv' /\ Sent \subseteq Sent'
    BY <1>1, <1>2, CallsAreAnyClient, CallStep
  <2>2. cmd' \in Command \cup {None} /\ (pc' \in {"listening", "running", "waiting", "returning"} => cmd' \in Command)
    BY <1>1, <1>2, ExchangeAssumption
       DEF Calls, Construct, SendFails, GetAnswer, Destroy, SendThen, CallTypes, Command, None
  <2>3. returned' \in [Command -> Returned]
    <3>1. \A a \in Answer : Result(a) \in Returned
      BY DEF Returned
    <3>2. CASE GetAnswer
      <4>1. answer[cmd] \in Answer
        BY <1>1, <3>2 DEF GetAnswer, CallTypes
      <4> QED BY <1>1, <3>1, <3>2, <4>1 DEF GetAnswer, CallTypes
    <3>3. CASE ~GetAnswer
      BY <1>1, <1>2, <3>3 DEF Calls, Construct, SendFails, Destroy, SendThen, CallTypes, Returned
    <3> QED BY <3>2, <3>3
  <2>4. answer' \in [Command -> Answer \cup {Unset}]
    BY <1>1, <1>2, CallsAreAnyClient DEF CallTypes
  <2> QED BY <2>1, <2>2, <2>3, <2>4 DEF CallTypes
<1>3. CASE Closes
  BY <1>1, <1>3 DEF Closes, CallTypes, CallInv, Sent, protocol
<1>4. CASE Serves
  <2>1. answer' \in [Command -> Answer \cup {Unset}]
    BY <1>1, <1>4, ToldAnswer DEF Serves, CallTypes
  <2> QED BY <1>1, <1>4, <2>1 DEF Serves, CallTypes, CallInv, Sent
<1> QED BY <1>2, <1>3, <1>4, StepCases

LEMMA ListenerHolds ==
    ASSUME ReaderInv, [ReaderNext]_rvars
    PROVE  OneListener'
<1>1. slots \subseteq Live /\ slots \subseteq {cmd} /\ cmd \in Nat
  BY SentTypes DEF ReaderInv, OneListener
<1>2. CASE Calls
  BY <1>1, <1>2 DEF Calls, Construct, SendFails, GetAnswer, Destroy, SendThen, protocol, OneListener, Live
<1>3. CASE Closes
  BY <1>1, <1>3 DEF Closes, OneListener, Live, protocol
<1>4. CASE Serves
  BY <1>1, <1>4 DEF Serves, Tells, OneListener, Live
<1> QED BY <1>2, <1>3, <1>4, StepCases

LEMMA ReaderServes ==
    ASSUME ReaderInv, [ReaderNext]_rvars
    PROVE  [Service!Next]_(Service!vars)
<1>1. CallTypes /\ CallInv
  BY DEF ReaderInv, ReaderTypes, ServiceInv
<1>2. CASE Calls
  BY <1>1, <1>2, CallsAreAnyClient, ClientServes
<1>3. CASE Closes
  BY <1>3 DEF Closes, protocol, Service!vars
<1>4. CASE Serves
  <2>1. UNCHANGED <<cmd, returned>> /\ (Open' <=> Open)
    BY <1>4 DEF Serves, Open
  <2>2. CASE UNCHANGED answer
    BY <2>1, <2>2 DEF Open, Service!vars
  <2>3. CASE \E s, a : Tells(s, a)
    <3>1. PICK s, a : Tells(s, a)
      BY <2>3
    <3>2. /\ s \in Live \cup {None} /\ answer' = Satisfied(s, a)
          /\ \/ a \in {Error(e) : e \in {"PACKET_CRC_ERROR", "IO_ERROR", "NO_ANSWER"}}
             \/ a \in {Packet(r, c) : r \in {"DATA", "SHORT_DATA", "NACK"}, c \in Sent}
      BY <3>1 DEF Tells, ErrorAnswer, ReplyToSent
    <3> QED BY <1>1, <2>1, <3>2, AnswerServes DEF Service!Next
  <2> QED BY <1>4, <2>2, <2>3 DEF Serves
<1> QED BY <1>2, <1>3, <1>4, StepCases

-----------------------------------------------------------------------------
(* The queue: an entry is taken from its front or comes to its end, and    *)
(* the packet that stops the loop comes from the destructor alone.         *)
LEMMA StoppingKept ==
    ASSUME Stopping, NEW N, KeyStop \notin N, Follows(ready', ready, N),
           pc \in {"closing", "closed"} => pc' \in {"closing", "closed"}
    PROVE  Stopping'
  BY DEF Stopping, Follows

LEMMA AbortedParts ==
    ASSUME ReaderInv
    PROVE  /\ AbortedReads \in Seq({ReadHandler(0, TRUE)})
           /\ AbortedWrites \in Seq({WriteHandler(c, TRUE) : c \in Command})
<1>1. reads \in Nat /\ Len(writes) \in Nat /\ writes \in Seq(Command)
  BY SentTypes DEF ReaderInv, ReaderTypes
<1>2. AbortedReads \in [1..reads -> {ReadHandler(0, TRUE)}]
  BY DEF AbortedReads
<1>3. AbortedWrites \in [1..Len(writes) -> {WriteHandler(c, TRUE) : c \in Command}]
  BY <1>1, ElementOfSeq DEF AbortedWrites
<1> QED BY <1>1, <1>2, <1>3, FunctionIsSeq

LEMMA BufferGrows ==
    ASSUME ReaderInv, ReadCompletes
    PROVE  /\ read_buf' \in Seq(OfSent) /\ rx' \in Seq(OfSent)
           /\ Len(read_buf) <= Len(read_buf') /\ 1 <= Len(read_buf') /\ Len(read_buf') \in Nat
<1>1. /\ rx \in Seq(OfSent) /\ read_buf \in Seq(OfSent) /\ rx # <<>> /\ Len(read_buf) \in Nat
      /\ read_buf' = Overwrite(read_buf, <<Head(rx)>>) /\ rx' = Tail(rx)
  BY SentTypes DEF ReadCompletes, ReaderInv, ServiceInv, SentInv
<1>2. Head(rx) \in OfSent /\ Tail(rx) \in Seq(OfSent)
  BY <1>1, FollowsTail
<1>3. PICK g \in OfSent : g = Head(rx)
  BY <1>2
<1>4. <<g>> \in Seq(OfSent) /\ Len(<<g>>) = 1
  OBVIOUS
<1>5. /\ SubSeq(read_buf, 2, Len(read_buf)) \in Seq(OfSent)
      /\ Len(SubSeq(read_buf, 2, Len(read_buf))) = IF 2 <= Len(read_buf) THEN Len(read_buf) - 2 + 1 ELSE 0
  BY <1>1, PartOfSeq
<1>6. PICK r \in Seq(OfSent) : r = SubSeq(read_buf, 2, Len(read_buf))
  BY <1>5
<1>7. read_buf' = <<g>> \o r
  BY <1>1, <1>3, <1>4, <1>6 DEF Overwrite
<1>8. <<g>> \o r \in Seq(OfSent) /\ Len(<<g>> \o r) = 1 + Len(r) /\ Len(r) \in Nat
  BY <1>4, ConcatProperties, LenProperties
<1>9. Len(r) = IF 2 <= Len(read_buf) THEN Len(read_buf) - 2 + 1 ELSE 0
  BY <1>5, <1>6
<1>10. \A x, y \in Nat : x = (IF 2 <= y THEN y - 2 + 1 ELSE 0) => y <= 1 + x /\ 1 <= 1 + x
  OBVIOUS
<1>11. Len(read_buf') = 1 + Len(r) /\ read_buf' \in Seq(OfSent)
  BY <1>7, <1>8
<1>12. Len(read_buf) <= 1 + Len(r) /\ 1 <= 1 + Len(r)
  BY <1>1, <1>8, <1>9, <1>10
<1> QED BY <1>1, <1>2, <1>8, <1>11, <1>12

LEMMA QueueHolds ==
    ASSUME ReaderInv, [ReaderNext]_rvars
    PROVE  ready' \in Seq(Entry(Len(read_buf'))) /\ Stopping'
<1> DEFINE k == Len(read_buf)
           S == Entry(k)
<1>1. ready \in Seq(S) /\ k \in Nat /\ writes \in Seq(Command) /\ Stopping
  BY SentTypes DEF ReaderInv, ReaderTypes
<1> HIDE DEF S, k
<1>2. /\ \A c \in Command, err \in BOOLEAN : WriteHandler(c, err) \in S /\ WriteHandler(c, err) # KeyStop
      /\ ReadHandler(0, TRUE) \in S /\ ReadHandler(0, TRUE) # KeyStop /\ KeyStop \in S
  BY <1>1, NewEntries DEF S
<1>3. ASSUME NEW N, Follows(ready', ready, N), KeyStop \notin N, ready' \in Seq(S), read_buf' = read_buf,
             pc \in {"closing", "closed"} => pc' \in {"closing", "closed"}
      PROVE  ready' \in Seq(Entry(Len(read_buf'))) /\ Stopping'
  BY <1>1, <1>3, StoppingKept DEF S, k
<1>4. CASE UNCHANGED <<ready, read_buf>> /\ ~(TurnStops /\ pc # "closed")
  <2>1. Follows(ready', ready, {}) /\ ready' \in Seq(S)
    BY <1>1, <1>4, FollowsSelf
  <2>2. pc \in {"closing", "closed"} => pc' \in {"closing", "closed"}
    BY <1>4 DEF ReaderNext, BlockwiseNext, Cp210xNext, iocp_thread, BeforeSend, AfterSend, DeviceAnswers,
       Construct, SendFails, GetAnswer, Destroy, Respond, TimeRunsOut, Send, SendThen, SendRefused,
       stop_iocp_thread, TurnTimesOut, TurnFailed, TurnRead, TurnWritten, CancelIo, ReadCompletes,
       ReadCompletesInError, WriteCompletes, WriteDone, WriteCompletesInError, WriteFails,
       send_async, send_refused, Destructor, data_sent, recv_handler, client, rvars, vars
  <2> QED BY <1>3, <1>4, <2>1, <2>2
<1>5. CASE TurnStops /\ pc # "closed"
  <2>1. Follows(ready', ready, {}) /\ ready' \in Seq(S) /\ read_buf' = read_buf
    BY <1>1, <1>5, FollowsSelf DEF TurnStops, asio
  <2> QED BY <1>3, <1>5, <2>1 DEF TurnStops
<1>6. CASE TurnTimesOut \/ TurnFailed \/ TurnRead \/ TurnWritten
  <2>1. (ready' = ready \/ (ready # <<>> /\ ready' = Tail(ready))) /\ read_buf' = read_buf /\ pc' = pc
    BY <1>6 DEF TurnTimesOut, TurnFailed, TurnRead, TurnWritten, Dequeues, client
  <2>2. Follows(ready', ready, {}) /\ ready' \in Seq(S)
    BY <1>1, <2>1, FollowsSelf, FollowsTail
  <2> QED BY <1>3, <2>1, <2>2
<1>7. CASE WriteCompletes \/ WriteCompletesInError \/ ReadCompletesInError
  <2>1. \E h \in S \ {KeyStop} : ready' = Append(ready, h)
    <3>1. CASE WriteCompletes \/ WriteCompletesInError
      <4>1. \E err \in BOOLEAN : writes # <<>> /\ ready' = Append(ready, WriteHandler(Head(writes), err))
        BY <3>1 DEF WriteCompletes, WriteCompletesInError, WriteDone, WriteFails
      <4>2. writes # <<>> => Head(writes) \in Command
        BY <1>1, FollowsTail
      <4> QED BY <1>2, <4>1, <4>2
    <3>2. CASE ReadCompletesInError
      BY <1>2, <3>2 DEF ReadCompletesInError
    <3> QED BY <1>7, <3>1, <3>2
  <2>2. PICK h \in S \ {KeyStop} : ready' = Append(ready, h)
    BY <2>1
  <2>3. read_buf' = read_buf /\ pc' = pc
    BY <1>7 DEF WriteCompletes, WriteCompletesInError, WriteDone, WriteFails, ReadCompletesInError, client
  <2>4. Follows(ready', ready, {h}) /\ ready' \in Seq(S)
    BY <1>1, <2>2, FollowsAppend
  <2> QED BY <1>3, <2>2, <2>3, <2>4
<1>8. CASE ReadCompletes
  <2>1. /\ ready' = Append(ready, ReadHandler(1, FALSE)) /\ pc' = pc
        /\ k <= Len(read_buf') /\ 1 <= Len(read_buf') /\ Len(read_buf') \in Nat
    BY <1>8, BufferGrows DEF ReadCompletes, client, k
  <2>2. ready \in Seq(Entry(Len(read_buf')))
    BY <1>1, <2>1, EntriesFit DEF S
  <2>3. PICK h \in Entry(Len(read_buf')) : h = ReadHandler(1, FALSE) /\ h # KeyStop
    BY <2>1, NewEntries
  <2>4. Follows(ready', ready, {h}) /\ ready' \in Seq(Entry(Len(read_buf')))
    BY <2>1, <2>2, <2>3, FollowsAppend
  <2> QED BY <1>1, <2>1, <2>3, <2>4, StoppingKept
<1>9. CASE CancelIo
  <2>1. ready' = ready \o AbortedReads /\ read_buf' = read_buf /\ pc' = pc
    BY <1>9 DEF CancelIo, client
  <2>2. Follows(ready', ready, {ReadHandler(0, TRUE)}) /\ ready' \in Seq(S)
    BY <1>1, <1>2, <2>1, AbortedParts, FollowsConcat
  <2> QED BY <1>2, <1>3, <2>1, <2>2
<1>10. CASE stop_iocp_thread
  <2>1. ready' = Append(ready \o AbortedWrites, KeyStop) /\ read_buf' = read_buf /\ pc' = "closing"
    BY <1>10 DEF stop_iocp_thread
  <2>2. ready \o AbortedWrites \in Seq(S)
    <3>1. {WriteHandler(c, TRUE) : c \in Command} \subseteq S
      BY <1>2
    <3> QED BY <1>1, <3>1, AbortedParts, FollowsConcat
  <2>3. ready' \in Seq(S)
    BY <1>2, <2>1, <2>2, AppendProperties
  <2> QED BY <2>1, <2>3 DEF Stopping, S, k
<1> QED BY <1>4, <1>5, <1>6, <1>7, <1>8, <1>9, <1>10
        DEF ReaderNext, BlockwiseNext, Cp210xNext, iocp_thread, BeforeSend, AfterSend, DeviceAnswers,
            Construct, SendFails, GetAnswer, Destroy, Respond, TimeRunsOut, Send, SendThen, SendRefused,
            send_async, send_refused, Destructor, data_sent, recv_handler, asio, rvars, vars

-----------------------------------------------------------------------------
(* The line. *)
LEMMA ResponseParts ==
    ASSUME ReaderInv, Respond
    PROVE  /\ \A c \in Command : device'[c] # "none" => device[c] # "none"
           /\ device' \in [Command -> {"none", "received", "responding", "done"}]
           /\ rx' \in Seq(OfSent) /\ read_buf' = read_buf
<1>1. device \in [Command -> {"none", "received", "responding", "done"}]
  BY DEF ReaderInv, ReaderTypes
<1>2. PICK c \in Command :
        \/ /\ device[c] = "received"
           /\ device' = [device EXCEPT ![c] = "responding"]
           /\ rx' = Append(rx, [of |-> c, part |-> "head"])
        \/ /\ device[c] = "responding"
           /\ device' = [device EXCEPT ![c] = "done"]
           /\ \E kind \in Replies : rx' = Append(rx, [of |-> c, part |-> kind])
  BY DEF Respond
<1>3. c \in Sent
  BY <1>2 DEF ReaderInv, ServiceInv, SentInv
<1>4. \A kind \in {"head"} \cup Replies : [of |-> c, part |-> kind] \in OfSent
  BY <1>3 DEF Fragment, OfSent
<1>5. \E g \in OfSent : rx' = Append(rx, g)
  BY <1>2, <1>4
<1>6. rx' \in Seq(OfSent)
  BY <1>5, AppendProperties DEF ReaderInv, ServiceInv, SentInv
<1> QED BY <1>1, <1>2, <1>6 DEF Respond, asio

LEMMA SentHolds ==
    ASSUME ReaderInv, [ReaderNext]_rvars
    PROVE  SentInv'
<1>1. /\ writes \in Seq(Sent) /\ rx \in Seq(OfSent) /\ read_buf \in Seq(OfSent) /\ CallInv /\ CallTypes
      /\ \A c \in Command : device[c] # "none" => c \in Sent
      /\ \A c \in Command : filter[c] \in Seq(OfSent)
      /\ device \in [Command -> {"none", "received", "responding", "done"}]
  BY DEF ReaderInv, ReaderTypes, ServiceInv, SentInv
<1>2. Sent \subseteq Sent' /\ OfSent \subseteq OfSent'
  BY CallHolds DEF OfSent
<1>3. Seq(Sent) \subseteq Seq(Sent') /\ Seq(OfSent) \subseteq Seq(OfSent')
  BY <1>2, SeqMonotonic
<1>4. writes' \in Seq(Sent')
  <2>1. CASE Send \/ send_async
    <3>1. cmd' = cmd /\ returned' = returned /\ pc' # "listening" /\ cmd \in 1..cmd
          /\ pc = "listening" /\ writes' = Append(writes, cmd)
      BY <1>1, <2>1 DEF Send, send_async, SendThen, CallTypes, Command
    <3>2. returned[cmd] # Error("TOO_LONG")
      BY <1>1, <3>1 DEF CallInv, Unset, Error
    <3>3. cmd \in Sent'
      BY <3>1, <3>2 DEF Sent
    <3> QED BY <1>1, <1>3, <3>1, <3>3, AppendProperties
  <2>2. CASE WriteCompletes \/ WriteCompletesInError \/ data_sent
    <3>1. writes # <<>> /\ writes' = Tail(writes)
      BY <2>2 DEF WriteCompletes, WriteCompletesInError, data_sent, WriteDone, WriteFails
    <3> QED BY <1>1, <1>3, <3>1, FollowsTail
  <2>3. CASE stop_iocp_thread
    BY <2>3, EmptySeq DEF stop_iocp_thread
  <2>4. CASE UNCHANGED writes
    BY <1>1, <1>3, <2>4
  <2> QED BY <2>1, <2>2, <2>3, <2>4
          DEF ReaderNext, BlockwiseNext, Cp210xNext, iocp_thread, BeforeSend, AfterSend, DeviceAnswers,
              Construct, SendFails, GetAnswer, Destroy, Respond, TimeRunsOut, SendRefused, TurnTimesOut,
              TurnFailed, TurnRead, TurnWritten, TurnStops, CancelIo, ReadCompletes, ReadCompletesInError,
              send_refused, Destructor, recv_handler, asio, rvars, vars
<1>5. \A c \in Command : device'[c] # "none" => c \in Sent'
  <2>1. CASE WriteCompletes \/ data_sent
    <3>1. writes # <<>> /\ Head(writes) \in Sent
      BY <1>1, <2>1, FollowsTail DEF WriteCompletes, WriteDone, data_sent
    <3>2. \A c \in Command : c # Head(writes) => device'[c] = device[c]
      BY <1>1, <2>1 DEF WriteCompletes, WriteDone, data_sent
    <3> QED BY <1>1, <1>2, <3>1, <3>2
  <2>2. CASE DeviceAnswers
    BY <1>1, <1>2, <2>2, ResponseParts DEF DeviceAnswers
  <2>3. CASE UNCHANGED device
    BY <1>1, <1>2, <2>3
  <2> QED BY <2>1, <2>2, <2>3
          DEF ReaderNext, BlockwiseNext, Cp210xNext, iocp_thread, BeforeSend, AfterSend, Send, SendThen,
              Construct, SendFails, GetAnswer, Destroy, TimeRunsOut, SendRefused, stop_iocp_thread,
              TurnTimesOut, TurnFailed, TurnRead, TurnWritten, TurnStops, CancelIo, ReadCompletes,
              ReadCompletesInError, WriteCompletesInError, WriteFails, send_async, send_refused,
              Destructor, recv_handler, line, rvars, vars
<1>6. rx' \in Seq(OfSent') /\ read_buf' \in Seq(OfSent')
  <2>1. CASE DeviceAnswers \/ ReadCompletes
    BY <1>1, <1>3, <2>1, ResponseParts, BufferGrows DEF DeviceAnswers
  <2>2. CASE recv_handler
    <3>1. PICK n \in 0..Len(rx) : rx' = SubSeq(rx, n + 1, Len(rx))
      BY <2>2 DEF recv_handler
    <3>2. rx' \in Seq(OfSent) /\ read_buf' = read_buf
      BY <2>2, <3>1, ReceivedPart DEF recv_handler
    <3> QED BY <1>1, <1>3, <3>2
  <2>3. CASE UNCHANGED <<rx, read_buf>>
    BY <1>1, <1>3, <2>3
  <2> QED BY <2>1, <2>2, <2>3
          DEF ReaderNext, BlockwiseNext, Cp210xNext, iocp_thread, BeforeSend, AfterSend, Send, SendThen,
              Construct, SendFails, GetAnswer, Destroy, TimeRunsOut, SendRefused, stop_iocp_thread,
              TurnTimesOut, TurnFailed, TurnRead, TurnWritten, TurnStops, CancelIo, ReadCompletesInError,
              WriteCompletes, WriteDone, WriteCompletesInError, WriteFails, send_async, send_refused,
              Destructor, data_sent, line, asio, rvars, vars
<1>7. \A c \in Command : filter'[c] \in Seq(OfSent')
  <2>1. \A c \in Command : filter'[c] \in Seq(OfSent)
    BY <1>1, StepCases, CallsAreAnyClient DEF Closes, Serves, protocol
  <2> QED BY <1>3, <2>1
<1> QED BY <1>4, <1>5, <1>6, <1>7 DEF SentInv

(* The other variables. *)
LEMMA RestHolds ==
    ASSUME ReaderInv, [ReaderNext]_rvars
    PROVE  /\ reads' \in Nat /\ timer' \in Command \cup {None} /\ sent' \in Seq(Command)
           /\ device' \in [Command -> {"none", "received", "responding", "done"}]
           /\ expired' \subseteq Command /\ {stale, due}' \subseteq BOOLEAN
<1>1. /\ reads \in Nat /\ timer \in Command \cup {None} /\ sent \in Seq(Command)
      /\ device \in [Command -> {"none", "received", "responding", "done"}]
      /\ expired \subseteq Command /\ stale \in BOOLEAN /\ due \in BOOLEAN
      /\ pc = "listening" => cmd \in Command
  BY DEF ReaderInv, ReaderTypes, CallTypes
<1>2. writes # <<>> => Head(writes) \in Command
  BY SentTypes, FollowsTail
<1>3. sent # <<>> => sent[Len(sent)] \in Command
  BY <1>1, SentTypes, ElementOfSeq, EmptySeq
<1>4. reads' \in Nat
  <2>1. CASE TurnRead \/ TurnWritten
    BY <1>1, <2>1 DEF TurnRead, TurnWritten, ReadAgain, Read
  <2>2. CASE ReadCompletes \/ ReadCompletesInError \/ CancelIo
    <3>1. reads' = 0 \/ (reads > 0 /\ reads' = reads - 1)
      BY <2>2 DEF ReadCompletes, ReadCompletesInError, CancelIo
    <3> QED BY <1>1, <3>1
  <2>3. CASE data_sent
    BY <1>1, <2>3 DEF data_sent, recv_async
  <2>4. CASE recv_handler
    <3>1. reads - 1 \in Nat
      BY <1>1, <2>4 DEF recv_handler
    <3>2. reads' = reads - 1 \/ \E chunk : ReceiveOn(chunk)
      BY <2>4 DEF recv_handler
    <3> QED BY <3>1, <3>2 DEF ReceiveOn, recv_async
  <2>5. CASE UNCHANGED reads
    BY <1>1, <2>5
  <2> QED BY <2>1, <2>2, <2>3, <2>4, <2>5
          DEF ReaderNext, BlockwiseNext, Cp210xNext, iocp_thread, BeforeSend, AfterSend, DeviceAnswers,
              Send, SendThen, Construct, SendFails, GetAnswer, Destroy, Respond, TimeRunsOut, SendRefused,
              stop_iocp_thread, TurnTimesOut, TurnFailed, TurnStops, WriteCompletes, WriteDone,
              WriteCompletesInError, WriteFails, send_async, send_refused, Destructor, asio, rvars, vars
<1>5. timer' \in Command \cup {None} /\ due' \in BOOLEAN
  BY <1>1, <1>2, <1>3
     DEF ReaderNext, BlockwiseNext, Cp210xNext, iocp_thread, BeforeSend, AfterSend, DeviceAnswers,
       Send, SendThen, Construct, SendFails, GetAnswer, Destroy, Respond, TimeRunsOut, SendRefused,
       stop_iocp_thread, TurnTimesOut, TurnFailed, TurnRead, TurnWritten, TurnStops, Start, check,
       CancelIo, ReadCompletes, ReadCompletesInError, WriteCompletes, WriteDone, data_received,
       WriteCompletesInError, WriteFails, send_async, send_refused, Destructor, data_sent,
       recv_handler, SetAnswerAndCancel, SetAnswer, Quiet, asio, own, rvars, vars
<1>6. sent' \in Seq(Command)
  <2>1. CASE Send
    BY <1>1, <2>1, AppendProperties DEF Send, SendThen
  <2>2. CASE ~Send
    <3>1. sent' = sent \/ sent' = <<>>
      BY <2>2 DEF ReaderNext, BlockwiseNext, iocp_thread, SendRefused,
         stop_iocp_thread, TurnTimesOut, TurnFailed, TurnRead, TurnWritten, TurnStops, CancelIo,
         ReadCompletes, ReadCompletesInError, WriteCompletes, WriteCompletesInError, rvars
    <3> QED BY <1>1, <3>1, EmptySeq
  <2> QED BY <2>1, <2>2
<1>7. device' \in [Command -> {"none", "received", "responding", "done"}]
  BY <1>1, <1>2, ResponseParts
     DEF ReaderNext, BlockwiseNext, Cp210xNext, iocp_thread, BeforeSend, AfterSend, DeviceAnswers,
       Send, SendThen, Construct, SendFails, GetAnswer, Destroy, TimeRunsOut, SendRefused,
       stop_iocp_thread, TurnTimesOut, TurnFailed, TurnRead, TurnWritten, TurnStops,
       CancelIo, ReadCompletes, ReadCompletesInError, WriteCompletes, WriteDone,
       WriteCompletesInError, WriteFails, send_async, send_refused, Destructor, data_sent,
       recv_handler, line, rvars, vars
<1>8. expired' \subseteq Command /\ stale' \in BOOLEAN
  BY <1>1
     DEF ReaderNext, BlockwiseNext, Cp210xNext, iocp_thread, BeforeSend, AfterSend, DeviceAnswers,
       Send, SendThen, Construct, SendFails, GetAnswer, Destroy, Respond, TimeRunsOut, SendRefused,
       stop_iocp_thread, TurnTimesOut, TurnFailed, TurnRead, TurnWritten, TurnStops, check,
       CancelIo, ReadCompletes, ReadCompletesInError, WriteCompletes, WriteDone, data_received,
       WriteCompletesInError, WriteFails, send_async, send_refused, Destructor, data_sent,
       recv_handler, history, rvars, vars
<1> QED BY <1>4, <1>5, <1>6, <1>7, <1>8

LEMMA ReaderStep == ReaderInv /\ [ReaderNext]_rvars => ReaderInv'
  BY CallHolds, ListenerHolds, QueueHolds, SentHolds, RestHolds DEF ReaderInv, ReaderTypes, ServiceInv

LEMMA ReaderStarts == ReaderInit => ReaderInv
<1> SUFFICES ASSUME ReaderInit PROVE ReaderInv
  OBVIOUS
<1>1. BaseInv
  BY BaseInit DEF ReaderInit, Init
<1>2. ServiceInv /\ OneListener /\ CallTypes
  BY <1>1 DEF BaseInv, TypeInv, TypeOK, CallTypes
<1>3. ready = <<>> /\ sent = <<>> /\ due = FALSE
  BY DEF ReaderInit, Init, Opened
<1>4. TypeOK
  BY <1>1 DEF BaseInv, TypeInv
<1>5. Stopping
  BY <1>3 DEF Stopping
<1>6. ready \in Seq(Entry(Len(read_buf))) /\ sent \in Seq(Command)
  BY <1>3, EmptySeq
<1>7. ReaderTypes
  BY <1>2, <1>3, <1>4, <1>6 DEF ReaderTypes, TypeOK
<1> QED BY <1>2, <1>5, <1>7 DEF ReaderInv

LEMMA ReaderHolds == Spec => []ReaderInv
  BY ReaderStarts, ReaderStep, PTL DEF Spec

(* Two providers that look at the clock themselves, and are called back by *)
(* the system in no particular order, still give what send_command         *)
(* promises: one answer, to the command that is open, which is an error or *)
(* a reply to a command that was sent.                                     *)
THEOREM ServiceIsGiven == Spec => ImplementsCommandService
<1>1. ReaderInit => Service!Init
  BY ServiceInit DEF ReaderInit, Init
<1>2. ReaderInv /\ [ReaderNext]_rvars => [Service!Next]_(Service!vars)
  BY ReaderServes
<1> QED BY <1>1, <1>2, ReaderHolds, PTL DEF Spec, ImplementsCommandService, Service!Spec

-----------------------------------------------------------------------------
(* Whose timeout, listener or write it is. *)
Held ==
    {timer} \cup {sent[i] : i \in 1..Len(sent)} \cup {writes[i] : i \in 1..Len(writes)}

(* Commands to come are untouched, and nothing is held for them. *)
History ==
    /\ \A c \in Command : c > cmd => answer[c] = Unset
    /\ \A e \in expired : e <= cmd
    /\ \A t \in Held : t <= cmd
    /\ due => timer \in expired

LEMMA HeldStep ==
    ASSUME ReaderInv, [ReaderNext]_rvars
    PROVE  /\ Held' \subseteq Held \cup {None} \cup (IF pc = "listening" THEN {cmd} ELSE {})
           /\ cmd' = cmd \/ (Construct /\ cmd' = cmd + 1)
           /\ UNCHANGED impl
<1>1. writes \in Seq(Command) /\ sent \in Seq(Command) /\ Len(sent) \in Nat
  BY SentTypes DEF ReaderInv, ReaderTypes
<1> DEFINE New == IF pc = "listening" THEN {cmd} ELSE {}
<1>2. \A i \in 1..Len(writes') : writes'[i] \in Held \cup New
  <2>1. CASE Send \/ send_async
    <3>1. pc = "listening" /\ cmd \in Command /\ writes' = Append(writes, cmd)
      BY <2>1 DEF Send, send_async, SendThen, ReaderInv, ReaderTypes, CallTypes
    <3>2. /\ Len(Append(writes, cmd)) = Len(writes) + 1 /\ Len(writes) \in Nat
          /\ \A k \in 1..Len(writes) : Append(writes, cmd)[k] = writes[k]
          /\ Append(writes, cmd)[Len(writes) + 1] = cmd
      BY <1>1, <3>1, FollowsAppend
    <3> QED BY <3>1, <3>2 DEF Held
  <2>2. CASE WriteCompletes \/ WriteCompletesInError \/ data_sent
    <3>1. writes # <<>> /\ writes' = Tail(writes)
      BY <2>2 DEF WriteCompletes, WriteCompletesInError, data_sent, WriteDone, WriteFails
    <3>2. \A k \in 1..Len(Tail(writes)) : k + 1 \in 1..Len(writes) /\ Tail(writes)[k] = writes[k + 1]
      BY <1>1, <3>1, FollowsTail
    <3> QED BY <3>1, <3>2 DEF Held
  <2>3. CASE stop_iocp_thread
    BY <2>3 DEF stop_iocp_thread
  <2>4. CASE UNCHANGED writes
    BY <2>4 DEF Held
  <2> QED BY <2>1, <2>2, <2>3, <2>4
          DEF ReaderNext, BlockwiseNext, Cp210xNext, iocp_thread, BeforeSend, AfterSend, DeviceAnswers,
              Construct, SendFails, GetAnswer, Destroy, Respond, TimeRunsOut, SendRefused, TurnTimesOut,
              TurnFailed, TurnRead, TurnWritten, TurnStops, CancelIo, ReadCompletes, ReadCompletesInError,
              send_refused, Destructor, recv_handler, asio, rvars, vars
<1>3. \A i \in 1..Len(sent') : sent'[i] \in Held \cup New
  <2>1. CASE Send
    <3>1. pc = "listening" /\ cmd \in Command /\ sent' = Append(sent, cmd)
      BY <2>1 DEF Send, SendThen, ReaderInv, ReaderTypes, CallTypes
    <3>2. /\ Len(Append(sent, cmd)) = Len(sent) + 1
          /\ \A k \in 1..Len(sent) : Append(sent, cmd)[k] = sent[k]
          /\ Append(sent, cmd)[Len(sent) + 1] = cmd
      BY <1>1, <3>1, FollowsAppend
    <3> QED BY <1>1, <3>1, <3>2 DEF Held
  <2>2. CASE ~Send
    <3>1. sent' = sent \/ sent' = <<>>
      BY <2>2 DEF ReaderNext, BlockwiseNext, iocp_thread, SendRefused,
         stop_iocp_thread, TurnTimesOut, TurnFailed, TurnRead, TurnWritten, TurnStops, CancelIo,
         ReadCompletes, ReadCompletesInError, WriteCompletes, WriteCompletesInError, rvars
    <3> QED BY <3>1 DEF Held
  <2> QED BY <2>1, <2>2
<1>4. timer' \in Held \cup {None}
  <2>1. CASE TurnWritten
    <3>1. timer' = timer \/ (sent # <<>> /\ timer' = sent[Len(sent)])
      BY <2>1 DEF TurnWritten, Start
    <3>2. sent # <<>> => Len(sent) \in 1..Len(sent)
      BY <1>1, EmptySeq
    <3> QED BY <3>1, <3>2 DEF Held
  <2>2. CASE data_sent
    <3>1. timer' = None \/ (writes # <<>> /\ timer' = Head(writes))
      BY <2>2 DEF data_sent, Start, SetAnswerAndCancel, SetAnswer
    <3>2. writes # <<>> => Head(writes) = writes[1] /\ 1 \in 1..Len(writes)
      BY <1>1, FollowsTail
    <3> QED BY <3>1, <3>2 DEF Held
  <2>3. CASE timer' \in {timer, None}
    BY <2>3 DEF Held
  <2> QED BY <2>1, <2>2, <2>3
     DEF ReaderNext, BlockwiseNext, Cp210xNext, iocp_thread, BeforeSend, AfterSend, DeviceAnswers,
       Send, SendThen, Construct, SendFails, GetAnswer, Destroy, Respond, TimeRunsOut, SendRefused,
       stop_iocp_thread, TurnTimesOut, TurnFailed, TurnRead, TurnStops, check,
       CancelIo, ReadCompletes, ReadCompletesInError, WriteCompletes, WriteDone, data_received,
       WriteCompletesInError, WriteFails, send_async, send_refused, Destructor,
       recv_handler, SetAnswerAndCancel, SetAnswer, asio, rvars, vars
<1>5. Held' \subseteq Held \cup {None} \cup New
  BY <1>2, <1>3, <1>4 DEF Held
<1>6. cmd' = cmd \/ (Construct /\ cmd' = cmd + 1)
  BY StepCases DEF Calls, Closes, Serves, Construct, SendFails, GetAnswer, Destroy, SendThen
<1>7. UNCHANGED impl
  BY DEF ReaderNext, BlockwiseNext, Cp210xNext, iocp_thread, BeforeSend, AfterSend, DeviceAnswers, Quiet,
       Send, TimeRunsOut, SendRefused, stop_iocp_thread, TurnTimesOut, TurnFailed, TurnRead,
       TurnWritten, TurnStops, CancelIo, ReadCompletes, ReadCompletesInError, WriteCompletes,
       WriteCompletesInError, send_async, send_refused, Destructor, data_sent, recv_handler, own, rvars
<1> QED BY <1>5, <1>6, <1>7

(* The time runs out for the timeout that is active. *)
LEMMA TimeStep ==
    ASSUME ReaderInv, [ReaderNext]_rvars
    PROVE  /\ expired' = expired \/ (TimeRunsOut /\ timer # None /\ expired' = expired \cup {timer})
           /\ due' = FALSE \/ UNCHANGED <<due, timer>> \/ (TimeRunsOut /\ UNCHANGED timer)
<1>1. expired' = expired \/ (TimeRunsOut /\ timer # None /\ expired' = expired \cup {timer})
  BY DEF ReaderNext, BlockwiseNext, Cp210xNext, iocp_thread, BeforeSend, AfterSend, DeviceAnswers,
       Send, SendThen, Construct, SendFails, GetAnswer, Destroy, Respond, TimeRunsOut, SendRefused,
       stop_iocp_thread, TurnTimesOut, TurnFailed, TurnRead, TurnWritten, TurnStops,
       CancelIo, ReadCompletes, ReadCompletesInError, WriteCompletes, WriteDone,
       WriteCompletesInError, WriteFails, send_async, send_refused, Destructor, data_sent,
       recv_handler, history, rvars, vars
<1>2. due' = FALSE \/ UNCHANGED <<due, timer>> \/ (TimeRunsOut /\ UNCHANGED timer)
  BY DEF ReaderNext, BlockwiseNext, Cp210xNext, iocp_thread, BeforeSend, AfterSend, DeviceAnswers, Quiet,
       Send, SendThen, Construct, SendFails, GetAnswer, Destroy, Respond, TimeRunsOut, SendRefused,
       stop_iocp_thread, TurnTimesOut, TurnFailed, TurnRead, TurnWritten, TurnStops, Start, check,
       CancelIo, ReadCompletes, ReadCompletesInError, WriteCompletes, WriteDone, data_received,
       WriteCompletesInError, WriteFails, send_async, send_refused, Destructor, data_sent,
       recv_handler, SetAnswerAndCancel, asio, own, rvars, vars
<1> QED BY <1>1, <1>2

LEMMA HistoryStep == ReaderInv /\ History /\ [ReaderNext]_rvars => History'
<1> SUFFICES ASSUME ReaderInv, History, [ReaderNext]_rvars PROVE History'
  OBVIOUS
<1>1. /\ cmd \in Nat /\ cmd' \in {cmd, cmd + 1} /\ timer \in Command \cup {None}
      /\ expired \subseteq Command /\ Held' \subseteq Held \cup {None} \cup (IF pc = "listening" THEN {cmd} ELSE {})
      /\ answer \in [Command -> Answer \cup {Unset}]
  BY HeldStep, SentTypes DEF ReaderInv, ReaderTypes, CallTypes
<1>2. Held \subseteq Nat
  <2>1. \A i \in 1..Len(sent) : sent[i] \in Nat
    <3>1. sent \in Seq(Command)
      BY DEF ReaderInv, ReaderTypes
    <3>2. \A i \in 1..Len(sent) : sent[i] \in Command
      BY <3>1, ElementOfSeq
    <3>3. Command \subseteq Nat
      BY DEF Command
    <3> QED BY <3>2, <3>3
  <2>2. \A i \in 1..Len(writes) : writes[i] \in Nat
    <3>1. writes \in Seq(Command)
      BY SentTypes
    <3>2. \A i \in 1..Len(writes) : writes[i] \in Command
      BY <3>1, ElementOfSeq
    <3>3. Command \subseteq Nat
      BY DEF Command
    <3> QED BY <3>2, <3>3
  <2> QED BY <1>1, <2>1, <2>2 DEF Held, Command, None
<1>3. \A t \in Held' : t <= cmd'
  BY <1>1, <1>2 DEF History, None
<1>4. \A e \in expired' : e <= cmd'
  <2>1. timer <= cmd /\ timer \in Nat
    BY <1>1 DEF History, Held, Command, None
  <2>2. \A e \in expired : e \in Nat /\ e <= cmd
    BY <1>1 DEF History, Command
  <2>3. expired' = expired \/ expired' = expired \cup {timer}
    BY TimeStep
  <2>4. cmd <= cmd'
    BY <1>1
  <2>5. \A e \in expired' : e \in Nat /\ e <= cmd
    BY <2>1, <2>2, <2>3
  <2> QED BY <1>1, <2>4, <2>5
<1>5. due' => timer' \in expired'
  <2>1. TimeRunsOut => timer \in expired'
    BY DEF TimeRunsOut
  <2>2. expired \subseteq expired'
    BY TimeStep
  <2> QED BY <2>1, <2>2, TimeStep DEF History
<1>6. \A c \in Command : c > cmd' => answer'[c] = Unset
  <2>1. ASSUME NEW c \in Command, c > cmd' PROVE answer'[c] = Unset
    <3>1. c > cmd /\ answer[c] = Unset /\ c # cmd /\ c \in Nat
      BY <1>1, <2>1 DEF History, Command
    <3>2. UNCHANGED answer \/ \E s, a : Tells(s, a)
      BY StepCases, CallsAreAnyClient DEF Closes, Serves, protocol
    <3>3. ASSUME NEW s, NEW a, Tells(s, a) PROVE answer'[c] = answer[c]
      <4>1. c # s
        <5>1. Live \subseteq {cmd} /\ c # None
          BY <1>1, <3>1 DEF Live, None
        <5> QED BY <3>1, <3>3, <5>1 DEF Tells
      <4> QED BY <2>1, <3>3, <4>1, ToldAnswer
    <3> QED BY <3>1, <3>2, <3>3
  <2> QED BY <2>1
<1> QED BY <1>3, <1>4, <1>5, <1>6 DEF History

-----------------------------------------------------------------------------
(* The cp210x provider has one thing under way, its write or a receive     *)
(* with the timeout, and only while its command waits for an answer.       *)
UsbOrder ==
    /\ sent = <<>> /\ ~stale /\ pc # "running" /\ reads <= 1
    /\ \A k \in 1..Len(ready) : ~Brings(ready[k])
    /\ ~Awaited => reads = 0 /\ timer = None /\ writes = <<>>
    /\ Awaited => \/ writes = <<cmd>> /\ reads = 0 /\ timer = None
                  \/ writes = <<>> /\ timer = cmd
    /\ pc = "listening" => answer[cmd] = Unset

UsbInv == impl = "cp210x" => UsbOrder

(* A step that gives an answer and leaves nothing. *)
LEMMA UsbAnswered ==
    ASSUME ReaderInv, UsbOrder, NEW a, Tells(cmd, a), cmd \in Command, cmd' = cmd,
           pc' = "waiting", writes' = <<>>, reads' = 0, UNCHANGED <<sent, stale, ready>>
    PROVE  UsbOrder'
<1>1. answer'[cmd] # Unset
  BY ToldAnswer
<1>2. ~Awaited'
  BY <1>1 DEF Awaited
<1> QED BY <1>2 DEF UsbOrder, Tells

LEMMA AwaitedOpen ==
    ASSUME ReaderInv, Awaited
    PROVE  cmd \in Command /\ Live = {cmd}
  BY DEF ReaderInv, ReaderTypes, CallTypes, Awaited, Live

LEMMA UsbStep ==
    ASSUME ReaderInv, History, UsbOrder, Cp210xNext, sent' = sent
    PROVE  UsbOrder'
<1>1. /\ cmd \in Nat /\ reads \in Nat /\ timer \in Command \cup {None} /\ None \notin Command
      /\ pc \in {"listening", "running", "waiting", "returning"} => cmd \in Command
  BY SentTypes DEF ReaderInv, ReaderTypes, CallTypes, Command, None
<1>2. CASE Construct /\ Quiet
  <2>1. cmd + 1 \in Command
    BY <1>1, <1>2, ExchangeAssumption DEF Construct, Command
  <2>2. answer'[cmd'] = Unset /\ ~Awaited /\ ~Awaited'
    BY <1>1, <1>2, <2>1 DEF Construct, History, Awaited
  <2> QED BY <1>2, <2>2 DEF Construct, UsbOrder, asio, history
<1>3. CASE SendFails \/ GetAnswer \/ Destroy \/ Destructor
  <2>1. ~Awaited /\ ~Awaited' /\ pc' \notin {"running", "listening"}
    BY <1>3 DEF SendFails, GetAnswer, Destroy, Destructor, Awaited
  <2> QED BY <1>3, <2>1 DEF SendFails, GetAnswer, Destroy, Destructor, UsbOrder, asio, history
<1>4. CASE DeviceAnswers \/ TimeRunsOut
  <2>1. UNCHANGED <<cmd, pc, answer, reads, timer, writes, ready, stale>>
    BY <1>4 DEF DeviceAnswers, Respond, TimeRunsOut, client, protocol, asio, history
  <2> QED BY <2>1 DEF UsbOrder, Awaited
<1>5. CASE send_async
  <2>1. ~Awaited /\ answer[cmd] = Unset /\ writes = <<>> /\ reads = 0 /\ timer = None
    BY <1>5 DEF send_async, SendThen, UsbOrder, Awaited
  <2>2. writes' = <<cmd>> /\ pc' = "waiting" /\ UNCHANGED <<cmd, answer, reads, timer, ready, stale>>
    BY <1>5, <2>1 DEF send_async, SendThen, protocol, history
  <2> QED BY <2>1, <2>2 DEF UsbOrder, Awaited
<1>6. CASE send_refused
  <2>1. ~Awaited
    BY <1>6 DEF send_refused, Awaited
  <2>2. Tells(cmd, Error("IO_ERROR")) /\ pc' = "waiting" /\ cmd \in Command /\ cmd' = cmd
    BY <1>6, Refused
  <2> QED BY <1>6, <2>1, <2>2, UsbAnswered DEF send_refused, UsbOrder
<1>7. CASE data_sent
  <2>1. Awaited /\ writes = <<cmd>> /\ reads = 0 /\ timer = None /\ UNCHANGED client
    BY <1>7 DEF data_sent, UsbOrder
  <2>2. cmd \in Command /\ Live = {cmd} /\ Head(writes) = cmd /\ writes' = <<>> /\ pc = "waiting"
    BY <1>7, <2>1, AwaitedOpen DEF data_sent, UsbOrder, Awaited
  <2>3. stale' = stale /\ ready' = ready
    BY <1>7, <2>2 DEF data_sent, ReaderInv, ReaderTypes
  <2>4. CASE \E s \in Storage(Head(writes)) : SetAnswerAndCancel(s, Error("IO_ERROR")) /\ reads' = reads
    <3>1. SetAnswerAndCancel(cmd, Error("IO_ERROR")) /\ reads' = 0
      BY <2>1, <2>2, <2>4 DEF Storage
    <3>2. Tells(cmd, Error("IO_ERROR"))
      BY <2>2, <3>1 DEF Tells, SetAnswerAndCancel, SetAnswer, ErrorAnswer
    <3> QED BY <2>1, <2>2, <2>3, <3>1, <3>2, UsbAnswered DEF client
  <2>5. CASE Start(Head(writes)) /\ recv_async(reads) /\ UNCHANGED <<slots, answer>>
    BY <2>1, <2>2, <2>3, <2>5 DEF Start, recv_async, UsbOrder, Awaited, client
  <2> QED BY <1>7, <2>4, <2>5 DEF data_sent
<1>8. CASE recv_handler
  <2>1. Awaited /\ writes = <<>> /\ timer = cmd /\ reads = 1 /\ UNCHANGED <<client, writes, ready>>
    BY <1>1, <1>8 DEF recv_handler, UsbOrder
  <2>2. cmd \in Command /\ Live = {cmd} /\ pc = "waiting"
    BY <2>1, AwaitedOpen DEF UsbOrder, Awaited
  <2>3. CASE check /\ reads' = reads - 1
    <3>1. \E a : Tells(cmd, a) /\ stale' = stale
      BY <2>1, <2>2, <2>3, Checked
    <3> QED BY <2>1, <2>2, <2>3, <3>1, UsbAnswered DEF client
  <2>4. CASE UNCHANGED <<slots, answer, timer, stale>> /\ reads' = reads - 1
    BY <2>1, <2>4 DEF UsbOrder, Awaited, client
  <2>5. ASSUME NEW n \in 0..Len(rx), data_received(SubSeq(rx, 1, n)), ReceiveOn(SubSeq(rx, 1, n))
        PROVE  UsbOrder'
    <3>1. PICK chunk \in Seq(OfSent) : data_received(chunk) /\ ReceiveOn(chunk)
      BY <2>5, ReceivedPart
    <3>2. stale' = stale
      BY <3>1, Received
    <3>3. CASE Found(chunk) = {} /\ UNCHANGED <<slots, answer, timer, due>>
      <4>1. reads' \in {0, 1}
        BY <2>1, <3>1, <3>3 DEF ReceiveOn, recv_async
      <4> QED BY <2>1, <3>2, <3>3, <4>1 DEF UsbOrder, Awaited, client
    <3>4. CASE Found(chunk) # {} /\ \E a : Tells(cmd, a)
      <4>1. reads' = 0
        BY <2>1, <3>1, <3>4 DEF ReceiveOn
      <4> QED BY <2>1, <2>2, <3>2, <3>4, <4>1, UsbAnswered DEF client
    <3> QED BY <3>1, <3>3, <3>4, Received
  <2> QED BY <1>8, <2>3, <2>4, <2>5 DEF recv_handler
<1> QED BY <1>2, <1>3, <1>4, <1>5, <1>6, <1>7, <1>8 DEF Cp210xNext, BeforeSend, AfterSend

LEMMA UsbInvStep == ReaderInv /\ History /\ UsbInv /\ [ReaderNext]_rvars => UsbInv'
<1> SUFFICES ASSUME ReaderInv, History, UsbInv, [ReaderNext]_rvars, impl' = "cp210x" PROVE UsbOrder'
  BY DEF UsbInv
<1>1. impl = "cp210x" /\ UsbOrder
  BY HeldStep DEF UsbInv
<1>2. CASE UNCHANGED rvars
  BY <1>1, <1>2 DEF rvars, vars, client, protocol, asio, history, UsbOrder, Awaited
<1>3. CASE ReaderNext
  BY <1>1, <1>3, UsbStep DEF ReaderNext, BlockwiseNext
<1> QED BY <1>2, <1>3

-----------------------------------------------------------------------------
(* The blockwise provider.  Until a command before this one has timed out, *)
(* what is under way is this one's: its write, with its listener, until    *)
(* the completion of that is served; then one read, and the timeout.  Once *)
(* it is answered nothing is left, or one read if it has timed out itself. *)
LateBefore(c) == \E e \in expired : e < c

Written(h) == h.handler = "write_callback" /\ ~h.error

NoneWritten == \A k \in 1..Len(ready) : ~Written(ready[k])

OneWritten == \A j, k \in 1..Len(ready) : Written(ready[j]) /\ Written(ready[k]) => j = k

NoRead == reads = 0 /\ BringFree(ready)

Idle ==
    /\ ~Awaited
    /\ writes = <<>> /\ sent = <<>> /\ timer = None /\ NoneWritten
    /\ cmd \notin expired => NoRead
    /\ cmd \in expired => answer[cmd] # Unset
    /\ pc = "listening" => answer[cmd] = Unset

Writing ==
    /\ Awaited
    /\ sent = <<cmd>> /\ timer = None /\ NoRead
    /\ \/ writes = <<cmd>> /\ NoneWritten
       \/ writes = <<>> /\ OneWritten

Reading ==
    /\ Awaited
    /\ writes = <<>> /\ sent = <<>> /\ timer = cmd /\ NoneWritten

PortOrder == OneRead /\ (Idle \/ Writing \/ Reading) /\ ~stale

(* Entries that stand for no read and no write. *)
Plain(N) == \A h \in N : ~Brings(h) /\ ~Written(h)

LEMMA PlainEntries ==
    /\ Plain({}) /\ Plain({KeyStop}) /\ Plain({ReadHandler(0, TRUE)})
    /\ \A c \in Command : Plain({WriteHandler(c, TRUE)})
  BY DEF Plain, Brings, Written, KeyStop, ReadHandler, WriteHandler

LEMMA PlainStep ==
    ASSUME NEW N, Plain(N), Follows(ready', ready, N), reads' \in {0, reads}, reads \in Nat
    PROVE  /\ OneRead => OneRead'
           /\ NoRead => NoRead'
           /\ NoneWritten => NoneWritten'
           /\ OneWritten => OneWritten'
<1>1. PICK m \in {0, 1} : \A k \in 1..Len(ready') :
          ready'[k] \in N \/ (k + m \in 1..Len(ready) /\ ready[k + m] = ready'[k])
  BY DEF Follows
<1>2. \A k \in 1..Len(ready') : Brings(ready'[k]) \/ Written(ready'[k]) =>
          k + m \in 1..Len(ready) /\ ready[k + m] = ready'[k]
  BY <1>1 DEF Plain
<1>3. \A j, k \in 1..Len(ready') : j + m = k + m => j = k
  OBVIOUS
<1>4. OneRead => OneRead'
  <2> SUFFICES ASSUME OneRead PROVE OneRead'
    OBVIOUS
  <2>1. reads' <= 1
    BY DEF OneRead
  <2>2. \A j, k \in 1..Len(ready') : Brings(ready'[j]) /\ Brings(ready'[k]) => j = k
    BY <1>2, <1>3 DEF OneRead
  <2>3. reads' # 0 => BringFree(ready')
    BY <1>2 DEF OneRead, BringFree
  <2> QED BY <2>1, <2>2, <2>3 DEF OneRead
<1>5. NoRead => NoRead'
  BY <1>2 DEF NoRead, BringFree
<1>6. NoneWritten => NoneWritten'
  BY <1>2 DEF NoneWritten
<1>7. OneWritten => OneWritten'
  BY <1>2, <1>3 DEF OneWritten
<1> QED BY <1>4, <1>5, <1>6, <1>7

(* Steps that only pass failures on, or take them off the queue. *)
LEMMA PortSteady ==
    ASSUME ReaderInv, PortOrder, NEW N, Plain(N), Follows(ready', ready, N), reads' \in {0, reads},
           UNCHANGED <<cmd, pc, answer, writes, sent, timer, stale, expired>>
    PROVE  PortOrder'
<1>1. /\ OneRead' /\ (NoRead => NoRead') /\ (NoneWritten => NoneWritten')
      /\ (OneWritten => OneWritten')
  BY PlainStep DEF PortOrder, ReaderInv, ReaderTypes
<1>2. Awaited' <=> Awaited
  BY DEF Awaited
<1>3. Idle => Idle'
  BY <1>1, <1>2 DEF Idle
<1>4. Writing => Writing'
  BY <1>1, <1>2 DEF Writing
<1>5. Reading => Reading'
  BY <1>1, <1>2 DEF Reading
<1> QED BY <1>1, <1>3, <1>4, <1>5 DEF PortOrder

(* Steps that leave a command without anything under way. *)
LEMMA PortIdle ==
    ASSUME ReaderInv, PortOrder, Idle, NEW N, Plain(N), Follows(ready', ready, N),
           UNCHANGED <<reads, writes, sent, timer, stale, expired>>, ~Awaited',
           \/ cmd' = cmd /\ pc' # "listening" /\ (answer[cmd] # Unset => answer'[cmd] # Unset)
           \/ cmd' \notin expired /\ cmd \notin expired /\ answer'[cmd'] = Unset
    PROVE  PortOrder'
<1>1. OneRead' /\ (NoRead => NoRead') /\ NoneWritten'
  BY PlainStep DEF PortOrder, ReaderInv, ReaderTypes, Idle
<1>2. Idle'
  BY <1>1 DEF Idle
<1> QED BY <1>1, <1>2 DEF PortOrder

(* An answer to a command that has nothing under way but perhaps the       *)
(* reads it has when it has timed out.                                     *)
LEMMA PortAnswered ==
    ASSUME ReaderInv, PortOrder, NEW a, Tells(cmd, a), cmd \in Command,
           UNCHANGED <<cmd, expired, stale>>, pc' # "listening",
           writes' = <<>>, sent' = <<>>, OneRead', NoneWritten', cmd \in expired \/ NoRead'
    PROVE  PortOrder'
<1>1. answer'[cmd] # Unset /\ timer' = None
  BY ToldAnswer DEF Tells
<1>2. ~Awaited'
  BY <1>1 DEF Awaited
<1>3. Idle'
  BY <1>1, <1>2 DEF Idle
<1> QED BY <1>3 DEF PortOrder


(* The queue without its first entry, and with an entry more.              *)
LEMMA QueueParts ==
    ASSUME ReaderInv
    PROVE  /\ Len(ready) \in Nat /\ reads \in Nat
           /\ ready # <<>> =>
                 /\ Head(ready) = ready[1] /\ 1 \in 1..Len(ready)
                 /\ Follows(Tail(ready), ready, {})
                 /\ \A k \in 1..Len(Tail(ready)) :
                       k + 1 \in 1..Len(ready) /\ Tail(ready)[k] = ready[k + 1]
<1> DEFINE k == Len(read_buf)
           S == Entry(k)
<1>1. ready \in Seq(S) /\ k \in Nat /\ reads \in Nat
  BY SentTypes DEF ReaderInv, ReaderTypes
<1> HIDE DEF S, k
<1>3. Len(ready) \in Nat
  BY <1>1, LenProperties
<1>4. ready # <<>> =>
        /\ Head(ready) = ready[1] /\ 1 \in 1..Len(ready)
        /\ Follows(Tail(ready), ready, {})
        /\ \A i \in 1..Len(Tail(ready)) : i + 1 \in 1..Len(ready) /\ Tail(ready)[i] = ready[i + 1]
  BY <1>1, FollowsTail
<1> QED BY <1>1, <1>3, <1>4

LEMMA QueueLonger ==
    ASSUME ReaderInv, NEW h,
           h = ReadHandler(0, TRUE) \/ \E c \in Command, err \in BOOLEAN : h = WriteHandler(c, err)
    PROVE  /\ Len(Append(ready, h)) = Len(ready) + 1
           /\ \A k \in 1..Len(ready) : Append(ready, h)[k] = ready[k]
           /\ Append(ready, h)[Len(ready) + 1] = h
           /\ Follows(Append(ready, h), ready, {h})
<1>1. PICK k \in Nat : k = Len(read_buf)
  BY SentTypes
<1>2. ready \in Seq(Entry(k)) /\ h \in Entry(k)
  BY <1>1, NewEntries DEF ReaderInv, ReaderTypes
<1> QED BY <1>2, FollowsAppend

(* The first entry, taken off, was the only one of its kind. *)
LEMMA FirstTaken ==
    ASSUME ReaderInv, PortOrder, ready # <<>>, ready' = Tail(ready)
    PROVE  /\ Brings(Head(ready)) => reads = 0 /\ BringFree(ready') /\ ~NoRead
           /\ Written(Head(ready)) => ~NoneWritten /\ (OneWritten => NoneWritten')
           /\ NoneWritten => NoneWritten'
           /\ BringFree(ready) => BringFree(ready')
<1>1. /\ Head(ready) = ready[1] /\ 1 \in 1..Len(ready) /\ Len(ready) \in Nat /\ reads \in Nat
      /\ \A k \in 1..Len(ready') : k + 1 \in 1..Len(ready) /\ ready'[k] = ready[k + 1]
  BY QueueParts
<1>2. \A k \in 1..Len(ready') : k + 1 # 1
  OBVIOUS
<1>3. Brings(Head(ready)) => reads = 0 /\ BringFree(ready') /\ ~NoRead
  BY <1>1, <1>2 DEF PortOrder, OneRead, BringFree, NoRead
<1>4. Written(Head(ready)) => ~NoneWritten /\ (OneWritten => NoneWritten')
  BY <1>1, <1>2 DEF NoneWritten, OneWritten
<1>5. NoneWritten => NoneWritten'
  BY <1>1 DEF NoneWritten
<1>6. BringFree(ready) => BringFree(ready')
  BY <1>1 DEF BringFree
<1> QED BY <1>3, <1>4, <1>5, <1>6

(* While a command listens and before the next is there, nothing is under  *)
(* way; a read is only if the command has timed out.                       *)
LEMMA PortPhases ==
    ASSUME ReaderInv, PortOrder
    PROVE  /\ pc \notin {"running", "waiting"} => Idle
           /\ pc = "listening" => NoRead /\ cmd \notin expired
           /\ timer # None => Reading
           /\ Awaited => cmd \in Command /\ Live = {cmd} /\ pc # "listening" /\ answer[cmd] = Unset
           /\ NoneWritten \/ Writing
           /\ ~NoRead => Reading \/ (Idle /\ cmd \in expired)
<1>1. ASSUME Awaited PROVE cmd \in Command /\ Live = {cmd} /\ pc # "listening" /\ answer[cmd] = Unset
  <2>1. cmd \in Command /\ Live = {cmd}
    BY <1>1, AwaitedOpen
  <2> QED BY <1>1, <2>1 DEF Awaited
<1>2. ~Awaited => Idle
  BY DEF PortOrder, Writing, Reading
<1>3. pc \notin {"running", "waiting"} => ~Awaited
  BY DEF Awaited
<1>4. pc = "listening" /\ Idle => NoRead /\ cmd \notin expired
  BY DEF Idle
<1>5. timer # None => Reading
  BY DEF PortOrder, Idle, Writing
<1>6. NoneWritten \/ Writing
  BY DEF PortOrder, Idle, Reading
<1>7. ~NoRead => Reading \/ (Idle /\ cmd \in expired)
  BY DEF PortOrder, Idle, Writing
<1> QED BY <1>1, <1>2, <1>3, <1>4, <1>5, <1>6, <1>7

LEMMA PortCalls ==
    ASSUME ReaderInv, History, PortOrder, ~LateBefore(cmd)',
           \/ (BeforeSend \/ AfterSend) /\ sent' = sent
           \/ stop_iocp_thread
           \/ TurnStops /\ pc # "closed"
    PROVE  PortOrder'
<1>1. cmd \in Nat /\ Len(ready) \in Nat /\ Follows(ready, ready, {}) /\ Plain({}) /\ Plain({KeyStop})
  BY SentTypes, FollowsSelf, PlainEntries
<1>2. CASE Construct /\ sent' = sent
  <2>1. pc = "idle" /\ cmd' = cmd + 1 /\ pc' = "listening" /\ cmd + 1 \in Command
    BY <1>1, <1>2, ExchangeAssumption DEF Construct, Command
  <2>2. UNCHANGED <<answer, reads, writes, ready, sent, timer, stale, expired>>
    BY <1>2 DEF Construct, asio, history
  <2>3. answer'[cmd'] = Unset /\ cmd' \notin expired /\ ~Awaited'
    BY <1>1, <2>1, <2>2 DEF History, Awaited
  <2>4. cmd \notin expired
    BY <1>1, <2>1, <2>2 DEF LateBefore
  <2>5. Idle
    BY <2>1, PortPhases
  <2> QED BY <1>1, <2>2, <2>3, <2>4, <2>5, PortIdle
<1>3. CASE (SendFails \/ GetAnswer \/ Destroy) /\ sent' = sent
  <2>1. ~Awaited /\ ~Awaited' /\ pc' # "listening"
    BY <1>3 DEF SendFails, GetAnswer, Destroy, Awaited
  <2>2. UNCHANGED <<cmd, answer, reads, writes, ready, sent, timer, stale, expired>>
    BY <1>3 DEF SendFails, GetAnswer, Destroy, asio, history, protocol
  <2>3. Idle
    BY <2>1 DEF PortOrder, Writing, Reading
  <2> QED BY <1>1, <2>1, <2>2, <2>3, PortIdle
<1>4. CASE stop_iocp_thread
  <2>1. /\ pc = "idle" /\ pc' = "closing" /\ writes' = <<>>
        /\ ready' = Append(ready \o AbortedWrites, KeyStop)
        /\ UNCHANGED <<cmd, answer, reads, sent, timer, stale, expired>>
    BY <1>4 DEF stop_iocp_thread, protocol, history
  <2>2. Idle /\ writes = <<>>
    BY <2>1, PortPhases DEF Idle
  <2>3. ready \o AbortedWrites = ready
    <3>1. AbortedWrites = <<>>
      BY <2>2 DEF AbortedWrites
    <3>2. \A S : \A q \in Seq(S) : q \o <<>> = q
      OBVIOUS
    <3> QED BY <3>1, <3>2 DEF ReaderInv, ReaderTypes
  <2>4. Follows(ready', ready, {KeyStop})
    <3>1. PICK k \in Nat : k = Len(read_buf)
      BY SentTypes
    <3>2. ready \in Seq(Entry(k)) /\ KeyStop \in Entry(k)
      BY <3>1, NewEntries DEF ReaderInv, ReaderTypes
    <3> QED BY <2>1, <2>3, <3>2, FollowsAppend
  <2>5. ~Awaited'
    BY <2>1 DEF Awaited
  <2> QED BY <1>1, <2>1, <2>2, <2>4, <2>5, PortIdle
<1>5. CASE TurnStops /\ pc # "closed"
  <2>1. ready # <<>> /\ Head(ready).handler = "KEY_STOP"
    BY <1>5 DEF TurnStops, Dequeues
  <2>2. Head(ready) = KeyStop /\ Head(ready) = ready[1] /\ 1 \in 1..Len(ready)
    BY <2>1, FollowsTail, EntryParts, SentTypes DEF ReaderInv, ReaderTypes
  <2>3. pc \in {"closing", "closed"}
    BY <2>2 DEF ReaderInv, Stopping
  <2>4. pc' = "closed" /\ UNCHANGED <<cmd, answer, reads, writes, ready, sent, timer, stale, expired>>
    BY <1>5 DEF TurnStops, protocol, asio, history
  <2>5. Idle /\ ~Awaited'
    BY <2>3, <2>4, PortPhases DEF Awaited
  <2> QED BY <1>1, <2>4, <2>5, PortIdle
<1> QED BY <1>2, <1>3, <1>4, <1>5 DEF BeforeSend, AfterSend

LEMMA PortSends ==
    ASSUME ReaderInv, History, PortOrder, Send \/ SendRefused
    PROVE  PortOrder'
<1>1. /\ pc = "listening" /\ cmd \in Command /\ Live = {cmd}
      /\ Idle /\ NoRead /\ sent = <<>> /\ writes = <<>> /\ answer[cmd] = Unset
  <2>1. pc = "listening"
    BY DEF Send, SendThen, SendRefused
  <2> QED BY <2>1, PortPhases DEF Idle, Live, ReaderInv, ReaderTypes, CallTypes
<1>2. CASE Send
  <2>1. /\ writes' = Append(writes, cmd) /\ sent' = Append(sent, cmd) /\ pc' = "waiting"
        /\ UNCHANGED <<cmd, answer, reads, timer, ready, stale>>
    BY <1>2 DEF Send, SendThen, protocol, history
  <2>2. writes' = <<cmd>> /\ sent' = <<cmd>>
    BY <1>1, <2>1
  <2>3. Awaited'
    BY <1>1, <2>1 DEF Awaited
  <2> QED BY <1>1, <2>1, <2>2, <2>3 DEF PortOrder, Idle, Writing, NoRead, NoneWritten, OneRead
<1>3. CASE SendRefused
  <2>1. Tells(cmd, Error("IO_ERROR")) /\ pc' = "waiting" /\ cmd' = cmd
    BY <1>3, Refused
  <2>2. /\ sent' = <<>> /\ UNCHANGED <<writes, reads, ready, expired>>
        /\ stale' = (stale \/ ~({cmd} \cup {sent[i] : i \in 1..Len(sent)} \subseteq Live))
    BY <1>3 DEF SendRefused
  <2>3. {cmd} \cup {sent[i] : i \in 1..Len(sent)} = {cmd}
    BY <1>1
  <2>4. stale' = stale
    <3>1. {cmd} \cup {sent[i] : i \in 1..Len(sent)} \subseteq Live
      BY <1>1, <2>3
    <3> QED BY <2>2, <3>1 DEF ReaderInv, ReaderTypes
  <2>5. OneRead' /\ NoneWritten' /\ NoRead'
    BY <1>1, <2>2 DEF PortOrder, Idle, OneRead, NoneWritten, NoRead
  <2> QED BY <1>1, <2>1, <2>2, <2>4, <2>5, PortAnswered
<1> QED BY <1>2, <1>3

(* A completion is served. *)
LEMMA PortTurns ==
    ASSUME ReaderInv, History, PortOrder, TurnTimesOut \/ TurnFailed \/ TurnRead \/ TurnWritten
    PROVE  PortOrder'
<1>1. reads \in Nat /\ Plain({}) /\ stale \in BOOLEAN
  BY QueueParts, PlainEntries DEF ReaderInv, ReaderTypes
<1>2. Follows(ready', ready, {})
  <2>1. ready' = ready \/ (ready # <<>> /\ ready' = Tail(ready))
    BY DEF TurnTimesOut, TurnFailed, TurnRead, TurnWritten, Dequeues
  <2> QED BY <2>1, FollowsSelf, QueueParts
<1>3. CASE TurnTimesOut
  <2>1. /\ check /\ timer # None /\ due
        /\ UNCHANGED <<cmd, pc, writes, reads, sent, expired>>
    BY <1>3 DEF TurnTimesOut, check, TimedOut, client
  <2>2. /\ Reading /\ timer = cmd /\ cmd \in expired
        /\ cmd \in Command /\ Live = {cmd} /\ pc # "listening"
    BY <2>1, PortPhases DEF Reading, History
  <2>3. PICK s, a : Tells(s, a) /\ s = cmd /\ stale' = stale
    BY <2>1, <2>2, Checked
  <2>4. OneRead' /\ NoneWritten'
    BY <1>1, <1>2, <2>1, <2>2, PlainStep DEF PortOrder, Reading
  <2>5. writes' = <<>> /\ sent' = <<>>
    BY <2>1, <2>2 DEF Reading
  <2> QED BY <2>1, <2>2, <2>3, <2>4, <2>5, PortAnswered
<1>4. CASE TurnFailed
  <2>1. UNCHANGED <<cmd, pc, answer, reads, writes, sent, timer, stale, expired>>
    BY <1>4 DEF TurnFailed, client, protocol, history
  <2> QED BY <1>1, <1>2, <2>1, PortSteady
<1>5. CASE TurnRead
  <2>1. /\ ready # <<>> /\ Brings(Head(ready)) /\ ready' = Tail(ready)
        /\ UNCHANGED <<cmd, pc, writes, sent, expired>>
    BY <1>5 DEF TurnRead, Dequeues, Brings, client
  <2>2. reads = 0 /\ BringFree(ready') /\ ~NoRead
    BY <2>1, FirstTaken
  <2>3. /\ Reading \/ (Idle /\ cmd \in expired)
        /\ writes = <<>> /\ sent = <<>> /\ NoneWritten /\ NoneWritten'
        /\ pc # "listening"
    BY <2>1, <2>2, PortPhases, FirstTaken DEF Reading, Idle
  <2>4. PICK chunk \in Seq(OfSent) : data_received(chunk) /\ ReadAgain(chunk)
    BY <1>5, <2>1, ReadPart DEF TurnRead
  <2>5. stale' = stale
    BY <2>4, Received
  <2>6. CASE Found(chunk) = {} /\ UNCHANGED <<slots, answer, timer, due>>
    <3>1. reads' = 1 \/ reads' = 0
      BY <2>2, <2>4, <2>6 DEF ReadAgain, Read
    <3>2. OneRead'
      BY <2>2, <3>1 DEF OneRead, BringFree
    <3>3. Awaited' <=> Awaited
      BY <2>1, <2>6 DEF Awaited
    <3>4. Reading' \/ Idle'
      BY <2>1, <2>3, <2>6, <3>3 DEF Reading, Idle
    <3> QED BY <2>5, <3>2, <3>4 DEF PortOrder
  <2>7. CASE Found(chunk) # {} /\ cmd \in slots /\ \E a : Tells(cmd, a)
    <3>1. reads' = 0
      BY <2>2, <2>4, <2>7 DEF ReadAgain
    <3>2. OneRead' /\ NoRead'
      BY <2>2, <3>1 DEF OneRead, BringFree, NoRead
    <3>3. cmd \in Command
      BY <2>7, SentTypes
    <3> QED BY <2>1, <2>3, <2>5, <2>7, <3>2, <3>3, PortAnswered
  <2> QED BY <2>4, <2>6, <2>7, Received
<1>6. CASE TurnWritten
  <2>1. /\ ready # <<>> /\ Written(Head(ready)) /\ ready' = Tail(ready) /\ sent' = <<>>
        /\ UNCHANGED <<cmd, pc, answer, writes>>
        /\ stale' = (stale \/ \E i \in 1..Len(sent) : sent[i] \notin Live)
        /\ IF sent = <<>> THEN UNCHANGED <<timer, due>> ELSE Start(sent[Len(sent)])
        /\ reads' = reads + 1 \/ reads' = reads
    BY <1>6 DEF TurnWritten, Dequeues, Written, Read, client, protocol
  <2>2. ~NoneWritten /\ (OneWritten => NoneWritten') /\ (BringFree(ready) => BringFree(ready'))
    BY <2>1, FirstTaken
  <2>3. Writing /\ writes = <<>> /\ NoneWritten' /\ sent = <<cmd>> /\ Live = {cmd}
    BY <2>2, PortPhases DEF Writing
  <2>4. sent # <<>> /\ sent[Len(sent)] = cmd /\ \A i \in 1..Len(sent) : sent[i] = cmd
    BY <2>3
  <2>5. stale' = stale /\ timer' = cmd
    BY <1>1, <2>1, <2>3, <2>4 DEF Start
  <2>6. reads' \in {0, 1} /\ BringFree(ready')
    BY <2>1, <2>2, <2>3 DEF Writing, NoRead
  <2>7. OneRead'
    BY <2>6 DEF OneRead, BringFree
  <2>8. Awaited'
    BY <2>1, <2>3 DEF Writing, Awaited
  <2>9. Reading'
    BY <2>1, <2>3, <2>5, <2>8 DEF Reading
  <2> QED BY <2>5, <2>7, <2>9 DEF PortOrder
<1> QED BY <1>3, <1>4, <1>5, <1>6

(* A completion comes, or the port, the device or the time goes on. *)
LEMMA PortRest ==
    ASSUME ReaderInv, History, PortOrder,
           \/ DeviceAnswers /\ sent' = sent
           \/ TimeRunsOut /\ sent' = sent
           \/ CancelIo \/ ReadCompletes \/ ReadCompletesInError
           \/ WriteCompletes \/ WriteCompletesInError
    PROVE  PortOrder'
<1>1. /\ reads \in Nat /\ Len(ready) \in Nat /\ Plain({}) /\ Plain({ReadHandler(0, TRUE)})
      /\ \A c \in Command : Plain({WriteHandler(c, TRUE)})
      /\ Follows(ready, ready, {})
  BY QueueParts, PlainEntries, FollowsSelf
<1>2. CASE DeviceAnswers /\ sent' = sent
  <2>1. UNCHANGED <<cmd, pc, answer, reads, writes, ready, sent, timer, stale, expired>>
    BY <1>2 DEF DeviceAnswers, Respond, client, protocol, asio, history
  <2> QED BY <1>1, <2>1, PortSteady
<1>3. CASE TimeRunsOut /\ sent' = sent
  <2>1. timer # None /\ UNCHANGED <<cmd, pc, answer, reads, writes, ready, sent, timer, stale>>
    BY <1>3 DEF TimeRunsOut, client, protocol, asio
  <2>2. Reading
    BY <2>1, PortPhases
  <2>3. Awaited' /\ OneRead' /\ NoneWritten'
    BY <2>1, <2>2 DEF PortOrder, Reading, Awaited, OneRead, NoneWritten
  <2>4. Reading'
    BY <2>1, <2>2, <2>3 DEF Reading
  <2> QED BY <2>1, <2>3, <2>4 DEF PortOrder
<1>4. CASE CancelIo
  <2>1. /\ ready' = ready \o AbortedReads /\ reads' = 0
        /\ UNCHANGED <<cmd, pc, answer, writes, sent, timer, stale, expired>>
    BY <1>4 DEF CancelIo, client, protocol, history
  <2>2. Follows(ready', ready, {ReadHandler(0, TRUE)})
    <3>1. PICK k \in Nat : k = Len(read_buf)
      BY SentTypes
    <3>2. ready \in Seq(Entry(k)) /\ {ReadHandler(0, TRUE)} \subseteq Entry(k)
      BY <3>1, NewEntries DEF ReaderInv, ReaderTypes
    <3> QED BY <2>1, <3>2, AbortedParts, FollowsConcat
  <2> QED BY <1>1, <2>1, <2>2, PortSteady
<1>5. CASE ReadCompletes
  <2>1. /\ reads > 0 /\ reads' = reads - 1 /\ ready' = Append(ready, ReadHandler(1, FALSE))
        /\ UNCHANGED <<cmd, pc, answer, writes, sent, timer, stale, expired>>
    BY <1>5 DEF ReadCompletes, client, protocol, history
  <2>2. /\ Len(ready') = Len(ready) + 1
        /\ \A k \in 1..Len(ready) : ready'[k] = ready[k]
        /\ ready'[Len(ready) + 1] = ReadHandler(1, FALSE)
    <3>1. PICK k \in Nat : k = Len(read_buf') /\ Len(read_buf) <= k /\ 1 <= k
      BY <1>5, BufferGrows
    <3>2. ready \in Seq(Entry(k))
      BY <3>1, EntriesFit, SentTypes DEF ReaderInv, ReaderTypes
    <3>3. PICK h \in Entry(k) : h = ReadHandler(1, FALSE)
      BY <3>1, NewEntries
    <3>4. /\ Len(Append(ready, h)) = Len(ready) + 1
          /\ \A i \in 1..Len(ready) : Append(ready, h)[i] = ready[i]
          /\ Append(ready, h)[Len(ready) + 1] = h
      BY <3>2, FollowsAppend
    <3> QED BY <2>1, <3>3, <3>4
  <2>3. reads = 1 /\ BringFree(ready) /\ reads' = 0
    BY <1>1, <2>1 DEF PortOrder, OneRead
  <2>4. ~Written(ReadHandler(1, FALSE))
    BY DEF Written, ReadHandler
  <2>5. \A k \in 1..Len(ready') : (k \in 1..Len(ready) /\ ready'[k] = ready[k]) \/ k = Len(ready) + 1
    BY <1>1, <2>2
  <2>6. OneRead'
    <3>1. \A k \in 1..Len(ready') : Brings(ready'[k]) => k = Len(ready) + 1
      BY <2>3, <2>5 DEF BringFree
    <3> QED BY <2>3, <3>1 DEF OneRead
  <2>7. NoneWritten => NoneWritten'
    BY <2>2, <2>4, <2>5 DEF NoneWritten
  <2>8. Awaited' <=> Awaited
    BY <2>1 DEF Awaited
  <2>9. ~NoRead
    BY <2>3 DEF NoRead
  <2>10. Reading \/ (Idle /\ cmd \in expired)
    BY <2>9, PortPhases
  <2>11. Reading' \/ Idle'
    BY <2>1, <2>7, <2>8, <2>10 DEF Reading, Idle
  <2> QED BY <2>1, <2>6, <2>11 DEF PortOrder
<1>6. CASE ReadCompletesInError
  <2>1. /\ reads > 0 /\ reads' = reads - 1 /\ ready' = Append(ready, ReadHandler(0, TRUE))
        /\ UNCHANGED <<cmd, pc, answer, writes, sent, timer, stale, expired>>
    BY <1>6 DEF ReadCompletesInError, client, protocol, history
  <2>2. Follows(ready', ready, {ReadHandler(0, TRUE)})
    BY <2>1, QueueLonger
  <2>3. reads' = 0
    BY <1>1, <2>1 DEF PortOrder, OneRead
  <2> QED BY <1>1, <2>1, <2>2, <2>3, PortSteady
<1>7. CASE WriteCompletes \/ WriteCompletesInError
  <2>1. PICK err \in BOOLEAN :
          /\ writes # <<>> /\ writes' = Tail(writes)
          /\ ready' = Append(ready, WriteHandler(Head(writes), err))
          /\ UNCHANGED <<cmd, pc, answer, reads, sent, timer, stale, expired>>
    BY <1>7 DEF WriteCompletes, WriteCompletesInError, WriteDone, WriteFails, client, protocol, history
  <2>2. Writing /\ writes = <<cmd>> /\ NoneWritten /\ cmd \in Command
    BY <2>1, PortPhases DEF PortOrder, Idle, Writing, Reading
  <2>3. Head(writes) = cmd /\ writes' = <<>>
    BY <2>1, <2>2
  <2>4. PICK h : h = WriteHandler(cmd, err)
    OBVIOUS
  <2>5. ready' = Append(ready, h)
    BY <2>1, <2>3, <2>4
  <2>6. /\ Len(ready') = Len(ready) + 1
        /\ \A k \in 1..Len(ready) : ready'[k] = ready[k]
        /\ ready'[Len(ready) + 1] = h
    BY <2>2, <2>4, <2>5, QueueLonger
  <2>7. \A k \in 1..Len(ready') : (k \in 1..Len(ready) /\ ready'[k] = ready[k]) \/ k = Len(ready) + 1
    BY <1>1, <2>6
  <2>8. ~Brings(h)
    BY <2>4 DEF Brings, WriteHandler
  <2>9. NoRead' /\ OneRead'
    BY <2>1, <2>2, <2>6, <2>7, <2>8 DEF Writing, NoRead, BringFree, PortOrder, OneRead
  <2>10. OneWritten'
    BY <2>2, <2>6, <2>7 DEF NoneWritten, OneWritten
  <2>11. Awaited'
    BY <2>1, <2>2 DEF Writing, Awaited
  <2>12. Writing'
    BY <2>1, <2>2, <2>3, <2>9, <2>10, <2>11 DEF Writing
  <2> QED BY <2>1, <2>9, <2>12 DEF PortOrder
<1> QED BY <1>2, <1>3, <1>4, <1>5, <1>6, <1>7

LEMMA PortStep ==
    ASSUME ReaderInv, History, PortOrder, ~LateBefore(cmd)', BlockwiseNext
    PROVE  PortOrder'
  BY PortCalls, PortSends, PortTurns, PortRest DEF BlockwiseNext, iocp_thread

OwnHeld == \A t \in Held : t = None \/ (t = cmd /\ Awaited)

LEMMA PortHeld == PortOrder => OwnHeld
<1> SUFFICES ASSUME PortOrder PROVE \A t \in Held : t = None \/ (t = cmd /\ Awaited)
  BY DEF OwnHeld
<1>1. CASE Idle
  BY <1>1 DEF Idle, Held
<1>2. CASE Writing
  <2>1. \A i \in 1..Len(sent) : sent[i] = cmd
    BY <1>2 DEF Writing
  <2>2. \A i \in 1..Len(writes) : writes[i] = cmd
    BY <1>2 DEF Writing
  <2> QED BY <1>2, <2>1, <2>2 DEF Writing, Held
<1>3. CASE Reading
  BY <1>3 DEF Reading, Held
<1> QED BY <1>1, <1>2, <1>3 DEF PortOrder

(* What is held belongs to the command that waits, or to one that follows  *)
(* a timeout, as everything out of this order does.                        *)
PortInv ==
    impl = "blockwise" =>
        /\ \A t \in Held : t = None \/ LateBefore(t) \/ (t = cmd /\ Awaited)
        /\ stale => LateBefore(cmd)
        /\ ~LateBefore(cmd) => PortOrder

LEMMA PortInvStep == ReaderInv /\ History /\ PortInv /\ [ReaderNext]_rvars => PortInv'
<1> SUFFICES ASSUME ReaderInv, History, PortInv, [ReaderNext]_rvars, impl' = "blockwise"
    PROVE  /\ \A t \in Held' : t = None \/ LateBefore(t)' \/ (t = cmd' /\ Awaited')
           /\ stale' => LateBefore(cmd)'
           /\ ~LateBefore(cmd)' => PortOrder'
  BY DEF PortInv
<1>1. /\ impl = "blockwise"
      /\ \A t \in Held : t = None \/ LateBefore(t) \/ (t = cmd /\ Awaited)
      /\ ~LateBefore(cmd) => PortOrder
  BY HeldStep DEF PortInv
<1>2. expired \subseteq expired' /\ cmd \in Nat /\ expired \subseteq Nat
  <2>1. cmd \in Nat /\ expired \subseteq Command /\ Command \subseteq Nat
    BY SentTypes DEF ReaderInv, ReaderTypes, Command
  <2> QED BY <2>1, TimeStep
<1>3. \A t : LateBefore(t) => LateBefore(t)'
  BY <1>2 DEF LateBefore
<1>4. cmd' = cmd \/ (cmd' = cmd + 1 /\ pc = "idle")
  BY HeldStep DEF Construct
<1>5. LateBefore(cmd) => LateBefore(cmd)'
  <2>1. \A e, c \in Nat : e < c => e < c + 1
    OBVIOUS
  <2>2. LateBefore(cmd) => \E e \in expired : e < cmd'
    BY <1>2, <1>4, <2>1 DEF LateBefore
  <2> QED BY <1>2, <2>2 DEF LateBefore
<1>6. ~LateBefore(cmd)' => PortOrder'
  <2> SUFFICES ASSUME ~LateBefore(cmd)' PROVE PortOrder'
    OBVIOUS
  <2>1. PortOrder
    BY <1>1, <1>5
  <2>2. CASE UNCHANGED rvars
    BY <2>1, <2>2 DEF rvars, vars, client, protocol, asio, history, PortOrder, Idle, Writing, Reading,
                      OneRead, NoRead, BringFree, NoneWritten, OneWritten, Awaited
  <2>3. CASE ReaderNext
    <3>1. BlockwiseNext
      BY <1>1, <2>3 DEF ReaderNext, Cp210xNext
    <3> QED BY <2>1, <3>1, PortStep
  <2> QED BY <2>2, <2>3
<1>7. stale' => LateBefore(cmd)'
  BY <1>6 DEF PortOrder
<1>8. ASSUME NEW t \in Held', t # None PROVE LateBefore(t)' \/ (t = cmd' /\ Awaited')
  <2>1. CASE ~LateBefore(cmd)'
    <3>1. PortOrder'
      BY <1>6, <2>1
    <3>2. (PortOrder => OwnHeld)'
      BY PortHeld, PTL
    <3> QED BY <1>8, <3>1, <3>2 DEF OwnHeld
  <2>2. CASE LateBefore(cmd)'
    <3>1. t \in Held \/ (t = cmd /\ pc = "listening")
      BY <1>8, HeldStep
    <3>2. CASE t = cmd /\ pc \in {"listening", "running", "waiting"}
      <4>1. cmd' = t
        BY <1>4, <3>2
      <4> QED BY <2>2, <4>1 DEF LateBefore
    <3>3. t \in Held => LateBefore(t) \/ (t = cmd /\ pc \in {"running", "waiting"})
      BY <1>1, <1>8 DEF Awaited
    <3> QED BY <1>3, <3>1, <3>2, <3>3
  <2> QED BY <2>1, <2>2
<1> QED BY <1>6, <1>7, <1>8

(* Everything together. *)
OwnTimerInv ==
    /\ ReaderInv /\ History
    /\ UsbInv /\ PortInv
    /\ impl \in {"blockwise", "cp210x"}

LEMMA OwnTimerStarts == ReaderInit => OwnTimerInv
<1> SUFFICES ASSUME ReaderInit PROVE OwnTimerInv
  OBVIOUS
<1>1. /\ cmd = 0 /\ pc = "idle" /\ writes = <<>> /\ sent = <<>> /\ ready = <<>> /\ reads = 0
      /\ timer = None /\ expired = {} /\ stale = FALSE /\ due = FALSE
      /\ answer = [c \in Command |-> Unset]
  BY DEF ReaderInit, Init, Opened, None
<1>2. Held = {None} /\ ~Awaited
  BY <1>1 DEF Held, Awaited
<1>3. History
  BY <1>1, <1>2 DEF History, None
<1>4. UsbOrder
  BY <1>1, <1>2 DEF UsbOrder
<1>5. Idle /\ OneRead
  BY <1>1, <1>2 DEF Idle, NoneWritten, NoRead, BringFree, OneRead
<1>6. PortInv
  BY <1>1, <1>2, <1>5 DEF PortInv, PortOrder
<1> QED BY <1>3, <1>4, <1>6, ReaderStarts DEF OwnTimerInv, UsbInv, ReaderInit

LEMMA OwnTimerStep == OwnTimerInv /\ [ReaderNext]_rvars => OwnTimerInv'
<1>1. ReaderInv /\ [ReaderNext]_rvars => UNCHANGED impl
  <2> SUFFICES ASSUME ReaderInv, [ReaderNext]_rvars PROVE UNCHANGED impl
    OBVIOUS
  <2> QED BY HeldStep
<1> QED BY <1>1, ReaderStep, HistoryStep, UsbInvStep, PortInvStep DEF OwnTimerInv

LEMMA OwnTimerHolds == Spec => []OwnTimerInv
  BY OwnTimerStarts, OwnTimerStep, PTL DEF Spec

-----------------------------------------------------------------------------
(* Neither provider ever uses a protocol that is gone, except the          *)
(* blockwise one after a timeout.                                          *)
THEOREM DeadOnlyAfterTimeout == Spec => []StaleNeedsTimeout
<1>1. OwnTimerInv => StaleNeedsTimeout
  BY DEF OwnTimerInv, UsbInv, UsbOrder, PortInv, LateBefore, StaleNeedsTimeout
<1> QED BY <1>1, OwnTimerHolds, PTL

(* The completion of a write is told to the one who wrote, and to nobody   *)
(* else, as long as no earlier command has timed out.                      *)
THEOREM ListenerOfOwnWrite == Spec => []OwnWriteOnly
<1>1. OwnTimerInv => OwnWriteOnly
  <2> SUFFICES ASSUME OwnTimerInv, impl = "blockwise", NEW i \in 1..Len(writes), ~LateBefore(writes[i])
      PROVE  \E k \in 1..Len(sent) : sent[k] = writes[i]
    BY DEF OwnWriteOnly, LateBefore
  <2>1. writes[i] \in Held /\ writes[i] # None
    <3>1. writes \in Seq(Command)
      BY SentTypes DEF OwnTimerInv
    <3>2. writes[i] \in Command
      BY <3>1, ElementOfSeq
    <3> QED BY <3>2 DEF Held, Command, None
  <2>2. writes[i] = cmd /\ PortOrder
    BY <2>1 DEF OwnTimerInv, PortInv
  <2>3. writes # <<>>
    OBVIOUS
  <2>4. sent = <<cmd>>
    BY <2>2, <2>3 DEF PortOrder, Idle, Writing, Reading
  <2> QED BY <2>2, <2>4
<1> QED BY <1>1, OwnTimerHolds, PTL

(* One read at a time, into the one buffer, until a command times out.     *)
THEOREM OneReadUntilTimeout == Spec => []ReadsNeedTimeout
<1>1. OwnTimerInv => ReadsNeedTimeout
  <2> SUFFICES ASSUME OwnTimerInv, expired = {} PROVE ~(ReadsInFlight > 1)
    BY DEF ReadsNeedTimeout
  <2>1. OneRead
    <3>1. CASE impl = "blockwise"
      BY <3>1 DEF OwnTimerInv, PortInv, PortOrder, LateBefore
    <3>2. CASE impl = "cp210x"
      BY <3>2 DEF OwnTimerInv, UsbInv, UsbOrder, OneRead, BringFree
    <3> QED BY <3>1, <3>2 DEF OwnTimerInv
  <2>2. PICK S : ready \in Seq(S)
    BY DEF OwnTimerInv, ReaderInv, ReaderTypes
  <2> QED BY <2>1, <2>2, OneReadCounted DEF OwnTimerInv, ReaderInv, ReaderTypes
<1> QED BY <1>1, OwnTimerHolds, PTL

(* The cp210x provider has nothing to cancel, as nothing of a command is   *)
(* left when it is answered.                                               *)
THEOREM NothingToCancel == Spec => []Cp210xQuiet
<1>1. OwnTimerInv => Cp210xQuiet
  BY DEF OwnTimerInv, UsbInv, UsbOrder, Awaited, Cp210xQuiet
<1> QED BY <1>1, OwnTimerHolds, PTL

(* A timeout is never reported to a command that has its answer, nor to    *)
(* another than its own, unless an earlier one has run out.                *)
THEOREM TimeoutHasWaiter == Spec => []TimeoutOfTheWaiting
<1>1. OwnTimerInv => TimeoutOfTheWaiting
  <2> SUFFICES ASSUME OwnTimerInv, timer # None
      PROVE  (timer = cmd /\ Awaited) \/ (impl = "blockwise" /\ LateBefore(timer))
    BY DEF TimeoutOfTheWaiting, LateBefore, Awaited, Live
  <2>1. CASE impl = "blockwise"
    BY <2>1 DEF OwnTimerInv, PortInv, Held
  <2>2. CASE impl = "cp210x"
    BY <2>2 DEF OwnTimerInv, UsbInv, UsbOrder
  <2> QED BY <2>1, <2>2 DEF OwnTimerInv
<1> QED BY <1>1, OwnTimerHolds, PTL

=============================================================================
