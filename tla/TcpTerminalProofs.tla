-------------------------- MODULE TcpTerminalProofs --------------------------
(***************************************************************************)
(* Proofs about TcpTerminal, for any number of commands, any requests and  *)
(* timeouts, any kinds of reply, any faults and any read size.             *)
(***************************************************************************)
EXTENDS TcpTerminal, ExchangeProofs, NaturalsInduction

-----------------------------------------------------------------------------
(* What the filter of a terminal command keeps of a chunk.                 *)

(* Some set of positions has a first one. *)
LEMMA FirstOf ==
    ASSUME NEW T, T \subseteq Nat, T # {}
    PROVE  \E i \in T : \A j \in T : i <= j
<1>1. PICK i \in T : \A j \in T : <<j, i>> \notin OpToRel(<, Nat)
  BY NatLessThanWellFounded, WFMin
<1>2. \A j \in T : ~(j < i)
  BY <1>1 DEF OpToRel
<1> QED BY <1>2

IsHead(g) == g.part = "head"

(* What is before the first head is skipped; without one, all is. *)
LEMMA FromHeadParts ==
    ASSUME NEW S, NEW chunk \in Seq(S)
    PROVE  /\ FromHead(chunk) \in Seq(S)
           /\ Len(FromHead(chunk)) <= Len(chunk)
           /\ FromHead(chunk) # <<>> =>
                 \E k \in 1..Len(chunk) : IsHead(chunk[k]) /\ FromHead(chunk)[1] = chunk[k]
<1> DEFINE heads == {i \in 1..Len(chunk) : IsHead(chunk[i])}
           before == {i \in 1..Len(chunk) : \A j \in 1..i : chunk[j].part # "head"}
<1>1. Len(chunk) \in Nat
  BY LenProperties
<1>2. Skipped(chunk) = Cardinality(before)
  BY DEF Skipped
<1>3. CASE heads = {}
  <2>1. before = 1..Len(chunk)
    <3>1. \A i \in 1..Len(chunk) : \A j \in 1..i : j \in 1..Len(chunk) /\ ~IsHead(chunk[j])
      BY <1>1, <1>3
    <3> QED BY <3>1 DEF IsHead
  <2>2. Skipped(chunk) = Len(chunk)
    <3>1. Cardinality(1..Len(chunk)) = Len(chunk)
      BY <1>1, IntervalSize
    <3> QED BY <1>2, <2>1, <3>1
  <2>3. FromHead(chunk) = <<>>
    BY <1>1, <2>2, SubSeqEmpty DEF FromHead
  <2> QED BY <1>1, <2>3
<1>4. CASE heads # {}
  <2>1. PICK k \in heads : \A j \in heads : k <= j
    <3>1. heads \subseteq Nat
      BY <1>1
    <3> QED BY <1>4, <3>1, FirstOf
  <2>2. k \in 1..Len(chunk) /\ k \in Nat /\ k - 1 \in Nat
    BY <1>1, <2>1
  <2>3. before = 1..(k - 1)
    <3>1. ASSUME NEW i \in before PROVE i < k
      BY <1>1, <2>1, <2>2, <3>1 DEF IsHead
    <3>2. ASSUME NEW i \in 1..(k - 1) PROVE i \in before
      <4>1. \A j \in 1..i : j \in 1..Len(chunk) /\ ~(k <= j)
        BY <1>1, <2>2, <3>2
      <4>2. \A j \in 1..i : ~IsHead(chunk[j])
        BY <2>1, <4>1
      <4> QED BY <1>1, <2>2, <3>2, <4>2 DEF IsHead
    <3> QED BY <1>1, <2>2, <3>1, <3>2
  <2>4. Cardinality(1..(k - 1)) = k - 1
    BY <2>2, FS_Interval
  <2>5. FromHead(chunk) = SubSeq(chunk, k, Len(chunk))
    <3>1. Skipped(chunk) = k - 1
      BY <1>2, <2>3, <2>4
    <3>2. Skipped(chunk) + 1 = k
      BY <2>2, <3>1
    <3> QED BY <3>2 DEF FromHead
  <2> HIDE DEF heads, before
  <2>6. \A i \in k..Len(chunk) : chunk[i] \in S
    BY <1>1, <2>2, LenProperties
  <2>7. /\ SubSeq(chunk, k, Len(chunk)) \in Seq(S)
        /\ Len(SubSeq(chunk, k, Len(chunk))) = Len(chunk) - k + 1
        /\ \A i \in 1..(Len(chunk) - k + 1) : SubSeq(chunk, k, Len(chunk))[i] = chunk[k + i - 1]
    BY <1>1, <2>2, <2>6, SubSeqProperties
  <2>8. SubSeq(chunk, k, Len(chunk))[1] = chunk[k]
    BY <1>1, <2>2, <2>7
  <2> QED BY <1>1, <2>1, <2>2, <2>5, <2>7, <2>8 DEF heads
<1> QED BY <1>3, <1>4

(* What is after the first body is dropped. *)
LEMMA UpToFENDParts ==
    ASSUME NEW S, NEW s \in Seq(S)
    PROVE  /\ UpToFEND(s) \in Seq(S)
           /\ Len(UpToFEND(s)) <= Len(s)
           /\ UpToFEND(s) # <<>> => s # <<>> /\ UpToFEND(s)[1] = s[1]
<1> DEFINE ends == {i \in 1..Len(s) : s[i].part # "head"}
           first == CHOOSE i \in ends : \A j \in ends : i <= j
<1>1. Len(s) \in Nat
  BY LenProperties
<1>2. CASE ends = {}
  BY <1>1, <1>2 DEF UpToFEND
<1>3. CASE ends # {}
  <2>1. ends \subseteq Nat
    BY <1>1
  <2>2. first \in ends
    BY <1>3, <2>1, FirstOf
  <2>3. UpToFEND(s) = SubSeq(s, 1, first)
    BY <1>3 DEF UpToFEND
  <2>4. first \in 1..Len(s)
    BY <2>2
  <2> HIDE DEF first, ends
  <2>5. \A i \in 1..first : s[i] \in S
    BY <1>1, <2>4, LenProperties
  <2>6. /\ SubSeq(s, 1, first) \in Seq(S)
        /\ Len(SubSeq(s, 1, first)) = first
        /\ \A i \in 1..first : SubSeq(s, 1, first)[i] = s[i]
    BY <1>1, <2>4, <2>5, SubSeqProperties
  <2>7. s # <<>> /\ 1 \in 1..first
    BY <1>1, <2>4
  <2> QED BY <1>1, <2>3, <2>4, <2>6, <2>7
<1> QED BY <1>2, <1>3

(* A filter starts with a head, its own or one of the chunk, and grows by  *)
(* no more than the chunk.                                                 *)
LEMMA TerminalUnbytestaffParts ==
    ASSUME NEW S, NEW f \in Seq(S), NEW chunk \in Seq(S)
    PROVE  /\ TerminalUnbytestaff(f, chunk) \in Seq(S)
           /\ Len(TerminalUnbytestaff(f, chunk)) <= Len(f) + Len(chunk)
           /\ f # <<>> => /\ TerminalUnbytestaff(f, chunk) # <<>>
                          /\ TerminalUnbytestaff(f, chunk)[1] = f[1]
           /\ f = <<>> /\ TerminalUnbytestaff(f, chunk) # <<>> =>
                 \E k \in 1..Len(chunk) :
                    IsHead(chunk[k]) /\ TerminalUnbytestaff(f, chunk)[1] = chunk[k]
<1>0. Len(f) \in Nat /\ Len(chunk) \in Nat
  BY LenProperties
<1>1. CASE f = <<>>
  <2>1. TerminalUnbytestaff(f, chunk) = UpToFEND(FromHead(chunk))
    <3>1. UpToFEND(FromHead(chunk)) \in Seq(S)
      BY FromHeadParts, UpToFENDParts
    <3> QED BY <1>1, <3>1, ConcatEmptySeq DEF TerminalUnbytestaff
  <2>2. PICK s : s = FromHead(chunk)
    OBVIOUS
  <2>3. s \in Seq(S) /\ Len(s) <= Len(chunk)
        /\ (s # <<>> => \E k \in 1..Len(chunk) : IsHead(chunk[k]) /\ s[1] = chunk[k])
    BY <2>2, FromHeadParts
  <2>4. Len(s) \in Nat
    BY <2>3, LenProperties
  <2>5. /\ UpToFEND(s) \in Seq(S)
        /\ Len(UpToFEND(s)) <= Len(s)
        /\ UpToFEND(s) # <<>> => s # <<>> /\ UpToFEND(s)[1] = s[1]
    BY <2>3, UpToFENDParts
  <2>6. Len(UpToFEND(s)) \in Nat
    BY <2>5, LenProperties
  <2> QED BY <1>0, <1>1, <2>1, <2>2, <2>3, <2>4, <2>5, <2>6
<1>2. CASE f # <<>>
  <2>1. TerminalUnbytestaff(f, chunk) = f \o UpToFEND(chunk)
    BY <1>2 DEF TerminalUnbytestaff
  <2>2. UpToFEND(chunk) \in Seq(S) /\ Len(UpToFEND(chunk)) <= Len(chunk)
    BY UpToFENDParts
  <2>3. Len(UpToFEND(chunk)) \in Nat
    BY <2>2, LenProperties
  <2>4. /\ f \o UpToFEND(chunk) \in Seq(S)
        /\ Len(f \o UpToFEND(chunk)) = Len(f) + Len(UpToFEND(chunk))
        /\ \A i \in 1..(Len(f) + Len(UpToFEND(chunk))) : (f \o UpToFEND(chunk))[i] =
                     IF i <= Len(f) THEN f[i] ELSE UpToFEND(chunk)[i - Len(f)]
    BY <2>2, ConcatProperties
  <2>5. Len(f) >= 1
    BY <1>0, <1>2, EmptySeq
  <2>6. (f \o UpToFEND(chunk))[1] = f[1] /\ Len(f \o UpToFEND(chunk)) # 0
    BY <1>0, <2>3, <2>4, <2>5
  <2> QED BY <1>0, <1>2, <2>1, <2>2, <2>3, <2>4, <2>6
<1> QED BY <1>1, <1>2

(* What a packet is found to be is a proper answer, and its command's. *)
LEMMA TerminalVerdictType ==
    ASSUME NEW S, S \subseteq Fragment, NEW f \in Seq(S), completed(f)
    PROVE  /\ TerminalVerdict(f) \in Answer
           /\ f[1] \in S
           /\ \/ TerminalVerdict(f) = Error("PACKET_CRC_ERROR")
              \/ /\ TerminalVerdict(f) = Packet(f[2].part, f[1].of) /\ f[1].of \in Command
                 /\ f[2].part \in {"DATA", "SHORT_DATA", "NACK"}
<1>1. Len(f) \in Nat /\ Len(f) # 0 /\ f \in [1..Len(f) -> S]
  BY LenProperties, EmptySeq DEF completed
<1>2. f[1] \in S
  BY <1>1
<1>3. CASE Len(f) = 2 /\ f[2].of = f[1].of /\ f[2].part # "BAD_CRC"
  <2>1. f[2] \in Fragment /\ f[1] \in Fragment /\ f[2].part # "head"
    BY <1>1, <1>3 DEF completed
  <2>2. f[2].part \in {"DATA", "SHORT_DATA", "NACK"} /\ f[1].of \in Command
    BY <1>3, <2>1, ExchangeAssumption DEF Fragment, ReplyKind
  <2> QED BY <1>2, <1>3, <2>2 DEF TerminalVerdict, Answer, PacketAnswer, Packet
<1>4. CASE ~(Len(f) = 2 /\ f[2].of = f[1].of /\ f[2].part # "BAD_CRC")
  <2>1. TerminalVerdict(f) = Error("PACKET_CRC_ERROR")
    BY <1>4 DEF TerminalVerdict
  <2> QED BY <1>2, <2>1 DEF Answer, ErrorAnswer
<1> QED BY <1>3, <1>4

-----------------------------------------------------------------------------
(* The handlers, by what they leave behind.  All of them take the first    *)
(* entry of the queue and leave the client, the port and the device alone. *)
(* What the filter of c becomes when the first handler brings a chunk. *)
Fed(c) == TerminalUnbytestaff(filter[c], SubSeq(read_buf, 1, Head(ready).n))

(* A read that failed or a wait that was cancelled. *)
Skips ==
    /\ Head(ready).handler \in {"read_callback", "wait_callback"}
    /\ Head(ready).error
    /\ ready' = Tail(ready)
    /\ UNCHANGED <<protocol, reads, timer, read_buf, rx, stale, early>>

(* The end of a write starts the timer. *)
StartsTimer ==
    /\ Head(ready).handler = "write_callback"
    /\ ~Head(ready).error
    /\ timer' = Head(ready).this
    /\ ready' = WithAbortedWait(Tail(ready))
    /\ stale' = (stale \/ Head(ready).this \notin Live)
    /\ UNCHANGED <<protocol, reads, read_buf, rx, early>>

(* Somebody is told that there is no answer. *)
Tells(a) ==
    /\ \/ Head(ready).handler = "write_callback" /\ Head(ready).error /\ a = Error("IO_ERROR")
       \/ /\ Head(ready).handler = "write_callback" /\ ~Head(ready).error
          /\ FALSE \in TimeoutRead(Head(ready).this) /\ a = Error("NO_ANSWER")
       \/ Head(ready).handler = "wait_callback" /\ ~Head(ready).error /\ a = Error("NO_ANSWER")
    /\ \E s \in Storage(Head(ready).this) : SetAnswer(s, a)
    /\ ready' = WithAbortedWait(Tail(ready))
    /\ stale' = (stale \/ Head(ready).this \notin Live)
    /\ UNCHANGED <<filter, reads, read_buf, rx, early>>

(* A chunk that brings no answer: its packet is kept, or not the listener's. *)
ReadsOn ==
    /\ Brings(Head(ready))
    /\ \A c \in Command : \/ filter'[c] = filter[c]
                          \/ c = cmd /\ c \in slots /\ filter'[c] \in {<<>>, Fed(c)}
    /\ initiate_read(Tail(ready))
    /\ UNCHANGED <<slots, answer, timer, stale, early>>

(* A chunk that ends the listener's packet. *)
Takes ==
    /\ Brings(Head(ready))
    /\ cmd \in slots /\ completed(Fed(cmd))
    /\ \A c \in Command : filter'[c] = IF c = cmd THEN Fed(c) ELSE filter[c]
    /\ SetAnswer(cmd, TerminalVerdict(Fed(cmd)))
    /\ initiate_read(WithAbortedWait(Tail(ready)))
    /\ request[cmd] = Unassigned \/ AnswersTo(cmd, Fed(cmd))
    /\ early' = early \cup {c \in {cmd} : request[c] = Unassigned}
    /\ stale' = stale

HandlerCases ==
    /\ ready # <<>>
    /\ io = "idle"
    /\ pc \notin {"closing", "closed"}
    /\ filter' \in [Command -> Seq(Fragment)]
    /\ UNCHANGED <<client, writes, io, device, expired, faulted, request, timeout>>
    /\ Skips \/ StartsTimer \/ (\E a \in ErrorAnswer : Tells(a)) \/ ReadsOn \/ Takes

(* What is fed and what it is fed to. *)
LEMMA FedParts ==
    ASSUME TypeInv, ready # <<>>, NEW S, S \subseteq Fragment, read_buf \in Seq(S),
           NEW c \in Command, filter[c] \in Seq(S)
    PROVE  /\ SubSeq(read_buf, 1, Head(ready).n) \in Seq(S)
           /\ Len(SubSeq(read_buf, 1, Head(ready).n)) = Head(ready).n
           /\ Head(ready).n \in Nat
           /\ Fed(c) \in Seq(S)
<1>1. Head(ready).n \in Nat /\ Head(ready).n <= Len(read_buf)
  BY ReadyParts DEF Handler
<1>2. /\ SubSeq(read_buf, 1, Head(ready).n) \in Seq(S)
      /\ Len(SubSeq(read_buf, 1, Head(ready).n)) = IF 1 <= Head(ready).n THEN Head(ready).n - 1 + 1 ELSE 0
  BY <1>1, PartOfSeq
<1>3. Len(SubSeq(read_buf, 1, Head(ready).n)) = Head(ready).n
  BY <1>1, <1>2
<1>4. TerminalUnbytestaff(filter[c], SubSeq(read_buf, 1, Head(ready).n)) \in Seq(S)
  BY <1>2, TerminalUnbytestaffParts
<1> QED BY <1>1, <1>2, <1>3, <1>4 DEF Fed

(* The read handler: one listener, which takes its packet or does not. *)
LEMMA ReadCases ==
    ASSUME TypeInv, OneListener, terminal_read_callback
    PROVE  /\ filter' \in [Command -> Seq(Fragment)]
           /\ Skips \/ ReadsOn \/ Takes
<1> DEFINE h     == Head(ready)
           q     == Tail(ready)
           chunk == SubSeq(read_buf, 1, h.n)
           fed   == [c \in Command |-> IF c \in slots THEN TerminalUnbytestaff(filter[c], chunk)
                                                      ELSE filter[c]]
           whole == {c \in slots : completed(fed[c])}
<1>1. /\ TypeOK /\ ready # <<>> /\ h.handler = "read_callback" /\ stale' = stale
      /\ slots \subseteq {cmd} /\ slots \subseteq Command
  BY DEF TypeInv, TypeOK, terminal_read_callback, Dispatch, history, OneListener, Live
<1>2. CASE h.error
  <2>1. ready' = q /\ UNCHANGED <<protocol, reads, timer, read_buf, rx, early>>
    BY <1>2 DEF terminal_read_callback
  <2> QED BY <1>1, <1>2, <2>1 DEF Skips, protocol, TypeOK
<1>3. CASE ~h.error
  <2>1. PICK mine \in SUBSET whole :
          /\ \A c \in whole : request[c] # Unassigned => (c \in mine <=> AnswersTo(c, fed[c]))
          /\ filter' = [c \in Command |-> IF c \in whole \ mine THEN <<>> ELSE fed[c]]
          /\ early' = early \cup {c \in mine : request[c] = Unassigned}
          /\ \/ /\ mine = {}
                /\ initiate_read(q)
                /\ UNCHANGED <<slots, answer, timer>>
             \/ \E c \in mine : /\ SetAnswer(c, TerminalVerdict(fed[c]))
                                /\ initiate_read(WithAbortedWait(q))
    BY <1>3 DEF terminal_read_callback
  <2>2. \A c \in Command : fed[c] = IF c \in slots THEN Fed(c) ELSE filter[c]
    BY DEF Fed
  <2>3. fed \in [Command -> Seq(Fragment)]
    <3>1. \A c \in Command : filter[c] \in Seq(Fragment)
      BY <1>1 DEF TypeOK
    <3>2. \A c \in Command : Fed(c) \in Seq(Fragment)
      BY <1>1, <3>1, FedParts DEF TypeOK
    <3> QED BY <2>2, <3>1, <3>2
  <2>4. <<>> \in Seq(Fragment)
    BY EmptySeq
  <2>w. \A c \in whole : c \in slots /\ completed(fed[c]) /\ c = cmd /\ c \in Command
    BY <1>1
  <2> HIDE DEF fed, whole
  <2>5. filter' \in [Command -> Seq(Fragment)]
    BY <2>1, <2>3, <2>4
  <2>6. CASE mine = {} /\ initiate_read(q) /\ UNCHANGED <<slots, answer, timer>>
    <3>1. \A c \in Command : \/ filter'[c] = filter[c]
                             \/ c = cmd /\ c \in slots /\ filter'[c] \in {<<>>, Fed(c)}
      BY <1>1, <2>1, <2>2, <2>6, <2>w
    <3>2. early' = early
      BY <2>1, <2>6
    <3> QED BY <1>1, <1>3, <2>5, <2>6, <3>1, <3>2 DEF ReadsOn, Brings
  <2>7. ASSUME NEW c \in mine, SetAnswer(c, TerminalVerdict(fed[c])),
               initiate_read(WithAbortedWait(q))
        PROVE  Takes
    <3>1. c = cmd /\ c \in slots /\ completed(fed[c]) /\ c \in Command /\ c \in whole /\ mine = {c}
      BY <2>w, <2>7
    <3>2. fed[cmd] = Fed(cmd) /\ whole \ mine = {}
      BY <2>2, <2>w, <3>1
    <3>3. \A d \in Command : filter'[d] = IF d = cmd THEN Fed(d) ELSE filter[d]
      BY <1>1, <2>1, <2>2, <3>1, <3>2
    <3>4. early' = early \cup {d \in {cmd} : request[d] = Unassigned}
      BY <2>1, <3>1
    <3>5. request[cmd] = Unassigned \/ AnswersTo(cmd, Fed(cmd))
      BY <2>1, <3>1, <3>2
    <3> QED BY <1>1, <1>3, <2>7, <3>1, <3>2, <3>3, <3>4, <3>5 DEF Takes, Brings
  <2> QED BY <2>1, <2>5, <2>6, <2>7
<1> QED BY <1>2, <1>3

LEMMA IoThreadCases ==
    ASSUME TypeInv, OneListener, IoThread
    PROVE  HandlerCases
<1>1. TypeOK
  BY DEF TypeInv
<1>2. CASE terminal_read_callback
  BY <1>2, ReadCases DEF terminal_read_callback, Dispatch, HandlerCases, IoThread, history
<1>3. CASE terminal_write_callback
  <2>1. /\ ready # <<>> /\ io = "idle" /\ Head(ready).handler = "write_callback"
        /\ UNCHANGED <<client, filter, writes, io, device, expired, faulted, terminal, reads, read_buf, rx>>
        /\ ready' = WithAbortedWait(Tail(ready))
        /\ stale' = (stale \/ Head(ready).this \notin Live)
    BY <1>3 DEF terminal_write_callback, Dispatch, AfterWrite
  <2>2. \/ /\ Head(ready).error
           /\ \E s \in Storage(Head(ready).this) : SetAnswer(s, Error("IO_ERROR"))
        \/ /\ ~Head(ready).error
           /\ timer' = Head(ready).this
           /\ UNCHANGED <<slots, answer>>
        \/ /\ ~Head(ready).error
           /\ FALSE \in TimeoutRead(Head(ready).this)
           /\ \E s \in Storage(Head(ready).this) : SetAnswer(s, Error("NO_ANSWER"))
    BY <1>3 DEF terminal_write_callback, SetTimeout
  <2>3. StartsTimer \/ (\E a \in ErrorAnswer : Tells(a))
    BY <2>1, <2>2 DEF StartsTimer, Tells, protocol, terminal, ErrorAnswer
  <2> QED BY <1>1, <2>1, <2>3 DEF HandlerCases, IoThread, terminal, TypeOK
<1>4. CASE terminal_wait_callback
  <2>1. /\ ready # <<>> /\ io = "idle" /\ Head(ready).handler = "wait_callback"
        /\ UNCHANGED <<client, filter, writes, reads, read_buf, io, line, expired, faulted, terminal>>
    BY <1>4 DEF terminal_wait_callback, Dispatch
  <2>2. Skips \/ (\E a \in ErrorAnswer : Tells(a))
    BY <1>4, <2>1 DEF terminal_wait_callback, Cancelled, TimeoutAnswer, Skips, Tells, protocol, terminal,
       line, ErrorAnswer
  <2> QED BY <1>1, <2>1, <2>2 DEF HandlerCases, IoThread, terminal, line, TypeOK
<1> QED BY <1>2, <1>3, <1>4 DEF IoThread

-----------------------------------------------------------------------------
(* Types, the listener and the service: the handlers and the bus do to     *)
(* what Exchange holds nothing that its own handlers and device could not. *)
TerminalTypes ==
    /\ request \in [Command -> Request \cup {Unassigned}]
    /\ timeout \in [Command -> BOOLEAN]
    /\ early \subseteq Command

TerminalInv == BaseInv /\ TerminalTypes

(* The steps that Exchange has too. *)
ExchangeStep == AnyClient \/ WriteDone \/ WriteFails \/ ReadSome \/ ReadFails \/ TimerExpires

LEMMA NextCases ==
    ASSUME Next
    PROVE  \/ ExchangeStep /\ (UNCHANGED terminal \/ TerminalConstruct)
           \/ Assign
           \/ IoThread
           \/ BusReply /\ UNCHANGED terminal
  BY DEF Next, Client, TerminalSend, TerminalConstruct, TerminalEnvironment, ExchangeStep, AnyClient

LEMMA ExchangeStepIs == ExchangeStep => ExchangeNext
  BY DEF ExchangeStep, ExchangeNext, Environment

LEMMA TypesStep ==
    ASSUME TerminalInv, [Next]_tvars
    PROVE  TerminalTypes'
<1>1. TerminalTypes /\ TypeInv /\ OneListener /\ TypeOK
  BY DEF TerminalInv, BaseInv, TypeInv
<1>2. CASE UNCHANGED terminal
  BY <1>1, <1>2 DEF TerminalTypes, terminal
<1>3. CASE TerminalConstruct
  BY <1>1, <1>3, TcpTerminalAssumption DEF TerminalConstruct, TerminalTypes
<1>4. CASE Assign
  BY <1>1, <1>4 DEF Assign, TerminalTypes
<1>5. CASE IoThread
  <2>1. HandlerCases
    BY <1>1, <1>5, IoThreadCases
  <2>2. UNCHANGED <<request, timeout>> /\ early' \in {early, early \cup {c \in {cmd} : request[c] = Unassigned}}
    BY <2>1 DEF HandlerCases, Skips, StartsTimer, Tells, ReadsOn, Takes
  <2>3. early' # early => cmd \in slots
    BY <2>1 DEF HandlerCases, Skips, StartsTimer, Tells, ReadsOn, Takes
  <2> QED BY <1>1, <2>2, <2>3 DEF TerminalTypes, TypeOK
<1> QED BY <1>2, <1>3, <1>4, <1>5, NextCases DEF tvars

(* What a handler may make of the queue and of the receive buffer. *)
LEMMA HandlerQueue ==
    ASSUME TypeInv, HandlerCases
    PROVE  /\ read_buf' \in Seq(Fragment) /\ rx' \in Seq(Fragment) /\ reads' \in Nat
           /\ ready' \in Seq(Bounded(Len(read_buf'))) /\ ready' \in Seq(Handler)
           /\ Kept(Tail(ready), ready')
<1> DEFINE k == Len(read_buf)
           q == Tail(ready)
<1>1. /\ TypeOK /\ ready # <<>> /\ timer \in Command \cup {None}
      /\ read_buf \in Seq(Fragment) /\ rx \in Seq(Fragment) /\ reads \in Nat
  BY DEF TypeInv, TypeOK, HandlerCases
<1>2. k \in Nat /\ q \in Seq(Bounded(k)) /\ WithAbortedWait(q) \in Seq(Bounded(k))
  BY <1>1, ReadyParts, WithAbortedWaitType
<1>s. ASSUME NEW m, NEW p \in Seq(Bounded(m)) PROVE p \in Seq(Handler)
  <2>1. Bounded(m) \subseteq Handler
    BY DEF Bounded
  <2> QED BY <1>s, <2>1, SeqMonotonic
<1>3. q \in Seq(Handler) /\ WithAbortedWait(q) \in Seq(Handler)
  BY <1>2, <1>s
<1>4. Kept(q, WithAbortedWait(q)) /\ Kept(q, q)
  BY <1>1, <1>3, KeptWithAbortedWait, KeptSelf
<1>5. CASE ready' \in {q, WithAbortedWait(q)} /\ UNCHANGED <<reads, read_buf, rx>>
  BY <1>1, <1>2, <1>3, <1>4, <1>5
<1>6. ASSUME NEW p \in {q, WithAbortedWait(q)}, initiate_read(p)
      PROVE  /\ read_buf' \in Seq(Fragment) /\ rx' \in Seq(Fragment) /\ reads' \in Nat
             /\ ready' \in Seq(Bounded(Len(read_buf'))) /\ ready' \in Seq(Handler)
             /\ Kept(q, ready')
  <2>1. p \in Seq(Bounded(k)) /\ p \in Seq(Handler) /\ Kept(q, p)
    BY <1>2, <1>3, <1>4
  <2>2. /\ read_buf' \in Seq(Fragment) /\ rx' \in Seq(Fragment) /\ reads' \in Nat
        /\ ready' \in Seq(Bounded(Len(read_buf')))
    BY <1>1, <1>6, <2>1, InitiateReadType
  <2>3. Kept(p, ready')
    BY <1>1, <1>6, <2>1, KeptInitiateRead
  <2> QED BY <1>s, <2>1, <2>2, <2>3, KeptTransitive
<1>7. \/ ready' \in {q, WithAbortedWait(q)} /\ UNCHANGED <<reads, read_buf, rx>>
      \/ initiate_read(q) \/ initiate_read(WithAbortedWait(q))
  BY DEF HandlerCases, Skips, StartsTimer, Tells, ReadsOn, Takes
<1> QED BY <1>5, <1>6, <1>7

(* The answer of a packet is a proper one, of a command that was sent. *)
LEMMA TakenAnswer ==
    ASSUME BaseInv, HandlerCases, Takes
    PROVE  /\ cmd \in Command /\ cmd \in Live
           /\ Fed(cmd) \in Seq(OfSent)
           /\ TerminalVerdict(Fed(cmd)) \in Answer
           /\ \/ TerminalVerdict(Fed(cmd)) = Error("PACKET_CRC_ERROR")
              \/ /\ TerminalVerdict(Fed(cmd)) = Packet(Fed(cmd)[2].part, Fed(cmd)[1].of)
                 /\ Fed(cmd)[1].of \in Sent
                 /\ Fed(cmd)[2].part \in {"DATA", "SHORT_DATA", "NACK"}
<1>1. TypeInv /\ TypeOK /\ SentInv /\ cmd \in Command /\ cmd \in Live /\ completed(Fed(cmd)) /\ ready # <<>>
  BY DEF BaseInv, TypeInv, TypeOK, Takes, OneListener, ServiceInv, HandlerCases, Live
<1>2. OfSent \subseteq Fragment
  BY DEF OfSent
<1>3. Fed(cmd) \in Seq(OfSent)
  BY <1>1, <1>2, FedParts DEF SentInv
<1> HIDE DEF OfSent
<1>4. /\ TerminalVerdict(Fed(cmd)) \in Answer
      /\ Fed(cmd)[1] \in OfSent
      /\ \/ TerminalVerdict(Fed(cmd)) = Error("PACKET_CRC_ERROR")
         \/ /\ TerminalVerdict(Fed(cmd)) = Packet(Fed(cmd)[2].part, Fed(cmd)[1].of)
            /\ Fed(cmd)[2].part \in {"DATA", "SHORT_DATA", "NACK"}
  BY <1>1, <1>2, <1>3, TerminalVerdictType
<1>5. Fed(cmd)[1].of \in Sent
  BY <1>4 DEF OfSent
<1> QED BY <1>1, <1>3, <1>4, <1>5

(* Who is answered and with what. *)
LEMMA HandlerAnswers ==
    ASSUME BaseInv, HandlerCases
    PROVE  /\ UNCHANGED <<slots, answer>> \/
              \E s \in Live \cup {None}, a \in Answer :
                 /\ SetAnswer(s, a)
                 /\ \/ a \in ErrorAnswer
                    \/ Takes /\ s = cmd /\ a = Packet(Fed(cmd)[2].part, Fed(cmd)[1].of)
                       /\ Fed(cmd)[1].of \in Sent /\ a.result \in {"DATA", "SHORT_DATA", "NACK"}
           /\ slots' \subseteq slots
           /\ answer' \in [Command -> Answer \cup {Unset}]
           /\ timer' \in Command \cup {None}
<1>1. TypeInv /\ TypeOK /\ ready # <<>> /\ Head(ready) \in Handler
  BY ReadyParts DEF BaseInv, TypeInv, HandlerCases
<1>2. \A c : Storage(c) \subseteq Live \cup {None}
  BY DEF Storage
<1>3. ErrorAnswer \subseteq Answer
  BY DEF Answer
<1>4. ASSUME NEW s, NEW a \in Answer, SetAnswer(s, a)
      PROVE  answer' \in [Command -> Answer \cup {Unset}] /\ slots' \subseteq slots /\ timer' \in Command \cup {None}
  BY <1>1, <1>4, SatisfiedType DEF SetAnswer
<1>5. ASSUME NEW a \in ErrorAnswer, Tells(a)
      PROVE  \E s \in Live \cup {None} : SetAnswer(s, a)
  BY <1>2, <1>5 DEF Tells
<1>6. CASE Takes
  <2>1. PICK a \in Answer : a = TerminalVerdict(Fed(cmd))
    BY <1>6, TakenAnswer
  <2>2. SetAnswer(cmd, a) /\ cmd \in Live
    BY <1>6, <2>1, TakenAnswer DEF Takes
  <2>3. \/ a \in ErrorAnswer
        \/ /\ a = Packet(Fed(cmd)[2].part, Fed(cmd)[1].of)
           /\ Fed(cmd)[1].of \in Sent /\ a.result \in {"DATA", "SHORT_DATA", "NACK"}
    BY <1>6, <2>1, TakenAnswer DEF ErrorAnswer, Packet
  <2> QED BY <1>4, <1>6, <2>2, <2>3
<1>7. CASE Skips \/ StartsTimer \/ ReadsOn
  <2>1. UNCHANGED <<slots, answer>> /\ timer' \in {timer, Head(ready).this}
    BY <1>7 DEF Skips, StartsTimer, ReadsOn, protocol
  <2> QED BY <1>1, <2>1 DEF TypeOK, Handler
<1> QED BY <1>3, <1>4, <1>5, <1>6, <1>7 DEF HandlerCases

LEMMA HandlersBase ==
    ASSUME TerminalInv, IoThread
    PROVE  BaseInv'
<1>1. /\ BaseInv /\ TypeInv /\ TypeOK /\ OneListener /\ ServiceInv /\ SentInv /\ CallInv
  BY DEF TerminalInv, BaseInv, TypeInv, ServiceInv
<1>2. HandlerCases
  BY <1>1, IoThreadCases
<1>3. /\ UNCHANGED <<client, writes, io, device, expired, faulted>>
      /\ filter' \in [Command -> Seq(Fragment)] /\ ready # <<>>
      /\ stale' \in BOOLEAN
  BY <1>1, <1>2 DEF HandlerCases, Skips, StartsTimer, Tells, ReadsOn, Takes, TypeOK
<1>4. TypeInv'
  <2>1. /\ slots' \subseteq Command /\ answer' \in [Command -> Answer \cup {Unset}]
        /\ timer' \in Command \cup {None}
    BY <1>1, <1>2, HandlerAnswers DEF TypeOK
  <2>2. /\ read_buf' \in Seq(Fragment) /\ rx' \in Seq(Fragment) /\ reads' \in Nat
        /\ ready' \in Seq(Bounded(Len(read_buf'))) /\ ready' \in Seq(Handler)
    BY <1>1, <1>2, HandlerQueue
  <2> QED BY <1>1, <1>3, <2>1, <2>2 DEF TypeInv, TypeOK, client
<1>5. OneListener'
  BY <1>1, <1>2, <1>3, HandlerAnswers DEF OneListener, Live, client
<1>6. CallInv' /\ Sent' = Sent /\ OfSent' = OfSent
  BY <1>1, <1>3 DEF CallInv, Sent, OfSent, client
<1>7. OfSent \subseteq Fragment
  BY DEF OfSent
<1>8. SentInv'
  <2>1. writes' \in Seq(Sent) /\ \A c \in Command : device'[c] # "none" => c \in Sent
    BY <1>1, <1>3 DEF SentInv
  <2>2. rx' \in Seq(OfSent) /\ read_buf' \in Seq(OfSent)
    <3>1. \E q : initiate_read(q) \/ ReadInto(q) \/ UNCHANGED <<rx, read_buf>>
      BY <1>2 DEF HandlerCases, Skips, StartsTimer, Tells, ReadsOn, Takes
    <3> QED BY <1>1, <3>1, ReadIntoOf DEF SentInv
  <2>3. ASSUME NEW c \in Command PROVE filter'[c] \in Seq(OfSent)
    <3>1. filter[c] \in Seq(OfSent) /\ Fed(c) \in Seq(OfSent) /\ <<>> \in Seq(OfSent)
      BY <1>1, <1>3, <1>7, FedParts, EmptySeq DEF SentInv
    <3>2. filter'[c] \in {filter[c], <<>>, Fed(c)}
      BY <1>2 DEF HandlerCases, Skips, StartsTimer, Tells, ReadsOn, Takes, protocol
    <3> QED BY <3>1, <3>2
  <2> QED BY <1>6, <2>1, <2>2, <2>3 DEF SentInv
<1> QED BY <1>4, <1>5, <1>6, <1>8 DEF BaseInv, ServiceInv

(* A fragment the bus gives is one of a command it received. *)
LEMMA BusParts ==
    ASSUME TypeInv, BusReply
    PROVE  /\ UNCHANGED <<client, protocol, asio, history>>
           /\ \E c \in Command :
                 /\ \A d \in Command : d # c => device'[d] = device[d] /\ device[d] # "responding"
                 /\ \/ /\ device[c] = "received" /\ device'[c] = "responding"
                       /\ rx' = Append(rx, [of |-> c, part |-> "head"])
                    \/ /\ device[c] = "responding" /\ device'[c] = "done"
                       /\ \E kind \in Replies : rx' = Append(rx, [of |-> c, part |-> kind])
           /\ device' \in [Command -> {"none", "received", "responding", "done"}]
           /\ \E g \in Fragment : rx' = Append(rx, g) /\ device[g.of] # "none"
<1>1. device \in [Command -> {"none", "received", "responding", "done"}]
  BY DEF TypeInv, TypeOK
<1>2. PICK c \in Command :
        /\ \A d \in Command \ {c} : device[d] # "responding"
        /\ \/ /\ device[c] = "received"
              /\ device' = [device EXCEPT ![c] = "responding"]
              /\ rx' = Append(rx, [of |-> c, part |-> "head"])
           \/ /\ device[c] = "responding"
              /\ device' = [device EXCEPT ![c] = "done"]
              /\ \E kind \in Replies : rx' = Append(rx, [of |-> c, part |-> kind])
  BY DEF BusReply
<1>3. \A kind \in {"head"} \cup Replies : [of |-> c, part |-> kind] \in Fragment
  BY DEF Fragment
<1>4. \E g \in Fragment : rx' = Append(rx, g) /\ device[g.of] # "none"
  <2>1. device[c] # "none" /\ \E kind \in {"head"} \cup Replies : rx' = Append(rx, [of |-> c, part |-> kind])
    BY <1>2
  <2>2. PICK kind \in {"head"} \cup Replies : rx' = Append(rx, [of |-> c, part |-> kind])
    BY <2>1
  <2>3. PICK g \in Fragment : g = [of |-> c, part |-> kind]
    BY <1>3
  <2> QED BY <2>1, <2>2, <2>3
<1>5. UNCHANGED <<client, protocol, asio, history>>
  BY DEF BusReply
<1> QED BY <1>1, <1>2, <1>4, <1>5

LEMMA BusBase ==
    ASSUME TerminalInv, BusReply
    PROVE  BaseInv'
<1>1. /\ TypeInv /\ TypeOK /\ OneListener /\ CallInv /\ SentInv
      /\ UNCHANGED <<client, protocol, asio, history>>
      /\ device' \in [Command -> {"none", "received", "responding", "done"}]
      /\ \A d \in Command : device'[d] # "none" => device[d] # "none"
  BY BusParts DEF TerminalInv, BaseInv, TypeInv, ServiceInv
<1>2. PICK g \in Fragment : rx' = Append(rx, g) /\ device[g.of] # "none"
  BY <1>1, BusParts
<1>3. g \in OfSent /\ Sent' = Sent /\ OfSent' = OfSent
  BY <1>1, <1>2 DEF OfSent, Sent, SentInv, Fragment, client
<1>4. rx' \in Seq(OfSent) /\ rx' \in Seq(Fragment)
  BY <1>1, <1>2, <1>3, AppendProperties DEF SentInv, TypeOK
<1>5. TypeInv'
  BY <1>1, <1>4 DEF TypeInv, TypeOK, client, protocol, asio, history
<1>6. SentInv' /\ CallInv' /\ OneListener'
  BY <1>1, <1>3, <1>4 DEF SentInv, CallInv, OneListener, Live, client, protocol, asio
<1> QED BY <1>5, <1>6 DEF BaseInv, ServiceInv

LEMMA TerminalStep == TerminalInv /\ [Next]_tvars => TerminalInv'
<1> SUFFICES ASSUME TerminalInv, [Next]_tvars PROVE TerminalInv'
  OBVIOUS
<1>1. CASE UNCHANGED vars \/ ExchangeStep
  BY <1>1, BaseStep, ExchangeStepIs, TypesStep DEF TerminalInv
<1>2. CASE Assign
  BY <1>1, <1>2 DEF Assign
<1>3. CASE IoThread \/ BusReply
  BY <1>3, HandlersBase, BusBase, TypesStep DEF TerminalInv
<1> QED BY <1>1, <1>2, <1>3, NextCases DEF tvars

LEMMA InitialTypes == TerminalInit => TerminalInv
<1>1. TerminalInit => TerminalTypes
  BY DEF TerminalInit, TerminalTypes
<1> QED BY <1>1, BaseInit DEF TerminalInit, TerminalInv

LEMMA TerminalHolds == Spec => []TerminalInv
  BY InitialTypes, TerminalStep, PTL DEF Spec

(* Every variable that TcpTerminal shares with the other providers stays   *)
(* in its range.                                                           *)
THEOREM TypeCorrect == Spec => []TypeOK
<1>1. TerminalInv => TypeOK
  BY DEF TerminalInv, BaseInv, TypeInv
<1> QED BY <1>1, TerminalHolds, PTL

(* No chunk of bytes reaches the protocol of an earlier command, although  *)
(* a terminal command that does not wait may be destroyed with everything  *)
(* it started still under way.                                             *)
THEOREM ListenerIsCurrent == Spec => []OneListener
<1>1. TerminalInv => OneListener
  BY DEF TerminalInv, BaseInv
<1> QED BY <1>1, TerminalHolds, PTL

-----------------------------------------------------------------------------
(* The service. *)
LEMMA TerminalServes == TerminalInv /\ [Next]_tvars => [Service!Next]_(Service!vars)
<1> SUFFICES ASSUME TerminalInv, [Next]_tvars PROVE [Service!Next]_(Service!vars)
  OBVIOUS
<1>1. BaseInv /\ TypeInv /\ TypeOK /\ OneListener /\ CallTypes
  BY DEF TerminalInv, BaseInv, TypeInv, TypeOK, CallTypes
<1>2. CASE UNCHANGED vars \/ ExchangeStep
  BY <1>1, <1>2, ServiceStep, ExchangeStepIs
<1>3. CASE BusReply \/ Assign
  BY <1>3 DEF BusReply, Assign, client, protocol, Service!vars, vars
<1>4. CASE IoThread
  <2>1. HandlerCases
    BY <1>1, <1>4, IoThreadCases
  <2>2. UNCHANGED client
    BY <2>1 DEF HandlerCases
  <2>3. CASE UNCHANGED <<slots, answer>>
    BY <2>2, <2>3 DEF client, Service!vars
  <2>4. CASE \E s \in Live \cup {None}, a \in Answer :
               /\ SetAnswer(s, a)
               /\ \/ a \in ErrorAnswer
                  \/ Takes /\ s = cmd /\ a = Packet(Fed(cmd)[2].part, Fed(cmd)[1].of)
                     /\ Fed(cmd)[1].of \in Sent /\ a.result \in {"DATA", "SHORT_DATA", "NACK"}
    <3>1. PICK s \in Live \cup {None}, a \in Answer :
               /\ SetAnswer(s, a)
               /\ \/ a \in ErrorAnswer
                  \/ Takes /\ s = cmd /\ a = Packet(Fed(cmd)[2].part, Fed(cmd)[1].of)
                     /\ Fed(cmd)[1].of \in Sent /\ a.result \in {"DATA", "SHORT_DATA", "NACK"}
      BY <2>4
    <3>2. \/ a \in {Error(e) : e \in {"PACKET_CRC_ERROR", "IO_ERROR", "NO_ANSWER"}}
          \/ a \in {Packet(r, c) : r \in {"DATA", "SHORT_DATA", "NACK"}, c \in Sent}
      BY <3>1 DEF ErrorAnswer, Packet
    <3> QED BY <1>1, <2>2, <3>1, <3>2, SetAnswerServes DEF Service!Next
  <2> QED BY <1>1, <2>1, <2>3, <2>4, HandlerAnswers
<1> QED BY <1>2, <1>3, <1>4, NextCases DEF tvars

(* A terminal command is answered at most once and while it is open, with  *)
(* an error or a reply to a command that was sent before, and returns      *)
(* that, although its reads and its timer outlive the command that began   *)
(* them.                                                                   *)
THEOREM ServiceIsGiven == Spec => ImplementsCommandService
<1>1. TerminalInit => Service!Init
  BY ServiceInit DEF TerminalInit
<1> QED BY <1>1, TerminalServes, TerminalHolds, PTL DEF Spec, ImplementsCommandService, Service!Spec

-----------------------------------------------------------------------------
(* What wakes the client up.  The end of its write starts its timer, or    *)
(* answers at once; whoever drops the timer of the open command has set    *)
(* its promise.                                                            *)
LEMMA TerminalHandlersKeepWaker ==
    ASSUME BaseInv, pc = "waiting", ~stale', Waker, HandlerCases
    PROVE  Waker'
<1> DEFINE h == Head(ready)
<1>1. /\ TypeInv /\ TypeOK /\ cmd' = cmd /\ writes' = writes /\ ready # <<>>
      /\ cmd \in Command /\ Live = {cmd} /\ Kept(Tail(ready), ready')
  BY HandlerQueue DEF BaseInv, TypeInv, TypeOK, HandlerCases, client, Live
<1>2. \A kind, err : Queued(kind, cmd, err) =>
          Queued(kind, cmd, err)' \/ (h.handler = kind /\ h.error = err)
  BY <1>1, QueuedHeadOrTail
<1>3. CASE UNCHANGED <<answer, timer>> /\ (h.handler = "read_callback" \/ (h.handler = "wait_callback" /\ h.error))
  <2>1. \A kind, err : Queued(kind, cmd, err) /\ kind # "read_callback" /\ (kind # "wait_callback" \/ err = FALSE)
                           => Queued(kind, cmd, err)'
    BY <1>2, <1>3
  <2> QED BY <1>1, <1>3, <2>1 DEF Waker
<1>4. CASE StartsTimer
  <2>1. h.this = cmd
    BY <1>1, <1>4 DEF StartsTimer
  <2> QED BY <1>1, <1>4, <2>1 DEF StartsTimer, Waker
<1>5. ASSUME NEW a \in ErrorAnswer, Tells(a) PROVE Waker'
  <2>1. h.this \in Live
    BY <1>5 DEF Tells
  <2>2. SetAnswer(cmd, a) /\ a \in Answer
    BY <1>1, <1>5, <2>1 DEF Tells, Storage, Answer
  <2> QED BY <1>1, <2>2, AnswerGiven DEF Waker
<1>6. CASE Takes
  <2>1. TerminalVerdict(Fed(cmd)) \in Answer /\ SetAnswer(cmd, TerminalVerdict(Fed(cmd)))
    BY <1>6, TakenAnswer DEF Takes
  <2> QED BY <1>1, <2>1, AnswerGiven DEF Waker
<1> QED BY <1>3, <1>4, <1>5, <1>6 DEF HandlerCases, Skips, ReadsOn, Brings, protocol

LEMMA WakerStep == TerminalInv /\ WaitingClientHasWaker /\ [Next]_tvars => WaitingClientHasWaker'
<1> SUFFICES ASSUME TerminalInv, WaitingClientHasWaker, [Next]_tvars, pc' = "waiting", ~stale'
             PROVE  Waker'
  BY DEF WaitingClientHasWaker, Waker, Queued
<1>0. BaseInv /\ TypeInv /\ TypeOK /\ OneListener
  BY DEF TerminalInv, BaseInv, TypeInv
<1>w. pc = "waiting" /\ ~stale => Waker
  BY DEF WaitingClientHasWaker, Waker
<1>1. CASE SendThen("waiting")
  <2>1. cmd' = cmd /\ writes' = Append(writes, cmd) /\ writes \in Seq(Command) /\ cmd \in Command
    BY <1>0, <1>1 DEF SendThen, TypeOK
  <2>2. Len(writes') = Len(writes) + 1 /\ writes'[Len(writes) + 1] = cmd /\ Len(writes) \in Nat
    BY <2>1, AppendProperties, LenProperties
  <2>3. Len(writes) + 1 \in 1..Len(writes')
    BY <2>2
  <2> QED BY <2>1, <2>2, <2>3 DEF Waker
<1>2. CASE Construct \/ SendFails \/ GetAnswer \/ Destroy \/ Close \/ Join
  BY <1>2 DEF Construct, SendFails, GetAnswer, Destroy, Close, Join
<1>3. CASE WriteDone \/ WriteFails \/ ReadSome \/ ReadFails \/ TimerExpires
  <2>1. Environment /\ UNCHANGED <<pc, stale>>
    BY <1>3 DEF Environment, WriteDone, WriteFails, ReadSome, ReadFails, TimerExpires, client, history
  <2> QED BY <1>0, <1>w, <2>1, EnvironmentKeepsWaker
<1>4. CASE BusReply \/ Assign \/ UNCHANGED vars
  <2>1. UNCHANGED <<client, protocol, asio, history>>
    BY <1>4 DEF BusReply, Assign, vars
  <2> QED BY <1>w, <2>1 DEF Waker, Queued, client, protocol, asio, history
<1>5. CASE IoThread
  <2>1. HandlerCases
    BY <1>0, <1>5, IoThreadCases
  <2>2. pc = "waiting" /\ ~stale
    <3>1. pc' = pc
      BY <2>1 DEF HandlerCases, client
    <3>2. stale' \in {stale, stale \/ Head(ready).this \notin Live}
      BY <2>1 DEF HandlerCases, Skips, StartsTimer, Tells, ReadsOn, Takes
    <3> QED BY <3>1, <3>2
  <2> QED BY <1>0, <1>w, <2>1, <2>2, TerminalHandlersKeepWaker
<1>6. \/ UNCHANGED vars \/ IoThread \/ BusReply \/ Assign
      \/ SendThen("waiting")
      \/ Construct \/ SendFails \/ GetAnswer \/ Destroy \/ Close \/ Join
      \/ WriteDone \/ WriteFails \/ ReadSome \/ ReadFails \/ TimerExpires
  BY DEF tvars, Next, Client, TerminalConstruct, TerminalSend, TerminalEnvironment
<1> QED BY <1>1, <1>2, <1>3, <1>4, <1>5, <1>6

(* A client blocked in get_answer always has a write, a timer or one of    *)
(* their handlers still to come that will set its promise, in every        *)
(* behaviour in which no handler has used a destroyed protocol: a command  *)
(* that does not wait is answered by the handler of its write.             *)
THEOREM ClientHasWaker == Spec => []WaitingClientHasWaker
<1>1. TerminalInit => WaitingClientHasWaker
  BY DEF TerminalInit, Opened, WaitingClientHasWaker
<1> QED BY <1>1, TerminalHolds, WakerStep, PTL DEF Spec

-----------------------------------------------------------------------------
(* The stream of fragments.  One read at most is pending or has bytes in   *)
(* the buffer, so what has arrived is what that read brings followed by    *)
(* what is still in the port; and in there, in the filter that listens and *)
(* in the answers, the head of a packet is only once.                      *)
Untouched == \A c \in Command : c > cmd => filter[c] = <<>> /\ answer[c] = Unset

(* A command is written once. *)
WritesOnce ==
    /\ \A i \in 1..Len(writes) : device[writes[i]] = "none"
    /\ \A i, j \in 1..Len(writes) : writes[i] = writes[j] => i = j

Started(c) == device[c] \in {"responding", "done"}

Answered(c) == \E d \in Command : answer[d].of = c

Collected(c) == \E d \in slots : filter[d] # <<>> /\ filter[d][1].of = c

(* The packets that nobody has begun to collect. *)
Uncollected == {c \in Command : Started(c) /\ ~Answered(c) /\ ~Collected(c)}

(* The heads of s are different ones, of the packets of C. *)
Fresh(s, C) ==
    \A i \in 1..Len(s) : IsHead(s[i]) =>
        /\ s[i].of \in C
        /\ \A j \in 1..Len(s) : IsHead(s[j]) /\ s[j].of = s[i].of => j = i

(* What a read of n fragments brings, and what follows it. *)
Arriving(n) == SubSeq(read_buf, 1, n) \o rx

FreshLine ==
    /\ Fresh(rx, Uncollected)
    /\ \A k \in 1..Len(ready) : Brings(ready[k]) => Fresh(Arriving(ready[k].n), Uncollected)

Collecting ==
    \A c \in slots : filter[c] # <<>> =>
        IsHead(filter[c][1]) /\ Started(filter[c][1].of) /\ ~Answered(filter[c][1].of)

UsedOnce ==
    /\ \A c \in Command : Answered(c) => Started(c)
    /\ \A c, d \in Command : (c # d /\ answer[c].of # None) => answer[c].of # answer[d].of

StreamInv == Untouched /\ WritesOnce /\ OneRead /\ FreshLine /\ Collecting /\ UsedOnce

(* Handlers of waits, of writes and of failed reads bring nothing. *)
LEMMA BringFreeQueues ==
    ASSUME TypeOK, NEW q \in Seq(Handler)
    PROVE  /\ WithAbortedWait(q) \in Seq(Handler)
           /\ BringFree(q) => BringFree(WithAbortedWait(q))
           /\ \A j, k \in 1..Len(WithAbortedWait(q)) :
                 Brings(WithAbortedWait(q)[j]) => j \in 1..Len(q) /\ q[j] = WithAbortedWait(q)[j]
<1>1. CASE timer = None
  BY <1>1 DEF WithAbortedWait
<1>2. CASE timer # None
  <2>1. PICK h \in Handler : h = WaitHandler(timer, TRUE)
    BY <1>2 DEF TypeOK, WaitHandler, Handler
  <2>2. WithAbortedWait(q) = Append(q, h) /\ ~Brings(h)
    BY <1>2, <2>1 DEF WithAbortedWait, WaitHandler, Brings
  <2>3. /\ Append(q, h) \in Seq(Handler) /\ Len(Append(q, h)) = Len(q) + 1 /\ Len(q) \in Nat
        /\ \A i \in 1..Len(q) : Append(q, h)[i] = q[i]
        /\ Append(q, h)[Len(q) + 1] = h
    BY AppendProperties, LenProperties
  <2> QED BY <2>2, <2>3 DEF BringFree
<1> QED BY <1>1, <1>2

(* What is fresh stays so without its beginning, whose heads are others.   *)
LEMMA FreshRest ==
    ASSUME NEW s \in Seq(Fragment), NEW t \in Seq(Fragment), NEW C, Fresh(s \o t, C)
    PROVE  /\ Fresh(t, C)
           /\ \A i \in 1..Len(s) : IsHead(s[i]) => s[i].of \in C /\ Fresh(t, C \ {s[i].of})
<1> DEFINE u == s \o t
<1>1. Len(s) \in Nat /\ Len(t) \in Nat
  BY LenProperties
<1>2. /\ Len(u) = Len(s) + Len(t)
      /\ \A i \in 1..(Len(s) + Len(t)) : u[i] = IF i <= Len(s) THEN s[i] ELSE t[i - Len(s)]
  BY ConcatProperties
<1>3. Fresh(u, C)
  OBVIOUS
<1> HIDE DEF u
<1>4. \A i \in 1..Len(t) : Len(s) + i \in 1..Len(u) /\ u[Len(s) + i] = t[i]
  <2>1. ASSUME NEW i \in 1..Len(t)
        PROVE  Len(s) + i \in 1..Len(u) /\ ~(Len(s) + i <= Len(s)) /\ Len(s) + i - Len(s) = i
               /\ Len(s) + i \in 1..(Len(s) + Len(t))
    BY <1>1, <1>2
  <2> QED BY <1>2, <2>1
<1>5. \A i \in 1..Len(s) : i \in 1..Len(u) /\ u[i] = s[i]
  BY <1>1, <1>2
<1>6. \A i, j \in 1..Len(t) : Len(s) + i = Len(s) + j => i = j
  BY <1>1
<1>7. \A i \in 1..Len(s), j \in 1..Len(t) : Len(s) + j # i
  BY <1>1
<1>8. ASSUME NEW i \in 1..Len(t), IsHead(t[i])
      PROVE  /\ t[i].of \in C
             /\ \A j \in 1..Len(t) : IsHead(t[j]) /\ t[j].of = t[i].of => j = i
  <2>1. Len(s) + i \in 1..Len(u) /\ u[Len(s) + i] = t[i]
    BY <1>4
  <2>2. t[i].of \in C
    BY <1>3, <1>8, <2>1 DEF Fresh
  <2>3. ASSUME NEW j \in 1..Len(t), IsHead(t[j]), t[j].of = t[i].of
        PROVE  j = i
    <3>1. PICK a, b : a = Len(s) + i /\ b = Len(s) + j
      OBVIOUS
    <3>2. a \in 1..Len(u) /\ b \in 1..Len(u) /\ u[a] = t[i] /\ u[b] = t[j]
      BY <1>4, <3>1
    <3>3. b = a
      BY <1>3, <1>8, <2>3, <3>2 DEF Fresh
    <3> QED BY <1>6, <3>1, <3>3
  <2> QED BY <2>2, <2>3
<1>9. ASSUME NEW i \in 1..Len(s), IsHead(s[i])
      PROVE  /\ s[i].of \in C
             /\ \A j \in 1..Len(t) : IsHead(t[j]) => t[j].of # s[i].of
  <2>1. i \in 1..Len(u) /\ u[i] = s[i]
    BY <1>5
  <2>2. ASSUME NEW j \in 1..Len(t), IsHead(t[j]), t[j].of = s[i].of
        PROVE  Len(s) + j = i
    <3>1. PICK b : b = Len(s) + j
      OBVIOUS
    <3>2. b \in 1..Len(u) /\ u[b] = t[j]
      BY <1>4, <3>1
    <3>3. b = i
      BY <1>3, <1>9, <2>1, <2>2, <3>2 DEF Fresh
    <3> QED BY <3>1, <3>3
  <2>3. s[i].of \in C
    BY <1>3, <1>9, <2>1 DEF Fresh
  <2>4. \A j \in 1..Len(t) : ~(IsHead(t[j]) /\ t[j].of = s[i].of)
    BY <1>7, <1>9, <2>2
  <2> QED BY <2>3, <2>4
<1> QED BY <1>8, <1>9 DEF Fresh

(* It is fresh with a fragment more, if that is no head or a new one. *)
LEMMA FreshAppend ==
    ASSUME NEW s \in Seq(Fragment), NEW g \in Fragment, NEW C, NEW D, Fresh(s, C), C \subseteq D,
           IsHead(g) => g.of \in D /\ g.of \notin C
    PROVE  Fresh(Append(s, g), D)
<1>1. /\ Len(Append(s, g)) = Len(s) + 1 /\ Len(s) \in Nat
      /\ \A i \in 1..Len(s) : Append(s, g)[i] = s[i]
      /\ Append(s, g)[Len(s) + 1] = g
  BY AppendProperties, LenProperties
<1> QED BY <1>1 DEF Fresh

LEMMA FreshWider ==
    ASSUME NEW s, NEW C, NEW D, Fresh(s, C), C \subseteq D
    PROVE  Fresh(s, D)
  BY DEF Fresh

(* A read takes the beginning of what has arrived, and nothing else.       *)
LEMMA ArrivingRead ==
    ASSUME TypeOK, NEW q, ReadInto(q)
    PROVE  /\ SubSeq(read_buf', 1, Readable) \o rx' = rx
           /\ \E s \in Seq(Fragment) : rx = s \o rx'
           /\ rx' \in Seq(Fragment) /\ Readable \in Nat
<1> DEFINE n == Readable
           data == SubSeq(rx, 1, n)
           tail == SubSeq(read_buf, n + 1, Len(read_buf))
<1>1. n \in Nat /\ n <= Len(rx) /\ Len(rx) \in Nat /\ Len(read_buf) \in Nat
      /\ rx \in Seq(Fragment) /\ read_buf \in Seq(Fragment)
  BY ExchangeAssumption, LenProperties DEF Readable, TypeOK
<1>2. data \in Seq(Fragment) /\ Len(data) = n
  <2>1. data \in Seq(Fragment) /\ Len(data) = IF 1 <= n THEN n - 1 + 1 ELSE 0
    BY <1>1, PartOfSeq
  <2> QED BY <1>1, <2>1
<1>3. tail \in Seq(Fragment)
  BY <1>1, PartOfSeq
<1>4. rx' = SubSeq(rx, n + 1, Len(rx)) /\ rx' \in Seq(Fragment)
  BY <1>1, PartOfSeq DEF ReadInto
<1>5. read_buf' = data \o tail
  BY <1>2 DEF ReadInto, Overwrite
<1>6. data \o rx' = rx
  <2>1. SubSeq(rx, 1, n) \o SubSeq(rx, n + 1, Len(rx)) = SubSeq(rx, 1, Len(rx))
    <3>1. 1 \in 1..Len(rx) + 1 /\ n \in 1 - 1..Len(rx) /\ Len(rx) \in n..Len(rx)
      BY <1>1
    <3> QED BY <1>1, <3>1, ConcatAdjacentSubSeq
  <2> QED BY <1>1, <1>4, <2>1, SubSeqFull
<1> HIDE DEF data, tail, n
<1>7. SubSeq(read_buf', 1, n) = data
  <2>1. PICK d \in Seq(Fragment), t \in Seq(Fragment) : d = data /\ t = tail
    BY <1>2, <1>3
  <2>2. Len(d) = n /\ Len(t) \in Nat
    BY <1>2, <2>1, LenProperties
  <2>3. SubSeq(d \o t, 1, n) = d
    <3>1. CASE n = 0
      <4>1. d = <<>>
        BY <2>2, <3>1, EmptySeq
      <4> QED BY <3>1, <4>1, SubSeqEmpty
    <3>2. CASE n # 0
      <4>1. 1 \in 1..Len(d) /\ n \in 1..Len(d)
        BY <1>1, <2>2, <3>2
      <4>2. SubSeq(d \o t, 1, n) = SubSeq(d, 1, n)
        BY <4>1, SubSeqOfConcat1
      <4> QED BY <2>2, <4>2, SubSeqFull
    <3> QED BY <3>1, <3>2
  <2> QED BY <1>5, <2>1, <2>3
<1> QED BY <1>1, <1>2, <1>4, <1>6, <1>7 DEF n

(* Reading on when nothing else is under way: what is brought and what is  *)
(* left are fresh if what had arrived is.                                  *)
LEMMA FreshRead ==
    ASSUME TypeOK, NEW q \in Seq(Handler), BringFree(q), Fresh(rx, Uncollected'),
           \/ initiate_read(q) /\ reads = 0
           \/ ReadInto(q) /\ reads' = 0
    PROVE  OneRead' /\ FreshLine'
<1>1. Len(q) \in Nat
  BY LenProperties
<1>2. CASE ReadInto(q) /\ reads' = 0
  <2>1. PICK n, h : n = Readable /\ h = ReadHandler(n, FALSE)
    OBVIOUS
  <2>2. /\ SubSeq(read_buf', 1, n) \o rx' = rx
        /\ \E s \in Seq(Fragment) : rx = s \o rx'
        /\ rx' \in Seq(Fragment) /\ n \in Nat
    BY <1>2, <2>1, ArrivingRead
  <2>3. h \in Handler /\ h.n = n /\ ready' = Append(q, h)
    BY <1>2, <2>1, <2>2 DEF ReadInto, ReadHandler, Handler
  <2>4. /\ Len(ready') = Len(q) + 1
        /\ \A i \in 1..Len(q) : ready'[i] = q[i]
        /\ ready'[Len(q) + 1] = h
    BY <2>3, AppendProperties
  <2>5. \A k \in 1..Len(ready') : Brings(ready'[k]) => k = Len(q) + 1
    BY <1>1, <2>4 DEF BringFree
  <2>6. OneRead'
    BY <1>2, <2>5 DEF OneRead
  <2>7. Fresh(rx', Uncollected')
    <3>1. PICK s \in Seq(Fragment) : rx = s \o rx'
      BY <2>2
    <3>2. PICK t, C : t = rx' /\ C = Uncollected'
      OBVIOUS
    <3>3. t \in Seq(Fragment) /\ Fresh(s \o t, C)
      BY <2>2, <3>1, <3>2
    <3>4. Fresh(t, C)
      BY <3>3, FreshRest
    <3> QED BY <3>2, <3>4
  <2>8. ASSUME NEW k \in 1..Len(ready'), Brings(ready'[k])
        PROVE  Fresh(SubSeq(read_buf', 1, ready'[k].n) \o rx', Uncollected')
    BY <2>2, <2>3, <2>4, <2>5, <2>8
  <2> QED BY <2>6, <2>7, <2>8 DEF FreshLine, Arriving
<1>3. CASE reads = 0 /\ reads' = reads + 1 /\ ready' = q /\ UNCHANGED <<read_buf, rx>>
  BY <1>3 DEF OneRead, FreshLine, BringFree
<1> QED BY <1>2, <1>3 DEF initiate_read

(* What p brings is what q brings, or some of it. *)
NoMore(p, q) ==
    \E m \in {0, 1} : \A k \in 1..Len(p) : Brings(p[k]) => k + m \in 1..Len(q) /\ q[k + m] = p[k]

LEMMA NoMoreTail ==
    ASSUME TypeOK, ready # <<>>
    PROVE  NoMore(Tail(ready), ready) /\ NoMore(WithAbortedWait(Tail(ready)), ready)
           /\ Tail(ready) \in Seq(Handler) /\ WithAbortedWait(Tail(ready)) \in Seq(Handler)
<1>1. /\ Tail(ready) \in Seq(Handler) /\ Len(ready) \in Nat /\ Len(Tail(ready)) = Len(ready) - 1
      /\ \A k \in 1..Len(Tail(ready)) : Tail(ready)[k] = ready[k + 1]
  BY HeadTailProperties, LenProperties DEF TypeOK
<1>2. PICK t \in Seq(Handler) : t = Tail(ready)
  BY <1>1
<1>3. \A k \in 1..Len(t) : k + 1 \in 1..Len(ready) /\ ready[k + 1] = t[k]
  BY <1>1, <1>2
<1>4. /\ WithAbortedWait(t) \in Seq(Handler)
      /\ \A k \in 1..Len(WithAbortedWait(t)) :
            Brings(WithAbortedWait(t)[k]) => k \in 1..Len(t) /\ t[k] = WithAbortedWait(t)[k]
  BY BringFreeQueues
<1> QED BY <1>2, <1>3, <1>4 DEF NoMore

LEMMA NoMoreAppend ==
    ASSUME NEW q \in Seq(Handler), NEW h \in Handler, ~Brings(h)
    PROVE  NoMore(Append(q, h), q)
<1>1. /\ Len(Append(q, h)) = Len(q) + 1 /\ Len(q) \in Nat
      /\ \A i \in 1..Len(q) : Append(q, h)[i] = q[i]
      /\ Append(q, h)[Len(q) + 1] = h
  BY AppendProperties, LenProperties
<1>2. \A k \in 1..Len(Append(q, h)) : Brings(Append(q, h)[k]) => k + 0 \in 1..Len(q) /\ q[k + 0] = Append(q, h)[k]
  BY <1>1
<1> QED BY <1>2 DEF NoMore

(* Steps that bring nothing new keep the stream fresh. *)
LEMMA StreamSteady ==
    ASSUME TypeOK, OneRead, FreshLine, Uncollected \subseteq Uncollected',
           UNCHANGED <<read_buf, rx>>, reads' \in {0, reads}, NoMore(ready', ready)
    PROVE  OneRead' /\ FreshLine'
<1>1. PICK m \in {0, 1} : \A k \in 1..Len(ready') :
          Brings(ready'[k]) => k + m \in 1..Len(ready) /\ ready[k + m] = ready'[k]
  BY DEF NoMore
<1>2. reads' <= 1
  BY DEF OneRead, TypeOK
<1>3. ASSUME NEW j \in 1..Len(ready'), NEW k \in 1..Len(ready'), Brings(ready'[j]), Brings(ready'[k])
      PROVE  j = k
  <2>1. j + m = k + m
    BY <1>1, <1>3 DEF OneRead
  <2> QED BY <2>1
<1>4. reads' # 0 => BringFree(ready')
  BY <1>1 DEF OneRead, BringFree
<1>5. ASSUME NEW k \in 1..Len(ready'), Brings(ready'[k])
      PROVE  Fresh(SubSeq(read_buf', 1, ready'[k].n) \o rx', Uncollected')
  <2>1. Fresh(Arriving(ready'[k].n), Uncollected)
    BY <1>1, <1>5 DEF FreshLine
  <2>2. PICK s, C, D : s = Arriving(ready'[k].n) /\ C = Uncollected /\ D = Uncollected'
    OBVIOUS
  <2>3. Fresh(s, D)
    BY <2>1, <2>2, FreshWider
  <2> QED BY <2>2, <2>3 DEF Arriving
<1>6. Fresh(rx', Uncollected')
  <2>1. PICK C, D : C = Uncollected /\ D = Uncollected'
    OBVIOUS
  <2> QED BY <2>1, FreshWider DEF FreshLine
<1> QED BY <1>2, <1>3, <1>4, <1>5, <1>6 DEF OneRead, FreshLine, Arriving, BringFree

(* The client adds a listener that has collected nothing, and writes what  *)
(* was never written.                                                      *)
LEMMA StreamClient ==
    ASSUME TerminalInv, StreamInv, AnyClient
    PROVE  StreamInv'
<1>1. /\ TypeOK /\ SentInv /\ CallInv
      /\ Untouched /\ WritesOnce /\ OneRead /\ FreshLine /\ Collecting /\ UsedOnce
  BY DEF TerminalInv, BaseInv, TypeInv, ServiceInv, StreamInv
<1>2. /\ UNCHANGED <<filter, answer, reads, ready, read_buf, rx, device>>
      /\ slots' \subseteq slots \cup {cmd'} /\ cmd' \in {cmd, cmd + 1}
      /\ cmd' = cmd => slots' \subseteq slots
  <2>1. CASE Construct
    <3>1. cmd' = cmd + 1 /\ cmd + 1 # cmd /\ slots' = slots \cup {cmd + 1}
      BY <1>1, <2>1 DEF Construct, TypeOK, Command, None
    <3> QED BY <2>1, <3>1 DEF Construct, asio, line
  <2>2. CASE AnyClient /\ ~Construct
    BY <2>2 DEF AnyClient, SendFails, GetAnswer, Destroy, Close, Join, SendThen, RunEnds,
       protocol, asio, line
  <2> QED BY <2>1, <2>2
<1>3. \A c \in slots' : c \in slots \/ filter[c] = <<>>
  <2>1. cmd' # cmd => cmd' = cmd + 1 /\ cmd' \in Command /\ cmd' > cmd
    BY <1>1, <1>2, ExchangeAssumption DEF AnyClient, Construct, SendFails, GetAnswer, Destroy, Close, Join,
       SendThen, RunEnds, TypeOK, Command, None
  <2> QED BY <1>1, <1>2, <2>1 DEF Untouched
<1>4. Untouched'
  BY <1>1, <1>2 DEF Untouched, TypeOK, Command, None
<1>5. WritesOnce'
  <2>1. CASE SendThen("running") \/ SendThen("waiting")
    <3>1. cmd \in Command /\ pc = "listening" /\ writes' = Append(writes, cmd)
      BY <1>1, <2>1 DEF SendThen, TypeOK
    <3>2. cmd \notin Sent
      BY <3>1 DEF Sent
    <3>3. device[cmd] = "none" /\ \A i \in 1..Len(writes) : writes[i] # cmd
      BY <1>1, <3>1, <3>2, ElementOfSeq DEF SentInv, TypeOK
    <3>4. /\ Len(Append(writes, cmd)) = Len(writes) + 1 /\ Len(writes) \in Nat
          /\ \A i \in 1..Len(writes) : Append(writes, cmd)[i] = writes[i]
          /\ Append(writes, cmd)[Len(writes) + 1] = cmd
      BY <1>1, <3>1, AppendProperties, LenProperties DEF TypeOK
    <3> QED BY <1>1, <1>2, <3>1, <3>3, <3>4 DEF WritesOnce
  <2>2. CASE UNCHANGED writes
    BY <1>1, <1>2, <2>2 DEF WritesOnce
  <2> QED BY <2>1, <2>2 DEF AnyClient, Construct, SendFails, GetAnswer, Destroy, Close, Join, RunEnds, asio
<1>6. \A c : Started(c)' = Started(c) /\ Answered(c)' = Answered(c) /\ (Collected(c)' => Collected(c))
  BY <1>2, <1>3 DEF Started, Answered, Collected
<1>7. Uncollected \subseteq Uncollected'
  BY <1>6 DEF Uncollected
<1>8. NoMore(ready', ready)
  <2>1. \A k \in 1..Len(ready') : k + 0 \in 1..Len(ready) /\ ready[k + 0] = ready'[k]
    BY <1>2
  <2> QED BY <2>1 DEF NoMore
<1>9. OneRead' /\ FreshLine'
  BY <1>1, <1>2, <1>7, <1>8, StreamSteady
<1>10. Collecting'
  BY <1>1, <1>2, <1>3 DEF Collecting, Started, Answered
<1>11. UsedOnce'
  BY <1>1, <1>2 DEF UsedOnce, Answered, Started
<1> QED BY <1>4, <1>5, <1>9, <1>10, <1>11 DEF StreamInv

(* The port: a write that ends is of a command the device had not begun to *)
(* answer, and the only read is the one that brings something.             *)
LEMMA StreamPort ==
    ASSUME TerminalInv, StreamInv, WriteDone \/ WriteFails \/ ReadSome \/ ReadFails \/ TimerExpires
    PROVE  StreamInv'
<1>1. /\ TypeOK /\ SentInv /\ CallInv
      /\ Untouched /\ WritesOnce /\ OneRead /\ FreshLine /\ Collecting /\ UsedOnce
  BY DEF TerminalInv, BaseInv, TypeInv, ServiceInv, StreamInv
<1>2. UNCHANGED <<cmd, slots, filter, answer>>
  BY DEF WriteDone, WriteFails, ReadSome, ReadFails, TimerExpires, client, protocol
<1>3. /\ WritesOnce'
      /\ \A c \in Command : Started(c) => Started(c)'
  <2>1. CASE WriteDone \/ WriteFails
    <3>1. /\ Head(writes) = writes[1] /\ 1 \in 1..Len(writes) /\ Head(writes) \in Command
          /\ Len(writes') = Len(writes) - 1 /\ Len(writes) \in Nat
          /\ \A i \in 1..Len(writes') : writes'[i] = writes[i + 1] /\ i + 1 \in 1..Len(writes)
      <4>1. writes \in Seq(Command) /\ writes # <<>> /\ writes' = Tail(writes)
        BY <1>1, <2>1 DEF WriteDone, WriteFails, TypeOK
      <4>2. /\ Head(writes) \in Command /\ Len(Tail(writes)) = Len(writes) - 1 /\ Len(writes) \in Nat
            /\ \A i \in 1..Len(Tail(writes)) : Tail(writes)[i] = writes[i + 1]
        BY <4>1, HeadTailProperties, LenProperties
      <4>3. Len(writes) # 0 /\ Head(writes) = writes[1]
        BY <4>1, EmptySeq
      <4>4. 1 \in 1..Len(writes) /\ \A i \in 1..(Len(writes) - 1) : i + 1 \in 1..Len(writes)
        BY <4>2, <4>3
      <4> QED BY <4>1, <4>2, <4>3, <4>4
    <3>2. \A d \in Command : device'[d] = device[d] \/ (d = Head(writes) /\ device'[d] = "received")
      BY <1>1, <2>1 DEF WriteDone, WriteFails, TypeOK, line
    <3>3. device[Head(writes)] = "none"
      BY <1>1, <3>1 DEF WritesOnce
    <3>4. \A i \in 1..Len(writes') : writes'[i] # Head(writes) /\ writes'[i] \in Command
      <4>1. \A i \in 1..Len(writes') : i + 1 # 1
        BY <3>1
      <4>2. \A j \in 1..Len(writes) : writes[j] \in Command
        BY <1>1, ElementOfSeq DEF TypeOK
      <4> QED BY <1>1, <3>1, <4>1, <4>2 DEF WritesOnce
    <3>5. WritesOnce'
      <4>1. \A i \in 1..Len(writes') : device'[writes'[i]] = "none"
        <5>1. \A i \in 1..Len(writes') : device[writes'[i]] = "none"
          BY <1>1, <3>1 DEF WritesOnce
        <5> QED BY <3>2, <3>4, <5>1
      <4>2. \A i, j \in 1..Len(writes') : writes'[i] = writes'[j] => i = j
        <5>1. \A i, j \in 1..Len(writes') : writes'[i] = writes'[j] => i + 1 = j + 1
          BY <1>1, <3>1 DEF WritesOnce
        <5>2. \A i, j \in 1..Len(writes') : i + 1 = j + 1 => i = j
          BY <3>1
        <5> QED BY <5>1, <5>2
      <4> QED BY <4>1, <4>2 DEF WritesOnce
    <3> QED BY <3>2, <3>3, <3>5 DEF Started
  <2>2. CASE UNCHANGED <<writes, device>>
    BY <1>1, <2>2 DEF WritesOnce, Started
  <2> QED BY <2>1, <2>2 DEF ReadSome, ReadFails, TimerExpires, line
<1>4. Uncollected \subseteq Uncollected'
  BY <1>2, <1>3 DEF Uncollected, Answered, Collected
<1>5. Untouched' /\ Collecting' /\ UsedOnce'
  <2>1. Untouched'
    BY <1>1, <1>2 DEF Untouched
  <2>2. \A c \in slots : filter[c] # <<>> => filter[c][1].of \in Command
    <3>1. \A c \in slots : filter[c] \in Seq(Fragment)
      BY <1>1 DEF TypeOK
    <3>2. \A c \in slots : filter[c] # <<>> => 1 \in 1..Len(filter[c])
      BY <3>1, LenProperties, EmptySeq
    <3>3. \A c \in slots : filter[c] # <<>> => filter[c][1] \in Fragment
      BY <3>1, <3>2, ElementOfSeq
    <3> QED BY <3>3 DEF Fragment
  <2>3. Collecting'
    BY <1>1, <1>2, <1>3, <2>2 DEF Collecting, Answered
  <2>4. UsedOnce'
    BY <1>1, <1>2, <1>3 DEF UsedOnce, Answered
  <2> QED BY <2>1, <2>3, <2>4
<1>6. ASSUME NEW h \in Handler, ~Brings(h), ready' = Append(ready, h), UNCHANGED <<read_buf, rx>>,
             reads' \in {0, reads}
      PROVE  OneRead' /\ FreshLine'
  <2>1. NoMore(ready', ready)
    BY <1>1, <1>6, NoMoreAppend DEF TypeOK
  <2> QED BY <1>1, <1>4, <1>6, <2>1, StreamSteady
<1>7. OneRead' /\ FreshLine'
  <2>1. CASE WriteDone \/ WriteFails
    <3>1. PICK h \in Handler : h.handler = "write_callback" /\ ready' = Append(ready, h)
      <4>1. Head(writes) \in Command
        BY <1>1, <2>1, HeadTailProperties DEF WriteDone, WriteFails, TypeOK
      <4>2. PICK e \in BOOLEAN : ready' = Append(ready, WriteHandler(Head(writes), e))
        BY <2>1 DEF WriteDone, WriteFails
      <4>3. WriteHandler(Head(writes), e) \in Handler /\ WriteHandler(Head(writes), e).handler = "write_callback"
        BY <4>1 DEF WriteHandler, Handler
      <4> QED BY <4>2, <4>3
    <3> QED BY <1>6, <2>1, <3>1 DEF WriteDone, WriteFails, Brings, line
  <2>2. CASE ReadFails
    <3>1. PICK h \in Handler : h = ReadHandler(0, TRUE)
      BY DEF ReadHandler, Handler
    <3>2. reads' = 0
      BY <1>1, <2>2 DEF ReadFails, OneRead, TypeOK
    <3> QED BY <1>6, <2>2, <3>1, <3>2 DEF ReadFails, ReadHandler, Brings, line
  <2>3. CASE TimerExpires
    <3>1. PICK h \in Handler : h = WaitHandler(timer, FALSE)
      BY <1>1, <2>3 DEF TimerExpires, WaitHandler, Handler, TypeOK
    <3> QED BY <1>6, <2>3, <3>1 DEF TimerExpires, WaitHandler, Brings, line
  <2>4. CASE ReadSome
    <3>1. reads' = 0 /\ BringFree(ready) /\ ReadInto(ready) /\ device' = device
      BY <1>1, <2>4 DEF ReadSome, OneRead, TypeOK
    <3>2. Fresh(rx, Uncollected')
      BY <1>1, <1>2, <3>1 DEF FreshLine, Uncollected, Started, Answered, Collected
    <3> QED BY <1>1, <3>1, <3>2, FreshRead DEF TypeOK
  <2> QED BY <2>1, <2>2, <2>3, <2>4
<1> QED BY <1>3, <1>5, <1>7 DEF StreamInv

(* The bus: the head of a reply is a new one. *)
LEMMA StreamBus ==
    ASSUME TerminalInv, StreamInv, BusReply
    PROVE  StreamInv'
<1>1. /\ TypeInv /\ TypeOK /\ SentInv
      /\ Untouched /\ WritesOnce /\ OneRead /\ FreshLine /\ Collecting /\ UsedOnce
      /\ UNCHANGED <<client, protocol, asio, history>>
  BY BusParts DEF TerminalInv, BaseInv, TypeInv, ServiceInv, StreamInv
<1>2. PICK c \in Command :
        /\ \A d \in Command : d # c => device'[d] = device[d] /\ device[d] # "responding"
        /\ \/ /\ device[c] = "received" /\ device'[c] = "responding"
              /\ rx' = Append(rx, [of |-> c, part |-> "head"])
           \/ /\ device[c] = "responding" /\ device'[c] = "done"
              /\ \E kind \in Replies : rx' = Append(rx, [of |-> c, part |-> kind])
  BY <1>1, BusParts
<1>3. PICK g \in Fragment :
        /\ rx' = Append(rx, g) /\ g.of = c
        /\ IsHead(g) => device[c] = "received"
        /\ device[c] = "received" => IsHead(g)
  <2>1. \A kind \in {"head"} \cup Replies :
          /\ [of |-> c, part |-> kind] \in Fragment /\ [of |-> c, part |-> kind].of = c
          /\ IsHead([of |-> c, part |-> kind]) <=> kind = "head"
    BY DEF Fragment, IsHead
  <2>2. "head" \notin Replies
    BY ExchangeAssumption DEF ReplyKind
  <2>3. CASE device[c] = "received"
    BY <1>2, <2>1, <2>3
  <2>4. CASE device[c] = "responding"
    <3>1. PICK kind \in Replies : rx' = Append(rx, [of |-> c, part |-> kind])
      BY <1>2, <2>4
    <3> QED BY <2>1, <2>2, <2>4, <3>1
  <2> QED BY <1>2, <2>3, <2>4
<1>4. \A d \in Command : /\ Started(d) => Started(d)'
                         /\ device'[d] = device[d] \/ (d = c /\ device[d] # "none")
  BY <1>2 DEF Started
<1>5. UNCHANGED <<cmd, slots, filter, answer, writes, reads, ready, read_buf>>
  BY <1>1 DEF client, protocol, asio
<1>6. \A d : Answered(d)' = Answered(d) /\ Collected(d)' = Collected(d)
  BY <1>5 DEF Answered, Collected
<1>7. Uncollected \subseteq Uncollected'
  BY <1>4, <1>6 DEF Uncollected
<1>8. IsHead(g) => c \in Uncollected' /\ c \notin Uncollected
  <2> SUFFICES ASSUME IsHead(g) PROVE c \in Uncollected' /\ c \notin Uncollected
    OBVIOUS
  <2>1. ~Started(c) /\ Started(c)'
    BY <1>2, <1>3 DEF Started
  <2>2. ~Answered(c) /\ ~Collected(c)
    BY <1>1, <2>1 DEF UsedOnce, Collecting, Collected
  <2> QED BY <1>6, <2>1, <2>2 DEF Uncollected
<1>9. FreshLine'
  <2>1. PICK C, D : C = Uncollected /\ D = Uncollected'
    OBVIOUS
  <2>2. C \subseteq D /\ (IsHead(g) => g.of \in D /\ g.of \notin C)
    BY <1>3, <1>7, <1>8, <2>1
  <2>3. Fresh(rx', D)
    BY <1>1, <1>3, <2>1, <2>2, FreshAppend DEF FreshLine, TypeOK
  <2>4. ASSUME NEW k \in 1..Len(ready), Brings(ready[k])
        PROVE  Fresh(SubSeq(read_buf, 1, ready[k].n) \o rx', D)
    <3>1. PICK s : s = SubSeq(read_buf, 1, ready[k].n)
      OBVIOUS
    <3>2. s \in Seq(Fragment)
      <4>1. ready[k] \in Bounded(Len(read_buf)) /\ Len(read_buf) \in Nat
        BY <1>1, ElementOfSeq, LenProperties DEF TypeInv, TypeOK
      <4>2. ready[k].n \in Nat /\ ready[k].n <= Len(read_buf)
        BY <4>1 DEF Bounded, Handler
      <4> QED BY <1>1, <3>1, <4>1, <4>2, PartOfSeq DEF TypeOK
    <3>3. s \o rx \in Seq(Fragment) /\ s \o rx' = Append(s \o rx, g)
      <4>1. rx \in Seq(Fragment)
        BY <1>1 DEF TypeOK
      <4>2. s \o Append(rx, g) = Append(s \o rx, g)
        BY <3>2, <4>1
      <4> QED BY <1>3, <3>2, <4>1, <4>2, ConcatProperties
    <3>4. Fresh(s \o rx, C)
      BY <1>1, <2>1, <2>4, <3>1 DEF FreshLine, Arriving
    <3>5. Fresh(Append(s \o rx, g), D)
      BY <2>2, <3>3, <3>4, FreshAppend
    <3> QED BY <3>1, <3>3, <3>5
  <2> QED BY <1>5, <2>1, <2>3, <2>4 DEF FreshLine, Arriving
<1>10. OneRead' /\ Untouched'
  BY <1>1, <1>5 DEF OneRead, BringFree, Untouched
<1>11. WritesOnce'
  <2>1. \A i \in 1..Len(writes) : writes[i] \in Command
    BY <1>1, ElementOfSeq DEF TypeOK
  <2> QED BY <1>1, <1>4, <1>5, <2>1 DEF WritesOnce
<1>12. UsedOnce'
  BY <1>1, <1>4, <1>5, <1>6 DEF UsedOnce
<1>13. Collecting'
  <2>1. ASSUME NEW d \in slots, filter[d] # <<>>
        PROVE  filter[d][1].of \in Command
    <3>1. filter[d] \in Seq(Fragment) /\ 1 \in 1..Len(filter[d])
      BY <1>1, <2>1, LenProperties, EmptySeq DEF TypeOK
    <3>2. filter[d][1] \in Fragment
      BY <3>1, ElementOfSeq
    <3> QED BY <3>2 DEF Fragment
  <2> QED BY <1>1, <1>4, <1>5, <1>6, <2>1 DEF Collecting
<1> QED BY <1>9, <1>10, <1>11, <1>12, <1>13 DEF StreamInv

(* What the filter that listens starts with, once it is fed, is the head   *)
(* of a packet that nobody was given, and what follows has other heads.    *)
LEMMA HeadOfFed ==
    ASSUME TerminalInv, StreamInv, ready # <<>>, Brings(Head(ready)), cmd \in slots, Fed(cmd) # <<>>
    PROVE  /\ Fed(cmd) \in Seq(Fragment)
           /\ IsHead(Fed(cmd)[1]) /\ Fed(cmd)[1].of \in Command
           /\ Started(Fed(cmd)[1].of) /\ ~Answered(Fed(cmd)[1].of)
           /\ Fresh(rx, Uncollected \ {Fed(cmd)[1].of})
<1>1. /\ TypeInv /\ TypeOK /\ FreshLine /\ Collecting /\ cmd \in Command
      /\ filter[cmd] \in Seq(Fragment) /\ read_buf \in Seq(Fragment) /\ rx \in Seq(Fragment)
  BY DEF TerminalInv, BaseInv, TypeInv, TypeOK, StreamInv
<1>2. PICK f, s, x : f = filter[cmd] /\ s = SubSeq(read_buf, 1, Head(ready).n) /\ x = Fed(cmd)
  OBVIOUS
<1>3. s \in Seq(Fragment) /\ x \in Seq(Fragment) /\ f \in Seq(Fragment)
  BY <1>1, <1>2, FedParts
<1>4. x = TerminalUnbytestaff(f, s)
  BY <1>2 DEF Fed
<1>5. /\ f # <<>> => x[1] = f[1]
      /\ f = <<>> => \E k \in 1..Len(s) : IsHead(s[k]) /\ x[1] = s[k]
  <2>1. /\ f # <<>> => TerminalUnbytestaff(f, s)[1] = f[1]
        /\ f = <<>> /\ TerminalUnbytestaff(f, s) # <<>> =>
              \E k \in 1..Len(s) : IsHead(s[k]) /\ TerminalUnbytestaff(f, s)[1] = s[k]
    BY <1>3, TerminalUnbytestaffParts
  <2>2. TerminalUnbytestaff(f, s) # <<>>
    BY <1>2, <1>4
  <2> QED BY <1>4, <2>1, <2>2
<1>6. x[1].of \in Command
  <2>1. 1 \in 1..Len(x)
    BY <1>2, <1>3, LenProperties, EmptySeq
  <2>2. x[1] \in Fragment
    BY <1>3, <2>1, ElementOfSeq
  <2> QED BY <2>2 DEF Fragment
<1>7. Fresh(s \o rx, Uncollected)
  <2>1. Head(ready) = ready[1] /\ 1 \in 1..Len(ready)
    BY <1>1, LenProperties, EmptySeq DEF TypeOK
  <2> QED BY <1>1, <1>2, <2>1 DEF FreshLine, Arriving
<1>8. CASE f # <<>>
  <2>1. IsHead(x[1]) /\ Started(x[1].of) /\ ~Answered(x[1].of) /\ Collected(x[1].of)
    BY <1>1, <1>2, <1>5, <1>8 DEF Collecting, Collected
  <2>2. Uncollected \ {x[1].of} = Uncollected
    BY <2>1 DEF Uncollected
  <2>3. Fresh(rx, Uncollected)
    BY <1>1 DEF FreshLine
  <2> QED BY <1>2, <1>3, <1>6, <2>1, <2>2, <2>3
<1>9. CASE f = <<>>
  <2>1. PICK k \in 1..Len(s) : IsHead(s[k]) /\ x[1] = s[k]
    BY <1>5, <1>9
  <2>2. PICK C : C = Uncollected
    OBVIOUS
  <2>3. s[k].of \in C /\ Fresh(rx, C \ {s[k].of})
    BY <1>1, <1>3, <1>7, <2>1, <2>2, FreshRest
  <2>4. Started(x[1].of) /\ ~Answered(x[1].of)
    BY <2>1, <2>2, <2>3 DEF Uncollected
  <2> QED BY <1>2, <1>3, <1>6, <2>1, <2>2, <2>3, <2>4
<1> QED BY <1>8, <1>9

(* A promise set with an error, or found set, answers with no packet. *)
LEMMA ErrorUsesNothing ==
    ASSUME TypeOK, UsedOnce, UNCHANGED <<device, filter>>, slots' \subseteq slots,
           UNCHANGED answer \/ \E s : \E a \in ErrorAnswer : answer' = Satisfied(s, a)
    PROVE  /\ UsedOnce' /\ Uncollected \subseteq Uncollected'
           /\ Collecting => Collecting'
<1>1. \A a \in ErrorAnswer : a.of = None
  BY DEF ErrorAnswer, Error
<1>2. \A d \in Command : answer'[d] = answer[d] \/ answer'[d].of = None
  BY <1>1 DEF Satisfied
<1>3. None \notin Command
  BY DEF None, Command
<1>4. \A c \in Command : Started(c)' = Started(c) /\ (Answered(c)' => Answered(c))
                         /\ (Collected(c)' => Collected(c))
  BY <1>2, <1>3 DEF Started, Answered, Collected
<1>5. UsedOnce'
  BY <1>2, <1>4 DEF UsedOnce
<1>6. Uncollected \subseteq Uncollected'
  BY <1>4 DEF Uncollected
<1>7. ASSUME Collecting PROVE Collecting'
  <2>1. ASSUME NEW d \in slots, filter[d] # <<>> PROVE filter[d][1].of \in Command
    <3>1. filter[d] \in Seq(Fragment) /\ 1 \in 1..Len(filter[d])
      BY <2>1, LenProperties, EmptySeq DEF TypeOK
    <3>2. filter[d][1] \in Fragment
      BY <3>1, ElementOfSeq
    <3> QED BY <3>2 DEF Fragment
  <2> QED BY <1>4, <1>7, <2>1 DEF Collecting
<1> QED BY <1>5, <1>6, <1>7

LEMMA StreamHandlers ==
    ASSUME TerminalInv, StreamInv, IoThread
    PROVE  StreamInv'
<1> DEFINE h == Head(ready)
           q == Tail(ready)
<1>1. /\ BaseInv /\ TypeInv /\ TypeOK /\ OneListener
      /\ Untouched /\ WritesOnce /\ OneRead /\ FreshLine /\ Collecting /\ UsedOnce
  BY DEF TerminalInv, BaseInv, TypeInv, StreamInv
<1>2. HandlerCases /\ ready # <<>> /\ UNCHANGED <<writes, device, cmd>>
  BY <1>1, IoThreadCases DEF HandlerCases, client
<1>3. WritesOnce'
  BY <1>1, <1>2 DEF WritesOnce
<1>4. slots \subseteq {cmd} /\ slots \subseteq Command /\ slots' \subseteq slots /\ Live \subseteq {cmd}
  BY <1>1, <1>2, HandlerAnswers DEF OneListener, Live, TypeOK
<1>5. \A c \in Command : c # cmd => answer'[c] = answer[c] /\ filter'[c] = filter[c]
  <2>1. UNCHANGED answer \/ \E s \in Live \cup {None} : \E a : SetAnswer(s, a)
    BY <1>1, <1>2, HandlerAnswers
  <2>2. \A c \in Command : c # cmd => answer'[c] = answer[c]
    <3>1. None \notin Command
      BY DEF None, Command
    <3>2. ASSUME NEW s \in Live \cup {None}, NEW a, SetAnswer(s, a), NEW c \in Command, c # cmd
          PROVE  answer'[c] = answer[c]
      <4>1. c # s
        BY <1>4, <3>1, <3>2
      <4> QED BY <3>2, <4>1 DEF SetAnswer, Satisfied
    <3> QED BY <2>1, <3>2
  <2>3. \A c \in Command : c # cmd => filter'[c] = filter[c]
    BY <1>2 DEF HandlerCases, Skips, StartsTimer, Tells, ReadsOn, Takes, protocol
  <2> QED BY <2>2, <2>3
<1>6. Untouched'
  BY <1>1, <1>2, <1>5 DEF Untouched, TypeOK, Command, None
<1>7. /\ NoMore(q, ready) /\ NoMore(WithAbortedWait(q), ready)
      /\ q \in Seq(Handler) /\ WithAbortedWait(q) \in Seq(Handler)
  BY <1>1, <1>2, NoMoreTail
(* Handlers that touch neither the stream nor a filter. *)
<1>8. CASE Skips \/ StartsTimer \/ \E a \in ErrorAnswer : Tells(a)
  <2>1. /\ UNCHANGED <<filter, reads, read_buf, rx>> /\ ready' \in {q, WithAbortedWait(q)}
        /\ UNCHANGED answer \/ \E s : \E a \in ErrorAnswer : answer' = Satisfied(s, a)
    BY <1>8 DEF Skips, StartsTimer, Tells, SetAnswer, protocol
  <2>2. UsedOnce' /\ Uncollected \subseteq Uncollected' /\ Collecting'
    BY <1>1, <1>2, <1>4, <2>1, ErrorUsesNothing
  <2>3. OneRead' /\ FreshLine'
    BY <1>1, <1>7, <2>1, <2>2, StreamSteady
  <2> QED BY <1>3, <1>6, <2>2, <2>3 DEF StreamInv
(* The read handler. *)
<1>9. CASE ReadsOn \/ Takes
  <2>1. Brings(h) /\ h = ready[1] /\ 1 \in 1..Len(ready)
    BY <1>1, <1>2, <1>9, LenProperties, EmptySeq DEF ReadsOn, Takes, TypeOK
  <2>2. reads = 0 /\ BringFree(q) /\ BringFree(WithAbortedWait(q))
    <3>1. BringFree(q)
      <4>1. Len(ready) \in Nat /\ Len(q) = Len(ready) - 1 /\ \A k \in 1..Len(q) : q[k] = ready[k + 1]
        BY <1>1, <1>2, HeadTailProperties, LenProperties DEF TypeOK
      <4>2. \A k \in 1..Len(q) : k + 1 \in 1..Len(ready) /\ k + 1 # 1
        BY <4>1
      <4> QED BY <1>1, <2>1, <4>1, <4>2 DEF OneRead, BringFree
    <3>2. reads = 0
      BY <1>1, <2>1 DEF OneRead, BringFree
    <3> QED BY <1>1, <1>7, <3>1, <3>2, BringFreeQueues
  <2>3. ASSUME Fresh(rx, Uncollected') PROVE OneRead' /\ FreshLine'
    <3>1. PICK p \in Seq(Handler) : BringFree(p) /\ initiate_read(p)
      BY <1>7, <1>9, <2>2 DEF ReadsOn, Takes
    <3> QED BY <1>1, <2>2, <2>3, <3>1, FreshRead
  <2>4. ASSUME NEW C, Fresh(rx, C), C \subseteq Uncollected' PROVE Fresh(rx, Uncollected')
    <3>1. PICK s, D : s = rx /\ D = Uncollected'
      OBVIOUS
    <3> QED BY <2>4, <3>1, FreshWider
  <2>5. Fresh(rx, Uncollected)
    BY <1>1 DEF FreshLine
  (* The filter stays as it is, or is reset. *)
  <2>6. CASE ReadsOn /\ \A c \in Command : filter'[c] = filter[c] \/ filter'[c] = <<>>
    <3>1. UNCHANGED <<slots, answer>>
      BY <2>6 DEF ReadsOn
    <3>2. \A c \in Command : Started(c)' = Started(c) /\ Answered(c)' = Answered(c)
                             /\ (Collected(c)' => Collected(c))
      BY <1>2, <1>4, <2>6, <3>1 DEF Started, Answered, Collected
    <3>3. Uncollected \subseteq Uncollected'
      BY <3>2 DEF Uncollected
    <3>4. UsedOnce'
      BY <1>1, <3>1, <3>2 DEF UsedOnce
    <3>5. Collecting'
      BY <1>1, <1>2, <1>4, <2>6, <3>1 DEF Collecting, Started, Answered
    <3> QED BY <1>3, <1>6, <2>3, <2>4, <2>5, <3>3, <3>4, <3>5 DEF StreamInv
  <2>7. CASE cmd \in slots /\ filter'[cmd] = Fed(cmd) /\ Fed(cmd) # <<>>
    <3>1. PICK x : x = Fed(cmd)[1].of
      OBVIOUS
    <3>2. /\ IsHead(Fed(cmd)[1]) /\ x \in Command /\ Started(x) /\ ~Answered(x)
          /\ Fresh(rx, Uncollected \ {x})
      BY <1>2, <2>1, <2>7, <3>1, HeadOfFed
    <3>3. \A c : Started(c)' = Started(c)
      BY <1>2 DEF Started
    <3>4. CASE ReadsOn
      <4>1. UNCHANGED <<slots, answer>>
        BY <3>4 DEF ReadsOn
      <4>2. \A c \in Command : Answered(c)' = Answered(c) /\ (Collected(c)' => c = x)
        BY <1>4, <2>7, <3>1, <4>1 DEF Answered, Collected
      <4>3. Uncollected \ {x} \subseteq Uncollected'
        BY <3>3, <4>2 DEF Uncollected
      <4>4. UsedOnce'
        BY <1>1, <3>3, <4>1, <4>2 DEF UsedOnce
      <4>5. Collecting'
        BY <1>4, <2>7, <3>1, <3>2, <3>3, <4>1, <4>2 DEF Collecting
      <4> QED BY <1>3, <1>6, <2>3, <2>4, <3>2, <4>3, <4>4, <4>5 DEF StreamInv
    <3>5. CASE Takes
      <4>1. PICK a : a = TerminalVerdict(Fed(cmd))
        OBVIOUS
      <4>2. (a.of = x \/ a.of = None) /\ cmd \in Command
        BY <1>1, <1>2, <3>1, <3>5, <4>1, TakenAnswer DEF Packet, Error
      <4>3. slots' = {} /\ \A c \in Command : answer'[c] = answer[c] \/ (c = cmd /\ answer'[c] = a)
        BY <1>4, <3>5, <4>1 DEF Takes, SetAnswer, Satisfied
      <4>4. \A c \in Command : (Answered(c)' => Answered(c) \/ c = x) /\ ~Collected(c)'
        BY <4>2, <4>3 DEF Answered, Collected, None, Command
      <4>5. Uncollected \ {x} \subseteq Uncollected'
        BY <3>3, <4>4 DEF Uncollected
      <4>6. UsedOnce'
        <5>1. \A c \in Command : Answered(c)' => Started(c)'
          BY <1>1, <3>2, <3>3, <4>4 DEF UsedOnce
        <5>2. ASSUME NEW c \in Command, NEW d \in Command, c # d, answer'[c].of # None
              PROVE  answer'[c].of # answer'[d].of
          <6>1. \A e \in Command : answer[e].of # x
            BY <3>2 DEF Answered
          <6> QED BY <1>1, <3>2, <4>2, <4>3, <5>2, <6>1 DEF UsedOnce
        <5> QED BY <5>1, <5>2 DEF UsedOnce
      <4>7. Collecting'
        BY <4>3 DEF Collecting
      <4> QED BY <1>3, <1>6, <2>3, <2>4, <3>2, <4>5, <4>6, <4>7 DEF StreamInv
    <3> QED BY <1>9, <3>4, <3>5
  <2>8. Takes => cmd \in slots /\ filter'[cmd] = Fed(cmd) /\ Fed(cmd) # <<>>
    BY <1>4 DEF Takes, completed
  <2>9. ReadsOn => \/ \A c \in Command : filter'[c] = filter[c] \/ filter'[c] = <<>>
                   \/ cmd \in slots /\ filter'[cmd] = Fed(cmd) /\ Fed(cmd) # <<>>
    BY DEF ReadsOn
  <2> QED BY <1>9, <2>6, <2>7, <2>8, <2>9
<1> QED BY <1>2, <1>8, <1>9 DEF HandlerCases

LEMMA StreamStep == TerminalInv /\ StreamInv /\ [Next]_tvars => StreamInv'
<1> SUFFICES ASSUME TerminalInv, StreamInv, [Next]_tvars PROVE StreamInv'
  OBVIOUS
<1>1. CASE Assign \/ UNCHANGED vars
  <2>1. UNCHANGED vars
    BY <1>1 DEF Assign
  <2>2. UNCHANGED <<cmd, slots, filter, answer, writes, reads, ready, read_buf, device, rx>>
    BY <2>1 DEF vars, client, protocol, asio, line
  <2>3. Untouched' /\ WritesOnce' /\ OneRead' /\ Collecting' /\ UsedOnce'
    BY <2>2 DEF StreamInv, Untouched, WritesOnce, OneRead, BringFree, Collecting, UsedOnce, Started, Answered
  <2>4. Uncollected' = Uncollected
    BY <2>2 DEF Uncollected, Started, Answered, Collected
  <2>5. FreshLine'
    BY <2>2, <2>4 DEF StreamInv, FreshLine, Arriving
  <2> QED BY <2>3, <2>5 DEF StreamInv
<1>2. CASE IoThread
  BY <1>2, StreamHandlers
<1>3. CASE BusReply
  BY <1>3, StreamBus
<1>4. CASE ExchangeStep
  BY <1>4, StreamClient, StreamPort DEF ExchangeStep
<1> QED BY <1>1, <1>2, <1>3, <1>4, NextCases DEF tvars

LEMMA StreamInit == TerminalInit => StreamInv
  BY DEF TerminalInit, Opened, StreamInv, Untouched, WritesOnce, OneRead, BringFree, FreshLine, Fresh,
     Collecting, UsedOnce, Answered, Unset, Error, None, Command

LEMMA StreamHolds == Spec => []StreamInv
  BY StreamInit, StreamStep, TerminalHolds, PTL DEF Spec

(* No reply answers two commands: reads never overlap in the one buffer,   *)
(* what a read brought is parsed once, by one listener, and what a filter  *)
(* began to collect is nowhere else.                                       *)
THEOREM RepliesUsedOnce == Spec => []ReplyUsedOnce
<1>1. TerminalInv /\ StreamInv => ReplyUsedOnce
  BY OneReadCounted DEF TerminalInv, BaseInv, TypeInv, TypeOK, StreamInv, UsedOnce, ReplyUsedOnce
<1> QED BY <1>1, TerminalHolds, StreamHolds, PTL

-----------------------------------------------------------------------------
(* Whose reply a command is given.  Once a command has a request it keeps  *)
(* it, so what feed compared is still there to be compared.                *)
MatchInv ==
    \A c, d \in Command : (answer[c].of = d /\ d # c) =>
        /\ d < c
        /\ c \in early \/ (request[c] = request[d] /\ request[c] # Unassigned)

LEMMA MatchStep == TerminalInv /\ MatchInv /\ [Next]_tvars => MatchInv'
<1> SUFFICES ASSUME TerminalInv, MatchInv, [Next]_tvars PROVE MatchInv'
  OBVIOUS
<1>1. BaseInv /\ TypeInv /\ TypeOK /\ OneListener /\ TerminalTypes /\ None \notin Command
  BY DEF TerminalInv, BaseInv, TypeInv, None, Command
<1>2. CASE UNCHANGED <<answer, request, early>>
  BY <1>2 DEF MatchInv
<1>3. CASE Assign
  <2>1. UNCHANGED <<answer, early>> /\ \A c \in Command : request[c] # Unassigned => request'[c] = request[c]
    BY <1>1, <1>3 DEF Assign, vars, protocol, TerminalTypes
  <2> QED BY <2>1 DEF MatchInv
<1>4. CASE IoThread
  <2>1. HandlerCases
    BY <1>1, <1>4, IoThreadCases
  <2>2. request' = request /\ early \subseteq early'
    BY <2>1 DEF HandlerCases, Skips, StartsTimer, Tells, ReadsOn, Takes
  <2>3. CASE UNCHANGED answer
    BY <2>2, <2>3 DEF MatchInv
  <2>4. CASE \E s \in Live \cup {None} : \E a \in ErrorAnswer : SetAnswer(s, a)
    <3>1. \A c \in Command : answer'[c] = answer[c] \/ answer'[c].of = None
      BY <2>4 DEF SetAnswer, Satisfied, ErrorAnswer, Error
    <3> QED BY <1>1, <2>2, <3>1 DEF MatchInv
  <2>5. CASE Takes /\ SetAnswer(cmd, Packet(Fed(cmd)[2].part, Fed(cmd)[1].of)) /\ Fed(cmd)[1].of \in Sent
    <3>1. PICK e : e = Fed(cmd)[1].of
      OBVIOUS
    <3>2. e \in 1..cmd /\ cmd \in Command
      BY <1>1, <2>5, <3>1 DEF Sent, Takes, TypeOK
    <3>3. \A c \in Command : answer'[c] = answer[c] \/ (c = cmd /\ answer'[c].of = e)
      BY <2>5, <3>1 DEF SetAnswer, Satisfied, Packet
    <3>4. e # cmd => e < cmd
      BY <3>2 DEF Command
    <3>5. cmd \in early' \/ (request[cmd] = request[e] /\ request[cmd] # Unassigned)
      BY <2>5, <3>1 DEF Takes, AnswersTo
    <3>6. ASSUME NEW c \in Command, NEW d \in Command, answer'[c].of = d, d # c
          PROVE  d < c /\ (c \in early' \/ (request[c] = request[d] /\ request[c] # Unassigned))
      <4>1. CASE answer'[c] = answer[c]
        BY <2>2, <3>6, <4>1 DEF MatchInv
      <4>2. CASE c = cmd /\ answer'[c].of = e
        BY <3>4, <3>5, <3>6, <4>2
      <4> QED BY <3>3, <4>1, <4>2
    <3> QED BY <2>2, <3>6 DEF MatchInv
  <2> QED BY <1>1, <2>1, <2>3, <2>4, <2>5, HandlerAnswers
<1>5. CASE ExchangeStep \/ BusReply \/ UNCHANGED vars
  <2>1. UNCHANGED answer
    BY <1>5 DEF ExchangeStep, AnyClient, Construct, SendFails, GetAnswer, Destroy, Close, Join, SendThen,
       RunEnds, WriteDone, WriteFails, ReadSome, ReadFails, TimerExpires, BusReply, vars, protocol
  <2>2. UNCHANGED terminal \/ TerminalConstruct => UNCHANGED <<request, early>>
    BY DEF terminal, TerminalConstruct
  <2>3. CASE UNCHANGED terminal \/ TerminalConstruct
    BY <1>2, <2>1, <2>2, <2>3
  <2> QED BY <1>3, <1>4, <2>3, NextCases DEF tvars
<1> QED BY <1>3, <1>4, <1>5, NextCases DEF tvars

(* A command is given the reply to another one only if that one came       *)
(* earlier and was not given it, and asked the same, or if the packet came *)
(* between the constructor, which starts to listen, and send.              *)
THEOREM RepliesMatch == Spec => []MisattributionNeedsSameRequest
<1>1. TerminalInit => MatchInv
  BY DEF TerminalInit, Opened, MatchInv, Unset, Error, None, Command
<1>2. MatchInv /\ ReplyUsedOnce => MisattributionNeedsSameRequest
  <2> SUFFICES ASSUME MatchInv, ReplyUsedOnce, NEW c \in Command, NEW d \in Command,
                      answer[c].of = d, d # c
               PROVE  d < c /\ answer[d].of # d /\ (request[c] = request[d] \/ c \in early)
    BY DEF MisattributionNeedsSameRequest
  <2>1. d # None
    BY DEF None, Command
  <2> QED BY <2>1 DEF MatchInv, ReplyUsedOnce
<1>3. Spec => []MatchInv
  BY <1>1, MatchStep, TerminalHolds, PTL DEF Spec
<1> QED BY <1>2, <1>3, RepliesUsedOnce, PTL

-----------------------------------------------------------------------------
(* Who is told NO_ANSWER.  As long as every command waits and none ran out *)
(* of time, the line serves the command that waits and no other: its write,*)
(* then the handler of its write, which starts its timer before anything   *)
(* of its reply is parsed, then its reply, after which nothing is left.    *)
Punctual == \A e \in 1..cmd : e \notin expired /\ timeout[e]

(* The handlers of such a line.  Those of waits and failed reads are.      *)
Due ==
    {h \in Handler :
        /\ h.handler = "write_callback" => /\ Awaited /\ h.this = cmd /\ writes = <<>>
                                           /\ h.error => device[cmd] = "none"
        /\ Brings(h) => /\ Awaited /\ h.n > 0
                        /\ Len(filter[cmd]) + h.n + Len(rx) <= Given(cmd)}

(* Nothing that counts is before the handler of a write. *)
WriteFirst(q) ==
    \A k \in 1..Len(q) : q[k].handler = "write_callback" => \A j \in 1..(k - 1) : ~Token(q[j])

InLine(q, D) == (\A k \in 1..Len(q) : q[k] \in D) /\ WriteFirst(q)

InTurn ==
    /\ InLine(ready, Due)
    /\ writes # <<>> => writes = <<cmd>> /\ Awaited /\ device[cmd] = "none"
    /\ Awaited => Len(filter[cmd]) + Len(rx) <= Given(cmd)
    /\ ~Awaited => rx = <<>>
    /\ \A c \in Command : Silent(c) \/ (c = cmd /\ Awaited)
    /\ pc = "listening" => answer[cmd] = Unset /\ filter[cmd] = <<>>

(* Handlers of commands that were constructed; a wait that was not         *)
(* cancelled is that of a command that ran out of time.                    *)
Past ==
    {h \in Handler : /\ h.this <= cmd
                     /\ h.handler = "wait_callback" /\ ~h.error => h.this \in expired}

Seen ==
    /\ \A k \in 1..Len(ready) : ready[k] \in Past
    /\ timer <= cmd
    /\ \A e \in expired : e <= cmd

TurnInv == Seen /\ (Punctual => InTurn) /\ NoAnswerIsTimeout

LEMMA InLineTail ==
    ASSUME NEW q \in Seq(Handler), NEW D, q # <<>>, InLine(q, D)
    PROVE  /\ Tail(q) \in Seq(Handler) /\ InLine(Tail(q), D)
           /\ Head(q) \in D /\ Head(q) \in Handler
           /\ Token(Head(q)) => \A k \in 1..Len(Tail(q)) : Tail(q)[k].handler # "write_callback"
<1>1. /\ Head(q) \in Handler /\ Tail(q) \in Seq(Handler) /\ Len(Tail(q)) = Len(q) - 1 /\ Len(q) \in Nat
      /\ \A k \in 1..Len(Tail(q)) : Tail(q)[k] = q[k + 1]
  BY HeadTailProperties, LenProperties
<1>2. Head(q) = q[1] /\ 1 \in 1..Len(q)
  BY <1>1, EmptySeq
<1>3. PICK t \in Seq(Handler) : t = Tail(q)
  BY <1>1
<1>4. \A k \in 1..Len(t) : k + 1 \in 1..Len(q) /\ t[k] = q[k + 1]
  BY <1>1, <1>3
<1>5. WriteFirst(t)
  <2>1. ASSUME NEW k \in 1..Len(t), t[k].handler = "write_callback", NEW j \in 1..(k - 1)
        PROVE  ~Token(t[j])
    <3>1. j \in 1..Len(t) /\ j + 1 \in 1..(k + 1 - 1)
      BY <1>1, <1>3, <2>1
    <3> QED BY <1>4, <2>1, <3>1 DEF InLine, WriteFirst
  <2> QED BY <2>1 DEF WriteFirst
<1>6. ASSUME Token(Head(q)), NEW k \in 1..Len(t) PROVE t[k].handler # "write_callback"
  <2>1. 1 \in 1..(k + 1 - 1)
    BY <1>1, <1>3
  <2> QED BY <1>2, <1>4, <1>6, <2>1 DEF InLine, WriteFirst
<1> QED BY <1>1, <1>2, <1>3, <1>4, <1>5, <1>6 DEF InLine

LEMMA InLineAppend ==
    ASSUME NEW q \in Seq(Handler), NEW h \in Handler, NEW D, InLine(q, D), h \in D,
           h.handler = "write_callback" => TokenFree(q)
    PROVE  InLine(Append(q, h), D)
<1>1. /\ Append(q, h) \in Seq(Handler) /\ Len(Append(q, h)) = Len(q) + 1 /\ Len(q) \in Nat
      /\ \A i \in 1..Len(q) : Append(q, h)[i] = q[i]
      /\ Append(q, h)[Len(q) + 1] = h
  BY AppendProperties, LenProperties
<1>2. PICK r \in Seq(Handler) : r = Append(q, h)
  BY <1>1
<1>3. \A k \in 1..Len(r) : k \in 1..Len(q) \/ k = Len(q) + 1
  BY <1>1, <1>2
<1>4. ASSUME NEW k \in 1..Len(r), r[k].handler = "write_callback", NEW j \in 1..(k - 1)
      PROVE  ~Token(r[j])
  <2>1. j \in 1..Len(q) /\ r[j] = q[j]
    BY <1>1, <1>2, <1>4
  <2> QED BY <1>1, <1>2, <1>3, <1>4, <2>1 DEF InLine, WriteFirst, TokenFree
<1> QED BY <1>1, <1>2, <1>3, <1>4 DEF InLine, WriteFirst

(* A queue with nothing that counts is in line. *)
LEMMA InLineFree ==
    ASSUME NEW q \in Seq(Handler), TokenFree(q), NEW D, \A h \in Handler : ~Token(h) => h \in D
    PROVE  InLine(q, D)
<1>1. \A k \in 1..Len(q) : q[k] \in Handler
  BY ElementOfSeq
<1> QED BY <1>1 DEF InLine, WriteFirst, TokenFree, Token

LEMMA DueFree == \A h \in Handler : ~Token(h) => h \in Due
  BY DEF Due, Token, Brings

(* The handler of a cancelled wait is in line anywhere. *)
LEMMA InLineAbortedWait ==
    ASSUME TypeOK, NEW q \in Seq(Handler), NEW D, InLine(q, D), \A h \in Handler : ~Token(h) => h \in D
    PROVE  /\ WithAbortedWait(q) \in Seq(Handler) /\ InLine(WithAbortedWait(q), D)
           /\ TokenFree(q) => TokenFree(WithAbortedWait(q))
<1>1. CASE timer = None
  BY <1>1 DEF WithAbortedWait
<1>2. CASE timer # None
  <2>1. PICK h \in Handler : h = WaitHandler(timer, TRUE)
    BY <1>2 DEF TypeOK, WaitHandler, Handler
  <2>2. WithAbortedWait(q) = Append(q, h) /\ ~Token(h) /\ h.handler # "write_callback"
    BY <1>2, <2>1 DEF WithAbortedWait, WaitHandler, Token
  <2>3. InLine(Append(q, h), D)
    BY <2>2, InLineAppend
  <2>4. /\ Append(q, h) \in Seq(Handler) /\ Len(Append(q, h)) = Len(q) + 1 /\ Len(q) \in Nat
        /\ \A i \in 1..Len(q) : Append(q, h)[i] = q[i]
        /\ Append(q, h)[Len(q) + 1] = h
    BY AppendProperties, LenProperties
  <2> QED BY <2>2, <2>3, <2>4 DEF TokenFree
<1> QED BY <1>1, <1>2

(* When nobody waits, the queue has nothing that counts. *)
LEMMA TurnQuiet ==
    ASSUME TypeOK, InTurn, ~Awaited
    PROVE  /\ TokenFree(ready) /\ writes = <<>> /\ rx = <<>>
           /\ \A c \in Command : Silent(c)
<1>1. TokenFree(ready)
  BY DEF InTurn, InLine, Due, TokenFree, Token, Brings
<1> QED BY <1>1 DEF InTurn

All(q, S) == \A k \in 1..Len(q) : q[k] \in S

LEMMA AllTail ==
    ASSUME NEW q \in Seq(Handler), q # <<>>, NEW S, All(q, S)
    PROVE  Tail(q) \in Seq(Handler) /\ All(Tail(q), S) /\ Head(q) \in S /\ Head(q) \in Handler
<1>1. /\ Head(q) \in Handler /\ Tail(q) \in Seq(Handler) /\ Len(Tail(q)) = Len(q) - 1 /\ Len(q) \in Nat
      /\ \A k \in 1..Len(Tail(q)) : Tail(q)[k] = q[k + 1]
  BY HeadTailProperties, LenProperties
<1>2. Head(q) = q[1] /\ 1 \in 1..Len(q)
  BY <1>1, EmptySeq
<1>3. \A k \in 1..Len(Tail(q)) : k + 1 \in 1..Len(q)
  BY <1>1
<1> QED BY <1>1, <1>2, <1>3 DEF All

LEMMA AllAppend ==
    ASSUME NEW q \in Seq(Handler), NEW h \in Handler, NEW S, All(q, S), h \in S
    PROVE  Append(q, h) \in Seq(Handler) /\ All(Append(q, h), S)
<1>1. /\ Append(q, h) \in Seq(Handler) /\ Len(Append(q, h)) = Len(q) + 1 /\ Len(q) \in Nat
      /\ \A i \in 1..Len(q) : Append(q, h)[i] = q[i]
      /\ Append(q, h)[Len(q) + 1] = h
  BY AppendProperties, LenProperties
<1>2. \A k \in 1..Len(Append(q, h)) : k \in 1..Len(q) \/ k = Len(q) + 1
  BY <1>1
<1> QED BY <1>1, <1>2 DEF All

(* Time passes only forward, and handlers are those of the past. *)
LEMMA PastGrows ==
    ASSUME TypeOK, [Next]_tvars, TypeInv, OneListener
    PROVE  cmd \in Nat /\ cmd' \in Nat /\ cmd <= cmd' /\ expired \subseteq expired' /\ Past \subseteq Past'
<1>1. cmd \in Nat
  BY ExchangeAssumption DEF TypeOK, Command, None
<1>2. cmd' \in {cmd, cmd + 1} /\ expired' \in {expired, expired \cup {timer}}
  <2>1. CASE ExchangeStep
    BY <2>1 DEF ExchangeStep, AnyClient, Construct, SendFails, GetAnswer, Destroy, Close, Join, SendThen, RunEnds,
       WriteDone, WriteFails, ReadSome, ReadFails, TimerExpires, client, history
  <2>2. CASE Assign \/ BusReply \/ UNCHANGED tvars
    BY <2>2 DEF Assign, BusReply, tvars, vars, client, history
  <2>3. CASE IoThread
    BY <2>3, IoThreadCases DEF HandlerCases, client
  <2> QED BY <2>1, <2>2, <2>3, NextCases
<1>3. cmd <= cmd' /\ cmd' \in Nat /\ expired \subseteq expired'
  BY <1>1, <1>2
<1>4. Past \subseteq Past'
  <2>1. \A h \in Handler : h.this \in Nat
    BY DEF Handler, Command, None
  <2> QED BY <1>1, <1>3, <2>1 DEF Past
<1> QED BY <1>1, <1>3, <1>4

LEMMA SeenStep == TerminalInv /\ Seen /\ [Next]_tvars => Seen'
<1> SUFFICES ASSUME TerminalInv, Seen, [Next]_tvars PROVE Seen'
  OBVIOUS
<1>1. /\ TypeInv /\ TypeOK /\ OneListener /\ BaseInv /\ SentInv
      /\ ready \in Seq(Handler) /\ All(ready, Past) /\ timer \in Command \cup {None} /\ timer <= cmd
      /\ \A e \in expired : e <= cmd
  BY DEF TerminalInv, BaseInv, ServiceInv, TypeInv, TypeOK, Seen, All
<1>2. cmd \in Nat /\ cmd' \in Nat /\ cmd <= cmd' /\ expired \subseteq expired' /\ Past \subseteq Past'
  BY <1>1, PastGrows
<1>a. ASSUME NEW q, All(q, Past) PROVE All(q, Past')
  BY <1>2, <1>a DEF All
<1>q. ASSUME All(ready', Past'), timer' \in {timer, None} \/ timer' <= cmd,
             expired' = expired \/ (expired' = expired \cup {timer})
      PROVE  Seen'
  <2>1. expired \subseteq Nat
    BY <1>1 DEF TypeOK, Command
  <2>2. timer \in Nat /\ timer' \in Nat
    <3>1. timer' \in Command \cup {None}
      <4>1. CASE ExchangeStep \/ Assign \/ BusReply \/ UNCHANGED tvars
        BY <1>1, <4>1 DEF ExchangeStep, AnyClient, Construct, SendFails, GetAnswer, Destroy, Close, Join, SendThen,
           RunEnds, WriteDone, WriteFails, ReadSome, ReadFails, TimerExpires, Assign, BusReply, tvars, vars, asio
      <4>2. CASE IoThread
        BY <1>1, <4>2, IoThreadCases, HandlerAnswers
      <4> QED BY <4>1, <4>2, NextCases
    <3> QED BY <1>1, <3>1 DEF Command, None
  <2>3. timer' <= cmd'
    BY <1>1, <1>2, <1>q, <2>2 DEF None
  <2>4. \A e \in expired' : e <= cmd'
    BY <1>1, <1>2, <1>q, <2>1, <2>2
  <2> QED BY <1>q, <2>3, <2>4 DEF Seen, All
(* The client. *)
<1>3. CASE AnyClient \/ Assign \/ BusReply \/ UNCHANGED tvars
  <2>1. UNCHANGED <<ready, timer, expired>>
    BY <1>3 DEF AnyClient, Construct, SendFails, GetAnswer, Destroy, Close, Join, SendThen, RunEnds,
       Assign, BusReply, tvars, vars, asio, history
  <2> QED BY <1>1, <1>a, <1>q, <2>1
(* What the operating system reports. *)
<1>4. CASE WriteDone \/ WriteFails
  <2>1. PICK e : e = Head(writes)
    OBVIOUS
  <2>2. e \in Sent /\ writes # <<>>
    BY <1>1, <1>4, <2>1, HeadTailProperties DEF WriteDone, WriteFails, SentInv
  <2>3. e \in Command /\ e <= cmd
    BY <1>1, <1>2, <2>2, ExchangeAssumption DEF Sent, TypeOK, Command, None
  <2>4. PICK err \in BOOLEAN : ready' = Append(ready, WriteHandler(e, err))
    BY <1>4, <2>1 DEF WriteDone, WriteFails
  <2>5. PICK h : h = WriteHandler(e, err)
    OBVIOUS
  <2>6. h \in Handler /\ h \in Past
    BY <2>3, <2>5 DEF WriteHandler, Handler, Past
  <2>7. All(ready', Past)
    BY <1>1, <2>4, <2>5, <2>6, AllAppend
  <2>8. UNCHANGED <<timer, expired>>
    BY <1>4 DEF WriteDone, WriteFails, history
  <2> QED BY <1>a, <1>q, <2>7, <2>8
<1>5. CASE ReadSome \/ ReadFails
  <2>1. PICK h : h \in {ReadHandler(Readable, FALSE), ReadHandler(0, TRUE)} /\ ready' = Append(ready, h)
    BY <1>5 DEF ReadSome, ReadFails, ReadInto
  <2>2. Readable \in Nat
    BY <1>1, ExchangeAssumption, LenProperties DEF Readable, TypeOK
  <2>3. h \in Handler /\ h \in Past
    <3>1. \A n \in Nat : \A err \in BOOLEAN :
            /\ ReadHandler(n, err) \in Handler /\ ReadHandler(n, err).this = None
            /\ ReadHandler(n, err).handler = "read_callback"
      BY DEF ReadHandler, Handler
    <3>2. h.handler = "read_callback" /\ h.this = None /\ h \in Handler
      BY <2>1, <2>2, <3>1
    <3> QED BY <1>2, <3>2 DEF Past, None
  <2>4. All(ready', Past)
    BY <1>1, <2>1, <2>3, AllAppend
  <2>5. UNCHANGED <<timer, expired>>
    BY <1>5 DEF ReadSome, ReadFails, history
  <2> QED BY <1>a, <1>q, <2>4, <2>5
<1>6. CASE TimerExpires
  <2>1. PICK h : h = WaitHandler(timer, FALSE)
    OBVIOUS
  <2>2. /\ ready' = Append(ready, h) /\ timer' = None /\ expired' = expired \cup {timer}
    BY <1>6, <2>1 DEF TimerExpires
  <2>3. h \in Handler
    BY <1>1, <2>1 DEF WaitHandler, Handler
  <2>4. h \in Past'
    <3>1. h.this = timer /\ timer <= cmd' /\ timer \in expired'
      <4>1. timer \in Nat
        BY <1>1 DEF Command, None
      <4> QED BY <1>1, <1>2, <2>1, <2>2, <4>1 DEF WaitHandler
    <3> QED BY <2>3, <3>1 DEF Past
  <2>5. All(ready, Past')
    BY <1>1, <1>a
  <2>6. PICK S : S = Past'
    OBVIOUS
  <2>7. All(Append(ready, h), S)
    BY <1>1, <2>3, <2>4, <2>5, <2>6, AllAppend
  <2> QED BY <1>q, <2>2, <2>6, <2>7
(* The handlers. *)
<1>7. CASE IoThread
  <2>1. HandlerCases /\ ready # <<>>
    BY <1>1, <1>7, IoThreadCases DEF HandlerCases
  <2>2. Tail(ready) \in Seq(Handler) /\ All(Tail(ready), Past) /\ Head(ready) \in Past /\ Head(ready) \in Handler
    BY <1>1, <2>1, AllTail
  <2>3. PICK q : q = Tail(ready)
    OBVIOUS
  <2>4. WithAbortedWait(q) \in Seq(Handler) /\ All(WithAbortedWait(q), Past)
    <3>1. CASE timer = None
      BY <2>2, <2>3, <3>1 DEF WithAbortedWait
    <3>2. CASE timer # None
      <4>1. PICK h : h = WaitHandler(timer, TRUE)
        OBVIOUS
      <4>2. h \in Handler /\ h \in Past /\ WithAbortedWait(q) = Append(q, h)
        BY <1>1, <3>2, <4>1 DEF WaitHandler, Handler, Past, WithAbortedWait
      <4> QED BY <2>2, <2>3, <4>2, AllAppend
    <3> QED BY <3>1, <3>2
  <2>5. ASSUME NEW p \in Seq(Handler), All(p, Past), initiate_read(p) PROVE All(ready', Past)
    <3>1. CASE ready' = p
      BY <2>5, <3>1
    <3>2. CASE ready' = Append(p, ReadHandler(Readable, FALSE))
      <4>1. PICK h : h = ReadHandler(Readable, FALSE)
        OBVIOUS
      <4>2. Readable \in Nat
        BY <1>1, ExchangeAssumption, LenProperties DEF Readable, TypeOK
      <4>3. h \in Handler /\ h \in Past
        BY <1>2, <4>1, <4>2 DEF ReadHandler, Handler, Past, None
      <4> QED BY <2>5, <3>2, <4>1, <4>3, AllAppend
    <3> QED BY <2>5, <3>1, <3>2 DEF initiate_read, ReadInto
  <2>6. All(ready', Past)
    BY <2>1, <2>2, <2>3, <2>4, <2>5 DEF HandlerCases, Skips, StartsTimer, Tells, ReadsOn, Takes
  <2>7. timer' \in {timer, None, Head(ready).this} /\ expired' = expired
    BY <2>1 DEF HandlerCases, Skips, StartsTimer, Tells, ReadsOn, Takes, SetAnswer
  <2>8. Head(ready).this <= cmd
    BY <2>2 DEF Past
  <2> QED BY <1>a, <1>q, <2>6, <2>7, <2>8
<1> QED BY <1>3, <1>4, <1>5, <1>6, <1>7, NextCases DEF ExchangeStep

(* Steps that leave the stream and the client's turn as they are. *)
LEMMA TurnSteady ==
    ASSUME InTurn, InLine(ready', Due), UNCHANGED <<cmd, filter, answer, writes, device, rx>>,
           Awaited' <=> Awaited, pc' = "listening" => pc = "listening"
    PROVE  InTurn'
<1>1. Due' = Due /\ \A c \in Command : Silent(c)' = Silent(c) /\ Given(c)' = Given(c)
  BY DEF Due, Given, Silent
<1>2. Awaited => Given(cmd)' = Given(cmd)
  BY DEF Given
<1>3. PICK S, q : S = Due' /\ q = ready'
  OBVIOUS
<1>4. InLine(ready, Due)'
  <2>1. InLine(q, S)
    BY <1>1, <1>3
  <2> QED BY <1>3, <2>1 DEF InLine, WriteFirst, Token
<1> QED BY <1>1, <1>2, <1>4 DEF InTurn

(* A queue with nothing that counts, whoever's turn it is. *)
LEMMA TurnFree ==
    ASSUME ready' \in Seq(Handler), TokenFree(ready')
    PROVE  InLine(ready, Due)'
<1>1. PICK S, q : S = Due' /\ q = ready'
  OBVIOUS
<1>2. \A h \in Handler : ~Token(h) => h \in S
  BY <1>1 DEF Due, Token, Brings
<1>3. InLine(q, S)
  BY <1>1, <1>2, InLineFree
<1> QED BY <1>1, <1>3 DEF InLine, WriteFirst, Token

LEMMA TurnClient ==
    ASSUME TerminalInv, StreamInv, InTurn, AnyClient
    PROVE  InTurn'
<1>1. TypeOK /\ SentInv /\ Untouched /\ ready \in Seq(Handler)
  BY DEF TerminalInv, BaseInv, ServiceInv, TypeInv, TypeOK, StreamInv
<1>2. CASE Construct
  <2>1. ~Awaited /\ ~Awaited'
    BY <1>2 DEF Construct, Awaited
  <2>2. cmd' = cmd + 1 /\ cmd + 1 \in Command /\ cmd + 1 > cmd
    BY <1>1, <1>2, ExchangeAssumption DEF Construct, TypeOK, Command, None
  <2>3. filter[cmd'] = <<>> /\ answer[cmd'] = Unset
    BY <1>1, <2>2 DEF Untouched
  <2>4. UNCHANGED <<writes, ready, rx, filter, answer, device>>
    BY <1>2 DEF Construct, asio, line
  <2>5. TokenFree(ready) /\ writes = <<>> /\ rx = <<>> /\ \A c \in Command : Silent(c)
    BY <1>1, <2>1, TurnQuiet
  <2>6. InLine(ready, Due)'
    BY <1>1, <2>4, <2>5, TurnFree
  <2> QED BY <2>1, <2>3, <2>4, <2>5, <2>6 DEF InTurn, Silent
<1>3. CASE SendThen("running") \/ SendThen("waiting")
  <2>1. /\ pc = "listening" /\ ~Awaited /\ cmd \in Command
        /\ answer[cmd] = Unset /\ filter[cmd] = <<>>
        /\ pc' \in {"running", "waiting"}
        /\ UNCHANGED <<cmd, filter, answer, ready, rx, device>>
    BY <1>1, <1>3 DEF SendThen, Awaited, InTurn, TypeOK, protocol, line
  <2>2. TokenFree(ready) /\ writes = <<>> /\ rx = <<>> /\ \A c \in Command : Silent(c)
    BY <1>1, <2>1, TurnQuiet
  <2>3. writes' = <<cmd>>
    BY <1>3, <2>2 DEF SendThen
  <2>4. device[cmd] = "none"
    BY <1>1, <2>1 DEF SentInv, Sent
  <2>5. InLine(ready, Due)'
    BY <1>1, <2>1, <2>2, TurnFree
  <2>6. Given(cmd) = 0 /\ Len(filter[cmd]) = 0 /\ Len(rx) = 0
    BY <2>1, <2>2, <2>4, EmptySeq DEF Given
  <2> QED BY <2>1, <2>2, <2>3, <2>4, <2>5, <2>6 DEF InTurn, Silent, Awaited, Given
<1>4. CASE SendFails \/ GetAnswer \/ Destroy \/ Close \/ Join \/ RunEnds
  <2>1. /\ UNCHANGED <<cmd, filter, answer, writes, ready, device, rx>>
        /\ pc' = "listening" => pc = "listening"
    BY <1>4 DEF SendFails, GetAnswer, Destroy, Close, Join, RunEnds, protocol, asio, line
  <2>2. Awaited' <=> Awaited
    BY <1>4 DEF SendFails, GetAnswer, Destroy, Close, Join, RunEnds, protocol, Awaited
  <2>3. InLine(ready', Due)
    BY <2>1 DEF InTurn
  <2> QED BY <2>1, <2>2, <2>3, TurnSteady
<1> QED BY <1>2, <1>3, <1>4 DEF AnyClient

(* What the port brings is what the reply has given. *)
LEMMA TurnRead ==
    ASSUME TypeOK, TypeOK', Awaited, NEW q \in Seq(Handler), TokenFree(q), writes = <<>>,
           (ReadInto(q) /\ rx # <<>>) \/ (ready' = q /\ rx' = rx),
           UNCHANGED <<cmd, pc, answer, writes, device>>,
           Len(filter'[cmd]) + Len(rx) <= Given(cmd),
           \A c \in Command : Silent(c) \/ c = cmd
    PROVE  InTurn'
<1>1. Len(filter'[cmd]) \in Nat /\ Given(cmd) \in Nat /\ Len(rx) \in Nat /\ cmd \in Command
  <2>1. cmd \in Command /\ filter'[cmd] \in Seq(Fragment) /\ rx \in Seq(Fragment)
    BY DEF TypeOK, Awaited
  <2> QED BY <2>1, LenProperties DEF Given
<1>2. /\ Awaited' /\ Given(cmd)' = Given(cmd)
      /\ \A c \in Command : Silent(c)' = Silent(c)
  BY DEF Awaited, Given, Silent
<1>3. CASE ReadInto(q) /\ rx # <<>>
  <2>1. Readable \in Nat /\ Len(rx') = Len(rx) - Readable /\ Readable <= Len(rx)
    <3>1. rx \in Seq(Fragment) /\ read_buf \in Seq(Fragment)
      BY DEF TypeOK
    <3> QED BY <1>3, <3>1, ReadIntoParts
  <2>p. Readable > 0
    <3>1. Len(rx) # 0
      BY <1>3, EmptySeq DEF TypeOK
    <3> QED BY <1>1, <3>1, ExchangeAssumption DEF Readable
  <2>2. PICK h : h = ReadHandler(Readable, FALSE)
    OBVIOUS
  <2>3. /\ h \in Handler /\ h.handler = "read_callback" /\ h.n = Readable
    BY <2>1, <2>2 DEF ReadHandler, Handler
  <2>4. PICK S : S = Due'
    OBVIOUS
  <2>5. h \in S
    BY <1>1, <1>2, <1>3, <2>1, <2>p, <2>3, <2>4 DEF Due
  <2>6. \A g \in Handler : ~Token(g) => g \in S
    BY <2>4 DEF Due, Token, Brings
  <2>7. InLine(Append(q, h), S)
    BY <2>3, <2>5, <2>6, InLineFree, InLineAppend
  <2>8. ready' = Append(q, h)
    BY <1>3, <2>2 DEF ReadInto
  <2>9. PICK r : r = ready'
    OBVIOUS
  <2>10. InLine(r, S)
    BY <2>7, <2>8, <2>9
  <2>11. InLine(ready, Due)'
    BY <2>4, <2>9, <2>10 DEF InLine, WriteFirst, Token
  <2>12. Len(filter'[cmd]) + Len(rx') <= Given(cmd)
    BY <1>1, <2>1
  <2> QED BY <1>2, <1>3, <2>11, <2>12 DEF InTurn, Awaited
<1>4. CASE ready' = q /\ rx' = rx
  <2>1. InLine(ready, Due)'
    BY <1>4, TurnFree
  <2> QED BY <1>2, <1>4, <2>1 DEF InTurn, Awaited
<1> QED BY <1>3, <1>4

LEMMA TurnPort ==
    ASSUME TerminalInv, StreamInv, Seen, InTurn, Punctual',
           WriteDone \/ WriteFails \/ ReadSome \/ ReadFails \/ TimerExpires
    PROVE  InTurn'
<1>1. /\ TypeOK /\ TypeOK' /\ OneRead /\ ready \in Seq(Handler) /\ timer \in Command \cup {None}
  <2>2. TypeOK'
    BY BaseStep DEF TerminalInv, BaseInv, TypeInv, ExchangeNext, Environment
  <2> QED BY <2>2 DEF TerminalInv, BaseInv, TypeInv, TypeOK, StreamInv
<1>2. /\ UNCHANGED <<cmd, pc, filter, answer>> /\ Awaited' = Awaited
  BY DEF WriteDone, WriteFails, ReadSome, ReadFails, TimerExpires, client, protocol, Awaited
<1>3. CASE WriteDone \/ WriteFails
  <2>1. writes = <<cmd>> /\ Awaited /\ device[cmd] = "none" /\ cmd \in Command
    BY <1>1, <1>3 DEF WriteDone, WriteFails, InTurn, Awaited, TypeOK
  <2>2. Given(cmd) = 0 /\ Len(filter[cmd]) \in Nat /\ Len(rx) \in Nat
    BY <1>1, <2>1, LenProperties DEF Given, TypeOK
  <2>3. TokenFree(ready)
    <3>1. ASSUME NEW k \in 1..Len(ready), Token(ready[k]) PROVE FALSE
      <4>0. ready[k] \in Due /\ ready[k] \in Handler
        BY <1>1, <3>1, ElementOfSeq DEF InTurn, InLine
      <4>1. ready[k] \in Due /\ ready[k] \in Handler /\ ready[k].n \in Nat
        BY <4>0 DEF Handler
      <4>2. Brings(ready[k])
        BY <2>1, <3>1, <4>1 DEF Due, Token, Brings
      <4> QED BY <2>2, <4>1, <4>2 DEF Due
    <3> QED BY <3>1 DEF TokenFree
  <2>h. Head(writes) = cmd /\ Tail(writes) = <<>>
    BY <2>1
  <2>w. /\ writes' = Tail(writes) /\ rx' = rx
        /\ device' \in {device, [device EXCEPT ![Head(writes)] = "received"]}
    BY <1>3 DEF WriteDone, WriteFails, line
  <2>4. PICK err \in BOOLEAN : /\ ready' = Append(ready, WriteHandler(cmd, err))
                               /\ err => device' = device
    <3>1. WriteDone => ready' = Append(ready, WriteHandler(Head(writes), FALSE))
      BY DEF WriteDone
    <3>2. WriteFails => ready' = Append(ready, WriteHandler(Head(writes), TRUE)) /\ device' = device
      BY DEF WriteFails, line
    <3> QED BY <1>3, <2>h, <3>1, <3>2
  <2>5. writes' = <<>> /\ rx' = rx
    BY <2>h, <2>w
  <2>6. \A c \in Command : (c # cmd => device'[c] = device[c]) /\ device'[cmd] \in {"none", "received"}
    BY <1>1, <2>1, <2>h, <2>w DEF TypeOK
  <2>7. PICK h : h = WriteHandler(cmd, err)
    OBVIOUS
  <2>8. h \in Handler /\ h.handler = "write_callback" /\ h.this = cmd /\ h.error = err
    BY <2>1, <2>7 DEF WriteHandler, Handler
  <2>9. PICK S, r : S = Due' /\ r = ready'
    OBVIOUS
  <2>10. h \in S
    BY <1>2, <2>1, <2>4, <2>5, <2>8, <2>9 DEF Due, Brings
  <2>11. \A g \in Handler : ~Token(g) => g \in S
    BY <2>9 DEF Due, Token, Brings
  <2>12. InLine(ready, S)
    BY <1>1, <2>3, <2>11, InLineFree
  <2>13. InLine(Append(ready, h), S)
    BY <1>1, <2>3, <2>8, <2>10, <2>12, InLineAppend
  <2>14. InLine(ready, Due)'
    BY <2>4, <2>7, <2>9, <2>13 DEF InLine, WriteFirst, Token
  <2>15. \A c \in Command : Silent(c)' \/ (c = cmd /\ Awaited)
    BY <2>1, <2>6 DEF InTurn, Silent
  <2>16. Given(cmd)' = 0
    BY <1>2, <2>1, <2>6 DEF Given
  <2> QED BY <1>2, <2>1, <2>2, <2>5, <2>14, <2>15, <2>16 DEF InTurn, Awaited
<1>4. CASE ReadSome
  <2>1. BringFree(ready) /\ rx # <<>> /\ ReadInto(ready) /\ UNCHANGED <<writes, device>>
    BY <1>1, <1>4 DEF ReadSome, OneRead, TypeOK
  <2>2. Awaited /\ Len(filter[cmd]) + Len(rx) <= Given(cmd) /\ cmd \in Command
    BY <1>1, <2>1 DEF InTurn, Awaited, TypeOK
  <2>3. /\ Len(filter[cmd]) \in Nat /\ Len(rx) \in Nat /\ Len(rx) # 0 /\ Given(cmd) \in Nat
        /\ filter[cmd] \in Seq(Fragment) /\ rx \in Seq(Fragment) /\ read_buf \in Seq(Fragment)
    BY <1>1, <2>1, <2>2, LenProperties, EmptySeq DEF TypeOK, Given
  <2>4. Readable \in Nat /\ Len(rx') = Len(rx) - Readable /\ Readable <= Len(rx)
    BY <2>1, <2>3, ReadIntoParts
  <2>5. Readable > 0
    BY <2>3, ExchangeAssumption DEF Readable
  <2>6. Given(cmd)' = Given(cmd) /\ \A c \in Command : Silent(c)' = Silent(c)
    BY <1>2, <2>1 DEF Given, Silent
  <2>7. PICK S, r, h : S = Due' /\ r = ready' /\ h = ReadHandler(Readable, FALSE)
    OBVIOUS
  <2>8. h \in Handler /\ h.handler = "read_callback" /\ h.n = Readable
    BY <2>4, <2>7 DEF ReadHandler, Handler
  <2>9. h \in S
    <3>1. \A x, y, z \in Nat : \A n, m \in Int : x + y <= z /\ m = y - n => x + n + m <= z
      OBVIOUS
    <3>2. Readable \in Int /\ Len(rx') \in Int
      BY <2>3, <2>4
    <3>3. Len(filter[cmd]) + Readable + Len(rx') <= Given(cmd)
      BY <2>2, <2>3, <2>4, <3>1, <3>2
    <3> QED BY <1>2, <2>2, <2>5, <2>6, <2>7, <2>8, <3>3 DEF Due
  <2>10. \A k \in 1..Len(ready) : ready[k] \in S
    <3>1. \A k \in 1..Len(ready) : ready[k] \in Due /\ ~Brings(ready[k]) /\ ready[k] \in Handler
      BY <1>1, <2>1, ElementOfSeq DEF InTurn, InLine, BringFree
    <3> QED BY <1>2, <2>1, <2>7, <3>1 DEF Due
  <2>11. InLine(ready, S)
    BY <2>10 DEF InTurn, InLine
  <2>12. InLine(Append(ready, h), S)
    BY <1>1, <2>8, <2>9, <2>11, InLineAppend
  <2>13. ready' = Append(ready, h)
    BY <2>1, <2>7 DEF ReadInto
  <2>14. InLine(ready, Due)'
    BY <2>7, <2>12, <2>13 DEF InLine, WriteFirst, Token
  <2>15. Len(filter[cmd]) + Len(rx') <= Given(cmd)
    BY <2>2, <2>3, <2>4
  <2> QED BY <1>2, <2>1, <2>2, <2>6, <2>14, <2>15 DEF InTurn
<1>5. CASE ReadFails
  <2>1. PICK h \in Handler : h = ReadHandler(0, TRUE)
    BY DEF ReadHandler, Handler
  <2>2. ready' = Append(ready, h) /\ UNCHANGED <<writes, device, rx>>
    BY <1>5, <2>1 DEF ReadFails, line
  <2>3. ~Token(h) /\ h.handler # "write_callback" /\ h \in Due
    BY <2>1, DueFree DEF ReadHandler, Token
  <2>4. InLine(ready', Due)
    BY <1>1, <2>2, <2>3, InLineAppend DEF InTurn
  <2> QED BY <1>2, <2>2, <2>4, TurnSteady
<1>6. CASE TimerExpires
  <2>1. timer \in Command /\ timer \in expired' /\ timer <= cmd /\ cmd' = cmd
    BY <1>1, <1>2, <1>6 DEF TimerExpires, Seen
  <2>2. timer \in 1..cmd'
    BY <1>1, <2>1, ExchangeAssumption DEF Command, None, TypeOK
  <2> QED BY <2>1, <2>2 DEF Punctual
<1> QED BY <1>3, <1>4, <1>5, <1>6

LEMMA TurnBus ==
    ASSUME TerminalInv, InTurn, BusReply
    PROVE  InTurn'
<1>1. TypeOK /\ TypeInv
  BY DEF TerminalInv, BaseInv, TypeInv
<1>2. UNCHANGED <<cmd, pc, filter, answer, ready, writes>> /\ Awaited' = Awaited
  BY <1>1, BusParts DEF client, protocol, asio, Awaited
<1>3. PICK c \in Command :
          /\ \A d \in Command : d # c => device'[d] = device[d]
          /\ \/ /\ device[c] = "received" /\ device'[c] = "responding"
                /\ rx' = Append(rx, [of |-> c, part |-> "head"])
             \/ /\ device[c] = "responding" /\ device'[c] = "done"
                /\ \E kind \in Replies : rx' = Append(rx, [of |-> c, part |-> kind])
  BY <1>1, BusParts
<1>4. c = cmd /\ Awaited /\ cmd \in Command /\ writes = <<>> /\ device[cmd] # "none"
  BY <1>3 DEF InTurn, Silent
<1>5. PICK g \in Fragment : rx' = Append(rx, g)
  BY <1>1, BusParts
<1>6. Len(rx') = Len(rx) + 1 /\ Len(rx) \in Nat /\ Len(filter[cmd]) \in Nat
  BY <1>1, <1>4, <1>5, AppendProperties, LenProperties DEF TypeOK
<1>7. Given(cmd)' = Given(cmd) + 1 /\ Given(cmd) \in Nat
  BY <1>2, <1>3, <1>4 DEF Given
<1>8. \A k \in 1..Len(ready) : ready[k] \in Due'
  <2>1. ASSUME NEW k \in 1..Len(ready) PROVE ready[k] \in Due'
    <3>1. PICK h \in Handler : h = ready[k] /\ h \in Due /\ h.n \in Nat
      BY <1>1, <2>1, ElementOfSeq DEF InTurn, InLine, TypeOK, Handler
    <3>2. h.handler = "write_callback" => Awaited /\ h.this = cmd /\ ~h.error
      BY <1>4, <3>1 DEF Due
    <3>3. Brings(h) => h.n > 0 /\ Len(filter[cmd]) + h.n + Len(rx') <= Given(cmd)'
      <4>1. Brings(h) => h.n > 0 /\ Len(filter[cmd]) + h.n + Len(rx) <= Given(cmd)
        BY <3>1 DEF Due
      <4>2. \A x, y, z, n \in Nat : x + n + y <= z => x + n + (y + 1) <= z + 1
        OBVIOUS
      <4> QED BY <1>6, <1>7, <3>1, <4>1, <4>2
    <3> QED BY <1>2, <1>4, <3>1, <3>2, <3>3 DEF Due
  <2> QED BY <2>1
<1>9. InLine(ready, Due)'
  BY <1>2, <1>8 DEF InTurn, InLine, WriteFirst, Token
<1>10. Len(filter[cmd]) + Len(rx') <= Given(cmd)'
  <2>1. Len(filter[cmd]) + Len(rx) <= Given(cmd)
    BY <1>4 DEF InTurn
  <2>2. \A x, y, z \in Nat : x + y <= z => x + (y + 1) <= z + 1
    OBVIOUS
  <2> QED BY <1>6, <1>7, <2>1, <2>2
<1>11. \A d \in Command : Silent(d)' \/ d = cmd
  BY <1>3, <1>4 DEF InTurn, Silent
<1> QED BY <1>2, <1>4, <1>9, <1>10, <1>11 DEF InTurn, Awaited

LEMMA TurnHandlers ==
    ASSUME TerminalInv, StreamInv, Seen, InTurn, Punctual, IoThread
    PROVE  InTurn'
<1> DEFINE h == Head(ready)
           q == Tail(ready)
<1>1. /\ BaseInv /\ TypeInv /\ TypeOK /\ OneListener /\ OneRead /\ TerminalTypes
      /\ ready \in Seq(Handler) /\ InLine(ready, Due)
      /\ cmd \in Command \cup {None} /\ expired \subseteq Command
  BY DEF TerminalInv, BaseInv, TypeInv, TypeOK, StreamInv, InTurn
<1>2. HandlerCases /\ ready # <<>> /\ UNCHANGED <<cmd, pc, writes, device>>
  BY <1>1, IoThreadCases DEF HandlerCases, client
<1>3. /\ q \in Seq(Handler) /\ InLine(q, Due) /\ h \in Due /\ h \in Handler
      /\ Token(h) => \A k \in 1..Len(q) : q[k].handler # "write_callback"
  BY <1>1, <1>2, InLineTail
<1>4. /\ WithAbortedWait(q) \in Seq(Handler) /\ InLine(WithAbortedWait(q), Due)
      /\ TokenFree(q) => TokenFree(WithAbortedWait(q))
  BY <1>1, <1>3, DueFree, InLineAbortedWait
<1>5. h.n \in Nat /\ h = ready[1] /\ 1 \in 1..Len(ready)
  <2>1. Len(ready) \in Nat /\ Len(ready) # 0 /\ h = ready[1]
    BY <1>1, <1>2, LenProperties, EmptySeq
  <2> QED BY <1>3, <2>1 DEF Handler
<1>6. TypeOK'
  BY TerminalStep DEF Next, TerminalInv, BaseInv, TypeInv
<1>7. Awaited => /\ cmd \in Command /\ Live = {cmd} /\ cmd \in 1..cmd
                 /\ Given(cmd) \in Nat /\ Len(rx) \in Nat /\ Len(filter[cmd]) \in Nat
                 /\ Len(filter[cmd]) + Len(rx) <= Given(cmd)
                 /\ filter[cmd] \in Seq(Fragment) /\ rx \in Seq(Fragment)
                 /\ pc \in {"running", "waiting"}
  <2>1. ASSUME Awaited
        PROVE  /\ cmd \in Command /\ Live = {cmd} /\ Len(filter[cmd]) + Len(rx) <= Given(cmd)
               /\ filter[cmd] \in Seq(Fragment) /\ rx \in Seq(Fragment)
    BY <1>1, <2>1 DEF TypeOK, Awaited, Live, InTurn
  <2>2. cmd \in Command => cmd \in 1..cmd
    BY ExchangeAssumption DEF Command
  <2> QED BY <2>1, <2>2, LenProperties DEF Given, Awaited
(* Nothing is brought, nobody is told. *)
<1>8. CASE Skips \/ StartsTimer
  <2>1. UNCHANGED <<filter, answer, rx>> /\ ready' \in {q, WithAbortedWait(q)}
    BY <1>8 DEF Skips, StartsTimer, protocol
  <2>2. InLine(ready', Due)
    BY <1>3, <1>4, <2>1
  <2>3. Awaited' <=> Awaited
    BY <1>2, <2>1 DEF Awaited
  <2> QED BY <1>2, <2>1, <2>2, <2>3, TurnSteady
(* Only a write that failed tells. *)
<1>9. ASSUME NEW a \in ErrorAnswer, Tells(a) PROVE InTurn'
  <2>1. h.handler = "write_callback" /\ h.error
    <3>1. CASE h.handler = "wait_callback" /\ ~h.error
      <4>1. h \in Past
        BY <1>5 DEF Seen
      <4>2. h.this \in expired /\ h.this <= cmd
        BY <3>1, <4>1 DEF Past
      <4>3. h.this \in 1..cmd
        <5>1. h.this \in Command
          BY <1>1, <4>2
        <5>2. cmd \in Int
          BY <1>1, ExchangeAssumption DEF Command, None
        <5> QED BY <4>2, <5>1, <5>2, ExchangeAssumption DEF Command
      <4> QED BY <4>2, <4>3 DEF Punctual
    <3>2. CASE h.handler = "write_callback" /\ ~h.error /\ FALSE \in TimeoutRead(h.this)
      <4>1. Awaited /\ h.this = cmd
        BY <1>3, <3>2 DEF Due
      <4>2. Storage(cmd) = {cmd} /\ cmd # None
        BY <1>7, <4>1 DEF Storage, Command, None
      <4>3. TimeoutRead(cmd) = {timeout[cmd]}
        BY <4>2 DEF TimeoutRead
      <4>4. timeout[cmd] = FALSE
        BY <3>2, <4>1, <4>3
      <4> QED BY <1>7, <4>1, <4>4 DEF Punctual
    <3> QED BY <1>9, <3>1, <3>2 DEF Tells
  <2>2. Awaited /\ h.this = cmd /\ writes = <<>> /\ device[cmd] = "none"
    BY <1>3, <2>1 DEF Due
  <2>3. Given(cmd) = 0
    BY <2>2 DEF Given
  <2>4. rx = <<>>
    <3>1. Len(rx) = 0
      BY <1>7, <2>2, <2>3
    <3> QED BY <1>7, <2>2, <3>1, EmptySeq
  <2>5. TokenFree(q)
    <3>1. ASSUME NEW k \in 1..Len(q), Token(q[k]) PROVE FALSE
      <4>1. q[k] \in Due /\ q[k] \in Handler
        BY <1>3, <3>1, ElementOfSeq DEF InLine
      <4>2. q[k].handler # "write_callback"
        BY <1>3, <2>1, <3>1 DEF Token
      <4>3. Brings(q[k]) /\ q[k].n \in Nat
        BY <3>1, <4>1, <4>2 DEF Token, Brings, Handler
      <4>4. q[k].n > 0 /\ Len(filter[cmd]) + q[k].n + Len(rx) <= 0
        BY <2>3, <4>1, <4>3 DEF Due
      <4> QED BY <1>7, <2>2, <4>3, <4>4
    <3> QED BY <3>1 DEF TokenFree
  <2>6. ready' = WithAbortedWait(q) /\ rx' = rx
    BY <1>9 DEF Tells
  <2>7. InLine(ready, Due)'
    BY <1>4, <2>5, <2>6, TurnFree
  <2>8. SetAnswer(cmd, a)
    BY <1>7, <1>9, <2>2 DEF Tells, Storage
  <2>9. answer'[cmd] # Unset
    BY <1>1, <1>7, <2>2, <2>8 DEF SetAnswer, Satisfied, ErrorAnswer, Error, Unset
  <2>10. ~Awaited' /\ \A c \in Command : Silent(c)'
    BY <1>2, <2>2, <2>9 DEF Awaited, InTurn, Silent
  <2> QED BY <1>2, <1>7, <2>2, <2>4, <2>6, <2>7, <2>10 DEF InTurn
(* The read handler. *)
<1>10. CASE ReadsOn \/ Takes
  <2>1. Brings(h) /\ Token(h)
    BY <1>10 DEF ReadsOn, Takes, Brings, Token
  <2>2. Awaited /\ h.n > 0 /\ Len(filter[cmd]) + h.n + Len(rx) <= Given(cmd)
    BY <1>3, <2>1 DEF Due
  <2>3. device[cmd] # "none" /\ writes = <<>>
    <3>1. Given(cmd) > 0
      <4>1. \A x, y, z, n \in Nat : n > 0 /\ x + n + y <= z => z > 0
        OBVIOUS
      <4> QED BY <1>5, <1>7, <2>2, <4>1
    <3> QED BY <3>1 DEF Given, InTurn
  <2>4. TokenFree(q)
    <3>1. Len(ready) \in Nat /\ Len(q) = Len(ready) - 1 /\ \A k \in 1..Len(q) : q[k] = ready[k + 1]
      BY <1>1, <1>2, HeadTailProperties, LenProperties
    <3>2. \A k \in 1..Len(q) : k + 1 \in 1..Len(ready) /\ k + 1 # 1
      BY <3>1
    <3>3. \A k \in 1..Len(q) : ~Brings(q[k])
      BY <1>1, <1>5, <2>1, <3>1, <3>2 DEF OneRead
    <3> QED BY <1>3, <2>1, <3>3 DEF TokenFree, Token, Brings
  <2>5. /\ Fed(cmd) \in Seq(Fragment) /\ Len(Fed(cmd)) \in Nat
        /\ Len(Fed(cmd)) <= Len(filter[cmd]) + h.n
    <3>1. PICK f, s : f = filter[cmd] /\ s = SubSeq(read_buf, 1, h.n)
      OBVIOUS
    <3>2. f \in Seq(Fragment) /\ s \in Seq(Fragment) /\ Len(s) = h.n
      BY <1>1, <1>2, <1>7, <2>2, <3>1, FedParts DEF TypeOK
    <3>3. /\ TerminalUnbytestaff(f, s) \in Seq(Fragment)
          /\ Len(TerminalUnbytestaff(f, s)) <= Len(f) + Len(s)
      BY <3>2, TerminalUnbytestaffParts
    <3>4. Len(TerminalUnbytestaff(f, s)) \in Nat
      BY <3>3, LenProperties
    <3> QED BY <3>1, <3>2, <3>3, <3>4 DEF Fed
  <2>6. \A c \in Command : Silent(c) \/ c = cmd
    BY DEF InTurn
  <2>7. CASE ReadsOn
    <3>1. UNCHANGED answer /\ initiate_read(q) /\ filter'[cmd] \in {filter[cmd], <<>>, Fed(cmd)}
      BY <1>7, <2>2, <2>7 DEF ReadsOn
    <3>2. Len(filter'[cmd]) <= Len(filter[cmd]) + h.n /\ Len(filter'[cmd]) \in Nat
      <4>1. Len(<<>>) = 0
        BY EmptySeq
      <4>2. Len(filter[cmd]) \in Nat /\ h.n \in Nat
        BY <1>5, <1>7
      <4>3. \A f, n \in Nat : f <= f + n /\ 0 <= f + n
        OBVIOUS
      <4> QED BY <2>5, <3>1, <4>1, <4>2, <4>3
    <3>3. Len(filter'[cmd]) + Len(rx) <= Given(cmd)
      <4>1. \A x, y, z, n, w \in Nat : x + n + y <= z /\ w <= x + n => w + y <= z
        OBVIOUS
      <4> QED BY <1>5, <1>7, <2>2, <3>2, <4>1
    <3>4. (ReadInto(q) /\ rx # <<>>) \/ (ready' = q /\ rx' = rx)
      BY <3>1 DEF initiate_read
    <3> QED BY <1>1, <1>2, <1>3, <1>6, <2>2, <2>3, <2>4, <2>6, <3>1, <3>3, <3>4, TurnRead
  <2>8. CASE Takes
    <3>1. /\ cmd \in slots /\ completed(Fed(cmd)) /\ SetAnswer(cmd, TerminalVerdict(Fed(cmd)))
          /\ initiate_read(WithAbortedWait(q))
      BY <2>8 DEF Takes
    <3>2. Len(Fed(cmd)) >= 2
      <4>1. Fed(cmd) # <<>> /\ Fed(cmd)[Len(Fed(cmd))].part # "head"
        BY <3>1 DEF completed
      <4>2. Fed(cmd)[1].part = "head"
        BY <1>2, <2>1, <3>1, <4>1, HeadOfFed DEF IsHead
      <4>3. Len(Fed(cmd)) # 0 /\ Len(Fed(cmd)) # 1
        BY <2>5, <4>1, <4>2, EmptySeq
      <4>4. \A m \in Nat : m # 0 /\ m # 1 => m >= 2
        OBVIOUS
      <4> QED BY <2>5, <4>3, <4>4
    <3>3. Given(cmd) = 2 /\ Len(rx) = 0
      <4>1. \A x, y, z, n, w \in Nat : x + n + y <= z /\ w <= x + n /\ w >= 2 /\ z <= 2 => z = 2 /\ y = 0
        OBVIOUS
      <4>2. Given(cmd) <= 2
        BY DEF Given
      <4> QED BY <1>5, <1>7, <2>2, <2>5, <3>2, <4>1, <4>2
    <3>4. device[cmd] = "done" /\ rx = <<>>
      BY <1>7, <2>2, <3>3, EmptySeq DEF Given
    <3>5. ready' = WithAbortedWait(q) /\ rx' = <<>>
      BY <3>1, <3>4 DEF initiate_read
    <3>6. InLine(ready, Due)'
      BY <1>4, <2>4, <3>5, TurnFree
    <3>7. TerminalVerdict(Fed(cmd)) \in Answer
      BY <1>1, <1>2, <2>8, TakenAnswer
    <3>8. answer'[cmd] # Unset
      BY <1>1, <1>7, <2>2, <3>1, <3>7, AnswerGiven
    <3>9. ~Awaited' /\ \A c \in Command : Silent(c)'
      BY <1>2, <2>6, <3>4, <3>8 DEF Awaited, Silent
    <3> QED BY <1>2, <1>7, <2>2, <2>3, <3>5, <3>6, <3>9 DEF InTurn
  <2> QED BY <1>10, <2>7, <2>8
<1> QED BY <1>2, <1>8, <1>9, <1>10 DEF HandlerCases

(* The timeout of a protocol that was constructed does not change. *)
LEMMA TimeoutStays ==
    ASSUME TerminalInv, [Next]_tvars
    PROVE  \A e \in 1..cmd : timeout'[e] = timeout[e]
<1>1. TypeInv /\ OneListener /\ TerminalTypes /\ cmd \in Nat
  BY ExchangeAssumption DEF TerminalInv, BaseInv, TypeInv, TypeOK, Command, None
<1>2. CASE UNCHANGED timeout
  BY <1>2
<1>3. CASE TerminalConstruct
  BY <1>1, <1>3 DEF TerminalConstruct, TerminalTypes
<1>4. CASE IoThread
  BY <1>1, <1>4, IoThreadCases DEF HandlerCases
<1> QED BY <1>2, <1>3, <1>4, NextCases DEF terminal, Assign, tvars

LEMMA PunctualBefore ==
    ASSUME TerminalInv, [Next]_tvars, Punctual'
    PROVE  Punctual
<1>1. cmd \in Nat /\ cmd' \in Nat /\ cmd <= cmd' /\ expired \subseteq expired'
  BY PastGrows DEF TerminalInv, BaseInv, TypeInv
<1>2. \A e \in 1..cmd : e \in 1..cmd'
  BY <1>1
<1> QED BY <1>1, <1>2, TimeoutStays DEF Punctual

LEMMA TurnStep ==
    ASSUME TerminalInv, StreamInv, Seen, Punctual => InTurn, [Next]_tvars, Punctual'
    PROVE  InTurn'
<1>1. Punctual /\ InTurn
  BY PunctualBefore
<1>2. CASE Assign \/ UNCHANGED tvars
  <2>1. UNCHANGED vars
    BY <1>2 DEF Assign, tvars
  <2>2. UNCHANGED <<cmd, pc, filter, answer, writes, ready, device, rx>>
    BY <2>1 DEF vars, client, protocol, asio, line
  <2> QED BY <1>1, <2>2, TurnSteady DEF Awaited, InTurn
<1>3. CASE ExchangeStep
  BY <1>1, <1>3, TurnClient, TurnPort DEF ExchangeStep
<1>4. CASE BusReply
  BY <1>1, <1>4, TurnBus
<1>5. CASE IoThread
  BY <1>1, <1>5, TurnHandlers
<1> QED BY <1>2, <1>3, <1>4, <1>5, NextCases

(* Who is told by a handler that there is no answer. *)
LEMMA ToldNoAnswer ==
    ASSUME TerminalInv, Seen, Punctual => InTurn, IoThread,
           NEW c \in Command, answer'[c] = Error("NO_ANSWER"), answer[c] # Error("NO_ANSWER")
    PROVE  /\ c = cmd
           /\ \/ c \in expired \/ ~timeout[c]
              \/ stale' /\ \E e \in Command : e < c /\ (e \in expired \/ ~timeout[e])
<1> DEFINE h == Head(ready)
<1>1. /\ BaseInv /\ TypeInv /\ TypeOK /\ OneListener /\ TerminalTypes
      /\ cmd \in Command \cup {None} /\ expired \subseteq Command /\ ready \in Seq(Handler)
  BY DEF TerminalInv, BaseInv, TypeInv, TypeOK
<1>2. HandlerCases /\ ready # <<>>
  BY <1>1, IoThreadCases DEF HandlerCases
<1>3. h \in Handler /\ h = ready[1] /\ 1 \in 1..Len(ready) /\ h \in Past
  <2>1. Len(ready) \in Nat /\ Len(ready) # 0 /\ h = ready[1]
    BY <1>1, <1>2, LenProperties, EmptySeq
  <2>2. 1 \in 1..Len(ready)
    BY <2>1
  <2> QED BY <1>1, <2>1, <2>2, ElementOfSeq DEF Seen
<1>4. PICK a \in ErrorAnswer : Tells(a) /\ a = Error("NO_ANSWER")
  <2>1. ~(Skips \/ StartsTimer \/ ReadsOn)
    BY DEF Skips, StartsTimer, ReadsOn, protocol
  <2>2. ~Takes
    <3> SUFFICES ASSUME Takes PROVE FALSE
      OBVIOUS
    <3>1. TerminalVerdict(Fed(cmd)) # Error("NO_ANSWER")
      BY <1>1, <1>2, TakenAnswer DEF Packet, Error
    <3> QED BY <3>1 DEF Takes, SetAnswer, Satisfied
  <2>3. PICK a \in ErrorAnswer : Tells(a)
    BY <1>2, <2>1, <2>2 DEF HandlerCases
  <2>4. a = Error("NO_ANSWER")
    BY <2>3 DEF Tells, SetAnswer, Satisfied
  <2> QED BY <2>3, <2>4
<1>5. PICK s \in Storage(h.this) : SetAnswer(s, a)
  BY <1>4 DEF Tells
<1>6. c = s /\ c = cmd /\ Live = {cmd} /\ cmd \in Nat
  <2>1. c = s
    BY <1>5 DEF SetAnswer, Satisfied
  <2>2. c \in Live
    BY <2>1, <1>5 DEF Storage, None, Command
  <2> QED BY <2>1, <2>2 DEF Live, Command
<1>7. h.this \in Nat /\ h.this <= cmd
  BY <1>3 DEF Past, Handler, Command, None
<1>8. stale' = (stale \/ h.this \notin Live)
  BY <1>4 DEF Tells
<1>9. CASE h.handler = "wait_callback" /\ ~h.error
  <2>1. h.this \in expired
    BY <1>3, <1>9 DEF Past
  <2>2. h.this # cmd => stale' /\ h.this < cmd /\ h.this \in Command
    <3>1. h.this # cmd => h.this < cmd
      BY <1>6, <1>7
    <3>2. h.this # cmd => stale'
      BY <1>6, <1>8
    <3> QED BY <1>1, <2>1, <3>1, <3>2
  <2> QED BY <1>6, <2>1, <2>2
<1>10. CASE h.handler = "write_callback" /\ ~h.error /\ FALSE \in TimeoutRead(h.this)
  <2>1. CASE h.this = cmd
    <3>1. Storage(cmd) = {cmd} /\ cmd # None
      BY <1>6 DEF Storage, None, Command
    <3>2. TimeoutRead(cmd) = {timeout[cmd]}
      BY <3>1 DEF TimeoutRead
    <3> QED BY <1>6, <1>10, <2>1, <3>2
  <2>2. CASE h.this # cmd
    <3>1. stale' /\ h.this \notin Live
      BY <1>6, <1>8, <2>2
    <3>2. ~Punctual
      <4>1. h \notin Due
        BY <1>10, <2>2 DEF Due
      <4> QED BY <1>3, <4>1 DEF InTurn, InLine
    <3>3. PICK e \in 1..cmd : e \in expired \/ ~timeout[e]
      BY <3>2 DEF Punctual
    <3>4. e \in Command /\ (e = cmd \/ e < cmd)
      BY <1>6, ExchangeAssumption DEF Command
    <3> QED BY <1>6, <3>1, <3>3, <3>4
  <2> QED BY <2>1, <2>2
<1> QED BY <1>4, <1>6, <1>9, <1>10 DEF Tells, Error

LEMMA NoAnswerStep ==
    ASSUME TerminalInv, StreamInv, TurnInv, [Next]_tvars
    PROVE  NoAnswerIsTimeout'
<1>1. /\ TypeInv /\ TypeOK /\ OneListener /\ Untouched
      /\ Seen /\ (Punctual => InTurn) /\ NoAnswerIsTimeout
      /\ \A e \in 1..cmd : timeout'[e] = timeout[e]
  BY TimeoutStays DEF TerminalInv, BaseInv, TypeInv, StreamInv, TurnInv
<1>2. cmd \in Nat /\ expired \subseteq expired'
  BY <1>1, PastGrows
<1>3. stale => stale'
  <2>1. CASE ExchangeStep \/ Assign \/ BusReply \/ UNCHANGED tvars
    BY <2>1 DEF ExchangeStep, AnyClient, Construct, SendFails, GetAnswer, Destroy, Close, Join, SendThen, RunEnds,
       WriteDone, WriteFails, ReadSome, ReadFails, TimerExpires, Assign, BusReply, tvars, vars, history
  <2>2. CASE IoThread
    BY <1>1, <2>2, IoThreadCases DEF HandlerCases, Skips, StartsTimer, Tells, ReadsOn, Takes
  <2> QED BY <2>1, <2>2, NextCases
<1>4. ASSUME NEW c \in Command, answer'[c] = Error("NO_ANSWER"), c <= cmd,
             \/ c \in expired \/ ~timeout[c]
             \/ stale' /\ \E e \in Command : e < c /\ (e \in expired \/ ~timeout[e])
      PROVE  \/ c \in expired' \/ ~timeout'[c]
             \/ stale' /\ \E e \in Command : e < c /\ (e \in expired' \/ ~timeout'[e])
  <2>1. c \in 1..cmd
    BY <1>2, <1>4 DEF Command
  <2>2. \A e \in Command : e < c => e \in 1..cmd
    BY <1>2, <1>4 DEF Command
  <2> QED BY <1>1, <1>2, <1>4, <2>1, <2>2
<1>5. ASSUME NEW c \in Command, answer'[c] = Error("NO_ANSWER")
      PROVE  \/ c \in expired' \/ ~timeout'[c]
             \/ stale' /\ \E e \in Command : e < c /\ (e \in expired' \/ ~timeout'[e])
  <2>1. CASE answer[c] = Error("NO_ANSWER")
    <3>1. c <= cmd
      BY <1>1, <1>2, <2>1 DEF Untouched, Unset, Error, Command
    <3>2. \/ c \in expired \/ ~timeout[c]
          \/ stale /\ \E e \in Command : e < c /\ (e \in expired \/ ~timeout[e])
      BY <1>1, <2>1 DEF NoAnswerIsTimeout
    <3> QED BY <1>3, <1>4, <1>5, <3>1, <3>2
  <2>2. CASE answer[c] # Error("NO_ANSWER")
    <3>1. IoThread
      <4>1. CASE ExchangeStep \/ Assign \/ BusReply \/ UNCHANGED tvars
        BY <1>5, <2>2, <4>1 DEF ExchangeStep, AnyClient, Construct, SendFails, GetAnswer, Destroy, Close, Join,
           SendThen, RunEnds, WriteDone, WriteFails, ReadSome, ReadFails, TimerExpires, Assign, BusReply, tvars,
           vars, protocol
      <4> QED BY <4>1, NextCases
    <3>2. c <= cmd /\ (\/ c \in expired \/ ~timeout[c]
                       \/ stale' /\ \E e \in Command : e < c /\ (e \in expired \/ ~timeout[e]))
      BY <1>1, <1>2, <1>5, <2>2, <3>1, ToldNoAnswer
    <3> QED BY <1>4, <1>5, <3>2
  <2> QED BY <2>1, <2>2
<1> QED BY <1>5 DEF NoAnswerIsTimeout

LEMMA TurnInit == TerminalInit => TurnInv
<1> SUFFICES ASSUME TerminalInit PROVE TurnInv
  OBVIOUS
<1>1. /\ cmd = None /\ pc = "idle" /\ ready = <<>> /\ writes = <<>> /\ timer = None /\ expired = {} /\ rx = <<>>
      /\ answer = [c \in Command |-> Unset] /\ device = [c \in Command |-> "none"]
  BY DEF TerminalInit, Opened
<1>2. Len(ready) = 0
  BY <1>1, EmptySeq
<1>3. Seen
  BY <1>1, <1>2 DEF Seen, None
<1>4. InTurn
  BY <1>1, <1>2 DEF InTurn, InLine, WriteFirst, Awaited, Silent
<1>5. NoAnswerIsTimeout
  BY <1>1 DEF NoAnswerIsTimeout, Unset, Error
<1> QED BY <1>3, <1>4, <1>5 DEF TurnInv

LEMMA TurnInvStep == TerminalInv /\ StreamInv /\ TurnInv /\ [Next]_tvars => TurnInv'
<1>1. TerminalInv /\ StreamInv /\ TurnInv /\ [Next]_tvars => Seen' /\ NoAnswerIsTimeout'
  BY SeenStep, NoAnswerStep DEF TurnInv
<1>2. TerminalInv /\ StreamInv /\ TurnInv /\ [Next]_tvars => (Punctual' => InTurn')
  BY TurnStep DEF TurnInv
<1> QED BY <1>1, <1>2 DEF TurnInv

(* NO_ANSWER is told to a command whose time ran out or that asked not to  *)
(* wait, or, by a handler that outlived such a command, to one after it:   *)
(* never to a command of a line on which nobody was late.                  *)
THEOREM NoAnswerIsBlamed == Spec => []NoAnswerIsTimeout
<1>1. Spec => []TurnInv
  BY TurnInit, TurnInvStep, TerminalHolds, StreamHolds, PTL DEF Spec
<1>2. TurnInv => NoAnswerIsTimeout
  BY DEF TurnInv
<1> QED BY <1>1, <1>2, PTL
=============================================================================
