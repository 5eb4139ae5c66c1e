---------------------------- MODULE TcpTerminal ----------------------------
(***************************************************************************)
(* TerminalProtocol over TcpImpl, the way stoppark.cpp talks to parking    *)
(* terminals on a bus behind a gateway.  The client and the asio objects   *)
(* are those of Exchange; what differs from AsioMT is that                 *)
(*   - a read is in flight from the connection on, whoever listens;        *)
(*   - a request names a terminal and a command, and feed skips the        *)
(*     packets that do not answer it;                                      *)
(*   - a command whose timeout is 0 does not wait for its reply;           *)
(*   - a timeout does not cancel anything on the socket.                   *)
(* Body fragments end with FEND, heads start with FSSTR.                   *)
(***************************************************************************)
EXTENDS Exchange

CONSTANTS Request,    \* pairs of an address and a command code
          Unassigned, \* addr and code of a protocol before send sets them
          Timeouts    \* whether commands have a timeout: it may be 0

ASSUME TcpTerminalAssumption ==
    /\ Unassigned \notin Request
    /\ Timeouts \subseteq BOOLEAN

VARIABLES request,  \* addr and code of each protocol
          timeout,  \* its timeout is not 0
          early,    \* history: answered while its request was unassigned
          heard     \* history: its listener was given its whole reply, at once

terminal == <<request, timeout, early, heard>>
tvars == <<vars, terminal>>

-----------------------------------------------------------------------------
(* TerminalUnbytestaffer stops at the first FEND; the rest of the chunk is *)
(* dropped, since feed looks at each chunk once.                           *)
UpToFEND(s) ==
    LET ends == {i \in 1..Len(s) : s[i].part # "head"}
    IN  IF ends = {} THEN s ELSE SubSeq(s, 1, CHOOSE i \in ends : \A j \in ends : i <= j)

TerminalUnbytestaff(f, chunk) ==
    f \o UpToFEND(IF f = <<>> THEN FromHead(chunk) ELSE chunk)

completed(f) == f # <<>> /\ f[Len(f)].part # "head"

(* Address, code and checksum were looked at: FNAK, or the data. *)
TerminalVerdict(f) ==
    IF Len(f) = 2 /\ f[2].of = f[1].of /\ f[2].part # "BAD_CRC"
    THEN Packet(f[2].part, f[1].of)
    ELSE Error("PACKET_CRC_ERROR")

(* Variant: only that a request was made is looked at. *)
AnyAnswer(c, f) == request[c] # Unassigned

(* header->addr == addr and header->code == code *)
AnswersTo(c, f) == request[c] = request[f[1].of]

(* The replies that are whole in a chunk. *)
WholeReplies(chunk) ==
    {c \in Command : \E i \in 1..(Len(chunk) - 1) :
        /\ chunk[i] = [of |-> c, part |-> "head"]
        /\ chunk[i + 1].of = c
        /\ chunk[i + 1].part # "BAD_CRC"}

-----------------------------------------------------------------------------
(* The client. *)

(* CustomTerminalProtocol<Timeout>: the listener is connected before addr  *)
(* and code have a value.                                                  *)
TerminalConstruct ==
    /\ Construct
    /\ \E t \in Timeouts : timeout' = [timeout EXCEPT ![cmd + 1] = t]
    /\ UNCHANGED <<request, early, heard>>

(* TerminalProtocol::send stores addr and code. *)
Assign ==
    /\ pc = "listening"
    /\ request[cmd] = Unassigned
    /\ \E r \in Request : request' = [request EXCEPT ![cmd] = r]
    /\ UNCHANGED <<vars, timeout, early, heard>>

(* The rest of it: the packet is too long, or the write is started. *)
TerminalSend ==
    /\ request[cmd] # Unassigned
    /\ SendFails \/ SendThen("waiting")
    /\ UNCHANGED terminal

Client ==
    \/ TerminalConstruct
    \/ Assign
    \/ cmd # None /\ TerminalSend
    \/ (GetAnswer \/ Destroy \/ Close \/ Join) /\ UNCHANGED terminal

-----------------------------------------------------------------------------
(* The handlers. *)

(* timeout as a handler of c reads it from the object that is there. *)
TimeoutRead(c) == {timeout[s] : s \in Storage(c) \ {None}} \cup
                  IF None \in Storage(c) THEN BOOLEAN ELSE {}

(* Variant: a read is started after the write, as in the other providers.  *)
ReadAfterWrite(q) == initiate_read(q)

(* TcpImpl::write_callback drops the result of the protocol's. *)
AfterWrite(q) == ready' = q /\ UNCHANGED <<reads, read_buf, rx>>

(* TerminalProtocol::write_callback *)
terminal_write_callback ==
    /\ Dispatch("write_callback")
    /\ LET h == Head(ready)
           q == WithAbortedWait(Tail(ready))
       IN  /\ \/ /\ h.error
                 /\ \E s \in Storage(h.this) : SetAnswer(s, Error("IO_ERROR"))
              \/ /\ ~h.error
                 /\ TRUE \in TimeoutRead(h.this)
                 /\ SetTimeout(h.this)
                 /\ UNCHANGED <<slots, answer>>
              \/ /\ ~h.error
                 /\ FALSE \in TimeoutRead(h.this)
                 /\ \E s \in Storage(h.this) : SetAnswer(s, Error("NO_ANSWER"))
           /\ AfterWrite(q)
           /\ stale' = (stale \/ h.this \notin Live)
    /\ UNCHANGED <<client, filter, writes, io, device, expired, faulted, terminal>>

(* TcpImpl::read_callback: TerminalProtocol::feed on every listener, then  *)
(* the next read.  A packet that answers another request resets the        *)
(* filter.  While addr and code are unassigned any packet may pass.        *)
terminal_read_callback ==
    /\ Dispatch("read_callback")
    /\ LET h     == Head(ready)
           q     == Tail(ready)
           chunk == SubSeq(read_buf, 1, h.n)
           fed   == [c \in Command |-> IF c \in slots THEN TerminalUnbytestaff(filter[c], chunk)
                                                      ELSE filter[c]]
           whole == {c \in slots : completed(fed[c])}
       IN  \/ /\ h.error
              /\ ready' = q
              /\ UNCHANGED <<protocol, reads, timer, read_buf, rx, early, heard>>
           \/ /\ ~h.error
              /\ \E mine \in SUBSET whole :
                    /\ \A c \in whole : request[c] # Unassigned =>
                                            (c \in mine <=> AnswersTo(c, fed[c]))
                    /\ filter' = [c \in Command |-> IF c \in whole \ mine THEN <<>> ELSE fed[c]]
                    /\ early' = early \cup {c \in mine : request[c] = Unassigned}
                    /\ \/ /\ mine = {}
                          /\ initiate_read(q)
                          /\ UNCHANGED <<slots, answer, timer>>
                       \/ \E c \in mine : /\ SetAnswer(c, TerminalVerdict(fed[c]))
                                          /\ initiate_read(WithAbortedWait(q))
              /\ heard' = heard \cup (slots \cap WholeReplies(chunk))
    /\ UNCHANGED <<client, writes, io, device, history, request, timeout>>

(* TcpImpl::wait_callback and TerminalProtocol::timeout_callback. *)
terminal_wait_callback ==
    /\ Dispatch("wait_callback")
    /\ LET h == Head(ready) IN
       \/ /\ Cancelled(h)
          /\ ready' = Tail(ready)
          /\ UNCHANGED <<slots, answer, timer, stale>>
       \/ /\ ~Cancelled(h)
          /\ \E s \in Storage(h.this) : SetAnswer(s, TimeoutAnswer)
          /\ ready' = WithAbortedWait(Tail(ready))
          /\ stale' = (stale \/ h.this \notin Live)
    /\ UNCHANGED <<client, filter, writes, reads, read_buf, io, line, expired, faulted, terminal>>

IoThread ==
    /\ pc \notin {"closing", "closed"}
    /\ terminal_write_callback \/ terminal_read_callback \/ terminal_wait_callback

(* The terminals on the bus: a reply comes at any time after its command,  *)
(* in any order, but two replies do not mix.                               *)
BusReply ==
    \E c \in Command :
    /\ \A d \in Command \ {c} : device[d] # "responding"
    /\ \/ /\ device[c] = "received"
          /\ device' = [device EXCEPT ![c] = "responding"]
          /\ rx' = Append(rx, [of |-> c, part |-> "head"])
       \/ /\ device[c] = "responding"
          /\ device' = [device EXCEPT ![c] = "done"]
          /\ \E kind \in Replies : rx' = Append(rx, [of |-> c, part |-> kind])
    /\ UNCHANGED <<client, protocol, asio, history>>

TerminalEnvironment ==
    /\ WriteDone \/ WriteFails \/ ReadSome \/ ReadFails \/ TimerExpires \/ BusReply
    /\ UNCHANGED terminal

-----------------------------------------------------------------------------
(* TcpImpl::TcpImpl: connected, and reading. *)
TerminalInit ==
    /\ Opened(1)
    /\ request = [c \in Command |-> Unassigned]
    /\ timeout = [c \in Command |-> TRUE]
    /\ early = {}
    /\ heard = {}

Next == Client \/ IoThread \/ TerminalEnvironment

Spec == TerminalInit /\ [][Next]_tvars

(* As for AsioMT: both threads run, a short write completes, time passes.  *)
Fairness ==
    /\ WF_tvars(IoThread)
    /\ WF_tvars(GetAnswer /\ UNCHANGED terminal)
    /\ WF_tvars(WriteDone /\ UNCHANGED terminal)
    /\ WF_tvars(TimerExpires /\ UNCHANGED terminal)

FairSpec == Spec /\ Fairness

-----------------------------------------------------------------------------
(* Properties. *)

(* A reply to another command is given to a command only if that one came  *)
(* earlier and was not given its reply, and made the same request, or if   *)
(* the packet came before send had stored what to compare it with.         *)
MisattributionNeedsSameRequest ==
    \A c, d \in Command :
        (answer[c].of = d /\ d # c) =>
            /\ d < c
            /\ answer[d].of # d
            /\ request[c] = request[d] \/ c \in early

(* No reply answers two commands: reads never overlap in the one buffer,   *)
(* so what a read brought is parsed once, and by one listener.             *)
ReplyUsedOnce ==
    /\ ReadsInFlight <= 1
    /\ \A c, d \in Command : (c # d /\ answer[c].of # None) => answer[c].of # answer[d].of

(* NO_ANSWER means that the command's own time ran out or that it asked    *)
(* not to wait, or that a handler of an earlier such command, late, took   *)
(* the object for its own.                                                 *)
NoAnswerIsTimeout ==
    \A c \in Command : answer[c] = Error("NO_ANSWER") =>
        \/ c \in expired \/ ~timeout[c]
        \/ stale /\ \E e \in Command : e < c /\ (e \in expired \/ ~timeout[e])

(* "If its called, that means not enough data came from the serial port to *)
(* be recognized as a complete packet": a command whose listener was given *)
(* its whole reply does not end with NO_ANSWER.                            *)
HeardIsAnswered ==
    \A c \in heard : answer[c] # Error("NO_ANSWER")

=============================================================================
