------------------------------ MODULE Exchange ------------------------------
(***************************************************************************)
(* One Reader, one SubwayProtocol object per command, the boost.asio       *)
(* objects a serial provider is made of and the device behind the line.    *)
(* This module holds the state and the steps that AsioMTImpl and AsioImpl  *)
(* share; AsioMT and AsioRun extend it and say which thread runs what.     *)
(*                                                                         *)
(* Commands are numbered in the order Reader::send_command is called: the  *)
(* API is used by one thread at a time.  A reply packet of the device is   *)
(* two fragments, its head (which starts with FBGN) and its body: enough   *)
(* to split a packet over reads, to lose its beginning and to mix packets. *)
(***************************************************************************)
EXTENDS Integers, Sequences, FiniteSets

CONSTANTS MaxCommands,  \* bound: commands the client issues
          Replies,      \* kinds of reply the device may give
          Faults,       \* errors the line may report: "read", "write"
          ReadSize      \* read_size of the provider, in fragments

ReplyKind == {"DATA", "SHORT_DATA", "NACK", "BAD_CRC"}

ASSUME ExchangeAssumption ==
    /\ MaxCommands \in Nat
    /\ Replies \subseteq ReplyKind
    /\ Faults \subseteq {"read", "write"}
    /\ ReadSize \in Nat \ {0}

Command == 1..MaxCommands
None == 0

VARIABLES cmd,       \* the last command constructed (0: none yet)
          pc,        \* where the client thread is
          returned,  \* what send_command returned for each command
          slots,     \* data_received: protocols connected to the signal
          filter,    \* SubwayUnbytestaffer of each protocol
          answer,    \* answer_promise of each protocol
          writes,    \* async_writes not completed, oldest first
          reads,     \* number of async_reads not completed
          timer,     \* protocol bound to the pending async_wait, or None
          ready,     \* completed operations whose handlers have not run
          read_buf,  \* the provider's only receive buffer
          io,        \* the thread in run(): between handlers, or in cancel
          device,    \* what the device did with each command
          rx,        \* fragments received by the port and not yet read
          stale,     \* history: a handler used a protocol already destroyed
          expired,   \* history: commands whose timer ran out
          faulted    \* history: commands whose write the port refused

client   == <<cmd, pc, returned>>
protocol == <<slots, filter, answer>>
asio     == <<writes, reads, timer, ready, read_buf, io>>
line     == <<device, rx>>
history  == <<stale, expired, faulted>>
vars     == <<client, protocol, asio, line, history>>

-----------------------------------------------------------------------------
(* Values. *)

Fragment == [of : Command, part : {"head"} \cup Replies]

Packet(kind, c) == [result |-> kind, of |-> c]
Error(code) == [result |-> code, of |-> None]
Unset == Error("UNSET")

PacketAnswer == [result : {"DATA", "SHORT_DATA", "NACK"}, of : Command]
ErrorAnswer == {Error("PACKET_CRC_ERROR"), Error("IO_ERROR"), Error("NO_ANSWER")}
Answer == PacketAnswer \cup ErrorAnswer

(* The value send_command returns for an answer: a packet whose data is    *)
(* not as long as the caller asked for is still copied, then reported.     *)
Result(a) ==
    [a EXCEPT !.result = CASE a.result = "DATA"       -> "SUCCESS"
                           [] a.result = "SHORT_DATA" -> "PACKET_DATA_LEN_ERROR"
                           [] OTHER                   -> a.result]

Returned == {Unset, Error("TOO_LONG")} \cup {Result(a) : a \in Answer}

WriteHandler(c, err) == [handler |-> "write_callback", this |-> c, error |-> err, n |-> 0]
WaitHandler(c, err)  == [handler |-> "wait_callback",  this |-> c, error |-> err, n |-> 0]
ReadHandler(n, err)  == [handler |-> "read_callback",  this |-> None, error |-> err, n |-> n]

Handler == [handler : {"write_callback", "wait_callback", "read_callback"},
            this : Command \cup {None}, error : BOOLEAN, n : Nat]

(* The SubwayProtocol lives on the client's stack from its constructor to  *)
(* the return of send_command.                                             *)
Live == IF pc \in {"listening", "running", "waiting", "returning"} THEN {cmd} ELSE {}

(* The object a callback bound to c works on.  After the destructor its    *)
(* stack slot holds either dead bytes (None: the provider pointer is still *)
(* there, the promise is not) or the protocol of a later command.  A crash *)
(* is the third outcome: the behaviour then simply stops.                  *)
Storage(c) == IF c \in Live THEN {c} ELSE Live \cup {None}

-----------------------------------------------------------------------------
(* SubwayUnbytestaffer and SubwayProtocol::feed. *)

(* wait_for_fbgn: what comes before the first head is skipped. *)
Skipped(chunk) ==
    Cardinality({i \in 1..Len(chunk) : \A j \in 1..i : chunk[j].part # "head"})

FromHead(chunk) == SubSeq(chunk, Skipped(chunk) + 1, Len(chunk))

Unbytestaff(f, chunk) == IF f = <<>> THEN FromHead(chunk) ELSE f \o chunk

(* filter.size() >= header->full_size() *)
Complete(f) == Len(f) >= 2

(* Variant: the checksum is not looked at. *)
VerdictUnchecked(f) == Packet(f[2].part, f[1].of)

(* crc_check, then the NACK code, then the data; a second FBGN does not    *)
(* restart the filter, so the fragments of two packets fail the checksum.  *)
Verdict(f) ==
    IF f[2].of = f[1].of /\ f[2].part \in {"DATA", "SHORT_DATA", "NACK"}
    THEN Packet(f[2].part, f[1].of)
    ELSE Error("PACKET_CRC_ERROR")

-----------------------------------------------------------------------------
(* boost.asio: a wait that is cancelled completes with operation_aborted.  *)
WithAbortedWait(q) == IF timer = None THEN q ELSE Append(q, WaitHandler(timer, TRUE))

(* async_read stores at the start of read_buf, over what is there. *)
Overwrite(buf, data) == data \o SubSeq(buf, Len(data) + 1, Len(buf))

(* Variant: the last value stays. *)
Overwritten(s, a) == [c \in Command |-> IF c = s THEN a ELSE answer[c]]

(* Protocol::set_answer: the first value stays, promise_already_satisfied  *)
(* is caught and logged.                                                   *)
Satisfied(s, a) ==
    [c \in Command |-> IF c = s /\ answer[c] = Unset THEN a ELSE answer[c]]

(* Variant: the wait is never started. *)
NoTimeout(c) == timer' = timer

(* The provider's set_timeout: async_wait; expires_from_now has cancelled  *)
(* an earlier one.                                                         *)
SetTimeout(c) == timer' = c

(* Variant: the timeout is reported as an input/output error. *)
TimeoutIsIoError == Error("IO_ERROR")

(* SubwayProtocol::timeout *)
TimeoutAnswer == Error("NO_ANSWER")

(* What one read takes: all that has arrived, up to read_size. *)
Readable == IF Len(rx) < ReadSize THEN Len(rx) ELSE ReadSize

(* A read that gets its bytes completes behind the handlers q. *)
ReadInto(q) ==
    /\ read_buf' = Overwrite(read_buf, SubSeq(rx, 1, Readable))
    /\ rx' = SubSeq(rx, Readable + 1, Len(rx))
    /\ ready' = Append(q, ReadHandler(Readable, FALSE))

(* async_read tries the port at once if no read is already waiting for it; *)
(* only a read that finds nothing is left to the reactor.                  *)
initiate_read(q) ==
    \/ /\ reads = 0
       /\ rx # <<>>
       /\ ReadInto(q)
       /\ reads' = reads
    \/ /\ reads > 0 \/ rx = <<>>
       /\ reads' = reads + 1
       /\ ready' = q
       /\ UNCHANGED <<read_buf, rx>>

(* Variant: reading goes on whatever the listeners say. *)
AlwaysReread(found, q) == initiate_read(q)

(* Reading goes on unless a listener has its packet (combiner::maximum of  *)
(* feed's 0 or 1, and 0 when nobody listens).                              *)
Reread(found, q) ==
    IF found = {} THEN initiate_read(q)
    ELSE ready' = q /\ UNCHANGED <<reads, read_buf, rx>>

(* SubwayProtocol::set_answer on the object s. *)
SetAnswer(s, a) ==
    /\ slots' = slots \ {s}
    /\ timer' = None
    /\ answer' = Satisfied(s, a)

-----------------------------------------------------------------------------
(* The client thread in Reader::send_command. *)

(* SubwayProtocol(impl): the constructor registers the listener. *)
Construct ==
    /\ pc = "idle"
    /\ cmd < MaxCommands
    /\ cmd' = cmd + 1
    /\ pc' = "listening"
    /\ slots' = slots \cup {cmd + 1}
    /\ UNCHANGED <<returned, filter, answer, asio, line, history>>

(* SubwayProtocol::send when the data does not fit the packet. *)
SendFails ==
    /\ pc = "listening"
    /\ returned' = [returned EXCEPT ![cmd] = Error("TOO_LONG")]
    /\ pc' = "returning"
    /\ UNCHANGED <<cmd, protocol, asio, line, history>>

(* SubwayProtocol::send and the provider's send up to async_write. *)
SendThen(next) ==
    /\ pc = "listening"
    /\ writes' = Append(writes, cmd)
    /\ pc' = next
    /\ UNCHANGED <<cmd, returned, protocol, reads, timer, ready, read_buf, io, line, history>>

(* get_answer returns and the rest of send_command computes the result. *)
GetAnswer ==
    /\ pc = "waiting"
    /\ answer[cmd] # Unset
    /\ returned' = [returned EXCEPT ![cmd] = Result(answer[cmd])]
    /\ pc' = "returning"
    /\ UNCHANGED <<cmd, protocol, asio, line, history>>

(* Variant: the destructor leaves the listener connected. *)
DestroyConnected ==
    /\ pc = "returning"
    /\ pc' = "idle"
    /\ UNCHANGED <<cmd, returned, protocol, asio, line, history>>

(* ~SubwayProtocol: disconnect if set_answer has not done it. *)
Destroy ==
    /\ pc = "returning"
    /\ slots' = slots \ {cmd}
    /\ pc' = "idle"
    /\ UNCHANGED <<cmd, returned, filter, answer, asio, line, history>>

(* Reader::~Reader between two commands: io_svc.stop(), then join. *)
Close ==
    /\ pc = "idle"
    /\ pc' = "closing"
    /\ UNCHANGED <<cmd, returned, protocol, asio, line, history>>

Join ==
    /\ pc = "closing"
    /\ io = "idle"
    /\ pc' = "closed"
    /\ UNCHANGED <<cmd, returned, protocol, asio, line, history>>

-----------------------------------------------------------------------------
(* The handlers, run one at a time by the thread that is in io_svc.run(). *)

Dispatch(handler) ==
    /\ io = "idle"
    /\ ready # <<>>
    /\ Head(ready).handler = handler

(* SubwayProtocol::write_callback inside the provider's write_callback. *)
write_callback ==
    /\ Dispatch("write_callback")
    /\ LET h == Head(ready)
           q == WithAbortedWait(Tail(ready))
       IN  /\ \/ /\ h.error
                 /\ \E s \in Storage(h.this) : SetAnswer(s, Error("IO_ERROR"))
                 /\ ready' = q
                 /\ UNCHANGED <<reads, read_buf, rx>>
              \/ /\ ~h.error
                 /\ SetTimeout(h.this)
                 /\ initiate_read(q)
                 /\ UNCHANGED <<slots, answer>>
           /\ stale' = (stale \/ h.this \notin Live)
    /\ UNCHANGED <<client, filter, writes, io, device, expired, faulted>>

(* read_callback: data_received calls feed on every connected protocol.    *)
read_callback ==
    /\ Dispatch("read_callback")
    /\ LET h     == Head(ready)
           q     == Tail(ready)
           chunk == SubSeq(read_buf, 1, h.n)
           fed   == [c \in Command |-> IF c \in slots THEN Unbytestaff(filter[c], chunk)
                                                      ELSE filter[c]]
           found == {c \in slots : Complete(fed[c])}
       IN  \/ /\ h.error
              /\ ready' = q
              /\ UNCHANGED <<protocol, reads, timer, read_buf, rx, stale>>
           \/ /\ ~h.error
              /\ filter' = fed
              /\ \/ /\ found = {}
                    /\ Reread(found, q)
                    /\ UNCHANGED <<slots, answer, timer>>
                 \/ \E c \in found : /\ SetAnswer(c, Verdict(fed[c]))
                                     /\ Reread(found, WithAbortedWait(q))
              /\ stale' = (stale \/ ~(slots \subseteq Live))
    /\ UNCHANGED <<client, writes, io, device, expired, faulted>>

(* Variant: the handler of a cancelled wait goes on. *)
NeverCancelled(h) == FALSE

(* wait_callback: if (error) return *)
Cancelled(h) == h.error

(* wait_callback up to the end of callback(), which is                     *)
(* SubwayProtocol::timeout.  The promise wakes the client up before        *)
(* serial.cancel() runs: that is CancelSerial.                             *)
wait_callback ==
    /\ Dispatch("wait_callback")
    /\ LET h == Head(ready) IN
       \/ /\ Cancelled(h)
          /\ ready' = Tail(ready)
          /\ UNCHANGED <<slots, answer, timer, io, stale>>
       \/ /\ ~Cancelled(h)
          /\ \E s \in Storage(h.this) : SetAnswer(s, TimeoutAnswer)
          /\ ready' = WithAbortedWait(Tail(ready))
          /\ io' = "cancel"
          /\ stale' = (stale \/ h.this \notin Live)
    /\ UNCHANGED <<client, filter, writes, reads, read_buf, line, expired, faulted>>

AbortedReads  == [i \in 1..reads |-> ReadHandler(0, TRUE)]
AbortedWrites == [i \in 1..Len(writes) |-> WriteHandler(writes[i], TRUE)]

(* serial.cancel(): every read and write still pending, whoever started    *)
(* it, completes with operation_aborted.                                   *)
CancelSerial ==
    /\ io = "cancel"
    /\ ready' = ready \o AbortedReads \o AbortedWrites
    /\ reads' = 0
    /\ writes' = <<>>
    /\ io' = "idle"
    /\ UNCHANGED <<client, protocol, timer, read_buf, line, history>>

-----------------------------------------------------------------------------
(* The operating system and the device: external.                          *)

(* The oldest write is complete.  Its bytes are in write_buf of the        *)
(* protocol: once that is destroyed, the device may receive anything.      *)
WriteDone ==
    /\ writes # <<>>
    /\ writes' = Tail(writes)
    /\ ready' = Append(ready, WriteHandler(Head(writes), FALSE))
    /\ LET sent == [device EXCEPT ![Head(writes)] = "received"]
       IN  device' \in IF Head(writes) \in Live THEN {sent} ELSE {sent, device}
    /\ UNCHANGED <<client, protocol, reads, timer, read_buf, io, rx, history>>

WriteFails ==
    /\ "write" \in Faults
    /\ writes # <<>>
    /\ writes' = Tail(writes)
    /\ ready' = Append(ready, WriteHandler(Head(writes), TRUE))
    /\ faulted' = faulted \cup {Head(writes)}
    /\ UNCHANGED <<client, protocol, reads, timer, read_buf, io, line, stale, expired>>

(* The reactor is polled by the thread in run(), between two handlers; one *)
(* poll queues the completed reads before the timer, and there is no other *)
(* poll until that timer's handler has run.                                *)
Polled ==
    /\ io = "idle"
    /\ \A i \in 1..Len(ready) : ready[i].handler = "wait_callback" => ready[i].error

ReadSome ==
    /\ Polled
    /\ reads > 0
    /\ rx # <<>>
    /\ ReadInto(ready)
    /\ reads' = reads - 1
    /\ UNCHANGED <<client, protocol, writes, timer, io, device, history>>

ReadFails ==
    /\ "read" \in Faults
    /\ Polled
    /\ reads > 0
    /\ ready' = Append(ready, ReadHandler(0, TRUE))
    /\ reads' = reads - 1
    /\ UNCHANGED <<client, protocol, writes, timer, read_buf, io, line, history>>

(* TIMEOUT has passed.  From here on cancel() no longer stops the handler. *)
TimerExpires ==
    /\ Polled
    /\ timer # None
    /\ timer' = None
    /\ ready' = Append(ready, WaitHandler(timer, FALSE))
    /\ expired' = expired \cup {timer}
    /\ UNCHANGED <<client, protocol, writes, reads, read_buf, io, line, stale, faulted>>

(* The device answers commands in the order it got them, at any time, or   *)
(* not at all; it may stop in the middle of a packet.                      *)
Respond ==
    \E c \in Command :
    /\ \A d \in Command : d > c => device[d] \in {"none", "received"}
    /\ \/ /\ device[c] = "received"
          /\ device' = [device EXCEPT ![c] = "responding"]
          /\ rx' = Append(rx, [of |-> c, part |-> "head"])
       \/ /\ device[c] = "responding"
          /\ device' = [device EXCEPT ![c] = "done"]
          /\ \E kind \in Replies : rx' = Append(rx, [of |-> c, part |-> kind])
    /\ UNCHANGED <<client, protocol, asio, history>>

-----------------------------------------------------------------------------
(* A provider that has been opened, with the given number of reads begun. *)
Opened(n) ==
    /\ cmd = None
    /\ pc = "idle"
    /\ returned = [c \in Command |-> Unset]
    /\ slots = {}
    /\ filter = [c \in Command |-> <<>>]
    /\ answer = [c \in Command |-> Unset]
    /\ writes = <<>>
    /\ reads = n
    /\ timer = None
    /\ ready = <<>>
    /\ read_buf = <<>>
    /\ io = "idle"
    /\ device = [c \in Command |-> "none"]
    /\ rx = <<>>
    /\ stale = FALSE
    /\ expired = {}
    /\ faulted = {}

Init == Opened(0)

(* The steps nobody in this program decides on. *)
Environment ==
    WriteDone \/ WriteFails \/ ReadSome \/ ReadFails \/ TimerExpires \/ Respond

(* The handlers and the rest of the one that was interrupted. *)
RunOne == write_callback \/ read_callback \/ wait_callback \/ CancelSerial

-----------------------------------------------------------------------------
(* Properties that hold for several providers. *)

(* Every variable is in its range. *)
TypeOK ==
    /\ cmd \in Command \cup {None}
    /\ pc \in {"idle", "listening", "running", "waiting", "returning", "closing", "closed"}
    /\ pc \in {"listening", "running", "waiting", "returning"} => cmd \in Command
    /\ returned \in [Command -> Returned]
    /\ slots \subseteq Command
    /\ filter \in [Command -> Seq(Fragment)]
    /\ answer \in [Command -> Answer \cup {Unset}]
    /\ writes \in Seq(Command)
    /\ reads \in Nat
    /\ timer \in Command \cup {None}
    /\ ready \in Seq(Handler)
    /\ read_buf \in Seq(Fragment)
    /\ io \in {"idle", "cancel"}
    /\ device \in [Command -> {"none", "received", "responding", "done"}]
    /\ rx \in Seq(Fragment)
    /\ stale \in BOOLEAN
    /\ expired \subseteq Command
    /\ faulted \subseteq Command

(* A command can only be given the reply to an earlier command after some  *)
(* command up to that one timed out: replies carry no sequence number, so  *)
(* only the timeout can make the two sides disagree on whose turn it is.   *)
MisattributionNeedsTimeout ==
    \A c, d \in Command :
        (answer[c].of = d /\ d # c) =>
            d < c /\ \E e \in 1..d : answer[e] = Error("NO_ANSWER")

Queued(kind, c, err) ==
    \E i \in 1..Len(ready) :
        ready[i].handler = kind /\ ready[i].this = c /\ ready[i].error = err

(* A client blocked in get_answer always has something that will set its   *)
(* promise: its write, the completion of its write, its timer or the       *)
(* completion of its timer.  A reply alone does not count: it may be lost. *)
(* About write_callback, set_answer and cancel_timeout agreeing, across    *)
(* handlers, on when the timer may be dropped.  Handlers that used a       *)
(* destroyed protocol are excepted: they may cancel another one's timer.   *)
WaitingClientHasWaker ==
    (pc = "waiting" /\ ~stale) =>
        \/ answer[cmd] # Unset
        \/ \E i \in 1..Len(writes) : writes[i] = cmd
        \/ \E err \in BOOLEAN : Queued("write_callback", cmd, err)
        \/ timer = cmd
        \/ Queued("wait_callback", cmd, FALSE)

(* Reads whose bytes are still to come or still to be parsed. *)
ReadsInFlight ==
    LET done == {i \in 1..Len(ready) : ready[i].handler = "read_callback" /\ ~ready[i].error}
    IN  reads + Cardinality(done)

(* No more than one protocol is connected to data_received: a chunk of     *)
(* bytes is never parsed by the protocol of an earlier command too.        *)
OneListener == slots \subseteq Live

(* Every command that waits for its answer returns, whatever the device    *)
(* does, as long as no handler has used a destroyed protocol.              *)
EveryCommandReturns ==
    []~stale => \A c \in Command : (pc = "waiting" /\ cmd = c) ~> returned[c] # Unset

(* Whatever the threads, the port and the device do, the caller sees       *)
(* CommandService: the promise is set once, a promise set by a left-over   *)
(* read still only carries a reply to a command sent before, and nothing   *)
(* the handlers do to a destroyed protocol changes what it returned.       *)
Service ==
    INSTANCE CommandService WITH
        open <- pc \in {"listening", "running", "waiting", "returning"},
        refused <- {c \in Command : returned[c] = Error("TOO_LONG")},
        Reported <- Result,
        ReplyResult <- {"DATA", "SHORT_DATA", "NACK"},
        ErrorResult <- {"PACKET_CRC_ERROR", "IO_ERROR", "NO_ANSWER"}

ImplementsCommandService == Service!Spec

=============================================================================
