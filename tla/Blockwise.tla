----------------------------- MODULE Blockwise -----------------------------
(***************************************************************************)
(* BlockwiseImpl: a thread takes completion packets off an I/O completion  *)
(* port, one a turn; before it looks at the packet it looks at the time.   *)
(* Who waits for a write is a slot of a signal, data_sent, called for      *)
(* every write that completes.                                             *)
(***************************************************************************)
EXTENDS OwnTimer

VARIABLE sent   \* data_sent: protocols waiting for a write, oldest first

KeyStop == [handler |-> "KEY_STOP", this |-> None, error |-> FALSE, n |-> 0]

Dequeues(name) == io = "idle" /\ ready # <<>> /\ Head(ready).handler = name

-----------------------------------------------------------------------------
(* The client thread. *)

(* send: the listener first, then WriteFile. *)
Send ==
    /\ SendThen("waiting")
    /\ sent' = Append(sent, cmd)
    /\ UNCHANGED own

(* WriteFile refuses: data_sent is called at once, in this thread, with    *)
(* the error, and all of its listeners with it.                            *)
SendRefused ==
    /\ "write" \in Faults
    /\ pc = "listening"
    /\ pc' = "waiting"
    /\ LET called == {cmd} \cup {sent[i] : i \in 1..Len(sent)}
       IN  \E at \in [called -> UNION {Storage(c) : c \in called}] :
              /\ \A c \in called : at[c] \in Storage(c)
              /\ LET hit == {at[c] : c \in called}
                 IN  /\ slots' = slots \ hit
                     /\ answer' = [c \in Command |-> IF c \in hit /\ answer[c] = Unset
                                                     THEN Error("IO_ERROR") ELSE answer[c]]
              /\ stale' = (stale \/ ~(called \subseteq Live))
    /\ timer' = None
    /\ due' = FALSE
    /\ sent' = <<>>
    /\ faulted' = faulted \cup {cmd}
    /\ UNCHANGED <<cmd, returned, filter, writes, reads, ready, read_buf, io, line, expired,
                   impl, unheard>>

(* ~BlockwiseImpl: CancelIo hits what this thread has begun, the writes;   *)
(* the packet that stops the loop goes to the end of the queue.            *)
stop_iocp_thread ==
    /\ pc = "idle"
    /\ pc' = "closing"
    /\ ready' = Append(ready \o AbortedWrites, KeyStop)
    /\ writes' = <<>>
    /\ UNCHANGED <<cmd, returned, protocol, reads, timer, read_buf, io, line, history, own, sent>>

-----------------------------------------------------------------------------
(* The iocp thread. *)

(* ReadFile with the one read_over and the one read_buf; a failure is only *)
(* logged.                                                                 *)
Read ==
    \/ reads' = reads + 1
    \/ "read" \in Faults /\ reads' = reads

(* A turn in which the time has run out: the packet, if there is one, is   *)
(* not looked at.                                                          *)
TurnTimesOut ==
    /\ io = "idle" /\ pc # "closed"
    /\ ready # <<>> => Head(ready) # KeyStop
    /\ check
    /\ ready' = IF ready = <<>> THEN ready ELSE Tail(ready)
    /\ io' = "cancel"
    /\ UNCHANGED <<client, filter, writes, reads, read_buf, line, expired, faulted, impl,
                   unheard, sent>>

(* CancelIo: the I/O this thread has begun, the reads. *)
CancelIo ==
    /\ io = "cancel"
    /\ io' = "idle"
    /\ ready' = ready \o AbortedReads
    /\ reads' = 0
    /\ writes' = writes
    /\ UNCHANGED <<client, protocol, timer, read_buf, line, history, own, sent>>

(* !completed: nobody is told. *)
TurnFailed ==
    /\ io = "idle" /\ ready # <<>> /\ Head(ready).error
    /\ ~TimedOut
    /\ ready' = Tail(ready)
    /\ UNCHANGED <<client, protocol, writes, reads, timer, read_buf, io, line, history, own, sent>>

(* Variant: reading goes on although the packet was found. *)
ReadOn(chunk) == Read

(* if(!packet_found) Read *)
ReadAgain(chunk) == IF Found(chunk) = {} THEN Read ELSE reads' = reads

TurnRead ==
    /\ Dequeues("read_callback") /\ ~Head(ready).error
    /\ ~TimedOut
    /\ LET chunk == SubSeq(read_buf, 1, Head(ready).n)
       IN  data_received(chunk) /\ ReadAgain(chunk)
    /\ ready' = Tail(ready)
    /\ UNCHANGED <<client, writes, read_buf, io, line, expired, faulted, impl, unheard, sent>>

(* data_sent: every listener disconnects and starts its timeout; the last  *)
(* one's stays.  Their results are 0, and that of no listener is 0 too.    *)
TurnWritten ==
    /\ Dequeues("write_callback") /\ ~Head(ready).error
    /\ ~TimedOut
    /\ IF sent = <<>> THEN UNCHANGED <<timer, due>> ELSE Start(sent[Len(sent)])
    /\ sent' = <<>>
    /\ Read
    /\ ready' = Tail(ready)
    /\ stale' = (stale \/ \E i \in 1..Len(sent) : sent[i] \notin Live)
    /\ UNCHANGED <<client, protocol, writes, read_buf, io, line, expired, faulted, impl, unheard>>

(* key == KEY_STOP: the loop ends, and with it the destructor's join. *)
TurnStops ==
    /\ Dequeues("KEY_STOP")
    /\ pc' = "closed"
    /\ UNCHANGED <<cmd, returned, protocol, asio, line, history, own, sent>>

iocp_thread ==
    \/ pc # "closed" /\ (TurnTimesOut \/ TurnFailed \/ TurnRead \/ TurnWritten \/ TurnStops)
    \/ CancelIo

-----------------------------------------------------------------------------
(* The system, at any time. *)

ReadCompletes ==
    /\ reads > 0
    /\ rx # <<>>
    /\ read_buf' = Overwrite(read_buf, <<Head(rx)>>)
    /\ rx' = Tail(rx)
    /\ ready' = Append(ready, ReadHandler(1, FALSE))
    /\ reads' = reads - 1
    /\ UNCHANGED <<client, protocol, writes, timer, io, device, history, own, sent>>

ReadCompletesInError ==
    /\ "read" \in Faults
    /\ reads > 0
    /\ ready' = Append(ready, ReadHandler(0, TRUE))
    /\ reads' = reads - 1
    /\ UNCHANGED <<client, protocol, writes, timer, read_buf, io, line, history, own, sent>>

WriteCompletes == WriteDone /\ UNCHANGED <<own, sent>>

WriteCompletesInError ==
    /\ WriteFails
    /\ unheard' = unheard \cup {Head(writes)}
    /\ UNCHANGED <<impl, due, sent>>

BlockwiseNext ==
    /\ impl = "blockwise"
    /\ \/ (BeforeSend \/ AfterSend \/ DeviceAnswers \/ TimeRunsOut) /\ sent' = sent
       \/ Send \/ SendRefused \/ stop_iocp_thread
       \/ iocp_thread
       \/ ReadCompletes \/ ReadCompletesInError \/ WriteCompletes \/ WriteCompletesInError

=============================================================================
