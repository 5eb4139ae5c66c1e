------------------------------- MODULE AsioRun -------------------------------
(***************************************************************************)
(* AsioImpl: send() starts the write and then runs io_svc in the client's  *)
(* own thread until it has no work left; only then does send_command ask   *)
(* for the answer.  There is no second thread: while the handlers run the  *)
(* client is inside send, and no handler runs at any other time.           *)
(***************************************************************************)
EXTENDS Exchange

(* async_write; what follows in AsioImpl::send is the run. *)
Send == SendThen("running")

Run == pc = "running" /\ RunOne

(* Variants: run() does not wait for handlers that are queued, or for a    *)
(* timer.                                                                  *)
PendingWork == io # "idle" \/ reads > 0 \/ writes # <<>> \/ timer # None
PortWork == ready # <<>> \/ io # "idle" \/ reads > 0 \/ writes # <<>>

(* run() returns when nothing is pending and no handler is queued; reset() *)
(* makes the next run possible.                                            *)
HasWork == ready # <<>> \/ io # "idle" \/ reads > 0 \/ writes # <<>> \/ timer # None

RunReturns ==
    /\ pc = "running"
    /\ ~HasWork
    /\ pc' = "waiting"
    /\ UNCHANGED <<cmd, returned, protocol, asio, line, history>>

Client == Construct \/ Send \/ SendFails \/ RunReturns \/ GetAnswer \/ Destroy

Next == Client \/ Run \/ Environment

Spec == Init /\ [][Next]_vars

Fairness ==
    /\ WF_vars(Run)
    /\ WF_vars(RunReturns)
    /\ WF_vars(WriteDone)
    /\ WF_vars(ReadSome)
    /\ WF_vars(TimerExpires)

FairSpec == Spec /\ Fairness

-----------------------------------------------------------------------------
(* Properties. *)

(* When run() gives the thread back the promise is set: get_answer, which  *)
(* no other thread could wake up, never blocks.  About every way a run can *)
(* end: packet, error, timeout, a failed write or a failed read.           *)
RunReturnsAnswered == pc = "waiting" => answer[cmd] # Unset

(* A run leaves nothing behind, so no handler works on the protocol of an  *)
(* earlier command: neither a late timer nor a left-over read or write.    *)
NothingOutlivesCommand ==
    /\ ~stale
    /\ pc # "running" =>
          ready = <<>> /\ reads = 0 /\ timer = None /\ writes = <<>>

(* IO_ERROR is reported only for a write the port refused: the             *)
(* serial.cancel() of a timeout never hits another command's write.        *)
IoErrorIsAFault ==
    \A c \in Command : answer[c] = Error("IO_ERROR") => c \in faulted

(* wait_callback: "to make io_svc.run return we should cancel all pending  *)
(* operations on serial port".  After the timer has run out, run returns.  *)
RunEndsAfterTimeout ==
    \A c \in Command : (pc = "running" /\ cmd = c /\ answer[c] = Error("NO_ANSWER")) ~> pc # "running"

=============================================================================
