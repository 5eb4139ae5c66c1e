---------------------------- MODULE TcpConnector ----------------------------
(***************************************************************************)
(* The constructor of TcpImpl: the io thread is started, and a Connector   *)
(* resolves the host, tries its endpoints one after the other and is       *)
(* stopped by a timer, while the constructor waits for its promise.  The   *)
(* handlers run in the io thread.  When the constructor throws, everything *)
(* is destroyed under that thread: the model ends there.  ReaderLife runs  *)
(* it.                                                                     *)
(***************************************************************************)
EXTENDS Naturals, Sequences

CONSTANT MaxEndpoints   \* bound: endpoints a host name may have

ASSUME ConnectorAssumption == MaxEndpoints \in Nat \ {0}

Endpoint == 1..MaxEndpoints
None == 0

VARIABLES pc,         \* where the constructor is
          endpoints,  \* number of endpoints the name has; 0, it has none
          resolving,  \* async_resolve is under way
          attempt,    \* endpoint async_connect is under way with
          timer,      \* a wait of the timer is pending
          ready,      \* completed operations, whose handlers the thread runs
          peer,       \* endpoint the socket is connected to
          promise,    \* connect_promise
          accepted,   \* history: endpoints that accepted
          expired,    \* history: the timer has expired
          aborted     \* history: its handler has interrupted an attempt

vars == <<pc, endpoints, resolving, attempt, timer, ready, peer, promise, accepted,
          expired, aborted>>

Complete(what, i, error) == [op |-> what, i |-> i, error |-> error]

-----------------------------------------------------------------------------
(* boost.asio.  The reactor is polled between handlers; it finds sockets   *)
(* before timers, and polls no more until an expired timer's handler ran.  *)

Polled == \A k \in 1..Len(ready) : ready[k].op # "timeout"

(* What an endpoint answers. *)
Answer(i, queue) ==
    \/ /\ ready' = Append(queue, Complete("connect", i, "ok"))
       /\ peer' = i
       /\ accepted' = accepted \cup {i}
    \/ /\ ready' = Append(queue, Complete("connect", i, "refused"))
       /\ UNCHANGED <<peer, accepted>>

(* async_connect on a connected socket fails; on another it may also       *)
(* complete at once.                                                       *)
async_connect(i, queue) ==
    \/ /\ peer # None
       /\ ready' = Append(queue, Complete("connect", i, "already_connected"))
       /\ UNCHANGED <<attempt, peer, accepted>>
    \/ /\ peer = None
       /\ \/ /\ attempt' = i
             /\ ready' = queue
             /\ UNCHANGED <<peer, accepted>>
          \/ /\ Answer(i, queue)
             /\ UNCHANGED attempt

ConnectDone ==
    /\ attempt # None /\ Polled
    /\ Answer(attempt, ready)
    /\ attempt' = None
    /\ UNCHANGED <<pc, endpoints, resolving, timer, promise, expired, aborted>>

(* The resolver has a thread of its own, which posts the result. *)
ResolveDone ==
    /\ resolving
    /\ ready' = Append(ready, Complete("resolve", None, IF endpoints = 0 THEN "not_found" ELSE "ok"))
    /\ resolving' = FALSE
    /\ UNCHANGED <<pc, endpoints, attempt, timer, peer, promise, accepted, expired, aborted>>

TimerExpires ==
    /\ timer /\ Polled
    /\ timer' = FALSE
    /\ ready' = Append(ready, Complete("timeout", None, "ok"))
    /\ expired' = TRUE
    /\ UNCHANGED <<pc, endpoints, resolving, attempt, peer, promise, accepted, aborted>>

(* timeout.cancel(): a wait that has already completed is not recalled. *)
WithAbortedWait(queue) ==
    IF timer THEN Append(queue, Complete("timeout", None, "operation_aborted")) ELSE queue

-----------------------------------------------------------------------------
(* The handlers. *)

SetPromise(error, queue) ==
    /\ promise' = error
    /\ timer' = FALSE
    /\ ready' = WithAbortedWait(queue)
    /\ UNCHANGED <<attempt, peer, accepted>>

NoEndpoint(h, queue) == SetPromise(h.error, queue)

resolve_callback(h, queue) ==
    \/ endpoints # 0 /\ async_connect(1, queue) /\ UNCHANGED <<promise, timer>>
    \/ endpoints = 0 /\ NoEndpoint(h, queue)

(* Variants: the last endpoint is left out; an interrupted attempt is like *)
(* any other failure.                                                      *)
MoreButLast(h) == h.error # "operation_aborted" /\ h.i + 1 < endpoints
MoreAfterAbort(h) == h.i < endpoints

(* error != operation_aborted && ++i != end: after a success too. *)
More(h) == h.error # "operation_aborted" /\ h.i < endpoints

connect_callback(h, queue) ==
    \/ More(h) /\ async_connect(h.i + 1, queue) /\ UNCHANGED <<promise, timer>>
    \/ ~More(h) /\ SetPromise(h.error, queue)

(* socket.close() interrupts the attempt under way. *)
close(queue) ==
    /\ peer' = None
    /\ attempt' = None
    /\ ready' = IF attempt = None THEN queue
                ELSE Append(queue, Complete("connect", attempt, "operation_aborted"))
    /\ aborted' = (aborted \/ attempt # None)

(* Variant: a timer that was cancelled closes the socket as well. *)
InEarnestAlways(h) == TRUE

InEarnest(h) == h.error # "operation_aborted"

timeout_callback(h, queue) ==
    /\ \/ InEarnest(h) /\ close(queue)
       \/ ~InEarnest(h) /\ ready' = queue /\ UNCHANGED <<attempt, peer, aborted>>
    /\ UNCHANGED <<promise, timer, accepted>>

(* One turn of io_svc.run. *)
IoThread ==
    /\ ready # <<>> /\ pc # "thrown"
    /\ LET h == Head(ready)
       IN  \/ h.op = "resolve" /\ resolve_callback(h, Tail(ready)) /\ UNCHANGED aborted
           \/ h.op = "connect" /\ connect_callback(h, Tail(ready)) /\ UNCHANGED aborted
           \/ h.op = "timeout" /\ timeout_callback(h, Tail(ready))
    /\ UNCHANGED <<pc, endpoints, resolving, expired>>

-----------------------------------------------------------------------------
(* The constructor's thread. *)

async_resolve ==
    /\ pc = "resolve"
    /\ pc' = "arm"
    /\ resolving' = TRUE
    /\ UNCHANGED <<endpoints, attempt, timer, ready, peer, promise, accepted, expired, aborted>>

(* Resolving and connecting may have ended before the timer is started. *)
async_wait ==
    /\ pc = "arm"
    /\ pc' = "wait"
    /\ timer' = TRUE
    /\ UNCHANGED <<endpoints, resolving, attempt, ready, peer, promise, accepted, expired, aborted>>

(* The future is ready; the end of connect's scope cancels the timer.      *)
(* initiate_read finds the socket as it is now.                            *)
Return ==
    /\ pc = "wait" /\ promise # "none"
    /\ pc' = IF promise = "ok" THEN "done" ELSE "thrown"
    /\ timer' = FALSE
    /\ ready' = WithAbortedWait(ready)
    /\ UNCHANGED <<endpoints, resolving, attempt, peer, promise, accepted, expired, aborted>>

Init ==
    /\ pc = "resolve"
    /\ endpoints \in 0..MaxEndpoints
    /\ resolving = FALSE
    /\ attempt = None
    /\ timer = FALSE
    /\ ready = <<>>
    /\ peer = None
    /\ promise = "none"
    /\ accepted = {}
    /\ expired = FALSE
    /\ aborted = FALSE

-----------------------------------------------------------------------------
(* Properties. *)

(* connect_callback goes on after a success, to be told that the socket is *)
(* already connected: without a timeout, the constructor succeeds only     *)
(* when the last endpoint accepts, and every one before it has refused.    *)
OnlyTheLastCounts == promise = "ok" /\ ~expired => accepted = {endpoints}

(* A provider is handed to its caller with a closed socket, or loses it    *)
(* later, only because the timer had expired when the connection was made  *)
(* and could no longer be cancelled.                                       *)
ClosedOnlyByTimer == promise = "ok" /\ peer = None => expired

(* An attempt the timer interrupts is the last: nothing is tried after it, *)
(* and the constructor fails.                                              *)
InterruptedFails ==
    aborted => /\ attempt = None
               /\ promise \in {"none", "operation_aborted"}
               /\ \A k \in 1..Len(ready) :
                    ready[k].op = "connect" => ready[k].error = "operation_aborted"

=============================================================================
