------------------------------- MODULE AsioMT -------------------------------
(***************************************************************************)
(* AsioMTImpl: a thread of its own runs the handlers (UnixImpl has the     *)
(* same control over a local stream socket).  The client thread only       *)
(* constructs the protocol, starts the write, waits for the promise and    *)
(* destroys the protocol; every interleaving of the two threads, of the    *)
(* port and of the device is a behaviour.                                  *)
(***************************************************************************)
EXTENDS Exchange

Send == SendThen("waiting")

(* io_svc.run() serves handlers until ~AsioMTImpl stops the service; the   *)
(* handler that is running then still finishes.                            *)
IoThread ==
    \/ pc \notin {"closing", "closed"} /\ (write_callback \/ read_callback \/ wait_callback)
    \/ CancelSerial

Client == Construct \/ Send \/ SendFails \/ GetAnswer \/ Destroy \/ Close \/ Join

Next == Client \/ IoThread \/ Environment

Spec == Init /\ [][Next]_vars

(* The scheduler runs both threads; a write of a few bytes to the port     *)
(* completes (no flow control) and a started timer expires.  Nothing is    *)
(* assumed of the device or of the application issuing commands.           *)
Fairness ==
    /\ WF_vars(IoThread)
    /\ WF_vars(GetAnswer)
    /\ WF_vars(WriteDone)
    /\ WF_vars(TimerExpires)

FairSpec == Spec /\ Fairness

-----------------------------------------------------------------------------
(* Properties. *)

(* Every read left over from an earlier command is the fault of a timeout: *)
(* the number of reads in flight is at most one for the current command    *)
(* and one for each command answered with NO_ANSWER.                       *)
ReadsAccounted ==
    ReadsInFlight <= Cardinality({c \in Command : answer[c] = Error("NO_ANSWER")})
                     + IF cmd # None /\ answer[cmd] = Unset THEN 1 ELSE 0

(* IO_ERROR is the port's refusal of the command's own write, or the       *)
(* serial.cancel() that follows the timer of an earlier command: that one  *)
(* races with the client, which the promise set just before has let go on. *)
IoErrorNeedsTimeout ==
    \A c \in Command : answer[c] = Error("IO_ERROR") =>
        c \in faulted \/ \E e \in expired : e < c

(* The timeout callback of a command never runs once a complete packet has *)
(* been recognised for it: what subway_protocol.cpp says of timeout() and  *)
(* wait_callback's comment of the cancelled timer.                         *)
TimeoutMeansNoPacket ==
    [][(io = "idle" /\ io' = "cancel" /\ Head(ready).this \in Live)
           => answer[Head(ready).this] \notin PacketAnswer]_vars

=============================================================================
