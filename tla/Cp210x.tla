------------------------------- MODULE Cp210x -------------------------------
(***************************************************************************)
(* CP210XImpl: the handlers are called by the thread of the USB library    *)
(* when a transfer it was asked for ends.  The timeout is looked at only   *)
(* when a receive ends, with data or without.                              *)
(***************************************************************************)
EXTENDS OwnTimer

-----------------------------------------------------------------------------
(* The client thread. *)

send_async == SendThen("waiting") /\ UNCHANGED own

(* send_async says no: the callback is called at once. *)
send_refused ==
    /\ "write" \in Faults
    /\ pc = "listening"
    /\ pc' = "waiting"
    /\ SetAnswerAndCancel(cmd, Error("IO_ERROR"))
    /\ faulted' = faulted \cup {cmd}
    /\ UNCHANGED <<cmd, returned, filter, writes, reads, ready, read_buf, io, line, stale,
                   expired, impl, unheard>>

(* ~CP210XImpl has nothing of its own to stop. *)
Destructor ==
    /\ pc = "idle"
    /\ pc' = "closed"
    /\ UNCHANGED <<cmd, returned, protocol, asio, line, history, own>>

-----------------------------------------------------------------------------
(* The thread of the library. *)

(* recv_async may fail; its result is not looked at. *)
recv_async(others) ==
    \/ reads' = others + 1 /\ unheard' = unheard
    \/ "read" \in Faults /\ reads' = others /\ unheard' = unheard \cup {cmd}

(* The write has ended: SubwayProtocol::write_callback, which starts the   *)
(* timeout or gives the answer.                                            *)
data_sent ==
    /\ writes # <<>>
    /\ writes' = Tail(writes)
    /\ \/ /\ Start(Head(writes))
          /\ recv_async(reads)
          /\ device' = [device EXCEPT ![Head(writes)] = "received"]
          /\ UNCHANGED <<slots, answer, faulted>>
       \/ /\ "write" \in Faults
          /\ \E s \in Storage(Head(writes)) : SetAnswerAndCancel(s, Error("IO_ERROR"))
          /\ faulted' = faulted \cup {Head(writes)}
          /\ UNCHANGED <<reads, device, unheard>>
    /\ stale' = (stale \/ Head(writes) \notin Live)
    /\ UNCHANGED <<client, filter, ready, read_buf, io, rx, expired, impl>>

(* Variant: the next receive is started whatever the listener says. *)
AlwaysReceive(chunk) == recv_async(reads - 1)

ReceiveOn(chunk) ==
    IF Found(chunk) = {} THEN recv_async(reads - 1)
                         ELSE reads' = reads - 1 /\ unheard' = unheard

(* A receive has ended, with what had arrived or with nothing.  Without a  *)
(* listener nobody starts the next one.                                    *)
recv_handler ==
    /\ pc # "closed"
    /\ reads > 0
    /\ \E n \in 0..Len(rx) :
          /\ rx' = SubSeq(rx, n + 1, Len(rx))
          /\ LET chunk == SubSeq(rx, 1, n)
             IN  \/ /\ slots = {}
                    /\ reads' = reads - 1
                    /\ UNCHANGED <<slots, filter, answer, timer, due, stale, unheard>>
                 \/ /\ slots # {}
                    /\ check
                    /\ reads' = reads - 1
                    /\ UNCHANGED <<filter, unheard>>
                 \/ /\ slots # {} /\ ~TimedOut
                    /\ data_received(chunk)
                    /\ ReceiveOn(chunk)
    /\ UNCHANGED <<client, writes, ready, read_buf, io, device, expired, faulted, impl>>

Cp210xNext ==
    /\ impl = "cp210x"
    /\ \/ BeforeSend \/ AfterSend \/ DeviceAnswers \/ TimeRunsOut
       \/ send_async \/ send_refused \/ Destructor
       \/ data_sent \/ recv_handler

=============================================================================
