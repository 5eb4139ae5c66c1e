------------------------------ MODULE OwnTimer ------------------------------
(***************************************************************************)
(* What the two providers without boost.asio share: class Timeout, which   *)
(* is no timer but a time that the thread serving completions compares     *)
(* with the clock when it has something to serve, and completions that     *)
(* the system makes at any moment.  The client and the protocol object are *)
(* those of Exchange; timer is the protocol the timeout is bound to, None  *)
(* while it is not active.                                                 *)
(***************************************************************************)
EXTENDS Exchange

VARIABLES impl,    \* the provider the Reader was constructed with
          due,     \* no time is left of the timeout
          unheard  \* history: commands with a failure nobody is told of

own == <<impl, due, unheard>>

-----------------------------------------------------------------------------
(* class Timeout. *)

(* time_left() becomes 0, unnoticed. *)
TimeRunsOut ==
    /\ timer # None /\ ~due
    /\ due' = TRUE
    /\ expired' = expired \cup {timer}
    /\ UNCHANGED <<client, protocol, asio, line, stale, faulted, impl, unheard>>

(* Variant: only that a time was set is looked at. *)
AnyTime == timer # None

(* active and no time left *)
TimedOut == timer # None /\ due

(* Variant: the end of the write starts no timeout. *)
NotStarted(c) == timer' = timer /\ due' = due

(* set *)
Start(c) == timer' = c /\ due' = FALSE

(* Variant: an answer leaves the timeout active. *)
AnswerKeepsTimer(s, a) ==
    /\ slots' = slots \ {s}
    /\ answer' = [answer EXCEPT ![s] = IF @ = Unset THEN a ELSE @]
    /\ UNCHANGED <<timer, due>>

(* SubwayProtocol::set_answer, whose cancel_timeout is Timeout::cancel. *)
SetAnswerAndCancel(s, a) == SetAnswer(s, a) /\ due' = FALSE

(* check() when the time has run out: callback(), then active = false.     *)
(* Nothing sets the timeout in between: the callback that does, the one of *)
(* a write, is called by this same thread.                                 *)
check ==
    /\ TimedOut
    /\ \E s \in Storage(timer) : SetAnswerAndCancel(s, TimeoutAnswer)
    /\ stale' = (stale \/ timer \notin Live)

-----------------------------------------------------------------------------
(* The protocol's listener. *)

Fed(chunk) ==
    [c \in Command |-> IF c \in slots THEN Unbytestaff(filter[c], chunk) ELSE filter[c]]

Found(chunk) == {c \in slots : Complete(Fed(chunk)[c])}

(* data_received: feed of every protocol that is connected. *)
data_received(chunk) ==
    /\ filter' = Fed(chunk)
    /\ \/ Found(chunk) = {} /\ UNCHANGED <<slots, answer, timer, due>>
       \/ \E c \in Found(chunk) : SetAnswerAndCancel(c, Verdict(Fed(chunk)[c]))
    /\ stale' = (stale \/ ~(slots \subseteq Live))

-----------------------------------------------------------------------------
(* The client thread, up to the provider's send. *)

Quiet == UNCHANGED <<impl, due, unheard>>

BeforeSend == (Construct \/ SendFails) /\ Quiet

AfterSend == (GetAnswer \/ Destroy) /\ Quiet

DeviceAnswers == Respond /\ Quiet

=============================================================================
