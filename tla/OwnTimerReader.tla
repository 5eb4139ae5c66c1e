--------------------------- MODULE OwnTimerReader ---------------------------
(***************************************************************************)
(* A Reader over either provider with a timeout of its own, chosen when it *)
(* is constructed, and what its caller may rely on.                        *)
(***************************************************************************)
EXTENDS Blockwise, Cp210x

rvars == <<vars, own, sent>>

ReaderInit ==
    /\ Init
    /\ impl \in {"blockwise", "cp210x"}
    /\ due = FALSE
    /\ unheard = {}
    /\ sent = <<>>

ReaderNext == BlockwiseNext \/ (Cp210xNext /\ sent' = sent)

Spec == ReaderInit /\ [][ReaderNext]_rvars

(* The serving threads run; a write ends, well or badly; a receive of the  *)
(* USB library ends, at least by its own time limit; time passes.          *)
Fairness ==
    /\ WF_rvars(impl = "blockwise" /\ iocp_thread)
    /\ WF_rvars(impl = "cp210x" /\ (data_sent \/ recv_handler) /\ sent' = sent)
    /\ WF_rvars(impl = "blockwise" /\ WriteCompletes)
    /\ WF_rvars(TimeRunsOut /\ sent' = sent)
    /\ WF_rvars(GetAnswer /\ Quiet /\ sent' = sent)

FairSpec == Spec /\ Fairness

-----------------------------------------------------------------------------
(* Properties. *)

(* A dead protocol is used only by the completion port thread, and only    *)
(* after a timeout: a read that outlived it may answer the next command    *)
(* before the completion of that command's own write is served.            *)
StaleNeedsTimeout == stale => impl = "blockwise" /\ expired # {}

(* data_sent is one signal for all writes: the listener of a write that is *)
(* still under way has not been called for another one, unless an earlier  *)
(* command timed out.                                                      *)
OwnWriteOnly ==
    impl = "blockwise" =>
        \A i \in 1..Len(writes) :
            \/ \E k \in 1..Len(sent) : sent[k] = writes[i]
            \/ \E e \in expired : e < writes[i]

(* There is one read_over and one read_buf: two reads are in flight only   *)
(* after a timeout, when the read of the command that timed out completed  *)
(* before CancelIo and was begun again for the next one.                   *)
ReadsNeedTimeout == ReadsInFlight > 1 => expired # {}

(* Nothing of a cp210x command outlives its answer: neither a receive, nor *)
(* its timeout, nor its write, although nothing is ever cancelled.         *)
Cp210xQuiet ==
    impl = "cp210x" /\ (pc # "waiting" \/ answer[cmd] # Unset) =>
        reads = 0 /\ timer = None /\ writes = <<>>

(* An active timeout is that of the command which waits and has no answer  *)
(* yet: check() never reports a command that has its packet.  An earlier   *)
(* command's timeout excepted, as above.                                   *)
TimeoutOfTheWaiting ==
    timer # None =>
        \/ timer \in Live /\ answer[timer] = Unset
        \/ impl = "blockwise" /\ \E e \in expired : e < timer

(* The time being looked at only between completions, a command that waits *)
(* returns all the same, unless what failed is reported to nobody: a write *)
(* that completes in error on the port, a receive the USB library refuses. *)
ReturnsUnlessUnheard ==
    []~stale => \A c \in Command :
        (pc = "waiting" /\ cmd = c) ~> (returned[c] # Unset \/ c \in unheard)

=============================================================================
