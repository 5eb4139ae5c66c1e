--------------------------- MODULE CommandService ---------------------------
(***************************************************************************)
(* What Reader::send_command promises its caller whatever provider is      *)
(* below: one command at a time; a command is answered at most once, with  *)
(* an error or with a reply the device made to it or to an earlier command *)
(* that was really sent; what it returns is what it was answered.          *)
(***************************************************************************)
EXTENDS Integers

CONSTANTS MaxCommands,               \* commands issued at most
          ReplyResult, ErrorResult,  \* results an answer may have
          Reported(_)                \* the value returned for an answer

Command == 1..MaxCommands
None == 0

VARIABLES cmd,       \* the current command, or the last one
          open,      \* it has been issued and has not returned
          refused,   \* commands that were never sent
          answer,    \* the answer of each command
          returned   \* the value each command returned

vars == <<cmd, open, refused, answer, returned>>

Unset == [result |-> "UNSET", of |-> None]

Init ==
    /\ cmd = None
    /\ open = FALSE
    /\ refused = {}
    /\ answer = [c \in Command |-> Unset]
    /\ returned = [c \in Command |-> Unset]

(* The client calls send_command. *)
Issue ==
    /\ ~open
    /\ cmd < MaxCommands
    /\ cmd' = cmd + 1
    /\ open' = TRUE
    /\ UNCHANGED <<refused, answer, returned>>

(* The promise is set, once. *)
Resolve ==
    /\ open
    /\ answer[cmd] = Unset
    /\ \/ \E r \in ReplyResult, c \in (1..cmd) \ refused :
            answer' = [answer EXCEPT ![cmd] = [result |-> r, of |-> c]]
       \/ \E e \in ErrorResult :
            answer' = [answer EXCEPT ![cmd] = [result |-> e, of |-> None]]
    /\ UNCHANGED <<cmd, open, refused, returned>>

(* send_command has a value to return: its answer's. *)
Return ==
    /\ open
    /\ answer[cmd] # Unset
    /\ returned[cmd] = Unset
    /\ returned' = [returned EXCEPT ![cmd] = Reported(answer[cmd])]
    /\ UNCHANGED <<cmd, open, refused, answer>>

(* The data does not fit a packet: nothing is sent. *)
Refuse ==
    /\ open
    /\ returned[cmd] = Unset
    /\ returned' = [returned EXCEPT ![cmd] = [result |-> "TOO_LONG", of |-> None]]
    /\ refused' = refused \cup {cmd}
    /\ UNCHANGED <<cmd, open, answer>>

(* send_command is over; the next command may come. *)
Finish ==
    /\ open
    /\ returned[cmd] # Unset
    /\ open' = FALSE
    /\ UNCHANGED <<cmd, refused, answer, returned>>

Next == Issue \/ Resolve \/ Return \/ Refuse \/ Finish

Spec == Init /\ [][Next]_vars

=============================================================================
