----------------------------- MODULE ReaderLife -----------------------------
(***************************************************************************)
(* A Reader from reader_open to reader_close: the provider that its tag    *)
(* names is constructed, over tcp by way of TcpConnector, and the calls of *)
(* the library are made on it.  Over a file they are those of VirtualCard, *)
(* over tcp those to a terminal, a single command each.                    *)
(***************************************************************************)
EXTENDS TcpConnector, ReaderApi

VARIABLES tag,    \* names the provider: "line" (any that has a port), "tcp",
                  \* "file", "unknown"
          reader  \* "none", "opening", "open", "failed", "closed", "crashed"

lvars == <<vars, api, device, line, tag, reader>>

Tag == {"line", "tcp", "file", "unknown"}

-----------------------------------------------------------------------------
(* reader_open. *)

(* The constructor of a provider throws a system_error or an int, both are *)
(* caught; get_impl answers an unknown tag with no provider at all.        *)
reader_open ==
    /\ reader = "none"
    /\ reader' \in CASE tag = "line" -> {"open", "failed"}
                     [] tag = "tcp" -> {"opening", "failed"}
                     [] OTHER -> {"open"}
    /\ UNCHANGED <<vars, api, device, line, tag>>

(* TcpImpl::TcpImpl, in the caller's thread.                               *)
Connects ==
    /\ reader = "opening"
    /\ async_resolve \/ async_wait
    /\ UNCHANGED <<api, device, line, tag, reader>>

(* A constructor that throws destroys io_svc under the thread that runs    *)
(* it: it may go by unnoticed, or not.                                     *)
Opens ==
    /\ reader = "opening"
    /\ Return
    /\ reader' \in IF promise = "ok" THEN {"open"} ELSE {"failed", "crashed"}
    /\ UNCHANGED <<api, device, line, tag>>

io_service_thread ==
    /\ reader \in {"opening", "open"}
    /\ IoThread
    /\ UNCHANGED <<api, device, line, tag, reader>>

Network ==
    /\ reader \in {"opening", "open"}
    /\ ConnectDone \/ ResolveDone \/ TimerExpires
    /\ UNCHANGED <<api, device, line, tag, reader>>

-----------------------------------------------------------------------------
(* The calls. *)

OverLine ==
    /\ reader = "open" /\ tag = "line"
    /\ Calls \/ Proceeds
    /\ UNCHANGED <<vars, tag, reader>>

(* The protocol is constructed on the missing provider, before             *)
(* send_command looks at it.                                               *)
WithoutProvider ==
    /\ reader = "open" /\ tag = "unknown"
    /\ Idle /\ calls < MaxCalls
    /\ reader' = "crashed"
    /\ UNCHANGED <<vars, api, device, line, tag>>

(* Reader::load, and Reader::save without a card: neither sends a command. *)
LoadResult == CASE tag = "unknown" -> {"NO_IMPL"}
                [] tag = "file" -> {"OK", "FAIL"}
                [] OTHER -> {"NO_IMPL_SUPPORT"}

Returns(call, value) ==
    /\ reader = "open"
    /\ NoCommand(call, value)
    /\ UNCHANGED <<vars, tag, reader>>

reader_load == \E value \in LoadResult : Returns("load", value)

reader_save ==
    /\ tag \in {"unknown", "file"}
    /\ \E value \in LoadResult : Returns("save", value)

(* What a terminal's answer comes to. *)
TerminalResult == {"OK", "NACK", "LEN", "ERROR"}

(* Writing to a socket that was closed fails at once. *)
WriteResult == IF peer = None THEN {"IO_ERROR"} ELSE TerminalResult

terminal_call == tag = "tcp" /\ \E value \in WriteResult : Returns("single", value)

reader_close ==
    /\ reader = "open" /\ Idle
    /\ reader' = "closed"
    /\ UNCHANGED <<vars, api, device, line, tag>>

-----------------------------------------------------------------------------
LifeInit ==
    /\ Init /\ ApiInit
    /\ reader = "none"
    /\ tag \in Tag
    /\ tag # "tcp" => endpoints = 0   \* what only tcp has

LifeNext ==
    \/ reader_open \/ Connects \/ Opens \/ io_service_thread \/ Network
    \/ OverLine \/ WithoutProvider \/ reader_load \/ reader_save \/ terminal_call
    \/ reader_close
    \/ tag = "line" /\ reader = "open" /\ CardMoves /\ UNCHANGED <<vars, tag, reader>>

LifeSpec == LifeInit /\ [][LifeNext]_lvars

(* The caller's thread, within a call, and the io thread run, the resolver *)
(* and the network answer; a command ends, as EveryCommandReturns has it.  *)
CallerThread ==
    \/ Connects \/ Opens
    \/ reader = "open" /\ tag = "line" /\ Proceeds /\ UNCHANGED <<vars, tag, reader>>

Answered ==
    /\ reader = "opening"
    /\ ConnectDone \/ ResolveDone
    /\ UNCHANGED <<api, device, line, tag, reader>>

LifeFairness == WF_lvars(CallerThread) /\ WF_lvars(io_service_thread) /\ WF_lvars(Answered)

FairLifeSpec == LifeSpec /\ LifeFairness

-----------------------------------------------------------------------------
(* Properties, with those of TcpConnector and ReaderApi. *)

(* reader_open and every call after it return or end the process, whatever *)
(* the endpoints answer, however often a sector refuses its key.           *)
EveryCallReturns ==
    (reader = "opening" \/ ~Idle) ~> (reader \in {"open", "failed", "crashed"} /\ Idle)

=============================================================================
