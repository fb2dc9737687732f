------------------------------- MODULE OneLog -------------------------------
(***************************************************************************)
(* What the log viewer promises, with no controllers, fetches, connections *)
(* or handlers: a click asks for one stream, which is opened once and is   *)
(* over once.  The viewer shows text of the stream it asked for last, once *)
(* that was opened, and reports one end of it: done, only when the log is  *)
(* over, an error, or that the user stopped it.  After that nothing        *)
(* changes until the next click.                                           *)
(***************************************************************************)
CONSTANTS Streams, NoStream

VARIABLES
    shown,  \* the stream the viewer speaks of, what it says, whose text it has
    stage   \* how far each stream has come upstream

logVars == <<shown, stage>>

Blank == [of |-> NoStream, says |-> "none", text |-> {}]

LogInit == shown = Blank /\ stage = [s \in Streams |-> "new"]

\* The viewer is opened, or asked for another stream.
Begin(s) ==
    /\ stage[s] = "new"
    /\ stage' = [stage EXCEPT ![s] = "asked"]
    /\ shown' = [of |-> s, says |-> "streaming", text |-> {}]

Open(s) ==
    /\ stage[s] = "asked"
    /\ stage' = [stage EXCEPT ![s] = "open"]
    /\ UNCHANGED shown

\* A stream that was never opened may be over too: the call upstream failed.
Over(s) ==
    /\ stage[s] \in {"asked", "open"}
    /\ stage' = [stage EXCEPT ![s] = "over"]
    /\ UNCHANGED shown

ShowText ==
    /\ shown.says = "streaming"
    /\ stage[shown.of] \in {"open", "over"}
    /\ shown' = [shown EXCEPT !.text = {shown.of}]
    /\ UNCHANGED stage

Report(end) ==
    /\ shown.says = "streaming"
    /\ end = "done" => stage[shown.of] = "over"
    /\ shown' = [shown EXCEPT !.says = end]
    /\ UNCHANGED stage

Close == shown' = Blank /\ UNCHANGED stage

LogNext ==
    \/ \E s \in Streams : Begin(s) \/ Open(s) \/ Over(s)
    \/ ShowText
    \/ \E end \in {"done", "error", "stopped"} : Report(end)
    \/ Close

LogSpec == LogInit /\ [][LogNext]_logVars
===========================================================================
