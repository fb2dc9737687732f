------------------------------ MODULE OneView ------------------------------
(***************************************************************************)
(* What the views promise, with no components, effects, fetches or         *)
(* requests for the session's status: whoever turns to a screen sees that  *)
(* it is being asked about, then one outcome of that question, and nothing *)
(* else until they turn away or the page is left.                          *)
(***************************************************************************)
CONSTANTS Screens, Start, Quiet, Outcomes

VARIABLES
    screen,  \* where the user is
    view     \* what they see there, and which screen it is about

viewVars == <<screen, view>>

Blank == [state |-> "none", about |-> Start]

ViewInit == screen = Start /\ view = Blank

\* The question of a screen is asked when the user turns to it, and not again.
Turn(s) ==
    /\ s # screen \/ view = Blank
    /\ screen' = s
    /\ view' = IF s \in Quiet THEN Blank ELSE [state |-> "loading", about |-> s]

\* Its one answer.
Learn ==
    /\ view.state = "loading"
    /\ view' \in [state : Outcomes, about : {view.about}]
    /\ UNCHANGED screen

Leave == screen' = Start /\ view' = Blank

ViewNext == (\E s \in Screens : Turn(s)) \/ Learn \/ Leave

ViewSpec == ViewInit /\ [][ViewNext]_viewVars
===========================================================================
