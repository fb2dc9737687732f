------------------------------ MODULE FrontEnd ------------------------------
(***************************************************************************)
(* The single-page application: which view is shown, the component that is *)
(* mounted for it, the fetches of its effect, and what their callbacks set *)
(* when they come back late, in another order or not at all.               *)
(*                                                                         *)
(* "overview" stands for the events as well: both depend on a namespace    *)
(* only.  The log viewer has a module of its own, LogStream.               *)
(***************************************************************************)
EXTENDS Integers, FiniteSets

CONSTANTS
    Namespaces, Kinds,
    Pods,         \* the kind whose rows have logs
    Names,
    None,
    Fetches       \* bound: the fetches that may be under way at a time

ASSUME FrontAssumption ==
    /\ Pods \in Kinds /\ None \notin Namespaces \cup Kinds \cup Names

VARIABLES
    strict,   \* the development build, whose StrictMode runs every effect twice
    page,     \* what App shows
    status,   \* the fetches of /auth/session under way
    leaving,  \* a logout is under way
    screen,   \* App's namespace and Workspace's view
    panel,    \* the state of the component mounted for the screen
    fetches

vars == <<strict, page, status, leaving, screen, panel, fetches>>

Screen(kind, ns, res, name) == [kind |-> kind, ns |-> ns, res |-> res, name |-> name]

Start == Screen("namespaces", None, None, None)

Screens ==
    {Start} \cup {Screen("overview", ns, None, None) : ns \in Namespaces}
    \cup {Screen("list", ns, res, None) : ns \in Namespaces, res \in Kinds}
    \cup {Screen("detail", ns, res, name) : ns \in Namespaces, res \in Kinds, name \in Names}
    \cup {Screen("logs", ns, None, name) : ns \in Namespaces, name \in Names}

Answers == {"ok", "unauthorized", "forbidden", "other", "rejected"}

\* about: what was fetched; why: history, the answer that settled the state.
NoPanel == [state |-> "none", about |-> Start, why |-> "none"]
Loading == [NoPanel EXCEPT !.state = "loading"]

\* mounted: the component that called fetch is; cancelled: the variable of the
\* effect's closure.
NoFetch == [state |-> "none", about |-> Start, mounted |-> FALSE, cancelled |-> FALSE]

TypeOK ==
    /\ strict \in BOOLEAN /\ leaving \in BOOLEAN
    /\ page \in {"loading", "in", "out"}
    /\ status \in 0..2
    /\ screen \in Screens
    /\ panel \in [state : {"none", "loading", "loaded", "forbidden", "unavailable"},
                  about : Screens, why : Answers \cup {"none"}]
    /\ fetches \in [Fetches -> [state : {"none", "pending"}, about : Screens,
                                mounted : BOOLEAN, cancelled : BOOLEAN]]

\* A page load: everything of the document before is gone.
Loads == IF strict THEN 2 ELSE 1

Init ==
    /\ strict \in BOOLEAN /\ page = "loading" /\ status = Loads /\ leaving = FALSE
    /\ screen = Start /\ panel = NoPanel
    /\ fetches = [f \in Fetches |-> NoFetch]

Load ==
    /\ page' = "loading" /\ status' = Loads /\ leaving' = FALSE
    /\ screen' = Start /\ panel' = NoPanel
    /\ fetches' = [f \in Fetches |-> NoFetch]
    /\ UNCHANGED strict

----------------------------------------------------------------------------
(* Components and their effects                                            *)

\* Bug: a list without a key.
NoKey(s) == IF s.kind = "detail" THEN <<s.kind, s.res, s.name>> ELSE <<s.kind>>

\* React keeps the component of a screen whose type and key are the same.
Identity(s) ==
    IF s.kind = "list" THEN <<s.kind, s.res>>
    ELSE IF s.kind = "detail" THEN <<s.kind, s.res, s.name>> ELSE <<s.kind>>

Free == {f \in Fetches : fetches[f].state = "none"}

\* The cleanup of the effect, when its dependencies change.
Cleaned == [f \in Fetches |-> IF fetches[f].mounted THEN [fetches[f] EXCEPT !.cancelled = TRUE]
                                                    ELSE fetches[f]]

Unmounted == [f \in Fetches |-> [Cleaned[f] EXCEPT !.mounted = FALSE]]

Fetch(s, cancelled) == [state |-> "pending", about |-> s, mounted |-> TRUE,
                        cancelled |-> cancelled]

\* Bug: a flag that makes the effect run once, while its first run is cleaned up.
OnlyOnce(fs, s) ==
    {[fs EXCEPT ![f] = Fetch(s, strict)] : f \in Free}

\* The fetches after an effect has run; twice, and once cleaned up, in StrictMode.
Effect(fs, s) ==
    IF ~strict THEN {[fs EXCEPT ![f] = Fetch(s, FALSE)] : f \in Free}
    ELSE {[fs EXCEPT ![p[1]] = Fetch(s, TRUE), ![p[2]] = Fetch(s, FALSE)] :
            p \in {q \in Free \X Free : q[1] # q[2]}}

\* A component is mounted for s.
Mount(s) ==
    /\ screen' = s
    /\ IF s.kind = "logs" THEN panel' = NoPanel /\ fetches' = Unmounted
                          ELSE panel' = Loading /\ fetches' \in Effect(Unmounted, s)

\* The same component with other properties: its state stays.
Update(s) ==
    /\ screen' = s /\ fetches' \in Effect(Cleaned, s)
    /\ UNCHANGED panel

----------------------------------------------------------------------------
(* Clicks                                                                  *)

\* Bug: the log viewer goes back to no kind.
CloseToNone(s) == Screen("list", s.ns, IF s.kind = "logs" THEN None ELSE s.res, None)

CloseTo(s) == Screen("list", s.ns, IF s.kind = "logs" THEN Pods ELSE s.res, None)

\* Where the buttons on a screen lead.
Clicks(s) ==
    IF s.kind = "namespaces"
    THEN IF panel.state = "loaded"
         THEN {Screen("overview", ns, None, None) : ns \in Namespaces} ELSE {}
    ELSE {Start, Screen("overview", s.ns, None, None)}
         \cup {Screen("list", s.ns, res, None) : res \in Kinds}
         \cup (IF s.kind \in {"detail", "logs"} THEN {CloseTo(s)} ELSE {})
         \cup (IF s.kind = "list" /\ panel.state = "loaded"
               THEN {Screen("detail", s.ns, s.res, name) : name \in Names} ELSE {})
         \cup (IF s.kind = "list" /\ panel.state = "loaded" /\ s.res = Pods
               THEN {Screen("logs", s.ns, None, name) : name \in Names} ELSE {})

\* A click on what is shown already renders it again and nothing more.
Click(s) ==
    /\ page = "in" /\ s # screen
    /\ IF Identity(s) = Identity(screen) THEN Update(s) ELSE Mount(s)
    /\ UNCHANGED <<strict, page, status, leaving>>

\* Without the token the button does nothing, but a session has one.
LogOut ==
    /\ page = "in" /\ ~leaving
    /\ leaving' = TRUE
    /\ UNCHANGED <<strict, page, status, screen, panel, fetches>>

\* The user loads the page again, or comes back from the identity provider.
Reload == Load

----------------------------------------------------------------------------
(* Answers                                                                 *)

\* Bug: no catch.
NoCatch(f, answer) ==
    IF answer = "ok"
    THEN [state |-> "loaded", about |-> fetches[f].about, why |-> answer] ELSE panel

\* ApiError, and the catch of every view.
Outcome(f, answer) ==
    [state |-> IF answer = "ok" THEN "loaded"
               ELSE IF answer = "forbidden" THEN "forbidden" ELSE "unavailable",
     about |-> fetches[f].about, why |-> answer]

\* Bug: the callback does not look at cancelled.
SetAnyway(f) == fetches[f].mounted

\* The callback looks at cancelled; React ignores a component that is no more.
Sets(f) == ~fetches[f].cancelled /\ fetches[f].mounted

Settle(f) ==
    /\ fetches[f].state = "pending"
    /\ \E answer \in Answers : panel' = IF Sets(f) THEN Outcome(f, answer) ELSE panel
    /\ fetches' = [fetches EXCEPT ![f] = NoFetch]
    /\ UNCHANGED <<strict, page, status, leaving, screen>>

\* fetchSessionStatus: any answer but a session is no session; a rejected fetch
\* goes nowhere.
StatusAnswered ==
    /\ status > 0
    /\ status' = status - 1
    /\ \/ page' = page /\ UNCHANGED <<screen, panel, fetches>>
       \/ page' = "in" /\ IF page = "in" THEN UNCHANGED <<screen, panel, fetches>>
                                         ELSE Mount(Start)
       \/ page' = "out" /\ screen' = Start /\ panel' = NoPanel /\ fetches' = Unmounted
    /\ UNCHANGED <<strict, leaving>>

\* A logout that is refused, or fails, throws into the console.
LogoutAnswered ==
    /\ leaving
    /\ \/ Load
       \/ leaving' = FALSE /\ UNCHANGED <<strict, page, status, screen, panel, fetches>>

----------------------------------------------------------------------------

Answered == StatusAnswered \/ LogoutAnswered \/ \E f \in Fetches : Settle(f)

Next ==
    \/ \E s \in Clicks(screen) : Click(s)
    \/ LogOut
    \/ Reload
    \/ Answered

Spec == Init /\ [][Next]_vars

\* The server answers every request (ApiServer), or the browser gives it up.
Fairness == WF_vars(StatusAnswered) /\ \A f \in Fetches : WF_vars(Settle(f))

FairSpec == Spec /\ Fairness
===========================================================================
