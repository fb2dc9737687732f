---------------------------- MODULE LoginLedger ----------------------------
(***************************************************************************)
(* What logging in promises, with no browsers, cookies, replicas or store  *)
(* calls: a login is open once, is redeemed at most once, and by one       *)
(* holder; a redeemed login yields at most one session; an ended session   *)
(* stays ended.  docs/spec/04 ("one-use state", "bounded login-transaction *)
(* lifetime", "logout invalidates server state").                          *)
(***************************************************************************)
CONSTANTS Logins, Sessions, NoLogin

VARIABLES
    login,    \* where each login transaction is in its life
    session,  \* where each session is in its life
    source    \* the login each session came from

ledgerVars == <<login, session, source>>

LedgerInit ==
    /\ login = [t \in Logins |-> "fresh"]
    /\ session = [s \in Sessions |-> "none"]
    /\ source = [s \in Sessions |-> NoLogin]

\* A login starts, or is used up by a write that fails.
Start(t) ==
    /\ login[t] = "fresh"
    /\ login' \in {[login EXCEPT ![t] = p] : p \in {"open", "closed"}}
    /\ UNCHANGED <<session, source>>

\* One callback takes the login out of the store.
Redeem(t) ==
    /\ login[t] = "open"
    /\ login' = [login EXCEPT ![t] = "held"]
    /\ UNCHANGED <<session, source>>

\* Its holder turns it into a session, once.
OpenSession(t, s) ==
    /\ login[t] = "held" /\ session[s] = "none"
    /\ login' = [login EXCEPT ![t] = "closed"]
    /\ session' = [session EXCEPT ![s] = "valid"]
    /\ source' = [source EXCEPT ![s] = t]

\* Logins are abandoned or expire, sessions are logged out or expire.
End(T, S) ==
    /\ \A t \in T : login[t] \in {"open", "held"}
    /\ \A s \in S : session[s] = "valid"
    /\ login' = [t \in Logins |-> IF t \in T THEN "closed" ELSE login[t]]
    /\ session' = [s \in Sessions |-> IF s \in S THEN "ended" ELSE session[s]]
    /\ UNCHANGED source

LedgerNext ==
    \/ \E t \in Logins : Start(t) \/ Redeem(t)
    \/ \E t \in Logins, s \in Sessions : OpenSession(t, s)
    \/ \E T \in SUBSET Logins, S \in SUBSET Sessions : End(T, S)

LedgerSpec == LedgerInit /\ [][LedgerNext]_ledgerVars
===========================================================================
