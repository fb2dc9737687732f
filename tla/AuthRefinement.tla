-------------------------- MODULE AuthRefinement --------------------------
(***************************************************************************)
(* AuthFlow implements LoginLedger.  A login is open while its record is   *)
(* in the store and held while one callback carries it to CreateSession.   *)
(***************************************************************************)
EXTENDS AuthSafety

LoginPhase(t) ==
    IF starter[t] = NoBrowser THEN "fresh"
    ELSE IF t \in Ids(logins) THEN "open"
    ELSE IF \E r \in Requests : req[r].pc \in Holding /\ req[r].state = t THEN "held"
    ELSE "closed"

SessionPhase(s) ==
    IF s \in Ids(sessions) THEN "valid"
    ELSE IF s \in {m.sid : m \in made} THEN "ended"
    ELSE "none"

SessionSource(s) ==
    IF s \in {m.sid : m \in made} THEN (CHOOSE m \in made : m.sid = s).state ELSE NoState

Ledger == INSTANCE LoginLedger WITH
    Logins <- States, Sessions <- Sids, NoLogin <- NoState,
    login <- [t \in States |-> LoginPhase(t)],
    session <- [s \in Sids |-> SessionPhase(s)],
    source <- [s \in Sids |-> SessionSource(s)]

\* Every behaviour of the handlers over the store, with all its concurrent
\* callbacks, failures, lost replies and expiry, is one of the ledger: each
\* login is redeemed once and by one holder, each session opened once.
ImplementsLedger == Ledger!LedgerSpec
===========================================================================
