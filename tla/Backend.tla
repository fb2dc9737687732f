------------------------------ MODULE Backend ------------------------------
(***************************************************************************)
(* The login handlers and the protected API together, over one session     *)
(* store: what a lookup of ApiServer finds is what the handlers of         *)
(* AuthFlow have left there, and the cookie it looks up is the one that    *)
(* their replies have set.                                                 *)
(*                                                                         *)
(* The clock of the store's deadlines and that of the calls' timeouts are  *)
(* not related, and neither are a rotation of the key and the restart that *)
(* brings it: every order of them is a behaviour.                          *)
(***************************************************************************)
EXTENDS AuthRefinement

CONSTANTS
    ApiRequests,  \* slots for the protected requests in flight
    None,
    CallTimeout, DrainTimeout, MaxBody

\* ApiServer's assumptions.
ApiConstants ==
    /\ CallTimeout \in Nat \ {0} /\ DrainTimeout \in Nat \ {0} /\ MaxBody \in Nat
    /\ None \notin Replicas /\ CallTimeout < DrainTimeout

VARIABLES
    gone, replica, drain,  \* as in ApiServer
    call,                  \* the protected requests in flight
    from                   \* history: the browser that sent each of them

apiVars == <<gone, replica, drain, call, from>>
backVars == <<vars, apiVars>>

\* The session store, as a lookup of the API sees it.
Store == [s \in Sids |-> IF SessionPhase(s) = "valid" THEN "live"
                         ELSE IF SessionPhase(s) = "ended" THEN "ended"
                         ELSE "fresh"]

Api == INSTANCE ApiServer WITH Requests <- ApiRequests, store <- Store, req <- call

BackInit ==
    /\ Init
    /\ gone = [s \in Sids |-> 0]
    /\ replica = [p \in Replicas |-> "serving"]
    /\ drain = [p \in Replicas |-> 0]
    /\ call = [a \in ApiRequests |-> Api!Idle]
    /\ from = [a \in ApiRequests |-> NoBrowser]

\* requireSession reads the cookie of the browser that sends the request.
Protected(a, b, p) ==
    /\ UNCHANGED vars
    /\ Api!ArriveWith(a, p, sessionCookie[b])
    /\ from' = [from EXCEPT ![a] = b]

\* And looks it up, with the key that the pod was started with: the newest of
\* its replica, or an older one if the pod is about to be replaced.
ProtectedLookup(a) ==
    /\ UNCHANGED <<vars, from>>
    /\ call[a].pc = "lookup"
    /\ \E k \in 0..keyOf[call[a].replica] : \E found \in GetSession(call[a].sid, k) :
         Api!LookupSays(a, found # {})

\* What comes after, and a replica's shutdown, needs no session any more.
ApiSteps ==
    /\ UNCHANGED <<vars, from>>
    /\ \/ \E a \in ApiRequests : Api!TimeOut(a) \/ Api!World(a)
       \/ \E p \in Replicas : Api!Terminate(p) \/ Api!Stop(p) \/ Api!Start(p)
       \/ Api!Tick

BackNext ==
    \/ Next /\ UNCHANGED apiVars
    \/ \E a \in ApiRequests, b \in Browsers, p \in Replicas : Protected(a, b, p)
    \/ \E a \in ApiRequests : ProtectedLookup(a)
    \/ ApiSteps

BackSpec == BackInit /\ [][BackNext]_backVars

----------------------------------------------------------------------------

\* From the browser to the cluster (middleware.go, requireSession; client.go, do;
\* oidc.go, the state cookie and the nonce): a call upstream carries the token of
\* a session that was made for the very browser that sent the request, from a
\* login this browser had started, with a token issued for that login; and the
\* session is in the store, or left it no longer ago than the calls may take.
TokensOwned ==
    \A a \in ApiRequests : LET q == call[a] IN
        q.pc \in Api!Calling =>
            \E m \in made :
                /\ m.sid = q.token /\ m.browser = from[a]
                /\ starter[m.state] = from[a] /\ codes[m.code].txn = m.state
                /\ \A e \in sessions : e.id = m.sid => e.token = m.code
                /\ m.sid \in Ids(sessions) \/ gone[m.sid] <= q.nth * CallTimeout
===========================================================================
