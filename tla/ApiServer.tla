----------------------------- MODULE ApiServer -----------------------------
(***************************************************************************)
(* The protected API of every replica: requireSession, the handlers that   *)
(* call Capsule Proxy once (lists, details, events, namespaces) or twice   *)
(* (the overview), the client they call it with, and a replica's shutdown. *)
(*                                                                         *)
(* A tick is half of the client's timeout or less, and no tick passes      *)
(* while a timer is due.                                                   *)
(***************************************************************************)
EXTENDS Integers

CONSTANTS
    Replicas, Requests,
    Sids,            \* session ids; every session has an ID token of its own
    NoSid,           \* no cookie, and no token
    None,
    CallTimeout,     \* defaultTimeout of the Capsule client, in ticks
    DrainTimeout,    \* the timeout of server.Shutdown, in ticks
    MaxBody          \* maxResponseBytes, in units of data

ASSUME ApiAssumption ==
    /\ CallTimeout \in Nat \ {0} /\ DrainTimeout \in Nat \ {0} /\ MaxBody \in Nat
    /\ NoSid \notin Sids /\ None \notin Replicas

\* 10 s and 15 s.
ASSUME DrainAssumption == CallTimeout < DrainTimeout

VARIABLES
    store,    \* the session store, as a lookup sees it
    gone,     \* ticks since each session ended (bound: no more than AllGone)
    replica,  \* what each replica does with requests
    drain,    \* ticks since each replica was told to stop, while it drains
    req       \* the requests in flight

vars == <<store, gone, replica, drain, req>>

AllGone == 2 * CallTimeout + 1

\* What came of a call upstream; "other" stands for every other status, a
\* failed connection, a timeout, a body that is too long or no list.
Said == {"ok", "unauthorized", "forbidden", "other"}

Replies == {"none", "ok", "unauthorized", "forbidden", "badRequest", "badGateway"}

Calling == {"call", "body"}

\* "resource" stands for the lists, the details and the events.
Routes == {"namespaces", "resource", "overview"}

\* How many calls upstream the handler of a route makes.
Calls(route) == IF route = "overview" THEN 2 ELSE 1

\* nth: the call the handler is at; age and got: the ticks it has taken and the
\* data read of its body; early: history, the call that the handler was at when
\* its replica was told to stop.
RequestRecord ==
    [pc : {"idle", "lookup", "call", "body", "respond"}, replica : Replicas \cup {None},
     route : Routes, sid : Sids \cup {NoSid}, token : Sids \cup {NoSid}, nth : 0..2,
     age : 0..CallTimeout, got : 0..(MaxBody + 1),
     said : [1..2 -> Said \cup {"none"}], reply : Replies, early : 0..2]

Request == {q \in RequestRecord :
    /\ q.pc = "lookup" => q.sid \in Sids /\ q.nth = 0
    /\ q.pc \in Calling => q.sid \in Sids /\ q.nth \in 1..Calls(q.route)}

Idle == [pc |-> "idle", replica |-> None, sid |-> NoSid, token |-> NoSid,
         route |-> "namespaces", nth |-> 0, age |-> 0, got |-> 0,
         said |-> [i \in 1..2 |-> "none"], reply |-> "none", early |-> 0]

TypeOK ==
    /\ store \in [Sids -> {"fresh", "live", "ended"}]
    /\ gone \in [Sids -> 0..AllGone]
    /\ replica \in [Replicas -> {"serving", "draining", "stopped"}]
    /\ drain \in [Replicas -> 0..DrainTimeout]
    /\ req \in [Requests -> Request]

Init ==
    /\ store = [s \in Sids |-> "fresh"]
    /\ gone = [s \in Sids |-> 0]
    /\ replica = [p \in Replicas |-> "serving"]
    /\ drain = [p \in Replicas |-> 0]
    /\ req = [r \in Requests |-> Idle]

----------------------------------------------------------------------------
(* Sessions come from the callback handler, and end by logout or by time   *)

LogIn(s) ==
    /\ store[s] = "fresh"
    /\ store' = [store EXCEPT ![s] = "live"]
    /\ UNCHANGED <<gone, replica, drain, req>>

\* Time may end several at once.
SessionsEnd(S) ==
    /\ \A s \in S : store[s] = "live"
    /\ store' = [s \in Sids |-> IF s \in S THEN "ended" ELSE store[s]]
    /\ UNCHANGED <<gone, replica, drain, req>>

----------------------------------------------------------------------------
(* requireSession                                                          *)

Respond(q, what) ==
    [q EXCEPT !.pc = "respond", !.reply = what, !.age = 0, !.got = 0]

\* A request for any route, with the session cookie s or with none.
ArriveWith(r, p, s) ==
    /\ req[r].pc = "idle" /\ replica[p] = "serving"
    /\ \E route \in Routes :
         LET q == [Idle EXCEPT !.replica = p, !.route = route, !.sid = s] IN
         req' = [req EXCEPT ![r] = IF s = NoSid THEN Respond(q, "unauthorized")
                                   ELSE [q EXCEPT !.pc = "lookup"]]
    /\ UNCHANGED <<store, gone, replica, drain>>

\* A browser has only a cookie that it was given.
Arrive(r, p) ==
    \E s \in {s \in Sids : store[s] # "fresh"} \cup {NoSid} : ArriveWith(r, p, s)

\* What GetSession may say: it fails, too, if the store does.
Found(s) == {FALSE} \cup {store[s] = "live"}

StartCall(q) == [q EXCEPT !.pc = "call", !.nth = @ + 1, !.age = 0, !.got = 0]

\* Every failure is the same 401.  Then a name that is none is refused, and the
\* handler has the record in its context.
Admit(q, found) ==
    IF ~found THEN {Respond(q, "unauthorized")}
    ELSE {StartCall([q EXCEPT !.token = q.sid])} \cup
         (IF q.route = "namespaces" THEN {} ELSE {Respond(q, "badRequest")})

LookupSays(r, found) ==
    /\ \E a \in Admit(req[r], found) : req' = [req EXCEPT ![r] = a]
    /\ UNCHANGED <<store, gone, replica, drain>>

\* The way back of the store's answer takes no tick.
Lookup(r) ==
    /\ req[r].pc = "lookup"
    /\ \E found \in Found(req[r].sid) : LookupSays(r, found)

----------------------------------------------------------------------------
(* Client.do, and what a handler makes of it                               *)

\* writeUpstreamError
Status(said) == IF said \in {"unauthorized", "forbidden"} THEN said ELSE "badGateway"

\* Bug: the first call's error is looked at after the second call.
ErrorsLast(q, said) ==
    LET a == [q EXCEPT !.said[q.nth] = said] IN
    IF q.nth < Calls(q.route) THEN {StartCall(a)}
    ELSE IF said # "ok" THEN {Respond(a, Status(said))}
    ELSE {Respond(a, "ok"), Respond(a, "badGateway")}

\* What the handler does next when a call comes back.  An error ends it; after
\* the last call an item may turn out not to have the expected shape.
Returned(q, said) ==
    LET a == [q EXCEPT !.said[q.nth] = said] IN
    IF said # "ok" THEN {Respond(a, Status(said))}
    ELSE IF q.nth < Calls(q.route) THEN {StartCall(a)}
    ELSE {Respond(a, "ok"), Respond(a, "badGateway")}

\* The status line.
Answer(r) ==
    /\ req[r].pc = "call"
    /\ \E a \in {[req[r] EXCEPT !.pc = "body"]} \cup
               UNION {Returned(req[r], said) : said \in Said \ {"ok"}} :
         req' = [req EXCEPT ![r] = a]
    /\ UNCHANGED <<store, gone, replica, drain>>

\* Bug: the body is read to its end.
NoLimit(q) == q.got

\* LimitReader stops one unit after the limit.
Allowed(q) == MaxBody - q.got

Chunk(r) ==
    /\ req[r].pc = "body" /\ Allowed(req[r]) >= 0
    /\ req' = [req EXCEPT ![r].got = @ + 1]
    /\ UNCHANGED <<store, gone, replica, drain>>

\* The end of the body, of the connection, or of what the limit allows.
BodyEnds(r) ==
    LET q == req[r] IN
    /\ q.pc = "body"
    /\ \E said \in {"ok", "other"} :
         /\ Allowed(q) < 0 => said = "other"
         /\ \E a \in Returned(q, said) : req' = [req EXCEPT ![r] = a]
    /\ UNCHANGED <<store, gone, replica, drain>>

\* Bug: a client without a timeout.
Never(q) == FALSE

Due(q) == q.pc \in Calling /\ q.age >= CallTimeout

TimeOut(r) ==
    /\ Due(req[r])
    /\ \E a \in Returned(req[r], "other") : req' = [req EXCEPT ![r] = a]
    /\ UNCHANGED <<store, gone, replica, drain>>

\* The browser has read the answer.
Deliver(r) ==
    /\ req[r].pc = "respond"
    /\ req' = [req EXCEPT ![r] = Idle]
    /\ UNCHANGED <<store, gone, replica, drain>>

\* The browser goes away: the request's context is cancelled, and with it the
\* call upstream.
Leave(r) ==
    /\ req[r].pc # "idle"
    /\ req' = [req EXCEPT ![r] = Idle]
    /\ UNCHANGED <<store, gone, replica, drain>>

----------------------------------------------------------------------------
(* Shutdown                                                                *)

Serves(p) == {r \in Requests : req[r].pc # "idle" /\ req[r].replica = p}

\* SIGTERM: the listener is closed.
Terminate(p) ==
    /\ replica[p] = "serving"
    /\ replica' = [replica EXCEPT ![p] = "draining"]
    /\ req' = [r \in Requests |->
                 IF r \in Serves(p) /\ req[r].pc \in Calling
                 THEN [req[r] EXCEPT !.early = req[r].nth] ELSE req[r]]
    /\ UNCHANGED <<store, gone, drain>>

\* Bug: Close instead of Shutdown.
AtOnce(p) == TRUE

\* Bug: Shutdown is given a context without a deadline.
OnlyWhenDrained(p) == Serves(p) = {}

MayStop(p) == Serves(p) = {} \/ drain[p] >= DrainTimeout

\* The process exits, with whatever it still serves.
Stop(p) ==
    /\ replica[p] = "draining" /\ MayStop(p)
    /\ replica' = [replica EXCEPT ![p] = "stopped"]
    /\ drain' = [drain EXCEPT ![p] = 0]
    /\ req' = [r \in Requests |-> IF r \in Serves(p) THEN Idle ELSE req[r]]
    /\ UNCHANGED <<store, gone>>

\* The next pod in its place.
Start(p) ==
    /\ replica[p] = "stopped"
    /\ replica' = [replica EXCEPT ![p] = "serving"]
    /\ UNCHANGED <<store, gone, drain, req>>

Tick ==
    /\ \A r \in Requests : ~Due(req[r])
    /\ \A p \in Replicas : replica[p] = "draining" => ~MayStop(p)
    /\ gone' = [s \in Sids |-> IF store[s] = "ended" /\ gone[s] < AllGone
                               THEN gone[s] + 1 ELSE gone[s]]
    /\ drain' = [p \in Replicas |-> IF replica[p] = "draining" /\ drain[p] < DrainTimeout
                                    THEN drain[p] + 1 ELSE drain[p]]
    /\ req' = [r \in Requests |-> IF req[r].pc \in Calling /\ req[r].age < CallTimeout
                                  THEN [req[r] EXCEPT !.age = @ + 1] ELSE req[r]]
    /\ UNCHANGED <<store, replica>>

----------------------------------------------------------------------------

Server(r) == Lookup(r) \/ TimeOut(r)

World(r) == Answer(r) \/ Chunk(r) \/ BodyEnds(r) \/ Deliver(r) \/ Leave(r)

Next ==
    \/ \E s \in Sids : LogIn(s)
    \/ \E S \in SUBSET Sids : SessionsEnd(S)
    \/ \E r \in Requests : Server(r) \/ World(r) \/ \E p \in Replicas : Arrive(r, p)
    \/ \E p \in Replicas : Terminate(p) \/ Stop(p) \/ Start(p)
    \/ Tick

Spec == Init /\ [][Next]_vars

\* Lookups come back, timers fire, a process that may exit does, and time
\* passes.  The proxy may be silent and the browser may not read.
Fairness ==
    /\ \A r \in Requests : WF_vars(Server(r))
    /\ \A p \in Replicas : WF_vars(Stop(p))
    /\ WF_vars(Tick)

FairSpec == Spec /\ Fairness
===========================================================================
