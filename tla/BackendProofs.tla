--------------------------- MODULE BackendProofs ---------------------------
(***************************************************************************)
(* The login handlers and the protected API over one store: the product    *)
(* runs both, so that every theorem about either holds of it, and a        *)
(* protected request never gets past the session of its own browser.       *)
(***************************************************************************)
EXTENDS AuthBindingProofs, Backend

P == INSTANCE ApiProofs WITH Requests <- ApiRequests, store <- Store, req <- call

\* The record of a session holds the token that its login got.
Sealed == \A e \in sessions : \E m \in made : m.sid = e.id /\ m.code = e.token

\* What a protected request asks for, or calls with, was made for its browser.
OfItsBrowser ==
    \A a \in ApiRequests :
        call[a].pc \in {"lookup"} \cup P!Calling => MadeFor(call[a].sid, from[a])

BackInv ==
    /\ LedgerInv /\ Sealed
    /\ P!Inv
    /\ from \in [ApiRequests -> Browsers \cup {NoBrowser}]
    /\ OfItsBrowser

----------------------------------------------------------------------------
(* The two names of ApiServer                                              *)

LEMMA Constants == ApiConstants => P!ApiAssumption /\ P!DrainAssumption
  BY NoneAssumption DEF ApiConstants, P!ApiAssumption, P!DrainAssumption

LEMMA SameInit == Api!Init <=> P!Init
  BY DEF Api!Init, Api!Idle, P!Init, P!Idle

LEMMA SameNext == Api!Next <=> P!Next
  BY DEF Api!Next, Api!LogIn, Api!SessionsEnd, Api!Server, Api!World, Api!Arrive,
         Api!ArriveWith, Api!Lookup, Api!LookupSays, Api!Found, Api!Admit, Api!StartCall,
         Api!Respond, Api!Idle, Api!Answer, Api!Chunk, Api!BodyEnds, Api!TimeOut,
         Api!Deliver, Api!Leave, Api!Terminate, Api!Stop, Api!Start, Api!Tick,
         Api!Returned, Api!Status, Api!Calls, Api!Allowed, Api!Due, Api!Calling,
         Api!Serves, Api!MayStop, Api!Routes, Api!Said, Api!AllGone,
         P!Next, P!LogIn, P!SessionsEnd, P!Server, P!World, P!Arrive,
         P!ArriveWith, P!Lookup, P!LookupSays, P!Found, P!Admit, P!StartCall,
         P!Respond, P!Idle, P!Answer, P!Chunk, P!BodyEnds, P!TimeOut,
         P!Deliver, P!Leave, P!Terminate, P!Stop, P!Start, P!Tick,
         P!Returned, P!Status, P!Calls, P!Allowed, P!Due, P!Calling,
         P!Serves, P!MayStop, P!Routes, P!Said, P!AllGone

----------------------------------------------------------------------------
(* Every step of the product is one of ApiServer's                         *)

\* What a lookup finds, by what is in the store.
LEMMA StoreSays ==
    ASSUME NEW s \in Sids
    PROVE  /\ Store[s] = "live" <=> s \in Ids(sessions)
           /\ Store[s] = "fresh" <=> s \notin Ids(sessions) /\ s \notin MadeSids
  BY SessionPhases DEF Store

\* The login handlers' steps do to the store what LoginLedger says of them.
LEMMA FlowStep ==
    ASSUME LedgerInv, [Next]_vars, UNCHANGED apiVars
    PROVE  [Api!Next]_(Api!vars)
  <1>1. Ledger!LedgerNext
    BY LedgerStep
  <1>2. UNCHANGED <<gone, replica, drain, call>>
    BY DEF apiVars
  <1>3. CASE \A s \in Sids : SessionPhase(s)' = SessionPhase(s)
    <2>1. Store' = Store
      BY <1>3 DEF Store
    <2>2. QED
      BY <1>2, <2>1 DEF Api!vars
  <1>4. ASSUME NEW t \in States, NEW s \in Sids, Ledger!OpenSession(t, s)
        PROVE  Api!Next
    <2>1. /\ SessionPhase(s) = "none" /\ SessionPhase(s)' = "valid"
          /\ \A u \in Sids : u # s => SessionPhase(u)' = SessionPhase(u)
      BY <1>4 DEF Ledger!OpenSession
    <2>2. Store[s] = "fresh" /\ Store' = [Store EXCEPT ![s] = "live"]
      BY <2>1 DEF Store
    <2>3. QED
      BY <1>2, <2>2 DEF Api!Next, Api!LogIn
  <1>5. ASSUME NEW T \in SUBSET States, NEW S \in SUBSET Sids, Ledger!End(T, S)
        PROVE  Api!Next
    <2>1. /\ \A s \in S : SessionPhase(s) = "valid"
          /\ \A s \in Sids : SessionPhase(s)' = IF s \in S THEN "ended" ELSE SessionPhase(s)
      BY <1>5 DEF Ledger!End
    <2>2. /\ \A s \in S : Store[s] = "live"
          /\ Store' = [s \in Sids |-> IF s \in S THEN "ended" ELSE Store[s]]
      BY <2>1 DEF Store
    <2>3. QED
      BY <1>2, <2>2 DEF Api!Next, Api!SessionsEnd
  <1>6. ASSUME NEW t \in States, Ledger!Start(t) \/ Ledger!Redeem(t)
        PROVE  \A s \in Sids : SessionPhase(s)' = SessionPhase(s)
    BY <1>6 DEF Ledger!Start, Ledger!Redeem
  <1>7. QED
    BY <1>1, <1>3, <1>4, <1>5, <1>6 DEF Ledger!LedgerNext

\* A cookie is that of a session that was made.
LEMMA ProtectedStep ==
    ASSUME LedgerInv, NEW a \in ApiRequests, NEW b \in Browsers, NEW p \in Replicas,
           Protected(a, b, p)
    PROVE  Api!Next
  <1> DEFINE s == sessionCookie[b]
  <1>1. s \in Sids \cup {NoSid} /\ (s # NoSid => s \in MadeSids)
    BY DEF LedgerInv, EndInv, TypeOK, Bound, BoundToBrowser, MadeSids
  <1>2. s \in {u \in Sids : Store[u] # "fresh"} \cup {NoSid}
    BY <1>1, StoreSays
  <1>3. Api!ArriveWith(a, p, s)
    BY DEF Protected
  <1> HIDE DEF s
  <1>4. Api!Arrive(a, p)
    BY <1>2, <1>3 DEF Api!Arrive
  <1>5. QED
    BY <1>4 DEF Api!Next

\* A record that a lookup returns is in the store.
LEMMA LookupStep ==
    ASSUME NEW a \in ApiRequests, call[a].sid \in Sids, ProtectedLookup(a)
    PROVE  Api!Next
  <1>1. PICK k \in 0..keyOf[call[a].replica] : \E found \in GetSession(call[a].sid, k) :
          Api!LookupSays(a, found # {})
    BY DEF ProtectedLookup
  <1>2. PICK found \in GetSession(call[a].sid, k) : Api!LookupSays(a, found # {})
    BY <1>1
  <1>3. found # {} => Store[call[a].sid] = "live"
    <2>1. found # {} => call[a].sid \in Ids(sessions)
      BY DEF GetSession, Get, Opened, Find, Ids
    <2>2. QED
      BY <2>1, StoreSays
  <1>4. (found # {}) \in Api!Found(call[a].sid)
    BY <1>3 DEF Api!Found
  <1>5. call[a].pc = "lookup"
    BY DEF ProtectedLookup
  <1>6. Api!Lookup(a)
    BY <1>2, <1>4, <1>5 DEF Api!Lookup
  <1>7. QED
    BY <1>6 DEF Api!Next, Api!Server

LEMMA BackStep ==
    ASSUME BackInv, [BackNext]_backVars
    PROVE  [Api!Next]_(Api!vars)
  <1>1. CASE Next /\ UNCHANGED apiVars
    BY <1>1, FlowStep DEF BackInv
  <1>2. CASE \E a \in ApiRequests, b \in Browsers, p \in Replicas : Protected(a, b, p)
    BY <1>2, ProtectedStep DEF BackInv
  <1>3. ASSUME NEW a \in ApiRequests, ProtectedLookup(a)
        PROVE  Api!Next
    <2>1. call[a].sid \in MadeSids
      BY <1>3 DEF BackInv, OfItsBrowser, ProtectedLookup, MadeFor, MadeSids
    <2>2. call[a].sid \in Sids
      BY <2>1 DEF BackInv, LedgerInv, EndInv, TypeOK, Provenance, MadeSids
    <2>3. QED
      BY <1>3, <2>2, LookupStep
  <1>4. CASE ApiSteps
    BY <1>4 DEF ApiSteps, Api!Next, Api!Server
  <1>5. CASE UNCHANGED backVars
    BY <1>5, FlowStep DEF BackInv, backVars
  <1>6. QED
    BY <1>1, <1>2, <1>3, <1>4, <1>5 DEF BackNext

----------------------------------------------------------------------------
(* The invariant                                                           *)

\* The login handlers go on, or nothing of theirs changes.
LEMMA FlowOrNot ==
    ASSUME [BackNext]_backVars
    PROVE  [Next]_vars
  BY DEF BackNext, Protected, ProtectedLookup, ApiSteps, backVars


\* Nobody is logged in at first.
LEMMA StartsApi == BackInit => P!Init
  <1> SUFFICES ASSUME BackInit PROVE P!Init
    OBVIOUS
  <1>1. \A s \in Sids : Store[s] = "fresh"
    BY StoreSays DEF BackInit, Init, StoreInit, Ids, MadeSids
  <1>2. Store = [s \in Sids |-> "fresh"]
    BY <1>1 DEF Store
  <1>3. QED
    BY <1>2 DEF BackInit, Api!Idle, P!Init, P!Idle

LEMMA InvInit == ASSUME ApiConstants PROVE BackInit => BackInv
  <1> SUFFICES ASSUME BackInit PROVE BackInv
    OBVIOUS
  <1>1. LedgerInv /\ Sealed
    BY LedgerInvInit DEF BackInit, Init, StoreInit, Sealed
  <1>2. P!Inv
    BY StartsApi, Constants, P!InitSound
  <1>3. OfItsBrowser
    BY DEF BackInit, OfItsBrowser, Api!Idle, P!Calling
  <1>4. QED
    BY <1>1, <1>2, <1>3 DEF BackInv, BackInit

\* A lookup or an answer ends a request, or it goes on with the cookie it came with.
LEMMA AdmitKeeps ==
    ASSUME NEW q \in P!RequestRecord, NEW found, NEW x \in Api!Admit(q, found)
    PROVE  x.pc = "respond" \/ x.sid = q.sid
  BY DEF P!RequestRecord, Api!Admit, Api!Respond, Api!StartCall

LEMMA ReturnKeeps ==
    ASSUME NEW q \in P!RequestRecord, NEW said, NEW x \in Api!Returned(q, said)
    PROVE  x.pc = "respond" \/ x.sid = q.sid
  BY DEF P!RequestRecord, Api!Returned, Api!Respond, Api!StartCall

\* Nothing but an arrival gives a request its cookie.
LEMMA SidKept ==
    ASSUME P!TypeOK, ApiSteps \/ \E a \in ApiRequests : ProtectedLookup(a),
           NEW a \in ApiRequests, call'[a].pc \in {"lookup"} \cup P!Calling
    PROVE  /\ call[a].pc \in {"lookup"} \cup P!Calling
           /\ call'[a].sid = call[a].sid
  <1>1. /\ call \in [ApiRequests -> P!Request]
        /\ \A r \in ApiRequests : call[r] \in P!RequestRecord
    BY DEF P!TypeOK, P!Request
  <1> DEFINE Goes(r, x) ==
               /\ call' = [call EXCEPT ![r] = x]
               /\ \/ x.pc \in {"idle", "respond"}
                  \/ call[r].pc \in {"lookup"} \cup P!Calling /\ x.sid = call[r].sid
  <1>2. ASSUME NEW r \in ApiRequests, NEW x, Goes(r, x)
        PROVE  /\ call[a].pc \in {"lookup"} \cup P!Calling
               /\ call'[a].sid = call[a].sid
    BY <1>1, <1>2 DEF P!Calling
  <1>3. ASSUME NEW r \in ApiRequests, ProtectedLookup(r)
        PROVE  \E x : Goes(r, x)
    <2>1. PICK found : \E x \in Api!Admit(call[r], found) : call' = [call EXCEPT ![r] = x]
      BY <1>3 DEF ProtectedLookup, Api!LookupSays
    <2>2. PICK x \in Api!Admit(call[r], found) : call' = [call EXCEPT ![r] = x]
      BY <2>1
    <2>3. x.pc = "respond" \/ x.sid = call[r].sid
      BY <1>1, AdmitKeeps
    <2>4. QED
      BY <1>3, <2>2, <2>3 DEF ProtectedLookup
  <1>4. ASSUME NEW r \in ApiRequests, Api!TimeOut(r) \/ Api!World(r)
        PROVE  \E x : Goes(r, x)
    <2>1. ASSUME NEW said, NEW x \in Api!Returned(call[r], said),
                 call' = [call EXCEPT ![r] = x], call[r].pc \in P!Calling
          PROVE  Goes(r, x)
      BY <1>1, <2>1, ReturnKeeps
    <2>2. CASE Api!TimeOut(r)
      BY <2>1, <2>2 DEF Api!TimeOut, Api!Due, Api!Calling, P!Calling
    <2>3. CASE Api!BodyEnds(r)
      BY <2>1, <2>3 DEF Api!BodyEnds, P!Calling
    <2>4. CASE Api!Answer(r)
      <3>1. PICK x \in {[call[r] EXCEPT !.pc = "body"]} \cup
                       UNION {Api!Returned(call[r], said) : said \in Api!Said \ {"ok"}} :
              call' = [call EXCEPT ![r] = x]
        BY <2>4 DEF Api!Answer
      <3>2. CASE x = [call[r] EXCEPT !.pc = "body"]
        <4>1. x.sid = call[r].sid
          BY <1>1, <3>2 DEF P!RequestRecord
        <4>2. QED
          BY <2>4, <3>1, <4>1 DEF Api!Answer, P!Calling
      <3>3. CASE \E said \in Api!Said \ {"ok"} : x \in Api!Returned(call[r], said)
        BY <2>1, <2>4, <3>1, <3>3 DEF Api!Answer, P!Calling
      <3>4. QED
        BY <3>1, <3>2, <3>3
    <2>5. CASE Api!Chunk(r)
      <3> DEFINE x == [call[r] EXCEPT !.got = @ + 1]
      <3>1. x.sid = call[r].sid /\ x.pc = call[r].pc
        BY <1>1 DEF P!RequestRecord
      <3>2. call' = [call EXCEPT ![r] = x]
        BY <1>1, <2>5 DEF Api!Chunk
      <3> HIDE DEF x
      <3>3. QED
        BY <2>5, <3>1, <3>2 DEF Api!Chunk, P!Calling
    <2>6. CASE Api!Deliver(r) \/ Api!Leave(r)
      <3>1. Goes(r, Api!Idle)
        BY <2>6 DEF Api!Deliver, Api!Leave, Api!Idle
      <3>2. QED
        BY <3>1
    <2>7. QED
      BY <1>4, <2>2, <2>3, <2>4, <2>5, <2>6 DEF Api!World
  <1>5. ASSUME call'[a] = call[a] \/ call'[a] = Api!Idle
               \/ call'[a] = [call[a] EXCEPT !.early = call[a].nth]
               \/ call'[a] = [call[a] EXCEPT !.age = @ + 1]
        PROVE  /\ call[a].pc \in {"lookup"} \cup P!Calling
               /\ call'[a].sid = call[a].sid
    <2>1. call'[a] # Api!Idle
      BY DEF Api!Idle, P!Calling
    <2>2. call[a] \in P!RequestRecord
      BY <1>1
    <2>3. QED
      BY <1>5, <2>1, <2>2 DEF P!RequestRecord
  <1>6. CASE \E p \in Replicas : Api!Terminate(p) \/ Api!Stop(p) \/ Api!Start(p)
    BY <1>5, <1>6 DEF Api!Terminate, Api!Stop, Api!Start
  <1>7. CASE Api!Tick
    BY <1>5, <1>7 DEF Api!Tick
  <1> HIDE DEF Goes
  <1>8. QED
    BY <1>2, <1>3, <1>4, <1>6, <1>7 DEF ApiSteps

LEMMA InvNext ==
    ASSUME ApiConstants
    PROVE  BackInv /\ [BackNext]_backVars => BackInv'
  <1> SUFFICES ASSUME BackInv, [BackNext]_backVars PROVE BackInv'
    OBVIOUS
  <1>1. [Next]_vars /\ Effects /\ LedgerInv'
    BY FlowOrNot, StepEffects, LedgerInvStep DEF BackInv, LedgerInv, EndInv
  <1>2. P!Inv'
    <2>1. [P!Next]_(P!vars)
      BY BackStep, SameNext DEF Api!vars, P!vars
    <2>2. QED
      BY <2>1, Constants, P!InvStep DEF BackInv
  <1>3. made \subseteq made'
    BY <1>1 DEF Effects, HistoryKept
  <1>4. Sealed'
    <2>1. \A e \in sessions' \ sessions : \E m \in made' : m.sid = e.id /\ m.code = e.token
      BY <1>1 DEF Effects, RecordsMove
    <2>2. \A e \in sessions : \E m \in made : m.sid = e.id /\ m.code = e.token
      BY DEF BackInv, Sealed
    <2>3. \A e \in sessions' : \E m \in made' : m.sid = e.id /\ m.code = e.token
      BY <1>3, <2>1, <2>2
    <2>4. QED
      BY <2>3 DEF Sealed
  <1>5. /\ from' \in [ApiRequests -> Browsers \cup {NoBrowser}]
        /\ OfItsBrowser'
    <2>1. CASE UNCHANGED <<call, from>>
      BY <1>3, <2>1 DEF BackInv, OfItsBrowser, MadeFor
    <2>2. ASSUME NEW a \in ApiRequests, NEW b \in Browsers, NEW p \in Replicas,
                 Protected(a, b, p)
          PROVE  /\ from' \in [ApiRequests -> Browsers \cup {NoBrowser}]
                 /\ OfItsBrowser'
      <3>1. from' = [from EXCEPT ![a] = b] /\ Api!ArriveWith(a, p, sessionCookie[b])
        BY <2>2 DEF Protected
      <3>2. call'[a].pc \in {"lookup"} \cup P!Calling =>
              \E m \in made' : m.sid = call'[a].sid /\ m.browser = b
        <4> DEFINE n(route) == [Api!Idle EXCEPT !.replica = p, !.route = route,
                                                !.sid = sessionCookie[b]]
        <4>1. PICK route : call' = [call EXCEPT ![a] =
                 IF sessionCookie[b] = NoSid THEN Api!Respond(n(route), "unauthorized")
                 ELSE [n(route) EXCEPT !.pc = "lookup"]]
          BY <3>1 DEF Api!ArriveWith
        <4>2. a \in DOMAIN call
          BY DEF BackInv, P!Inv, P!TypeOK
        <4>3. CASE sessionCookie[b] = NoSid
          BY <4>1, <4>2, <4>3 DEF Api!Respond, Api!Idle, P!Calling
        <4>4. CASE sessionCookie[b] # NoSid
          <5>1. call'[a].sid = sessionCookie[b]
            BY <4>1, <4>2, <4>4 DEF Api!Idle
          <5>2. MadeFor(sessionCookie[b], b)
            BY <4>4 DEF BackInv, LedgerInv, EndInv, Bound, BoundToBrowser, MadeFor
          <5>3. QED
            BY <1>3, <5>1, <5>2 DEF MadeFor
        <4>5. QED
          BY <4>3, <4>4
      <3>3. ASSUME NEW r \in ApiRequests, r # a
            PROVE  call'[r] = call[r] /\ from'[r] = from[r]
        BY <3>1, <3>3 DEF Api!ArriveWith, BackInv, P!Inv, P!TypeOK
      <3>4. from'[a] = b
        BY <3>1 DEF BackInv
      <3>5. ASSUME NEW r \in ApiRequests, call'[r].pc \in {"lookup"} \cup P!Calling
            PROVE  \E m \in made' : m.sid = call'[r].sid /\ m.browser = from'[r]
        <4>1. CASE r = a
          BY <3>2, <3>4, <3>5, <4>1
        <4>2. CASE r # a
          BY <1>3, <3>3, <3>5, <4>2 DEF BackInv, OfItsBrowser, MadeFor
        <4>3. QED
          BY <4>1, <4>2
      <3>6. OfItsBrowser'
        BY <3>5 DEF OfItsBrowser, MadeFor, P!Calling
      <3>7. QED
        BY <3>1, <3>6 DEF BackInv
    <2>3. CASE ApiSteps \/ \E a \in ApiRequests : ProtectedLookup(a)
      <3>1. from' = from
        BY <2>3 DEF ApiSteps, ProtectedLookup
      <3>2. P!TypeOK
        BY DEF BackInv, P!Inv
      <3>3. ASSUME NEW r \in ApiRequests, call'[r].pc \in {"lookup"} \cup P!Calling
            PROVE  \E m \in made' : m.sid = call'[r].sid /\ m.browser = from'[r]
        <4>1. call[r].pc \in {"lookup"} \cup P!Calling /\ call'[r].sid = call[r].sid
          BY <2>3, <3>2, <3>3, SidKept
        <4>2. QED
          BY <1>3, <3>1, <4>1 DEF BackInv, OfItsBrowser, MadeFor
      <3>4. OfItsBrowser'
        BY <3>3 DEF OfItsBrowser, MadeFor, P!Calling
      <3>5. QED
        BY <3>1, <3>4 DEF BackInv
    <2>4. QED
      BY <2>1, <2>2, <2>3 DEF BackNext, backVars, apiVars
  <1>6. QED
    BY <1>1, <1>2, <1>4, <1>5 DEF BackInv

LEMMA AlwaysBack == ASSUME ApiConstants PROVE BackSpec => []BackInv
  BY InvInit, InvNext, PTL DEF BackSpec

----------------------------------------------------------------------------
(* The theorems                                                            *)

\* The protected API leaves the login handlers alone: what AuthFlow never does,
\* the backend never does (store.go: the API only reads).
THEOREM BackendRunsFlow == BackSpec => Spec
  <1>1. BackInit => Init
    BY DEF BackInit
  <1>2. QED
    BY <1>1, FlowOrNot, PTL DEF BackSpec, Spec

\* What ApiServer takes for granted of the session store and of the cookies, that
\* a session is fresh, live, ended, in this order, and that a browser has only the
\* cookies of sessions that were made, is what the login handlers, the clock and
\* the replies bring about (middleware.go, requireSession over store.go and
\* oidc.go).
THEOREM BackendRunsApi == ASSUME ApiConstants PROVE BackSpec => Api!Spec
  <1>1. BackInit => Api!Init
    BY StartsApi, SameInit
  <1>2. BackInv /\ [BackNext]_backVars => [Api!Next]_(Api!vars)
    BY BackStep
  <1>3. QED
    BY <1>1, <1>2, AlwaysBack, PTL DEF BackSpec, Api!Spec

\* A call upstream carries the token of a session made for the browser that sent
\* the request, for a login that this browser started, and of no session that
\* ended longer ago than the calls may take (middleware.go, requireSession;
\* oidc.go, the state cookie and the nonce).
THEOREM TokensAreOwned == ASSUME ApiConstants PROVE BackSpec => []TokensOwned
  <1>1. BackSpec => []P!TokenUseBounded
    <2>1. BackInv /\ [BackNext]_backVars => [P!Next]_(P!vars)
      BY BackStep, SameNext DEF Api!vars, P!vars
    <2>2. BackSpec => P!Spec
      BY <2>1, StartsApi, AlwaysBack, PTL DEF BackSpec, P!Spec
    <2>3. P!Spec => []P!TokenUseBounded
      BY Constants, P!TokenUseIsBounded, PTL
    <2>4. QED
      BY <2>2, <2>3, PTL
  <1>2. ASSUME BackInv, P!TokenUseBounded PROVE TokensOwned
    <2> SUFFICES ASSUME NEW a \in ApiRequests, call[a].pc \in Api!Calling
                 PROVE  \E m \in made :
                          /\ m.sid = call[a].token /\ m.browser = from[a]
                          /\ starter[m.state] = from[a] /\ codes[m.code].txn = m.state
                          /\ \A e \in sessions : e.id = m.sid => e.token = m.code
                          /\ \/ m.sid \in Ids(sessions)
                             \/ gone[m.sid] <= call[a].nth * CallTimeout
      BY DEF TokensOwned
    <2>1. call[a].pc \in P!Calling
      BY DEF Api!Calling, P!Calling
    <2>2. PICK m \in made : m.sid = call[a].sid /\ m.browser = from[a]
      BY <1>2, <2>1 DEF BackInv, OfItsBrowser, MadeFor
    <2>3. /\ call[a].token = call[a].sid
          /\ \/ Store[call[a].sid] = "live"
             \/ gone[call[a].sid] <= call[a].nth * CallTimeout
      BY <1>2, <2>1 DEF P!TokenUseBounded
    <2>4. m.sid \in Sids
      BY <1>2 DEF BackInv, LedgerInv, EndInv, TypeOK, Provenance
    <2>5. m.sid \in Ids(sessions) \/ gone[m.sid] <= call[a].nth * CallTimeout
      BY <2>2, <2>3, <2>4, StoreSays
    <2>6. starter[m.state] = m.browser /\ codes[m.code].txn = m.state
      BY <1>2 DEF BackInv, LedgerInv, EndInv, Bound, BoundToBrowser, BoundToToken
    <2>7. \A e \in sessions : e.id = m.sid => e.token = m.code
      BY <1>2 DEF BackInv, Sealed, LedgerInv, OneOfSid
    <2>8. QED
      BY <2>2, <2>3, <2>5, <2>6, <2>7
  <1>3. QED
    BY <1>1, <1>2, AlwaysBack, PTL
=============================================================================
