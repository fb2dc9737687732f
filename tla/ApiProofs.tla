----------------------------- MODULE ApiProofs -----------------------------
(***************************************************************************)
(* Theorems about ApiServer, for any number of sessions, requests and      *)
(* replicas and any timeouts and limits.                                   *)
(***************************************************************************)
EXTENDS ApiSafety, TLAPS

\* Ticks since the first call of q began, at most.
Spent(q) == IF q.nth = 2 THEN CallTimeout + q.age ELSE q.age

\* What a handler's record says of its session, its replica and its calls.
Good(q) ==
    /\ q.pc # "idle" => q.replica \in Replicas
    /\ q.pc = "lookup" => /\ store[q.sid] # "fresh" /\ q.early = 0
                          /\ \A i \in 1..2 : q.said[i] = "none"
    /\ q.pc \in Calling =>
         /\ q.token = q.sid /\ store[q.sid] # "fresh"
         /\ store[q.sid] = "live" \/ gone[q.sid] <= Spent(q)
         /\ \A i \in 1..2 : q.said[i] = IF i < q.nth THEN "ok" ELSE "none"
         /\ q.early <= q.nth
         /\ q.early = q.nth => q.age >= drain[q.replica]
    /\ q.pc = "respond" =>
         /\ \A i \in 1..2 : q.said[i] \in {"unauthorized", "forbidden"} =>
                               q.reply = q.said[i]
         /\ q.reply = "ok" => \A i \in 1..Calls(q.route) : q.said[i] = "ok"
         /\ q.reply = "forbidden" => q.said[q.nth] = "forbidden"

ClocksSound ==
    /\ \A s \in Sids : store[s] # "ended" => gone[s] = 0
    /\ \A p \in Replicas : replica[p] # "draining" => drain[p] = 0

Sound == ClocksSound /\ \A r \in Requests : Good(req[r])

----------------------------------------------------------------------------
(* The records                                                             *)

LEMMA RespondFields ==
    ASSUME NEW q \in Request, NEW what \in Replies
    PROVE  LET a == Respond(q, what) IN
           /\ a \in Request /\ a.pc = "respond" /\ a.reply = what
           /\ a.replica = q.replica /\ a.route = q.route
           /\ a.nth = q.nth /\ a.said = q.said
  <1> DEFINE a == Respond(q, what)
  <1>1. q \in RequestRecord /\ 0 \in 0..CallTimeout /\ 0 \in 0..(MaxBody + 1)
    BY ApiAssumption DEF Request
  <1>2. /\ a \in RequestRecord /\ a.pc = "respond" /\ a.reply = what
        /\ a.replica = q.replica /\ a.route = q.route
        /\ a.nth = q.nth /\ a.said = q.said
    BY <1>1, Zenon DEF Respond, RequestRecord
  <1>3. QED
    BY <1>2 DEF Request, Calling

LEMMA StartCallFields ==
    ASSUME NEW q \in Request, q.sid \in Sids, q.nth + 1 \in 1..Calls(q.route)
    PROVE  LET a == StartCall(q) IN
           /\ a \in Request /\ a.pc = "call" /\ a.nth = q.nth + 1 /\ a.age = 0
           /\ a.sid = q.sid /\ a.token = q.token /\ a.said = q.said
           /\ a.early = q.early /\ a.replica = q.replica /\ a.route = q.route
  <1> DEFINE a == StartCall(q)
  <1>1. /\ q \in RequestRecord /\ 0 \in 0..CallTimeout /\ 0 \in 0..(MaxBody + 1)
        /\ q.nth + 1 \in 0..2
    BY ApiAssumption DEF Request, Calls
  <1>2. /\ a \in RequestRecord /\ a.pc = "call" /\ a.nth = q.nth + 1 /\ a.age = 0
        /\ a.sid = q.sid /\ a.token = q.token /\ a.said = q.said
        /\ a.early = q.early /\ a.replica = q.replica /\ a.route = q.route
    BY <1>1, Zenon DEF StartCall, RequestRecord
  <1>3. QED
    BY <1>2 DEF Request, Calling

LEMMA TokenFields ==
    ASSUME NEW q \in Request, NEW t \in Sids
    PROVE  LET a == [q EXCEPT !.token = t] IN
           /\ a \in Request /\ a.token = t /\ a.pc = q.pc /\ a.sid = q.sid
           /\ a.nth = q.nth /\ a.said = q.said /\ a.early = q.early
           /\ a.replica = q.replica /\ a.route = q.route
  BY DEF Request, RequestRecord

LEMMA SaidFields ==
    ASSUME NEW q \in Request, q.pc \in Calling, NEW said \in Said
    PROVE  LET a == [q EXCEPT !.said[q.nth] = said] IN
           /\ a \in Request /\ a.said = [q.said EXCEPT ![q.nth] = said]
           /\ a.pc = q.pc /\ a.sid = q.sid /\ a.token = q.token /\ a.nth = q.nth
           /\ a.early = q.early /\ a.replica = q.replica /\ a.route = q.route
  BY DEF Request, RequestRecord

LEMMA IdleGood == Idle \in Request /\ Good(Idle)
  BY ApiAssumption DEF Idle, Request, RequestRecord, Calling, Good, Replies, Routes

----------------------------------------------------------------------------
(* What the handler does next                                              *)

\* An answer given before any call.
LEMMA EarlyAnswer ==
    ASSUME NEW q \in Request, q.replica \in Replicas, \A i \in 1..2 : q.said[i] = "none",
           NEW what \in {"unauthorized", "badRequest"}
    PROVE  Respond(q, what) \in Request /\ Good(Respond(q, what))
  <1>1. what \in Replies
    BY DEF Replies
  <1>2. QED
    BY <1>1, RespondFields DEF Good, Calling

LEMMA AdmitSound ==
    ASSUME TypeOK, NEW q \in Request, q.pc = "lookup", Good(q),
           NEW found \in Found(q.sid), NEW a \in Admit(q, found)
    PROVE  a \in Request /\ Good(a)
  <1>1. /\ q.replica \in Replicas /\ q.sid \in Sids /\ q.nth = 0
        /\ q.early = 0 /\ \A i \in 1..2 : q.said[i] = "none"
    BY DEF Request, Good
  <1>2. CASE a = Respond(q, "unauthorized") \/ a = Respond(q, "badRequest")
    BY <1>1, <1>2, EarlyAnswer
  <1>3. CASE found /\ a = StartCall([q EXCEPT !.token = q.sid])
    <2> DEFINE b == [q EXCEPT !.token = q.sid]
    <2>1. /\ b \in Request /\ b.token = q.sid /\ b.sid = q.sid /\ b.nth = 0
          /\ b.said = q.said /\ b.early = 0 /\ b.replica = q.replica
      BY <1>1, TokenFields
    <2>2. b.nth + 1 \in 1..Calls(b.route)
      BY <2>1 DEF Calls
    <2>3. /\ a \in Request /\ a.pc = "call" /\ a.nth = 1 /\ a.age = 0 /\ a.sid = q.sid
          /\ a.token = q.sid /\ a.said = q.said /\ a.early = 0 /\ a.replica = q.replica
      <3> HIDE DEF b
      <3>1. a = StartCall(b)
        BY <1>3 DEF b
      <3>2. QED
        BY <1>1, <2>1, <2>2, <3>1, StartCallFields
    <2>4. store[q.sid] = "live"
      BY <1>3 DEF Found
    <2>5. QED
      BY <1>1, <2>3, <2>4 DEF Good, Calling, Spent
  <1>4. QED
    BY <1>2, <1>3 DEF Admit

LEMMA ReturnedSound ==
    ASSUME TypeOK, NEW q \in Request, q.pc \in Calling, Good(q),
           NEW said \in Said, NEW a \in Returned(q, said)
    PROVE  a \in Request /\ Good(a)
  <1> DEFINE b == [q EXCEPT !.said[q.nth] = said]
  <1>1. /\ q.sid \in Sids /\ q.nth \in 1..Calls(q.route) /\ q.nth \in 1..2
        /\ q.said \in [1..2 -> Said \cup {"none"}] /\ q.early \in 0..2
        /\ q.age \in 0..CallTimeout /\ q.replica \in Replicas
        /\ gone[q.sid] \in Nat
    BY ApiAssumption DEF Request, RequestRecord, Calls, Calling, Good, TypeOK, AllGone
  <1>2. /\ b \in Request /\ b.said = [q.said EXCEPT ![q.nth] = said]
        /\ b.pc = q.pc /\ b.sid = q.sid /\ b.token = q.token /\ b.nth = q.nth
        /\ b.early = q.early /\ b.replica = q.replica /\ b.route = q.route
    BY SaidFields
  <1>3. \A i \in 1..2 : q.said[i] = IF i < q.nth THEN "ok" ELSE "none"
    BY DEF Good
  <1> HIDE DEF b
  <1>4. /\ b.said[q.nth] = said
        /\ \A i \in 1..2 : i # q.nth => b.said[i] = IF i < q.nth THEN "ok" ELSE "none"
    BY <1>1, <1>2, <1>3
  <1>5. CASE said # "ok" /\ a = Respond(b, Status(said))
    <2>1. Status(said) \in Replies /\ Status(said) # "ok"
      BY DEF Status, Said, Replies
    <2>2. /\ a \in Request /\ a.pc = "respond" /\ a.reply = Status(said)
          /\ a.replica = q.replica /\ a.nth = q.nth /\ a.said = b.said
      BY <1>2, <1>5, <2>1, RespondFields
    <2>3. \A i \in 1..2 : a.said[i] \in {"unauthorized", "forbidden"} => a.reply = a.said[i]
      BY <1>4, <2>2 DEF Status
    <2>4. a.reply = "forbidden" => a.said[a.nth] = "forbidden"
      BY <1>4, <2>2 DEF Status
    <2>5. QED
      BY <1>1, <2>1, <2>2, <2>3, <2>4 DEF Good, Calling
  <1>6. CASE said = "ok" /\ q.nth < Calls(q.route) /\ a = StartCall(b)
    <2>1. q.nth = 1 /\ b.nth + 1 \in 1..Calls(b.route)
      BY <1>1, <1>2, <1>6 DEF Calls
    <2>2. /\ a \in Request /\ a.pc = "call" /\ a.nth = 2 /\ a.age = 0 /\ a.sid = q.sid
          /\ a.token = q.token /\ a.said = b.said /\ a.early = q.early
          /\ a.replica = q.replica
      BY <1>1, <1>2, <1>6, <2>1, StartCallFields
    <2>3. /\ q.token = q.sid /\ store[q.sid] # "fresh"
          /\ store[q.sid] = "live" \/ gone[q.sid] <= q.age
          /\ q.early <= 1
      BY <2>1 DEF Good, Spent
    <2>4. store[q.sid] = "live" \/ gone[q.sid] <= CallTimeout + 0
      BY <1>1, <2>3, ApiAssumption
    <2>5. \A i \in 1..2 : a.said[i] = IF i < 2 THEN "ok" ELSE "none"
      BY <1>4, <1>6, <2>1, <2>2
    <2>6. QED
      BY <1>1, <2>2, <2>3, <2>4, <2>5 DEF Good, Calling, Spent
  <1>7. CASE /\ said = "ok" /\ ~(q.nth < Calls(q.route))
             /\ a \in {Respond(b, "ok"), Respond(b, "badGateway")}
    <2>1. PICK what \in {"ok", "badGateway"} : a = Respond(b, what)
      BY <1>7
    <2>2. /\ a \in Request /\ a.pc = "respond" /\ a.reply = what
          /\ a.replica = q.replica /\ a.route = q.route /\ a.said = b.said
      BY <1>2, <2>1, RespondFields DEF Replies
    <2>3. \A i \in 1..Calls(a.route) : a.said[i] = "ok"
      BY <1>1, <1>4, <1>7, <2>2 DEF Calls
    <2>4. \A i \in 1..2 : a.said[i] \notin {"unauthorized", "forbidden"}
      BY <1>4, <1>7, <2>2
    <2>5. QED
      BY <1>1, <2>1, <2>2, <2>3, <2>4 DEF Good, Calling
  <1>8. QED
    BY <1>1, <1>2, <1>5, <1>6, <1>7 DEF Returned, b

----------------------------------------------------------------------------
(* The steps                                                               *)

Inv == TypeOK /\ Sound

LEMMA InitSound == Init => Inv
  <1>1. Init => \A r \in Requests : req[r] = Idle
    BY DEF Init
  <1>2. Init => TypeOK
    BY IdleGood, ApiAssumption DEF Init, TypeOK, AllGone
  <1>3. Init => Sound
    BY <1>1, IdleGood DEF Init, Sound, ClocksSound
  <1>4. QED
    BY <1>2, <1>3 DEF Inv

\* A step that changes one request into a good one.
LEMMA OneRequest ==
    ASSUME Inv, NEW r \in Requests, NEW a \in Request, Good(a),
           req' = [req EXCEPT ![r] = a], UNCHANGED <<store, gone, replica, drain>>
    PROVE  Inv'
  <1>1. TypeOK'
    BY DEF Inv, TypeOK
  <1>2. ClocksSound'
    BY DEF Inv, Sound, ClocksSound
  <1>3. ASSUME NEW s \in Requests PROVE Good(req[s])'
    <2>1. req'[s] = IF s = r THEN a ELSE req[s]
      BY DEF Inv, TypeOK
    <2>2. Good(req'[s])
      BY <2>1 DEF Inv, Sound
    <2>3. QED
      BY <2>2 DEF Good
  <1>4. QED
    BY <1>1, <1>2, <1>3 DEF Inv, Sound

LEMMA RequestSteps ==
    ASSUME Inv, NEW r \in Requests,
           Server(r) \/ World(r) \/ \E p \in Replicas : Arrive(r, p)
    PROVE  Inv'
  <1> DEFINE q == req[r]
  <1>1. q \in Request /\ Good(q) /\ TypeOK
    BY DEF Inv, TypeOK, Sound
  <1>2. ASSUME NEW p \in Replicas, Arrive(r, p) PROVE Inv'
    <2>1. PICK s \in Sids \cup {NoSid}, route \in Routes :
            LET n == [Idle EXCEPT !.replica = p, !.route = route, !.sid = s] IN
            /\ s \in Sids => store[s] # "fresh"
            /\ req' = [req EXCEPT ![r] = IF s = NoSid THEN Respond(n, "unauthorized")
                                         ELSE [n EXCEPT !.pc = "lookup"]]
            /\ UNCHANGED <<store, gone, replica, drain>>
      BY <1>2, ApiAssumption DEF Arrive, ArriveWith
    <2> DEFINE n == [Idle EXCEPT !.replica = p, !.route = route, !.sid = s]
    <2>2. /\ n \in Request /\ n.replica = p /\ n.sid = s /\ n.nth = 0 /\ n.early = 0
          /\ \A i \in 1..2 : n.said[i] = "none"
      BY IdleGood DEF Idle, Request, RequestRecord, Calling
    <2>3. CASE s = NoSid
      <3> HIDE DEF n
      <3>1. Respond(n, "unauthorized") \in Request /\ Good(Respond(n, "unauthorized"))
        BY <2>2, EarlyAnswer
      <3>2. req' = [req EXCEPT ![r] = Respond(n, "unauthorized")]
        BY <2>1, <2>3 DEF n
      <3>3. QED
        BY <1>2, <2>1, <3>1, <3>2, OneRequest
    <2>4. CASE s \in Sids
      <3> DEFINE l == [n EXCEPT !.pc = "lookup"]
      <3>1. /\ l \in Request /\ l.pc = "lookup" /\ l.replica = p /\ l.sid = s
            /\ l.early = 0 /\ \A i \in 1..2 : l.said[i] = "none"
        BY <2>2, <2>4 DEF Request, RequestRecord, Calling
      <3>2. Good(l)
        BY <2>1, <2>4, <3>1 DEF Good, Calling
      <3>3. req' = [req EXCEPT ![r] = l]
        BY <2>1, <2>4, ApiAssumption
      <3>4. QED
        BY <1>2, <2>1, <3>1, <3>2, <3>3, OneRequest
    <2>5. QED
      BY <2>3, <2>4
  <1>3. CASE Lookup(r)
    <2>1. PICK found \in Found(q.sid) : \E a \in Admit(q, found) :
            req' = [req EXCEPT ![r] = a]
      BY <1>3 DEF Lookup, LookupSays
    <2>2. PICK a \in Admit(q, found) : req' = [req EXCEPT ![r] = a]
      BY <2>1
    <2>3. a \in Request /\ Good(a)
      BY <1>1, <1>3, AdmitSound DEF Lookup
    <2>4. QED
      BY <1>3, <2>2, <2>3, OneRequest DEF Lookup, LookupSays
  <1>4. ASSUME q.pc \in Calling, NEW said \in Said, NEW a \in Returned(q, said),
               req' = [req EXCEPT ![r] = a], UNCHANGED <<store, gone, replica, drain>>
        PROVE  Inv'
    BY <1>1, <1>4, ReturnedSound, OneRequest
  <1>5. CASE Answer(r)
    <2>1. PICK a \in {[q EXCEPT !.pc = "body"]} \cup
                     UNION {Returned(q, said) : said \in Said \ {"ok"}} :
            req' = [req EXCEPT ![r] = a]
      BY <1>5 DEF Answer
    <2>2. CASE a = [q EXCEPT !.pc = "body"]
      <3>1. /\ a \in Request /\ a.pc = "body" /\ a.sid = q.sid /\ a.token = q.token
            /\ a.nth = q.nth /\ a.age = q.age /\ a.said = q.said /\ a.early = q.early
            /\ a.replica = q.replica
        BY <1>1, <1>5, <2>2 DEF Answer, Request, RequestRecord, Calling
      <3>2. Good(a)
        BY <1>1, <1>5, <3>1 DEF Answer, Good, Calling, Spent
      <3>3. QED
        BY <1>5, <2>1, <3>1, <3>2, OneRequest DEF Answer
    <2>3. CASE \E said \in Said \ {"ok"} : a \in Returned(q, said)
      BY <1>4, <1>5, <2>1, <2>3 DEF Answer, Calling
    <2>4. QED
      BY <2>2, <2>3
  <1>6. CASE Chunk(r)
    <2> DEFINE a == [q EXCEPT !.got = @ + 1]
    <2>1. q \in RequestRecord /\ q.got + 1 \in 0..(MaxBody + 1)
      BY <1>1, <1>6, ApiAssumption DEF Chunk, Allowed, Request, RequestRecord
    <2>2. /\ a \in RequestRecord /\ a.pc = q.pc /\ a.sid = q.sid /\ a.token = q.token
          /\ a.nth = q.nth /\ a.age = q.age /\ a.said = q.said /\ a.early = q.early
          /\ a.replica = q.replica /\ a.route = q.route
      BY <2>1, Zenon DEF RequestRecord
    <2>3. a \in Request
      BY <1>1, <2>2 DEF Request
    <2>4. Good(a)
      BY <1>1, <1>6, <2>2 DEF Chunk, Good, Calling, Spent
    <2>5. req' = [req EXCEPT ![r] = a]
      BY <1>6 DEF Chunk, Inv, TypeOK
    <2>6. QED
      BY <1>6, <2>3, <2>4, <2>5, OneRequest DEF Chunk
  <1>7. CASE BodyEnds(r)
    BY <1>4, <1>7 DEF BodyEnds, Calling, Said
  <1>8. CASE TimeOut(r)
    BY <1>4, <1>8 DEF TimeOut, Due, Said
  <1>9. CASE Deliver(r) \/ Leave(r)
    BY <1>9, IdleGood, OneRequest DEF Deliver, Leave
  <1>10. QED
    BY <1>2, <1>3, <1>5, <1>6, <1>7, <1>8, <1>9 DEF Server, World

LEMMA SessionSteps ==
    ASSUME Inv, (\E s \in Sids : LogIn(s)) \/ \E S \in SUBSET Sids : SessionsEnd(S)
    PROVE  Inv'
  <1>1. /\ \A s \in Sids : \/ store'[s] = store[s]
                           \/ store[s] = "fresh" /\ store'[s] = "live"
                           \/ store[s] = "live" /\ store'[s] = "ended"
        /\ UNCHANGED <<gone, replica, drain, req>>
    BY DEF Inv, TypeOK, LogIn, SessionsEnd
  <1>2. TypeOK'
    BY DEF Inv, TypeOK, LogIn, SessionsEnd
  <1>3. \A s \in Sids : store[s] # "ended" => gone[s] = 0
    BY DEF Inv, Sound, ClocksSound
  <1>4. ClocksSound'
    BY <1>1, <1>3 DEF Inv, Sound, ClocksSound
  <1>5. ASSUME NEW r \in Requests PROVE Good(req[r])'
    <2>1. req[r] \in Request /\ Good(req[r])
      BY DEF Inv, TypeOK, Sound
    <2>2. req[r].pc \in Calling => 0 <= Spent(req[r])
      BY <2>1, ApiAssumption DEF Request, RequestRecord, Spent
    <2>3. QED
      BY <1>1, <1>3, <2>1, <2>2 DEF Good, Spent, Calling, Request
  <1>6. QED
    BY <1>2, <1>4, <1>5 DEF Inv, Sound

LEMMA ReplicaSteps ==
    ASSUME Inv, NEW p \in Replicas, Terminate(p) \/ Stop(p) \/ Start(p)
    PROVE  Inv'
  <1>1. ASSUME NEW r \in Requests PROVE req[r] \in Request /\ Good(req[r])
    BY DEF Inv, TypeOK, Sound
  <1>2. CASE Terminate(p)
    <2>1. drain[p] = 0 /\ UNCHANGED <<store, gone, drain>>
      BY <1>2 DEF Terminate, Inv, Sound, ClocksSound
    <2>2. ASSUME NEW r \in Requests PROVE req'[r] \in Request /\ Good(req[r])'
      <3>1. CASE req'[r] = req[r]
        BY <1>1, <2>1, <3>1 DEF Good, Spent
      <3>2. CASE r \in Serves(p) /\ req[r].pc \in Calling
                 /\ req'[r] = [req[r] EXCEPT !.early = req[r].nth]
        <4>1. /\ req'[r] \in Request /\ req'[r].pc = req[r].pc /\ req'[r].sid = req[r].sid
              /\ req'[r].token = req[r].token /\ req'[r].nth = req[r].nth
              /\ req'[r].age = req[r].age /\ req'[r].said = req[r].said
              /\ req'[r].early = req[r].nth /\ req'[r].replica = p
          BY <1>1, <3>2 DEF Serves, Request, RequestRecord
        <4>2. req[r].age >= 0 /\ req[r].nth \in 0..2
          BY <1>1, ApiAssumption DEF Request, RequestRecord
        <4>3. QED
          BY <1>1, <2>1, <3>2, <4>1, <4>2 DEF Good, Spent, Calling
      <3>3. QED
        BY <1>2, <3>1, <3>2 DEF Terminate
    <2>3. TypeOK'
      BY <1>2, <2>2 DEF Terminate, Inv, TypeOK
    <2>4. ClocksSound'
      BY <1>2 DEF Terminate, Inv, TypeOK, Sound, ClocksSound
    <2>5. QED
      BY <2>2, <2>3, <2>4 DEF Inv, Sound
  <1>3. CASE Stop(p)
    <2>1. ASSUME NEW r \in Requests PROVE req'[r] \in Request /\ Good(req[r])'
      <3>1. CASE req'[r] = Idle
        BY <3>1, IdleGood DEF Good, Idle, Calling
      <3>2. CASE r \notin Serves(p) /\ req'[r] = req[r]
        <4>1. req[r].pc = "idle" \/ req[r].replica # p
          BY <3>2 DEF Serves
        <4>2. req[r].pc # "idle" => drain'[req[r].replica] = drain[req[r].replica]
          BY <1>1, <1>3, <4>1 DEF Stop, Inv, TypeOK, Good
        <4>3. QED
          BY <1>1, <1>3, <3>2, <4>2 DEF Stop, Good, Spent, Calling
      <3>3. QED
        BY <1>3, <3>1, <3>2 DEF Stop
    <2>2. TypeOK'
      BY <1>3, <2>1, ApiAssumption DEF Stop, Inv, TypeOK
    <2>3. ClocksSound'
      BY <1>3 DEF Stop, Inv, TypeOK, Sound, ClocksSound
    <2>4. QED
      BY <2>1, <2>2, <2>3 DEF Inv, Sound
  <1>4. CASE Start(p)
    <2>1. TypeOK' /\ ClocksSound'
      BY <1>4 DEF Start, Inv, TypeOK, Sound, ClocksSound
    <2>2. ASSUME NEW r \in Requests PROVE Good(req[r])'
      BY <1>1, <1>4 DEF Start, Good, Spent
    <2>3. QED
      BY <2>1, <2>2 DEF Inv, Sound
  <1>5. QED
    BY <1>2, <1>3, <1>4

LEMMA TickStep == Inv /\ Tick => Inv'
  <1> SUFFICES ASSUME Inv, Tick PROVE Inv'
    OBVIOUS
  <1>1. ASSUME NEW r \in Requests PROVE req[r] \in Request /\ Good(req[r]) /\ ~Due(req[r])
    BY DEF Inv, TypeOK, Sound, Tick
  <1>2. /\ store' = store /\ replica' = replica
        /\ \A s \in Sids : gone'[s] = IF store[s] = "ended" /\ gone[s] < AllGone
                                      THEN gone[s] + 1 ELSE gone[s]
        /\ \A p \in Replicas : drain'[p] = IF replica[p] = "draining" /\ drain[p] < DrainTimeout
                                           THEN drain[p] + 1 ELSE drain[p]
        /\ \A s \in Sids : gone[s] \in 0..AllGone
        /\ \A p \in Replicas : drain[p] \in 0..DrainTimeout
    BY DEF Inv, TypeOK, Tick
  <1>3. AllGone \in Nat /\ DrainTimeout \in Nat /\ CallTimeout \in Nat
    BY ApiAssumption DEF AllGone
  <1>4. gone' \in [Sids -> 0..AllGone] /\ drain' \in [Replicas -> 0..DrainTimeout]
    BY <1>2, <1>3 DEF Tick
  <1>5. ClocksSound'
    BY <1>2 DEF Inv, Sound, ClocksSound
  <1>6. ASSUME NEW r \in Requests PROVE req'[r] \in Request /\ Good(req[r])'
    <2>1. CASE req[r].pc \notin Calling /\ req'[r] = req[r]
      BY <1>1, <1>2, <2>1 DEF Good, Calling
    <2>2. CASE req[r].pc \in Calling /\ req'[r] = [req[r] EXCEPT !.age = @ + 1]
      <3>1. /\ req[r].age \in Nat /\ req[r].age + 1 \in 0..CallTimeout
            /\ req[r].sid \in Sids /\ req[r].replica \in Replicas
        BY <1>1, <1>3, <2>2 DEF Due, Request, RequestRecord, Good, Calling
      <3>2. /\ req'[r] \in RequestRecord /\ req'[r].pc = req[r].pc /\ req'[r].sid = req[r].sid
            /\ req'[r].token = req[r].token /\ req'[r].nth = req[r].nth
            /\ req'[r].age = req[r].age + 1 /\ req'[r].said = req[r].said
            /\ req'[r].early = req[r].early /\ req'[r].replica = req[r].replica
            /\ req'[r].route = req[r].route
        BY <1>1, <2>2, <3>1, Zenon DEF Request, RequestRecord
      <3>3. req'[r] \in Request
        BY <1>1, <3>2 DEF Request
      <3>4. Spent(req'[r]) = Spent(req[r]) + 1 /\ Spent(req[r]) \in Nat
        BY <1>3, <3>1, <3>2 DEF Spent
      <3>5. store'[req[r].sid] = "live" \/ gone'[req[r].sid] <= Spent(req'[r])
        BY <1>1, <1>2, <2>2, <3>1, <3>4, <1>3 DEF Good
      <3>6. req[r].early = req[r].nth => req'[r].age >= drain'[req[r].replica]
        BY <1>1, <1>2, <2>2, <3>1, <3>2, <1>3 DEF Good
      <3>7. QED
        BY <1>1, <1>2, <2>2, <3>2, <3>3, <3>5, <3>6 DEF Good, Calling, Spent
    <2>3. req[r].pc \in Calling => req[r].age < CallTimeout
      BY <1>1, <1>3 DEF Due, Request, RequestRecord
    <2>4. req'[r] = IF req[r].pc \in Calling /\ req[r].age < CallTimeout
                    THEN [req[r] EXCEPT !.age = @ + 1] ELSE req[r]
      BY DEF Tick
    <2>5. QED
      BY <2>1, <2>2, <2>3, <2>4
  <1>7. TypeOK'
    BY <1>2, <1>4, <1>6 DEF Inv, TypeOK, Tick
  <1>8. QED
    BY <1>5, <1>6, <1>7 DEF Inv, Sound

LEMMA InvStep == Inv /\ [Next]_vars => Inv'
  <1> SUFFICES ASSUME Inv, [Next]_vars PROVE Inv'
    OBVIOUS
  <1>1. CASE (\E s \in Sids : LogIn(s)) \/ \E S \in SUBSET Sids : SessionsEnd(S)
    BY <1>1, SessionSteps
  <1>2. CASE \E r \in Requests : Server(r) \/ World(r) \/ \E p \in Replicas : Arrive(r, p)
    BY <1>2, RequestSteps
  <1>3. CASE \E p \in Replicas : Terminate(p) \/ Stop(p) \/ Start(p)
    BY <1>3, ReplicaSteps
  <1>4. CASE Tick
    BY <1>4, TickStep
  <1>5. CASE UNCHANGED vars
    BY <1>5 DEF vars, Inv, TypeOK, Sound, ClocksSound, Good, Spent
  <1>6. QED
    BY <1>1, <1>2, <1>3, <1>4, <1>5 DEF Next

LEMMA AlwaysSound == Spec => []Inv
  BY InitSound, InvStep, PTL DEF Spec

----------------------------------------------------------------------------
(* The theorems                                                            *)

\* Sessions, clocks, replicas and requests keep their types; a body that is
\* read (client.go, readBounded) never holds more than one unit past the limit.
THEOREM ApiTypeCorrect == Spec => []TypeOK
  BY AlwaysSound, PTL DEF Inv

\* A call upstream carries its own session's token, and none is made with it for
\* longer after the session ended than the calls of one handler may take
\* (middleware.go, requireSession).
THEOREM TokenUseIsBounded == Spec => []TokenUseBounded
  <1>1. ASSUME Inv PROVE TokenUseBounded
    <2>1. ASSUME NEW r \in Requests, req[r].pc \in Calling
          PROVE  req[r].token = req[r].sid /\ store[req[r].sid] # "fresh"
      BY <1>1, <2>1 DEF Inv, Sound, Good
    <2>2. ASSUME NEW r \in Requests, req[r].pc \in Calling, store[req[r].sid] # "live"
          PROVE  gone[req[r].sid] <= req[r].nth * CallTimeout
      <3>1. /\ req[r].nth \in 1..2 /\ req[r].age \in 0..CallTimeout /\ req[r].sid \in Sids
            /\ gone[req[r].sid] <= Spent(req[r])
        BY <1>1, <2>2 DEF Inv, TypeOK, Sound, Good, Request, RequestRecord, Calls, Calling
      <3>2. gone[req[r].sid] \in Nat /\ CallTimeout \in Nat
        BY <1>1, <3>1, ApiAssumption DEF Inv, TypeOK, AllGone
      <3>3. CASE req[r].nth = 1
        BY <3>1, <3>2, <3>3 DEF Spent
      <3>4. CASE req[r].nth = 2
        BY <3>1, <3>2, <3>4 DEF Spent
      <3>5. QED
        BY <3>1, <3>3, <3>4
    <2>3. QED
      BY <2>1, <2>2 DEF TokenUseBounded
  <1>2. QED
    BY <1>1, AlwaysSound, PTL

\* The cluster's 401 or 403 to any call of a handler is what the browser gets,
\* and an overview is whole or none (overview.go, writeUpstreamError).
THEOREM OutcomeIsPreserved == Spec => []OutcomePreserved
  <1>1. Inv => OutcomePreserved
    BY DEF Inv, Sound, Good, OutcomePreserved
  <1>2. QED
    BY <1>1, AlwaysSound, PTL

\* As long as a call's timeout is shorter than the drain's, a call that was open
\* when its replica was told to stop is not cut off (main.go, run).
THEOREM CallsAreDrained == Spec => CallsDrained
  <1> DEFINE Kept == \A r \in Requests, p \in Replicas :
                       Cut(r, p) /\ req[r].pc \in Calling => req[r].nth # req[r].early
  <1>1. ASSUME Inv, [Next]_vars PROVE Kept
    <2> SUFFICES ASSUME NEW r \in Requests, NEW p \in Replicas, Cut(r, p),
                        req[r].pc \in Calling, req[r].nth = req[r].early
                 PROVE  FALSE
      OBVIOUS
    <2>1. replica \in [Replicas -> {"serving", "draining", "stopped"}]
      BY <1>1 DEF Inv, TypeOK
    <2>2. PICK o \in Replicas : Stop(o) /\ o = p
      <3>1. \E o \in Replicas : Terminate(o) \/ Stop(o) \/ Start(o)
        BY <1>1 DEF Cut, Next, LogIn, SessionsEnd, Server, World, Arrive, ArriveWith,
                    Lookup, LookupSays, Answer, Chunk, BodyEnds, TimeOut, Deliver, Leave, Tick, vars
      <3>2. PICK o \in Replicas : Terminate(o) \/ Stop(o) \/ Start(o)
        BY <3>1
      <3>3. o = p
        BY <2>1, <3>2 DEF Cut, Terminate, Stop, Start
      <3>4. QED
        BY <2>1, <3>2, <3>3 DEF Cut, Terminate, Start
    <2>3. drain[p] >= DrainTimeout
      BY <2>2 DEF Stop, MayStop, Cut
    <2>4. req[r].age >= drain[p] /\ req[r].age \in 0..CallTimeout /\ drain[p] \in Nat
      BY <1>1, ApiAssumption DEF Inv, TypeOK, Sound, Good, Cut, Serves, Request, RequestRecord
    <2>5. QED
      BY <2>3, <2>4, ApiAssumption, DrainAssumption
  <1>2. QED
    BY <1>1, AlwaysSound, PTL DEF Spec, CallsDrained
===========================================================================
