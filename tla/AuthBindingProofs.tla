------------------------- MODULE AuthBindingProofs -------------------------
(***************************************************************************)
(* Whose a session is, how long it lasts and how it ends, for any number   *)
(* of browsers, replicas, requests, logins, codes and sessions.  Effects   *)
(* says what a step may do to each variable; the invariants follow, and so *)
(* does the refinement of the ledger.                                      *)
(***************************************************************************)
EXTENDS AuthFlowProofs, AuthRefinement

MadeSids == {m.sid : m \in made}
MadeFor(s, b) == \E m \in made : m.sid = s /\ m.browser = b

\* With one key and a store that never fails, a lookup finds what is there.
Reliable == ~Faults /\ MaxKey = 0

\* A step that turns request q into x.
Moved(q, x) ==
    /\ x.pc = "take" => /\ x.browser \in Browsers /\ x.state \in States
                        /\ x.state = loginCookie[x.browser]
    /\ x.pc \in Holding => /\ q.pc \in Holding \cup {"take"}
                           /\ x.state = q.state /\ x.browser = q.browser
    /\ x.pc = "create" => /\ codes[x.code].txn = x.state
                          /\ x.ttl > 0 /\ now = x.exp - x.ttl
    /\ x.pc = "lookup" => /\ x.browser \in Browsers /\ x.sid # NoSid
                          /\ x.sid = sessionCookie[x.browser]
    /\ x.pc = "delete" => q.pc = "lookup" /\ x.sid = q.sid /\ x.csrf = x.sid
    /\ x.reply = "redirect" => starter'[x.state] = x.browser
    /\ x.reply = "loggedIn" => \E m \in made' : m.sid = x.sid /\ m.browser = x.browser
    /\ x.reply \in {"gone", "loggedOut"} => q.pc \in {"lookup", "delete"} /\ x.sid = q.sid
    /\ x.reply = "loggedOut" \/ (x.reply = "gone" /\ Reliable) => x.sid \notin Ids(sessions')

RequestsMove == \A r \in Requests : req'[r] = req[r] \/ Moved(req[r], req'[r])

\* History is kept, and a code keeps the login that it was issued for.
HistoryKept ==
    /\ \A t \in States : starter[t] # NoBrowser => starter'[t] = starter[t]
    /\ \A c \in Codes : codes[c].txn # NoState => codes'[c].txn = codes[c].txn
    /\ made \subseteq made'

\* A cookie is set by a reply to its browser.
CookiesMove ==
    \A b \in Browsers :
        /\ \/ loginCookie'[b] \in {loginCookie[b], NoState}
           \/ \E r \in Requests : /\ req[r].reply = "redirect" /\ req[r].browser = b
                                  /\ loginCookie'[b] = req[r].state
        /\ \/ sessionCookie'[b] \in {sessionCookie[b], NoSid}
           \/ \E r \in Requests : /\ req[r].reply = "loggedIn" /\ req[r].browser = b
                                  /\ sessionCookie'[b] = req[r].sid

\* A session is made by a callback, alone and under an id that is new.
SessionsMade ==
    \A m \in made' \ made :
        /\ made' = made \cup {m} /\ m.sid \notin MadeSids
        /\ \E r \in Requests : /\ req[r].pc = "create" /\ m.state = req[r].state
                               /\ m.code = req[r].code /\ m.browser = req[r].browser

\* Records come from a SET and go by a DEL, a GETDEL or by time.
RecordsMove ==
    /\ \A e \in sessions' \ sessions :
         /\ now' = now /\ e.id \in MadeSids' \ MadeSids
         /\ \E r \in Requests : /\ req[r].pc = "create" /\ e.exp = req[r].exp
                                /\ e.deadline = Deadline(req[r].ttl)
         /\ \E m \in made' : m.sid = e.id /\ m.code = e.token
    /\ \A e \in sessions : e.id \notin Ids(sessions') /\ e.id \in MadeSids =>
         \/ e.deadline <= now'
         \/ \E r \in Requests : req[r].pc = "delete" /\ req[r].sid = e.id
    /\ \A e \in logins' \ logins : now' = now /\ e.deadline = Deadline(LoginTTL)
    /\ \A e \in logins : e.id \notin Ids(logins') =>
         \/ e.deadline <= now'
         \/ \E r \in Requests : req[r].pc = "take" /\ req[r].state = e.id

\* Time passes for no callback that is too late with its SET, and takes the
\* records it makes due.
ClockMoves ==
    \/ now' = now
    \/ /\ now' = now + 1 /\ req' = req
       /\ \A r \in Requests : CreateInTime(r)
       /\ \A e \in logins' \cup sessions' : e.deadline = NoExpiry \/ e.deadline > now'

Effects ==
    /\ RequestsMove /\ HistoryKept /\ CookiesMove
    /\ SessionsMade /\ RecordsMove /\ ClockMoves

----------------------------------------------------------------------------
(* Every step has these effects only                                       *)

\* One request moves.
LEMMA OneMoves ==
    ASSUME TypeOK, NEW r \in Requests, NEW x, req' = [req EXCEPT ![r] = x],
           Moved(req[r], x)
    PROVE  RequestsMove
  <1>1. \A r2 \in Requests : req'[r2] = IF r2 = r THEN x ELSE req[r2]
    BY DEF TypeOK
  <1>2. QED
    BY <1>1 DEF RequestsMove

\* Nothing but requests moves.
LEMMA OnlyRequests ==
    ASSUME TypeOK, RequestsMove,
           UNCHANGED <<now, logins, sessions, starter, codes, made,
                       loginCookie, sessionCookie>>
    PROVE  Effects
  <1>1. HistoryKept /\ CookiesMove /\ SessionsMade /\ RecordsMove /\ ClockMoves
    BY DEF HistoryKept, CookiesMove, SessionsMade, RecordsMove, ClockMoves, Ids
  <1>2. QED
    BY <1>1 DEF Effects

LEMMA GivenUp == ASSUME NEW q PROVE Moved(q, Idle)
  BY DEF Moved, Idle, Holding

\* An answer that neither logs in nor out.
LEMMA PlainReply ==
    ASSUME NEW q, NEW a, NEW what \in {"refused", "failed", "anonymous", "authenticated"}
    PROVE  Moved(q, Reply(a, what))
  <1>1. Reply(a, what).pc = "respond" /\ Reply(a, what).reply = what
    BY DEF Reply, Idle
  <1>2. QED
    BY <1>1 DEF Moved, Holding

\* LoginHandler writes a record and answers the browser that will have started
\* the login.
LEMMA LoginEffects ==
    ASSUME TypeOK, NEW r \in Requests, NEW b \in Browsers, NEW p \in Replicas,
           Login(r, b, p)
    PROVE  Effects
  <1> DEFINE a == Arrive(b, p)
             x(t, o) == IF o.ok THEN [Reply(a, "redirect") EXCEPT !.state = t]
                                ELSE Reply(a, "refused")
             e(t) == [id |-> t, key |-> keyOf[p], deadline |-> Deadline(LoginTTL)]
  <1>1. PICK t \in FreshStates : \E o \in CreateLoginTransaction(t, keyOf[p], LoginTTL) :
          /\ logins' = o.db /\ starter' = [starter EXCEPT ![t] = b]
          /\ req' = [req EXCEPT ![r] = x(t, o)]
    BY DEF Login
  <1>2. PICK o \in CreateLoginTransaction(t, keyOf[p], LoginTTL) :
          /\ logins' = o.db /\ starter' = [starter EXCEPT ![t] = b]
          /\ req' = [req EXCEPT ![r] = x(t, o)]
    BY <1>1
  <1>3. UNCHANGED <<now, sessions, codes, made, loginCookie, sessionCookie>>
    BY DEF Login, browserVars, idpVars
  <1>4. /\ starter'[t] = b
        /\ \A u \in States : starter[u] # NoBrowser => starter'[u] = starter[u]
    BY <1>2 DEF FreshStates, TypeOK
  <1>5. Moved(req[r], x(t, o))
    <2>1. CASE o.ok
      <3> DEFINE y == [Reply(a, "redirect") EXCEPT !.state = t]
      <3>1. y.pc = "respond" /\ y.reply = "redirect" /\ y.state = t /\ y.browser = b
        BY DEF Reply, Arrive, Idle
      <3> HIDE DEF y
      <3>2. Moved(req[r], y)
        BY <1>4, <3>1 DEF Moved, Holding
      <3>3. QED
        BY <2>1, <3>2 DEF y
    <2>2. CASE ~o.ok
      BY <2>2, PlainReply
    <2>3. QED
      BY <2>1, <2>2
  <1>6. RequestsMove
    <2> HIDE DEF x
    <2>1. QED
      BY <1>2, <1>5, OneMoves
  <1>7. o \in Set(logins, e(t)) /\ e(t).deadline = Deadline(LoginTTL)
    BY DEF CreateLoginTransaction
  <1>8. /\ \A d \in logins' \ logins : d.deadline = Deadline(LoginTTL)
        /\ \A d \in logins : d.id \in Ids(logins')
    <2> HIDE DEF e
    <2>1. o.db = logins \/ o.db = (logins \ Find(logins, e(t).id)) \cup {e(t)}
      BY <1>7, SetOutcome
    <2>2. QED
      BY <1>2, <1>7, <2>1 DEF Ids, Find
  <1>9. RecordsMove
    BY <1>3, <1>8 DEF RecordsMove, Ids
  <1>10. HistoryKept /\ CookiesMove /\ SessionsMade /\ ClockMoves
    BY <1>3, <1>4 DEF HistoryKept, CookiesMove, SessionsMade, ClockMoves
  <1>11. QED
    BY <1>6, <1>9, <1>10 DEF Effects

\* A callback gets past the cookie only with the state that is in it; a logout
\* and a page load look for the session of the cookie.
LEMMA ArrivalEffects ==
    ASSUME TypeOK, NEW r \in Requests, NEW b \in Browsers, NEW p \in Replicas
    PROVE  /\ Callback(r, b, p) => Effects
           /\ Logout(r, b, p) => Effects
           /\ SessionStatus(r, b, p) => Effects
  <1> DEFINE a == Arrive(b, p)
  <1>1. a \in RequestRecord /\ a.browser = b /\ a.reply = "none"
    BY ArriveType DEF ArriveFields, TypeOK
  <1> HIDE DEF a
  <1>2. ASSUME Callback(r, b, p) PROVE Effects
    <2> DEFINE q(t, c) == [a EXCEPT !.pc = "take", !.state = t, !.code = c]
               x(t, c) == IF loginCookie[b] = NoState THEN Reply(q(t, c), "refused")
                          ELSE IF ~CookieMatches(b, t) THEN Reply(q(t, c), "failed")
                          ELSE q(t, c)
    <2>1. PICK t \in redirects, c \in (Codes \ FreshCodes) \cup {NoCode} :
            req' = [req EXCEPT ![r] = x(t, c)]
      BY <1>2 DEF Callback, a
    <2>2. /\ q(t, c).pc = "take" /\ q(t, c).state = t /\ q(t, c).browser = b
          /\ q(t, c).reply = "none" /\ t \in States
      BY <1>1 DEF RequestRecord, TypeOK
    <2> HIDE DEF q
    <2>3. t = loginCookie[b] => Moved(req[r], q(t, c))
      BY <2>2 DEF Moved, Holding
    <2>4. Moved(req[r], Reply(q(t, c), "refused")) /\ Moved(req[r], Reply(q(t, c), "failed"))
      BY PlainReply
    <2>5. Moved(req[r], x(t, c))
      BY <2>3, <2>4 DEF CookieMatches
    <2> HIDE DEF x
    <2>6. RequestsMove
      BY <2>1, <2>5, OneMoves
    <2>7. QED
      BY <1>2, <2>6, OnlyRequests
      DEF Callback, storeVars, browserVars, idpVars, historyVars
  <1>3. ASSUME Logout(r, b, p) PROVE Effects
    <2> DEFINE q == [a EXCEPT !.pc = "lookup", !.csrf = page[b], !.sid = sessionCookie[b]]
               x == IF sessionCookie[b] = NoSid THEN Reply(q, "refused") ELSE q
    <2>1. req' = [req EXCEPT ![r] = x]
      BY <1>3 DEF Logout, a
    <2>2. /\ q.pc = "lookup" /\ q.sid = sessionCookie[b] /\ q.browser = b
          /\ q.reply = "none"
      BY <1>1 DEF RequestRecord
    <2> HIDE DEF q
    <2>3. sessionCookie[b] # NoSid => Moved(req[r], q)
      BY <2>2 DEF Moved, Holding
    <2>4. Moved(req[r], x)
      BY <2>3, PlainReply
    <2> HIDE DEF x
    <2>5. RequestsMove
      BY <2>1, <2>4, OneMoves
    <2>6. QED
      BY <1>3, <2>5, OnlyRequests
      DEF Logout, storeVars, browserVars, idpVars, historyVars
  <1>4. ASSUME SessionStatus(r, b, p) PROVE Effects
    <2> DEFINE q == [a EXCEPT !.pc = "status", !.sid = sessionCookie[b]]
               x == IF sessionCookie[b] = NoSid THEN Reply(q, "anonymous") ELSE q
    <2>1. req' = [req EXCEPT ![r] = x]
      BY <1>4 DEF SessionStatus, a
    <2>2. q.pc = "status" /\ q.reply = "none"
      BY <1>1 DEF RequestRecord
    <2> HIDE DEF q
    <2>3. Moved(req[r], q)
      BY <2>2 DEF Moved, Holding
    <2>4. Moved(req[r], x)
      BY <2>3, PlainReply
    <2> HIDE DEF x
    <2>5. RequestsMove
      BY <2>1, <2>4, OneMoves
    <2>6. QED
      BY <1>4, <2>5, OnlyRequests
      DEF SessionStatus, storeVars, browserVars, idpVars, historyVars
  <1>5. QED
    BY <1>2, <1>3, <1>4

\* The login's record goes, and the callback carries on with its state.
LEMMA TakeEffects ==
    ASSUME TypeOK, NEW r \in Requests, CallbackTake(r)
    PROVE  Effects
  <1> DEFINE q == req[r]
             x == [q EXCEPT !.pc = "exchange"]
  <1>1. PICK o \in TakeLoginTransaction(q.state, q.key) :
          /\ logins' = o.db
          /\ req' = [req EXCEPT ![r] =
               IF o.res = {} \/ q.code = NoCode THEN Reply(q, "failed") ELSE x]
    BY DEF CallbackTake
  <1>2. /\ UNCHANGED <<now, sessions, starter, codes, made, loginCookie, sessionCookie>>
        /\ q.pc = "take" /\ q \in RequestRecord /\ q.reply = "none"
    BY DEF CallbackTake, browserVars, idpVars, historyVars, TypeOK, Request
  <1>3. /\ x.pc = "exchange" /\ x.state = q.state /\ x.browser = q.browser
        /\ x.reply = "none"
    BY <1>2 DEF RequestRecord
  <1> HIDE DEF x
  <1>4. Moved(q, x)
    BY <1>2, <1>3 DEF Moved, Holding
  <1>5. RequestsMove
    BY <1>1, <1>4, PlainReply, OneMoves
  <1>6. /\ logins' \subseteq logins
        /\ \A e \in logins : e.id # q.state => e \in logins'
    <2>1. logins' = logins \/ logins' = logins \ Find(logins, q.state)
      BY <1>1, TakeLoginOutcome
    <2>2. QED
      BY <2>1 DEF Find
  <1>7. ASSUME NEW e \in logins, e.id \notin Ids(logins')
        PROVE  \E r2 \in Requests : req[r2].pc = "take" /\ req[r2].state = e.id
    BY <1>2, <1>6, <1>7 DEF Ids
  <1>8. RecordsMove
    BY <1>2, <1>6, <1>7 DEF RecordsMove, Ids
  <1>9. HistoryKept /\ CookiesMove /\ SessionsMade /\ ClockMoves
    BY <1>2 DEF HistoryKept, CookiesMove, SessionsMade, ClockMoves
  <1>10. QED
    BY <1>5, <1>8, <1>9 DEF Effects

\* A code is spent, and the callback carries on.
LEMMA ExchangeEffects ==
    ASSUME TypeOK, NEW r \in Requests, CallbackExchange(r)
    PROVE  Effects
  <1> DEFINE q == req[r]
             x == [q EXCEPT !.pc = "verify", !.exp = now + TokenTTL]
  <1>1. /\ UNCHANGED <<now, logins, sessions, starter, made, loginCookie, sessionCookie>>
        /\ q.pc = "exchange" /\ q \in RequestRecord /\ q.reply = "none"
        /\ codes' \in {codes, Spend(q.code)}
    BY DEF CallbackExchange, storeVars, browserVars, historyVars, TypeOK, Request
  <1>2. \A d \in Codes : codes'[d].txn = codes[d].txn
    BY <1>1 DEF Spend, TypeOK, AuthCode
  <1>3. req' = [req EXCEPT ![r] = x] \/ req' = [req EXCEPT ![r] = Reply(q, "failed")]
    BY DEF CallbackExchange
  <1>4. /\ x.pc = "verify" /\ x.state = q.state /\ x.browser = q.browser
        /\ x.reply = "none"
    BY <1>1 DEF RequestRecord
  <1> HIDE DEF x
  <1>5. Moved(q, x)
    BY <1>1, <1>4 DEF Moved, Holding
  <1>6. RequestsMove
    BY <1>3, <1>5, PlainReply, OneMoves
  <1>7. HistoryKept
    BY <1>1, <1>2, Zenon DEF HistoryKept
  <1>8. CookiesMove /\ SessionsMade /\ RecordsMove /\ ClockMoves
    BY <1>1 DEF CookiesMove, SessionsMade, RecordsMove, ClockMoves, Ids
  <1>9. QED
    BY <1>6, <1>7, <1>8 DEF Effects

\* Only a token of this login, with time left, gets a callback to CreateSession.
LEMMA VerifyEffects ==
    ASSUME TypeOK, NEW r \in Requests, CallbackVerify(r)
    PROVE  Effects
  <1> DEFINE q == req[r]
             x == [q EXCEPT !.pc = "create", !.ttl = q.exp - now]
  <1>1. /\ q.pc = "verify" /\ q \in RequestRecord /\ q.reply = "none"
        /\ q.exp \in Nat /\ now \in Nat
    BY TimeAssumption DEF CallbackVerify, TypeOK, Request, RequestRecord
  <1>2. \/ /\ req' = [req EXCEPT ![r] = x]
           /\ NonceMatches(q.code, q.state) /\ HasTimeLeft(q.exp - now)
        \/ req' = [req EXCEPT ![r] = Reply(q, "failed")]
    BY DEF CallbackVerify
  <1>3. /\ x.pc = "create" /\ x.state = q.state /\ x.browser = q.browser
        /\ x.code = q.code /\ x.exp = q.exp /\ x.ttl = q.exp - now /\ x.reply = "none"
    BY <1>1 DEF RequestRecord
  <1> HIDE DEF x
  <1>4. NonceMatches(q.code, q.state) /\ HasTimeLeft(q.exp - now) => Moved(q, x)
    BY <1>1, <1>3 DEF Moved, Holding, NonceMatches, HasTimeLeft
  <1>5. RequestsMove
    BY <1>2, <1>4, PlainReply, OneMoves
  <1>6. QED
    BY <1>5, OnlyRequests DEF CallbackVerify, storeVars, browserVars, idpVars, historyVars

\* One record under a fresh id, for the browser of the callback.
LEMMA CreateEffects ==
    ASSUME TypeOK, NEW r \in Requests, CallbackCreate(r)
    PROVE  Effects
  <1> DEFINE q == req[r]
             m(s) == [sid |-> s, state |-> q.state, code |-> q.code, browser |-> q.browser]
             e(s) == [id |-> s, key |-> q.key, deadline |-> Deadline(q.ttl),
                      exp |-> q.exp, token |-> q.code]
             x(s, o) == IF o.ok THEN [Reply(q, "loggedIn") EXCEPT !.sid = s]
                                ELSE Reply(q, "failed")
  <1>1. PICK s \in FreshSids : \E o \in CreateSession(s, q.key, q.exp, q.code, q.ttl) :
          /\ sessions' = o.db
          /\ made' = IF s \in Ids(o.db) THEN made \cup {m(s)} ELSE made
          /\ req' = [req EXCEPT ![r] = x(s, o)]
    BY DEF CallbackCreate
  <1>2. PICK o \in CreateSession(s, q.key, q.exp, q.code, q.ttl) :
          /\ sessions' = o.db
          /\ made' = IF s \in Ids(o.db) THEN made \cup {m(s)} ELSE made
          /\ req' = [req EXCEPT ![r] = x(s, o)]
    BY <1>1
  <1>3. /\ UNCHANGED <<now, logins, starter, codes, loginCookie, sessionCookie>>
        /\ q.pc = "create" /\ s \notin MadeSids
    BY DEF CallbackCreate, browserVars, idpVars, FreshSids, MadeSids
  <1>4. /\ m(s).sid = s /\ m(s).state = q.state /\ m(s).code = q.code
        /\ m(s).browser = q.browser
        /\ e(s).id = s /\ e(s).deadline = Deadline(q.ttl) /\ e(s).exp = q.exp
        /\ e(s).token = q.code
    OBVIOUS
  <1>5. o \in Set(sessions, e(s))
    BY DEF CreateSession
  <1> HIDE DEF e, m
  <1>6. /\ o.db = sessions \/ o.db = (sessions \ Find(sessions, s)) \cup {e(s)}
        /\ o.ok => e(s) \in o.db
    BY <1>4, <1>5, SetOutcome
  <1>7. /\ s \in Ids(sessions') =>
             /\ s \in MadeSids'
             /\ \E n \in made' : n.sid = s /\ n.browser = q.browser
             /\ \E n \in made' : n.sid = s /\ n.code = q.code
        /\ o.ok => s \in Ids(sessions')
    <2>1. s \in Ids(sessions') => m(s) \in made'
      BY <1>2
    <2>2. s \in Ids(sessions') => s \in MadeSids'
      BY <1>4, <2>1 DEF MadeSids
    <2>3. o.ok => s \in Ids(sessions')
      BY <1>2, <1>4, <1>6 DEF Ids
    <2>4. QED
      BY <1>4, <2>1, <2>2, <2>3
  <1>8. Moved(q, x(s, o))
    <2>1. CASE o.ok
      <3> DEFINE y == [Reply(q, "loggedIn") EXCEPT !.sid = s]
      <3>1. y.pc = "respond" /\ y.reply = "loggedIn" /\ y.sid = s /\ y.browser = q.browser
        BY DEF Reply, Idle
      <3> HIDE DEF y
      <3>2. Moved(q, y)
        <4>1. \E n \in made' : n.sid = y.sid /\ n.browser = y.browser
          BY <1>7, <2>1, <3>1
        <4>2. QED
          BY <3>1, <4>1 DEF Moved, Holding
      <3>3. QED
        BY <2>1, <3>2 DEF y
    <2>2. CASE ~o.ok
      BY <2>2, PlainReply
    <2>3. QED
      BY <2>1, <2>2
  <1>9. RequestsMove
    <2> HIDE DEF x
    <2>1. QED
      BY <1>2, <1>8, OneMoves
  <1>10. RecordsMove
    <2>1. \A d \in sessions' \ sessions : d = e(s) /\ s \in Ids(sessions')
      BY <1>2, <1>4, <1>6 DEF Ids
    <2>2. \A d \in sessions : d.id \in MadeSids => d \in sessions'
      BY <1>2, <1>3, <1>6 DEF Find
    <2>3. QED
      BY <1>3, <1>4, <1>7, <2>1, <2>2 DEF RecordsMove, Ids
  <1>11. SessionsMade
    BY <1>2, <1>3, <1>4 DEF SessionsMade
  <1>12. HistoryKept /\ CookiesMove /\ ClockMoves
    BY <1>2, <1>3 DEF HistoryKept, CookiesMove, ClockMoves
  <1>13. QED
    BY <1>9, <1>10, <1>11, <1>12 DEF Effects

\* A logout that found its session deletes it, if the page asked for that one;
\* its answer says so only when the DEL was acknowledged.
LEMMA ServedEffects ==
    ASSUME TypeOK, NEW r \in Requests
    PROVE  /\ LogoutLookup(r) => Effects
           /\ LogoutDelete(r) => Effects
           /\ SessionLookup(r) => Effects
           /\ Deliver(r) => Effects
           /\ Lose(r) => Effects
  <1> DEFINE q == req[r]
  <1>1. q \in RequestRecord /\ q \in Request
    BY DEF TypeOK, Request
  <1>2. ASSUME LogoutLookup(r) PROVE Effects
    <2> DEFINE x == [q EXCEPT !.pc = "delete"]
               y == Reply(q, "gone")
    <2>1. q.pc = "lookup" /\ q.reply = "none" /\ UNCHANGED sessions
      BY <1>1, <1>2 DEF LogoutLookup, storeVars, Request
    <2>2. PICK found \in GetSession(q.sid, q.key) :
            req' = [req EXCEPT ![r] =
              IF found = {} THEN y
              ELSE IF ~CsrfMatches(q, q.sid) THEN Reply(q, "refused") ELSE x]
      BY <1>2 DEF LogoutLookup
    <2>3. x.pc = "delete" /\ x.sid = q.sid /\ x.csrf = q.csrf /\ x.reply = "none"
      BY <1>1, <2>1 DEF RequestRecord
    <2>4. y.pc = "respond" /\ y.reply = "gone" /\ y.sid = q.sid
      BY DEF Reply, Idle
    <2> HIDE DEF x, y
    <2>5. CsrfMatches(q, q.sid) => Moved(q, x)
      BY <2>1, <2>3 DEF Moved, Holding, CsrfMatches
    <2>6. found = {} /\ Reliable => q.sid \notin Ids(sessions)
      <3> SUFFICES ASSUME found = {}, Reliable, NEW e \in sessions, e.id = q.sid
                   PROVE  FALSE
        BY DEF Ids
      <3>1. found = Opened(Find(sessions, q.sid), q.key)
        BY DEF GetSession, Get, Reliable
      <3>2. e.key = 0 /\ q.key = 0
        BY <1>1 DEF Reliable, EncKeys, TypeOK, Record, RequestRecord
      <3>3. QED
        BY <3>1, <3>2 DEF Opened, Find
    <2>7. found = {} => Moved(q, y)
      BY <2>1, <2>4, <2>6 DEF Moved, Holding
    <2>8. RequestsMove
      BY <2>2, <2>5, <2>7, PlainReply, OneMoves
    <2>9. QED
      BY <1>2, <2>8, OnlyRequests
      DEF LogoutLookup, storeVars, browserVars, idpVars, historyVars
  <1>3. ASSUME LogoutDelete(r) PROVE Effects
    <2> DEFINE y == Reply(q, "loggedOut")
    <2>1. /\ q.pc = "delete"
          /\ UNCHANGED <<now, logins, starter, codes, made, loginCookie, sessionCookie>>
      BY <1>3 DEF LogoutDelete, browserVars, idpVars, historyVars
    <2>2. PICK o \in DeleteSession(q.sid) :
            /\ sessions' = o.db
            /\ req' = [req EXCEPT ![r] = Reply(q, IF o.ok THEN "loggedOut" ELSE "refused")]
      BY <1>3 DEF LogoutDelete
    <2>3. /\ o.db = sessions \/ o.db = sessions \ Find(sessions, q.sid)
          /\ o.ok => o.db = sessions \ Find(sessions, q.sid)
      BY DelOutcome DEF DeleteSession
    <2>4. y.pc = "respond" /\ y.reply = "loggedOut" /\ y.sid = q.sid
      BY DEF Reply, Idle
    <2> HIDE DEF y
    <2>5. o.ok => q.sid \notin Ids(sessions')
      BY <2>2, <2>3 DEF Ids, Find
    <2>6. o.ok => Moved(q, y)
      BY <2>1, <2>4, <2>5 DEF Moved, Holding
    <2>7. RequestsMove
      BY <2>2, <2>6, PlainReply, OneMoves DEF y
    <2>8. RecordsMove
      BY <2>1, <2>2, <2>3 DEF RecordsMove, Ids, Find
    <2>9. HistoryKept /\ CookiesMove /\ SessionsMade /\ ClockMoves
      BY <2>1 DEF HistoryKept, CookiesMove, SessionsMade, ClockMoves
    <2>10. QED
      BY <2>7, <2>8, <2>9 DEF Effects
  <1>4. ASSUME SessionLookup(r) PROVE Effects
    <2>1. \E what \in {"anonymous", "authenticated"} : req' = [req EXCEPT ![r] = Reply(q, what)]
      BY <1>4 DEF SessionLookup
    <2>2. RequestsMove
      BY <2>1, PlainReply, OneMoves
    <2>3. QED
      BY <1>4, <2>2, OnlyRequests
      DEF SessionLookup, storeVars, browserVars, idpVars, historyVars
  <1>5. ASSUME Deliver(r) PROVE Effects
    <2>1. /\ UNCHANGED <<now, logins, sessions, starter, codes, made>>
          /\ req' = [req EXCEPT ![r] = Idle] /\ q.browser \in Browsers
      BY <1>1, <1>5 DEF Deliver, storeVars, idpVars, historyVars, Request
    <2>2. RequestsMove
      BY <2>1, GivenUp, OneMoves
    <2>3. ASSUME NEW b \in Browsers
          PROVE  \/ loginCookie'[b] \in {loginCookie[b], NoState}
                 \/ /\ q.reply = "redirect" /\ q.browser = b
                    /\ loginCookie'[b] = q.state
      <3>1. CASE q.reply = "redirect"
        BY <1>5, <2>1, <3>1 DEF Deliver, TypeOK
      <3>2. CASE q.reply \in {"failed", "loggedIn"}
        BY <1>5, <2>1, <3>2 DEF Deliver, TypeOK
      <3>3. CASE q.reply \notin {"redirect", "failed", "loggedIn"}
        BY <1>5, <2>1, <3>3 DEF Deliver, TypeOK
      <3>4. QED
        BY <3>1, <3>2, <3>3
    <2>4. ASSUME NEW b \in Browsers
          PROVE  \/ sessionCookie'[b] \in {sessionCookie[b], NoSid}
                 \/ /\ q.reply = "loggedIn" /\ q.browser = b
                    /\ sessionCookie'[b] = q.sid
      <3>1. CASE q.reply = "loggedIn"
        BY <1>5, <2>1, <3>1 DEF Deliver, TypeOK
      <3>2. CASE q.reply \in {"gone", "loggedOut"}
        BY <1>5, <2>1, <3>2 DEF Deliver, TypeOK
      <3>3. CASE q.reply \notin {"loggedIn", "gone", "loggedOut"}
        BY <1>5, <2>1, <3>3 DEF Deliver, TypeOK
      <3>4. QED
        BY <3>1, <3>2, <3>3
    <2>5. CookiesMove
      BY <2>3, <2>4, Zenon DEF CookiesMove
    <2>6. HistoryKept /\ SessionsMade /\ RecordsMove /\ ClockMoves
      BY <2>1 DEF HistoryKept, SessionsMade, RecordsMove, ClockMoves, Ids
    <2>7. QED
      BY <2>2, <2>5, <2>6 DEF Effects
  <1>6. ASSUME Lose(r) PROVE Effects
    <2>1. RequestsMove
      BY <1>6, GivenUp, OneMoves DEF Lose
    <2>2. QED
      BY <1>6, <2>1, OnlyRequests
      DEF Lose, storeVars, browserVars, idpVars, historyVars
  <1>7. QED
    BY <1>2, <1>3, <1>4, <1>5, <1>6

\* The provider, the browsers, the rollout and the clock.
LEMMA EnvironmentEffects ==
    ASSUME TypeOK
    PROVE  /\ \A t \in States : Authorize(t) => Effects
           /\ \A b \in Browsers : DropCookie(b) => Effects
           /\ \A p \in Replicas : Roll(p) => Effects
           /\ Tick => Effects
           /\ UNCHANGED vars => Effects
  <1>1. UNCHANGED req => RequestsMove
    BY DEF RequestsMove
  <1>2. ASSUME NEW t \in States, Authorize(t) PROVE Effects
    <2>1. \A c \in Codes : codes[c].txn # NoState => codes'[c].txn = codes[c].txn
      BY <1>2 DEF Authorize, FreshCodes, TypeOK
    <2>2. UNCHANGED <<storeVars, req, browserVars, historyVars>>
      BY <1>2 DEF Authorize
    <2>3. QED
      BY <1>1, <2>1, <2>2
      DEF Effects, HistoryKept, CookiesMove, SessionsMade, RecordsMove, ClockMoves, Ids,
          storeVars, browserVars, historyVars
  <1>3. ASSUME NEW b \in Browsers, DropCookie(b) PROVE Effects
    <2>1. UNCHANGED <<storeVars, req, idpVars, historyVars>>
      BY <1>3 DEF DropCookie
    <2>2. CookiesMove
      BY <1>3 DEF DropCookie, CookiesMove, TypeOK
    <2>3. QED
      BY <1>1, <2>1, <2>2
      DEF Effects, HistoryKept, SessionsMade, RecordsMove, ClockMoves, Ids,
          storeVars, idpVars, historyVars
  <1>4. ASSUME NEW p \in Replicas, Roll(p) PROVE Effects
    BY <1>1, <1>4, OnlyRequests DEF Roll, storeVars, browserVars, idpVars, historyVars
  <1>5. ASSUME Tick PROVE Effects
    <2>1. /\ now' = now + 1 /\ logins' = Unexpired(logins, now')
          /\ sessions' = Unexpired(sessions, now') /\ \A r \in Requests : CreateInTime(r)
          /\ UNCHANGED <<req, browserVars, idpVars, historyVars>> /\ now \in Nat
      BY <1>5, TimeAssumption DEF Tick, StoreTick, TypeOK
    <2>2. /\ logins' \subseteq logins /\ sessions' \subseteq sessions
          /\ \A e \in logins' \cup sessions' : e.deadline = NoExpiry \/ e.deadline > now'
          /\ \A e \in (sessions \ sessions') \cup (logins \ logins') : ~(e.deadline > now')
      BY <2>1 DEF Unexpired
    <2>3. ClockMoves
      BY <2>1, <2>2 DEF ClockMoves
    <2>4. \A e \in sessions \cup logins : e.deadline \in Nat
      BY DEF TypeOK, Record, LoginTransaction
    <2>5. RecordsMove
      BY <2>1, <2>2, <2>4 DEF RecordsMove, Ids
    <2>6. QED
      BY <1>1, <2>1, <2>3, <2>5
      DEF Effects, HistoryKept, CookiesMove, SessionsMade, browserVars, idpVars, historyVars
  <1>6. ASSUME UNCHANGED vars PROVE Effects
    BY <1>1, <1>6, OnlyRequests DEF vars, storeVars, browserVars, idpVars, historyVars
  <1>7. QED
    BY <1>2, <1>3, <1>4, <1>5, <1>6

LEMMA StepEffects == TypeOK /\ [Next]_vars => Effects
  BY LoginEffects, ArrivalEffects, TakeEffects, ExchangeEffects, VerifyEffects,
     CreateEffects, ServedEffects, EnvironmentEffects DEF Next

----------------------------------------------------------------------------
(* Whose it is                                                             *)

\* A login's browser, from the reply that sets the cookie to the session, and a
\* code's login, from the check of the nonce on.
RequestBound(q) ==
    /\ q.pc \in Holding \cup {"take"} \/ q.reply = "redirect" => starter[q.state] = q.browser
    /\ q.pc = "create" => codes[q.code].txn = q.state
    /\ q.reply = "loggedIn" => MadeFor(q.sid, q.browser)

Bound ==
    /\ \A r \in Requests : RequestBound(req[r])
    /\ \A b \in Browsers : loginCookie[b] # NoState => starter[loginCookie[b]] = b
    /\ BoundToBrowser /\ BoundToToken

LEMMA BoundInit == Init => Bound
  BY DEF Init, Idle, Bound, RequestBound, Holding, BoundToBrowser, BoundToToken

\* Who started a login, and what a code was issued for, stays.
LEMMA KeptHistory ==
    ASSUME TypeOK, HistoryKept
    PROVE  /\ \A t \in States, b \in Browsers : starter[t] = b => starter'[t] = b
           /\ \A c \in Codes, t \in States : codes[c].txn = t => codes'[c].txn = t
           /\ \A s, b : MadeFor(s, b) => MadeFor(s, b)'
  BY NoneAssumption DEF HistoryKept, MadeFor

LEMMA BoundStep == TypeOK /\ TypeOK' /\ Bound /\ Effects => Bound'
  <1> SUFFICES ASSUME TypeOK, TypeOK', Bound, Effects PROVE Bound'
    OBVIOUS
  <1>1. /\ \A t \in States, b \in Browsers : starter[t] = b => starter'[t] = b
        /\ \A c \in Codes, t \in States : codes[c].txn = t => codes'[c].txn = t
        /\ \A s, b : MadeFor(s, b) => MadeFor(s, b)'
    BY KeptHistory DEF Effects
  <1>2. ASSUME NEW r \in Requests PROVE RequestBound(req[r])'
    <2> DEFINE q == req[r]
               x == req'[r]
    <2>1. /\ q \in Request /\ x \in Request /\ RequestBound(q)
      BY <1>2 DEF TypeOK, Bound
    <2>2. x = q \/ Moved(q, x)
      BY DEF Effects, RequestsMove
    <2>3. /\ q.pc \in Holding \cup {"take"} \/ q.reply = "redirect" =>
               q.state \in States /\ q.browser \in Browsers
          /\ q.pc = "create" => q.code \in Codes
          /\ x.pc = "create" => x.code \in Codes /\ x.state \in States
      BY <2>1 DEF Request, Holding
    <2>4. x.pc \in Holding \cup {"take"} \/ x.reply = "redirect" => starter'[x.state] = x.browser
      <3>1. CASE x = q
        BY <1>1, <2>1, <2>3, <3>1 DEF RequestBound
      <3>2. CASE Moved(q, x) /\ x.pc \in Holding
        BY <1>1, <2>1, <2>3, <3>2 DEF RequestBound, Moved
      <3>3. CASE Moved(q, x) /\ x.pc = "take"
        <4>1. x.state \in States /\ x.browser \in Browsers /\ x.state = loginCookie[x.browser]
          BY <3>3 DEF Moved
        <4>2. QED
          BY <1>1, <4>1, NoneAssumption DEF Bound
      <3>4. CASE Moved(q, x) /\ x.reply = "redirect"
        BY <3>4 DEF Moved
      <3>5. QED
        BY <2>2, <3>1, <3>2, <3>3, <3>4
    <2>5. x.pc = "create" => codes'[x.code].txn = x.state
      BY <1>1, <2>1, <2>2, <2>3 DEF RequestBound, Moved
    <2>6. x.reply = "loggedIn" => \E m \in made' : m.sid = x.sid /\ m.browser = x.browser
      <3>1. CASE x = q
        BY <2>1, <3>1 DEF RequestBound, MadeFor, Effects, HistoryKept
      <3>2. QED
        BY <2>2, <3>1 DEF Moved
    <2>7. QED
      BY <2>4, <2>5, <2>6 DEF RequestBound, MadeFor
  <1>3. ASSUME NEW b \in Browsers, loginCookie'[b] # NoState
        PROVE  starter'[loginCookie'[b]] = b
    <2>1. CASE loginCookie'[b] = loginCookie[b]
      BY <1>1, <1>3, <2>1 DEF Bound, TypeOK
    <2>2. CASE \E r \in Requests : /\ req[r].reply = "redirect" /\ req[r].browser = b
                                   /\ loginCookie'[b] = req[r].state
      <3>1. PICK r \in Requests : /\ req[r].reply = "redirect" /\ req[r].browser = b
                                  /\ loginCookie'[b] = req[r].state
        BY <2>2
      <3>2. starter[req[r].state] = b /\ req[r].state \in States
        BY <3>1 DEF Bound, RequestBound, TypeOK, Request
      <3>3. QED
        BY <1>1, <3>1, <3>2
    <2>3. QED
      BY <1>3, <2>1, <2>2 DEF Effects, CookiesMove
  <1>4. ASSUME NEW b \in Browsers, sessionCookie'[b] # NoSid
        PROVE  \E m \in made' : m.sid = sessionCookie'[b] /\ m.browser = b
    <2>1. CASE sessionCookie'[b] = sessionCookie[b]
      BY <1>4, <2>1 DEF Bound, BoundToBrowser, Effects, HistoryKept
    <2>2. CASE \E r \in Requests : /\ req[r].reply = "loggedIn" /\ req[r].browser = b
                                   /\ sessionCookie'[b] = req[r].sid
      BY <2>2 DEF Bound, RequestBound, MadeFor, Effects, HistoryKept
    <2>3. QED
      BY <1>4, <2>1, <2>2 DEF Effects, CookiesMove
  <1>5. ASSUME NEW m \in made'
        PROVE  starter'[m.state] = m.browser /\ codes'[m.code].txn = m.state
    <2>1. m.state \in States /\ m.code \in Codes /\ m.browser \in Browsers
      BY DEF TypeOK, Provenance
    <2>2. starter[m.state] = m.browser /\ codes[m.code].txn = m.state
      <3>1. CASE m \in made
        BY <3>1 DEF Bound, BoundToBrowser, BoundToToken
      <3>2. CASE m \notin made
        <4>1. PICK r \in Requests : /\ req[r].pc = "create" /\ m.state = req[r].state
                                    /\ m.code = req[r].code /\ m.browser = req[r].browser
          BY <3>2 DEF Effects, SessionsMade
        <4>2. RequestBound(req[r]) /\ req[r].pc \in Holding
          BY <4>1 DEF Bound, Holding
        <4>3. QED
          BY <4>1, <4>2 DEF RequestBound
      <3>3. QED
        BY <3>1, <3>2
    <2>3. QED
      BY <1>1, <2>1, <2>2
  <1>6. BoundToBrowser' /\ BoundToToken'
    BY <1>4, <1>5 DEF BoundToBrowser, BoundToToken
  <1>7. QED
    BY <1>2, <1>3, <1>6 DEF Bound

LEMMA BoundAlways == Spec => []Bound
  <1>1. Init => TypeOK /\ Bound
    BY TypeInit, BoundInit
  <1>2. TypeOK /\ Bound /\ [Next]_vars => (TypeOK /\ Bound)'
    BY TypeStep, StepEffects, BoundStep
  <1>3. QED
    BY <1>1, <1>2, PTL DEF Spec

\* A session goes only to the browser that started its login, whichever callback
\* URLs it and others open (oidc.go, the state cookie).
THEOREM SessionBoundToBrowser == Spec => []BoundToBrowser
  <1>1. Bound => BoundToBrowser
    BY DEF Bound
  <1>2. QED
    BY <1>1, BoundAlways, PTL

\* The token of a session was issued for the login it was created by, also with
\* a provider that does not check the PKCE verifier (oidc.go, the nonce).
THEOREM SessionBoundToToken == Spec => []BoundToToken
  <1>1. Bound => BoundToToken
    BY DEF Bound
  <1>2. QED
    BY <1>1, BoundAlways, PTL

\* Before its deadline a login transaction leaves the store only for a callback
\* of the browser that started it, whatever callback URLs other browsers open
\* and whichever login cookies they hold (oidc.go:153-162).
THEOREM LoginsAreLeftToTheirBrowser == Spec => OnlyItsBrowserRedeems
  <1>1. ASSUME TypeOK, Bound, [Next]_vars, NEW e \in logins, e.id \notin Ids(logins)'
        PROVE  \/ e.deadline <= now'
               \/ \E r \in Requests : /\ req[r].pc = "take" /\ req[r].state = e.id
                                     /\ req[r].browser = starter[e.id]
    <2>1. CASE e.deadline <= now'
      BY <2>1
    <2>2. CASE ~(e.deadline <= now')
      <3>1. PICK r \in Requests : req[r].pc = "take" /\ req[r].state = e.id
        BY <1>1, <2>2, StepEffects DEF Effects, RecordsMove, Ids
      <3>2. RequestBound(req[r])
        BY <1>1 DEF Bound
      <3>3. QED
        BY <3>1, <3>2 DEF RequestBound
    <2>3. QED
      BY <2>1, <2>2
  <1>2. TypeOK /\ Bound /\ [Next]_vars =>
          \A e \in logins : e.id \notin Ids(logins)' =>
            \/ e.deadline <= now'
            \/ \E r \in Requests : /\ req[r].pc = "take" /\ req[r].state = e.id
                                  /\ req[r].browser = starter[e.id]
    BY <1>1
  <1>3. Spec => [](TypeOK /\ Bound)
    BY TypeInit, BoundInit, TypeStep, StepEffects, BoundStep, PTL DEF Spec
  <1>4. QED
    BY <1>2, <1>3, PTL DEF Spec, OnlyItsBrowserRedeems

----------------------------------------------------------------------------
(* How long it lasts                                                       *)

\* A callback on its way to CreateSession read the clock at exp - ttl, not too
\* long ago; every record is there for the time that its SET gave it.
Lasting ==
    /\ \A r \in Requests : req[r].pc = "create" =>
         req[r].ttl > 0 /\ now <= req[r].exp - req[r].ttl + MaxDelay
    /\ \A e \in sessions : now < e.deadline /\ e.deadline <= e.exp + MaxDelay
    /\ \A e \in logins : now < e.deadline /\ e.deadline <= now + LoginTTL

LEMMA LastingInit == Init => Lasting
  BY DEF Init, StoreInit, Idle, Lasting

LEMMA LastingStep == TypeOK /\ TypeOK' /\ Lasting /\ Effects => Lasting'
  <1> SUFFICES ASSUME TypeOK, TypeOK', Lasting, Effects PROVE Lasting'
    OBVIOUS
  <1>1. now \in Nat /\ now' \in Nat /\ (now' = now \/ now' = now + 1)
    BY TimeAssumption DEF TypeOK, Effects, ClockMoves
  <1>2. \A r \in Requests : req[r].exp \in Nat /\ req[r].ttl \in Int
    BY DEF TypeOK, Request, RequestRecord
  <1>3. \A e \in sessions \cup sessions' : e.deadline \in Nat /\ e.exp \in Nat
    BY DEF TypeOK, Record
  <1>4. \A e \in logins \cup logins' : e.deadline \in Nat
    BY DEF TypeOK, LoginTransaction
  <1> USE TimeAssumption
  <1>5. ASSUME NEW r \in Requests, req'[r].pc = "create"
        PROVE  req'[r].ttl > 0 /\ now' <= req'[r].exp - req'[r].ttl + MaxDelay
    <2> DEFINE x == req'[r]
    <2>1. x.exp \in Nat /\ x.ttl \in Int
      BY DEF TypeOK, Request, RequestRecord
    <2>2. CASE x = req[r] /\ now' = now
      BY <1>5, <2>2 DEF Lasting
    <2>3. CASE x = req[r] /\ now' # now
      <3>1. now' = now + 1 /\ CreateInTime(r)
        BY <2>3 DEF Effects, ClockMoves
      <3>2. x.ttl > 0 /\ now - (x.exp - x.ttl) < MaxDelay
        BY <1>5, <2>3, <3>1 DEF CreateInTime, Lasting
      <3>3. QED
        BY <1>1, <2>1, <3>1, <3>2
    <2>4. CASE x # req[r]
      <3>1. Moved(req[r], x) /\ now' = now
        BY <2>4 DEF Effects, RequestsMove, ClockMoves
      <3>2. x.ttl > 0 /\ now = x.exp - x.ttl
        BY <1>5, <3>1 DEF Moved
      <3>3. QED
        BY <1>1, <2>1, <3>1, <3>2
    <2>5. QED
      BY <2>2, <2>3, <2>4
  <1>6. ASSUME NEW e \in sessions'
        PROVE  now' < e.deadline /\ e.deadline <= e.exp + MaxDelay
    <2>1. CASE e \in sessions /\ now' = now
      BY <2>1 DEF Lasting
    <2>2. CASE e \in sessions /\ now' # now
      <3>1. /\ e.deadline = NoExpiry \/ e.deadline > now'
            /\ now < e.deadline /\ e.deadline <= e.exp + MaxDelay
        BY <2>2 DEF Effects, ClockMoves, Lasting
      <3>2. QED
        BY <1>1, <1>3, <3>1 DEF NoExpiry
    <2>3. CASE e \notin sessions
      <3>1. PICK r \in Requests : /\ req[r].pc = "create" /\ e.exp = req[r].exp
                                  /\ e.deadline = Deadline(req[r].ttl) /\ now' = now
        BY <2>3 DEF Effects, RecordsMove
      <3>2. req[r].ttl > 0 /\ now <= req[r].exp - req[r].ttl + MaxDelay
        BY <3>1 DEF Lasting
      <3>3. e.deadline = now + req[r].ttl
        BY <3>1, <3>2 DEF Deadline
      <3>4. QED
        BY <1>1, <1>2, <3>1, <3>2, <3>3
    <2>4. QED
      BY <2>1, <2>2, <2>3
  <1>7. ASSUME NEW e \in logins'
        PROVE  now' < e.deadline /\ e.deadline <= now' + LoginTTL
    <2>1. CASE e \in logins /\ now' = now
      BY <2>1 DEF Lasting
    <2>2. CASE e \in logins /\ now' # now
      <3>1. /\ e.deadline = NoExpiry \/ e.deadline > now'
            /\ now < e.deadline /\ e.deadline <= now + LoginTTL
        BY <2>2 DEF Effects, ClockMoves, Lasting
      <3>2. QED
        BY <1>1, <1>4, <3>1 DEF NoExpiry
    <2>3. CASE e \notin logins
      <3>1. e.deadline = Deadline(LoginTTL) /\ now' = now
        BY <2>3 DEF Effects, RecordsMove
      <3>2. Deadline(LoginTTL) = now + LoginTTL /\ LoginTTL \in Nat \ {0}
        BY TimeAssumption DEF Deadline
      <3>3. QED
        BY <1>1, <3>1, <3>2
    <2>4. QED
      BY <2>1, <2>2, <2>3
  <1>8. QED
    BY <1>5, <1>6, <1>7 DEF Lasting

\* No record is left without a deadline, and no session is good for longer than
\* its token but for the delay of one SET (oidc.go, the TTL of CreateSession),
\* whatever fails and however late a callback is.
THEOREM LifetimesAreBounded == Spec => []LifetimeBounded
  <1>1. Init => TypeOK /\ Lasting
    BY TypeInit, LastingInit
  <1>2. TypeOK /\ Lasting /\ [Next]_vars => (TypeOK /\ Lasting)'
    BY TypeStep, StepEffects, LastingStep
  <1>3. TypeOK /\ Lasting => LifetimeBounded
    <2> SUFFICES ASSUME TypeOK, Lasting PROVE LifetimeBounded
      OBVIOUS
    <2>1. now \in Nat
      BY TimeAssumption DEF TypeOK
    <2>2. ASSUME NEW e \in sessions PROVE e.deadline # NoExpiry /\ now < e.exp + MaxDelay
      <3>1. e.deadline \in Nat /\ e.exp \in Nat
        BY DEF TypeOK, Record
      <3>2. now < e.deadline /\ e.deadline <= e.exp + MaxDelay
        BY DEF Lasting
      <3>3. QED
        BY <2>1, <3>1, <3>2, TimeAssumption DEF NoExpiry
    <2>3. ASSUME NEW e \in logins PROVE e.deadline # NoExpiry /\ e.deadline <= now + LoginTTL
      BY <2>1 DEF TypeOK, LoginTransaction, Lasting, NoExpiry
    <2>4. QED
      BY <2>2, <2>3 DEF LifetimeBounded
  <1>4. QED
    BY <1>1, <1>2, <1>3, PTL DEF Spec

----------------------------------------------------------------------------
(* How it ends                                                             *)

\* A request that may end a session, or said that it did.
Ending(q) == q.pc \in {"lookup", "delete"} \/ q.reply \in {"gone", "loggedOut"}

\* An id in use was made once; what is gone is not in the store.
Ended(q) ==
    /\ Ending(q) => q.sid \in MadeSids
    /\ q.pc = "delete" => q.csrf = q.sid
    /\ q.reply = "loggedOut" \/ (q.reply = "gone" /\ Reliable) => q.sid \notin Ids(sessions)

EndsSound ==
    /\ Ids(sessions) \subseteq MadeSids
    /\ \A r \in Requests : Ended(req[r])

EndInv == TypeOK /\ Bound /\ EndsSound

LEMMA EndInit == Init => EndInv
  <1>1. Init => EndsSound
    BY DEF Init, StoreInit, Idle, EndsSound, Ended, Ending, Ids
  <1>2. QED
    BY <1>1, TypeInit, BoundInit DEF EndInv

\* An id that left the store does not come back.
LEMMA GoneStaysGone ==
    ASSUME Effects, NEW s \in MadeSids, s \notin Ids(sessions)
    PROVE  s \in MadeSids' /\ s \notin Ids(sessions')
  <1>1. s \in MadeSids'
    BY DEF Effects, HistoryKept, MadeSids
  <1>2. \A e \in sessions' : e.id # s
    BY DEF Effects, RecordsMove, Ids
  <1>3. QED
    BY <1>1, <1>2 DEF Ids

LEMMA EndStep == EndInv /\ [Next]_vars => EndInv'
  <1> SUFFICES ASSUME EndInv, [Next]_vars PROVE EndInv'
    OBVIOUS
  <1>1. Effects /\ TypeOK /\ TypeOK' /\ Bound /\ Bound' /\ EndsSound
    BY TypeStep, StepEffects, BoundStep DEF EndInv
  <1>2. MadeSids \subseteq MadeSids'
    BY <1>1 DEF Effects, HistoryKept, MadeSids
  <1>3. Ids(sessions') \subseteq MadeSids'
    BY <1>1, <1>2 DEF EndsSound, Effects, RecordsMove, Ids
  <1>4. ASSUME NEW r \in Requests PROVE Ended(req[r])'
    <2> DEFINE q == req[r]
               x == req'[r]
    <2>1. Ended(q) /\ (x = q \/ Moved(q, x)) /\ q \in Request /\ x \in Request
      BY <1>1 DEF EndsSound, Effects, RequestsMove, TypeOK
    <2>2. CASE x = q
      BY <1>1, <1>2, <2>1, <2>2, GoneStaysGone DEF Ended, Ending
    <2>3. CASE Moved(q, x)
      <3>1. x.pc = "lookup" => x.sid \in MadeSids
        <4>1. x.pc = "lookup" => /\ x.browser \in Browsers /\ x.sid # NoSid
                                 /\ x.sid = sessionCookie[x.browser]
          BY <2>3 DEF Moved
        <4>2. QED
          BY <1>1, <4>1 DEF Bound, BoundToBrowser, MadeSids
      <3>2. x.pc = "delete" \/ x.reply \in {"gone", "loggedOut"} => x.sid \in MadeSids
        BY <2>1, <2>3 DEF Moved, Ended, Ending
      <3>3. QED
        BY <1>2, <2>3, <3>1, <3>2 DEF Moved, Ended, Ending
    <2>4. QED
      BY <2>1, <2>2, <2>3
  <1>5. QED
    BY <1>1, <1>3, <1>4 DEF EndInv, EndsSound

LEMMA EndAlways == Spec => []EndInv
  BY EndInit, EndStep, PTL DEF Spec

\* The session of a logout that was answered 204 is not in the store, for any
\* replica, and no later callback brings it back (session_handlers.go).
THEOREM LogoutIsFinal == Spec => []LogoutMeansDeleted
  <1>1. EndInv => LogoutMeansDeleted
    BY DEF EndInv, EndsSound, Ended, LogoutMeansDeleted
  <1>2. QED
    BY <1>1, EndAlways, PTL

\* A logout that finds no session leaves none behind, if the store does not fail
\* and all replicas have one key (session_handlers.go:58-60).
THEOREM NothingIsLeft ==
    ASSUME ~Faults, MaxKey = 0
    PROVE  Spec => []NothingLeftToDelete
  <1>1. EndInv => NothingLeftToDelete
    BY DEF EndInv, EndsSound, Ended, Reliable, NothingLeftToDelete
  <1>2. QED
    BY <1>1, EndAlways, PTL

\* A session is removed before its deadline only by a logout sent from a page
\* that had loaded this very session (session_handlers.go, the CSRF token).
THEOREM OnlyOwnPage == Spec => OnlyItsPageLogsOut
  <1>1. ASSUME EndInv, [Next]_vars, NEW e \in sessions, e.id \notin Ids(sessions)'
        PROVE  \/ e.deadline <= now'
               \/ \E r \in Requests : req[r].pc = "delete" /\ req[r].csrf = e.id
    <2>1. Effects /\ EndsSound /\ e.id \in MadeSids
      BY <1>1, StepEffects DEF EndInv, EndsSound, Ids
    <2>2. \/ e.deadline <= now'
          \/ \E r \in Requests : req[r].pc = "delete" /\ req[r].sid = e.id
      BY <1>1, <2>1 DEF Effects, RecordsMove, Ids
    <2>3. QED
      BY <2>1, <2>2 DEF EndsSound, Ended
  <1>2. EndInv /\ [Next]_vars =>
          \A e \in sessions : e.id \notin Ids(sessions)' =>
            \/ e.deadline <= now'
            \/ \E r \in Requests : req[r].pc = "delete" /\ req[r].csrf = e.id
    BY <1>1
  <1>3. QED
    BY <1>2, EndAlways, PTL DEF Spec, OnlyItsPageLogsOut

----------------------------------------------------------------------------
(* The flow implements LoginLedger                                         *)

Held(t) == \E r \in Requests : req[r].pc \in Holding /\ req[r].state = t

\* A session id was used for one session.
OneOfSid == \A m, n \in made : m.sid = n.sid => m = n

LedgerInv == EndInv /\ OneUse /\ OneOfSid

LEMMA LedgerInvInit == Init => LedgerInv
  <1>1. Init => OneOfSid
    BY DEF Init, OneOfSid
  <1>2. QED
    BY <1>1, EndInit, OneUseInit DEF LedgerInv

LEMMA LedgerInvStep == LedgerInv /\ [Next]_vars => LedgerInv'
  <1> SUFFICES ASSUME LedgerInv, [Next]_vars PROVE LedgerInv'
    OBVIOUS
  <1>1. \A m \in made' \ made : made' = made \cup {m} /\ m.sid \notin MadeSids
    BY StepEffects DEF LedgerInv, EndInv, Effects, SessionsMade
  <1>2. OneOfSid'
    BY <1>1 DEF LedgerInv, OneOfSid, MadeSids
  <1>3. EndInv' /\ OneUse'
    BY EndStep, OneUseStep DEF LedgerInv, EndInv
  <1>4. QED
    BY <1>2, <1>3 DEF LedgerInv

LEMMA LedgerInvAlways == Spec => []LedgerInv
  BY LedgerInvInit, LedgerInvStep, PTL DEF Spec

\* The phases, each by what it takes to be in it.
LEMMA Phases ==
    ASSUME NEW t
    PROVE  /\ starter[t] = NoBrowser => LoginPhase(t) = "fresh"
           /\ starter[t] # NoBrowser =>
                /\ t \in Ids(logins) => LoginPhase(t) = "open"
                /\ t \notin Ids(logins) /\ Held(t) => LoginPhase(t) = "held"
                /\ t \notin Ids(logins) /\ ~Held(t) => LoginPhase(t) = "closed"
  BY DEF LoginPhase, Held

LEMMA PhasesNext ==
    ASSUME NEW t
    PROVE  /\ starter'[t] = NoBrowser => LoginPhase(t)' = "fresh"
           /\ starter'[t] # NoBrowser =>
                /\ t \in Ids(logins') => LoginPhase(t)' = "open"
                /\ t \notin Ids(logins') /\ Held(t)' => LoginPhase(t)' = "held"
                /\ t \notin Ids(logins') /\ ~Held(t)' => LoginPhase(t)' = "closed"
  BY DEF LoginPhase, Held

LEMMA SessionPhases ==
    ASSUME NEW s
    PROVE  /\ s \in Ids(sessions) => SessionPhase(s) = "valid"
           /\ s \notin Ids(sessions) /\ s \in MadeSids => SessionPhase(s) = "ended"
           /\ s \notin Ids(sessions) /\ s \notin MadeSids => SessionPhase(s) = "none"
           /\ s \in Ids(sessions') => SessionPhase(s)' = "valid"
           /\ s \notin Ids(sessions') /\ s \in MadeSids' => SessionPhase(s)' = "ended"
           /\ s \notin Ids(sessions') /\ s \notin MadeSids' => SessionPhase(s)' = "none"
  BY DEF SessionPhase, MadeSids

\* Records go, and who holds a login may let go of it.
LEMMA StepEnds ==
    ASSUME LedgerInv, UNCHANGED <<starter, made>>,
           Ids(logins') \subseteq Ids(logins), Ids(sessions') \subseteq Ids(sessions),
           \A t \in States : Held(t)' => Held(t)
    PROVE  Ledger!LedgerNext
  <1> DEFINE T == {t \in States : LoginPhase(t) \in {"open", "held"} /\ LoginPhase(t)' = "closed"}
             S == {s \in Sids : s \in Ids(sessions) /\ s \notin Ids(sessions')}
  <1>1. ASSUME NEW t \in States
        PROVE  LoginPhase(t)' = IF t \in T THEN "closed" ELSE LoginPhase(t)
    <2>1. t \in Ids(logins) => ~Held(t)
      BY DEF LedgerInv, OneUse, OpenLogins, Held
    <2>2. QED
      BY <2>1, Phases, PhasesNext
  <1>2. ASSUME NEW s \in Sids
        PROVE  /\ SessionPhase(s)' = IF s \in S THEN "ended" ELSE SessionPhase(s)
               /\ s \in S => SessionPhase(s) = "valid"
    <2>1. s \in Ids(sessions) => s \in MadeSids
      BY DEF LedgerInv, EndInv, EndsSound
    <2>2. MadeSids' = MadeSids
      BY DEF MadeSids
    <2>3. QED
      BY <2>1, <2>2, SessionPhases
  <1>3. ASSUME NEW s \in Sids PROVE SessionSource(s)' = SessionSource(s)
    BY DEF SessionSource
  <1>4. T \in SUBSET States /\ S \in SUBSET Sids
    OBVIOUS
  <1>5. \A t \in T : LoginPhase(t) \in {"open", "held"}
    OBVIOUS
  <1> HIDE DEF T, S
  <1>6. Ledger!End(T, S)
    BY <1>1, <1>2, <1>3, <1>4, <1>5 DEF Ledger!End
  <1>7. QED
    BY <1>4, <1>6 DEF Ledger!LedgerNext

\* LoginHandler starts a login, or uses it up.
LEMMA LoginStarts ==
    ASSUME LedgerInv, NEW r \in Requests, NEW b \in Browsers, NEW p \in Replicas,
           Login(r, b, p)
    PROVE  Ledger!LedgerNext
  <1>0. TypeOK /\ OneUse /\ Effects
    BY LoginEffects DEF LedgerInv, EndInv
  <1>1. PICK t \in FreshStates : \E o \in CreateLoginTransaction(t, keyOf[p], LoginTTL) :
          /\ logins' = o.db /\ starter' = [starter EXCEPT ![t] = b]
          /\ \E x : req' = [req EXCEPT ![r] = x]
    BY DEF Login
  <1>2. PICK o \in CreateLoginTransaction(t, keyOf[p], LoginTTL) :
          /\ logins' = o.db /\ starter' = [starter EXCEPT ![t] = b]
          /\ \E x : req' = [req EXCEPT ![r] = x]
    BY <1>1
  <1>3. PICK x : req' = [req EXCEPT ![r] = x]
    BY <1>2
  <1>4. /\ t \in States /\ starter[t] = NoBrowser /\ b # NoBrowser
        /\ t \notin Ids(logins) /\ UNCHANGED <<sessions, made>> /\ req[r].pc = "idle"
    BY <1>0, NoneAssumption
    DEF FreshStates, OneUse, UnstartedLogins, Login, Idle
  <1>5. \A u \in States : starter'[u] = IF u = t THEN b ELSE starter[u]
    BY <1>0, <1>2 DEF TypeOK
  <1>6. /\ Ids(logins') \subseteq Ids(logins) \cup {t}
        /\ \A u \in Ids(logins) : u # t => u \in Ids(logins')
    <2> DEFINE e == [id |-> t, key |-> keyOf[p], deadline |-> Deadline(LoginTTL)]
    <2>1. o \in Set(logins, e) /\ e.id = t
      BY DEF CreateLoginTransaction
    <2> HIDE DEF e
    <2>2. o.db = logins \/ o.db = (logins \ Find(logins, t)) \cup {e}
      BY <2>1, SetOutcome
    <2>3. QED
      BY <1>2, <2>1, <2>2 DEF Ids, Find
  <1>7. ASSUME NEW u \in States PROVE Held(u)' <=> Held(u)
    <2>1. \A q \in Requests : req'[q] = IF q = r THEN x ELSE req[q]
      BY <1>0, <1>3 DEF TypeOK
    <2>2. x.pc \notin Holding /\ req[r].pc \notin Holding
      <3>1. x = req[r] \/ Moved(req[r], x)
        BY <1>0, <2>1 DEF Effects, RequestsMove
      <3>2. QED
        BY <1>4, <3>1 DEF Moved, Holding
    <2>3. QED
      BY <2>1, <2>2 DEF Held
  <1>8. ~Held(t)
    BY <1>0, <1>4 DEF OneUse, UnstartedLogins, Held
  <1>9. \A u \in States : u # t => LoginPhase(u)' = LoginPhase(u)
    BY <1>4, <1>5, <1>6, <1>7, Phases, PhasesNext
  <1>10. LoginPhase(t) = "fresh" /\ LoginPhase(t)' \in {"open", "closed"}
    BY <1>4, <1>5, <1>7, <1>8, Phases, PhasesNext
  <1>11. /\ \A s \in Sids : SessionPhase(s)' = SessionPhase(s)
         /\ \A s \in Sids : SessionSource(s)' = SessionSource(s)
    BY <1>4 DEF SessionPhase, SessionSource
  <1>12. Ledger!Start(t)
    BY <1>4, <1>9, <1>10, <1>11 DEF Ledger!Start
  <1>13. QED
    BY <1>4, <1>12 DEF Ledger!LedgerNext

\* A callback that gets the login's record redeems the login.
LEMMA TakeRedeems ==
    ASSUME LedgerInv, NEW r \in Requests, CallbackTake(r)
    PROVE  Ledger!LedgerNext
  <1>0. TypeOK /\ OneUse
    BY DEF LedgerInv, EndInv
  <1>state. PICK t \in States : t = req[r].state
    BY <1>0 DEF CallbackTake, TypeOK, Request
  <1>1. PICK o \in TakeLoginTransaction(t, req[r].key) :
          /\ logins' = o.db
          /\ req' = [req EXCEPT ![r] =
               IF o.res = {} \/ req[r].code = NoCode THEN Reply(req[r], "failed")
               ELSE [req[r] EXCEPT !.pc = "exchange"]]
    BY <1>state DEF CallbackTake
  <1>2. /\ UNCHANGED <<starter, made, sessions>> /\ req[r].pc = "take"
        /\ req[r] \in RequestRecord
    BY <1>0 DEF CallbackTake, browserVars, idpVars, historyVars, TypeOK, Request
  <1>3. /\ logins' \subseteq logins
        /\ o.res # {} => t \in Ids(logins) /\ logins' = logins \ Find(logins, t)
    BY <1>1, TakeLoginOutcome DEF Ids, Find
  <1>4. CASE o.res = {} \/ req[r].code = NoCode
    <2> DEFINE x == Reply(req[r], "failed")
    <2>1. x.pc = "respond"
      BY ReplyFields
    <2>2. \A q \in Requests : req'[q] = IF q = r THEN x ELSE req[q]
      BY <1>0, <1>1, <1>4 DEF TypeOK
    <2> HIDE DEF x
    <2>3. \A u \in States : Held(u)' => Held(u)
      BY <2>1, <2>2 DEF Held, Holding
    <2>4. QED
      BY <1>2, <1>3, <2>3, StepEnds DEF Ids
  <1>5. CASE ~(o.res = {} \/ req[r].code = NoCode)
    <2> DEFINE x == [req[r] EXCEPT !.pc = "exchange"]
    <2>1. x.pc = "exchange" /\ x.state = t
      BY <1>state, <1>2 DEF RequestRecord
    <2>2. \A q \in Requests : req'[q] = IF q = r THEN x ELSE req[q]
      BY <1>0, <1>1, <1>5 DEF TypeOK
    <2> HIDE DEF x
    <2>3. Held(t)' /\ \A u \in States : u # t => (Held(u)' <=> Held(u))
      BY <1>state, <1>2, <2>1, <2>2 DEF Held, Holding
    <2>4. t \notin Ids(logins') /\ \A u : u # t => (u \in Ids(logins') <=> u \in Ids(logins))
      BY <1>3, <1>5 DEF Ids, Find
    <2>5. starter[t] # NoBrowser
      BY <1>0, <1>state DEF OneUse, UnstartedLogins
    <2>6. LoginPhase(t) = "open" /\ LoginPhase(t)' = "held"
      BY <1>2, <1>3, <1>5, <2>3, <2>4, <2>5, Phases, PhasesNext
    <2>7. \A u \in States : u # t => LoginPhase(u)' = LoginPhase(u)
      BY <1>2, <2>3, <2>4, Phases, PhasesNext
    <2>8. /\ \A s \in Sids : SessionPhase(s)' = SessionPhase(s)
          /\ \A s \in Sids : SessionSource(s)' = SessionSource(s)
      BY <1>2 DEF SessionPhase, SessionSource
    <2>9. Ledger!Redeem(t)
      BY <1>2, <2>6, <2>7, <2>8 DEF Ledger!Redeem
    <2>10. QED
      BY <1>2, <2>9 DEF Ledger!LedgerNext
  <1>6. QED
    BY <1>4, <1>5

\* CreateSession turns a held login into a session, or gives the login up.
LEMMA CreateOpens ==
    ASSUME LedgerInv, NEW r \in Requests, CallbackCreate(r)
    PROVE  Ledger!LedgerNext
  <1>0. TypeOK /\ OneUse /\ EndsSound /\ OneOfSid /\ Effects
    BY CreateEffects DEF LedgerInv, EndInv
  <1>1. PICK t \in States : t = req[r].state
    BY <1>0 DEF CallbackCreate, TypeOK, Request
  <1> DEFINE q == req[r]
             m(s) == [sid |-> s, state |-> q.state, code |-> q.code, browser |-> q.browser]
             e(s) == [id |-> s, key |-> q.key, deadline |-> Deadline(q.ttl),
                      exp |-> q.exp, token |-> q.code]
             x(s, o) == IF o.ok THEN [Reply(q, "loggedIn") EXCEPT !.sid = s]
                                ELSE Reply(q, "failed")
  <1>2. PICK s \in FreshSids : \E o \in CreateSession(s, q.key, q.exp, q.code, q.ttl) :
          /\ sessions' = o.db
          /\ made' = IF s \in Ids(o.db) THEN made \cup {m(s)} ELSE made
          /\ req' = [req EXCEPT ![r] = x(s, o)]
    BY DEF CallbackCreate
  <1>3. PICK o \in CreateSession(s, q.key, q.exp, q.code, q.ttl) :
          /\ sessions' = o.db
          /\ made' = IF s \in Ids(o.db) THEN made \cup {m(s)} ELSE made
          /\ req' = [req EXCEPT ![r] = x(s, o)]
    BY <1>2
  <1>4. /\ UNCHANGED <<logins, starter>> /\ q.pc = "create"
        /\ s \in Sids /\ s \notin MadeSids /\ s \notin Ids(sessions)
    BY <1>0 DEF CallbackCreate, FreshSids, MadeSids, EndsSound
  <1>5. \A q2 \in Requests : req'[q2].pc \in Holding => q2 # r /\ req'[q2] = req[q2]
    <2>1. x(s, o).pc = "respond"
      BY ReplyFields
    <2> HIDE DEF x
    <2>2. \A q2 \in Requests : req'[q2] = IF q2 = r THEN x(s, o) ELSE req[q2]
      BY <1>0, <1>3 DEF TypeOK
    <2>3. QED
      BY <2>1, <2>2 DEF Holding
  <1>6. Held(t) /\ ~Held(t)'
    <2>1. Held(t)
      BY <1>1, <1>4 DEF Held, Holding
    <2>2. \A q2 \in Requests : q2 # r /\ req[q2].pc \in Holding => req[q2].state # t
      BY <1>0, <1>1, <1>4 DEF OneUse, HeldLogins, Holding
    <2>3. QED
      BY <1>5, <2>1, <2>2 DEF Held
  <1>7. \A u \in States : /\ Held(u)' => Held(u)
                          /\ u # t /\ Held(u) => Held(u)'
    <2>1. \A q2 \in Requests : q2 # r => req'[q2] = req[q2]
      BY <1>0, <1>3 DEF TypeOK
    <2>2. QED
      BY <1>1, <1>5, <2>1 DEF Held
  <1>8. \/ sessions' = sessions
        \/ sessions' = (sessions \ Find(sessions, s)) \cup {e(s)}
    <2>1. o \in Set(sessions, e(s)) /\ e(s).id = s
      BY DEF CreateSession
    <2> HIDE DEF e
    <2>2. QED
      BY <1>3, <2>1, SetOutcome
  <1>9. CASE s \notin Ids(sessions')
    <2>1. UNCHANGED made /\ sessions' = sessions
      <3>1. e(s).id = s
        OBVIOUS
      <3> HIDE DEF e
      <3>2. QED
        BY <1>3, <1>8, <1>9, <3>1 DEF Ids
    <2>2. QED
      BY <1>4, <1>7, <2>1, StepEnds
  <1>10. CASE s \in Ids(sessions')
    <2>1. made' = made \cup {m(s)}
      BY <1>3, <1>10
    <2>2. \A u : u # s => (u \in Ids(sessions') <=> u \in Ids(sessions))
      <3>1. e(s).id = s
        OBVIOUS
      <3> HIDE DEF e
      <3>2. QED
        BY <1>8, <3>1 DEF Ids, Find
    <2>3. m(s).sid = s /\ m(s).state = t
      BY <1>1
    <2> HIDE DEF m
    <2>4. \A u : u # s => (u \in MadeSids' <=> u \in MadeSids)
      BY <2>1, <2>3 DEF MadeSids
    <2>5. /\ SessionPhase(s) = "none" /\ SessionPhase(s)' = "valid"
          /\ \A u \in Sids : u # s => SessionPhase(u)' = SessionPhase(u)
      BY <1>4, <1>10, <2>2, <2>4, SessionPhases
    <2>6. t \notin Ids(logins) /\ starter[t] # NoBrowser
      BY <1>0, <1>1, <1>4 DEF OneUse, OpenLogins, UnstartedLogins, Holding
    <2>7. /\ LoginPhase(t) = "held" /\ LoginPhase(t)' = "closed"
          /\ \A u \in States : u # t => LoginPhase(u)' = LoginPhase(u)
      BY <1>4, <1>6, <1>7, <2>6, Phases, PhasesNext
    <2>8. SessionSource(s)' = t
      <3>1. \A n \in made' : n.sid = s => n = m(s)
        BY <1>4, <2>1, <2>3 DEF MadeSids
      <3>2. (CHOOSE n \in made' : n.sid = s) = m(s)
        BY <2>1, <2>3, <3>1
      <3>3. s \in {n.sid : n \in made'}
        BY <2>1, <2>3
      <3>4. QED
        BY <2>3, <3>2, <3>3 DEF SessionSource
    <2>9. ASSUME NEW u \in Sids, u # s
          PROVE  SessionSource(u)' = SessionSource(u)
      <3>1. CASE u \in MadeSids
        <4>1. PICK n \in made : n.sid = u
          BY <3>1 DEF MadeSids
        <4>2. /\ \A n2 \in made : n2.sid = u => n2 = n
              /\ \A n2 \in made' : n2.sid = u => n2 = n
          BY <1>0, <2>1, <2>3, <2>9, <4>1 DEF OneOfSid
        <4>3. (CHOOSE n2 \in made : n2.sid = u) = n
          BY <4>1, <4>2
        <4>4. (CHOOSE n2 \in made' : n2.sid = u) = n
          BY <2>1, <4>1, <4>2
        <4>5. u \in {n2.sid : n2 \in made} /\ u \in {n2.sid : n2 \in made'}
          BY <2>1, <4>1
        <4>6. QED
          BY <4>3, <4>4, <4>5 DEF SessionSource
      <3>2. CASE u \notin MadeSids
        <4>1. u \notin {n.sid : n \in made} /\ u \notin {n.sid : n \in made'}
          BY <2>4, <2>9, <3>2 DEF MadeSids
        <4>2. QED
          BY <4>1 DEF SessionSource
      <3>3. QED
        BY <3>1, <3>2
    <2>10. Ledger!OpenSession(t, s)
      BY <1>4, <2>5, <2>7, <2>8, <2>9 DEF Ledger!OpenSession
    <2>11. QED
      BY <1>4, <2>10 DEF Ledger!LedgerNext
  <1>11. QED
    BY <1>9, <1>10

\* Every other step of a handler, a browser, the provider or the clock.
LEMMA OthersEnd ==
    ASSUME LedgerInv,
           \/ \E r \in Requests, b \in Browsers, p \in Replicas :
                 Callback(r, b, p) \/ Logout(r, b, p) \/ SessionStatus(r, b, p)
           \/ \E r \in Requests :
                 \/ CallbackExchange(r) \/ CallbackVerify(r) \/ LogoutLookup(r)
                 \/ LogoutDelete(r) \/ SessionLookup(r) \/ Deliver(r) \/ Lose(r)
           \/ \E t \in States : Authorize(t)
           \/ \E b \in Browsers : DropCookie(b)
           \/ \E p \in Replicas : Roll(p)
           \/ Tick \/ UNCHANGED vars
    PROVE  Ledger!LedgerNext
  <1>0. TypeOK /\ Effects
    BY StepEffects DEF LedgerInv, EndInv, Next
  <1>1. UNCHANGED <<starter, made>> /\ logins' \subseteq logins
    BY DEF Callback, Logout, SessionStatus, CallbackExchange, CallbackVerify, LogoutLookup,
           LogoutDelete, SessionLookup, Deliver, Lose, Authorize, DropCookie, Roll, Tick,
           StoreTick, Unexpired, vars, storeVars, browserVars, idpVars, historyVars
  <1>2. Ids(sessions') \subseteq Ids(sessions)
    BY <1>0, <1>1 DEF Effects, RecordsMove, Ids, MadeSids
  <1>3. ASSUME NEW q \in Requests, req'[q].pc \in Holding
        PROVE  req[q].pc \in Holding /\ req'[q].state = req[q].state
    <2>1. req'[q] = req[q] \/ req[q].pc # "take" \/ req'[q] = Idle
      <3> DEFINE Quiet == \/ UNCHANGED req
                          \/ \E r \in Requests : \E x :
                               /\ req' = [req EXCEPT ![r] = x]
                               /\ req[r].pc # "take" \/ x = Idle
      <3>1. ASSUME NEW r \in Requests, NEW b \in Browsers, NEW p \in Replicas,
                   Callback(r, b, p) \/ Logout(r, b, p) \/ SessionStatus(r, b, p)
            PROVE  Quiet
        <4>1. req[r].pc # "take"
          <5>1. req[r] = Idle
            BY <3>1 DEF Callback, Logout, SessionStatus
          <5>2. QED
            BY <5>1 DEF Idle
        <4>2. CASE Callback(r, b, p)
          <5> DEFINE Step(t, c) ==
                req' = [req EXCEPT ![r] =
                  IF loginCookie[b] = NoState
                  THEN Reply([Arrive(b, p) EXCEPT !.pc = "take", !.state = t, !.code = c],
                             "refused")
                  ELSE IF ~CookieMatches(b, t)
                  THEN Reply([Arrive(b, p) EXCEPT !.pc = "take", !.state = t, !.code = c],
                             "failed")
                  ELSE [Arrive(b, p) EXCEPT !.pc = "take", !.state = t, !.code = c]]
          <5>1. \E t \in redirects, c \in (Codes \ FreshCodes) \cup {NoCode} : Step(t, c)
            BY <4>2 DEF Callback
          <5>2. \E x : req' = [req EXCEPT ![r] = x]
            BY <5>1
          <5>3. QED
            BY <4>1, <5>2
        <4>3. CASE Logout(r, b, p)
          <5>1. \E x : req' = [req EXCEPT ![r] = x]
            BY <4>3 DEF Logout
          <5>2. QED
            BY <4>1, <5>1
        <4>4. CASE SessionStatus(r, b, p)
          <5>1. \E x : req' = [req EXCEPT ![r] = x]
            BY <4>4 DEF SessionStatus
          <5>2. QED
            BY <4>1, <5>1
        <4>5. QED
          BY <3>1, <4>2, <4>3, <4>4
      <3>2. ASSUME NEW r \in Requests,
                   \/ CallbackExchange(r) \/ CallbackVerify(r) \/ LogoutLookup(r)
                   \/ LogoutDelete(r) \/ SessionLookup(r) \/ Deliver(r)
            PROVE  Quiet
        <4>1. req[r].pc # "take" /\ \E x : req' = [req EXCEPT ![r] = x]
          BY <3>2 DEF CallbackExchange, CallbackVerify, LogoutLookup, LogoutDelete,
                      SessionLookup, Deliver
        <4>2. QED
          BY <4>1
      <3>3. ASSUME NEW r \in Requests, Lose(r) PROVE Quiet
        BY <3>3 DEF Lose
      <3>4. (\E t \in States : Authorize(t)) \/ (\E b \in Browsers : DropCookie(b))
              \/ (\E p \in Replicas : Roll(p)) \/ Tick \/ UNCHANGED vars => Quiet
        BY DEF Authorize, DropCookie, Roll, Tick, vars
      <3>5. Quiet
        BY <3>1, <3>2, <3>3, <3>4
      <3>6. QED
        BY <1>0, <3>5 DEF TypeOK
    <2>2. req'[q] = req[q] \/ Moved(req[q], req'[q])
      BY <1>0 DEF Effects, RequestsMove
    <2>3. QED
      BY <1>3, <2>1, <2>2 DEF Moved, Holding, Idle
  <1>4. \A t \in States : Held(t)' => Held(t)
    BY <1>3 DEF Held
  <1>5. QED
    BY <1>1, <1>2, <1>4, StepEnds DEF Ids

LEMMA LedgerStep == LedgerInv /\ [Next]_vars => Ledger!LedgerNext
  BY LoginStarts, TakeRedeems, CreateOpens, OthersEnd DEF Next

\* The handlers over the store, with concurrent callbacks, failures, lost
\* replies, expiry and logouts, implement the ledger: a login is redeemed once,
\* by one holder, for at most one session, and what has ended stays ended.
THEOREM FlowImplementsLedger == Spec => ImplementsLedger
  <1>1. Init => Ledger!LedgerInit
    BY DEF Init, StoreInit, LoginPhase, SessionPhase, SessionSource, Ids, Ledger!LedgerInit
  <1>2. QED
    BY <1>1, LedgerStep, LedgerInvAlways, PTL
    DEF Spec, ImplementsLedger, Ledger!LedgerSpec
=============================================================================
