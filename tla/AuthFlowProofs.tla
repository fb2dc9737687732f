-------------------------- MODULE AuthFlowProofs --------------------------
(***************************************************************************)
(* Types and one use, for any number of browsers, replicas, requests in    *)
(* flight, logins, codes and sessions.  OneUse is the inductive invariant. *)
(***************************************************************************)
EXTENDS AuthSafety, TLAPS

----------------------------------------------------------------------------
(* What the calls of the store return and leave behind                     *)

\* A deadline is a natural number, whatever the sign of the TTL.
LEMMA DeadlineType ==
    ASSUME now \in Nat, NEW ttl \in Int
    PROVE  Deadline(ttl) \in Nat
  BY DEF Deadline, NoExpiry

\* A SET leaves the database as it was or with the new record in place of the
\* old one of that id; when it reports success, the latter (RedisBackend.Set).
LEMMA SetOutcome ==
    ASSUME NEW db, NEW e, NEW o \in Set(db, e)
    PROVE  /\ o.ok \in BOOLEAN
           /\ o.db = db \/ o.db = (db \ Find(db, e.id)) \cup {e}
           /\ o.ok => o.db = (db \ Find(db, e.id)) \cup {e}
  <1> DEFINE written == (db \ Find(db, e.id)) \cup {e}
  <1>1. \/ o = [ok |-> TRUE, db |-> written]
        \/ \E d \in {db, written} : o = [ok |-> FALSE, db |-> d]
    BY Zenon DEF Set
  <1> HIDE DEF written
  <1>2. CASE o = [ok |-> TRUE, db |-> written]
    <2>1. o.ok = TRUE /\ o.db = written BY <1>2
    <2> QED BY <2>1 DEF written
  <1>3. CASE \E d \in {db, written} : o = [ok |-> FALSE, db |-> d]
    <2>1. PICK d \in {db, written} : o = [ok |-> FALSE, db |-> d] BY <1>3
    <2>2. o.ok = FALSE /\ o.db = d BY <2>1
    <2> QED BY <2>2 DEF written
  <1> QED BY <1>1, <1>2, <1>3

\* A DEL leaves the database as it was or without the records of that id; when
\* it reports success, the latter (RedisBackend.Del).
LEMMA DelOutcome ==
    ASSUME NEW db, NEW id, NEW o \in Del(db, id)
    PROVE  /\ o.ok \in BOOLEAN
           /\ o.db = db \/ o.db = db \ Find(db, id)
           /\ o.ok => o.db = db \ Find(db, id)
  <1> DEFINE rest == db \ Find(db, id)
  <1>1. \/ o = [ok |-> TRUE, db |-> rest]
        \/ \E d \in {db, rest} : o = [ok |-> FALSE, db |-> d]
    BY Zenon DEF Del
  <1> HIDE DEF rest
  <1>2. CASE o = [ok |-> TRUE, db |-> rest]
    <2>1. o.ok = TRUE /\ o.db = rest BY <1>2
    <2> QED BY <2>1 DEF rest
  <1>3. CASE \E d \in {db, rest} : o = [ok |-> FALSE, db |-> d]
    <2>1. PICK d \in {db, rest} : o = [ok |-> FALSE, db |-> d] BY <1>3
    <2>2. o.ok = FALSE /\ o.db = d BY <2>1
    <2> QED BY <2>2 DEF rest
  <1> QED BY <1>1, <1>2, <1>3

\* A GETDEL that returns a record has removed it (RedisBackend.GetDel).
LEMMA GetDelOutcome ==
    ASSUME NEW db, NEW id, NEW o \in GetDel(db, id)
    PROVE  /\ o.db = db \/ o.db = db \ Find(db, id)
           /\ o.res # {} => o.res = Find(db, id) /\ o.db = db \ Find(db, id)
  <1> DEFINE rest == db \ Find(db, id)
  <1>1. \/ o = [res |-> Find(db, id), db |-> rest]
        \/ \E d \in {db, rest} : o = [res |-> {}, db |-> d]
    BY Zenon DEF GetDel
  <1> HIDE DEF rest
  <1>2. CASE o = [res |-> Find(db, id), db |-> rest]
    <2>1. o.res = Find(db, id) /\ o.db = rest BY <1>2
    <2> QED BY <2>1 DEF rest
  <1>3. CASE \E d \in {db, rest} : o = [res |-> {}, db |-> d]
    <2>1. PICK d \in {db, rest} : o = [res |-> {}, db |-> d] BY <1>3
    <2>2. o.res = {} /\ o.db = d BY <2>1
    <2> QED BY <2>2 DEF rest
  <1> QED BY <1>1, <1>2, <1>3

\* CreateLoginTransaction adds at most one well-formed record (Store.put).
LEMMA CreateLoginType ==
    ASSUME now \in Nat, logins \subseteq LoginTransaction,
           NEW t \in States, NEW k \in EncKeys, NEW ttl \in Int,
           NEW o \in CreateLoginTransaction(t, k, ttl)
    PROVE  /\ o.db \subseteq LoginTransaction
           /\ o.ok \in BOOLEAN
  <1> DEFINE e == [id |-> t, key |-> k, deadline |-> Deadline(ttl)]
  <1>1. e \in LoginTransaction
    BY DeadlineType DEF LoginTransaction
  <1>2. o \in Set(logins, e)
    BY DEF CreateLoginTransaction
  <1> HIDE DEF e
  <1>3. o.ok \in BOOLEAN /\ (o.db = logins \/ o.db = (logins \ Find(logins, e.id)) \cup {e})
    BY <1>2, SetOutcome
  <1>4. QED
    BY <1>1, <1>3

\* TakeLoginTransaction leaves a subset of the records, and one that succeeds
\* leaves none of that id.
LEMMA TakeLoginOutcome ==
    ASSUME NEW t, NEW k, NEW o \in TakeLoginTransaction(t, k)
    PROVE  /\ o.db = logins \/ o.db = logins \ Find(logins, t)
           /\ o.db \subseteq logins
           /\ o.res # {} => Find(logins, t) # {} /\ o.db = logins \ Find(logins, t)
  <1>1. PICK g \in GetDel(logins, t) : o = [res |-> Opened(g.res, k), db |-> g.db]
    BY DEF TakeLoginTransaction
  <1>2. o.res = Opened(g.res, k) /\ o.db = g.db
    BY <1>1
  <1>3. o.res # {} => g.res # {}
    BY <1>2 DEF Opened
  <1>4. /\ g.db = logins \/ g.db = logins \ Find(logins, t)
        /\ g.res # {} => g.res = Find(logins, t) /\ g.db = logins \ Find(logins, t)
    BY GetDelOutcome
  <1>5. QED
    BY <1>2, <1>3, <1>4

\* CreateSession adds at most one well-formed record (Store.put).
LEMMA CreateSessionType ==
    ASSUME now \in Nat, sessions \subseteq Record(Codes),
           NEW s \in Sids, NEW k \in EncKeys, NEW exp \in Nat,
           NEW c \in Codes, NEW ttl \in Int,
           NEW o \in CreateSession(s, k, exp, c, ttl)
    PROVE  /\ o.db \subseteq Record(Codes)
           /\ o.ok \in BOOLEAN
  <1> DEFINE e == [id |-> s, key |-> k, deadline |-> Deadline(ttl), exp |-> exp,
                   token |-> c]
  <1>1. e \in Record(Codes)
    BY DeadlineType DEF Record
  <1>2. o \in Set(sessions, e)
    BY DEF CreateSession
  <1> HIDE DEF e
  <1>3. o.ok \in BOOLEAN /\ (o.db = sessions \/ o.db = (sessions \ Find(sessions, e.id)) \cup {e})
    BY <1>2, SetOutcome
  <1>4. QED
    BY <1>1, <1>3

\* DeleteSession leaves a subset of the records.
LEMMA DeleteSessionType ==
    ASSUME NEW s, NEW o \in DeleteSession(s)
    PROVE  o.db \subseteq sessions
  BY DelOutcome DEF DeleteSession

----------------------------------------------------------------------------
(* Requests in flight                                                      *)

\* A slot that holds no request is well formed.
LEMMA IdleType == Idle \in Request
  <1>1. 0 \in EncKeys BY StoreAssumption DEF EncKeys
  <1>2. QED BY <1>1 DEF Idle, Request, RequestRecord, PCs, Replies

\* What a request of browser b arrives with.
ArriveFields(q, b) ==
    /\ q \in RequestRecord
    /\ q.browser = b /\ q.reply = "none"

LEMMA ArriveType ==
    ASSUME keyOf \in [Replicas -> EncKeys], NEW b \in Browsers, NEW p \in Replicas
    PROVE  ArriveFields(Arrive(b, p), b)
  <1>1. keyOf[p] \in EncKeys OBVIOUS
  <1>2. Idle \in RequestRecord BY IdleType DEF Request
  <1>3. Arrive(b, p) \in RequestRecord
    BY <1>1, <1>2, Zenon DEF Arrive, RequestRecord
  <1>4. QED BY <1>3 DEF Arrive, Idle, ArriveFields

\* A reply is well formed; a redirect needs the state it carries.
LEMMA ReplyType ==
    ASSUME NEW q \in RequestRecord, q.browser \in Browsers,
           NEW what \in Replies \ {"none"}
    PROVE  /\ what # "redirect" => Reply(q, what) \in Request
           /\ \A t \in States : [Reply(q, what) EXCEPT !.state = t] \in Request
           /\ \A s \in Sids : what # "redirect" =>
                [Reply(q, what) EXCEPT !.sid = s] \in Request
  <1> DEFINE d == Reply(q, what)
  <1>1. d \in RequestRecord
    <2>1. Idle \in RequestRecord BY IdleType DEF Request
    <2>2. q.sid \in Sids \cup {NoSid} BY DEF RequestRecord
    <2>3. QED BY <2>1, <2>2, Zenon DEF Reply, RequestRecord, PCs
  <1>2. d.pc = "respond" /\ d.reply = what /\ d.browser = q.browser
    BY DEF Reply, Idle
  <1> HIDE DEF d
  <1>3. what # "redirect" => d \in Request
    BY <1>1, <1>2 DEF Request
  <1>4. ASSUME NEW t \in States
        PROVE  [d EXCEPT !.state = t] \in Request
    <2> DEFINE f == [d EXCEPT !.state = t]
    <2>1. f \in RequestRecord BY <1>1 DEF RequestRecord
    <2>2. f.pc = "respond" /\ f.reply = what /\ f.browser = q.browser /\ f.state = t
      BY <1>1, <1>2 DEF RequestRecord
    <2> HIDE DEF f
    <2>3. f \in Request BY <2>1, <2>2 DEF Request
    <2>4. QED BY <2>3 DEF f
  <1>5. ASSUME NEW s \in Sids, what # "redirect"
        PROVE  [d EXCEPT !.sid = s] \in Request
    <2> DEFINE f == [d EXCEPT !.sid = s]
    <2>1. f \in RequestRecord BY <1>1 DEF RequestRecord
    <2>2. f.pc = "respond" /\ f.reply = what /\ f.browser = q.browser
      BY <1>1, <1>2 DEF RequestRecord
    <2> HIDE DEF f
    <2>3. f \in Request BY <1>5, <2>1, <2>2 DEF Request
    <2>4. QED BY <2>3 DEF f
  <1>6. QED
    BY <1>3, <1>4, <1>5 DEF d

\* A request stays well formed when its handler moves on, with what the step
\* has read: the query of a callback, a token's expiry, a TTL, the token and
\* the cookie of a logout, a session id.
LEMMA CallbackType ==
    ASSUME NEW b \in Browsers, NEW q, ArriveFields(q, b),
           NEW t \in States, NEW c \in Codes \cup {NoCode}
    PROVE  [q EXCEPT !.pc = "take", !.state = t, !.code = c] \in Request
  <1> DEFINE d == [q EXCEPT !.pc = "take", !.state = t, !.code = c]
  <1>1. d \in RequestRecord
    BY Zenon DEF ArriveFields, RequestRecord, PCs
  <1>2. d.pc = "take" /\ d.reply = q.reply /\ d.browser = q.browser /\ d.state = t
    BY DEF ArriveFields, RequestRecord
  <1> HIDE DEF d
  <1>3. QED
    BY <1>1, <1>2 DEF ArriveFields, Request, RequestRecord

LEMMA ExchangeType ==
    ASSUME NEW q \in Request, q.pc = "take", q.code # NoCode
    PROVE  [q EXCEPT !.pc = "exchange"] \in Request
  <1> DEFINE d == [q EXCEPT !.pc = "exchange"]
  <1>1. d \in RequestRecord
    BY Zenon DEF Request, RequestRecord, PCs
  <1>2. d.pc = "exchange" /\ d.reply = q.reply /\ d.browser = q.browser /\ d.state = q.state /\ d.code = q.code
    BY DEF Request, RequestRecord
  <1> HIDE DEF d
  <1>3. QED
    BY <1>1, <1>2 DEF Request, RequestRecord

LEMMA VerifyType ==
    ASSUME NEW q \in Request, q.pc = "exchange", NEW exp \in Nat
    PROVE  [q EXCEPT !.pc = "verify", !.exp = exp] \in Request
  <1> DEFINE d == [q EXCEPT !.pc = "verify", !.exp = exp]
  <1>1. d \in RequestRecord
    BY Zenon DEF Request, RequestRecord, PCs
  <1>2. d.pc = "verify" /\ d.reply = q.reply /\ d.browser = q.browser /\ d.state = q.state /\ d.code = q.code
    BY DEF Request, RequestRecord
  <1> HIDE DEF d
  <1>3. QED
    BY <1>1, <1>2 DEF Request, RequestRecord

LEMMA CreateType ==
    ASSUME NEW q \in Request, q.pc = "verify", NEW ttl \in Int
    PROVE  [q EXCEPT !.pc = "create", !.ttl = ttl] \in Request
  <1> DEFINE d == [q EXCEPT !.pc = "create", !.ttl = ttl]
  <1>1. d \in RequestRecord
    BY Zenon DEF Request, RequestRecord, PCs
  <1>2. d.pc = "create" /\ d.reply = q.reply /\ d.browser = q.browser /\ d.state = q.state /\ d.code = q.code
    BY DEF Request, RequestRecord
  <1> HIDE DEF d
  <1>3. QED
    BY <1>1, <1>2 DEF Request, RequestRecord

LEMMA LookupType ==
    ASSUME NEW b \in Browsers, NEW q, ArriveFields(q, b),
           NEW c \in Sids \cup {NoSid}, NEW s \in Sids \cup {NoSid}
    PROVE  [q EXCEPT !.pc = "lookup", !.csrf = c, !.sid = s] \in Request
  <1> DEFINE d == [q EXCEPT !.pc = "lookup", !.csrf = c, !.sid = s]
  <1>1. d \in RequestRecord
    BY Zenon DEF ArriveFields, RequestRecord, PCs
  <1>2. d.pc = "lookup" /\ d.reply = q.reply /\ d.browser = q.browser
    BY DEF ArriveFields, RequestRecord
  <1> HIDE DEF d
  <1>3. QED
    BY <1>1, <1>2 DEF ArriveFields, Request, RequestRecord

LEMMA DeleteType ==
    ASSUME NEW q \in Request, q.pc = "lookup"
    PROVE  [q EXCEPT !.pc = "delete"] \in Request
  <1> DEFINE d == [q EXCEPT !.pc = "delete"]
  <1>1. d \in RequestRecord
    BY Zenon DEF Request, RequestRecord, PCs
  <1>2. d.pc = "delete" /\ d.reply = q.reply /\ d.browser = q.browser
    BY DEF Request, RequestRecord
  <1> HIDE DEF d
  <1>3. QED
    BY <1>1, <1>2 DEF Request, RequestRecord

LEMMA StatusType ==
    ASSUME NEW b \in Browsers, NEW q, ArriveFields(q, b), NEW s \in Sids \cup {NoSid}
    PROVE  [q EXCEPT !.pc = "status", !.sid = s] \in Request
  <1> DEFINE d == [q EXCEPT !.pc = "status", !.sid = s]
  <1>1. d \in RequestRecord
    BY Zenon DEF ArriveFields, RequestRecord, PCs
  <1>2. d.pc = "status" /\ d.reply = q.reply /\ d.browser = q.browser
    BY DEF ArriveFields, RequestRecord
  <1> HIDE DEF d
  <1>3. QED
    BY <1>1, <1>2 DEF ArriveFields, Request, RequestRecord

----------------------------------------------------------------------------
(* Type correctness                                                        *)

LEMMA TypeInit == Init => TypeOK
  BY StoreAssumption, TimeAssumption, IdleType
  DEF Init, StoreInit, TypeOK, AuthCode, EncKeys

\* Steps that take a free slot.
LEMMA TypeArrivals ==
    ASSUME TypeOK, NEW r \in Requests, NEW b \in Browsers, NEW p \in Replicas
    PROVE  /\ Login(r, b, p) => TypeOK'
           /\ Callback(r, b, p) => TypeOK'
           /\ Logout(r, b, p) => TypeOK'
           /\ SessionStatus(r, b, p) => TypeOK'
  <1> DEFINE a == Arrive(b, p)
  <1>0. now \in Nat /\ logins \subseteq LoginTransaction /\ keyOf[p] \in EncKeys
        /\ req \in [Requests -> Request] /\ redirects \subseteq States
        /\ keyOf \in [Replicas -> EncKeys]
    BY TimeAssumption DEF TypeOK
  <1>1. ArriveFields(a, b)
    BY <1>0, ArriveType
  <1>2. a \in RequestRecord /\ a.browser \in Browsers
    BY <1>1 DEF ArriveFields
  <1> HIDE DEF a
  <1>3. ASSUME Login(r, b, p) PROVE TypeOK'
    <2> DEFINE next(t, o) ==
          [req EXCEPT ![r] =
             IF o.ok THEN [Reply(a, "redirect") EXCEPT !.state = t]
                     ELSE Reply(a, "refused")]
    <2>1. PICK t \in FreshStates : \E o \in CreateLoginTransaction(t, keyOf[p], LoginTTL) :
            logins' = o.db /\ starter' = [starter EXCEPT ![t] = b] /\ req' = next(t, o)
      BY <1>3 DEF Login, a
    <2>2. PICK o \in CreateLoginTransaction(t, keyOf[p], LoginTTL) :
            logins' = o.db /\ starter' = [starter EXCEPT ![t] = b] /\ req' = next(t, o)
      BY <2>1
    <2>3. t \in States
      BY DEF FreshStates
    <2>4. o.db \subseteq LoginTransaction
      BY <1>0, <2>3, TimeAssumption, CreateLoginType
    <2>5. [Reply(a, "redirect") EXCEPT !.state = t] \in Request
      BY <1>2, <2>3, ReplyType DEF Replies
    <2>6. Reply(a, "refused") \in Request
      BY <1>2, ReplyType DEF Replies
    <2>7. req' \in [Requests -> Request]
      BY <1>0, <2>2, <2>5, <2>6
    <2>8. QED
      BY <1>3, <2>2, <2>3, <2>4, <2>7 DEF TypeOK, Login, browserVars, idpVars
  <1>4. ASSUME Callback(r, b, p) PROVE TypeOK'
    <2> DEFINE q(t, c) == [a EXCEPT !.pc = "take", !.state = t, !.code = c]
    <2>1. PICK t \in redirects, c \in (Codes \ FreshCodes) \cup {NoCode} :
            req' = [req EXCEPT ![r] =
              IF loginCookie[b] = NoState THEN Reply(q(t, c), "refused")
              ELSE IF ~CookieMatches(b, t) THEN Reply(q(t, c), "failed")
              ELSE q(t, c)]
      BY <1>4 DEF Callback, a
    <2>2. q(t, c) \in Request
      BY <1>0, <1>1, CallbackType
    <2>3. q(t, c) \in RequestRecord /\ q(t, c).browser \in Browsers
      BY <1>2, <2>2 DEF Request, RequestRecord
    <2> HIDE DEF q
    <2>4. Reply(q(t, c), "refused") \in Request /\ Reply(q(t, c), "failed") \in Request
      BY <2>3, ReplyType DEF Replies
    <2>5. req' \in [Requests -> Request]
      BY <1>0, <2>1, <2>2, <2>4
    <2>6. QED
      BY <1>4, <2>5 DEF TypeOK, Callback, storeVars, browserVars, idpVars, historyVars
  <1>5. ASSUME Logout(r, b, p) PROVE TypeOK'
    <2> DEFINE q == [a EXCEPT !.pc = "lookup", !.csrf = page[b],
                              !.sid = sessionCookie[b]]
    <2>1. req' = [req EXCEPT ![r] =
                    IF sessionCookie[b] = NoSid THEN Reply(q, "refused") ELSE q]
      BY <1>5 DEF Logout, a
    <2>2. q \in Request
      BY <1>1, LookupType DEF TypeOK
    <2>3. q \in RequestRecord /\ q.browser \in Browsers
      BY <1>2, <2>2 DEF Request, RequestRecord
    <2> HIDE DEF q
    <2>4. Reply(q, "refused") \in Request
      BY <2>3, ReplyType DEF Replies
    <2>5. req' \in [Requests -> Request]
      BY <1>0, <2>1, <2>2, <2>4
    <2>6. QED
      BY <1>5, <2>5 DEF TypeOK, Logout, storeVars, browserVars, idpVars, historyVars
  <1>6. ASSUME SessionStatus(r, b, p) PROVE TypeOK'
    <2> DEFINE q == [a EXCEPT !.pc = "status", !.sid = sessionCookie[b]]
    <2>1. req' = [req EXCEPT ![r] =
                    IF sessionCookie[b] = NoSid THEN Reply(q, "anonymous") ELSE q]
      BY <1>6 DEF SessionStatus, a
    <2>2. q \in Request
      BY <1>1, StatusType DEF TypeOK
    <2>3. q \in RequestRecord /\ q.browser \in Browsers
      BY <1>2, <2>2 DEF Request, RequestRecord
    <2> HIDE DEF q
    <2>4. Reply(q, "anonymous") \in Request
      BY <2>3, ReplyType DEF Replies
    <2>5. req' \in [Requests -> Request]
      BY <1>0, <2>1, <2>2, <2>4
    <2>6. QED
      BY <1>6, <2>5 DEF TypeOK, SessionStatus, storeVars, browserVars, idpVars, historyVars
  <1>7. QED
    BY <1>3, <1>4, <1>5, <1>6

\* A request in flight has a browser to reply to.
LEMMA InFlightReply ==
    ASSUME NEW q \in Request, q.pc # "idle",
           NEW what \in Replies \ {"none", "redirect"}
    PROVE  /\ Reply(q, what) \in Request
           /\ \A s \in Sids : [Reply(q, what) EXCEPT !.sid = s] \in Request
  BY ReplyType DEF Request

\* Steps of a callback.
LEMMA TypeCallback ==
    ASSUME TypeOK, NEW r \in Requests
    PROVE  /\ CallbackTake(r) => TypeOK'
           /\ CallbackExchange(r) => TypeOK'
           /\ CallbackVerify(r) => TypeOK'
           /\ CallbackCreate(r) => TypeOK'
  <1> DEFINE q == req[r]
  <1>0. q \in Request /\ now \in Nat /\ req \in [Requests -> Request]
    BY TimeAssumption DEF TypeOK
  <1>1. q \in RequestRecord /\ q.exp \in Nat /\ q.ttl \in Int /\ q.key \in EncKeys
    BY <1>0 DEF Request, RequestRecord
  <1>2. q.pc # "idle" => /\ Reply(q, "failed") \in Request
                         /\ \A s \in Sids : [Reply(q, "loggedIn") EXCEPT !.sid = s] \in Request
    BY <1>0, InFlightReply DEF Replies
  <1> HIDE DEF q
  <1>3. ASSUME CallbackTake(r) PROVE TypeOK'
    <2>1. q.pc = "take"
      BY <1>3 DEF CallbackTake, q
    <2>2. PICK o \in TakeLoginTransaction(q.state, q.key) :
            /\ logins' = o.db
            /\ req' = [req EXCEPT ![r] =
                 IF o.res = {} \/ q.code = NoCode THEN Reply(q, "failed")
                 ELSE [q EXCEPT !.pc = "exchange"]]
      BY <1>3 DEF CallbackTake, q
    <2>3. logins' \subseteq LoginTransaction
      BY <2>2, TakeLoginOutcome DEF TypeOK
    <2>4. q.code # NoCode => [q EXCEPT !.pc = "exchange"] \in Request
      BY <1>0, <2>1, ExchangeType
    <2>5. req' \in [Requests -> Request]
      BY <1>0, <1>2, <2>1, <2>2, <2>4
    <2>6. QED
      BY <1>3, <2>3, <2>5 DEF TypeOK, CallbackTake, browserVars, idpVars, historyVars
  <1>4. ASSUME CallbackExchange(r) PROVE TypeOK'
    <2>1. q.pc = "exchange"
      BY <1>4 DEF CallbackExchange, q
    <2>2. Spend(q.code) \in [Codes -> AuthCode]
      <3>1. \A c \in Codes : [codes[c] EXCEPT !.live = FALSE] \in AuthCode
        BY DEF TypeOK, AuthCode
      <3>2. QED
        BY <3>1 DEF TypeOK, Spend
    <2>3. codes' \in [Codes -> AuthCode]
      BY <1>4, <2>2 DEF CallbackExchange, TypeOK, q
    <2>4. [q EXCEPT !.pc = "verify", !.exp = now + TokenTTL] \in Request
      <3>1. now + TokenTTL \in Nat
        BY <1>0, TimeAssumption
      <3>2. QED
        BY <1>0, <2>1, <3>1, VerifyType
    <2>5. \/ req' = [req EXCEPT ![r] = [q EXCEPT !.pc = "verify", !.exp = now + TokenTTL]]
          \/ req' = [req EXCEPT ![r] = Reply(q, "failed")]
      BY <1>4 DEF CallbackExchange, q
    <2>6. req' \in [Requests -> Request]
      BY <1>0, <1>2, <2>1, <2>4, <2>5
    <2>7. QED
      BY <1>4, <2>3, <2>6 DEF TypeOK, CallbackExchange, storeVars, browserVars, historyVars
  <1>5. ASSUME CallbackVerify(r) PROVE TypeOK'
    <2>1. q.pc = "verify"
      BY <1>5 DEF CallbackVerify, q
    <2>2. q.exp - now \in Int
      BY <1>0, <1>1
    <2>3. [q EXCEPT !.pc = "create", !.ttl = q.exp - now] \in Request
      BY <1>0, <2>1, <2>2, CreateType
    <2>4. \/ req' = [req EXCEPT ![r] = [q EXCEPT !.pc = "create", !.ttl = q.exp - now]]
          \/ req' = [req EXCEPT ![r] = Reply(q, "failed")]
      BY <1>5 DEF CallbackVerify, q
    <2>5. req' \in [Requests -> Request]
      BY <1>0, <1>2, <2>1, <2>3, <2>4
    <2>6. QED
      BY <1>5, <2>5 DEF TypeOK, CallbackVerify, storeVars, browserVars, idpVars, historyVars
  <1>6. ASSUME CallbackCreate(r) PROVE TypeOK'
    <2> DEFINE m(s) == [sid |-> s, state |-> q.state, code |-> q.code,
                        browser |-> q.browser]
    <2>1. q.pc = "create"
      BY <1>6 DEF CallbackCreate, q
    <2>2. PICK s \in FreshSids : \E o \in CreateSession(s, q.key, q.exp, q.code, q.ttl) :
            /\ sessions' = o.db
            /\ made' = IF s \in Ids(o.db) THEN made \cup {m(s)} ELSE made
            /\ req' = [req EXCEPT ![r] =
                 IF o.ok THEN [Reply(q, "loggedIn") EXCEPT !.sid = s]
                         ELSE Reply(q, "failed")]
      BY <1>6 DEF CallbackCreate, q
    <2>3. PICK o \in CreateSession(s, q.key, q.exp, q.code, q.ttl) :
            /\ sessions' = o.db
            /\ made' = IF s \in Ids(o.db) THEN made \cup {m(s)} ELSE made
            /\ req' = [req EXCEPT ![r] =
                 IF o.ok THEN [Reply(q, "loggedIn") EXCEPT !.sid = s]
                         ELSE Reply(q, "failed")]
      BY <2>2
    <2>4. s \in Sids /\ q.code \in Codes /\ q.state \in States /\ q.browser \in Browsers
      BY <1>0, <2>1 DEF Request, FreshSids
    <2>5. m(s) \in Provenance
      BY <2>4 DEF Provenance
    <2>6. made' \subseteq Provenance
      BY <2>3, <2>5 DEF TypeOK
    <2>7. sessions' \subseteq Record(Codes)
      BY <1>0, <1>1, <2>3, <2>4, CreateSessionType DEF TypeOK
    <2>8. req' \in [Requests -> Request]
      BY <1>0, <1>2, <2>1, <2>3, <2>4
    <2>9. QED
      BY <1>6, <2>6, <2>7, <2>8 DEF TypeOK, CallbackCreate, browserVars, idpVars
  <1>7. QED
    BY <1>3, <1>4, <1>5, <1>6

\* The remaining steps of requests in flight.
LEMMA TypeServed ==
    ASSUME TypeOK, NEW r \in Requests
    PROVE  /\ LogoutLookup(r) => TypeOK'
           /\ LogoutDelete(r) => TypeOK'
           /\ SessionLookup(r) => TypeOK'
           /\ Deliver(r) => TypeOK'
           /\ Lose(r) => TypeOK'
  <1> DEFINE q == req[r]
  <1>0. q \in Request /\ req \in [Requests -> Request]
    BY DEF TypeOK
  <1>1. q.pc # "idle" => \A what \in Replies \ {"none", "redirect"} : Reply(q, what) \in Request
    BY <1>0, InFlightReply
  <1> HIDE DEF q
  <1>2. ASSUME LogoutLookup(r) PROVE TypeOK'
    <2>1. q.pc = "lookup"
      BY <1>2 DEF LogoutLookup, q
    <2>2. [q EXCEPT !.pc = "delete"] \in Request
      BY <1>0, <2>1, DeleteType
    <2>3. \E x \in {Reply(q, "gone"), Reply(q, "refused"), [q EXCEPT !.pc = "delete"]} :
            req' = [req EXCEPT ![r] = x]
      BY <1>2 DEF LogoutLookup, q
    <2>4. req' \in [Requests -> Request]
      BY <1>0, <1>1, <2>1, <2>2, <2>3 DEF Replies
    <2>5. QED
      BY <1>2, <2>4 DEF TypeOK, LogoutLookup, storeVars, browserVars, idpVars, historyVars
  <1>3. ASSUME LogoutDelete(r) PROVE TypeOK'
    <2>1. q.pc = "delete"
      BY <1>3 DEF LogoutDelete, q
    <2>2. PICK o \in DeleteSession(q.sid) :
            /\ sessions' = o.db
            /\ req' = [req EXCEPT ![r] =
                         Reply(q, IF o.ok THEN "loggedOut" ELSE "refused")]
      BY <1>3 DEF LogoutDelete, q
    <2>3. sessions' \subseteq Record(Codes)
      BY <2>2, DeleteSessionType DEF TypeOK
    <2>4. req' \in [Requests -> Request]
      BY <1>0, <1>1, <2>1, <2>2 DEF Replies
    <2>5. QED
      BY <1>3, <2>3, <2>4 DEF TypeOK, LogoutDelete, browserVars, idpVars, historyVars
  <1>4. ASSUME SessionLookup(r) PROVE TypeOK'
    <2>1. q.pc = "status"
      BY <1>4 DEF SessionLookup, q
    <2>2. \E x \in {"anonymous", "authenticated"} : req' = [req EXCEPT ![r] = Reply(q, x)]
      BY <1>4 DEF SessionLookup, q
    <2>3. req' \in [Requests -> Request]
      BY <1>0, <1>1, <2>1, <2>2 DEF Replies
    <2>4. QED
      BY <1>4, <2>3 DEF TypeOK, SessionLookup, storeVars, browserVars, idpVars, historyVars
  <1>5. ASSUME Deliver(r) PROVE TypeOK'
    <2>1. /\ q.sid \in Sids \cup {NoSid}
          /\ q.reply = "redirect" => q.state \in States
      BY <1>0 DEF Request, RequestRecord
    <2>2. PICK x \in States \cup {NoState} :
            q.browser \in Browsers => loginCookie' = [loginCookie EXCEPT ![q.browser] = x]
      <3>1. CASE q.reply = "redirect"
        BY <1>5, <2>1, <3>1 DEF Deliver, q
      <3>2. CASE q.reply \in {"failed", "loggedIn"}
        BY <1>5, <3>2 DEF Deliver, q
      <3>3. CASE q.reply \notin {"redirect", "failed", "loggedIn"}
        BY <1>5, <3>3 DEF TypeOK, Deliver, q
      <3>4. QED BY <3>1, <3>2, <3>3
    <2>3. PICK y \in Sids \cup {NoSid} :
            q.browser \in Browsers => sessionCookie' = [sessionCookie EXCEPT ![q.browser] = y]
      <3>1. CASE q.reply = "loggedIn"
        BY <1>5, <2>1, <3>1 DEF Deliver, q
      <3>2. CASE q.reply \in {"gone", "loggedOut"}
        BY <1>5, <3>2 DEF Deliver, q
      <3>3. CASE q.reply \notin {"loggedIn", "gone", "loggedOut"}
        BY <1>5, <3>3 DEF TypeOK, Deliver, q
      <3>4. QED BY <3>1, <3>2, <3>3
    <2>4. PICK z \in Sids \cup {NoSid} :
            q.browser \in Browsers => page' = [page EXCEPT ![q.browser] = z]
      <3>1. CASE q.reply = "authenticated"
        BY <1>5, <2>1, <3>1 DEF Deliver, q
      <3>2. CASE q.reply \in {"anonymous", "loggedOut"}
        BY <1>5, <3>2 DEF Deliver, q
      <3>3. CASE q.reply \notin {"authenticated", "anonymous", "loggedOut"}
        BY <1>5, <3>3 DEF TypeOK, Deliver, q
      <3>4. QED BY <3>1, <3>2, <3>3
    <2>5. q.browser \in Browsers
      BY <1>0, <1>5 DEF Request, Deliver, q
    <2>6. redirects' \subseteq States
      BY <1>5, <2>1 DEF TypeOK, Deliver, q
    <2>7. req' \in [Requests -> Request]
      BY <1>0, <1>5, IdleType DEF Deliver
    <2>8. QED
      BY <1>5, <2>2, <2>3, <2>4, <2>5, <2>6, <2>7
      DEF TypeOK, Deliver, storeVars, idpVars, historyVars
  <1>6. ASSUME Lose(r) PROVE TypeOK'
    BY <1>0, <1>6, IdleType DEF TypeOK, Lose, storeVars, browserVars, idpVars, historyVars
  <1>7. QED
    BY <1>2, <1>3, <1>4, <1>5, <1>6

\* The provider, the browsers, the rollout and the clock.
LEMMA TypeEnvironment ==
    ASSUME TypeOK
    PROVE  /\ \A t \in States : Authorize(t) => TypeOK'
           /\ \A b \in Browsers : DropCookie(b) => TypeOK'
           /\ \A p \in Replicas : Roll(p) => TypeOK'
           /\ Tick => TypeOK'
           /\ UNCHANGED vars => TypeOK'
  <1> USE DEF TypeOK
  <1>1. now \in Nat
    BY TimeAssumption
  <1>2. ASSUME NEW t \in States, Authorize(t) PROVE TypeOK'
    <2>1. [txn |-> t, live |-> TRUE, expiresAt |-> now + CodeTTL] \in AuthCode
      BY <1>1, TimeAssumption DEF AuthCode
    <2>2. codes' \in [Codes -> AuthCode]
      BY <1>2, <2>1 DEF Authorize
    <2>3. QED
      BY <1>2, <2>2 DEF Authorize, storeVars, browserVars, historyVars
  <1>3. ASSUME NEW b \in Browsers, DropCookie(b) PROVE TypeOK'
    BY <1>3 DEF DropCookie, storeVars, idpVars, historyVars
  <1>4. ASSUME NEW p \in Replicas, Roll(p) PROVE TypeOK'
    BY <1>4, StoreAssumption DEF Roll, EncKeys, storeVars, browserVars, idpVars, historyVars
  <1>5. ASSUME Tick PROVE TypeOK'
    <2>1. now' \in 0..MaxTime /\ logins' \subseteq logins /\ sessions' \subseteq sessions
      BY <1>1, <1>5, TimeAssumption DEF Tick, StoreTick, Unexpired
    <2>2. QED
      BY <1>5, <2>1 DEF Tick, browserVars, idpVars, historyVars
  <1>6. ASSUME UNCHANGED vars PROVE TypeOK'
    BY <1>6 DEF vars, storeVars, browserVars, idpVars, historyVars
  <1>7. QED
    BY <1>2, <1>3, <1>4, <1>5, <1>6

LEMMA TypeStep == TypeOK /\ [Next]_vars => TypeOK'
  BY TypeArrivals, TypeCallback, TypeServed, TypeEnvironment DEF Next

\* Every handler step, in any interleaving, keeps the state well formed, and
\* a request in flight holds what its handler must have read by then.
THEOREM TypeCorrect == Spec => []TypeOK
  BY TypeInit, TypeStep, PTL DEF Spec

----------------------------------------------------------------------------
(* One session per login                                                   *)

\* What a step leaves alone when no login or code gets to a new stage: records
\* may go, and a request may give up or carry on with what it holds.
Frame ==
    /\ UNCHANGED <<made, starter, codes>>
    /\ logins' \subseteq logins
    /\ \A t \in redirects' \ redirects : starter[t] # NoBrowser
    /\ \A r \in Requests :
         /\ req'[r].pc \in Holding => /\ req[r].pc \in Holding
                                      /\ req'[r].state = req[r].state
         /\ req'[r].pc \in Exchanged => /\ req[r].pc \in Exchanged
                                        /\ req'[r].code = req[r].code
         /\ req'[r].state \in States => starter[req'[r].state] # NoBrowser
         /\ req'[r].code \in Codes => codes[req'[r].code].txn # NoState

\* A step that frames the stages keeps them exclusive.
LEMMA FrameStep ==
    ASSUME TypeOK, OneUse, Frame
    PROVE  OneUse'
  <1> USE DEF OneUse, Frame
  <1>1. UnstartedLogins'
    BY DEF UnstartedLogins, Ids
  <1>2. OpenLogins'
    BY DEF OpenLogins, Ids
  <1>3. HeldLogins'
    BY DEF HeldLogins
  <1>4. IssuedCodes'
    BY DEF IssuedCodes
  <1>5. ExchangedCodes'
    BY DEF ExchangedCodes
  <1>6. UsedCodes' /\ OneSessionPerLogin'
    BY DEF UsedCodes, OneSessionPerLogin
  <1>7. QED
    BY <1>1, <1>2, <1>3, <1>4, <1>5, <1>6

\* The fields of a reply that the stages look at.
LEMMA ReplyFields ==
    ASSUME NEW q, NEW what
    PROVE  /\ Reply(q, what).pc = "respond"
           /\ Reply(q, what).state = NoState
           /\ Reply(q, what).code = NoCode
           /\ \A s : /\ [Reply(q, what) EXCEPT !.sid = s].pc = "respond"
                     /\ [Reply(q, what) EXCEPT !.sid = s].state = NoState
                     /\ [Reply(q, what) EXCEPT !.sid = s].code = NoCode
           /\ \A t : /\ [Reply(q, what) EXCEPT !.state = t].pc = "respond"
                     /\ [Reply(q, what) EXCEPT !.state = t].state = t
                     /\ [Reply(q, what) EXCEPT !.state = t].code = NoCode
  BY DEF Reply, Idle

LEMMA ArriveFieldsOf ==
    ASSUME NEW b, NEW p
    PROVE  /\ Arrive(b, p).state = NoState
           /\ Arrive(b, p).code = NoCode
  BY DEF Arrive, Idle

LEMMA OneUseInit == Init => OneUse
  BY NoneAssumption
  DEF Init, StoreInit, Idle, OneUse, UnstartedLogins, OpenLogins, HeldLogins,
      IssuedCodes, ExchangedCodes, UsedCodes, OneSessionPerLogin, Ids, Holding, Exchanged

\* One request changes and is no callback past its GETDEL afterwards.
LEMMA QuietRequest ==
    ASSUME TypeOK, OneUse, NEW r \in Requests, NEW x,
           req' = [req EXCEPT ![r] = x],
           x.pc \notin Holding,
           x.state \in States => starter[x.state] # NoBrowser,
           x.code \in Codes => codes[x.code].txn # NoState,
           UNCHANGED <<made, starter, codes>>, logins' \subseteq logins,
           \A t \in redirects' \ redirects : starter[t] # NoBrowser
    PROVE  Frame
  <1>1. \A r2 \in Requests : req'[r2] = IF r2 = r THEN x ELSE req[r2]
    BY DEF TypeOK
  <1>2. \A r2 \in Requests : req[r2].state \in States => starter[req[r2].state] # NoBrowser
    BY DEF OneUse, UnstartedLogins
  <1>3. \A r2 \in Requests : req[r2].code \in Codes => codes[req[r2].code].txn # NoState
    BY DEF OneUse, IssuedCodes
  <1>4. x.pc \notin Exchanged
    BY DEF Holding, Exchanged
  <1>5. QED
    BY <1>1, <1>2, <1>3, <1>4 DEF Frame

----------------------------------------------------------------------------
(* The steps that move a login or a code on                                *)

\* A write adds no id but the one it is for.
LEMMA CreateLoginIds ==
    ASSUME NEW t, NEW k, NEW ttl, NEW o \in CreateLoginTransaction(t, k, ttl)
    PROVE  Ids(o.db) \subseteq Ids(logins) \cup {t}
  <1> DEFINE e == [id |-> t, key |-> k, deadline |-> Deadline(ttl)]
  <1>1. o \in Set(logins, e) /\ e.id = t
    BY DEF CreateLoginTransaction
  <1> HIDE DEF e
  <1>2. o.db = logins \/ o.db = (logins \ Find(logins, e.id)) \cup {e}
    BY <1>1, SetOutcome
  <1>3. QED
    BY <1>1, <1>2 DEF Ids

\* LoginHandler: a fresh login becomes open, or is used up.
LEMMA OneUseLogin ==
    ASSUME TypeOK, OneUse, NEW r \in Requests, NEW b \in Browsers, NEW p \in Replicas,
           Login(r, b, p)
    PROVE  OneUse'
  <1> DEFINE a == Arrive(b, p)
             next(t, o) == IF o.ok THEN [Reply(a, "redirect") EXCEPT !.state = t]
                                   ELSE Reply(a, "refused")
  <1>1. PICK t \in FreshStates : \E o \in CreateLoginTransaction(t, keyOf[p], LoginTTL) :
          /\ logins' = o.db /\ starter' = [starter EXCEPT ![t] = b]
          /\ req' = [req EXCEPT ![r] = next(t, o)]
    BY DEF Login
  <1>2. PICK o \in CreateLoginTransaction(t, keyOf[p], LoginTTL) :
          /\ logins' = o.db /\ starter' = [starter EXCEPT ![t] = b]
          /\ req' = [req EXCEPT ![r] = next(t, o)]
    BY <1>1
  <1>3. UNCHANGED <<redirects, codes, made>>
    BY DEF Login, browserVars, idpVars
  <1>4. t \in States /\ starter[t] = NoBrowser
    BY DEF FreshStates
  <1>5. Ids(logins') \subseteq Ids(logins) \cup {t}
    BY <1>2, CreateLoginIds
  <1> DEFINE x == next(t, o)
  <1>6. x.pc = "respond" /\ x.state \in {t, NoState} /\ x.code = NoCode
    BY ReplyFields
  <1>7. \A r2 \in Requests : req'[r2] = IF r2 = r THEN x ELSE req[r2]
    BY <1>2 DEF TypeOK
  <1> HIDE DEF x
  <1>8. /\ \A u \in States : starter'[u] = IF u = t THEN b ELSE starter[u]
        /\ b # NoBrowser
    BY <1>2, NoneAssumption DEF TypeOK
  <1>9. UnstartedLogins'
    BY <1>3, <1>5, <1>6, <1>7, <1>8, NoneAssumption DEF OneUse, UnstartedLogins
  <1>10. /\ \A m \in made : m.state # t
         /\ \A r2 \in Requests : req[r2].state # t
    BY <1>4 DEF OneUse, UnstartedLogins
  <1>11. OpenLogins'
    BY <1>3, <1>5, <1>6, <1>7, <1>10 DEF OneUse, OpenLogins, Holding
  <1>12. HeldLogins'
    BY <1>3, <1>6, <1>7 DEF OneUse, HeldLogins, Holding
  <1>13. IssuedCodes' /\ ExchangedCodes' /\ UsedCodes' /\ OneSessionPerLogin'
    BY <1>3, <1>6, <1>7, NoneAssumption
    DEF OneUse, IssuedCodes, ExchangedCodes, UsedCodes, OneSessionPerLogin, Exchanged
  <1>14. QED
    BY <1>9, <1>11, <1>12, <1>13 DEF OneUse

\* TakeLoginTransaction: an open login becomes held, or is lost.
LEMMA OneUseTake ==
    ASSUME TypeOK, OneUse, NEW r \in Requests, CallbackTake(r)
    PROVE  OneUse'
  <1> DEFINE q == req[r]
  <1>1. PICK o \in TakeLoginTransaction(q.state, q.key) :
          /\ logins' = o.db
          /\ req' = [req EXCEPT ![r] =
               IF o.res = {} \/ q.code = NoCode THEN Reply(q, "failed")
               ELSE [q EXCEPT !.pc = "exchange"]]
    BY DEF CallbackTake
  <1>2. /\ UNCHANGED <<redirects, starter, codes, made>>
        /\ q.pc = "take" /\ q \in Request /\ q \in RequestRecord
    BY DEF CallbackTake, browserVars, idpVars, historyVars, TypeOK, Request
  <1>3. /\ logins' \subseteq logins
        /\ o.res # {} => q.state \in Ids(logins) /\ q.state \notin Ids(logins')
    BY <1>1, TakeLoginOutcome DEF Ids, Find
  <1>4. CASE o.res = {} \/ q.code = NoCode
    <2> DEFINE x == Reply(q, "failed")
    <2>1. x.pc = "respond" /\ x.state = NoState /\ x.code = NoCode
      BY ReplyFields
    <2>2. req' = [req EXCEPT ![r] = x]
      BY <1>1, <1>4
    <2> HIDE DEF x
    <2>3. Frame
      BY <1>2, <1>3, <2>1, <2>2, QuietRequest, NoneAssumption DEF Holding
    <2>4. QED
      BY <2>3, FrameStep
  <1>5. CASE ~(o.res = {} \/ q.code = NoCode)
    <2> DEFINE x == [q EXCEPT !.pc = "exchange"]
    <2>1. x.pc = "exchange" /\ x.state = q.state /\ x.code = q.code
      BY <1>2 DEF RequestRecord
    <2>2. \A r2 \in Requests : req'[r2] = IF r2 = r THEN x ELSE req[r2]
      BY <1>1, <1>5 DEF TypeOK
    <2> HIDE DEF x
    <2>3. /\ \A m \in made : m.state # q.state
          /\ \A r2 \in Requests : req[r2].pc \in Holding => req[r2].state # q.state
      BY <1>3, <1>5 DEF OneUse, OpenLogins
    <2>4. UnstartedLogins'
      BY <1>2, <1>3, <2>1, <2>2 DEF OneUse, UnstartedLogins, Ids
    <2>5. OpenLogins'
      BY <1>2, <1>3, <1>5, <2>1, <2>2 DEF OneUse, OpenLogins, Ids
    <2>6. HeldLogins'
      BY <1>2, <2>1, <2>2, <2>3 DEF OneUse, HeldLogins
    <2>7. IssuedCodes' /\ ExchangedCodes' /\ UsedCodes' /\ OneSessionPerLogin'
      BY <1>2, <2>1, <2>2
      DEF OneUse, IssuedCodes, ExchangedCodes, UsedCodes, OneSessionPerLogin, Exchanged
    <2>8. QED
      BY <2>4, <2>5, <2>6, <2>7 DEF OneUse
  <1>6. QED
    BY <1>4, <1>5

\* The token endpoint: a live code is spent by one exchange.
LEMMA OneUseExchange ==
    ASSUME TypeOK, OneUse, NEW r \in Requests, CallbackExchange(r)
    PROVE  OneUse'
  <1> DEFINE q == req[r]
             c == q.code
             x == [q EXCEPT !.pc = "verify", !.exp = now + TokenTTL]
  <1>1. /\ UNCHANGED <<logins, redirects, starter, made>>
        /\ q.pc = "exchange" /\ q \in Request /\ q \in RequestRecord
        /\ c \in Codes /\ codes' \in {codes, Spend(c)}
    BY DEF CallbackExchange, storeVars, browserVars, historyVars, TypeOK, Request
  <1>2. \A d \in Codes : /\ codes'[d].txn = codes[d].txn
                         /\ codes'[d].live => codes[d].live
    BY <1>1 DEF Spend, TypeOK, AuthCode
  <1>3. \A m \in made : m.code \in Codes
    BY DEF TypeOK, Provenance
  <1>4. \A r2 \in Requests : req[r2].pc \in Exchanged => req[r2].code \in Codes
    BY DEF TypeOK, Request, Exchanged
  <1>5. UsedCodes'
    BY <1>1, <1>2, <1>3, Zenon DEF OneUse, UsedCodes
  <1>6. CASE req' = [req EXCEPT ![r] = Reply(q, "failed")]
    <2> DEFINE y == Reply(q, "failed")
    <2>1. y.pc = "respond" /\ y.state = NoState /\ y.code = NoCode
      BY ReplyFields
    <2>2. \A r2 \in Requests : req'[r2] = IF r2 = r THEN y ELSE req[r2]
      BY <1>6 DEF TypeOK
    <2> HIDE DEF y
    <2>3. UnstartedLogins' /\ OpenLogins' /\ HeldLogins' /\ OneSessionPerLogin'
      BY <1>1, <2>1, <2>2, NoneAssumption
      DEF OneUse, UnstartedLogins, OpenLogins, HeldLogins, OneSessionPerLogin, Holding
    <2>4. IssuedCodes'
      <3>1. \A r2 \in Requests : req'[r2].code \in Codes => req'[r2].code = req[r2].code
        BY <2>1, <2>2, NoneAssumption
      <3>2. QED
        BY <1>2, <3>1, Zenon DEF OneUse, IssuedCodes
    <2>5. ExchangedCodes'
      <3>1. \A r2 \in Requests : req'[r2].pc \in Exchanged =>
              req[r2].pc \in Exchanged /\ req'[r2].code = req[r2].code
        BY <2>1, <2>2 DEF Exchanged
      <3>2. ExchangedCodes
        BY DEF OneUse
      <3>3. \A r2 \in Requests : req'[r2].pc \in Exchanged => ~codes'[req'[r2].code].live
        BY <1>2, <1>4, <3>1, <3>2, Zenon DEF ExchangedCodes
      <3>4. \A r2 \in Requests : req'[r2].pc \in Exchanged =>
              \A m \in made : m.code # req'[r2].code
        BY <3>1, <3>2, Zenon DEF ExchangedCodes
      <3>5. \A r1, r2 \in Requests :
              req'[r1].pc \in Exchanged /\ req'[r2].pc \in Exchanged
                /\ req'[r2].code = req'[r1].code => r2 = r1
        BY <3>1, <3>2, Zenon DEF ExchangedCodes
      <3>6. QED
        BY <1>1, <3>3, <3>4, <3>5, Zenon DEF ExchangedCodes
    <2>6. QED
      BY <1>5, <2>3, <2>4, <2>5 DEF OneUse
  <1>7. CASE codes[c].live /\ codes' = Spend(c) /\ req' = [req EXCEPT ![r] = x]
    <2>1. x.pc = "verify" /\ x.state = q.state /\ x.code = c
      BY <1>1 DEF RequestRecord
    <2>2. \A r2 \in Requests : req'[r2] = IF r2 = r THEN x ELSE req[r2]
      BY <1>7 DEF TypeOK
    <2>3. ~codes'[c].live
      BY <1>1, <1>7 DEF Spend, TypeOK, AuthCode
    <2> HIDE DEF x
    <2>4. UnstartedLogins' /\ OpenLogins' /\ HeldLogins' /\ OneSessionPerLogin'
      BY <1>1, <2>1, <2>2
      DEF OneUse, UnstartedLogins, OpenLogins, HeldLogins, OneSessionPerLogin, Holding
    <2>5. IssuedCodes'
      <3>1. \A r2 \in Requests : req'[r2].code = req[r2].code
        BY <2>1, <2>2
      <3>2. QED
        BY <1>2, <3>1, Zenon DEF OneUse, IssuedCodes
    <2>6. /\ \A m \in made : m.code # c
          /\ \A r2 \in Requests : req[r2].pc \in Exchanged => req[r2].code # c
      BY <1>7 DEF OneUse, UsedCodes, ExchangedCodes
    <2>7. ExchangedCodes'
      <3>1. \A r2 \in Requests : req'[r2].pc \in Exchanged =>
              /\ req'[r2].code = req[r2].code
              /\ r2 = r \/ req[r2].pc \in Exchanged
        BY <2>1, <2>2
      <3>2. req'[r].code = c
        BY <2>1, <2>2
      <3>3. \A r2 \in Requests : req'[r2].pc \in Exchanged => ~codes'[req'[r2].code].live
        BY <1>2, <1>4, <2>3, <3>1, <3>2, Zenon DEF OneUse, ExchangedCodes
      <3>4. \A r2 \in Requests : req'[r2].pc \in Exchanged =>
              \A m \in made : m.code # req'[r2].code
        BY <2>6, <3>1, <3>2, Zenon DEF OneUse, ExchangedCodes
      <3>5. \A r1, r2 \in Requests :
              req'[r1].pc \in Exchanged /\ req'[r2].pc \in Exchanged
                /\ req'[r2].code = req'[r1].code => r2 = r1
        BY <2>6, <3>1, <3>2 DEF OneUse, ExchangedCodes
      <3>6. QED
        BY <1>1, <3>3, <3>4, <3>5 DEF ExchangedCodes
    <2>8. QED
      BY <1>5, <2>4, <2>5, <2>7 DEF OneUse
  <1>8. QED
    BY <1>6, <1>7 DEF CallbackExchange, Redeemable

\* CreateSession: a held login and an exchanged code make one session.
LEMMA OneUseCreate ==
    ASSUME TypeOK, OneUse, NEW r \in Requests, CallbackCreate(r)
    PROVE  OneUse'
  <1> DEFINE q == req[r]
             m(s) == [sid |-> s, state |-> q.state, code |-> q.code, browser |-> q.browser]
             next(s, o) == IF o.ok THEN [Reply(q, "loggedIn") EXCEPT !.sid = s]
                                   ELSE Reply(q, "failed")
  <1>1. PICK s \in FreshSids : \E o \in CreateSession(s, q.key, q.exp, q.code, q.ttl) :
          /\ made' = IF s \in Ids(o.db) THEN made \cup {m(s)} ELSE made
          /\ req' = [req EXCEPT ![r] = next(s, o)]
    BY DEF CallbackCreate
  <1>2. PICK o \in CreateSession(s, q.key, q.exp, q.code, q.ttl) :
          /\ made' = IF s \in Ids(o.db) THEN made \cup {m(s)} ELSE made
          /\ req' = [req EXCEPT ![r] = next(s, o)]
    BY <1>1
  <1>3. /\ UNCHANGED <<logins, redirects, starter, codes>>
        /\ q.pc = "create" /\ q \in Request /\ q.state \in States /\ q.code \in Codes
    BY DEF CallbackCreate, browserVars, idpVars, TypeOK, Request
  <1> DEFINE x == next(s, o)
  <1>4. x.pc = "respond" /\ x.state = NoState /\ x.code = NoCode
    BY ReplyFields
  <1>5. \A r2 \in Requests : req'[r2] = IF r2 = r THEN x ELSE req[r2]
    BY <1>2 DEF TypeOK
  <1>6. /\ m(s).state = q.state /\ m(s).code = q.code
        /\ made' \subseteq made \cup {m(s)}
    BY <1>2
  <1> HIDE DEF x, m
  <1>7. /\ starter[q.state] # NoBrowser
        /\ q.state \notin Ids(logins)
        /\ \A n \in made : n.state # q.state /\ n.code # q.code
        /\ ~codes[q.code].live /\ codes[q.code].txn # NoState
        /\ \A r2 \in Requests \ {r} :
              /\ req[r2].pc \in Holding => req[r2].state # q.state
              /\ req[r2].pc \in Exchanged => req[r2].code # q.code
    BY <1>3 DEF OneUse, UnstartedLogins, OpenLogins, HeldLogins, IssuedCodes,
                ExchangedCodes, Holding, Exchanged
  <1>8. UnstartedLogins'
    BY <1>3, <1>4, <1>5, <1>6, <1>7, NoneAssumption DEF OneUse, UnstartedLogins
  <1>9. OpenLogins'
    BY <1>3, <1>4, <1>5, <1>6, <1>7, NoneAssumption DEF OneUse, OpenLogins, Holding
  <1>10. HeldLogins'
    BY <1>4, <1>5, <1>6, <1>7 DEF OneUse, HeldLogins, Holding
  <1>11. IssuedCodes'
    BY <1>3, <1>4, <1>5, NoneAssumption DEF OneUse, IssuedCodes
  <1>12. ExchangedCodes'
    BY <1>3, <1>4, <1>5, <1>6, <1>7 DEF OneUse, ExchangedCodes, Exchanged
  <1>13. UsedCodes' /\ OneSessionPerLogin'
    BY <1>3, <1>6, <1>7 DEF OneUse, UsedCodes, OneSessionPerLogin
  <1>14. QED
    BY <1>8, <1>9, <1>10, <1>11, <1>12, <1>13 DEF OneUse

\* The provider's authorize endpoint: a fresh code is issued.
LEMMA OneUseAuthorize ==
    ASSUME TypeOK, OneUse, NEW t \in States, Authorize(t)
    PROVE  OneUse'
  <1>1. PICK c \in FreshCodes :
          codes' = [codes EXCEPT ![c] = [txn |-> t, live |-> TRUE, expiresAt |-> now + CodeTTL]]
    BY DEF Authorize
  <1>2. UNCHANGED <<logins, redirects, req, starter, made>>
    BY DEF Authorize, storeVars, browserVars, historyVars
  <1>3. \A d \in Codes : codes[d].txn # NoState => d # c /\ codes'[d] = codes[d]
    BY <1>1 DEF FreshCodes, TypeOK
  <1>4. \A m \in made : m.code \in Codes
    BY DEF TypeOK, Provenance
  <1>5. UnstartedLogins' /\ OpenLogins' /\ HeldLogins' /\ OneSessionPerLogin'
    BY <1>2 DEF OneUse, UnstartedLogins, OpenLogins, HeldLogins, OneSessionPerLogin
  <1>6. IssuedCodes'
    BY <1>2, <1>3 DEF OneUse, IssuedCodes
  <1>7. ExchangedCodes'
    <2>1. \A r \in Requests : req[r].pc \in Exchanged => req[r].code \in Codes
      BY DEF TypeOK, Request, Exchanged
    <2>2. QED
      BY <1>2, <1>3, <2>1 DEF OneUse, ExchangedCodes, IssuedCodes
  <1>8. UsedCodes'
    BY <1>2, <1>3, <1>4 DEF OneUse, UsedCodes
  <1>9. QED
    BY <1>5, <1>6, <1>7, <1>8 DEF OneUse

----------------------------------------------------------------------------
(* The steps that do not                                                   *)

\* A callback is refused, or gets in the queue for the store; logout and status
\* requests never carry a login or a code.
LEMMA OneUseArrivals ==
    ASSUME TypeOK, OneUse, NEW r \in Requests, NEW b \in Browsers, NEW p \in Replicas
    PROVE  /\ Callback(r, b, p) => OneUse'
           /\ Logout(r, b, p) => OneUse'
           /\ SessionStatus(r, b, p) => OneUse'
  <1> DEFINE a == Arrive(b, p)
  <1>1. a.state = NoState /\ a.code = NoCode /\ a \in RequestRecord
    BY ArriveType, ArriveFieldsOf DEF ArriveFields, TypeOK
  <1> HIDE DEF a
  <1>2. ASSUME Callback(r, b, p) PROVE OneUse'
    <2> DEFINE q(t, c) == [a EXCEPT !.pc = "take", !.state = t, !.code = c]
               x(t, c) == IF loginCookie[b] = NoState THEN Reply(q(t, c), "refused")
                          ELSE IF ~CookieMatches(b, t) THEN Reply(q(t, c), "failed")
                          ELSE q(t, c)
    <2>1. PICK t \in redirects, c \in (Codes \ FreshCodes) \cup {NoCode} :
            req' = [req EXCEPT ![r] = x(t, c)]
      BY <1>2 DEF Callback, a
    <2>2. q(t, c).pc = "take" /\ q(t, c).state = t /\ q(t, c).code = c
      BY <1>1 DEF RequestRecord
    <2> HIDE DEF q
    <2>3. /\ x(t, c).pc \in {"take", "respond"}
          /\ x(t, c).state \in {t, NoState} /\ x(t, c).code \in {c, NoCode}
      BY <2>2, ReplyFields
    <2> HIDE DEF x
    <2>4. starter[t] # NoBrowser /\ (c \in Codes => codes[c].txn # NoState)
      BY NoneAssumption DEF OneUse, UnstartedLogins, TypeOK, FreshCodes
    <2>5. Frame
      BY <1>2, <2>1, <2>3, <2>4, QuietRequest, NoneAssumption
      DEF Callback, Holding, storeVars, browserVars, idpVars, historyVars
    <2>6. QED
      BY <2>5, FrameStep
  <1>3. ASSUME Logout(r, b, p) PROVE OneUse'
    <2> DEFINE q == [a EXCEPT !.pc = "lookup", !.csrf = page[b], !.sid = sessionCookie[b]]
               x == IF sessionCookie[b] = NoSid THEN Reply(q, "refused") ELSE q
    <2>1. req' = [req EXCEPT ![r] = x]
      BY <1>3 DEF Logout, a
    <2>2. q.pc = "lookup" /\ q.state = NoState /\ q.code = NoCode
      BY <1>1 DEF RequestRecord
    <2> HIDE DEF q
    <2>3. x.pc \in {"lookup", "respond"} /\ x.state = NoState /\ x.code = NoCode
      BY <2>2, ReplyFields
    <2> HIDE DEF x
    <2>4. Frame
      BY <1>3, <2>1, <2>3, QuietRequest, NoneAssumption
      DEF Logout, Holding, storeVars, browserVars, idpVars, historyVars
    <2>5. QED
      BY <2>4, FrameStep
  <1>4. ASSUME SessionStatus(r, b, p) PROVE OneUse'
    <2> DEFINE q == [a EXCEPT !.pc = "status", !.sid = sessionCookie[b]]
               x == IF sessionCookie[b] = NoSid THEN Reply(q, "anonymous") ELSE q
    <2>1. req' = [req EXCEPT ![r] = x]
      BY <1>4 DEF SessionStatus, a
    <2>2. q.pc = "status" /\ q.state = NoState /\ q.code = NoCode
      BY <1>1 DEF RequestRecord
    <2> HIDE DEF q
    <2>3. x.pc \in {"status", "respond"} /\ x.state = NoState /\ x.code = NoCode
      BY <2>2, ReplyFields
    <2> HIDE DEF x
    <2>4. Frame
      BY <1>4, <2>1, <2>3, QuietRequest, NoneAssumption
      DEF SessionStatus, Holding, storeVars, browserVars, idpVars, historyVars
    <2>5. QED
      BY <2>4, FrameStep
  <1>5. QED
    BY <1>2, <1>3, <1>4

\* CallbackVerify keeps what it holds or gives up; the other handlers, replies
\* and losses end with nothing.
LEMMA OneUseServed ==
    ASSUME TypeOK, OneUse, NEW r \in Requests
    PROVE  /\ CallbackVerify(r) => OneUse'
           /\ LogoutLookup(r) => OneUse'
           /\ LogoutDelete(r) => OneUse'
           /\ SessionLookup(r) => OneUse'
           /\ Deliver(r) => OneUse'
           /\ Lose(r) => OneUse'
  <1> DEFINE q == req[r]
  <1>0. q \in Request /\ q \in RequestRecord
    BY DEF TypeOK, Request
  <1>1. /\ q.state \in States => starter[q.state] # NoBrowser
        /\ q.code \in Codes => codes[q.code].txn # NoState
    BY DEF OneUse, UnstartedLogins, IssuedCodes
  <1> DEFINE Gives(what) ==
        /\ req' = [req EXCEPT ![r] = Reply(q, what)]
        /\ UNCHANGED <<logins, redirects, made, starter, codes>>
  <1>10. ASSUME NEW what, Gives(what) PROVE OneUse'
    <2> DEFINE x == Reply(q, what)
    <2>1. x.pc = "respond" /\ x.state = NoState /\ x.code = NoCode
      BY ReplyFields
    <2>2. req' = [req EXCEPT ![r] = x]
      BY <1>10
    <2> HIDE DEF x
    <2>3. Frame
      BY <1>10, <2>1, <2>2, QuietRequest, NoneAssumption DEF Holding
    <2>4. QED
      BY <2>3, FrameStep
  <1>2. ASSUME CallbackVerify(r) PROVE OneUse'
    <2> DEFINE x == [q EXCEPT !.pc = "create", !.ttl = q.exp - now]
    <2>1. q.pc = "verify" /\ UNCHANGED <<logins, redirects, made, starter, codes>>
      BY <1>2 DEF CallbackVerify, storeVars, browserVars, idpVars, historyVars
    <2>2. x.pc = "create" /\ x.state = q.state /\ x.code = q.code
      BY <1>0 DEF RequestRecord
    <2>3. CASE req' = [req EXCEPT ![r] = x]
      <3>1. \A r2 \in Requests : req'[r2] = IF r2 = r THEN x ELSE req[r2]
        BY <2>3 DEF TypeOK
      <3> HIDE DEF x
      <3>2. \A r2 \in Requests :
              /\ req'[r2].state = req[r2].state /\ req'[r2].code = req[r2].code
              /\ req'[r2].pc \in Holding <=> req[r2].pc \in Holding
              /\ req'[r2].pc \in Exchanged <=> req[r2].pc \in Exchanged
        BY <2>1, <2>2, <3>1 DEF Holding, Exchanged
      <3>3. Frame
        BY <2>1, <3>2 DEF Frame, OneUse, UnstartedLogins, IssuedCodes
      <3>4. QED
        BY <3>3, FrameStep
    <2>4. CASE req' = [req EXCEPT ![r] = Reply(q, "failed")]
      <3>1. Gives("failed")
        BY <2>1, <2>4
      <3>2. QED
        BY <1>10, <3>1
    <2>5. QED
      BY <1>2, <2>3, <2>4 DEF CallbackVerify
  <1>3. ASSUME LogoutLookup(r) PROVE OneUse'
    <2>1. q.pc = "lookup" /\ UNCHANGED <<logins, redirects, made, starter, codes>>
      BY <1>3 DEF LogoutLookup, storeVars, browserVars, idpVars, historyVars
    <2> DEFINE x == [q EXCEPT !.pc = "delete"]
    <2>2. x.pc = "delete" /\ x.state = q.state /\ x.code = q.code
      BY <1>0 DEF RequestRecord
    <2>3. Gives("gone") \/ Gives("refused") \/ req' = [req EXCEPT ![r] = x]
      BY <1>3, <2>1 DEF LogoutLookup
    <2>4. CASE req' = [req EXCEPT ![r] = x]
      <3> HIDE DEF x
      <3>1. Frame
        BY <1>1, <2>1, <2>2, <2>4, QuietRequest DEF Holding
      <3>2. QED
        BY <3>1, FrameStep
    <2>5. QED
      BY <1>10, <2>3, <2>4
  <1>4. ASSUME LogoutDelete(r) PROVE OneUse'
    <2>1. Gives("loggedOut") \/ Gives("refused")
      BY <1>4 DEF LogoutDelete, browserVars, idpVars, historyVars
    <2>2. QED
      BY <1>10, <2>1
  <1>5. ASSUME SessionLookup(r) PROVE OneUse'
    <2>1. Gives("anonymous") \/ Gives("authenticated")
      BY <1>5 DEF SessionLookup, storeVars, browserVars, idpVars, historyVars
    <2>2. QED
      BY <1>10, <2>1
  <1>6. Idle.pc \notin Holding /\ Idle.state = NoState /\ Idle.code = NoCode
    BY DEF Idle, Holding
  <1>7. ASSUME Deliver(r) PROVE OneUse'
    <2>1. q.reply = "redirect" => q.state \in States
      BY <1>0 DEF Request
    <2>2. \A t \in redirects' \ redirects : starter[t] # NoBrowser
      BY <1>1, <1>7, <2>1 DEF Deliver
    <2>3. Frame
      BY <1>6, <1>7, <2>2, QuietRequest, NoneAssumption
      DEF Deliver, storeVars, idpVars, historyVars
    <2>4. QED
      BY <2>3, FrameStep
  <1>8. ASSUME Lose(r) PROVE OneUse'
    <2>1. Frame
      BY <1>6, <1>8, QuietRequest, NoneAssumption
      DEF Lose, storeVars, browserVars, idpVars, historyVars
    <2>2. QED
      BY <2>1, FrameStep
  <1>9. QED
    BY <1>2, <1>3, <1>4, <1>5, <1>7, <1>8

\* Cookies that are dropped, a rollout and the clock.
LEMMA OneUseEnvironment ==
    ASSUME TypeOK, OneUse
    PROVE  /\ \A b \in Browsers : DropCookie(b) => OneUse'
           /\ \A p \in Replicas : Roll(p) => OneUse'
           /\ Tick => OneUse'
           /\ UNCHANGED vars => OneUse'
  <1> DEFINE Same == UNCHANGED <<req, made, starter, codes, redirects>> /\ logins' \subseteq logins
  <1>1. ASSUME Same PROVE OneUse'
    <2>1. Frame
      BY <1>1 DEF Frame, OneUse, UnstartedLogins, IssuedCodes
    <2>2. QED
      BY <2>1, FrameStep
  <1>2. ASSUME NEW b \in Browsers, DropCookie(b) PROVE OneUse'
    BY <1>1, <1>2 DEF DropCookie, storeVars, idpVars, historyVars
  <1>3. ASSUME NEW p \in Replicas, Roll(p) PROVE OneUse'
    BY <1>1, <1>3 DEF Roll, storeVars, browserVars, idpVars, historyVars
  <1>4. ASSUME Tick PROVE OneUse'
    BY <1>1, <1>4 DEF Tick, StoreTick, Unexpired, browserVars, idpVars, historyVars
  <1>5. ASSUME UNCHANGED vars PROVE OneUse'
    BY <1>1, <1>5 DEF vars, storeVars, browserVars, idpVars, historyVars
  <1>6. QED
    BY <1>2, <1>3, <1>4, <1>5

LEMMA OneUseStep == TypeOK /\ OneUse /\ [Next]_vars => OneUse'
  BY OneUseLogin, OneUseTake, OneUseExchange, OneUseCreate, OneUseAuthorize,
     OneUseArrivals, OneUseServed, OneUseEnvironment DEF Next

\* Every login and every code is at one stage of its life at a time: unstarted,
\* in the store, held by one callback, or used by one session.
THEOREM OneUseAlways == Spec => []OneUse
  <1>1. Init => TypeOK /\ OneUse
    BY TypeInit, OneUseInit
  <1>2. TypeOK /\ OneUse /\ [Next]_vars => (TypeOK /\ OneUse)'
    BY TypeStep, OneUseStep
  <1>3. QED
    BY <1>1, <1>2, PTL DEF Spec

\* One-use state (store.go, TakeLoginTransaction): two concurrent or replayed
\* callbacks never make two sessions of one login, or of one code.
THEOREM OneSession == Spec => []OneSessionPerLogin
  <1>1. OneUse => OneSessionPerLogin
    BY DEF OneUse
  <1>2. QED
    BY <1>1, OneUseAlways, PTL
===========================================================================
