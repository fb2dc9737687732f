----------------------------- MODULE AuthFlow -----------------------------
(***************************************************************************)
(* internal/auth over SessionStore: browsers, the replicas of the BFF and  *)
(* the OIDC provider.  A request is served in one step per external call   *)
(* (the store, the provider's token endpoint, the reply on the wire), so   *)
(* requests of all browsers interleave, on any replica, between those      *)
(* calls; a request may be lost at any of them.                            *)
(***************************************************************************)
EXTENDS SessionStore

CONSTANTS
    Browsers,       \* cookie jars
    Replicas,       \* BFF processes behind the Service
    Requests,       \* slots for requests in flight
    Codes,          \* authorization codes (and the ID tokens they are good for)
    LoginTTL,       \* loginTransactionTTL
    CodeTTL,        \* lifetime of an authorization code at the provider
    TokenTTL,       \* lifetime of an ID token
    MaxTime,        \* bound: the clock stops here
    MaxDelay,       \* ticks between reading the clock for a TTL and its SET
    IdPChecksPKCE,  \* TRUE: the token endpoint verifies the PKCE verifier
    NoBrowser, NoState, NoSid, NoCode

ASSUME TimeAssumption ==
    /\ LoginTTL \in Nat \ {0} /\ TokenTTL \in Nat \ {0} /\ CodeTTL \in Nat
    /\ MaxTime \in Nat /\ MaxDelay \in Nat /\ IdPChecksPKCE \in BOOLEAN

ASSUME NoneAssumption ==
    NoBrowser \notin Browsers /\ NoState \notin States /\ NoSid \notin Sids
    /\ NoCode \notin Codes

VARIABLES
    keyOf,          \* the encryption key each replica was started with
    req,            \* the requests in flight
    loginCookie,    \* each browser's login-state cookie
    sessionCookie,  \* each browser's session cookie
    page,           \* session whose CSRF token the browser's open page holds
    redirects,      \* logins whose redirect to the provider reached a browser
    codes,          \* the provider's authorization codes
    starter,        \* history: which browser each login was started by
    made            \* history: every session written, and from what

browserVars == <<loginCookie, sessionCookie, page, redirects>>
idpVars == <<codes>>
historyVars == <<starter, made>>
vars == <<storeVars, keyOf, req, browserVars, idpVars, historyVars>>

PCs == {"idle", "take", "exchange", "verify", "create",  \* CallbackHandler
        "lookup", "delete",                              \* LogoutHandler
        "status",                                        \* SessionHandler
        "respond"}

\* What a reply does to its browser; "refused" stands for every 4xx and 5xx
\* that touches no cookie.
Replies == {"none", "refused", "redirect", "failed", "loggedIn", "gone",
            "loggedOut", "authenticated", "anonymous"}

RequestRecord ==
    [pc : PCs, reply : Replies, browser : Browsers \cup {NoBrowser},
     key : EncKeys, state : States \cup {NoState},
     code : Codes \cup {NoCode}, sid : Sids \cup {NoSid},
     csrf : Sids \cup {NoSid}, exp : Nat, ttl : Int]

\* What a handler has read by the time it gets to each of its steps.
Request == {q \in RequestRecord :
    /\ q.pc # "idle" => q.browser \in Browsers
    /\ q.pc \in {"take", "exchange", "verify", "create"} => q.state \in States
    /\ q.pc \in {"exchange", "verify", "create"} => q.code \in Codes
    /\ q.reply = "redirect" => q.state \in States
    /\ q.reply # "none" <=> q.pc = "respond"}

Idle == [pc |-> "idle", reply |-> "none", browser |-> NoBrowser, key |-> 0,
         state |-> NoState, code |-> NoCode, sid |-> NoSid, csrf |-> NoSid,
         exp |-> 0, ttl |-> 0]

AuthCode == [txn : States \cup {NoState}, live : BOOLEAN, expiresAt : Nat]

Provenance == [sid : Sids, state : States, code : Codes, browser : Browsers]

TypeOK ==
    /\ now \in 0..MaxTime
    /\ logins \subseteq LoginTransaction
    /\ sessions \subseteq Record(Codes)
    /\ keyOf \in [Replicas -> EncKeys]
    /\ req \in [Requests -> Request]
    /\ loginCookie \in [Browsers -> States \cup {NoState}]
    /\ sessionCookie \in [Browsers -> Sids \cup {NoSid}]
    /\ page \in [Browsers -> Sids \cup {NoSid}]
    /\ redirects \subseteq States
    /\ codes \in [Codes -> AuthCode]
    /\ starter \in [States -> Browsers \cup {NoBrowser}]
    /\ made \subseteq Provenance

Init ==
    /\ StoreInit
    /\ keyOf = [p \in Replicas |-> 0]
    /\ req = [r \in Requests |-> Idle]
    /\ loginCookie = [b \in Browsers |-> NoState]
    /\ sessionCookie = [b \in Browsers |-> NoSid]
    /\ page = [b \in Browsers |-> NoSid]
    /\ redirects = {}
    /\ codes = [c \in Codes |-> [txn |-> NoState, live |-> FALSE, expiresAt |-> 0]]
    /\ starter = [t \in States |-> NoBrowser]
    /\ made = {}

\* A request of browser b arrives at replica p and takes a free slot.
Arrive(b, p) == [Idle EXCEPT !.browser = b, !.key = keyOf[p]]

Reply(q, what) ==
    [Idle EXCEPT !.pc = "respond", !.reply = what, !.browser = q.browser,
                 !.sid = q.sid]

----------------------------------------------------------------------------
(* GET /auth/login                                                         *)

FreshStates == {t \in States : starter[t] = NoBrowser}

\* The record is written, then the state is sent back in a cookie and in the
\* redirect to the provider.  The write needs nothing the request could have
\* read before, so arrival and write are one step.
Login(r, b, p) ==
    /\ req[r] = Idle
    /\ \E t \in FreshStates : \E o \in CreateLoginTransaction(t, keyOf[p], LoginTTL) :
        /\ logins' = o.db
        /\ starter' = [starter EXCEPT ![t] = b]
        /\ req' = [req EXCEPT ![r] =
                     IF o.ok THEN [Reply(Arrive(b, p), "redirect") EXCEPT !.state = t]
                             ELSE Reply(Arrive(b, p), "refused")]
    /\ UNCHANGED <<now, sessions, keyOf, browserVars, idpVars, made>>

----------------------------------------------------------------------------
(* The provider                                                            *)

FreshCodes == {c \in Codes : codes[c].txn = NoState}

\* The browser follows the redirect of login t (again, if the user reloads
\* it) and the provider issues a code bound to the nonce and the challenge.
Authorize(t) ==
    /\ t \in redirects
    /\ \E c \in FreshCodes :
         codes' = [codes EXCEPT ![c] =
                     [txn |-> t, live |-> TRUE, expiresAt |-> now + CodeTTL]]
    /\ UNCHANGED <<storeVars, keyOf, req, browserVars, historyVars>>

\* Bug: the code is not deleted.
SpendNothing(c) == codes

\* A code is deleted by the first exchange that presents it, good or not.
Spend(c) == [codes EXCEPT ![c].live = FALSE]

Redeemable(c, t) ==
    /\ codes[c].live
    /\ now <= codes[c].expiresAt
    /\ IdPChecksPKCE => codes[c].txn = t

----------------------------------------------------------------------------
(* GET /auth/callback                                                      *)

\* Bug: any login-state cookie will do.
CookiePresent(b, t) == loginCookie[b] # NoState

\* The cookie must be there, and equal to the state in the query.
CookieMatches(b, t) == t = loginCookie[b]

\* Bug: the transaction is taken before the cookie is compared with the state.
CallbackTakesFirst(r, b, p) ==
    /\ req[r] = Idle
    /\ \E t \in redirects, c \in (Codes \ FreshCodes) \cup {NoCode} :
         LET q == [Arrive(b, p) EXCEPT !.pc = "take", !.state = t, !.code = c] IN
         \/ /\ loginCookie[b] = NoState
            /\ req' = [req EXCEPT ![r] = Reply(q, "refused")]
            /\ UNCHANGED logins
         \/ /\ loginCookie[b] # NoState /\ ~CookieMatches(b, t)
            /\ req' = [req EXCEPT ![r] = Reply(q, "failed")]
            /\ \E o \in TakeLoginTransaction(t, q.key) : logins' = o.db
         \/ /\ CookieMatches(b, t)
            /\ req' = [req EXCEPT ![r] = q]
            /\ UNCHANGED logins
    /\ UNCHANGED <<now, sessions, keyOf, browserVars, idpVars, historyVars>>

\* The browser opens a callback URL.  Any browser may open any URL it was
\* given, twice, late, or with a code that belongs to another login.
Callback(r, b, p) ==
    /\ req[r] = Idle
    /\ \E t \in redirects, c \in (Codes \ FreshCodes) \cup {NoCode} :
         LET q == [Arrive(b, p) EXCEPT !.pc = "take", !.state = t, !.code = c]
         IN  req' = [req EXCEPT ![r] =
                       IF loginCookie[b] = NoState THEN Reply(q, "refused")
                       ELSE IF ~CookieMatches(b, t) THEN Reply(q, "failed")
                       ELSE q]
    /\ UNCHANGED <<storeVars, keyOf, browserVars, idpVars, historyVars>>

\* The transaction is consumed before the query's error and code are looked at.
CallbackTake(r) ==
    LET q == req[r] IN
    /\ q.pc = "take"
    /\ \E o \in TakeLoginTransaction(q.state, q.key) :
         /\ logins' = o.db
         /\ req' = [req EXCEPT ![r] =
                      IF o.res = {} \/ q.code = NoCode THEN Reply(q, "failed")
                      ELSE [q EXCEPT !.pc = "exchange"]]
    /\ UNCHANGED <<now, sessions, keyOf, browserVars, idpVars, historyVars>>

\* The token endpoint's own step. A call that fails may still have reached it.
CallbackExchange(r) ==
    LET q == req[r] IN
    /\ q.pc = "exchange"
    /\ \/ /\ Redeemable(q.code, q.state)
          /\ codes' = Spend(q.code)
          /\ req' = [req EXCEPT ![r] =
                       [q EXCEPT !.pc = "verify", !.exp = now + TokenTTL]]
       \/ /\ \/ ~Redeemable(q.code, q.state) /\ codes' = Spend(q.code)
             \/ Faults /\ codes' \in {codes, Spend(q.code)}
          /\ req' = [req EXCEPT ![r] = Reply(q, "failed")]
    /\ UNCHANGED <<storeVars, keyOf, browserVars, historyVars>>

\* Bug: the expected nonce is not passed to the verifier.
NonceUnchecked(c, t) == TRUE

NonceMatches(c, t) == codes[c].txn = t

\* Bug: no early return for a token that expired on its way.
NoTimeNeeded(ttl) == TRUE

HasTimeLeft(ttl) == ttl > 0

\* The answer is back: the ID token's nonce is checked and the clock is read.
CallbackVerify(r) ==
    LET q == req[r]
        ttl == q.exp - now IN
    /\ q.pc = "verify"
    /\ req' = [req EXCEPT ![r] =
                 IF NonceMatches(q.code, q.state) /\ HasTimeLeft(ttl)
                 THEN [q EXCEPT !.pc = "create", !.ttl = ttl]
                 ELSE Reply(q, "failed")]
    /\ UNCHANGED <<storeVars, keyOf, browserVars, idpVars, historyVars>>

\* Bug: generateID's error is dropped and its empty id used.
SidsOrEmpty == (Sids \ {m.sid : m \in made}) \cup {NoSid}

FreshSids == Sids \ {m.sid : m \in made}

\* CreateSession with the TTL read one step ago.  A session whose SET was
\* applied but not acknowledged is in the store under an id nobody was given.
CallbackCreate(r) ==
    LET q == req[r] IN
    /\ q.pc = "create"
    /\ \E s \in FreshSids : \E o \in CreateSession(s, q.key, q.exp, q.code, q.ttl) :
         /\ sessions' = o.db
         /\ made' = IF s \in Ids(o.db)
                    THEN made \cup {[sid |-> s, state |-> q.state,
                                     code |-> q.code, browser |-> q.browser]}
                    ELSE made
         /\ req' = [req EXCEPT ![r] =
                      IF o.ok THEN [Reply(q, "loggedIn") EXCEPT !.sid = s]
                              ELSE Reply(q, "failed")]
    /\ UNCHANGED <<now, logins, keyOf, browserVars, idpVars, starter>>

----------------------------------------------------------------------------
(* POST /auth/logout                                                       *)

\* The open page sends the CSRF token it holds; the browser adds the session
\* cookie it has now.  Without a cookie the request is refused.
Logout(r, b, p) ==
    /\ req[r] = Idle
    /\ page[b] # NoSid
    /\ LET q == [Arrive(b, p) EXCEPT !.pc = "lookup", !.csrf = page[b],
                                        !.sid = sessionCookie[b]]
       IN  req' = [req EXCEPT ![r] =
                     IF sessionCookie[b] = NoSid THEN Reply(q, "refused") ELSE q]
    /\ UNCHANGED <<storeVars, keyOf, browserVars, idpVars, historyVars>>

\* Bug: any CSRF token will do.
CsrfPresent(q, s) == q.csrf # NoSid

CsrfMatches(q, s) == q.csrf = s

\* Bug: a CSRF mismatch clears the cookie, as a failed lookup does.
LogoutLookupClears(r) ==
    LET q == req[r] IN
    /\ q.pc = "lookup"
    /\ \E found \in GetSession(q.sid, q.key) :
         req' = [req EXCEPT ![r] =
                   IF found = {} \/ ~CsrfMatches(q, q.sid) THEN Reply(q, "gone")
                   ELSE [q EXCEPT !.pc = "delete"]]
    /\ UNCHANGED <<storeVars, keyOf, browserVars, idpVars, historyVars>>

LogoutLookup(r) ==
    LET q == req[r] IN
    /\ q.pc = "lookup"
    /\ \E found \in GetSession(q.sid, q.key) :
         req' = [req EXCEPT ![r] =
                   IF found = {} THEN Reply(q, "gone")
                   ELSE IF ~CsrfMatches(q, q.sid) THEN Reply(q, "refused")
                   ELSE [q EXCEPT !.pc = "delete"]]
    /\ UNCHANGED <<storeVars, keyOf, browserVars, idpVars, historyVars>>

LogoutDelete(r) ==
    LET q == req[r] IN
    /\ q.pc = "delete"
    /\ \E o \in DeleteSession(q.sid) :
         /\ sessions' = o.db
         /\ req' = [req EXCEPT ![r] =
                      Reply(q, IF o.ok THEN "loggedOut" ELSE "refused")]
    /\ UNCHANGED <<now, logins, keyOf, browserVars, idpVars, historyVars>>

----------------------------------------------------------------------------
(* GET /auth/session                                                       *)

\* A page loads and asks who is logged in; no cookie is no error.
SessionStatus(r, b, p) ==
    /\ req[r] = Idle
    /\ LET q == [Arrive(b, p) EXCEPT !.pc = "status", !.sid = sessionCookie[b]]
       IN  req' = [req EXCEPT ![r] =
                     IF sessionCookie[b] = NoSid THEN Reply(q, "anonymous") ELSE q]
    /\ UNCHANGED <<storeVars, keyOf, browserVars, idpVars, historyVars>>

SessionLookup(r) ==
    LET q == req[r] IN
    /\ q.pc = "status"
    /\ \E found \in GetSession(q.sid, q.key) :
         req' = [req EXCEPT ![r] =
                   Reply(q, IF found = {} THEN "anonymous" ELSE "authenticated")]
    /\ UNCHANGED <<storeVars, keyOf, browserVars, idpVars, historyVars>>

----------------------------------------------------------------------------
(* Replies, and what may go wrong around the handlers                      *)

\* The reply reaches its browser, which applies its Set-Cookie headers.  All
\* callback replies but the cookie-less one clear the login-state cookie.
Deliver(r) ==
    LET q == req[r]
        b == q.browser IN
    /\ q.pc = "respond"
    /\ req' = [req EXCEPT ![r] = Idle]
    /\ loginCookie' = [loginCookie EXCEPT ![b] =
         CASE q.reply = "redirect" -> q.state
           [] q.reply \in {"failed", "loggedIn"} -> NoState
           [] OTHER -> @]
    /\ sessionCookie' = [sessionCookie EXCEPT ![b] =
         CASE q.reply = "loggedIn" -> q.sid
           [] q.reply \in {"gone", "loggedOut"} -> NoSid
           [] OTHER -> @]
    /\ page' = [page EXCEPT ![b] =
         CASE q.reply = "authenticated" -> q.sid
           [] q.reply \in {"anonymous", "loggedOut"} -> NoSid
           [] OTHER -> @]
    /\ redirects' = IF q.reply = "redirect" THEN redirects \cup {q.state} ELSE redirects
    /\ UNCHANGED <<storeVars, keyOf, idpVars, historyVars>>

\* The client goes away, the connection breaks or the replica dies.
Lose(r) ==
    /\ req[r] # Idle
    /\ req' = [req EXCEPT ![r] = Idle]
    /\ UNCHANGED <<storeVars, keyOf, browserVars, idpVars, historyVars>>

\* A browser drops a cookie: its Max-Age is over, or the browser was closed.
DropCookie(b) ==
    /\ \/ /\ loginCookie[b] # NoState
          /\ loginCookie' = [loginCookie EXCEPT ![b] = NoState]
          /\ UNCHANGED sessionCookie
       \/ /\ sessionCookie[b] # NoSid
          /\ sessionCookie' = [sessionCookie EXCEPT ![b] = NoSid]
          /\ UNCHANGED loginCookie
    /\ UNCHANGED <<storeVars, keyOf, req, page, redirects, idpVars, historyVars>>

\* A pod is replaced by one started with the next key.  Requests it was
\* serving drain with the key they arrived under, or are lost.
Roll(p) ==
    /\ keyOf[p] < MaxKey
    /\ keyOf' = [keyOf EXCEPT ![p] = @ + 1]
    /\ UNCHANGED <<storeVars, req, browserVars, idpVars, historyVars>>

\* A session's SET is at most MaxDelay ticks behind the reading of the clock
\* that its TTL comes from: the Redis client's timeouts bound it.
CreateInTime(r) ==
    req[r].pc = "create" => now - (req[r].exp - req[r].ttl) < MaxDelay

Tick ==
    /\ now < MaxTime
    /\ \A r \in Requests : CreateInTime(r)
    /\ StoreTick
    /\ UNCHANGED <<keyOf, req, browserVars, idpVars, historyVars>>

Next ==
    \/ \E r \in Requests, b \in Browsers, p \in Replicas :
          Login(r, b, p) \/ Callback(r, b, p) \/ Logout(r, b, p) \/ SessionStatus(r, b, p)
    \/ \E r \in Requests :
          \/ CallbackTake(r) \/ CallbackExchange(r) \/ CallbackVerify(r)
          \/ CallbackCreate(r) \/ LogoutLookup(r) \/ LogoutDelete(r)
          \/ SessionLookup(r) \/ Deliver(r) \/ Lose(r)
    \/ \E t \in States : Authorize(t)
    \/ \E b \in Browsers : DropCookie(b)
    \/ \E p \in Replicas : Roll(p)
    \/ Tick

Spec == Init /\ [][Next]_vars
===========================================================================
