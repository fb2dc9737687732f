---------------------------- MODULE AuthSafety ----------------------------
(***************************************************************************)
(* What AuthFlow must never do, kept apart from the state machine.         *)
(***************************************************************************)
EXTENDS AuthFlow

\* One-use state (store.go, TakeLoginTransaction): whatever callbacks run
\* concurrently, on any replica, a login transaction is turned into at most
\* one session, and so is an authorization code.
OneSessionPerLogin ==
    \A m, n \in made : m.state = n.state \/ m.code = n.code => m = n

\* Binding to the browser (oidc.go, the state cookie): a session goes only to
\* the browser that started its login, and a browser's session cookie is always
\* of a session made for it.
BoundToBrowser ==
    /\ \A m \in made : starter[m.state] = m.browser
    /\ \A b \in Browsers : sessionCookie[b] # NoSid =>
         \E m \in made : m.sid = sessionCookie[b] /\ m.browser = b

\* Binding to the token (oidc.go, the nonce): the ID token of a session was
\* issued for the very login transaction that the session was created by.
BoundToToken == \A m \in made : codes[m.code].txn = m.state

\* Bounded lifetime (oidc.go, the TTL of CreateSession): every record has a
\* deadline, and no session is in the store more than MaxDelay ticks past the
\* expiry of its ID token, or a login transaction longer than LoginTTL.
LifetimeBounded ==
    /\ \A e \in sessions : e.deadline # NoExpiry /\ now < e.exp + MaxDelay
    /\ \A e \in logins : e.deadline # NoExpiry /\ e.deadline <= now + LoginTTL

\* A 204 from LogoutHandler is kept: the session of a successful logout is not
\* in the store, for any replica, when the reply is on its way or afterwards.
LogoutMeansDeleted ==
    \A r \in Requests : req[r].reply = "loggedOut" => req[r].sid \notin Ids(sessions)

\* Failing closed on logout (session_handlers.go:58-60): a logout that is
\* answered "not logged in", and clears the cookie, leaves no session behind.
NothingLeftToDelete ==
    \A r \in Requests : req[r].reply = "gone" => req[r].sid \notin Ids(sessions)

\* A login is left to its browser (oidc.go:153-162, the cookie is compared before
\* the transaction is taken): before its deadline a login transaction leaves the
\* store only for a callback with its state, sent by the browser that started it.
\* Callback URLs opened in other browsers, or with the cookie of another login,
\* are refused without using it up.
OnlyItsBrowserRedeems ==
    [][\A e \in logins : e.id \notin Ids(logins)' =>
          \/ e.deadline <= now'
          \/ \E r \in Requests : /\ req[r].pc = "take" /\ req[r].state = e.id
                                /\ req[r].browser = starter[e.id]]_vars

\* CSRF (session_handlers.go, LogoutHandler): a session is removed before its
\* deadline only by a logout sent from a page that had loaded this very
\* session; a page left over from an earlier session cannot end a later one.
OnlyItsPageLogsOut ==
    [][\A e \in sessions : e.id \notin Ids(sessions)' =>
          \/ e.deadline <= now'
          \/ \E r \in Requests : req[r].pc = "delete" /\ req[r].csrf = e.id]_vars

----------------------------------------------------------------------------
(* Why OneSessionPerLogin holds: the places where a login or a code is are *)
(* exclusive, and each is passed once.                                     *)

Holding == {"exchange", "verify", "create"}
Exchanged == {"verify", "create"}

\* An id that was not drawn yet is nowhere.
UnstartedLogins ==
    \A t \in States : starter[t] = NoBrowser =>
        /\ t \notin Ids(logins) /\ t \notin redirects
        /\ \A m \in made : m.state # t
        /\ \A r \in Requests : req[r].state # t

\* A login in the store was not taken: nobody holds it or has used it.
OpenLogins ==
    \A t \in Ids(logins) :
        /\ \A m \in made : m.state # t
        /\ \A r \in Requests : req[r].pc \in Holding => req[r].state # t

\* A login that was taken has one holder, and was not used yet.
HeldLogins ==
    \A r \in Requests : req[r].pc \in Holding =>
        /\ \A m \in made : m.state # req[r].state
        /\ \A r2 \in Requests :
             req[r2].pc \in Holding /\ req[r2].state = req[r].state => r2 = r

\* The same for codes, which the provider deletes when they are exchanged.
IssuedCodes ==
    \A r \in Requests : req[r].code \in Codes => codes[req[r].code].txn # NoState

ExchangedCodes ==
    \A r \in Requests : req[r].pc \in Exchanged =>
        /\ ~codes[req[r].code].live
        /\ \A m \in made : m.code # req[r].code
        /\ \A r2 \in Requests :
             req[r2].pc \in Exchanged /\ req[r2].code = req[r].code => r2 = r

UsedCodes ==
    \A m \in made : ~codes[m.code].live /\ codes[m.code].txn # NoState

\* One use at every stage (store.go:150-152, "a given state can only ever be
\* redeemed once"; server.go:198, "single-use"): a login is unstarted, open,
\* held by one callback or used by one session, and so is a code.
OneUse ==
    /\ UnstartedLogins /\ OpenLogins /\ HeldLogins
    /\ IssuedCodes /\ ExchangedCodes /\ UsedCodes
    /\ OneSessionPerLogin
===========================================================================
