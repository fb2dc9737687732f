--------------------------- MODULE SessionStore ---------------------------
(***************************************************************************)
(* internal/session: the typed, sealed, expiring records that every        *)
(* replica keeps in one shared Valkey/Redis.  A record is a member of a    *)
(* set and is found by its "id"; "key" is the encryption key it was sealed *)
(* with and "deadline" the time at which the server forgets it.            *)
(*                                                                         *)
(* A call of the store is the SET of its possible outcomes, so that a      *)
(* caller takes one with \E.  A backend call that fails may or may not     *)
(* have been applied: the command can be executed and its reply lost.      *)
(***************************************************************************)
EXTENDS Integers

CONSTANTS
    States,   \* login-transaction ids: the "state" value of one login
    Sids,     \* session ids
    MaxKey,   \* encryption keys are 0..MaxKey; a rotation moves to the next
    Faults    \* TRUE: a backend call may return an error

ASSUME StoreAssumption == MaxKey \in Nat /\ Faults \in BOOLEAN

VARIABLES
    now,      \* the clock, in ticks
    logins,   \* the records under the "login:" prefix
    sessions  \* the records under the "session:" prefix

storeVars == <<now, logins, sessions>>

EncKeys == 0..MaxKey

\* A login transaction's nonce and PKCE verifier are drawn together with its
\* state value, so the id stands for the three of them.
LoginTransaction == [id : States, key : EncKeys, deadline : Nat]

\* exp is ExpiresAt. The CSRF token is drawn once per session, so the id
\* stands for it too; token is the code the ID token was obtained with.
Record(Tokens) ==
    [id : Sids, key : EncKeys, deadline : Nat, exp : Nat, token : Tokens]

\* A Redis deadline of 0 is no deadline: SET without a positive TTL stores a
\* value that never expires.
NoExpiry == 0
Deadline(ttl) == IF ttl > 0 THEN now + ttl ELSE NoExpiry

Ids(db) == {e.id : e \in db}
Find(db, id) == {e \in db : e.id = id}
Unexpired(db, t) == {e \in db : e.deadline = NoExpiry \/ e.deadline > t}

\* open: a value sealed with another key is an error, never partial data.
Opened(found, k) == {e \in found : e.key = k}

Set(db, e) ==
    LET written == (db \ Find(db, e.id)) \cup {e} IN
    {[ok |-> TRUE, db |-> written]} \cup
    (IF Faults THEN {[ok |-> FALSE, db |-> d] : d \in {db, written}} ELSE {})

Get(db, id) == {Find(db, id)} \cup (IF Faults THEN {{}} ELSE {})

GetDel(db, id) ==
    LET rest == db \ Find(db, id) IN
    {[res |-> Find(db, id), db |-> rest]} \cup
    (IF Faults THEN {[res |-> {}, db |-> d] : d \in {db, rest}} ELSE {})

Del(db, id) ==
    LET rest == db \ Find(db, id) IN
    {[ok |-> TRUE, db |-> rest]} \cup
    (IF Faults THEN {[ok |-> FALSE, db |-> d] : d \in {db, rest}} ELSE {})

CreateLoginTransaction(t, k, ttl) ==
    Set(logins, [id |-> t, key |-> k, deadline |-> Deadline(ttl)])

\* Bug: GET in place of GETDEL, so reading does not consume.
TakeWithoutDelete(t, k) ==
    {[res |-> Opened(found, k), db |-> logins] : found \in Get(logins, t)}

\* The delete has happened even when the value cannot be opened.
TakeLoginTransaction(t, k) ==
    {[res |-> Opened(o.res, k), db |-> o.db] : o \in GetDel(logins, t)}

CreateSession(s, k, exp, token, ttl) ==
    Set(sessions, [id |-> s, key |-> k, deadline |-> Deadline(ttl),
                   exp |-> exp, token |-> token])

\* The empty set is an error, whatever its cause: absent, expired, sealed
\* with another key, or a backend failure.
GetSession(s, k) == {Opened(found, k) : found \in Get(sessions, s)}

\* Bug: the backend's error is dropped.
DeleteIgnoringError(s) == {[ok |-> TRUE, db |-> o.db] : o \in Del(sessions, s)}

DeleteSession(s) == Del(sessions, s)

StoreInit == now = 0 /\ logins = {} /\ sessions = {}

\* Time passes and the server drops what has reached its deadline.
StoreTick ==
    /\ now' = now + 1
    /\ logins' = Unexpired(logins, now')
    /\ sessions' = Unexpired(sessions, now')
===========================================================================
