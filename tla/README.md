# TenantDeck in TLA+

TLA+ models of TenantDeck's backend-for-frontend, with the TLC runs that check
them on small instances and the TLAPS proofs that hold for all of them. Every
definition is translated from the source of the repository; `PROJECT.json`
("map") gives the lines each one stands for.

## 1. The system

TenantDeck is a Go backend-for-frontend (BFF) with a React front end. It logs
users in with OIDC (authorization code, PKCE, nonce), keeps their ID tokens in
encrypted session records in Valkey/Redis, and forwards a fixed list of
read-only Kubernetes calls to Capsule Proxy with the user's token. The
deployment runs two replicas that share nothing but the store.

| Component | State it keeps | Operations | Talks to |
|---|---|---|---|
| session store (`internal/session`) | `login:` and `session:` records, sealed, each with a Redis deadline | Create/Take login transaction, Create/Get/Delete session, Ping | Valkey/Redis |
| auth handlers (`internal/auth`) | none of their own: two cookies in the browser, records in the store | login, callback, session status, logout | store, provider, browser |
| OIDC provider (`cmd/mockoidc` in the tests) | authorization codes, refresh tokens | authorize, token (code and refresh grants), discovery, keys | browser, BFF |
| protected API (`internal/httpapi`) | the session record captured in the request's context | list, get, overview (two upstream calls), events | store, Capsule client |
| Capsule client (`internal/capsule`) | none | list, get, stream logs; bounded reads | Capsule Proxy |
| log streaming (`httpapi/logs.go`, `capsule/logs.go`, `PodLogsViewer.tsx`) | bytes left, deadline; abort controllers in the viewer | start, restart, cancel, unmount | all three tiers |
| front end (`web/src`) | session status, namespace, resource kind, one fetch per mounted component | load, log out, select | BFF |
| lifecycle and probes (`cmd/tenantdeck`, `health.go`) | starting, listening or draining | start, readyz, livez, SIGTERM | store, provider |
| configuration (`internal/config`) | none | Load, BuildRedisTLSConfig | environment |
| web assets (`internal/webassets`) | the build that is embedded | file or index | browser |
| Helm chart (`charts/tenantdeck`) | replica count, pod template, probes | install, upgrade | Kubernetes' controllers |

What is hard in it, and what correctness means, component by component:

* **Store.** Calls can fail after they were applied; records vanish by time; two
  replicas may hold different encryption keys during a rollout. Correct: a
  login transaction is taken once, every record has a deadline, what ended does
  not count again.
* **Auth handlers.** A callback relates a cookie, a query, a stored record, a
  code and a token, each checked at another step with external calls between
  them, while other callbacks and logouts run. Correct: one session per login,
  in the browser that started it, for a token issued to it; a login is not used
  up by a callback in another browser; logout is final and
  ends only the session its page was loaded with; failures deny.
* **Protected API.** The session is looked up once per request and used after
  logout or expiry; the overview makes two calls with it. Correct: 401/403/502
  classes are kept apart; nothing is served without a session at arrival.
* **Log streaming.** Three tiers with their own timeouts and limits, cancel and
  restart, unmounts. Correct: bounded in bytes and time, stopped when the view
  is left, one stream per viewer.
* **Front end.** Answers arrive after the view moved on. Correct: what is shown
  belongs to the namespace, kind and name selected.
* **Summaries.** Kubernetes leaves out what is zero or empty, Go decodes what is
  missing to a zero value and encodes nil as `null`, and the front end's types
  say what they say. Correct: what arrives has the type it is given, and every
  table can be drawn whenever an object is read.
* **Lifecycle and configuration.** Readiness follows the store, liveness does
  not; a drain is bounded by 15 s; a new pod may be given a bad environment while
  the store or the provider is away. Correct: a bad upgrade costs no pod that
  serves, a pod that is up outlasts an outage of the store by itself, and things
  recover.

`PROJECT.json` lists every component with its status and every hazard with its
line and the properties that would catch it.

## 2. Modules

| Module | What it is |
|---|---|
| `SessionStore` | the store: a call is the set of its possible outcomes (answered, failed and applied, failed and not applied) |
| `AuthFlow` | browsers, replicas, provider and the four auth endpoints over `SessionStore` |
| `AuthSafety` | what `AuthFlow` must never do |
| `LoginLedger` | the abstract promise: fresh - open - held - closed logins, none - valid - ended sessions |
| `AuthRefinement` | the refinement mapping from `AuthFlow` to `LoginLedger` |
| `AuthFlowProofs` | TLAPS proofs about `AuthFlow`: types, one use |
| `AuthBindingProofs` | the rest of `AuthFlow`'s safety, and the refinement |
| `ApiServer` | the protected API: session lookup, handlers of one and two calls upstream, timeouts, shutdown |
| `ApiSafety`, `ApiProofs` | its properties, and their proofs |
| `Backend`, `BackendProofs` | `AuthFlow` and `ApiServer` over one session store, and what is proved of the two together |
| `LogStream` | pod logs in the browser, in the BFF and upstream |
| `OneLog` | the abstract promise: a click asks for one stream, opened once, over once, and reported once |
| `LogSafety`, `LogProofs` | its properties, the refinement of `OneLog`, and the proofs |
| `FrontEnd` | the single-page application: views, effects, fetches, session status |
| `OneView` | the abstract promise: what is shown changes by a click, or once, by what was learnt about it |
| `FrontSafety`, `FrontProofs` | its properties, which its runs start from, the refinement of `OneView`, and the proofs |
| `Config` | what a process makes of its environment, as operators |
| `Deployment` | the pods of the chart over `Config`: startup, probes, crashes, rolling updates, page loads |
| `DeploymentSafety`, `DeploymentProofs` | its properties, and their proofs |
| `Summaries` | what the BFF makes of each kind of object, and the front end's types, as operators |
| `NamespaceData` | an object as it grows in the cluster, read at any moment, and the requests for a pod's logs, over `Summaries` |
| `NamespaceDataSafety`, `NamespaceDataProofs` | its properties, and their proofs |
| `MCAuthFlow`, `MCLogStream`, `MCDeployment`, `MCNamespaceData` | symmetry and values for the runs |

`ApiServer` keeps of the store what a lookup may say (live, ended, failed), and
that a browser has only cookies of sessions that were made. `Backend` puts
`AuthFlow` in the place of these assumptions, and `BackendRunsApi` proves that it
keeps them. `FrontEnd` keeps of the server that it answers something, which is
`ApiServer`'s `Answered`. `Deployment`'s `Stop` is the end of `ApiServer`'s drain.

### 2.1 SessionStore and AuthFlow

A record is found by its id. The random values drawn together are named by one
id: a login's state, nonce and PKCE verifier; a session's id and CSRF token.
Fresh ids never collide (256 random bits). `now` counts ticks; a tick drops the
records whose deadline it reaches, and a TTL that is not positive gives no
deadline, as in Redis.

A request occupies a slot of `Requests` and its `pc` names the call its handler
makes next, so that everything else can happen between two external calls:

| Handler | Steps (`pc` after the step) |
|---|---|
| `LoginHandler` | `Login` writes the transaction (respond) |
| `CallbackHandler` | `Callback` cookie and state (take), `CallbackTake` GETDEL, error and code (exchange), `CallbackExchange` token endpoint (verify), `CallbackVerify` nonce and TTL (create), `CallbackCreate` SET (respond) |
| `LogoutHandler` | `Logout` cookie (lookup), `LogoutLookup` GET and CSRF (delete), `LogoutDelete` DEL (respond) |
| `SessionHandler` | `SessionStatus` cookie (status), `SessionLookup` GET (respond) |

`Deliver` is the reply reaching the browser, which applies its Set-Cookie
headers and, for the page, the status it carries; replies can overtake each
other. `Lose` drops a request anywhere: client gone, connection broken, replica
killed. `Roll` replaces a replica by one with the next encryption key. A
callback may be opened by any browser, any number of times, with any state that
was handed out and any code that was issued. The provider is `cmd/mockoidc`'s
code grant; `IdPChecksPKCE` says whether it verifies the PKCE verifier, so that
the nonce check can be seen to carry its weight alone.

The Origin checks are not modelled: they refuse a request without touching any
state. `starter` and `made` are history: who started a login, and what each
session was made from. A browser has one page that may outlive the session it
was loaded with; the page that a login redirect opens is a `SessionStatus`.

### 2.2 ApiServer

`req` holds the requests in flight: `requireSession` (`Arrive`, `Lookup`), the
call upstream (`Answer` its status line, `Chunk` and `BodyEnds` its bounded
body, `TimeOut` the client's ten seconds), what the handler makes of it
(`Returned`: the next call, the answer, or the status that `writeUpstreamError`
maps an error to), `Deliver` and `Leave` the browser's end. `namespaces` makes
one call without a name to check, `resource` (lists, details, events) one after
the name was checked, `overview` two, one after the other.

`store` says of each session what `GetSession` may find; a lookup may always
fail, since the store can. `gone` counts ticks since a session ended, `drain`
since a replica was told to stop, `age` and `got` belong to the call under way.
A tick never passes while a timer is due, and the way back of the store's answer
takes none: what a session that ends during the lookup costs is one lookup and
not modelled. `early` is history: the call a handler was at when its replica was
told to stop.

`Backend` is the two over one store. `Store` is what a lookup of the API sees of
`AuthFlow`'s records, `Protected` a request with the session cookie that the
browser has at this moment, `ProtectedLookup` the `GetSession` of `SessionStore`,
key and failures included; all other steps are those of the two modules, in any
order. `from` is history: the browser that sent each request.

Fairness: lookups come back, timers fire, a process that may exit does, time
passes. Nothing is assumed of the proxy, which may stay silent, or of the
browser, which may not read.

### 2.3 LogStream

A stream is one click's worth of logs. `view`, `aborted` and `fetch` are
`PodLogsViewer` and `streamPodLogs` (one abort controller per `runStream`, the
one made by the effect and the current one apart), `conn` and `inFlight` the
connection with its buffers, `handler`, `upstream`, `sent` and `age`
`podLogsHandler` with its copy loop, its limit and its timeout. `Mount`,
`Restart`, `Cancel` and `Leave` are the user's; `FetchAnswered` to
`FetchAborted` the browser's; `HandlerStart` to `HandlerWrite` the handler's,
where a write blocks while the connection is full. `ConnectionLost`,
`UpstreamAnswers` and `UpstreamEnds` may happen or not.

A tick stands for minutes and does not pass while a handler has something to do.
Fairness: the browser's event loop, the BFF's goroutines, the arrival of a
request and time; none for the user, the network and the proxy.

### 2.4 FrontEnd

`page` and `status` are `App` and its requests for the session's status,
`screen` is the namespace of `App` with the view of `Workspace`, `panel` the
state of the component mounted for it, `fetches` the fetches under way with the
`cancelled` of the closure that started each. `Identity` is what makes React keep
a component (its type and its key): a click either mounts another one
(`Mount`: the old one's effect is cleaned up, the new one starts at "loading") or
gives the same one other properties (`Update`). The second does not happen,
because lists are keyed by kind, details by kind and name, and a namespace is
left through the list of namespaces; `ShownMatches` rests on that. `Outcome` is
the mapping every view has of an answer to a state. `strict` is the development
build, in which StrictMode runs each effect twice and cleans the first run up.

Fairness: a fetch ends, answered or rejected (`ApiServer`'s `Answered`, or the
browser's own patience).

### 2.5 Config and Deployment

A value of the environment is what it is checked for: a required one is there or
not, a bool parses or not, a CA file has certificates or not. `issuer` and
`redis` are "wrong" when they name something that is not there. `Loads` is
`config.Load` without its wording, `BuildRedisTLSConfig` names the TLS
configuration it builds, `StartsUp` is `run` up to `ListenAndServe`: discovery
is asked for at once, the store and the proxy when they are first used.

`rev` is the environment in the pod template and `pod` what each pod does.
`Create`, `Terminate` and `Stop` are the rolling update with `maxUnavailable: 0`
and `maxSurge: 1`; `Boot`, `Crash`, `ReadinessProbe` and `LivenessProbe` one pod,
with the probes' `FailureThreshold` and the two handlers of `health.go` (`Pings`,
`Alive`); `Upgrade` and `Outage` may happen at any time. `GetIndex` and
`GetScript` are a page load, each request answered by any pod in rotation with
the build it has (`Serves`). The controllers are Kubernetes', modelled as far as
the chart relies on them; pods and upgrades are not limited.

Fairness: processes start and stop, probes are sent, the controllers work, a
browser asks for the script of its page. Nothing is assumed of outages, crashes
and upgrades: `Recovers` is about the time after the last of them (`Calm`), and
`RejoinsAlone` only needs the store to stay: a pod that was up during its outage
returns although the provider never answers again and upgrades go on, which holds
because `livezHandler` asks for nothing and nothing is asked of the provider after
the start.

### 2.6 Summaries and NamespaceData

An object is a function from the fields it has to their values, so that a field
which is absent, zero or null is three different things. `Copy` is decoding into
a struct and encoding it again, `Optional` a field with `omitempty`; one operator
per summary follows. `Fits` says what `api.ts` promises of the result and
`Renders` what the table of the kind takes for granted.

`Admitted` is what the API server stores at first, `Report` a controller or the
kubelet writing the next status (for a pod, over one of the lists of containers in
`Reported`), `Fetch` a list at any moment in between.
`AskLogs` takes a query for a pod's logs through `parseLogOptions` and
`StreamPodLogs` to the query that is sent upstream, where a zero is the same as
nothing (`UpstreamQuery`). A service's target port is a number or a name and is
made text by `Sprint`. Names and values are sets of a few texts; name
validation is a character rule and left out.

## 3. Runs

| Run | Question | Bounds |
|---|---|---|
| `auth_login` | Can concurrent, replayed or mixed callbacks of two browsers break one-use, the binding to browser or token, or use up the login of another browser? | 2 browsers, 2 requests, 2 logins, codes, sessions; times 0-2; no faults; PKCE unchecked |
| `auth_faults` | What do failed calls and a change of key leave behind, and does the flow implement the ledger? | 1 browser, 2 requests, 2 keys; faults; SET one tick late; times 0-2 |
| `logout_leaves_session` | Is nothing left when a logout answers 401? (no) | 1 browser, 1 key, faults; times 0-3 |
| `api_calls` | Whose token is used, for how long, what does the answer say, which calls does a shutdown cut off, is everything answered? | 2 requests, 1 session, 1 replica; timeouts of 2 and 3 ticks, bodies of 1 unit |
| `log_streams` | Does a viewer run and show one stream, is every stream bounded, does an abort reach all tiers, is what the viewer reports one true end of its stream? | 2 streams; 1 tick, 2 units, 1 chunk in flight |
| `log_leaving` | Does leaving the view stop its stream? (no) | 2 streams |
| `log_stalled` | Is every handler over by `maxLogStreamDuration`? (no) | 2 streams |
| `front_views` | Is what a view shows its own, whatever comes back late, and does every view settle? | 2 namespaces, 2 kinds, 1 name, 3 fetches under way; both builds |
| `front_expired` | Is an expired session shown as such? (no) | as `front_views` |
| `front_stuck` | Does App wait only while there is something to wait for? (no) | as `front_views` |
| `rollout` | Can an upgrade or an outage take down what serves, and does all recover? | 2 pods, 1 replica, 9 environments, threshold 2 |
| `namespace_data` | Does every summary have its type and a table, does a pod's readiness mean what it says, is every log request bounded? | 12 kinds, pods of 1 and 2 containers, reported in either order; 2 lines, 3 bytes, numbers -1, 0, 1, 4 |

Why the bounds are enough. Two of everything relates pairs: two callbacks that
race for one login, two logins that could swap codes, a session that replaces
another in one browser; two requests on one replica; a stream and the one that
replaces it; the pod that serves and the one that shall take its place. One
session is enough for `api_calls`, whose liveness asks for a small instance,
because its safety properties are proved for any number of them; that requests
of several sessions each carry the token of their own is not for this run but for
`BackendProofs!TokensAreOwned`, over the sessions that logins made. Time needs a login, a code and a token to expire while the other is
still good (LoginTTL 2, CodeTTL 1, TokenTTL 1), and a call's timeout, two of
them and the drain to be in the order of the source: 10 s < 15 s < 20 s is
2 < 3 < 4. A body needs a unit below, at and beyond the limit. Three fetches are
the one of the view shown and two of views that were left, or, in the
development build, the two of one mount and a leftover.
The environments of `rollout` are a good one of each of two builds and one for each
thing that may be wrong with it. The limits of `namespace_data` have a number
below, at and above them, and the options are independent of each other.
The log runs do not check for deadlock: a viewer may use up its streams.

Statements of the repository that do not hold, each shown by its own run:

* `session_handlers.go:58-60` says that after a failed lookup "there is nothing
  left to delete". If the store failed, or the replica has another key, the
  session is still there; it is left to expire. What holds, with a store that
  does not fail, is the same property in `auth_login`.
* `api.ts:224-226` says that leaving the view stops its stream. The effect's
  cleanup aborts the controller it made, not the one of a later Reconnect. What
  holds is `OneStreamPerView` while the view is there.
* `logs.go:26-29` says that `maxLogStreamDuration` bounds every request. It bounds
  the call upstream; a handler blocked in a write to a browser that does not read
  stays. What holds is `StreamBounded`.
* `docs/spec/02-product-and-scope.md:25` asks for an expired-session state. Views
  show a 401 as an upstream that is unavailable.
* `docs/security-test-matrix.md:59` says that a network failure is mapped to a UI
  state. App's request for the session's status has no catch. What holds, in
  every view, is `Settles`.

More that the models show, without a run of its own:

* A session outlives its token's `exp` by the delay of the SET at most
  (`LifetimeBounded`; the TTL is computed before the SET and nothing compares
  `ExpiresAt` on a read).
* A view that failed is not retried by a click on its own tab, which mounts
  nothing (`Turn` of `OneView`; `FrontSettledStays`).
* `operations.md:42-44` says that the grace period leaves room to drain requests
  in flight. `Shutdown` waits 15 s, an overview may take 20 and a log stream ten
  minutes. What holds is `CallsDrained`: a single call is not cut off.
* A quota whose controller has not written a status yet is sent with `hard` and
  `used` null, where `api.ts:59-63` says that they are objects. `Overview.tsx`
  takes the keys of `hard` while it renders, and there is no error boundary, so
  the whole application goes blank until the status is there. It is the one
  exception in `WireTyped` and `TablesRender` (`Uncounted`).
* `PodLogsViewer` never passes a container, which Kubernetes asks for when a pod
  has several: the logs of such a pod cannot be shown.
* `docs/route-allowlist.md:54` calls the options of a log request bounded.
  `tailLines` and `limitBytes` are clamped, `sinceSeconds` only has to be positive
  (`LogOptions`).
* `config.go:132` says that `TENANTDECK_EXTERNAL_URL` "must be https://"; what is
  refused is the lower-case `http://`, without `TENANTDECK_INSECURE` (`Loads`, where
  `external = "other"` passes).
* In the middle of an upgrade a page of one build may be given `index.html` for
  its script by a pod of the other, and stays blank (`GetScript`). No property
  forbids that page. What holds is `PageLoads`: who keeps reloading gets a whole
  one.

## 4. Proofs

All theorems hold for any number of browsers, replicas, requests, sessions,
logins and streams and any timeouts and limits that satisfy the named
assumptions of the modules.

* `AuthFlowProofs!TypeCorrect`, from `StoreAssumption`, `TimeAssumption` and
  `NoneAssumption`. `TypeOK` is inductive because `Request` says what a handler
  has read by the time it gets to each step. The lemmas on `Set`, `Del` and
  `GetDel` say what a store call leaves behind whatever its outcome.
* `AuthFlowProofs!OneUseAlways` and `OneSession`. `OneUse` places every login
  and every code in exactly one of unused, stored, held by one callback, used by
  one session. It is inductive together with `TypeOK`: a callback takes a login
  by GETDEL and a code by the provider's single use, and hands both on, so a
  step moves one login or one code one place further. A frame lemma covers the
  steps that touch neither. `OneSessionPerLogin`, the part of it that speaks of
  sessions only, follows.
* `AuthBindingProofs`, the rest of `AuthFlow`'s safety, from the same assumptions
  and with store faults and key changes allowed. `Effects` says once what a step
  may do to each variable (a request moves on from what it was, a cookie is set
  by a reply to its browser, a record comes from a SET and goes by a DEL, a GETDEL
  or by time), and `StepEffects` shows that every action has no other. Three inductive
  invariants rest on it. `Bound` follows the browser and the nonce from the
  login's start through the request to the session and its cookie:
  `SessionBoundToBrowser`, `SessionBoundToToken`, and, since a callback gets to
  its GETDEL only with the cookie of the login that it names,
  `LoginsAreLeftToTheirBrowser`. `Lasting` keeps the deadlines,
  and that a callback on its way to the SET is in time: `LifetimesAreBounded`.
  `EndsSound` says that a request in `LogoutHandler` names a session that was
  made: `LogoutIsFinal`, `OnlyOwnPage`. `NothingIsLeft` has the
  two hypotheses that the comment in the source leaves out: the store does not
  fail, and there is one encryption key.
* `AuthBindingProofs!FlowImplementsLedger`: every step of the handlers is a step
  of `LoginLedger` or none. `StepEnds` takes all steps in which logins and
  sessions only end; the three that remain are `LoginStarts`, `TakeRedeems` and
  `CreateOpens`. `OneUse` is what makes the phases exclusive.
* `LogProofs!LogTypeCorrect`, `LogBounded`, `LogNoOrphans`. `HandlersSound` adds
  to the two properties that a handler that reads or writes once had an upstream
  stream and that one older than the duration has none open, which holds because
  no tick passes while the context is done and the stream open.
* `LogProofs!LogCurrentOnly`, `LogOneStream`. `ViewerSound` relates the view to
  the fetches of the streams that it started: all but the current one are
  aborted or over, and a callback of an aborted one changes nothing.
* `LogProofs!LogImplementsOneLog`: the three tiers implement `OneLog`. A stream is
  "new" until its fetch begins, then what `upstream` says of it; what the viewer
  says is its status, or that the user stopped it. A click is a `Begin`, `Report`
  or `Close`, the answer of the proxy `Open` or `Over`, a chunk `ShowText`;
  connections, buffers, aborts and the end of a stream that was replaced are no
  step of it. `TiersSound` is the invariant it adds: what a stream has in one
  tier has something behind it in the next (a handler has a fetch, a chunk on its
  way or read has an upstream stream, a handler that is done has none left).
* `FrontProofs!FrontTypeCorrect`, `FrontShowsWhatItSays`, `FrontLoadingWaits`,
  `FrontSettledStays`, for any namespaces, kinds, names and number of fetches,
  and both builds. `ShownMatches` and `LoadingWaits` are inductive together:
  exactly one fetch may settle a view that is loading, it was made for the
  view's screen, and a click to another screen mounts another view
  (`ClicksRemount`).
* `FrontProofs!FrontImplementsView`: components, effects, strict remounts and
  fetches that come back late implement `OneView`. A click, a mount or a login
  that changes the screen is a `Turn`, the one answer that settles a view is
  `Learn`, the end of the session is `Leave`; an answer to a fetch of a view that
  was left, a second effect's fetch and all that happens to the status are no
  step of it. `LoadingWaits` is why an answer that settles finds the view loading.
* `BackendProofs!BackendRunsFlow`, `BackendRunsApi`, `TokensAreOwned`, from the
  assumptions of both modules (`ApiConstants` restates those of `ApiServer` as a
  hypothesis). The first is plain: the API only reads the store. The second
  goes over the ledger: by `LedgerStep` a step of the login handlers opens one
  session, ends some, or touches none, which is `LogIn`, `SessionsEnd` or a
  stutter of `ApiServer`; a cookie is of a session that was made (`BoundToBrowser`),
  and a record that a lookup returns is in the store. With the two, each theorem
  about `AuthFlow` and about `ApiServer` is one about the whole backend.
  `TokensAreOwned` joins what neither module can say alone: whose token goes
  upstream, for how long after the session ended, and from which login it came.
  `BackInv` is the two modules' invariants, with the record's token (`Sealed`) and
  the browser of every request in flight (`OfItsBrowser`).
* `ApiProofs!ApiTypeCorrect`, `TokenUseIsBounded`, `OutcomeIsPreserved`,
  `CallsAreDrained`. The invariant `Sound` says of each handler what its earlier
  calls returned, that its session ended no longer ago than its calls have taken
  (`Spent`), and that the call it was at when the replica was told to stop is as
  old as the drain. `CallsAreDrained` needs `DrainAssumption`: a call's timeout
  is shorter than the drain's.
* `DeploymentProofs!DeploymentTypeCorrect`, `OnlySoundPodsServe`,
  `AvailabilityIsKept`, for any finite number of pods and any
  environments. `PodsSound` says that a pod that serves has started up with its
  environment and that one in rotation reached the store with it; the steps of
  the update leave a pod that is missed alone because they count what is ready.
* `NamespaceDataProofs!SummariesTyped`, `TablesAlwaysRender`, from
  `NullAssumption` (`null` is no scalar, no list and no set of hosts), for any
  values of the fields. The lemmas say of `Copy`, `Optional` and the lists of
  elements what type they give to what was decoded, per kind one lemma says that
  its summary `Fits`, and what fits, or is `Uncounted`, is drawn. Texts are members
  of `Words` and the zero text is `NoText`; the order of an ingress's hosts is left
  out (`Hosts` is a set), since no property and no table depends on it.
* `NamespaceDataProofs!LogRequestsBounded`, from `LogOptionsAssumption`, and
  `PodReadiness`, `PodContainersListed`, from `PodAssumption` (containers of a pod
  have names that differ) and `KubeletAssumption`: a report of the kubelet names
  every container of the pod once, in any order. The second is Kubernetes' promise
  and not the program's doing: `summarizePod` shows a report as it is, and would
  show a pod without the container that a report left out, and call it ready.
  `ObjectSound` says that the statuses are of such a report, or that there are
  none; `SomeContainer` is why `ready` is not vacuous.

Model-checked only: all liveness (`Answered`, `ShutdownCompletes`,
`CancelReachesUpstream`, `StreamingEnds`, `Settles`, `Recovers`, `RejoinsAlone`,
`PageLoads`),
which like ENABLED is out of the prover's reach. Every other property of a
passing run is a theorem. Proved only: `Backend`, whose states are the product of
two large models; its step to each of them is what the proofs are about, and both
are model-checked on their own.

## 5. Not modelled, and why

* Of the mock provider the refresh grant, client authentication, discovery and
  the key set: the program never refreshes a token, and the provider is a stand-in
  for tests. What the program relies on is in `AuthFlow`.
* Of the Capsule client the paths and headers it builds, and of the handlers the
  character rules of names: text without a state.
* Of the chart the security context, ingress and network policy:
  configuration of others, with no behaviour of the program.
* The Origin checks, which refuse a request and touch nothing.
* Logging, wording, markup and the order of columns.
* The Dockerfile, the end-to-end scripts and CI: no behaviour of the program.
* React, `net/http`, the Redis server, Kubernetes and Capsule Proxy appear by what
  the source relies on; encryption itself by which key can open a record.

A log stream that breaks half way looks like one that ended (`logs.go:93`,
`HandlerReadEnd`): no property says otherwise, because no document does.
