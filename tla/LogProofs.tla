----------------------------- MODULE LogProofs -----------------------------
(***************************************************************************)
(* The bounds of a log stream, for any number of streams, any limits and   *)
(* any buffers.                                                            *)
(***************************************************************************)
EXTENDS LogSafety, TLAPS

\* What ties the handler of a stream, its upstream call and its timer.
HandlerSound(s) ==
    /\ upstream[s] = "open" => handler[s] \in {"reading", "writing"}
    /\ upstream[s] = "open" => age[s] <= MaxDuration
    /\ handler[s] \in {"reading", "writing"} => upstream[s] # "none"
    /\ age[s] > MaxDuration =>
         handler[s] \in {"reading", "writing"} /\ upstream[s] = "ended"

HandlersSound == \A s \in Streams : HandlerSound(s)

----------------------------------------------------------------------------
(* Type correctness                                                        *)

LEMMA LogTypeInit == Init => TypeOK
  <1> SUFFICES ASSUME Init PROVE TypeOK
    OBVIOUS
  <1>1. view \in View /\ ~view.mounted /\ view.current = NoStream /\ view.first = NoStream
    BY DEF Init, NoView, View
  <1>2. QED
    BY <1>1, LimitAssumption DEF Init, TypeOK

\* A change of the view by the outcome of a stream or by its text.
LEMMA ViewFields ==
    ASSUME view \in View, NEW status \in {"streaming", "done", "error"},
           NEW s \in Streams, view.mounted <=> view.current # NoStream,
           view.mounted <=> view.first # NoStream
    PROVE  /\ [view EXCEPT !.status = status] \in View
           /\ [view EXCEPT !.status = status].mounted = view.mounted
           /\ [view EXCEPT !.status = status].current = view.current
           /\ [view EXCEPT !.status = status].first = view.first
           /\ [view EXCEPT !.lines = @ \cup {s}] \in View
           /\ [view EXCEPT !.lines = @ \cup {s}].mounted = view.mounted
           /\ [view EXCEPT !.lines = @ \cup {s}].current = view.current
           /\ [view EXCEPT !.lines = @ \cup {s}].first = view.first
  BY Zenon DEF View

LEMMA LogTypeUser == TypeOK /\ User => TypeOK'
  <1> SUFFICES ASSUME TypeOK, User PROVE TypeOK'
    OBVIOUS
  <1> USE LimitAssumption
  <1>1. ASSUME NEW s \in Streams, Mount(s) PROVE TypeOK'
    BY <1>1 DEF TypeOK, View, Mount, RunStream, handlerVars
  <1>2. ASSUME NEW s \in Streams, Restart(s) PROVE TypeOK'
    BY <1>2 DEF TypeOK, View, Restart, RunStream, handlerVars
  <1>3. ASSUME Cancel PROVE TypeOK'
    <2>0. view.current \in Streams
      BY <1>3 DEF TypeOK, Cancel, View
    <2>1. view' \in View /\ (view'.mounted <=> view'.current # NoStream)
                         /\ (view'.mounted <=> view'.first # NoStream)
      BY <1>3, <2>0, ViewFields DEF TypeOK, Cancel
    <2>2. aborted' \subseteq Streams
      BY <1>3 DEF TypeOK, Cancel, View
    <2>3. QED
      BY <1>3, <2>1, <2>2 DEF TypeOK, Cancel, Stay, handlerVars
  <1>4. ASSUME Leave PROVE TypeOK'
    BY <1>4 DEF TypeOK, View, Leave, NoView, Stay, handlerVars
  <1>5. QED
    BY <1>1, <1>2, <1>3, <1>4 DEF User

LEMMA LogTypeBrowser ==
    ASSUME TypeOK, NEW s \in Streams, Browser(s)
    PROVE  TypeOK'
  <1> USE LimitAssumption
  <1>1. ASSUME NEW what \in {"done", "error"}, Settle(s, what)
        PROVE  /\ view' \in View
               /\ view'.mounted <=> view'.current # NoStream
               /\ view'.mounted <=> view'.first # NoStream
               /\ fetch' \in [Streams -> {"none", "pending", "reading", "settled"}]
               /\ aborted' \subseteq Streams
               /\ UNCHANGED handlerVars
    BY <1>1, ViewFields DEF TypeOK, Settle
  <1>2. CASE FetchAnswered(s)
    BY <1>1, <1>2 DEF TypeOK, FetchAnswered, handlerVars
  <1>3. CASE ReadChunk(s)
    <2>1. inFlight' \in [Streams -> 0..Window]
      BY <1>3 DEF TypeOK, ReadChunk
    <2>2. view' \in View /\ (view'.mounted <=> view'.current # NoStream)
                         /\ (view'.mounted <=> view'.first # NoStream)
      BY <1>3, ViewFields DEF TypeOK, ReadChunk
    <2>3. QED
      BY <1>3, <2>1, <2>2 DEF TypeOK, ReadChunk, handlerVars
  <1>4. CASE ReadEnd(s)
    BY <1>1, <1>4 DEF TypeOK, ReadEnd, handlerVars
  <1>5. CASE FetchFailed(s)
    BY <1>1, <1>5 DEF TypeOK, FetchFailed, handlerVars
  <1>6. CASE FetchAborted(s)
    BY <1>1, <1>6 DEF TypeOK, FetchAborted, handlerVars
  <1>7. QED
    BY <1>2, <1>3, <1>4, <1>5, <1>6 DEF Browser

LEMMA LogTypeHandler ==
    ASSUME TypeOK, NEW s \in Streams,
           Server(s) \/ HandlerStart(s) \/ World(s)
    PROVE  TypeOK'
  <1> USE LimitAssumption DEF TypeOK, browserVars, handlerVars
  <1>1. CASE ConnectionLost(s)
    BY <1>1 DEF ConnectionLost
  <1>2. CASE HandlerStart(s)
    BY <1>2 DEF HandlerStart, Serving
  <1>3. CASE UpstreamAnswers(s)
    BY <1>3 DEF UpstreamAnswers, Return, Serving
  <1>4. CASE OpenCancelled(s)
    BY <1>4 DEF OpenCancelled, Return
  <1>5. CASE UpstreamEnds(s) \/ UpstreamCancelled(s)
    BY <1>5 DEF UpstreamEnds, UpstreamCancelled
  <1>6. CASE HandlerRead(s)
    BY <1>6 DEF HandlerRead, Left, Serving
  <1>7. CASE HandlerReadEnd(s)
    BY <1>7 DEF HandlerReadEnd, Return
  <1>8. CASE HandlerWrite(s)
    BY <1>8 DEF HandlerWrite, Return, Serving
  <1>9. QED
    BY <1>1, <1>2, <1>3, <1>4, <1>5, <1>6, <1>7, <1>8 DEF Server, World

LEMMA LogTypeStep == TypeOK /\ [Next]_vars => TypeOK'
  <1> SUFFICES ASSUME TypeOK, [Next]_vars PROVE TypeOK'
    OBVIOUS
  <1>1. CASE Tick
    BY <1>1, LimitAssumption DEF TypeOK, Tick, browserVars
  <1>2. CASE UNCHANGED vars
    BY <1>2 DEF TypeOK, vars, browserVars, handlerVars
  <1>3. QED
    BY <1>1, <1>2, LogTypeUser, LogTypeBrowser, LogTypeHandler DEF Next

\* Every click, callback, handler step and tick keeps view, fetches,
\* connections and handlers well formed, the limits on data and buffers among it.
THEOREM LogTypeCorrect == Spec => []TypeOK
  <1>1. QED
    BY LogTypeInit, LogTypeStep, PTL DEF Spec

----------------------------------------------------------------------------
(* The bounds                                                              *)

LEMMA SoundInit == Init => HandlersSound
  <1> SUFFICES ASSUME Init, NEW s \in Streams PROVE HandlerSound(s)
    BY DEF HandlersSound
  <1>1. handler[s] = "none" /\ upstream[s] = "none" /\ age[s] = 0
    BY DEF Init
  <1>2. QED
    BY <1>1, LimitAssumption DEF HandlerSound

\* One handler moves, and the others are left alone.
LEMMA SoundHandler ==
    ASSUME TypeOK, HandlersSound, NEW s \in Streams,
           Server(s) \/ HandlerStart(s) \/ World(s)
    PROVE  HandlersSound'
  <1> SUFFICES ASSUME NEW t \in Streams PROVE HandlerSound(t)'
    BY DEF HandlersSound
  <1>1. HandlerSound(t)
    BY DEF HandlersSound
  <1> USE LimitAssumption, <1>1 DEF TypeOK, HandlerSound, browserVars, handlerVars
  <1>2. CASE ConnectionLost(s)
    BY <1>2 DEF ConnectionLost
  <1>3. CASE HandlerStart(s)
    BY <1>3 DEF HandlerStart
  <1>4. CASE UpstreamAnswers(s)
    BY <1>4 DEF UpstreamAnswers, Return
  <1>5. CASE OpenCancelled(s)
    BY <1>5 DEF OpenCancelled, Return
  <1>6. CASE UpstreamEnds(s) \/ UpstreamCancelled(s)
    BY <1>6 DEF UpstreamEnds, UpstreamCancelled
  <1>7. CASE HandlerRead(s)
    BY <1>7 DEF HandlerRead
  <1>8. CASE HandlerReadEnd(s)
    BY <1>8 DEF HandlerReadEnd, Return
  <1>9. CASE HandlerWrite(s)
    BY <1>9 DEF HandlerWrite, Return
  <1>10. QED
    BY <1>2, <1>3, <1>4, <1>5, <1>6, <1>7, <1>8, <1>9 DEF Server, World

\* Time passes only when nobody has anything to do: a timer that is due has
\* closed its stream.
LEMMA SoundTick == TypeOK /\ HandlersSound /\ Tick => HandlersSound'
  <1> SUFFICES ASSUME TypeOK, HandlersSound, Tick, NEW s \in Streams
               PROVE  HandlerSound(s)'
    BY DEF HandlersSound
  <1>1. HandlerSound(s) /\ ~Pending(s)
    BY DEF HandlersSound, Tick
  <1>2. /\ age'[s] = IF handler[s] \in Serving /\ age[s] <= MaxDuration
                     THEN age[s] + 1 ELSE age[s]
        /\ UNCHANGED <<handler, upstream>>
    BY DEF Tick
  <1>3. upstream[s] = "open" \/ handler[s] = "opening" => age[s] < MaxDuration
    BY <1>1, LimitAssumption DEF Pending, Done, TypeOK
  <1>4. upstream[s] \in {"none", "open", "ended"} /\ age[s] \in Nat
    BY LimitAssumption DEF TypeOK
  <1>5. QED
    BY <1>1, <1>2, <1>3, <1>4, LimitAssumption DEF HandlerSound, Serving

LEMMA SoundStep == TypeOK /\ HandlersSound /\ [Next]_vars => HandlersSound'
  <1> SUFFICES ASSUME TypeOK, HandlersSound, [Next]_vars PROVE HandlersSound'
    OBVIOUS
  <1>1. ASSUME UNCHANGED handlerVars PROVE HandlersSound'
    BY <1>1 DEF HandlersSound, HandlerSound, handlerVars
  <1>2. CASE User
    BY <1>1, <1>2 DEF User, Mount, Restart, Cancel, Leave, RunStream, Stay
  <1>3. ASSUME NEW s \in Streams, Browser(s) PROVE HandlersSound'
    BY <1>1, <1>3 DEF Browser, FetchAnswered, ReadChunk, ReadEnd, FetchFailed,
                      FetchAborted, Settle
  <1>4. CASE UNCHANGED vars
    BY <1>1, <1>4 DEF vars
  <1>5. QED
    BY <1>2, <1>3, <1>4, SoundHandler, SoundTick DEF Next

LEMMA SoundAlways == Spec => [](TypeOK /\ HandlersSound)
  <1>1. Init => TypeOK /\ HandlersSound
    BY LogTypeInit, SoundInit
  <1>2. TypeOK /\ HandlersSound /\ [Next]_vars => (TypeOK /\ HandlersSound)'
    BY LogTypeStep, SoundStep
  <1>3. QED
    BY <1>1, <1>2, PTL DEF Spec

\* Bounded streams (logs.go, maxStreamBytes and maxLogStreamDuration).
THEOREM LogBounded == Spec => []StreamBounded
  <1>1. ASSUME TypeOK, HandlersSound, NEW s \in Streams
        PROVE  HandlerSound(s) /\ sent[s] <= MaxStreamBytes
    <2>1. sent[s] \in 0..MaxStreamBytes
      BY <1>1 DEF TypeOK
    <2>2. QED
      BY <1>1, <2>1, LimitAssumption DEF HandlersSound
  <1>2. TypeOK /\ HandlersSound => StreamBounded
    BY <1>1 DEF HandlerSound, StreamBounded
  <1>3. QED
    BY <1>2, SoundAlways, PTL

\* An upstream stream is never left open by a handler that returned (logs.go,
\* the deferred stream.Close and cancel).
THEOREM LogNoOrphans == Spec => []NoOrphanUpstream
  <1>1. TypeOK /\ HandlersSound => NoOrphanUpstream
    BY DEF HandlersSound, HandlerSound, NoOrphanUpstream
  <1>2. QED
    BY <1>1, SoundAlways, PTL

----------------------------------------------------------------------------
(* The viewer                                                              *)

\* A controller is used for one stream; the view owns the one that its effect
\* made and the current one, and every other one it owns is over or aborted.
ViewerSound ==
    /\ \A s \in aborted \cup view.own : fetch[s] # "none"
    /\ view.mounted => view.first \in view.own /\ view.current \in view.own
    /\ ~view.mounted => view.own = {}
    /\ OneStreamPerView
    /\ CurrentStreamOnly

LEMMA ViewerInit == Init => ViewerSound
  <1> SUFFICES ASSUME Init PROVE ViewerSound
    OBVIOUS
  <1>1. view.own = {} /\ ~view.mounted /\ aborted = {}
    BY DEF Init, NoView
  <1>2. QED
    BY <1>1 DEF ViewerSound, OneStreamPerView, CurrentStreamOnly

\* A change of the view that keeps its streams.
LEMMA ViewKept ==
    ASSUME view \in View, NEW s \in Streams, NEW status \in {"streaming", "done", "error"}
    PROVE  /\ [view EXCEPT !.status = status].mounted = view.mounted
           /\ [view EXCEPT !.status = status].first = view.first
           /\ [view EXCEPT !.status = status].current = view.current
           /\ [view EXCEPT !.status = status].own = view.own
           /\ [view EXCEPT !.status = status].lines = view.lines
           /\ [view EXCEPT !.status = status].status = status
           /\ [view EXCEPT !.lines = @ \cup {s}].mounted = view.mounted
           /\ [view EXCEPT !.lines = @ \cup {s}].first = view.first
           /\ [view EXCEPT !.lines = @ \cup {s}].current = view.current
           /\ [view EXCEPT !.lines = @ \cup {s}].own = view.own
           /\ [view EXCEPT !.lines = @ \cup {s}].lines = view.lines \cup {s}
           /\ [view EXCEPT !.lines = @ \cup {s}].status = view.status
  BY Zenon DEF View

LEMMA ViewerUser == TypeOK /\ ViewerSound /\ User => ViewerSound'
  <1> SUFFICES ASSUME TypeOK, ViewerSound, User PROVE ViewerSound'
    OBVIOUS
  <1> USE DEF ViewerSound, OneStreamPerView, CurrentStreamOnly, Unsettled
  <1>1. ASSUME NEW s \in Streams, Mount(s) PROVE ViewerSound'
    <2>1. /\ view'.mounted /\ view'.first = s /\ view'.current = s
          /\ view'.own = {s} /\ view'.status = "streaming" /\ view'.lines = {}
      BY <1>1 DEF Mount
    <2>2. /\ fetch[s] = "none" /\ fetch'[s] = "pending"
          /\ \A t \in Streams \ {s} : fetch'[t] = fetch[t]
          /\ aborted' = aborted /\ aborted \subseteq Streams
      BY <1>1 DEF Mount, RunStream, TypeOK
    <2>3. QED
      BY <2>1, <2>2
  <1>2. ASSUME NEW s \in Streams, Restart(s) PROVE ViewerSound'
    <2>1. /\ view.mounted /\ view \in View /\ aborted' = aborted \cup {view.current}
          /\ view' = [view EXCEPT !.current = s, !.own = @ \cup {s},
                                  !.status = "streaming", !.lines = {}]
      BY <1>2 DEF Restart, TypeOK
    <2>2. /\ view'.mounted /\ view'.first = view.first /\ view'.current = s
          /\ view'.own = view.own \cup {s} /\ view'.status = "streaming" /\ view'.lines = {}
      BY <2>1 DEF View
    <2>3. /\ fetch[s] = "none" /\ fetch'[s] = "pending"
          /\ \A t \in Streams \ {s} : fetch'[t] = fetch[t]
          /\ aborted \subseteq Streams /\ view.own \subseteq Streams
      BY <1>2 DEF Restart, RunStream, TypeOK, View
    <2>4. s \notin aborted \cup view.own /\ view.current \in view.own
      BY <2>1, <2>3
    <2>5. QED
      BY <2>1, <2>2, <2>3, <2>4
  <1>3. CASE Cancel
    <2>1. /\ view.mounted /\ aborted' = aborted \cup {view.current} /\ fetch' = fetch
          /\ view'.mounted = view.mounted /\ view'.first = view.first
          /\ view'.current = view.current /\ view'.own = view.own
          /\ view'.lines = view.lines /\ view'.status = "done"
      BY <1>3, ViewKept DEF Cancel, Stay, TypeOK, View
    <2>2. QED
      BY <2>1
  <1>4. CASE Leave
    <2>1. /\ view.mounted /\ aborted' = aborted \cup {view.first} /\ fetch' = fetch
          /\ ~view'.mounted /\ view'.own = {}
      BY <1>4 DEF Leave, Stay, NoView
    <2>2. QED
      BY <2>1
  <1>5. QED
    BY <1>1, <1>2, <1>3, <1>4 DEF User

\* What the end of a stream does to the view: it is reported of the current
\* stream and of no other.
LEMMA ViewerSettle ==
    ASSUME TypeOK, ViewerSound, NEW s \in Streams, Unsettled(s),
           NEW status \in {"done", "error"}, Settle(s, status)
    PROVE  ViewerSound'
  <1> USE DEF ViewerSound, OneStreamPerView, CurrentStreamOnly, Unsettled
  <1>1. /\ fetch'[s] = "settled" /\ aborted' = aborted /\ aborted \subseteq Streams
        /\ \A t \in Streams \ {s} : fetch'[t] = fetch[t]
        /\ view \in View /\ view.own \subseteq Streams
    BY DEF Settle, TypeOK, View
  <1>2. CASE Reported(s)
    <2>1. /\ view'.mounted = view.mounted /\ view'.first = view.first
          /\ view'.current = view.current /\ view'.own = view.own
          /\ view'.lines = view.lines /\ view'.status = status
      BY <1>1, <1>2, ViewKept DEF Settle
    <2>2. s \in view.own /\ s = view.current
      BY <1>2 DEF Reported
    <2>3. QED
      BY <1>1, <2>1, <2>2
  <1>3. CASE ~Reported(s)
    <2>1. view' = view
      BY <1>3 DEF Settle
    <2>2. view.mounted /\ s = view.current => s \in aborted
      BY <1>3 DEF Reported
    <2>3. QED
      BY <1>1, <2>1, <2>2
  <1>4. QED
    BY <1>2, <1>3

LEMMA ViewerBrowser ==
    ASSUME TypeOK, ViewerSound, NEW s \in Streams, Browser(s)
    PROVE  ViewerSound'
  <1>1. CASE FetchAnswered(s)
    <2>1. CASE Settle(s, "error")
      BY <1>1, <2>1, ViewerSettle DEF FetchAnswered, Unsettled
    <2>2. CASE fetch' = [fetch EXCEPT ![s] = "reading"] /\ UNCHANGED <<view, aborted>>
      <3>1. /\ fetch[s] = "pending" /\ fetch'[s] = "reading"
            /\ \A t \in Streams \ {s} : fetch'[t] = fetch[t]
            /\ view.own \subseteq Streams /\ aborted \subseteq Streams
        BY <1>1, <2>2 DEF FetchAnswered, TypeOK, View
      <3>2. QED
        BY <2>2, <3>1 DEF ViewerSound, OneStreamPerView, CurrentStreamOnly, Unsettled
    <2>3. QED
      BY <1>1, <2>1, <2>2 DEF FetchAnswered
  <1>2. CASE ReadChunk(s)
    <2>1. fetch[s] = "reading" /\ s \notin aborted /\ UNCHANGED <<aborted, fetch>>
      BY <1>2 DEF ReadChunk
    <2>2. CASE s \in view.own
      <3>1. /\ view'.mounted = view.mounted /\ view'.first = view.first
            /\ view'.current = view.current /\ view'.own = view.own
            /\ view'.lines = view.lines \cup {s} /\ view'.status = view.status
        BY <1>2, <2>2, ViewKept DEF ReadChunk, TypeOK
      <3>2. s = view.current
        BY <2>1, <2>2 DEF ViewerSound, OneStreamPerView, Unsettled
      <3>3. QED
        BY <2>1, <3>1, <3>2
           DEF ViewerSound, OneStreamPerView, CurrentStreamOnly, Unsettled
    <2>3. CASE s \notin view.own
      <3>1. view' = view
        BY <1>2, <2>3 DEF ReadChunk
      <3>2. QED
        BY <2>1, <3>1 DEF ViewerSound, OneStreamPerView, CurrentStreamOnly, Unsettled
    <2>4. QED
      BY <2>2, <2>3
  <1>3. CASE ReadEnd(s)
    BY <1>3, ViewerSettle DEF ReadEnd, Unsettled
  <1>4. CASE FetchFailed(s)
    BY <1>4, ViewerSettle DEF FetchFailed, Unsettled
  <1>5. CASE FetchAborted(s)
    BY <1>5, ViewerSettle DEF FetchAborted, Unsettled
  <1>6. QED
    BY <1>1, <1>2, <1>3, <1>4, <1>5 DEF Browser

LEMMA ViewerStep == TypeOK /\ ViewerSound /\ [Next]_vars => ViewerSound'
  <1> SUFFICES ASSUME TypeOK, ViewerSound, [Next]_vars PROVE ViewerSound'
    OBVIOUS
  <1>1. ASSUME UNCHANGED browserVars PROVE ViewerSound'
    BY <1>1 DEF ViewerSound, OneStreamPerView, CurrentStreamOnly, Unsettled, browserVars
  <1>2. ASSUME NEW s \in Streams, Server(s) \/ HandlerStart(s) \/ World(s)
        PROVE  UNCHANGED browserVars
    BY <1>2 DEF Server, World, HandlerStart, ConnectionLost, UpstreamAnswers, OpenCancelled,
                UpstreamEnds, UpstreamCancelled, HandlerRead, HandlerReadEnd, HandlerWrite
  <1>3. CASE Tick \/ UNCHANGED vars
    BY <1>1, <1>3 DEF Tick, vars
  <1>4. QED
    BY <1>1, <1>2, <1>3, ViewerUser, ViewerBrowser DEF Next

LEMMA ViewerAlways == Spec => []ViewerSound
  <1>1. QED
    BY ViewerInit, ViewerStep, LogTypeCorrect, PTL, LogTypeInit, LogTypeStep DEF Spec

\* The view speaks of its current stream only (PodLogsViewer.tsx, the checks of
\* signal.aborted), however many streams were started, replaced and cancelled.
THEOREM LogCurrentOnly == Spec => []CurrentStreamOnly
  <1>1. ViewerSound => CurrentStreamOnly
    BY DEF ViewerSound
  <1>2. QED
    BY <1>1, ViewerAlways, PTL

\* A viewer runs one stream at a time (PodLogsViewer.tsx, restart).
THEOREM LogOneStream == Spec => []OneStreamPerView
  <1>1. ViewerSound => OneStreamPerView
    BY DEF ViewerSound
  <1>2. QED
    BY <1>1, ViewerAlways, PTL
----------------------------------------------------------------------------
(* The promise of OneLog                                                   *)

\* What a stream has in one tier, it has behind it in the next: a handler has a
\* fetch, what is on its way or was read has an upstream stream.
TierSound(s) ==
    /\ fetch[s] = "none" => handler[s] = "none" /\ conn[s] = "none"
    /\ handler[s] \in {"none", "opening"} => upstream[s] = "none"
    /\ upstream[s] = "none" => inFlight[s] = 0 /\ fetch[s] # "reading"
    /\ handler[s] = "ok" => upstream[s] = "ended"

TiersSound == \A s \in Streams : TierSound(s)

LogInv == TypeOK /\ HandlersSound /\ ViewerSound /\ TiersSound

LEMMA TiersInit == Init => TiersSound
  BY DEF Init, TiersSound, TierSound

LEMMA TiersUser == TypeOK /\ TiersSound /\ User => TiersSound'
  <1> SUFFICES ASSUME TypeOK, TiersSound, User, NEW t \in Streams PROVE TierSound(t)'
    BY DEF TiersSound
  <1>1. TierSound(t)
    BY DEF TiersSound
  <1>2. ASSUME NEW s \in Streams, RunStream(s) PROVE TierSound(t)'
    BY <1>1, <1>2 DEF RunStream, TierSound, TypeOK, handlerVars
  <1>3. ASSUME Stay PROVE TierSound(t)'
    BY <1>1, <1>3 DEF Stay, TierSound, handlerVars
  <1>4. QED
    BY <1>2, <1>3 DEF User, Mount, Restart, Cancel, Leave

LEMMA TiersBrowser ==
    ASSUME TypeOK, TiersSound, NEW s \in Streams, Browser(s)
    PROVE  TiersSound'
  <1> SUFFICES ASSUME NEW t \in Streams PROVE TierSound(t)'
    BY DEF TiersSound
  <1>1. TierSound(t) /\ TierSound(s) /\ inFlight[s] \in Int
    BY LimitAssumption DEF TiersSound, TypeOK
  <1> USE <1>1 DEF TierSound, TypeOK, handlerVars
  <1>2. CASE FetchAnswered(s)
    BY <1>2 DEF FetchAnswered, Settle
  <1>3. CASE ReadChunk(s)
    BY <1>3 DEF ReadChunk
  <1>4. CASE ReadEnd(s)
    BY <1>4 DEF ReadEnd, Settle
  <1>5. CASE FetchFailed(s)
    BY <1>5 DEF FetchFailed, Settle
  <1>6. CASE FetchAborted(s)
    BY <1>6 DEF FetchAborted, Settle
  <1>7. QED
    BY <1>2, <1>3, <1>4, <1>5, <1>6 DEF Browser

LEMMA TiersHandler ==
    ASSUME TypeOK, HandlersSound, TiersSound, NEW s \in Streams,
           Server(s) \/ HandlerStart(s) \/ World(s)
    PROVE  TiersSound'
  <1> SUFFICES ASSUME NEW t \in Streams PROVE TierSound(t)'
    BY DEF TiersSound
  <1>1. TierSound(t) /\ TierSound(s) /\ HandlerSound(s)
    BY DEF TiersSound, HandlersSound
  <1> USE <1>1 DEF TierSound, HandlerSound, TypeOK, browserVars, handlerVars
  <1>2. CASE ConnectionLost(s)
    BY <1>2 DEF ConnectionLost
  <1>3. CASE HandlerStart(s)
    BY <1>3 DEF HandlerStart
  <1>4. CASE UpstreamAnswers(s)
    BY <1>4 DEF UpstreamAnswers, Return
  <1>5. CASE OpenCancelled(s)
    BY <1>5 DEF OpenCancelled, Return
  <1>6. CASE UpstreamEnds(s) \/ UpstreamCancelled(s)
    BY <1>6 DEF UpstreamEnds, UpstreamCancelled
  <1>7. CASE HandlerRead(s)
    BY <1>7 DEF HandlerRead
  <1>8. CASE HandlerReadEnd(s)
    BY <1>8 DEF HandlerReadEnd, Return
  <1>9. CASE HandlerWrite(s)
    BY <1>9 DEF HandlerWrite, Return
  <1>10. QED
    BY <1>2, <1>3, <1>4, <1>5, <1>6, <1>7, <1>8, <1>9 DEF Server, World

LEMMA LogInvStep == LogInv /\ [Next]_vars => LogInv'
  <1> SUFFICES ASSUME LogInv, [Next]_vars PROVE LogInv'
    OBVIOUS
  <1>1. TypeOK' /\ HandlersSound' /\ ViewerSound'
    BY LogTypeStep, SoundStep, ViewerStep DEF LogInv
  <1>2. ASSUME Tick \/ UNCHANGED vars PROVE TiersSound'
    BY <1>2 DEF LogInv, TiersSound, TierSound, Tick, vars, browserVars, handlerVars
  <1>3. TiersSound'
    BY <1>2, TiersUser, TiersBrowser, TiersHandler DEF LogInv, Next
  <1>4. QED
    BY <1>1, <1>3 DEF LogInv

\* What the viewer says follows from what is on the screen and what was aborted.
LEMMA ShownKept == UNCHANGED <<view, aborted>> => Shown' = Shown
  BY DEF Shown, Says

LEMMA StagesKept == UNCHANGED <<fetch, upstream>> => Stages' = Stages
  BY DEF Stages, Stage

\* One stream gets further.
LEMMA StageMoves ==
    ASSUME NEW s \in Streams, NEW to, Stage(s)' = to,
           \A t \in Streams \ {s} : Stage(t)' = Stage(t)
    PROVE  Stages' = [Stages EXCEPT ![s] = to]
  BY DEF Stages

\* The three kinds of click.
LEMMA LogUser == LogInv /\ User => Log!LogNext
  <1> SUFFICES ASSUME LogInv, User PROVE Log!LogNext
    OBVIOUS
  <1>1. ASSUME NEW s \in Streams, RunStream(s)
        PROVE  Stages[s] = "new" /\ Stages' = [Stages EXCEPT ![s] = "asked"]
    <2>1. /\ fetch \in [Streams -> {"none", "pending", "reading", "settled"}]
          /\ upstream[s] = "none" /\ upstream' = upstream
          /\ fetch[s] = "none" /\ fetch' = [fetch EXCEPT ![s] = "pending"]
      BY <1>1 DEF LogInv, TypeOK, TiersSound, TierSound, RunStream, handlerVars
    <2>2. /\ Stage(s) = "new" /\ Stage(s)' = "asked"
          /\ \A t \in Streams \ {s} : Stage(t)' = Stage(t)
      BY <2>1 DEF Stage
    <2>3. QED
      BY <2>2, StageMoves DEF Stages
  <1>2. ASSUME NEW s \in Streams, Mount(s) \/ Restart(s) PROVE Log!LogNext
    <2>1. /\ view'.mounted /\ view'.current = s
          /\ view'.status = "streaming" /\ view'.lines = {}
      <3>1. CASE Mount(s)
        BY <3>1 DEF Mount
      <3>2. CASE Restart(s)
        <4>1. /\ view \in View /\ view.mounted
              /\ view' = [view EXCEPT !.current = s, !.own = @ \cup {s},
                                      !.status = "streaming", !.lines = {}]
          BY <3>2 DEF Restart, LogInv, TypeOK
        <4>2. QED
          BY <4>1 DEF View
      <3>3. QED
        BY <1>2, <3>1, <3>2
    <2>2. Shown' = [of |-> s, says |-> "streaming", text |-> {}]
      BY <2>1 DEF Shown, Says
    <2>3. Log!Begin(s)
      BY <1>1, <1>2, <2>2 DEF Mount, Restart, Log!Begin
    <2>4. QED
      BY <2>3 DEF Log!LogNext
  <1>3. CASE Cancel
    <2>1. /\ view.mounted /\ view.status = "streaming" /\ view \in View
          /\ aborted' = aborted \cup {view.current} /\ Stages' = Stages
          /\ view' = [view EXCEPT !.status = "done"]
      BY <1>3, StagesKept DEF Cancel, Stay, LogInv, TypeOK, handlerVars
    <2>2. /\ view'.mounted /\ view'.status = "done"
          /\ view'.current = view.current /\ view'.lines = view.lines
      BY <2>1, ViewKept DEF View
    <2>3. Shown.says = "streaming" /\ Shown' = [Shown EXCEPT !.says = "stopped"]
      BY <2>1, <2>2 DEF Shown, Says
    <2>4. Log!Report("stopped")
      BY <2>1, <2>3 DEF Log!Report
    <2>5. QED
      BY <2>4 DEF Log!LogNext
  <1>4. CASE Leave
    <2>1. Stages' = Stages
      BY <1>4, StagesKept DEF Leave, Stay, handlerVars
    <2>2. Shown' = Log!Blank
      BY <1>4 DEF Leave, NoView, Shown, Says, Log!Blank
    <2>3. QED
      BY <2>1, <2>2 DEF Log!Close, Log!LogNext
  <1>5. QED
    BY <1>2, <1>3, <1>4 DEF User

\* The end of a fetch is reported of the current stream, once.
LEMMA LogSettle ==
    ASSUME LogInv, NEW s \in Streams, Unsettled(s), NEW end \in {"done", "error"},
           end = "done" => Stages[s] = "over", Settle(s, end)
    PROVE  Log!LogNext \/ UNCHANGED <<Shown, Stages>>
  <1>1. Stages' = Stages
    <2>1. /\ fetch \in [Streams -> {"none", "pending", "reading", "settled"}]
          /\ fetch[s] # "none" /\ fetch' = [fetch EXCEPT ![s] = "settled"]
          /\ upstream' = upstream
      BY DEF Settle, LogInv, TypeOK, Unsettled, handlerVars
    <2>2. \A t \in Streams : Stage(t)' = Stage(t)
      BY <2>1 DEF Stage
    <2>3. QED
      BY <2>2 DEF Stages
  <1>2. CASE Reported(s)
    <2>1. /\ s = view.current /\ s \notin aborted /\ aborted' = aborted /\ view.mounted
          /\ view \in View /\ view' = [view EXCEPT !.status = end]
      BY <1>2 DEF Reported, Settle, LogInv, ViewerSound, OneStreamPerView, TypeOK
    <2>2. view.status = "streaming"
      BY <2>1 DEF LogInv, ViewerSound, CurrentStreamOnly
    <2>3. /\ view'.mounted /\ view'.status = end
          /\ view'.current = view.current /\ view'.lines = view.lines
      BY <2>1, ViewKept
    <2>4. /\ Shown.says = "streaming" /\ Shown.of = s
          /\ Shown' = [Shown EXCEPT !.says = end]
      BY <2>1, <2>2, <2>3 DEF Shown, Says
    <2>5. Log!Report(end)
      BY <1>1, <2>4 DEF Log!Report
    <2>6. QED
      BY <2>5 DEF Log!LogNext
  <1>3. CASE ~Reported(s)
    BY <1>1, <1>3, ShownKept DEF Settle
  <1>4. QED
    BY <1>2, <1>3

LEMMA LogBrowser ==
    ASSUME LogInv, NEW s \in Streams, Browser(s)
    PROVE  Log!LogNext \/ UNCHANGED <<Shown, Stages>>
  <1>1. TierSound(s) /\ inFlight[s] \in Int
    BY LimitAssumption DEF LogInv, TiersSound, TypeOK
  <1>2. CASE FetchAnswered(s)
    <2>1. CASE Settle(s, "error")
      BY <1>2, <2>1, LogSettle DEF FetchAnswered, Unsettled
    <2>2. CASE fetch' = [fetch EXCEPT ![s] = "reading"] /\ UNCHANGED <<view, aborted, upstream>>
      <3>1. /\ fetch \in [Streams -> {"none", "pending", "reading", "settled"}]
            /\ fetch[s] = "pending"
        BY <1>2 DEF FetchAnswered, LogInv, TypeOK
      <3>2. \A t \in Streams : Stage(t)' = Stage(t)
        BY <2>2, <3>1 DEF Stage
      <3>3. QED
        BY <2>2, <3>2, ShownKept DEF Stages
    <2>3. QED
      BY <1>2, <2>1, <2>2 DEF FetchAnswered, handlerVars
  <1>3. CASE ReadChunk(s)
    <2>1. /\ s \notin aborted /\ fetch[s] = "reading" /\ Stages' = Stages
          /\ UNCHANGED aborted
      BY <1>3, StagesKept DEF ReadChunk, handlerVars
    <2>2. Stages[s] \in {"open", "over"}
      BY <1>1, <2>1 DEF TierSound, Stages, Stage, LogInv, TypeOK
    <2>3. CASE s \in view.own
      <3>1. s = view.current /\ view.mounted /\ view \in View
        BY <2>1, <2>3 DEF LogInv, ViewerSound, OneStreamPerView, Unsettled, TypeOK
      <3>2. view.status = "streaming" /\ view.lines \subseteq {s}
        BY <2>1, <3>1 DEF LogInv, ViewerSound, CurrentStreamOnly, Unsettled
      <3>3. /\ view'.mounted /\ view'.status = view.status
            /\ view'.current = view.current /\ view'.lines = view.lines \cup {s}
        BY <1>3, <2>3, <3>1, ViewKept DEF ReadChunk
      <3>4. view'.lines = {s}
        BY <3>2, <3>3
      <3>5. /\ Shown.says = "streaming" /\ Shown.of = s
            /\ Shown' = [Shown EXCEPT !.text = {s}]
        BY <3>1, <3>2, <3>3, <3>4 DEF Shown, Says
      <3>6. Log!ShowText
        BY <2>1, <2>2, <3>5 DEF Log!ShowText
      <3>7. QED
        BY <3>6 DEF Log!LogNext
    <2>4. CASE s \notin view.own
      BY <1>3, <2>1, <2>4, ShownKept DEF ReadChunk
    <2>5. QED
      BY <2>3, <2>4
  <1>4. CASE ReadEnd(s)
    <2>1. Stages[s] = "over"
      BY <1>1, <1>4 DEF ReadEnd, TierSound, Stages, Stage
    <2>2. QED
      BY <1>4, <2>1, LogSettle DEF ReadEnd, Unsettled
  <1>5. CASE FetchFailed(s)
    BY <1>5, LogSettle DEF FetchFailed, Unsettled
  <1>6. CASE FetchAborted(s)
    BY <1>6, LogSettle DEF FetchAborted, Unsettled
  <1>7. QED
    BY <1>2, <1>3, <1>4, <1>5, <1>6 DEF Browser

\* The handler and the proxy: a stream is opened, or over.
LEMMA LogHandler ==
    ASSUME LogInv, NEW s \in Streams, Server(s) \/ HandlerStart(s) \/ World(s)
    PROVE  Log!LogNext \/ UNCHANGED <<Shown, Stages>>
  <1>1. /\ UNCHANGED browserVars
        /\ \A t \in Streams \ {s} : upstream'[t] = upstream[t]
        /\ upstream[s] \in {"none", "open", "ended"}
    BY DEF Server, World, HandlerStart, ConnectionLost, UpstreamAnswers, OpenCancelled,
           UpstreamEnds, UpstreamCancelled, HandlerRead, HandlerReadEnd, HandlerWrite,
           Return, LogInv, TypeOK, handlerVars
  <1>2. Shown' = Shown
    BY <1>1, ShownKept DEF browserVars
  <1>3. \A t \in Streams \ {s} : Stage(t)' = Stage(t)
    BY <1>1 DEF Stage, browserVars
  <1>4. CASE upstream'[s] = upstream[s]
    <2>1. Stage(s)' = Stage(s)
      BY <1>1, <1>4 DEF Stage, browserVars
    <2>2. QED
      BY <1>2, <1>3, <2>1 DEF Stages
  <1>5. CASE upstream[s] = "none" /\ upstream'[s] = "open"
    <2>1. handler[s] = "opening"
      BY <1>5 DEF Server, World, HandlerStart, ConnectionLost, UpstreamAnswers,
                  OpenCancelled, UpstreamEnds, UpstreamCancelled, HandlerRead,
                  HandlerReadEnd, HandlerWrite, Return, LogInv, TypeOK, handlerVars
    <2>2. fetch[s] # "none" /\ fetch' = fetch
      BY <1>1, <2>1 DEF LogInv, TiersSound, TierSound, browserVars
    <2>3. Stage(s) = "asked" /\ Stage(s)' = "open"
      BY <1>5, <2>2 DEF Stage
    <2>4. Log!Open(s)
      BY <1>2, <1>3, <2>3, StageMoves DEF Log!Open, Stages
    <2>5. QED
      BY <2>4 DEF Log!LogNext
  <1>6. CASE upstream[s] \in {"none", "open"} /\ upstream'[s] = "ended"
    <2>1. upstream[s] = "none" => handler[s] = "opening"
      BY <1>6 DEF Server, World, HandlerStart, ConnectionLost, UpstreamAnswers,
                  OpenCancelled, UpstreamEnds, UpstreamCancelled, HandlerRead,
                  HandlerReadEnd, HandlerWrite, Return, LogInv, TypeOK, handlerVars,
                  HandlersSound, HandlerSound
    <2>2. upstream[s] = "none" => fetch[s] # "none"
      BY <2>1 DEF LogInv, TiersSound, TierSound
    <2>3. Stage(s) \in {"asked", "open"} /\ Stage(s)' = "over"
      BY <1>6, <2>2 DEF Stage
    <2>4. Log!Over(s)
      BY <1>2, <1>3, <2>3, StageMoves DEF Log!Over, Stages
    <2>5. QED
      BY <2>4 DEF Log!LogNext
  <1>7. \/ upstream'[s] = upstream[s]
        \/ upstream[s] = "none" /\ upstream'[s] = "open"
        \/ upstream[s] \in {"none", "open"} /\ upstream'[s] = "ended"
    BY <1>1 DEF Server, World, HandlerStart, ConnectionLost, UpstreamAnswers,
                OpenCancelled, UpstreamEnds, UpstreamCancelled, HandlerRead,
                HandlerReadEnd, HandlerWrite, Return, LogInv, TypeOK, handlerVars,
                TiersSound, TierSound
  <1>8. QED
    BY <1>4, <1>5, <1>6, <1>7

LEMMA LogStep == LogInv /\ [Next]_vars => [Log!LogNext]_<<Shown, Stages>>
  <1> SUFFICES ASSUME LogInv, [Next]_vars
               PROVE  Log!LogNext \/ UNCHANGED <<Shown, Stages>>
    OBVIOUS
  <1>1. CASE Tick \/ UNCHANGED vars
    BY <1>1, ShownKept, StagesKept DEF Tick, vars, browserVars, handlerVars
  <1>2. QED
    BY <1>1, LogUser, LogBrowser, LogHandler DEF Next

\* For any number of streams, any limits and any buffers, the viewer, its
\* fetches, the handlers and the streams upstream do together what OneLog
\* promises (PodLogsViewer.tsx, runStream; logs.go, podLogsHandler).
THEOREM LogImplementsOneLog == Spec => ImplementsLog
  <1>1. Init => LogInv
    BY LogTypeInit, SoundInit, ViewerInit, TiersInit DEF LogInv
  <1>2. Init => Log!LogInit
    <2> SUFFICES ASSUME Init PROVE Log!LogInit
      OBVIOUS
    <2>1. Shown = Log!Blank
      BY DEF Init, NoView, Shown, Says, Log!Blank
    <2>2. Stages = [s \in Streams |-> "new"]
      BY DEF Init, Stages, Stage
    <2>3. QED
      BY <2>1, <2>2 DEF Log!LogInit
  <1>3. LogInv /\ [Next]_vars => [Log!LogNext]_Log!logVars
    BY LogStep DEF Log!logVars
  <1>4. QED
    BY <1>1, <1>2, <1>3, LogInvStep, PTL DEF Spec, ImplementsLog, Log!LogSpec
===========================================================================
