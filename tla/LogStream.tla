----------------------------- MODULE LogStream -----------------------------
(***************************************************************************)
(* Pod logs through all three tiers: PodLogsViewer and its fetch in the    *)
(* browser, podLogsHandler in the BFF, and the stream it holds open to     *)
(* Capsule Proxy.  A stream is one click's worth of logs: the abort        *)
(* controller made for it, its connection, its handler and its upstream.   *)
(*                                                                         *)
(* A tick is long (minutes) compared with what the programs do on their    *)
(* own: no tick passes while a handler has something to do.                *)
(***************************************************************************)
EXTENDS Integers

CONSTANTS
    Streams,         \* abort controllers, and the streams they can stop
    MaxDuration,     \* maxLogStreamDuration, in ticks
    MaxStreamBytes,  \* maxStreamBytes, in units of data
    ReadSize,        \* the most that one Read of copyLogStream returns
    Window,          \* chunks a connection holds before a write blocks
    NoStream

ASSUME LimitAssumption ==
    /\ MaxDuration \in Nat \ {0} /\ MaxStreamBytes \in Nat
    /\ ReadSize \in Nat \ {0} /\ Window \in Nat \ {0}
    /\ NoStream \notin Streams

VARIABLES
    view,      \* the PodLogsViewer on screen
    aborted,   \* streams whose controller was aborted
    fetch,     \* the browser's side of each stream
    conn,      \* the connection from the browser to the BFF
    inFlight,  \* chunks written to the connection and not read yet
    handler,   \* podLogsHandler
    upstream,  \* the stream from Capsule Proxy
    sent,      \* units of data the handler has read from it, while it runs
    age        \* ticks since the handler set its timeout, while it runs

browserVars == <<view, aborted, fetch>>
handlerVars == <<handler, upstream, sent, age>>
vars == <<browserVars, conn, inFlight, handlerVars>>

Serving == {"opening", "reading", "writing"}

\* own: the streams of this mount, whose callbacks reach its state.
View == [mounted : BOOLEAN, first : Streams \cup {NoStream},
         current : Streams \cup {NoStream}, own : SUBSET Streams,
         status : {"streaming", "done", "error"}, lines : SUBSET Streams]

TypeOK ==
    /\ view \in View
    /\ view.mounted <=> view.current # NoStream
    /\ view.mounted <=> view.first # NoStream
    /\ aborted \subseteq Streams
    /\ fetch \in [Streams -> {"none", "pending", "reading", "settled"}]
    /\ conn \in [Streams -> {"none", "open", "closed"}]
    /\ inFlight \in [Streams -> 0..Window]
    /\ handler \in [Streams -> Serving \cup {"none", "ok", "error"}]
    /\ upstream \in [Streams -> {"none", "open", "ended"}]
    /\ sent \in [Streams -> 0..MaxStreamBytes]
    /\ age \in [Streams -> 0..(MaxDuration + 1)]

NoView == [mounted |-> FALSE, first |-> NoStream, current |-> NoStream,
           own |-> {}, status |-> "done", lines |-> {}]

Init ==
    /\ view = NoView
    /\ aborted = {}
    /\ fetch = [s \in Streams |-> "none"]
    /\ conn = [s \in Streams |-> "none"]
    /\ inFlight = [s \in Streams |-> 0]
    /\ handler = [s \in Streams |-> "none"]
    /\ upstream = [s \in Streams |-> "none"]
    /\ sent = [s \in Streams |-> 0]
    /\ age = [s \in Streams |-> 0]

----------------------------------------------------------------------------
(* The viewer                                                              *)

\* runStream: a new controller, and a fetch with its signal.
RunStream(s) ==
    /\ fetch[s] = "none"
    /\ fetch' = [fetch EXCEPT ![s] = "pending"]
    /\ conn' = [conn EXCEPT ![s] = "open"]
    /\ UNCHANGED <<inFlight, handlerVars>>

Stay == UNCHANGED <<fetch, conn, inFlight, handlerVars>>

\* "View logs": the viewer is mounted and its effect starts a stream.
Mount(s) ==
    /\ ~view.mounted
    /\ view' = [mounted |-> TRUE, first |-> s, current |-> s, own |-> {s},
                status |-> "streaming", lines |-> {}]
    /\ RunStream(s)
    /\ UNCHANGED aborted

\* Bug: the stream that is replaced is not aborted.
RestartOnly(s) ==
    /\ view.mounted
    /\ view' = [view EXCEPT !.current = s, !.own = @ \cup {s},
                            !.status = "streaming", !.lines = {}]
    /\ RunStream(s)
    /\ UNCHANGED aborted

\* Reconnect, or a click on the Follow box.
Restart(s) ==
    /\ view.mounted
    /\ aborted' = aborted \cup {view.current}
    /\ view' = [view EXCEPT !.current = s, !.own = @ \cup {s},
                            !.status = "streaming", !.lines = {}]
    /\ RunStream(s)

Cancel ==
    /\ view.mounted /\ view.status = "streaming"
    /\ aborted' = aborted \cup {view.current}
    /\ view' = [view EXCEPT !.status = "done"]
    /\ Stay

\* The viewer is unmounted.  The effect's cleanup aborts the controller that
\* the effect made, whichever one is current by now.
Leave ==
    /\ view.mounted
    /\ aborted' = aborted \cup {view.first}
    /\ view' = NoView
    /\ Stay

----------------------------------------------------------------------------
(* The fetch behind it: streamPodLogs                                      *)

\* Bug: the rejection of an aborted stream is reported like any other.
AnyOwn(s) == s \in view.own

\* Whose end the viewer reports: one of its own streams, not aborted.
Reported(s) == s \in view.own /\ s \notin aborted

Settle(s, status) ==
    /\ fetch' = [fetch EXCEPT ![s] = "settled"]
    /\ view' = IF Reported(s) THEN [view EXCEPT !.status = status] ELSE view
    /\ UNCHANGED <<aborted, handlerVars>>

\* The status line gets here with the first chunk, or when the handler returns.
FetchAnswered(s) ==
    /\ fetch[s] = "pending" /\ s \notin aborted
    /\ \/ /\ handler[s] = "error" /\ conn[s] = "open"
          /\ Settle(s, "error")
          /\ UNCHANGED <<conn, inFlight>>
       \/ /\ inFlight[s] > 0 \/ (handler[s] = "ok" /\ conn[s] = "open")
          /\ fetch' = [fetch EXCEPT ![s] = "reading"]
          /\ UNCHANGED <<view, aborted, conn, inFlight, handlerVars>>

ReadChunk(s) ==
    /\ fetch[s] = "reading" /\ s \notin aborted
    /\ inFlight[s] > 0
    /\ inFlight' = [inFlight EXCEPT ![s] = @ - 1]
    /\ view' = IF s \in view.own THEN [view EXCEPT !.lines = @ \cup {s}] ELSE view
    /\ UNCHANGED <<aborted, fetch, conn, handlerVars>>

\* Bug: a connection that breaks ends the log like any other.
ReadEndOrBreak(s) ==
    /\ fetch[s] = "reading" /\ s \notin aborted
    /\ inFlight[s] = 0 /\ (handler[s] = "ok" \/ conn[s] = "closed")
    /\ Settle(s, "done")
    /\ UNCHANGED <<conn, inFlight>>

ReadEnd(s) ==
    /\ fetch[s] = "reading" /\ s \notin aborted
    /\ inFlight[s] = 0 /\ handler[s] = "ok" /\ conn[s] = "open"
    /\ Settle(s, "done")
    /\ UNCHANGED <<conn, inFlight>>

FetchFailed(s) ==
    /\ fetch[s] \in {"pending", "reading"} /\ s \notin aborted
    /\ conn[s] = "closed"
    /\ Settle(s, "error")
    /\ inFlight' = [inFlight EXCEPT ![s] = 0]
    /\ UNCHANGED conn

\* The browser rejects an aborted fetch, and closes its connection.
FetchAborted(s) ==
    /\ fetch[s] \in {"pending", "reading"} /\ s \in aborted
    /\ Settle(s, "error")
    /\ conn' = [conn EXCEPT ![s] = "closed"]
    /\ inFlight' = [inFlight EXCEPT ![s] = 0]

ConnectionLost(s) ==
    /\ conn[s] = "open" /\ fetch[s] # "settled"
    /\ conn' = [conn EXCEPT ![s] = "closed"]
    /\ UNCHANGED <<browserVars, inFlight, handlerVars>>

----------------------------------------------------------------------------
(* podLogsHandler                                                          *)

\* Bug: the timeout is not set.
ClientGone(s) == conn[s] = "closed"

\* Bug: the call upstream gets a context of its own.
Detached(s) == FALSE

\* The context of the call upstream is done.
Done(s) == conn[s] = "closed" \/ age[s] >= MaxDuration

\* Bug: neither stream.Close nor cancel is deferred.
ReturnOnly(s, outcome) ==
    /\ handler' = [handler EXCEPT ![s] = outcome]
    /\ sent' = [sent EXCEPT ![s] = 0]
    /\ age' = [age EXCEPT ![s] = 0]
    /\ UNCHANGED upstream

\* The handler returns: the stream is closed and the context cancelled.
Return(s, outcome) ==
    /\ handler' = [handler EXCEPT ![s] = outcome]
    /\ upstream' = [upstream EXCEPT ![s] = "ended"]
    /\ sent' = [sent EXCEPT ![s] = 0]
    /\ age' = [age EXCEPT ![s] = 0]

\* No session, a bad name or a bad option; or the call upstream begins.
HandlerStart(s) ==
    /\ handler[s] = "none" /\ conn[s] = "open"
    /\ \E h \in {"opening", "error"} : handler' = [handler EXCEPT ![s] = h]
    /\ UNCHANGED <<browserVars, conn, inFlight, upstream, sent, age>>

\* The proxy answers, well or not.  Nothing but the context bounds the wait.
UpstreamAnswers(s) ==
    /\ handler[s] = "opening"
    /\ \/ /\ handler' = [handler EXCEPT ![s] = "reading"]
          /\ upstream' = [upstream EXCEPT ![s] = "open"]
          /\ UNCHANGED <<sent, age>>
       \/ Return(s, "error")
    /\ UNCHANGED <<browserVars, conn, inFlight>>

OpenCancelled(s) ==
    /\ handler[s] = "opening" /\ Done(s)
    /\ Return(s, "error")
    /\ UNCHANGED <<browserVars, conn, inFlight>>

\* The log ends, or the proxy fails.
UpstreamEnds(s) ==
    /\ upstream[s] = "open"
    /\ upstream' = [upstream EXCEPT ![s] = "ended"]
    /\ UNCHANGED <<browserVars, conn, inFlight, handler, sent, age>>

\* The transport closes the call upstream, even while the handler is writing.
UpstreamCancelled(s) == Done(s) /\ UpstreamEnds(s)

\* Bug: no LimitReader.
Unlimited(s) == ReadSize

\* What LimitReader lets through.
Left(s) == MaxStreamBytes - sent[s]

HandlerRead(s) ==
    /\ handler[s] = "reading" /\ upstream[s] = "open"
    /\ \E n \in 1..ReadSize :
         /\ n <= Left(s)
         /\ sent' = [sent EXCEPT ![s] = @ + n]
    /\ handler' = [handler EXCEPT ![s] = "writing"]
    /\ UNCHANGED <<browserVars, conn, inFlight, upstream, age>>

\* A read error or the end, of the log or of what the limit allows.
HandlerReadEnd(s) ==
    /\ handler[s] = "reading"
    /\ upstream[s] = "ended" \/ Left(s) = 0
    /\ Return(s, "ok")
    /\ UNCHANGED <<browserVars, conn, inFlight>>

\* A write blocks while the connection is full, and fails when it is closed.
HandlerWrite(s) ==
    /\ handler[s] = "writing"
    /\ \/ /\ conn[s] = "open" /\ inFlight[s] < Window
          /\ inFlight' = [inFlight EXCEPT ![s] = @ + 1]
          /\ handler' = [handler EXCEPT ![s] = "reading"]
          /\ UNCHANGED <<upstream, sent, age>>
       \/ /\ conn[s] = "closed"
          /\ Return(s, "ok")
          /\ UNCHANGED inFlight
    /\ UNCHANGED <<browserVars, conn>>

Blocked(s) == handler[s] = "writing" /\ conn[s] = "open" /\ inFlight[s] = Window

\* The BFF has something to do for stream s.
Pending(s) ==
    \/ Done(s) /\ (handler[s] = "opening" \/ upstream[s] = "open")
    \/ handler[s] = "reading" /\ (upstream[s] = "ended" \/ Left(s) = 0)
    \/ handler[s] = "writing" /\ ~Blocked(s)

\* Bound: an age is not counted beyond one tick too many.
Tick ==
    /\ \A s \in Streams : ~Pending(s)
    /\ age' = [s \in Streams |->
                 IF handler[s] \in Serving /\ age[s] <= MaxDuration
                 THEN age[s] + 1 ELSE age[s]]
    /\ UNCHANGED <<browserVars, conn, inFlight, handler, upstream, sent>>

----------------------------------------------------------------------------

User == (\E s \in Streams : Mount(s) \/ Restart(s)) \/ Cancel \/ Leave

Browser(s) ==
    FetchAnswered(s) \/ ReadChunk(s) \/ ReadEnd(s) \/ FetchFailed(s) \/ FetchAborted(s)

Server(s) ==
    OpenCancelled(s) \/ UpstreamCancelled(s) \/ HandlerReadEnd(s) \/ HandlerWrite(s)

World(s) ==
    ConnectionLost(s) \/ UpstreamAnswers(s) \/ UpstreamEnds(s) \/ HandlerRead(s)

Next ==
    \/ User
    \/ \E s \in Streams : Browser(s) \/ Server(s) \/ HandlerStart(s) \/ World(s)
    \/ Tick

Spec == Init /\ [][Next]_vars

\* The event loop of the browser and the goroutines of the BFF run, a request
\* sent arrives, and time passes.  Nothing is promised of the user, the network
\* or the proxy, which may stay silent on an open stream.
Fairness ==
    /\ \A s \in Streams : /\ WF_vars(Browser(s)) /\ WF_vars(Server(s))
                          /\ WF_vars(HandlerStart(s))
    /\ WF_vars(Tick)

FairSpec == Spec /\ Fairness
===========================================================================
