----------------------------- MODULE LogSafety -----------------------------
(***************************************************************************)
(* What the log streams of LogStream owe the user and the cluster.         *)
(***************************************************************************)
EXTENDS LogStream

Unsettled(s) == fetch[s] \in {"pending", "reading"}

\* The view speaks of its current stream only (PodLogsViewer.tsx, the checks of
\* signal.aborted): it says "streaming" while that one runs, and neither text
\* nor the end of a stream it replaced shows up in its place.
CurrentStreamOnly ==
    view.mounted =>
        /\ view.lines \subseteq {view.current}
        /\ view.status = "streaming" <=>
             view.current \notin aborted /\ Unsettled(view.current)

\* A viewer runs one stream at a time (PodLogsViewer.tsx, restart): every other
\* stream it has started is over or being stopped.
OneStreamPerView ==
    \A s \in view.own : Unsettled(s) /\ s \notin aborted => s = view.current

\* Bounded streams (logs.go, maxStreamBytes and maxLogStreamDuration): no more
\* than the limit is read of a log, none is held open upstream beyond the
\* duration; a handler that lives longer has data left that nobody reads.
StreamBounded ==
    \A s \in Streams :
        /\ sent[s] <= MaxStreamBytes
        /\ upstream[s] = "open" => age[s] <= MaxDuration
        /\ age[s] > MaxDuration =>
             handler[s] \in {"reading", "writing"} /\ upstream[s] = "ended"

\* An upstream stream is held for a handler (logs.go, defer stream.Close).
NoOrphanUpstream ==
    \A s \in Streams : upstream[s] = "open" => handler[s] \in {"reading", "writing"}

\* logs.go:26-29: the duration "bounds every pod-logs request, follow or not".
HandlerBounded ==
    \A s \in Streams : handler[s] \in Serving => age[s] <= MaxDuration

\* api.ts:224-226: leaving the view stops the stream.
LeavingStops ==
    ~view.mounted => \A s \in Streams : Unsettled(s) => s \in aborted

\* How far a stream has come upstream.
Stage(s) ==
    CASE upstream[s] = "ended" -> "over"
      [] upstream[s] = "open" -> "open"
      [] OTHER -> IF fetch[s] = "none" THEN "new" ELSE "asked"

Stages == [s \in Streams |-> Stage(s)]

\* What the viewer says: a stream that the user cancelled was stopped.
Says ==
    IF ~view.mounted THEN "none"
    ELSE IF view.status = "done" /\ view.current \in aborted THEN "stopped"
    ELSE view.status

Shown == [of |-> view.current, says |-> Says, text |-> view.lines]

Log == INSTANCE OneLog WITH shown <- Shown, stage <- Stages

\* Behind aborts that arrive late, connections that break and handlers that
\* outlive their click, a viewer reports one end of the stream it shows, done
\* only if that log is over upstream, and then stays as it is until the next
\* click; and no stream is opened twice or after it was over (PodLogsViewer.tsx,
\* runStream; logs.go, podLogsHandler).
ImplementsLog == Log!LogSpec

\* Cancellation (security-test-matrix.md, row 14): an aborted stream ends in
\* the browser, in the BFF and upstream.
Gone(s) == ~Unsettled(s) /\ handler[s] \notin Serving /\ upstream[s] # "open"

CancelReachesUpstream == \A s \in Streams : s \in aborted ~> Gone(s)

\* A stream does not stay on the screen for ever, though the proxy be silent
\* (logs.go, context.WithTimeout).
StreamingEnds ==
    \A s \in Streams :
        view.current = s /\ view.status = "streaming" ~>
            ~(view.current = s /\ view.status = "streaming")
===========================================================================
