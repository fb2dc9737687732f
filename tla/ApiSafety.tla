----------------------------- MODULE ApiSafety -----------------------------
(***************************************************************************)
(* What ApiServer's requests owe the session, the cluster and the user.    *)
(***************************************************************************)
EXTENDS ApiServer

\* A session is looked up once and its token used after it may have ended
\* (middleware.go, requireSession; client.go, do): a call upstream carries the
\* token of the session its own request named, for no longer than the handler's
\* calls may take.
TokenUseBounded ==
    \A r \in Requests : LET q == req[r] IN
        q.pc \in Calling =>
            /\ q.token = q.sid /\ store[q.sid] # "fresh"
            /\ store[q.sid] = "live" \/ gone[q.sid] <= q.nth * CallTimeout

\* The authorization outcome of any call is the request's (namespaces.go,
\* writeUpstreamError: "preserve Kubernetes authorization failures"), and an
\* answer is whole or none (overview.go).
OutcomePreserved ==
    \A r \in Requests : LET q == req[r] IN
        q.pc = "respond" =>
            /\ \A i \in 1..2 : q.said[i] \in {"unauthorized", "forbidden"} =>
                                  q.reply = q.said[i]
            /\ q.reply = "ok" => \A i \in 1..Calls(q.route) : q.said[i] = "ok"
            /\ q.reply = "forbidden" => q.said[q.nth] = "forbidden"

Cut(r, p) == r \in Serves(p) /\ replica[p] = "draining" /\ replica'[p] = "stopped"

\* A call that was open upstream when its replica was told to stop comes back
\* (main.go, the 15 s of Shutdown; client.go, the 10 s of a call).
CallsDrained ==
    [][\A r \in Requests, p \in Replicas :
         Cut(r, p) /\ req[r].pc \in Calling => req[r].nth # req[r].early]_vars

\* A request is answered, though the proxy be silent (client.go, defaultTimeout).
Answered ==
    \A r \in Requests :
        req[r].pc \in {"lookup", "call", "body"} ~> req[r].pc \in {"respond", "idle"}

\* A replica told to stop stops, though a browser does not read its answer.
ShutdownCompletes ==
    \A p \in Replicas : replica[p] = "draining" ~> replica[p] = "stopped"
===========================================================================
