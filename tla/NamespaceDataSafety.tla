------------------------ MODULE NamespaceDataSafety ------------------------
(***************************************************************************)
(* What the front end can rely on, whenever it asks.                       *)
(***************************************************************************)
EXTENDS NamespaceData

Listed == last.route = "list"

\* A quota whose controller has not counted yet has no status at all; neither
\* has one without limits.
Uncounted == resource = "resourcequotas" /\ "hard" \notin DOMAIN last.read

\* Every summary has the type that api.ts gives it: what is not optional is
\* there, and nothing is null.  The maps of a quota's status are the exception.
WireTyped == Listed /\ ~Uncounted => Fits(resource, last.result)

\* A table throws, and with no error boundary takes the application with it, for
\* no object but that quota (resourceKinds.tsx, Overview.tsx).
TablesRender == Listed => Renders(resource, last.result) \/ Uncounted

\* "Ready: Yes" says that every container of the pod's specification reported
\* that it is, and nothing else does (summarizePod).
ReadyIsAllReady ==
    Listed /\ resource = "pods" =>
        last.result.ready =
            \A c \in Range(last.read.containers) :
                \E s \in Range(List(last.read, "containerStatuses")) : s.name = c.name /\ s.ready

\* The containers listed are those of the specification, also while nothing has
\* been reported of them, and nothing is made up (summarizePod's fallback).
EveryContainerListed ==
    Listed /\ resource = "pods" =>
        {c.name : c \in Range(last.result.containers)} = {c.name : c \in Range(last.read.containers)}

\* A request for logs that gets through is bounded in lines and in bytes: an
\* option that is not sent would leave both to the API server
\* (parseLogOptions together with StreamPodLogs).
LogsBounded ==
    last.route = "logs" /\ last.result # Null =>
        /\ {"tailLines", "limitBytes"} \subseteq DOMAIN last.result
        /\ last.result.tailLines \in 1..MaxTailLines /\ last.result.limitBytes \in 1..MaxLimitBytes
============================================================================
