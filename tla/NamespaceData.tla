--------------------------- MODULE NamespaceData ---------------------------
(***************************************************************************)
(* An object of a namespace as it grows in the cluster, and the requests   *)
(* that read it at any moment: its summary in a list, or a pod's logs with *)
(* whatever parameters the request has.                                    *)
(***************************************************************************)
EXTENDS Summaries

CONSTANTS
    Absent, Malformed,           \* a parameter of a request
    DefaultTailLines, MaxTailLines,
    DefaultLimitBytes, MaxLimitBytes,
    AskedNumbers,                \* the numbers that requests have
    PodSpecs,                    \* the containers of a pod's specification
    Reported                     \* of each specification, the lists of containers that the
                                 \* kubelet may report on together

ASSUME LogOptionsAssumption ==
    /\ AskedNumbers \subseteq Int
    /\ MaxTailLines \in Nat /\ DefaultTailLines \in 1..MaxTailLines
    /\ MaxLimitBytes \in Nat /\ DefaultLimitBytes \in 1..MaxLimitBytes

ASSUME PodAssumption ==
    /\ PodSpecs \subseteq Seq([name : STRING, image : STRING])
    /\ \A spec \in PodSpecs :
         spec # <<>> /\ \A i, j \in DOMAIN spec : spec[i].name = spec[j].name => i = j

\* What the kubelet promises: its report names every container of the pod once, in
\* an order and with image names of its own.  summarizePod shows a report as it is,
\* so a list that left a container out would show a pod without it.
ASSUME KubeletAssumption ==
    /\ Reported \in [PodSpecs -> SUBSET Seq([name : STRING, image : STRING])]
    /\ \A spec \in PodSpecs : \A list \in Reported[spec] :
         /\ {c.name : c \in Range(list)} = {c.name : c \in Range(spec)}
         /\ \A i, j \in DOMAIN list : list[i].name = list[j].name => i = j

VARIABLES
    resource, object,  \* what is in the cluster
    last               \* the last request: its route, what it read and what came of it

vars == <<resource, object, last>>

----------------------------------------------------------------------------
(* The cluster                                                             *)

Nothing == <<>>

\* Any of the fields, with the value given.
AnyOf(fields) == {[f \in present |-> fields[f]] : present \in SUBSET DOMAIN fields}

\* Numbers that are left out as long as they are zero.
Counters ==
    [deployments |-> [readyReplicas |-> 1, updatedReplicas |-> 1, availableReplicas |-> 1],
     statefulsets |-> [readyReplicas |-> 1, currentReplicas |-> 1],
     daemonsets |-> [desiredNumberScheduled |-> 1, numberReady |-> 1, numberAvailable |-> 1],
     jobs |-> [active |-> 1, succeeded |-> 1, failed |-> 1]]

\* A number or a name: JSON has one or the other.
TargetPorts == [number : {80, 443}] \cup [name : {"http"}]

Ports == {<<[port |-> 80, protocol |-> "TCP", targetPort |-> [name |-> "http"]]>>,
          <<[port |-> 80, protocol |-> "TCP", targetPort |-> [number |-> 80], name |-> "web"],
            [port |-> 443, protocol |-> "TCP", targetPort |-> [number |-> 443], name |-> "tls"]>>}

Rules == {<<Nothing>>, <<[host |-> "a"]>>, <<Nothing, [host |-> "a"]>>, <<[host |-> "b"], [host |-> "a"]>>}

Limits == {<<>>} \cup {<<With([type |-> "Container"], l)>> :
              l \in AnyOf([default |-> {"cpu"}, defaultRequest |-> {"cpu"}, max |-> {"cpu"}, min |-> {"cpu"}])}

\* JSON's null is no value, and no list or set of values or of elements.
Words == {"ExternalName", "ClusterIP", "None", "ip", "TCP", "http", "web", "tls", "nginx",
          "daily", "t", "u", "Pending", "Running", "Succeeded", "Bound", "Lost", "1Gi", "fast",
          "ReadWriteOnce", "Container", "a", "b", "text", "Pulled", "Normal", "Pod", "p", "<nil>", "80", "443"}

Scalar == Int \cup STRING \cup Words \cup {NoText} \cup BOOLEAN \cup {{"cpu"}} \cup TargetPorts

ElementFields ==
    {"name", "image", "ready", "restartCount", "port", "protocol", "targetPort",
     "host", "type", "default", "defaultRequest", "max", "min"}

Element == UNION {[F -> Scalar] : F \in SUBSET ElementFields}

ASSUME NullAssumption ==
    /\ Null \notin Scalar \cup Seq(Scalar) \cup Seq(Element)
    /\ \A hosts \in SUBSET {"a", "b"} : Null # hosts

\* What the API server admits, its defaults filled in.
Admitted(r) ==
    CASE r \in {"deployments", "statefulsets"} -> [replicas : {0, 1}]
      [] r = "cronjobs" -> [schedule : {"daily"}, suspend : BOOLEAN]
      [] r = "pods" -> [phase : {"Pending"}, containers : PodSpecs]
      [] r = "services" ->
           {[type |-> "ExternalName"], [type |-> "ClusterIP", clusterIP |-> "None"]}
           \cup [type : {"ClusterIP"}, clusterIP : {"ip"}, ports : Ports]
      [] r = "ingresses" ->
           {With(i, c) : i \in {Nothing} \cup [rules : Rules], c \in AnyOf([ingressClassName |-> "nginx"])}
      [] r = "persistentvolumeclaims" ->
           {With(c, [phase |-> "Pending", accessModes |-> <<"ReadWriteOnce">>]) :
              c \in AnyOf([storageClassName |-> "fast"])}
      [] r = "limitranges" -> [limits : Limits]
      [] r = "events" ->
           {With(e, [kind |-> "Pod", name |-> "p"]) :
              e \in AnyOf([message |-> "text", reason |-> "Pulled", type |-> "Normal", count |-> 1,
                           lastTimestamp |-> "t"])}
      [] OTHER -> {Nothing}

Statuses(containers) ==
    {[i \in DOMAIN containers |->
        [name |-> containers[i].name, image |-> containers[i].image,
         ready |-> ready[i], restartCount |-> restarts[i]]] :
        ready \in [DOMAIN containers -> BOOLEAN], restarts \in [DOMAIN containers -> 0..1]}

\* A report on any of the lists, or none yet: then there is no status at all.
PodStatuses(spec) == UNION {Statuses(list) : list \in Reported[spec]}

\* The status that a controller or the kubelet writes next.
Status(r, o) ==
    CASE r \in DOMAIN Counters -> AnyOf(Counters[r])
      [] r = "cronjobs" -> {[lastScheduleTime |-> "t"]}
      [] r = "pods" ->
           [phase : {"Pending", "Running", "Succeeded"}, containerStatuses : PodStatuses(o.containers)]
      [] r = "persistentvolumeclaims" -> {[phase |-> "Bound", capacity |-> "1Gi"], [phase |-> "Lost"]}
      [] r = "resourcequotas" -> {[hard |-> {"cpu"}, used |-> {"cpu"}]}
      [] r = "events" -> {[count |-> 2, lastTimestamp |-> "u"]}
      [] OTHER -> {}

\* A status replaces the one before; counters that went back to zero are gone.
Report ==
    /\ \E s \in Status(resource, object) :
         object' = With(s, IF resource \in DOMAIN Counters THEN Optional(object, {"replicas"})
                           ELSE object)
    /\ UNCHANGED <<resource, last>>

----------------------------------------------------------------------------
(* Requests                                                                *)

NoRequest == [route |-> "none", read |-> Null, result |-> Null]

Fetch ==
    /\ last' = [route |-> "list", read |-> object, result |-> Summary(resource, object)]
    /\ UNCHANGED <<resource, object>>

\* Bug: a zero passes, which the client then takes for "not set".
ZeroPasses(value) == value # Malformed /\ (value # Absent => value >= 0)

\* strconv.ParseInt succeeds with a positive number, or the parameter is absent.
ValidNumber(value) == value # Malformed /\ (value # Absent => value > 0)

Clamped(value, default, max) ==
    IF value = Absent THEN default ELSE IF value < max THEN value ELSE max

\* parseLogOptions: the options of a valid query.
ValidQuery(q) ==
    /\ ValidNumber(q.tailLines) /\ ValidNumber(q.limitBytes) /\ ValidNumber(q.sinceSeconds)
    /\ q.container # Malformed

LogOptions(q) ==
    [tailLines |-> Clamped(q.tailLines, DefaultTailLines, MaxTailLines),
     limitBytes |-> Clamped(q.limitBytes, DefaultLimitBytes, MaxLimitBytes),
     sinceSeconds |-> IF q.sinceSeconds = Absent THEN 0 ELSE q.sinceSeconds,
     container |-> q.container]

\* StreamPodLogs: a number that is zero is not sent, nor is an empty name.
UpstreamQuery(opts) ==
    [p \in {n \in {"tailLines", "limitBytes", "sinceSeconds"} : opts[n] > 0}
          \cup (IF opts.container = Absent THEN {} ELSE {"container"}) |-> opts[p]]

AskLogs(q) ==
    /\ resource = "pods"
    /\ last' = [route |-> "logs", read |-> q,
                result |-> IF ValidQuery(q) THEN UpstreamQuery(LogOptions(q)) ELSE Null]
    /\ UNCHANGED <<resource, object>>

Number == AskedNumbers \cup {Absent, Malformed}

Queries == [tailLines : Number, limitBytes : Number, sinceSeconds : Number,
            container : {Absent, Malformed, "app"}]

----------------------------------------------------------------------------

Init ==
    /\ resource \in Resources /\ object \in Admitted(resource)
    /\ last = NoRequest

Next == Report \/ Fetch \/ \E q \in Queries : AskLogs(q)

Spec == Init /\ [][Next]_vars
============================================================================
