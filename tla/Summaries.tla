----------------------------- MODULE Summaries -----------------------------
(***************************************************************************)
(* What the BFF makes of a Kubernetes object, and what the front end's     *)
(* types say that it gets.                                                 *)
(*                                                                         *)
(* An object is a function from the fields it has to their values; a field *)
(* of a nested object goes by its last part, a map is the set of its keys. *)
(* The name, which every object has and every summary copies, is left out. *)
(***************************************************************************)
EXTENDS Integers, Sequences, SequencesExt

CONSTANT Null  \* JSON's null

NoText == ""  \* the zero value of a string

\* json.Unmarshal into a struct and back: a field that is absent has the zero
\* value of its type.
Copy(o, zero) == [f \in DOMAIN zero |-> IF f \in DOMAIN o THEN o[f] ELSE zero[f]]

\* omitempty: what is not there stays away.
Optional(o, fields) == [f \in fields \cap DOMAIN o |-> o[f]]

\* The fields of f and those of g that f does not have.
With(f, g) == [x \in DOMAIN f \cup DOMAIN g |-> IF x \in DOMAIN f THEN f[x] ELSE g[x]]

\* A list that is made before it is filled: absent is empty.
List(o, field) == IF field \in DOMAIN o THEN o[field] ELSE <<>>

\* One summary for each element.
Each(s, Summarize(_)) == [i \in DOMAIN s |-> Summarize(s[i])]

----------------------------------------------------------------------------
(* Workloads                                                               *)

Deployment(o) ==
    Copy(o, [replicas |-> 0, readyReplicas |-> 0, updatedReplicas |-> 0, availableReplicas |-> 0])

StatefulSet(o) == Copy(o, [replicas |-> 0, readyReplicas |-> 0, currentReplicas |-> 0])

DaemonSet(o) ==
    Copy(o, [desiredNumberScheduled |-> 0, numberReady |-> 0, numberAvailable |-> 0])

\* Bug: omitempty on the counts.
JobOmitsZeros(o) == Optional(o, {"active", "succeeded", "failed"})

Job(o) == Copy(o, [active |-> 0, succeeded |-> 0, failed |-> 0])

CronJob(o) ==
    With(Copy(o, [schedule |-> NoText, suspend |-> FALSE]), Optional(o, {"lastScheduleTime"}))

\* Bug: a pod is ready as long as no status says otherwise.
ReadyUnlessSaid(o) == \A c \in Range(List(o, "containerStatuses")) : c.ready

PodReady(o) ==
    LET statuses == List(o, "containerStatuses") IN
    statuses # <<>> /\ \A c \in Range(statuses) : c.ready

\* Bug: no look at the containers of the specification.
StatusesOnly(o) == List(o, "containerStatuses")

\* The statuses, or what the specification says before there are any.
PodContainers(o) ==
    IF List(o, "containerStatuses") # <<>> THEN o.containerStatuses
    ELSE Each(o.containers, LAMBDA c : [name |-> c.name, image |-> c.image, ready |-> FALSE,
                                         restartCount |-> 0])

Pod(o) == [phase |-> o.phase, ready |-> PodReady(o), containers |-> PodContainers(o)]

----------------------------------------------------------------------------
(* Network and storage                                                     *)

\* Decimal notation, of the numbers that ports have.
Digits == [n \in {80, 443} |-> IF n = 80 THEN "80" ELSE "443"]

\* A port of a container is given by its number or by its name; fmt.Sprint makes
\* text of either, and of nothing at all.
Sprint(p) ==
    IF "targetPort" \notin DOMAIN p THEN "<nil>"
    ELSE IF "number" \in DOMAIN p.targetPort THEN Digits[p.targetPort.number]
    ELSE p.targetPort.name

ServicePort(p) ==
    With(With(Copy(p, [port |-> 0, protocol |-> NoText]), [targetPort |-> Sprint(p)]),
         Optional(p, {"name"}))

Service(o) ==
    With(Copy(o, [type |-> NoText, clusterIP |-> NoText]), [ports |-> Each(List(o, "ports"), ServicePort)])

HostOf(rule) == Copy(rule, [host |-> NoText]).host

\* Bug: a list that stays nil as long as no rule names a host.
HostsOrNull(o) ==
    LET hosts == {HostOf(rule) : rule \in Range(List(o, "rules"))} \ {NoText}
    IN  IF hosts = {} THEN Null ELSE hosts

\* The hosts of the rules that name one; their order is left out.
Hosts(o) == {HostOf(rule) : rule \in Range(List(o, "rules"))} \ {NoText}

Ingress(o) == With([hosts |-> Hosts(o)], Optional(o, {"ingressClassName"}))

\* accessModes is passed on as it was decoded: nil is encoded as null.
Claim(o) ==
    With(Copy(o, [phase |-> NoText, accessModes |-> Null]), Optional(o, {"capacity", "storageClassName"}))

----------------------------------------------------------------------------
(* Overview and events                                                     *)

\* So are the two maps of a quota's status.
ResourceQuota(o) == Copy(o, [hard |-> Null, used |-> Null])

LimitRangeItem(l) ==
    With(Copy(l, [type |-> NoText]), Optional(l, {"default", "defaultRequest", "max", "min"}))

LimitRange(o) == [limits |-> Each(List(o, "limits"), LimitRangeItem)]

Event(o) ==
    With(Copy(o, [message |-> NoText, reason |-> NoText, type |-> NoText, count |-> 0, lastTimestamp |-> NoText]),
         [involvedObject |-> <<o.kind, o.name>>])

Summary(resource, o) ==
    CASE resource = "deployments" -> Deployment(o)
      [] resource = "statefulsets" -> StatefulSet(o)
      [] resource = "daemonsets" -> DaemonSet(o)
      [] resource = "jobs" -> Job(o)
      [] resource = "cronjobs" -> CronJob(o)
      [] resource = "pods" -> Pod(o)
      [] resource = "services" -> Service(o)
      [] resource = "ingresses" -> Ingress(o)
      [] resource = "persistentvolumeclaims" -> Claim(o)
      [] resource = "resourcequotas" -> ResourceQuota(o)
      [] resource = "limitranges" -> LimitRange(o)
      [] resource = "events" -> Event(o)

----------------------------------------------------------------------------
(* The types of api.ts: fields that are there, and fields that may be      *)

Required ==
    [deployments |-> {"replicas", "readyReplicas", "updatedReplicas", "availableReplicas"},
     statefulsets |-> {"replicas", "readyReplicas", "currentReplicas"},
     daemonsets |-> {"desiredNumberScheduled", "numberReady", "numberAvailable"},
     jobs |-> {"active", "succeeded", "failed"},
     cronjobs |-> {"schedule", "suspend"},
     pods |-> {"phase", "ready", "containers"},
     services |-> {"type", "clusterIP", "ports"},
     ingresses |-> {"hosts"},
     persistentvolumeclaims |-> {"phase", "accessModes"},
     resourcequotas |-> {"hard", "used"},
     limitranges |-> {"limits"},
     events |-> {"message", "reason", "type", "count", "lastTimestamp", "involvedObject"}]

Resources == DOMAIN Required

MayHave(resource) ==
    CASE resource = "cronjobs" -> {"lastScheduleTime"}
      [] resource = "ingresses" -> {"ingressClassName"}
      [] resource = "persistentvolumeclaims" -> {"capacity", "storageClassName"}
      [] OTHER -> {}

HasShape(w, required, optional) ==
    /\ required \subseteq DOMAIN w /\ DOMAIN w \subseteq required \cup optional
    /\ \A f \in DOMAIN w : w[f] # Null

\* The elements of the lists in w.
ElementsFit(resource, w) ==
    /\ resource = "pods" =>
         \A c \in Range(w.containers) : HasShape(c, {"name", "image", "ready", "restartCount"}, {})
    /\ resource = "services" =>
         \A p \in Range(w.ports) : HasShape(p, {"port", "protocol"}, {"name", "targetPort"})
    /\ resource = "limitranges" =>
         \A l \in Range(w.limits) : HasShape(l, {"type"}, {"default", "defaultRequest", "max", "min"})

Fits(resource, w) ==
    HasShape(w, Required[resource], MayHave(resource)) /\ ElementsFit(resource, w)

\* What the table of the resource can be drawn from without an exception: what
\* it maps, joins, adds up or takes the keys of is not null.
Renders(resource, w) ==
    CASE resource = "pods" -> w.containers # Null
      [] resource = "services" -> w.ports # Null
      [] resource = "ingresses" -> w.hosts # Null
      [] resource = "persistentvolumeclaims" -> w.accessModes # Null
      [] resource = "resourcequotas" -> w.hard # Null /\ (w.hard # {} => w.used # Null)
      [] resource = "limitranges" -> w.limits # Null
      [] OTHER -> TRUE
============================================================================
