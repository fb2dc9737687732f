------------------------ MODULE NamespaceDataProofs ------------------------
(***************************************************************************)
(* The bounds of a request for logs, for any defaults, any maxima and any  *)
(* number that a request may have; what a list says of a pod, for any      *)
(* containers; and that every summary has the type the front end gives it. *)
(***************************************************************************)
EXTENDS NamespaceDataSafety, SequenceTheorems, TLAPS

\* A number that passes the check is clamped into its range.
LEMMA ClampedInRange ==
    ASSUME NEW max \in Nat, NEW default \in 1..max, NEW value \in Number, ValidNumber(value)
    PROVE  Clamped(value, default, max) \in 1..max
BY LogOptionsAssumption DEF Number, ValidNumber, Clamped

\* What the handler is responsible for, and what the client makes of it.
LEMMA OptionsInRange ==
    ASSUME NEW q \in Queries, ValidQuery(q)
    PROVE  /\ LogOptions(q).tailLines \in 1..MaxTailLines
           /\ LogOptions(q).limitBytes \in 1..MaxLimitBytes
<1>1. q.tailLines \in Number /\ q.limitBytes \in Number
  BY DEF Queries
<1>2. QED
  BY <1>1, ClampedInRange, LogOptionsAssumption DEF ValidQuery, LogOptions

\* A positive option is sent as it is.
LEMMA PositiveIsSent ==
    ASSUME NEW opts, NEW n \in {"tailLines", "limitBytes"}, opts[n] > 0
    PROVE  n \in DOMAIN UpstreamQuery(opts) /\ UpstreamQuery(opts)[n] = opts[n]
BY DEF UpstreamQuery

LEMMA LogsBoundedStep == LogsBounded /\ [Next]_vars => LogsBounded'
<1> SUFFICES ASSUME LogsBounded, [Next]_vars PROVE LogsBounded'
  OBVIOUS
<1>1. ASSUME Report \/ UNCHANGED vars PROVE LogsBounded'
  BY <1>1 DEF Report, vars, LogsBounded
<1>2. ASSUME Fetch PROVE LogsBounded'
  BY <1>2 DEF Fetch, LogsBounded
<1>3. ASSUME NEW q \in Queries, AskLogs(q), ValidQuery(q) PROVE LogsBounded'
  <2> DEFINE opts == LogOptions(q)
  <2>1. opts.tailLines \in 1..MaxTailLines /\ opts.limitBytes \in 1..MaxLimitBytes
    BY <1>3, OptionsInRange
  <2>2. opts["tailLines"] > 0 /\ opts["limitBytes"] > 0
    BY <2>1, LogOptionsAssumption
  <2>3. last'.result = UpstreamQuery(opts)
    BY <1>3 DEF AskLogs
  <2> HIDE DEF opts
  <2>4. /\ {"tailLines", "limitBytes"} \subseteq DOMAIN last'.result
        /\ last'.result.tailLines = opts.tailLines /\ last'.result.limitBytes = opts.limitBytes
    BY <2>2, <2>3, PositiveIsSent
  <2>5. QED
    BY <2>1, <2>4 DEF LogsBounded
<1>4. ASSUME NEW q \in Queries, AskLogs(q), ~ValidQuery(q) PROVE LogsBounded'
  BY <1>4 DEF AskLogs, LogsBounded
<1>5. QED
  BY <1>1, <1>2, <1>3, <1>4 DEF Next

\* No request for logs goes upstream without a bound on its lines and its bytes.
THEOREM LogRequestsBounded == Spec => []LogsBounded
<1>1. Init => LogsBounded
  BY DEF Init, NoRequest, LogsBounded
<1>2. QED
  BY <1>1, LogsBoundedStep, PTL DEF Spec

----------------------------------------------------------------------------
(* Pods                                                                    *)

\* A pod has the containers of its specification, and the statuses of a report on
\* them or none.
PodSound(o) ==
    /\ {"phase", "containers"} \subseteq DOMAIN o /\ o.containers \in PodSpecs
    /\ "containerStatuses" \in DOMAIN o => o.containerStatuses \in PodStatuses(o.containers)

ObjectSound == resource = "pods" => PodSound(object)

\* The statuses of a report are of the containers of the specification, each of
\* one of them (KubeletAssumption).
LEMMA StatusFields ==
    ASSUME NEW spec \in PodSpecs, NEW statuses \in PodStatuses(spec)
    PROVE  /\ {s.name : s \in Range(statuses)} = {c.name : c \in Range(spec)}
           /\ \A s, t \in Range(statuses) : s.name = t.name => s = t
<1>1. PICK list \in Reported[spec] : statuses \in Statuses(list)
  BY DEF PodStatuses
<1>2. PICK ready \in [DOMAIN list -> BOOLEAN], restarts \in [DOMAIN list -> 0..1] :
        statuses = [i \in DOMAIN list |->
                      [name |-> list[i].name, image |-> list[i].image,
                       ready |-> ready[i], restartCount |-> restarts[i]]]
  BY <1>1 DEF Statuses
<1>3. DOMAIN statuses = DOMAIN list /\ \A i \in DOMAIN list : statuses[i].name = list[i].name
  BY <1>2
<1>4. /\ {c.name : c \in Range(list)} = {c.name : c \in Range(spec)}
      /\ \A i, j \in DOMAIN list : list[i].name = list[j].name => i = j
  BY KubeletAssumption
<1>5. {s.name : s \in Range(statuses)} = {c.name : c \in Range(list)}
  BY <1>3 DEF Range
<1>6. ASSUME NEW s \in Range(statuses), NEW t \in Range(statuses), s.name = t.name
      PROVE  s = t
  <2>1. PICK i \in DOMAIN statuses : s = statuses[i]
    BY DEF Range
  <2>2. PICK j \in DOMAIN statuses : t = statuses[j]
    BY DEF Range
  <2>3. i = j
    BY <1>3, <1>4, <1>6, <2>1, <2>2
  <2>4. QED
    BY <2>1, <2>2, <2>3
<1>7. QED
  BY <1>4, <1>5, <1>6

\* A specification has at least one container.
LEMMA SomeContainer ==
    ASSUME NEW spec \in PodSpecs
    PROVE  DOMAIN spec # {}
<1>1. spec \in Seq([name : STRING, image : STRING]) /\ spec # <<>>
  BY PodAssumption
<1>2. Len(spec) \in Nat \ {0} /\ DOMAIN spec = 1..Len(spec)
  BY <1>1, EmptySeq
<1>3. QED
  BY <1>2

LEMMA ReadyMeansAll ==
    ASSUME NEW o, PodSound(o)
    PROVE  PodReady(o) <=>
             \A c \in Range(o.containers) :
                \E s \in Range(List(o, "containerStatuses")) : s.name = c.name /\ s.ready
<1> DEFINE spec == o.containers
           statuses == List(o, "containerStatuses")
<1>1. spec \in PodSpecs /\ DOMAIN spec # {}
  BY SomeContainer DEF PodSound
<1>2. CASE "containerStatuses" \notin DOMAIN o
  <2>1. statuses = <<>> /\ Range(statuses) = {}
    BY <1>2 DEF List, Range
  <2>2. ~PodReady(o)
    BY <2>1 DEF PodReady
  <2>3. \E c \in Range(spec) : TRUE
    BY <1>1 DEF Range
  <2>4. QED
    BY <2>1, <2>2, <2>3
<1>3. CASE "containerStatuses" \in DOMAIN o
  <2>1. statuses \in PodStatuses(spec)
    BY <1>3 DEF PodSound, List
  <2>2. /\ {s.name : s \in Range(statuses)} = {c.name : c \in Range(spec)}
        /\ \A s, t \in Range(statuses) : s.name = t.name => s = t
    BY <1>1, <2>1, StatusFields
  <2> HIDE DEF spec, statuses
  <2>3. statuses # <<>>
    <3>1. \E c \in Range(spec) : TRUE
      BY <1>1 DEF Range
    <3>2. \E s \in Range(statuses) : TRUE
      BY <2>2, <3>1
    <3>3. QED
      BY <3>2 DEF Range
  <2>4. PodReady(o) <=> \A s \in Range(statuses) : s.ready
    BY <2>3 DEF PodReady, statuses
  <2>5. ASSUME \A s \in Range(statuses) : s.ready, NEW c \in Range(spec)
        PROVE  \E s \in Range(statuses) : s.name = c.name /\ s.ready
    BY <2>2, <2>5
  <2>6. ASSUME \A c \in Range(spec) : \E s \in Range(statuses) : s.name = c.name /\ s.ready,
               NEW s \in Range(statuses)
        PROVE  s.ready
    <3>1. PICK c \in Range(spec) : c.name = s.name
      BY <2>2
    <3>2. PICK t \in Range(statuses) : t.name = c.name /\ t.ready
      BY <2>6
    <3>3. QED
      BY <2>2, <3>1, <3>2
  <2>7. QED
    BY <2>4, <2>5, <2>6 DEF spec, statuses
<1>4. QED
  BY <1>2, <1>3

LEMMA ContainersOfSpec ==
    ASSUME NEW o, PodSound(o)
    PROVE  {c.name : c \in Range(PodContainers(o))} = {c.name : c \in Range(o.containers)}
<1> DEFINE spec == o.containers
           statuses == List(o, "containerStatuses")
<1>1. spec \in PodSpecs /\ DOMAIN spec # {}
  BY SomeContainer DEF PodSound
<1>2. CASE statuses = <<>>
  <2>1. DOMAIN PodContainers(o) = DOMAIN spec /\ \A i \in DOMAIN spec : PodContainers(o)[i].name = spec[i].name
    BY <1>2 DEF PodContainers, Each
  <2>2. QED
    BY <2>1 DEF Range
<1>3. CASE statuses # <<>>
  <2>1. statuses \in PodStatuses(spec) /\ PodContainers(o) = statuses
    BY <1>3 DEF PodSound, List, PodContainers
  <2>2. QED
    BY <1>1, <2>1, StatusFields
<1>4. QED
  BY <1>2, <1>3

LEMMA ObjectSoundInit == Init => ObjectSound
<1> SUFFICES ASSUME Init, resource = "pods" PROVE PodSound(object)
  BY DEF ObjectSound
<1>1. object \in [phase : {"Pending"}, containers : PodSpecs]
  BY DEF Init, Admitted
<1>2. QED
  BY <1>1 DEF PodSound

LEMMA ObjectSoundStep == ObjectSound /\ [Next]_vars => ObjectSound'
<1> SUFFICES ASSUME ObjectSound, [Next]_vars, resource' = "pods" PROVE PodSound(object')
  BY DEF ObjectSound
<1>0. resource' = resource
  BY DEF Next, Report, Fetch, AskLogs, vars
<1>1. PodSound(object)
  BY <1>0 DEF ObjectSound
<1>2. CASE Report
  <2>1. PICK s \in Status(resource, object) :
          object' = With(s, IF resource \in DOMAIN Counters THEN Optional(object, {"replicas"})
                            ELSE object)
    BY <1>2 DEF Report
  <2>2. resource \notin DOMAIN Counters
    BY <1>0 DEF Counters
  <2>3. s \in [phase : {"Pending", "Running", "Succeeded"},
              containerStatuses : PodStatuses(object.containers)]
    BY <1>0, <2>2 DEF Status
  <2>4. DOMAIN s = {"phase", "containerStatuses"} /\ s.containerStatuses \in PodStatuses(object.containers)
    BY <2>3
  <2>5. object' = With(s, object)
    BY <2>1, <2>2
  <2>6. /\ {"phase", "containers"} \subseteq DOMAIN object'
        /\ object'.containers = object.containers
        /\ object'.containerStatuses = s.containerStatuses
    BY <1>1, <2>4, <2>5 DEF With, PodSound
  <2>7. QED
    BY <1>1, <2>4, <2>6 DEF PodSound
<1>3. CASE object' = object
  BY <1>1, <1>3
<1>4. QED
  BY <1>2, <1>3 DEF Next, Fetch, AskLogs, vars

\* What a list that is asked for now would say of a pod.
LEMMA PodListed ==
    ASSUME ObjectSound, resource = "pods"
    PROVE  /\ Summary(resource, object).ready = PodReady(object)
           /\ Summary(resource, object).containers = PodContainers(object)
           /\ PodSound(object)
BY DEF ObjectSound, Summary, Pod

PodsListed == ReadyIsAllReady /\ EveryContainerListed

LEMMA PodsListedStep == ObjectSound /\ PodsListed /\ [Next]_vars => PodsListed'
<1> SUFFICES ASSUME ObjectSound, PodsListed, [Next]_vars PROVE PodsListed'
  OBVIOUS
<1>1. ASSUME Report \/ UNCHANGED vars PROVE PodsListed'
  BY <1>1 DEF Report, vars, PodsListed, ReadyIsAllReady, EveryContainerListed, Listed
<1>2. ASSUME Fetch PROVE PodsListed'
  <2>1. last'.read = object /\ last'.result = Summary(resource, object) /\ resource' = resource
    BY <1>2 DEF Fetch
  <2>2. CASE resource = "pods"
    <3>1. /\ last'.result.ready = PodReady(last'.read)
          /\ last'.result.containers = PodContainers(last'.read)
          /\ PodSound(last'.read)
      BY <2>1, <2>2, PodListed
    <3>2. PodReady(last'.read) \in BOOLEAN
      BY DEF PodReady
    <3>3. QED
      BY <3>1, <3>2, ReadyMeansAll, ContainersOfSpec
         DEF PodsListed, ReadyIsAllReady, EveryContainerListed
  <2>3. QED
    BY <2>1, <2>2 DEF PodsListed, ReadyIsAllReady, EveryContainerListed
<1>3. ASSUME NEW q \in Queries, AskLogs(q) PROVE PodsListed'
  BY <1>3 DEF AskLogs, PodsListed, ReadyIsAllReady, EveryContainerListed, Listed
<1>4. QED
  BY <1>1, <1>2, <1>3 DEF Next

LEMMA PodsListedAlways == Spec => []PodsListed
<1>1. Init => PodsListed
  BY DEF Init, NoRequest, PodsListed, ReadyIsAllReady, EveryContainerListed, Listed
<1>2. QED
  BY <1>1, ObjectSoundInit, ObjectSoundStep, PodsListedStep, PTL DEF Spec

\* A pod is ready to the front end when all its containers reported so.
THEOREM PodReadiness == Spec => []ReadyIsAllReady
<1>1. PodsListed => ReadyIsAllReady
  BY DEF PodsListed
<1>2. QED
  BY <1>1, PodsListedAlways, PTL

\* The containers listed are those of the specification.
THEOREM PodContainersListed == Spec => []EveryContainerListed
<1>1. PodsListed => EveryContainerListed
  BY DEF PodsListed
<1>2. QED
  BY <1>1, PodsListedAlways, PTL

----------------------------------------------------------------------------
(* Nothing is null                                                         *)

NoNulls(o) == \A f \in DOMAIN o : o[f] # Null

\* What is not null.
LEMMA NoNullIn ==
    ASSUME NEW v, v \in Scalar \/ v \in Seq(Scalar) \/ v \in Seq(Element)
    PROVE  v # Null
BY NullAssumption

LEMMA PlainValues ==
    /\ Int \subseteq Scalar /\ STRING \subseteq Scalar /\ BOOLEAN \subseteq Scalar
    /\ Words \subseteq Scalar /\ NoText \in Scalar /\ {"cpu"} \in Scalar
BY DEF Scalar

LEMMA CopyNoNulls ==
    ASSUME NEW o, NEW zero, NoNulls(o),
           \A f \in DOMAIN zero : f \in DOMAIN o \/ zero[f] # Null
    PROVE  NoNulls(Copy(o, zero)) /\ DOMAIN Copy(o, zero) = DOMAIN zero
BY DEF NoNulls, Copy

LEMMA OptionalNoNulls ==
    ASSUME NEW o, NEW fields, NoNulls(o)
    PROVE  NoNulls(Optional(o, fields)) /\ DOMAIN Optional(o, fields) = fields \cap DOMAIN o
BY DEF NoNulls, Optional

LEMMA WithNoNulls ==
    ASSUME NEW f, NEW g, NoNulls(f), NoNulls(g)
    PROVE  NoNulls(With(f, g)) /\ DOMAIN With(f, g) = DOMAIN f \cup DOMAIN g
BY DEF NoNulls, With

LEMMA AnyOfNoNulls ==
    ASSUME NEW fields, NoNulls(fields), NEW o \in AnyOf(fields)
    PROVE  NoNulls(o) /\ DOMAIN o \subseteq DOMAIN fields
BY DEF NoNulls, AnyOf

\* Elements of fields that are plain values.
LEMMA ElementIntro ==
    ASSUME NEW e, NEW F, F \subseteq ElementFields, e \in [F -> Scalar]
    PROVE  e \in Element
BY DEF Element

\* Elements are made of elements.
LEMMA CopyIsElement ==
    ASSUME NEW e \in Element, NEW g \in Element
    PROVE  Copy(e, g) \in Element /\ DOMAIN Copy(e, g) = DOMAIN g
<1>1. PICK E \in SUBSET ElementFields : e \in [E -> Scalar]
  BY DEF Element
<1>2. PICK G \in SUBSET ElementFields : g \in [G -> Scalar]
  BY DEF Element
<1>3. Copy(e, g) \in [G -> Scalar]
  BY <1>1, <1>2 DEF Copy
<1>4. QED
  BY <1>2, <1>3, ElementIntro

LEMMA WithIsElement ==
    ASSUME NEW e \in Element, NEW g \in Element
    PROVE  With(e, g) \in Element /\ DOMAIN With(e, g) = DOMAIN e \cup DOMAIN g
<1>1. PICK E \in SUBSET ElementFields : e \in [E -> Scalar]
  BY DEF Element
<1>2. PICK G \in SUBSET ElementFields : g \in [G -> Scalar]
  BY DEF Element
<1>3. With(e, g) \in [E \cup G -> Scalar]
  BY <1>1, <1>2 DEF With
<1>4. QED
  BY <1>1, <1>2, <1>3, ElementIntro

LEMMA OptionalIsElement ==
    ASSUME NEW e \in Element, NEW fields
    PROVE  Optional(e, fields) \in Element /\ DOMAIN Optional(e, fields) = fields \cap DOMAIN e
<1>1. PICK E \in SUBSET ElementFields : e \in [E -> Scalar]
  BY DEF Element
<1>2. Optional(e, fields) \in [fields \cap E -> Scalar]
  BY <1>1 DEF Optional
<1>3. QED
  BY <1>1, <1>2, ElementIntro

LEMMA ElementNoNulls == ASSUME NEW e \in Element PROVE NoNulls(e) /\ DOMAIN e \subseteq ElementFields
BY NullAssumption DEF Element, NoNulls

\* The ports of a service, as they are stored.
LEMMA PortsTyped ==
    ASSUME NEW ports \in Ports
    PROVE  ports \in Seq(Element) /\ \A p \in Range(ports) : Sprint(p) \in Scalar
<1> DEFINE named == [name |-> "http"]
           eighty == [number |-> 80]
           secure == [number |-> 443]
<1>1. /\ 80 \in Scalar /\ 443 \in Scalar /\ "TCP" \in Scalar
      /\ "http" \in Scalar /\ "web" \in Scalar /\ "tls" \in Scalar
      /\ "80" \in Scalar /\ "443" \in Scalar
  BY PlainValues DEF Words
<1>0. named \in Scalar /\ eighty \in Scalar /\ secure \in Scalar
  BY DEF Scalar, TargetPorts
<1> DEFINE http == [port |-> 80, protocol |-> "TCP", targetPort |-> named]
           web == [port |-> 80, protocol |-> "TCP", targetPort |-> eighty, name |-> "web"]
           tls == [port |-> 443, protocol |-> "TCP", targetPort |-> secure, name |-> "tls"]
<1>9. Sprint(http) = "http" /\ Sprint(web) = "80" /\ Sprint(tls) = "443"
  BY DEF Sprint, Digits
<1>2. http \in [{"port", "protocol", "targetPort"} -> Scalar]
  BY <1>0, <1>1
<1>3. web \in [{"port", "protocol", "targetPort", "name"} -> Scalar]
  BY <1>0, <1>1
<1>4. tls \in [{"port", "protocol", "targetPort", "name"} -> Scalar]
  BY <1>0, <1>1
<1>5. ports = <<http>> \/ ports = <<web, tls>>
  BY DEF Ports
<1> HIDE DEF http, web, tls
<1>6. http \in Element /\ web \in Element /\ tls \in Element
  BY <1>2, <1>3, <1>4, ElementIntro DEF ElementFields
<1>7. <<http>> \in Seq(Element) /\ <<web, tls>> \in Seq(Element)
  BY <1>6
<1>8. \A p \in Range(ports) : p \in {http, web, tls}
  BY <1>5 DEF Range
<1>10. QED
  BY <1>1, <1>5, <1>7, <1>8, <1>9

\* And as they are listed.
LEMMA PortsListed ==
    ASSUME NEW ports \in Seq(Element), \A p \in Range(ports) : Sprint(p) \in Scalar
    PROVE  /\ Each(ports, ServicePort) \in Seq(Element)
           /\ \A p \in Range(Each(ports, ServicePort)) :
                HasShape(p, {"port", "protocol"}, {"name", "targetPort"})
<1> DEFINE zero == [port |-> 0, protocol |-> NoText]
<1>1. zero \in Element /\ DOMAIN zero = {"port", "protocol"}
  <2>1. 0 \in Scalar /\ NoText \in Scalar
    BY PlainValues
  <2>2. zero \in [{"port", "protocol"} -> Scalar] /\ DOMAIN zero = {"port", "protocol"}
    BY <2>1
  <2> HIDE DEF zero
  <2>3. QED
    BY <2>2, ElementIntro DEF ElementFields
<1>2. ASSUME NEW p \in Element, Sprint(p) \in Scalar
      PROVE  /\ ServicePort(p) \in Element
             /\ HasShape(ServicePort(p), {"port", "protocol"}, {"name", "targetPort"})
  <2> DEFINE numbers == Copy(p, zero)
             target == [targetPort |-> Sprint(p)]
             all == With(numbers, target)
             named == Optional(p, {"name"})
  <2>0. ServicePort(p) = With(all, named)
    BY DEF ServicePort
  <2> HIDE DEF zero
  <2>1. numbers \in Element /\ DOMAIN numbers = {"port", "protocol"}
    BY <1>1, CopyIsElement
  <2>2. target \in Element /\ DOMAIN target = {"targetPort"}
    <3>1. target \in [{"targetPort"} -> Scalar] /\ DOMAIN target = {"targetPort"}
      BY <1>2
    <3> HIDE DEF target
    <3>2. QED
      BY <3>1, ElementIntro DEF ElementFields
  <2>3. named \in Element /\ DOMAIN named = {"name"} \cap DOMAIN p
    BY OptionalIsElement
  <2> HIDE DEF numbers, target, named
  <2>4. all \in Element /\ DOMAIN all = {"port", "protocol", "targetPort"}
    <3>1. all \in Element /\ DOMAIN all = DOMAIN numbers \cup DOMAIN target
      BY <2>1, <2>2, WithIsElement
    <3>2. QED
      BY <2>1, <2>2, <3>1
  <2> HIDE DEF all
  <2>5. /\ ServicePort(p) \in Element
        /\ DOMAIN ServicePort(p) = DOMAIN all \cup DOMAIN named
    BY <2>0, <2>3, <2>4, WithIsElement
  <2>6. NoNulls(ServicePort(p))
    BY <2>5, ElementNoNulls
  <2>7. QED
    BY <2>3, <2>4, <2>5, <2>6 DEF HasShape, NoNulls
<1>3. \A i \in DOMAIN ports : ports[i] \in Element /\ Sprint(ports[i]) \in Scalar
  BY DEF Range
<1>4. Each(ports, ServicePort) = [i \in 1..Len(ports) |-> ServicePort(ports[i])]
  BY DEF Each
<1>5. QED
  BY <1>2, <1>3, <1>4 DEF Range

LEMMA ScalarsNoNulls == ASSUME NEW F, NEW o \in [F -> Scalar] PROVE NoNulls(o)
BY NullAssumption DEF NoNulls

\* The items of a limit range.
LEMMA LimitsTyped ==
    ASSUME NEW limits \in Limits
    PROVE  limits \in Seq(Element)
<1> DEFINE bounds == [default |-> {"cpu"}, defaultRequest |-> {"cpu"}, max |-> {"cpu"}, min |-> {"cpu"}]
           container == [type |-> "Container"]
<1>1. DOMAIN bounds \subseteq ElementFields /\ \A f \in DOMAIN bounds : bounds[f] \in Scalar
  BY PlainValues DEF ElementFields
<1>2. container \in Element
  <2>1. "Container" \in Scalar
    BY PlainValues DEF Words
  <2>2. container \in [{"type"} -> Scalar]
    BY <2>1
  <2> HIDE DEF container
  <2>3. QED
    BY <2>2, ElementIntro DEF ElementFields
<1>3. limits = <<>> \/ \E l \in AnyOf(bounds) : limits = <<With(container, l)>>
  BY DEF Limits
<1> HIDE DEF bounds, container
<1>4. CASE limits = <<>>
  BY <1>4
<1>5. CASE limits # <<>>
  <2>1. PICK l \in AnyOf(bounds) : limits = <<With(container, l)>>
    BY <1>3, <1>5
  <2>2. PICK present \in SUBSET DOMAIN bounds : l = [f \in present |-> bounds[f]]
    BY DEF AnyOf
  <2>3. l \in [present -> Scalar] /\ present \subseteq ElementFields
    BY <1>1, <2>2
  <2>4. l \in Element
    BY <2>3, ElementIntro
  <2>5. With(container, l) \in Element
    BY <1>2, <2>4, WithIsElement
  <2>6. QED
    BY <2>1, <2>5
<1>6. QED
  BY <1>4, <1>5

LEMMA LimitsListed ==
    ASSUME NEW limits \in Seq(Element)
    PROVE  /\ Each(limits, LimitRangeItem) \in Seq(Element)
           /\ \A l \in Range(Each(limits, LimitRangeItem)) :
                HasShape(l, {"type"}, {"default", "defaultRequest", "max", "min"})
<1> DEFINE zero == [type |-> NoText]
           bounds == {"default", "defaultRequest", "max", "min"}
<1>1. zero \in Element /\ DOMAIN zero = {"type"}
  <2>1. NoText \in Scalar
    BY PlainValues
  <2>2. zero \in [{"type"} -> Scalar] /\ DOMAIN zero = {"type"}
    BY <2>1
  <2> HIDE DEF zero
  <2>3. QED
    BY <2>2, ElementIntro DEF ElementFields
<1>2. ASSUME NEW l \in Element
      PROVE  /\ LimitRangeItem(l) \in Element
             /\ HasShape(LimitRangeItem(l), {"type"}, bounds)
  <2> DEFINE all == Copy(l, zero)
             some == Optional(l, bounds)
  <2>0. LimitRangeItem(l) = With(all, some)
    BY DEF LimitRangeItem
  <2> HIDE DEF zero, bounds
  <2>1. all \in Element /\ DOMAIN all = DOMAIN zero
    BY <1>1, CopyIsElement
  <2>2. some \in Element /\ DOMAIN some = bounds \cap DOMAIN l
    BY OptionalIsElement
  <2> HIDE DEF all, some
  <2>3. /\ LimitRangeItem(l) \in Element
        /\ DOMAIN LimitRangeItem(l) = DOMAIN all \cup DOMAIN some
    BY <2>0, <2>1, <2>2, WithIsElement
  <2>4. NoNulls(LimitRangeItem(l))
    BY <2>3, ElementNoNulls
  <2>5. QED
    BY <1>1, <2>1, <2>2, <2>3, <2>4 DEF HasShape, NoNulls
<1>3. \A i \in DOMAIN limits : limits[i] \in Element
  OBVIOUS
<1>4. Each(limits, LimitRangeItem) = [i \in 1..Len(limits) |-> LimitRangeItem(limits[i])]
  BY DEF Each
<1>5. QED
  BY <1>2, <1>3, <1>4 DEF Range

\* The rules of an ingress.
LEMMA RulesTyped ==
    ASSUME NEW rules \in Rules
    PROVE  rules \in Seq(Element)
<1> DEFINE ha == [host |-> "a"]
           hb == [host |-> "b"]
<1>1. "a" \in Scalar /\ "b" \in Scalar
  BY PlainValues DEF Words
<1>2. ha \in [{"host"} -> Scalar] /\ hb \in [{"host"} -> Scalar]
  BY <1>1
<1>3. rules = <<Nothing>> \/ rules = <<ha>> \/ rules = <<Nothing, ha>> \/ rules = <<hb, ha>>
  BY DEF Rules
<1> HIDE DEF ha, hb
<1>4. Nothing \in [{} -> Scalar]
  BY DEF Nothing
<1>5. ha \in Element /\ hb \in Element /\ Nothing \in Element
  BY <1>2, <1>4, ElementIntro DEF ElementFields
<1>6. <<Nothing>> \in Seq(Element) /\ <<ha>> \in Seq(Element)
      /\ <<Nothing, ha>> \in Seq(Element) /\ <<hb, ha>> \in Seq(Element)
  BY <1>5
<1>7. QED
  BY <1>3, <1>6

\* The containers of a pod, as its specification and its status have them.
ContainerFields == {"name", "image", "ready", "restartCount"}

LEMMA ContainerIsElement ==
    ASSUME NEW c \in [name : STRING, image : STRING, ready : BOOLEAN, restartCount : 0..1]
    PROVE  c \in Element /\ HasShape(c, ContainerFields, {})
<1>1. c \in [ContainerFields -> Scalar] /\ DOMAIN c = ContainerFields
  <2>1. c.name \in Scalar /\ c.image \in Scalar
    BY PlainValues
  <2>2. c.ready \in Scalar /\ c.restartCount \in Scalar
    BY PlainValues
  <2>3. QED
    BY <2>1, <2>2 DEF ContainerFields
<1>2. c \in Element
  BY <1>1, ElementIntro DEF ElementFields, ContainerFields
<1>3. QED
  BY <1>1, <1>2, ElementNoNulls DEF HasShape, NoNulls

LEMMA SpecElements ==
    ASSUME NEW spec \in Seq([name : STRING, image : STRING])
    PROVE  /\ Len(spec) \in Nat /\ DOMAIN spec = 1..Len(spec) /\ spec = [i \in 1..Len(spec) |-> spec[i]]
           /\ \A i \in 1..Len(spec) : spec[i] \in [name : STRING, image : STRING]
<1> DEFINE C == [name : STRING, image : STRING]
<1>1. spec \in Seq(C)
  OBVIOUS
<1> HIDE DEF C
<1>2. /\ Len(spec) \in Nat /\ DOMAIN spec = 1..Len(spec) /\ spec = [i \in 1..Len(spec) |-> spec[i]]
      /\ \A i \in 1..Len(spec) : spec[i] \in C
  BY <1>1
<1>3. QED
  BY <1>2 DEF C

LEMMA SpecTyped ==
    ASSUME NEW spec \in PodSpecs
    PROVE  spec \in Seq(Element)
<1>1. ASSUME NEW c \in [name : STRING, image : STRING] PROVE c \in Element
  <2>1. c \in [{"name", "image"} -> Scalar]
    BY PlainValues
  <2>2. QED
    BY <2>1, ElementIntro DEF ElementFields
<1>2. /\ Len(spec) \in Nat /\ spec = [i \in 1..Len(spec) |-> spec[i]]
      /\ \A i \in 1..Len(spec) : spec[i] \in [name : STRING, image : STRING]
  BY PodAssumption, SpecElements
<1>3. \A i \in 1..Len(spec) : spec[i] \in Element
  BY <1>1, <1>2
<1>4. QED
  BY <1>2, <1>3

LEMMA StatusesTyped ==
    ASSUME NEW spec \in Seq([name : STRING, image : STRING]), NEW statuses \in Statuses(spec)
    PROVE  statuses \in Seq(Element) /\ \A c \in Range(statuses) : HasShape(c, ContainerFields, {})
<1>1. PICK ready \in [DOMAIN spec -> BOOLEAN], restarts \in [DOMAIN spec -> 0..1] :
        statuses = [i \in DOMAIN spec |->
                      [name |-> spec[i].name, image |-> spec[i].image,
                       ready |-> ready[i], restartCount |-> restarts[i]]]
  BY DEF Statuses
<1>2. Len(spec) \in Nat /\ DOMAIN spec = 1..Len(spec)
  BY SpecElements
<1>3. ASSUME NEW i \in DOMAIN spec
      PROVE  statuses[i] \in [name : STRING, image : STRING, ready : BOOLEAN, restartCount : 0..1]
  <2>1. spec[i] \in [name : STRING, image : STRING]
    BY <1>2, SpecElements
  <2>2. ready[i] \in BOOLEAN /\ restarts[i] \in 0..1
    OBVIOUS
  <2>3. statuses[i] = [name |-> spec[i].name, image |-> spec[i].image,
                       ready |-> ready[i], restartCount |-> restarts[i]]
    BY <1>1
  <2>4. QED
    BY <2>1, <2>2, <2>3
<1>4. \A i \in DOMAIN spec : statuses[i] \in Element /\ HasShape(statuses[i], ContainerFields, {})
  BY <1>3, ContainerIsElement
<1>5. DOMAIN statuses = DOMAIN spec /\ DOMAIN spec = 1..Len(spec) /\ Len(spec) \in Nat
  BY <1>1, <1>2
<1>6. statuses = [i \in 1..Len(spec) |-> statuses[i]]
  BY <1>1, <1>5
<1>7. QED
  BY <1>4, <1>5, <1>6 DEF Range

LEMMA PodStatusesTyped ==
    ASSUME NEW spec \in PodSpecs, NEW statuses \in PodStatuses(spec)
    PROVE  statuses \in Seq(Element) /\ \A c \in Range(statuses) : HasShape(c, ContainerFields, {})
<1>1. PICK list \in Reported[spec] : statuses \in Statuses(list)
  BY DEF PodStatuses
<1>2. list \in Seq([name : STRING, image : STRING])
  BY KubeletAssumption
<1>3. QED
  BY <1>1, <1>2, StatusesTyped

LEMMA ContainersTyped ==
    ASSUME NEW o, PodSound(o)
    PROVE  /\ PodContainers(o) \in Seq(Element)
           /\ \A c \in Range(PodContainers(o)) : HasShape(c, ContainerFields, {})
<1> DEFINE statuses == List(o, "containerStatuses")
<1>1. CASE statuses # <<>>
  <2>1. statuses \in PodStatuses(o.containers) /\ PodContainers(o) = statuses /\ o.containers \in PodSpecs
    BY <1>1 DEF PodSound, List, PodContainers
  <2>2. QED
    BY <2>1, PodStatusesTyped
<1>2. CASE statuses = <<>>
  <2> DEFINE spec == o.containers
             waiting == [i \in DOMAIN spec |-> [name |-> spec[i].name, image |-> spec[i].image,
                                                ready |-> FALSE, restartCount |-> 0]]
  <2>1. spec \in PodSpecs /\ PodContainers(o) = waiting
    BY <1>2 DEF PodSound, PodContainers, Each
  <2>2. waiting \in Statuses(spec)
    <3> DEFINE ready == [i \in DOMAIN spec |-> FALSE]
               restarts == [i \in DOMAIN spec |-> 0]
    <3>1. ready \in [DOMAIN spec -> BOOLEAN] /\ restarts \in [DOMAIN spec -> 0..1]
      OBVIOUS
    <3>2. waiting = [i \in DOMAIN spec |->
                       [name |-> spec[i].name, image |-> spec[i].image,
                        ready |-> ready[i], restartCount |-> restarts[i]]]
      OBVIOUS
    <3> HIDE DEF ready, restarts, waiting, spec
    <3>3. QED
      BY <3>1, <3>2 DEF Statuses
  <2>3. spec \in Seq([name : STRING, image : STRING])
    BY <2>1, PodAssumption
  <2>4. QED
    BY <2>1, <2>2, <2>3, StatusesTyped
<1>3. QED
  BY <1>1, <1>2

----------------------------------------------------------------------------
(* Objects                                                                 *)

\* What an object may be asked for is there and is no null.
Sound(r, o) ==
    /\ NoNulls(o)
    /\ r = "pods" => PodSound(o)
    /\ r = "services" /\ "ports" \in DOMAIN o => o.ports \in Ports
    /\ r = "ingresses" /\ "rules" \in DOMAIN o => o.rules \in Rules
    /\ r = "persistentvolumeclaims" => "accessModes" \in DOMAIN o
    /\ r = "resourcequotas" /\ "hard" \in DOMAIN o => "used" \in DOMAIN o
    /\ r = "limitranges" /\ "limits" \in DOMAIN o => o.limits \in Limits
    /\ r = "events" => {"kind", "name"} \subseteq DOMAIN o /\ o.kind \in Scalar /\ o.name \in Scalar

LEMMA ListsAreNotNull ==
    /\ \A spec \in PodSpecs : spec # Null /\ \A statuses \in PodStatuses(spec) : statuses # Null
    /\ \A ports \in Ports : ports # Null
    /\ \A limits \in Limits : limits # Null
    /\ \A rules \in Rules : rules # Null
BY NoNullIn, SpecTyped, PodStatusesTyped, PortsTyped, LimitsTyped, RulesTyped

LEMMA AdmittedWorkload ==
    ASSUME NEW r \in {"deployments", "statefulsets", "daemonsets", "jobs", "cronjobs", "resourcequotas"},
           NEW o \in Admitted(r)
    PROVE  Sound(r, o)
<1>1. CASE r \in {"deployments", "statefulsets"}
  <2>1. o \in [replicas : {0, 1}]
    BY <1>1 DEF Admitted
  <2>2. DOMAIN o = {"replicas"} /\ o.replicas \in Int
    BY <2>1
  <2>3. NoNulls(o)
    BY <2>2, PlainValues, NoNullIn DEF NoNulls
  <2>4. QED
    BY <1>1, <2>3 DEF Sound
<1>2. CASE r = "cronjobs"
  <2>1. o \in [schedule : {"daily"}, suspend : BOOLEAN]
    BY <1>2 DEF Admitted
  <2>2. DOMAIN o = {"schedule", "suspend"} /\ o.schedule \in Scalar /\ o.suspend \in Scalar
    BY <2>1, PlainValues DEF Words
  <2>3. NoNulls(o)
    BY <2>2, NoNullIn DEF NoNulls
  <2>4. QED
    BY <1>2, <2>3 DEF Sound
<1>3. CASE r \in {"daemonsets", "jobs", "resourcequotas"}
  <2>1. o = Nothing
    BY <1>3 DEF Admitted
  <2>2. DOMAIN o = {}
    BY <2>1 DEF Nothing
  <2>3. QED
    BY <1>3, <2>2 DEF Sound, NoNulls
<1>4. QED
  BY <1>1, <1>2, <1>3

LEMMA AdmittedPod == ASSUME NEW o \in Admitted("pods") PROVE Sound("pods", o)
<1>1. o \in [phase : {"Pending"}, containers : PodSpecs]
  BY DEF Admitted
<1>2. DOMAIN o = {"phase", "containers"} /\ o.phase \in Scalar /\ o.containers \in PodSpecs
  BY <1>1, PlainValues DEF Words
<1>3. NoNulls(o)
  BY <1>2, NoNullIn, ListsAreNotNull DEF NoNulls
<1>4. QED
  BY <1>2, <1>3 DEF Sound, PodSound

LEMMA AdmittedService == ASSUME NEW o \in Admitted("services") PROVE Sound("services", o)
<1>1. \/ o = [type |-> "ExternalName"] \/ o = [type |-> "ClusterIP", clusterIP |-> "None"]
      \/ o \in [type : {"ClusterIP"}, clusterIP : {"ip"}, ports : Ports]
  BY DEF Admitted
<1>2. /\ "ExternalName" \in Scalar /\ "ClusterIP" \in Scalar /\ "None" \in Scalar /\ "ip" \in Scalar
  BY PlainValues DEF Words
<1>3. CASE o \in [type : {"ClusterIP"}, clusterIP : {"ip"}, ports : Ports]
  <2>1. /\ DOMAIN o = {"type", "clusterIP", "ports"}
        /\ o.type \in Scalar /\ o.clusterIP \in Scalar /\ o.ports \in Ports
    BY <1>2, <1>3
  <2>2. NoNulls(o)
    BY <2>1, NoNullIn, ListsAreNotNull DEF NoNulls
  <2>3. QED
    BY <2>1, <2>2 DEF Sound
<1>4. CASE o = [type |-> "ExternalName"] \/ o = [type |-> "ClusterIP", clusterIP |-> "None"]
  <2>1. "ports" \notin DOMAIN o /\ \A f \in DOMAIN o : o[f] \in Scalar
    BY <1>2, <1>4
  <2>2. NoNulls(o)
    BY <2>1, NoNullIn DEF NoNulls
  <2>3. QED
    BY <2>1, <2>2 DEF Sound
<1>5. QED
  BY <1>1, <1>3, <1>4

LEMMA AdmittedIngress == ASSUME NEW o \in Admitted("ingresses") PROVE Sound("ingresses", o)
<1> DEFINE class == [ingressClassName |-> "nginx"]
<1>1. PICK i \in {Nothing} \cup [rules : Rules], c \in AnyOf(class) : o = With(i, c)
  BY DEF Admitted
<1>2. NoNulls(c) /\ DOMAIN c \subseteq {"ingressClassName"}
  <2>1. "nginx" \in Scalar
    BY PlainValues DEF Words
  <2>2. DOMAIN class = {"ingressClassName"} /\ NoNulls(class)
    BY <2>1, NoNullIn DEF NoNulls
  <2> HIDE DEF class
  <2>3. QED
    BY <2>2, AnyOfNoNulls
<1>3. NoNulls(i) /\ ("rules" \in DOMAIN i => i.rules \in Rules)
  BY ListsAreNotNull DEF Nothing, NoNulls
<1>4. NoNulls(o)
  BY <1>1, <1>2, <1>3, WithNoNulls
<1>5. "rules" \in DOMAIN o => o.rules \in Rules
  BY <1>1, <1>2, <1>3 DEF With
<1>6. QED
  BY <1>4, <1>5 DEF Sound

LEMMA AdmittedClaim ==
    ASSUME NEW o \in Admitted("persistentvolumeclaims")
    PROVE  Sound("persistentvolumeclaims", o)
<1> DEFINE class == [storageClassName |-> "fast"]
           claim == [phase |-> "Pending", accessModes |-> <<"ReadWriteOnce">>]
<1>1. PICK c \in AnyOf(class) : o = With(c, claim)
  BY DEF Admitted
<1>2. NoNulls(c)
  <2>1. "fast" \in Scalar
    BY PlainValues DEF Words
  <2>2. NoNulls(class)
    BY <2>1, NoNullIn DEF NoNulls
  <2> HIDE DEF class
  <2>3. QED
    BY <2>2, AnyOfNoNulls
<1>3. NoNulls(claim) /\ "accessModes" \in DOMAIN claim
  <2>1. "Pending" \in Scalar /\ "ReadWriteOnce" \in Scalar
    BY PlainValues DEF Words
  <2>2. <<"ReadWriteOnce">> \in Seq(Scalar)
    BY <2>1
  <2>3. claim.phase # Null /\ claim.accessModes # Null
    BY <2>1, <2>2, NoNullIn
  <2>4. DOMAIN claim = {"phase", "accessModes"}
    OBVIOUS
  <2> HIDE DEF claim
  <2>5. QED
    BY <2>3, <2>4 DEF NoNulls
<1> HIDE DEF claim, class
<1>4. NoNulls(o) /\ "accessModes" \in DOMAIN o
  <2>1. NoNulls(o) /\ DOMAIN o = DOMAIN c \cup DOMAIN claim
    BY <1>1, <1>2, <1>3, WithNoNulls
  <2>2. QED
    BY <1>3, <2>1
<1>5. QED
  BY <1>4 DEF Sound

LEMMA AdmittedLimitRange == ASSUME NEW o \in Admitted("limitranges") PROVE Sound("limitranges", o)
<1>1. o \in [limits : Limits]
  BY DEF Admitted
<1>2. DOMAIN o = {"limits"} /\ o.limits \in Limits
  BY <1>1
<1>3. NoNulls(o)
  BY <1>2, ListsAreNotNull DEF NoNulls
<1>4. QED
  BY <1>2, <1>3 DEF Sound

LEMMA AdmittedEvent == ASSUME NEW o \in Admitted("events") PROVE Sound("events", o)
<1> DEFINE said == [message |-> "text", reason |-> "Pulled", type |-> "Normal", count |-> 1,
                    lastTimestamp |-> "t"]
           involved == [kind |-> "Pod", name |-> "p"]
<1>1. PICK e \in AnyOf(said) : o = With(e, involved)
  BY DEF Admitted
<1>2. NoNulls(e) /\ DOMAIN e \subseteq {"message", "reason", "type", "count", "lastTimestamp"}
  <2>1. "text" \in Scalar /\ "Pulled" \in Scalar /\ "Normal" \in Scalar /\ 1 \in Scalar /\ "t" \in Scalar
    BY PlainValues DEF Words
  <2>2. /\ DOMAIN said = {"message", "reason", "type", "count", "lastTimestamp"}
        /\ NoNulls(said)
    BY <2>1, NoNullIn DEF NoNulls
  <2> HIDE DEF said
  <2>3. QED
    BY <2>2, AnyOfNoNulls
<1>3. NoNulls(involved) /\ involved.kind \in Scalar /\ involved.name \in Scalar
      /\ DOMAIN involved = {"kind", "name"}
  <2>1. "Pod" \in Scalar /\ "p" \in Scalar
    BY PlainValues DEF Words
  <2>2. QED
    BY <2>1, NoNullIn DEF NoNulls
<1> HIDE DEF involved, said
<1>4. NoNulls(o)
  BY <1>1, <1>2, <1>3, WithNoNulls
<1>5. {"kind", "name"} \subseteq DOMAIN o /\ o.kind = involved.kind /\ o.name = involved.name
  BY <1>1, <1>2, <1>3 DEF With
<1>6. QED
  BY <1>3, <1>4, <1>5 DEF Sound

LEMMA AdmittedSound ==
    ASSUME NEW r \in Resources, NEW o \in Admitted(r)
    PROVE  Sound(r, o)
<1>1. \/ r \in {"deployments", "statefulsets", "daemonsets", "jobs", "cronjobs", "resourcequotas"}
      \/ r = "pods" \/ r = "services" \/ r = "ingresses" \/ r = "persistentvolumeclaims"
      \/ r = "limitranges" \/ r = "events"
  BY DEF Resources, Required
<1>2. QED
  BY <1>1, AdmittedWorkload, AdmittedPod, AdmittedService, AdmittedIngress, AdmittedClaim,
     AdmittedLimitRange, AdmittedEvent

\* What a status may change of that.
LEMMA StatusSound ==
    ASSUME NEW r \in Resources, NEW o, Sound(r, o), NEW s \in Status(r, o)
    PROVE  /\ NoNulls(s)
           /\ r \notin {"services", "ingresses", "limitranges"}
           /\ r = "resourcequotas" => "used" \in DOMAIN s
           /\ r = "events" => "kind" \notin DOMAIN s /\ "name" \notin DOMAIN s
           /\ r = "pods" => /\ DOMAIN s = {"phase", "containerStatuses"}
                            /\ s.containerStatuses \in PodStatuses(o.containers)
<1>1. /\ 1 \in Scalar /\ 2 \in Scalar /\ "t" \in Scalar /\ "u" \in Scalar /\ "Bound" \in Scalar
      /\ "1Gi" \in Scalar /\ "Lost" \in Scalar /\ {"cpu"} \in Scalar
      /\ "Pending" \in Scalar /\ "Running" \in Scalar /\ "Succeeded" \in Scalar
  BY PlainValues DEF Words
<1>2. CASE r \in DOMAIN Counters
  <2>1. r \in {"deployments", "statefulsets", "daemonsets", "jobs"}
    BY <1>2 DEF Counters
  <2>2. \A f \in DOMAIN Counters[r] : Counters[r][f] = 1
    BY <2>1 DEF Counters
  <2>3. NoNulls(Counters[r])
    BY <1>1, <2>2, NoNullIn DEF NoNulls
  <2>4. s \in AnyOf(Counters[r])
    BY <1>2, <2>1 DEF Status
  <2>5. NoNulls(s)
    BY <2>3, <2>4, AnyOfNoNulls
  <2>6. QED
    BY <2>1, <2>5
<1>3. r \in {"deployments", "statefulsets", "daemonsets", "jobs"} <=> r \in DOMAIN Counters
  BY DEF Counters
<1>4. CASE r = "cronjobs"
  <2>1. s = [lastScheduleTime |-> "t"]
    BY <1>3, <1>4 DEF Status
  <2>2. QED
    BY <1>1, <1>4, <2>1, NoNullIn DEF NoNulls
<1>5. CASE r = "pods"
  <2>1. s \in [phase : {"Pending", "Running", "Succeeded"}, containerStatuses : PodStatuses(o.containers)]
    BY <1>3, <1>5 DEF Status
  <2>2. /\ DOMAIN s = {"phase", "containerStatuses"}
        /\ s.phase \in Scalar /\ s.containerStatuses \in PodStatuses(o.containers)
    BY <1>1, <2>1
  <2>3. o.containers \in PodSpecs
    BY <1>5 DEF Sound, PodSound
  <2>4. NoNulls(s)
    BY <2>2, <2>3, ListsAreNotNull, NoNullIn DEF NoNulls
  <2>5. QED
    BY <1>5, <2>2, <2>4
<1>6. CASE r = "persistentvolumeclaims"
  <2>1. s = [phase |-> "Bound", capacity |-> "1Gi"] \/ s = [phase |-> "Lost"]
    BY <1>3, <1>6 DEF Status
  <2>2. QED
    BY <1>1, <1>6, <2>1, NoNullIn DEF NoNulls
<1>7. CASE r = "resourcequotas"
  <2>1. s = [hard |-> {"cpu"}, used |-> {"cpu"}]
    BY <1>3, <1>7 DEF Status
  <2>2. {"cpu"} # Null
    BY <1>1, NoNullIn
  <2>3. DOMAIN s = {"hard", "used"} /\ s.hard = {"cpu"} /\ s.used = {"cpu"}
    BY <2>1
  <2>4. NoNulls(s)
    BY <2>2, <2>3 DEF NoNulls
  <2>5. QED
    BY <1>7, <2>3, <2>4
<1>8. CASE r = "events"
  <2>1. s = [count |-> 2, lastTimestamp |-> "u"]
    BY <1>3, <1>8 DEF Status
  <2>2. QED
    BY <1>1, <1>8, <2>1, NoNullIn DEF NoNulls
<1>9. r \notin {"services", "ingresses", "limitranges"}
  BY <1>3 DEF Status
<1>10. QED
  BY <1>2, <1>3, <1>4, <1>5, <1>6, <1>7, <1>8, <1>9 DEF Resources, Required

LEMMA ReportSound ==
    ASSUME NEW r \in Resources, NEW o, Sound(r, o), NEW s \in Status(r, o)
    PROVE  Sound(r, With(s, IF r \in DOMAIN Counters THEN Optional(o, {"replicas"}) ELSE o))
<1> DEFINE kept == IF r \in DOMAIN Counters THEN Optional(o, {"replicas"}) ELSE o
           n == With(s, kept)
<1>1. NoNulls(o) /\ NoNulls(s)
  BY StatusSound DEF Sound
<1>2. NoNulls(kept)
  BY <1>1, OptionalNoNulls
<1>3. r \notin {"deployments", "statefulsets", "daemonsets", "jobs"} => kept = o
  BY DEF Counters
<1> HIDE DEF kept
<1>4. NoNulls(n) /\ DOMAIN n = DOMAIN s \cup DOMAIN kept
  BY <1>1, <1>2, WithNoNulls
<1>5. \A f \in DOMAIN n : n[f] = IF f \in DOMAIN s THEN s[f] ELSE kept[f]
  BY DEF With
<1> HIDE DEF n
<1>6. r = "pods" => PodSound(n)
  <2> SUFFICES ASSUME r = "pods" PROVE PodSound(n)
    OBVIOUS
  <2>1. DOMAIN s = {"phase", "containerStatuses"} /\ s.containerStatuses \in PodStatuses(o.containers)
    BY StatusSound
  <2>2. PodSound(o) /\ kept = o
    BY <1>3 DEF Sound
  <2>3. n.containers = o.containers /\ n.containerStatuses = s.containerStatuses
    BY <1>4, <1>5, <2>1, <2>2 DEF PodSound
  <2>4. QED
    BY <1>4, <2>1, <2>2, <2>3 DEF PodSound
<1>7. r = "persistentvolumeclaims" => "accessModes" \in DOMAIN n
  BY <1>3, <1>4 DEF Sound
<1>8. r = "resourcequotas" => "used" \in DOMAIN n
  BY <1>4, StatusSound
<1>9. r = "events" => {"kind", "name"} \subseteq DOMAIN n /\ n.kind \in Scalar /\ n.name \in Scalar
  <2> SUFFICES ASSUME r = "events"
               PROVE  {"kind", "name"} \subseteq DOMAIN n /\ n.kind \in Scalar /\ n.name \in Scalar
    OBVIOUS
  <2>1. "kind" \notin DOMAIN s /\ "name" \notin DOMAIN s
    BY StatusSound
  <2>2. kept = o /\ o.kind \in Scalar /\ o.name \in Scalar /\ {"kind", "name"} \subseteq DOMAIN o
    BY <1>3 DEF Sound
  <2>3. QED
    BY <1>4, <1>5, <2>1, <2>2
<1>10. r \notin {"services", "ingresses", "limitranges"}
  BY StatusSound
<1>11. Sound(r, n)
  BY <1>4, <1>6, <1>7, <1>8, <1>9, <1>10 DEF Sound
<1>12. QED
  BY <1>11 DEF n, kept

----------------------------------------------------------------------------
(* Summaries                                                               *)

\* A summary has every field of its type and nothing that is null.
LEMMA WorkloadFits ==
    ASSUME NEW r \in {"deployments", "statefulsets", "daemonsets", "jobs"}, NEW o, Sound(r, o)
    PROVE  Fits(r, Summary(r, o))
<1> DEFINE zero ==
      CASE r = "deployments" ->
             [replicas |-> 0, readyReplicas |-> 0, updatedReplicas |-> 0, availableReplicas |-> 0]
        [] r = "statefulsets" -> [replicas |-> 0, readyReplicas |-> 0, currentReplicas |-> 0]
        [] r = "daemonsets" ->
             [desiredNumberScheduled |-> 0, numberReady |-> 0, numberAvailable |-> 0]
        [] r = "jobs" -> [active |-> 0, succeeded |-> 0, failed |-> 0]
<1>1. Summary(r, o) = Copy(o, zero)
  BY DEF Summary, Deployment, StatefulSet, DaemonSet, Job
<1>2. DOMAIN zero = Required[r] /\ \A f \in DOMAIN zero : zero[f] = 0
  <2>1. CASE r = "deployments"
    BY <2>1 DEF Required
  <2>2. CASE r = "statefulsets"
    BY <2>2 DEF Required
  <2>3. CASE r = "daemonsets"
    BY <2>3 DEF Required
  <2>4. CASE r = "jobs"
    BY <2>4 DEF Required
  <2>5. QED
    BY <2>1, <2>2, <2>3, <2>4
<1> HIDE DEF zero
<1>3. 0 # Null
  BY PlainValues, NoNullIn
<1>4. NoNulls(Summary(r, o)) /\ DOMAIN Summary(r, o) = Required[r]
  BY <1>1, <1>2, <1>3, CopyNoNulls DEF Sound
<1>5. MayHave(r) = {} /\ ElementsFit(r, Summary(r, o))
  BY DEF MayHave, ElementsFit
<1>6. QED
  BY <1>4, <1>5 DEF Fits, HasShape, NoNulls

LEMMA CronJobFits ==
    ASSUME NEW o, Sound("cronjobs", o)
    PROVE  Fits("cronjobs", Summary("cronjobs", o))
<1> DEFINE zero == [schedule |-> NoText, suspend |-> FALSE]
           all == Copy(o, zero)
           some == Optional(o, {"lastScheduleTime"})
           w == Summary("cronjobs", o)
<1>1. w = With(all, some)
  BY DEF Summary, CronJob
<1>2. DOMAIN zero = {"schedule", "suspend"} /\ \A f \in DOMAIN zero : zero[f] # Null
  <2>1. NoText \in Scalar /\ FALSE \in Scalar
    BY PlainValues
  <2>2. zero.schedule \in Scalar /\ zero.suspend \in Scalar
    BY <2>1
  <2>3. DOMAIN zero = {"schedule", "suspend"}
    OBVIOUS
  <2> HIDE DEF zero
  <2>4. QED
    BY <2>2, <2>3, NoNullIn
<1> HIDE DEF zero, w
<1>3. NoNulls(all) /\ DOMAIN all = {"schedule", "suspend"}
  BY <1>2, CopyNoNulls DEF Sound
<1>4. NoNulls(some) /\ DOMAIN some = {"lastScheduleTime"} \cap DOMAIN o
  BY OptionalNoNulls DEF Sound
<1> HIDE DEF all, some
<1>5. NoNulls(w) /\ DOMAIN w = DOMAIN all \cup DOMAIN some
  BY <1>1, <1>3, <1>4, WithNoNulls
<1>6. /\ Required["cronjobs"] = {"schedule", "suspend"} /\ MayHave("cronjobs") = {"lastScheduleTime"}
      /\ ElementsFit("cronjobs", w)
  BY DEF Required, MayHave, ElementsFit
<1>7. QED
  BY <1>3, <1>4, <1>5, <1>6 DEF Fits, HasShape, NoNulls, w

LEMMA PodFits == ASSUME NEW o, Sound("pods", o) PROVE Fits("pods", Summary("pods", o))
<1> DEFINE w == Summary("pods", o)
<1>1. w = [phase |-> o.phase, ready |-> PodReady(o), containers |-> PodContainers(o)]
  BY DEF Summary, Pod
<1> HIDE DEF w
<1>2. PodSound(o) /\ o.phase # Null
  BY DEF Sound, PodSound, NoNulls
<1>3. /\ PodContainers(o) # Null
      /\ \A c \in Range(PodContainers(o)) : HasShape(c, ContainerFields, {})
  BY <1>2, ContainersTyped, NoNullIn
<1>4. PodReady(o) # Null
  <2>1. PodReady(o) \in BOOLEAN
    BY DEF PodReady
  <2>2. QED
    BY <2>1, PlainValues, NoNullIn
<1>5. /\ DOMAIN w = {"phase", "ready", "containers"}
      /\ w.phase = o.phase /\ w.ready = PodReady(o) /\ w.containers = PodContainers(o)
  BY <1>1
<1>6. Required["pods"] = {"phase", "ready", "containers"}
  BY DEF Required
<1>7. HasShape(w, Required["pods"], MayHave("pods"))
  BY <1>2, <1>3, <1>4, <1>5, <1>6 DEF HasShape
<1>8. ElementsFit("pods", w)
  BY <1>3, <1>5 DEF ElementsFit, ContainerFields
<1>9. QED
  BY <1>7, <1>8 DEF Fits, w

LEMMA ServiceFits == ASSUME NEW o, Sound("services", o) PROVE Fits("services", Summary("services", o))
<1> DEFINE zero == [type |-> NoText, clusterIP |-> NoText]
           all == Copy(o, zero)
           ports == Each(List(o, "ports"), ServicePort)
           some == [ports |-> ports]
           w == Summary("services", o)
<1>1. w = With(all, some)
  BY DEF Summary, Service
<1>2. DOMAIN zero = {"type", "clusterIP"} /\ \A f \in DOMAIN zero : zero[f] # Null
  BY PlainValues, NoNullIn
<1> HIDE DEF zero, w
<1>3. NoNulls(all) /\ DOMAIN all = {"type", "clusterIP"}
  BY <1>2, CopyNoNulls DEF Sound
<1>4. List(o, "ports") \in Seq(Element) /\ \A p \in Range(List(o, "ports")) : Sprint(p) \in Scalar
  <2>1. CASE "ports" \in DOMAIN o
    BY <2>1, PortsTyped DEF List, Sound
  <2>2. CASE "ports" \notin DOMAIN o
    BY <2>2 DEF List, Range
  <2>3. QED
    BY <2>1, <2>2
<1>5. /\ ports # Null
      /\ \A p \in Range(ports) : HasShape(p, {"port", "protocol"}, {"name", "targetPort"})
  BY <1>4, PortsListed, NoNullIn
<1> HIDE DEF all, ports
<1>6. NoNulls(some) /\ DOMAIN some = {"ports"}
  BY <1>5 DEF NoNulls
<1>7. w.ports = ports
  BY <1>1, <1>3 DEF With
<1> HIDE DEF some
<1>8. NoNulls(w) /\ DOMAIN w = DOMAIN all \cup DOMAIN some
  BY <1>1, <1>3, <1>6, WithNoNulls
<1>9. Required["services"] = {"type", "clusterIP", "ports"}
  BY DEF Required
<1>10. HasShape(w, Required["services"], MayHave("services"))
  BY <1>3, <1>6, <1>8, <1>9 DEF HasShape, NoNulls
<1>11. ElementsFit("services", w)
  BY <1>5, <1>7 DEF ElementsFit
<1>12. QED
  BY <1>10, <1>11 DEF Fits, w

LEMMA IngressFits ==
    ASSUME NEW o, Sound("ingresses", o)
    PROVE  Fits("ingresses", Summary("ingresses", o))
<1> DEFINE hosts == [hosts |-> Hosts(o)]
           class == Optional(o, {"ingressClassName"})
           w == Summary("ingresses", o)
<1>1. w = With(hosts, class)
  BY DEF Summary, Ingress
<1>2. Hosts(o) # Null
  <2> DEFINE rules == List(o, "rules")
  <2>1. rules \in Rules \cup {<<>>}
    BY DEF List, Sound
  <2>2. Range(rules) \subseteq {Nothing, [host |-> "a"], [host |-> "b"]}
    BY <2>1 DEF Rules, Range
  <2> HIDE DEF rules
  <2>3. \A r \in Range(rules) : HostOf(r) \in {"a", "b", NoText}
    <3>1. HostOf(Nothing) = NoText
      BY DEF HostOf, Copy, Nothing
    <3>2. HostOf([host |-> "a"]) = "a" /\ HostOf([host |-> "b"]) = "b"
      BY DEF HostOf, Copy
    <3>3. QED
      BY <2>2, <3>1, <3>2
  <2>4. Hosts(o) = {HostOf(r) : r \in Range(rules)} \ {NoText}
    BY DEF Hosts, rules
  <2>5. Hosts(o) \in SUBSET {"a", "b"}
    BY <2>3, <2>4
  <2>6. QED
    BY <2>5, NullAssumption
<1> HIDE DEF w
<1>3. NoNulls(hosts) /\ DOMAIN hosts = {"hosts"}
  BY <1>2 DEF NoNulls
<1>4. NoNulls(class) /\ DOMAIN class = {"ingressClassName"} \cap DOMAIN o
  BY OptionalNoNulls DEF Sound
<1> HIDE DEF hosts, class
<1>5. NoNulls(w) /\ DOMAIN w = DOMAIN hosts \cup DOMAIN class
  BY <1>1, <1>3, <1>4, WithNoNulls
<1>6. /\ Required["ingresses"] = {"hosts"} /\ MayHave("ingresses") = {"ingressClassName"}
      /\ ElementsFit("ingresses", w)
  BY DEF Required, MayHave, ElementsFit
<1>7. QED
  BY <1>3, <1>4, <1>5, <1>6 DEF Fits, HasShape, NoNulls, w

LEMMA ClaimFits ==
    ASSUME NEW o, Sound("persistentvolumeclaims", o)
    PROVE  Fits("persistentvolumeclaims", Summary("persistentvolumeclaims", o))
<1> DEFINE zero == [phase |-> NoText, accessModes |-> Null]
           all == Copy(o, zero)
           some == Optional(o, {"capacity", "storageClassName"})
           w == Summary("persistentvolumeclaims", o)
<1>1. w = With(all, some)
  BY DEF Summary, Claim
<1>2. "accessModes" \in DOMAIN o /\ NoText # Null
  BY PlainValues, NoNullIn DEF Sound
<1>3. DOMAIN zero = {"phase", "accessModes"} /\ \A f \in DOMAIN zero : f \in DOMAIN o \/ zero[f] # Null
  BY <1>2
<1> HIDE DEF zero, w
<1>4. NoNulls(all) /\ DOMAIN all = {"phase", "accessModes"}
  BY <1>3, CopyNoNulls DEF Sound
<1>5. NoNulls(some) /\ DOMAIN some = {"capacity", "storageClassName"} \cap DOMAIN o
  BY OptionalNoNulls DEF Sound
<1> HIDE DEF all, some
<1>6. NoNulls(w) /\ DOMAIN w = DOMAIN all \cup DOMAIN some
  BY <1>1, <1>4, <1>5, WithNoNulls
<1>7. /\ Required["persistentvolumeclaims"] = {"phase", "accessModes"}
      /\ MayHave("persistentvolumeclaims") = {"capacity", "storageClassName"}
      /\ ElementsFit("persistentvolumeclaims", w)
  BY DEF Required, MayHave, ElementsFit
<1>8. QED
  BY <1>4, <1>5, <1>6, <1>7 DEF Fits, HasShape, NoNulls, w

LEMMA QuotaFits ==
    ASSUME NEW o, Sound("resourcequotas", o), "hard" \in DOMAIN o
    PROVE  Fits("resourcequotas", Summary("resourcequotas", o))
<1> DEFINE zero == [hard |-> Null, used |-> Null]
           w == Summary("resourcequotas", o)
<1>1. w = Copy(o, zero)
  BY DEF Summary, ResourceQuota
<1>2. DOMAIN zero = {"hard", "used"} /\ \A f \in DOMAIN zero : f \in DOMAIN o
  BY DEF Sound
<1> HIDE DEF zero
<1>3. NoNulls(w) /\ DOMAIN w = {"hard", "used"}
  BY <1>1, <1>2, CopyNoNulls DEF Sound
<1> HIDE DEF w
<1>4. /\ Required["resourcequotas"] = {"hard", "used"} /\ MayHave("resourcequotas") = {}
      /\ ElementsFit("resourcequotas", w)
  BY DEF Required, MayHave, ElementsFit
<1>5. QED
  BY <1>3, <1>4 DEF Fits, HasShape, NoNulls, w

LEMMA LimitRangeFits ==
    ASSUME NEW o, Sound("limitranges", o)
    PROVE  Fits("limitranges", Summary("limitranges", o))
<1> DEFINE items == Each(List(o, "limits"), LimitRangeItem)
           w == Summary("limitranges", o)
<1>1. w = [limits |-> items]
  BY DEF Summary, LimitRange
<1>2. List(o, "limits") \in Seq(Element)
  BY LimitsTyped DEF List, Sound
<1>3. /\ items # Null
      /\ \A l \in Range(items) : HasShape(l, {"type"}, {"default", "defaultRequest", "max", "min"})
  BY <1>2, LimitsListed, NoNullIn
<1> HIDE DEF items, w
<1>4. DOMAIN w = {"limits"} /\ w.limits = items
  BY <1>1
<1>5. Required["limitranges"] = {"limits"}
  BY DEF Required
<1>6. HasShape(w, Required["limitranges"], MayHave("limitranges")) /\ ElementsFit("limitranges", w)
  BY <1>3, <1>4, <1>5 DEF HasShape, ElementsFit
<1>7. QED
  BY <1>6 DEF Fits, w

LEMMA EventFits == ASSUME NEW o, Sound("events", o) PROVE Fits("events", Summary("events", o))
<1> DEFINE zero == [message |-> NoText, reason |-> NoText, type |-> NoText, count |-> 0,
                    lastTimestamp |-> NoText]
           fields == {"message", "reason", "type", "count", "lastTimestamp"}
           all == Copy(o, zero)
           involved == <<o.kind, o.name>>
           some == [involvedObject |-> involved]
           w == Summary("events", o)
<1>1. w = With(all, some)
  BY DEF Summary, Event
<1>2. NoText # Null /\ 0 # Null
  BY PlainValues, NoNullIn
<1>3. DOMAIN zero = fields /\ \A f \in DOMAIN zero : zero[f] # Null
  BY <1>2
<1>4. involved # Null
  <2>1. involved \in Seq(Scalar)
    BY DEF Sound
  <2> HIDE DEF involved
  <2>2. QED
    BY <2>1, NoNullIn
<1> HIDE DEF zero, w, involved
<1>5. NoNulls(all) /\ DOMAIN all = fields
  BY <1>3, CopyNoNulls DEF Sound
<1>6. NoNulls(some) /\ DOMAIN some = {"involvedObject"}
  BY <1>4 DEF NoNulls
<1> HIDE DEF all, some
<1>7. NoNulls(w) /\ DOMAIN w = DOMAIN all \cup DOMAIN some
  BY <1>1, <1>5, <1>6, WithNoNulls
<1>8. Required["events"] = fields \cup {"involvedObject"} /\ ElementsFit("events", w)
  BY DEF Required, ElementsFit
<1>9. QED
  BY <1>5, <1>6, <1>7, <1>8 DEF Fits, HasShape, NoNulls, w

\* Whatever kind of object it is, but a quota that nobody has counted.
LEMMA SummaryFits ==
    ASSUME NEW r \in Resources, NEW o, Sound(r, o), r = "resourcequotas" => "hard" \in DOMAIN o
    PROVE  Fits(r, Summary(r, o))
<1>1. \/ r \in {"deployments", "statefulsets", "daemonsets", "jobs"} \/ r = "cronjobs"
      \/ r = "pods" \/ r = "services" \/ r = "ingresses" \/ r = "persistentvolumeclaims"
      \/ r = "resourcequotas" \/ r = "limitranges" \/ r = "events"
  BY DEF Resources, Required
<1>2. QED
  BY <1>1, WorkloadFits, CronJobFits, PodFits, ServiceFits, IngressFits, ClaimFits, QuotaFits,
     LimitRangeFits, EventFits

\* A summary of its type can be drawn.
LEMMA FitsRenders ==
    ASSUME NEW r \in Resources, NEW w, Fits(r, w)
    PROVE  Renders(r, w)
<1>1. \A f \in Required[r] : w[f] # Null
  BY DEF Fits, HasShape
<1>2. /\ r = "pods" => "containers" \in Required[r]
      /\ r = "services" => "ports" \in Required[r]
      /\ r = "ingresses" => "hosts" \in Required[r]
      /\ r = "persistentvolumeclaims" => "accessModes" \in Required[r]
      /\ r = "resourcequotas" => "hard" \in Required[r] /\ "used" \in Required[r]
      /\ r = "limitranges" => "limits" \in Required[r]
  BY DEF Required
<1>3. QED
  BY <1>1, <1>2 DEF Renders

ObjectFits == resource \in Resources /\ Sound(resource, object)

LEMMA ObjectFitsAlways == Spec => []ObjectFits
<1>1. Init => ObjectFits
  BY AdmittedSound DEF Init, ObjectFits
<1>2. ObjectFits /\ [Next]_vars => ObjectFits'
  <2> SUFFICES ASSUME ObjectFits, [Next]_vars PROVE ObjectFits'
    OBVIOUS
  <2>1. CASE Report
    <3>1. PICK s \in Status(resource, object) :
            object' = With(s, IF resource \in DOMAIN Counters THEN Optional(object, {"replicas"})
                              ELSE object)
      BY <2>1 DEF Report
    <3>2. Sound(resource, object') /\ resource' = resource
      BY <2>1, <3>1, ReportSound DEF ObjectFits, Report
    <3>3. QED
      BY <3>2 DEF ObjectFits
  <2>2. CASE UNCHANGED <<resource, object>>
    BY <2>2 DEF ObjectFits
  <2>3. QED
    BY <2>1, <2>2 DEF Next, Fetch, AskLogs, vars
<1>3. QED
  BY <1>1, <1>2, PTL DEF Spec

\* Every summary has the type that the front end gives it, whenever it asks.
THEOREM SummariesTyped == Spec => []WireTyped
<1>1. Init => WireTyped
  BY DEF Init, NoRequest, WireTyped, Listed
<1>2. ObjectFits /\ WireTyped /\ [Next]_vars => WireTyped'
  <2> SUFFICES ASSUME ObjectFits, WireTyped, [Next]_vars PROVE WireTyped'
    OBVIOUS
  <2>1. CASE Report \/ UNCHANGED vars
    <3>1. resource' = resource /\ last' = last
      BY <2>1 DEF Report, vars
    <3>2. QED
      BY <3>1 DEF WireTyped, Listed, Uncounted
  <2>2. CASE Fetch
    <3>1. /\ last'.read = object /\ last'.result = Summary(resource, object) /\ resource' = resource
      BY <2>2 DEF Fetch
    <3>2. QED
      BY <3>1, SummaryFits DEF WireTyped, Uncounted, ObjectFits
  <2>3. ASSUME NEW q \in Queries, AskLogs(q) PROVE WireTyped'
    BY <2>3 DEF AskLogs, WireTyped, Listed
  <2>4. QED
    BY <2>1, <2>2, <2>3 DEF Next
<1>3. QED
  BY <1>1, <1>2, ObjectFitsAlways, PTL DEF Spec

\* No table throws, but that of a quota nobody has counted.
THEOREM TablesAlwaysRender == Spec => []TablesRender
<1>1. ObjectFits /\ WireTyped => TablesRender
  BY FitsRenders DEF ObjectFits, WireTyped, TablesRender
<1>2. QED
  BY <1>1, ObjectFitsAlways, SummariesTyped, PTL

============================================================================
