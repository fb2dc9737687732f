-------------------------- MODULE DeploymentProofs --------------------------
(***************************************************************************)
(* Theorems about upgrades and outages, for any number of pods and         *)
(* replicas, any environments and any threshold of the probes.             *)
(***************************************************************************)
EXTENDS DeploymentSafety, FiniteSetTheorems, TLAPS

\* What a pod's environment has been through by the time the pod serves.
Started(env) == Loads(env) /\ BuildRedisTLSConfig(env) # "error" /\ env.issuer = "right"

PodSound(r) ==
    /\ r.missed < FailureThreshold /\ r.dead < FailureThreshold
    /\ r.pc = "serving" => Started(r.env)
    /\ r.ready => r.pc = "serving" /\ Reaches(r.env)

PodsSound == \A p \in Pods : PodSound(pod[p])

IInv == TypeOK /\ PodsSound

----------------------------------------------------------------------------
(* Environments                                                            *)

\* An environment that starts and reaches the store has nothing wrong with it.
LEMMA StartedIsSound ==
    ASSUME NEW env \in Environment, Started(env), Reaches(env)
    PROVE  Sound(env)
<1>1. /\ env.key \in {"", "good", "malformed"} /\ env.ca \in {"", "usable", "unusable"}
      /\ env.tls \in Bools /\ env.insecure \in Bools
  BY DEF Environment
<1>2. /\ \A v \in Required : env[v] # ""
      /\ env.insecure # "junk" /\ env.tls # "junk" /\ env.key # "malformed"
      /\ env.external = "http" => env.insecure = "true"
  BY DEF Started, Loads, True
<1>3. env.key = "good"
  BY <1>1, <1>2 DEF Required
<1>4. env.redis = "right" /\ env.issuer = "right" /\ BuildRedisTLSConfig(env) = StoreTLS
  BY DEF Reaches, Started
<1>5. /\ StoreTLS = "none" => env.tls # "true"
      /\ StoreTLS = "system" => env.tls = "true" /\ env.ca = ""
      /\ StoreTLS = "custom" => env.tls = "true" /\ env.ca = "usable"
  BY <1>1, <1>4 DEF BuildRedisTLSConfig, True
<1>6. QED
  BY <1>2, <1>3, <1>4, <1>5, ConfigAssumption DEF Sound

LEMMA EnvTyped == ASSUME NEW e \in Envs PROVE e \in Environment /\ e.image \in Images
BY DeploymentAssumption DEF Environment

----------------------------------------------------------------------------
(* The records                                                             *)

LEMMA NoPodTyped ==
    /\ NoPod \in Pod /\ PodSound(NoPod) /\ NoPod.exit = "none" /\ NoPod.ready = FALSE
<1>1. (CHOOSE e \in Envs : TRUE) \in Envs
  BY DeploymentAssumption
<1>2. QED
  BY <1>1, DeploymentAssumption DEF NoPod, Pod, PodSound

\* A container that is started, or told to stop, begins anew.
LEMMA FreshTyped ==
    ASSUME NEW pc \in {"starting", "draining"}, NEW env \in Envs,
           NEW r, r = [NoPod EXCEPT !.pc = pc, !.env = env] \/ r = [NoPod EXCEPT !.pc = pc]
    PROVE  r \in Pod /\ PodSound(r) /\ r.exit = "none"
<1>1. r.pc = pc /\ r.ready = FALSE /\ r.missed = 0 /\ r.dead = 0 /\ r.exit = "none"
  BY DEF NoPod
<1>2. r \in Pod
  BY NoPodTyped DEF Pod
<1>3. QED
  BY <1>1, <1>2, DeploymentAssumption DEF PodSound

LEMMA CrashedTyped ==
    ASSUME NEW env \in Envs, NEW r, r = [NoPod EXCEPT !.pc = "starting", !.env = env, !.exit = "crashed"]
    PROVE  r \in Pod /\ PodSound(r) /\ r.exit = "crashed"
<1>1. r.pc = "starting" /\ r.ready = FALSE /\ r.missed = 0 /\ r.dead = 0 /\ r.exit = "crashed"
  BY DEF NoPod
<1>2. r \in Pod
  BY NoPodTyped DEF Pod
<1>3. QED
  BY <1>1, <1>2, DeploymentAssumption DEF PodSound

LEMMA PodFields ==
    ASSUME NEW r \in Pod
    PROVE  /\ r.ready \in BOOLEAN /\ r.missed \in Nat /\ r.dead \in Nat /\ r.env \in Envs
           /\ r.exit \in {"none", "crashed", "killed"}
BY DeploymentAssumption DEF Pod

LEMMA ServingTyped ==
    ASSUME NEW r \in Pod, PodSound(r), r.pc = "starting", Started(r.env)
    PROVE  /\ [r EXCEPT !.pc = "serving"] \in Pod /\ PodSound([r EXCEPT !.pc = "serving"])
           /\ [r EXCEPT !.pc = "serving"].exit = r.exit
           /\ [r EXCEPT !.pc = "serving"].ready = r.ready
BY DEF Pod, PodSound

LEMMA AliveTyped ==
    ASSUME NEW r \in Pod, PodSound(r)
    PROVE  /\ [r EXCEPT !.dead = 0] \in Pod /\ PodSound([r EXCEPT !.dead = 0])
           /\ [r EXCEPT !.dead = 0].exit = r.exit
           /\ [r EXCEPT !.dead = 0].ready = r.ready
BY DeploymentAssumption DEF Pod, PodSound

\* A probe of a pod that serves, whose answer is ok.
LEMMA ProbedSound ==
    ASSUME NEW r \in Pod, PodSound(r), NEW t \in Pod,
           t.pc = r.pc, t.env = r.env, t.dead = r.dead, t.missed < FailureThreshold,
           t.ready => Reaches(r.env) /\ r.pc = "serving"
    PROVE  PodSound(t)
BY Zenon DEF PodSound

----------------------------------------------------------------------------
(* One pod's step                                                          *)

\* The step of a pod that becomes r: nothing was killed, and a pod that is
\* missed stays in rotation unless it crashed or the store is away.
Becomes(p, r) ==
    /\ pod' = [pod EXCEPT ![p] = r]
    /\ r \in Pod /\ PodSound(r)
    /\ r.exit = "killed" => pod[p].exit = "killed"
    /\ Cardinality(Ready) <= Replicas /\ pod[p].ready => r.ready \/ r.exit = "crashed" \/ ~store

LEMMA CountsTyped == Cardinality(Ready) \in Nat /\ Replicas \in Nat
<1>1. Ready \subseteq Pods
  BY DEF Ready
<1>2. QED
  BY <1>1, FS_Subset, FS_CardinalityType, DeploymentAssumption

LEMMA PodStep ==
    ASSUME IInv, NEW p \in Pods, Kubelet(p) \/ Create(p) \/ Terminate(p) \/ Crash(p)
    PROVE  \E r : Becomes(p, r)
<1>0. pod \in [Pods -> Pod] /\ pod[p] \in Pod /\ PodSound(pod[p]) /\ rev \in Envs
  BY DEF IInv, TypeOK, PodsSound
<1>a. pod[p].env \in Envs /\ pod[p].ready \in BOOLEAN
  BY <1>0, PodFields
<1>b. pod[p].ready => pod[p].pc = "serving" /\ Reaches(pod[p].env)
  BY <1>0 DEF PodSound
<1>1. CASE Create(p)
  <2> DEFINE r == [NoPod EXCEPT !.pc = "starting", !.env = rev]
  <2>1. r \in Pod /\ PodSound(r) /\ r.exit = "none"
    BY <1>0, FreshTyped
  <2>2. pod' = [pod EXCEPT ![p] = r] /\ ~pod[p].ready
    BY <1>1, <1>b DEF Create
  <2> HIDE DEF r
  <2>3. QED
    BY <2>1, <2>2 DEF Becomes
<1>2. CASE Terminate(p)
  <2> DEFINE r == [NoPod EXCEPT !.pc = "draining"]
  <2>1. r \in Pod /\ PodSound(r) /\ r.exit = "none"
    BY <1>0, FreshTyped
  <2>2. pod' = [pod EXCEPT ![p] = r] /\ (pod[p].ready => Cardinality(Ready) > Replicas)
    BY <1>2 DEF Terminate, Ready
  <2>3. Cardinality(Ready) > Replicas => ~(Cardinality(Ready) <= Replicas)
    BY CountsTyped
  <2> HIDE DEF r
  <2>4. QED
    BY <2>1, <2>2, <2>3 DEF Becomes
<1>3. CASE Stop(p)
  BY <1>3, <1>b, NoPodTyped DEF Stop, Becomes
<1>4. CASE Boot(p)
  <2> DEFINE r == [pod[p] EXCEPT !.pc = "serving"]
  <2>1. Started(pod[p].env) /\ pod[p].pc = "starting"
    BY <1>4 DEF Boot, StartsUp, Started
  <2>2. r \in Pod /\ PodSound(r) /\ r.exit = pod[p].exit /\ r.ready = pod[p].ready
    BY <1>0, <2>1, ServingTyped
  <2>3. pod' = [pod EXCEPT ![p] = r]
    BY <1>0, <1>4 DEF Boot
  <2> HIDE DEF r
  <2>4. QED
    BY <2>2, <2>3 DEF Becomes
<1>5. CASE Crash(p)
  <2> DEFINE r == [NoPod EXCEPT !.pc = "starting", !.env = pod[p].env, !.exit = "crashed"]
  <2>1. r \in Pod /\ PodSound(r) /\ r.exit = "crashed"
    BY <1>a, CrashedTyped
  <2>2. pod' = [pod EXCEPT ![p] = r]
    BY <1>5 DEF Crash, Restart
  <2> HIDE DEF r
  <2>3. QED
    BY <2>1, <2>2 DEF Becomes
<1>6. CASE LivenessProbe(p)
  <2> DEFINE r == [pod[p] EXCEPT !.dead = 0]
  <2>1. r \in Pod /\ PodSound(r) /\ r.exit = pod[p].exit /\ r.ready = pod[p].ready
    BY <1>0, AliveTyped
  <2>2. pod' = [pod EXCEPT ![p] = r]
    BY <1>0, <1>6 DEF LivenessProbe, Alive
  <2> HIDE DEF r
  <2>3. QED
    BY <2>1, <2>2 DEF Becomes
<1>7. CASE ReadinessProbe(p)
  <2> DEFINE ok == Pings(p)
             out == pod[p].missed + 1 = FailureThreshold
             ready == ok \/ (pod[p].ready /\ ~out)
             missed == IF ok \/ ~pod[p].ready \/ out THEN 0 ELSE pod[p].missed + 1
             r == [pod[p] EXCEPT !.ready = ready, !.missed = missed]
  <2>1. pod[p].pc = "serving" /\ ok \in BOOLEAN /\ (ok => Reaches(pod[p].env)) /\ ready \in BOOLEAN
    BY <1>7, Zenon DEF ReadinessProbe, Pings, Reaches
  <2>2. missed \in 0..(FailureThreshold - 1)
    <3>1. pod[p].missed \in Nat /\ pod[p].missed < FailureThreshold
      BY <1>0, PodFields DEF PodSound
    <3>2. QED
      BY <3>1, DeploymentAssumption
  <2>3. pod' = [pod EXCEPT ![p] = r]
    BY <1>0, <1>7 DEF ReadinessProbe, Readiness
  <2>4. ready => Reaches(pod[p].env) /\ pod[p].pc = "serving"
    BY <1>b, <2>1, Zenon
  <2>5. store /\ pod[p].ready => ready
    BY <1>b DEF Pings
  <2>6. missed \in 0..FailureThreshold /\ missed < FailureThreshold
    BY <2>2, DeploymentAssumption
  <2> HIDE DEF ok, out, ready, missed
  <2>7. /\ r \in Pod /\ r.ready = ready /\ r.missed = missed
        /\ r.pc = pod[p].pc /\ r.env = pod[p].env /\ r.dead = pod[p].dead /\ r.exit = pod[p].exit
    <3>1. pod[p] \in Pod /\ ready \in BOOLEAN /\ missed \in 0..FailureThreshold
      BY <1>0, <2>1, <2>6
    <3>2. r \in Pod
      BY <3>1, Zenon DEF Pod
    <3>3. QED
      BY <3>1, <3>2, Zenon DEF Pod
  <2> HIDE DEF r
  <2>8. PodSound(r)
    BY <1>0, <2>4, <2>6, <2>7, ProbedSound
  <2>9. QED
    BY <2>3, <2>5, <2>7, <2>8 DEF Becomes
<1>8. QED
  BY <1>1, <1>2, <1>3, <1>4, <1>5, <1>6, <1>7 DEF Kubelet

----------------------------------------------------------------------------
(* The whole Deployment                                                    *)

\* Every step but an operator's, an outage's and a browser's is one pod's.
LEMMA Steps ==
    ASSUME IInv, [Next]_vars
    PROVE  \/ pod' = pod
           \/ rev' = rev /\ store' = store /\ provider' = provider /\ page' = page
              /\ \E p \in Pods : \E r : Becomes(p, r)
<1>1. ASSUME NEW p \in Pods, Kubelet(p) \/ Create(p) \/ Terminate(p) \/ Crash(p)
      PROVE  rev' = rev /\ store' = store /\ provider' = provider /\ page' = page
             /\ \E r : Becomes(p, r)
  <2>1. rev' = rev /\ store' = store /\ provider' = provider /\ page' = page
    BY <1>1 DEF Kubelet, Boot, Stop, ReadinessProbe, LivenessProbe, Create, Terminate, Crash
  <2>2. QED
    BY <1>1, <2>1, PodStep
<1>2. ASSUME NEW p \in Pods, GetIndex(p) \/ GetScript(p) PROVE pod' = pod
  BY <1>2 DEF GetIndex, GetScript
<1>3. ASSUME NEW e \in Envs, Upgrade(e) PROVE pod' = pod
  BY <1>3 DEF Upgrade
<1>4. ASSUME Outage PROVE pod' = pod
  BY <1>4 DEF Outage
<1>5. QED
  BY <1>1, <1>2, <1>3, <1>4 DEF Next, vars

Page == [state : {"none", "index", "whole", "broken"}, image : Images]

LEMMA PageTyped == TypeOK /\ [Next]_vars => page' \in Page
<1> SUFFICES ASSUME TypeOK, [Next]_vars PROVE page' \in Page
  OBVIOUS
<1>0. page \in Page
  BY DEF TypeOK, Page
<1>1. ASSUME NEW p \in Pods, GetIndex(p) PROVE page' \in Page
  <2>1. pod[p].env \in Envs
    BY PodFields DEF TypeOK
  <2>2. QED
    BY <1>1, <2>1, EnvTyped DEF GetIndex, Page
<1>2. ASSUME NEW p \in Pods, GetScript(p) PROVE page' \in Page
  BY <1>0, <1>2 DEF GetScript, Page
<1>3. ASSUME page' = page PROVE page' \in Page
  BY <1>0, <1>3
<1>4. QED
  BY <1>1, <1>2, <1>3
     DEF Next, Kubelet, Boot, Stop, ReadinessProbe, LivenessProbe, Create, Terminate, Crash, Upgrade,
         Outage, vars

LEMMA RestTyped == TypeOK /\ [Next]_vars => rev' \in Envs /\ store' \in BOOLEAN /\ provider' \in BOOLEAN
<1> SUFFICES ASSUME TypeOK, [Next]_vars
             PROVE  rev' \in Envs /\ store' \in BOOLEAN /\ provider' \in BOOLEAN
  OBVIOUS
<1>1. rev \in Envs /\ store \in BOOLEAN /\ provider \in BOOLEAN
  BY DEF TypeOK
<1>2. ASSUME NEW e \in Envs, Upgrade(e) PROVE rev' \in Envs /\ store' \in BOOLEAN /\ provider' \in BOOLEAN
  BY <1>1, <1>2 DEF Upgrade
<1>3. ASSUME Outage PROVE rev' \in Envs /\ store' \in BOOLEAN /\ provider' \in BOOLEAN
  BY <1>1, <1>3 DEF Outage
<1>4. ASSUME rev' = rev, store' = store, provider' = provider
      PROVE  rev' \in Envs /\ store' \in BOOLEAN /\ provider' \in BOOLEAN
  BY <1>1, <1>4
<1>5. QED
  BY <1>2, <1>3, <1>4
     DEF Next, Kubelet, Boot, Stop, ReadinessProbe, LivenessProbe, Create, Terminate, Crash, GetIndex,
         GetScript, vars

LEMMA DeploymentInit == Init => IInv
<1> SUFFICES ASSUME Init PROVE IInv
  OBVIOUS
<1>1. (CHOOSE i \in Images : TRUE) \in Images
  BY EnvTyped, DeploymentAssumption
<1>2. page \in Page
  BY <1>1 DEF Init, NoPage, Page
<1>3. QED
  BY <1>2, NoPodTyped DEF Init, IInv, TypeOK, Page, PodsSound

LEMMA DeploymentStep == IInv /\ [Next]_vars => IInv'
<1> SUFFICES ASSUME IInv, [Next]_vars PROVE IInv'
  OBVIOUS
<1>1. pod \in [Pods -> Pod] /\ PodsSound
  BY DEF IInv, TypeOK
<1>2. page' \in Page /\ rev' \in Envs /\ store' \in BOOLEAN /\ provider' \in BOOLEAN
  BY PageTyped, RestTyped DEF IInv
<1>3. pod' \in [Pods -> Pod] /\ \A p \in Pods : PodSound(pod'[p])
  <2>1. CASE pod' = pod
    BY <1>1, <2>1 DEF PodsSound
  <2>2. ASSUME NEW p \in Pods, NEW r, Becomes(p, r)
        PROVE  pod' \in [Pods -> Pod] /\ \A q \in Pods : PodSound(pod'[q])
    <3>1. pod' = [pod EXCEPT ![p] = r] /\ r \in Pod /\ PodSound(r)
      BY <2>2 DEF Becomes
    <3>2. ASSUME NEW q \in Pods PROVE pod'[q] = pod[q] \/ pod'[q] = r
      BY <1>1, <3>1
    <3>3. QED
      BY <1>1, <3>1, <3>2 DEF PodsSound
  <2>3. QED
    BY <2>1, <2>2, Steps
<1>4. QED
  BY <1>2, <1>3 DEF IInv, TypeOK, Page, PodsSound

LEMMA DeploymentInvariant == Spec => []IInv
BY DeploymentInit, DeploymentStep, PTL DEF Spec

\* Every pod, page and counter of the probes keeps its type.
THEOREM DeploymentTypeCorrect == Spec => []TypeOK
<1>1. IInv => TypeOK
  BY DEF IInv
<1>2. QED
  BY <1>1, DeploymentInvariant, PTL

\* Only pods with a sound environment are in rotation.
THEOREM OnlySoundPodsServe == Spec => []ServesSoundly
<1>1. IInv => ServesSoundly
  <2> SUFFICES ASSUME IInv, NEW p \in Pods, pod[p].ready PROVE Sound(pod[p].env)
    BY DEF ServesSoundly
  <2>1. Started(pod[p].env) /\ Reaches(pod[p].env)
    BY DEF IInv, PodsSound, PodSound
  <2>2. pod[p].env \in Environment
    BY PodFields, EnvTyped DEF IInv, TypeOK
  <2>3. QED
    BY <2>1, <2>2, StartedIsSound
<1>2. QED
  BY <1>1, DeploymentInvariant, PTL

\* What a step of one pod leaves of the others.
LEMMA OthersStay ==
    ASSUME IInv, NEW p \in Pods, NEW r, Becomes(p, r), NEW q \in Pods
    PROVE  pod'[q] = IF q = p THEN r ELSE pod[q]
BY DEF Becomes, IInv, TypeOK

\* A rolling update, whatever its environment, and an outage of the provider
\* take no pod that is missed out of rotation.
THEOREM AvailabilityIsKept == Spec => AvailabilityKept
<1> DEFINE Kept == Cardinality(Ready) <= Replicas =>
                     \A p \in Ready : pod'[p].ready \/ pod'[p].exit = "crashed" \/ ~store
<1>1. IInv /\ [Next]_vars => [Kept]_vars
  <2> SUFFICES ASSUME IInv, [Next]_vars, Cardinality(Ready) <= Replicas, NEW q \in Ready
               PROVE  pod'[q].ready \/ pod'[q].exit = "crashed" \/ ~store
    OBVIOUS
  <2>1. q \in Pods /\ pod[q].ready
    BY DEF Ready
  <2>2. ASSUME NEW p \in Pods, NEW r, Becomes(p, r)
        PROVE  pod'[q].ready \/ pod'[q].exit = "crashed" \/ ~store
    BY <2>1, <2>2, OthersStay DEF Becomes
  <2>3. QED
    BY <2>1, <2>2, Steps
<1>2. QED
  BY <1>1, DeploymentInvariant, PTL DEF Spec, AvailabilityKept
============================================================================
