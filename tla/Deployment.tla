----------------------------- MODULE Deployment -----------------------------
(***************************************************************************)
(* The pods of a Deployment over upgrades and outages: start, probes,      *)
(* rolling updates, and what a browser gets that loads the page meanwhile. *)
(* The controllers of Kubernetes are modelled as the chart uses them.      *)
(***************************************************************************)
EXTENDS Config, Integers, FiniteSets

CONSTANTS
    Pods,
    Envs,              \* the environments the Deployment is given in turn
    Replicas,          \* replicaCount
    FailureThreshold   \* of both probes

ASSUME DeploymentAssumption ==
    /\ IsFiniteSet(Pods) /\ Replicas \in Nat
    /\ Envs \subseteq Environment /\ Envs # {}
    /\ FailureThreshold \in Nat \ {0}

VARIABLES
    rev,       \* the environment in the Deployment's pod template
    pod,
    store, provider,   \* whether the store and the provider answer
    page       \* a browser's page: the image of its index.html and its script's fate

vars == <<rev, pod, store, provider, page>>

NoPod == [pc |-> "none", env |-> CHOOSE e \in Envs : TRUE, ready |-> FALSE,
          missed |-> 0, dead |-> 0, exit |-> "none"]

\* missed and dead: the failures of the two probes in a row; exit: why the
\* container was last started again.
Pod == [pc : {"none", "starting", "serving", "draining"}, env : Envs, ready : BOOLEAN,
        missed : 0..FailureThreshold, dead : 0..FailureThreshold,
        exit : {"none", "crashed", "killed"}]

NoPage == [state |-> "none", image |-> CHOOSE i \in Images : TRUE]

TypeOK ==
    /\ rev \in Envs /\ store \in BOOLEAN /\ provider \in BOOLEAN
    /\ pod \in [Pods -> Pod]
    /\ page \in [state : {"none", "index", "whole", "broken"}, image : Images]

Init ==
    /\ rev \in Envs /\ store \in BOOLEAN /\ provider \in BOOLEAN
    /\ pod = [p \in Pods |-> NoPod]
    /\ page = NoPage

----------------------------------------------------------------------------
(* The rolling update, with maxUnavailable 0 and maxSurge 1                *)

Active == {p \in Pods : pod[p].pc \in {"starting", "serving"}}
Ready == {p \in Pods : pod[p].ready}
New == {p \in Active : pod[p].env = rev}

Create(p) ==
    /\ pod[p].pc = "none"
    /\ Cardinality(Active) <= Replicas /\ Cardinality(New) < Replicas
    /\ pod' = [pod EXCEPT ![p] = [NoPod EXCEPT !.pc = "starting", !.env = rev]]
    /\ UNCHANGED <<rev, store, provider, page>>

\* An old pod that is not ready, or whose place has been taken.
Terminate(p) ==
    /\ p \in Active \ New
    /\ Cardinality(Active) - Cardinality(New \ Ready) > Replicas
    /\ p \in Ready => Cardinality(Ready) > Replicas
    /\ pod' = [pod EXCEPT ![p] = [NoPod EXCEPT !.pc = "draining"]]
    /\ UNCHANGED <<rev, store, provider, page>>

\* ApiServer's Stop: after fifteen seconds at most.
Stop(p) ==
    /\ pod[p].pc = "draining"
    /\ pod' = [pod EXCEPT ![p] = NoPod]
    /\ UNCHANGED <<rev, store, provider, page>>

----------------------------------------------------------------------------
(* One pod                                                                 *)

\* run, up to ListenAndServe.  A process that fails exits, and is started again.
Boot(p) ==
    /\ pod[p].pc = "starting" /\ StartsUp(pod[p].env, provider)
    /\ pod' = [pod EXCEPT ![p].pc = "serving"]
    /\ UNCHANGED <<rev, store, provider, page>>

Restart(p, why) ==
    pod' = [pod EXCEPT ![p] = [NoPod EXCEPT !.pc = "starting", !.env = pod[p].env,
                                            !.exit = why]]

Crash(p) ==
    /\ pod[p].pc = "serving"
    /\ Restart(p, "crashed")
    /\ UNCHANGED <<rev, store, provider, page>>

\* Bug: readiness asks for the provider as well.
AsksProvider(p) == store /\ provider /\ Reaches(pod[p].env)

\* readyzHandler: a PING within two seconds.
Pings(p) == store /\ Reaches(pod[p].env)

\* Bug: failures do not count.
NeverOut(p, ok) ==
    pod' = [pod EXCEPT ![p].ready = @ \/ ok, ![p].missed = IF ok THEN 0 ELSE @ + 1]

\* Out of rotation after FailureThreshold failures in a row, in again at once.
Readiness(p, ok) ==
    LET out == pod[p].missed + 1 = FailureThreshold IN
    pod' = [pod EXCEPT
        ![p].ready = ok \/ (@ /\ ~out),
        ![p].missed = IF ok \/ ~pod[p].ready \/ out THEN 0 ELSE @ + 1]

ReadinessProbe(p) ==
    /\ pod[p].pc = "serving"
    /\ Readiness(p, Pings(p))
    /\ UNCHANGED <<rev, store, provider, page>>

\* Bug: liveness asks the store.
AliveWithStore(p) == Pings(p)

\* livezHandler
Alive(p) == TRUE

LivenessProbe(p) ==
    /\ pod[p].pc = "serving"
    /\ IF Alive(p) THEN pod' = [pod EXCEPT ![p].dead = 0]
       ELSE IF pod[p].dead + 1 < FailureThreshold
            THEN pod' = [pod EXCEPT ![p].dead = @ + 1]
            ELSE Restart(p, "killed")
    /\ UNCHANGED <<rev, store, provider, page>>

----------------------------------------------------------------------------
(* A page load, whose requests the Service gives to any ready pod          *)

\* Bug: every path is index.html.
NoFile(image, name) == "index"

\* HandlerFromFS: a built file, or else index.html.  The script's name has the
\* hash of its build.
Serves(image, name) == IF name \in {"index", image} THEN name ELSE "index"

GetIndex(p) ==
    /\ p \in Ready
    /\ page' = [state |-> "index", image |-> pod[p].env.image]
    /\ UNCHANGED <<rev, pod, store, provider>>

\* A browser runs no script that is a page of HTML.
GetScript(p) ==
    /\ p \in Ready /\ page.state = "index"
    /\ page' = [page EXCEPT !.state =
                  IF Serves(pod[p].env.image, page.image) = page.image
                  THEN "whole" ELSE "broken"]
    /\ UNCHANGED <<rev, pod, store, provider>>

----------------------------------------------------------------------------

Upgrade(e) ==
    /\ rev # e /\ rev' = e
    /\ UNCHANGED <<pod, store, provider, page>>

Outage ==
    /\ \/ store' = ~store /\ UNCHANGED provider
       \/ provider' = ~provider /\ UNCHANGED store
    /\ UNCHANGED <<rev, pod, page>>

Kubelet(p) == Boot(p) \/ Stop(p) \/ ReadinessProbe(p) \/ LivenessProbe(p)

Next ==
    \/ \E p \in Pods : Kubelet(p) \/ Create(p) \/ Terminate(p) \/ Crash(p)
                       \/ GetIndex(p) \/ GetScript(p)
    \/ \E e \in Envs : Upgrade(e)
    \/ Outage

Spec == Init /\ [][Next]_vars

\* Processes start and stop, probes are sent, controllers work and a browser
\* asks for the script of its page.  Nothing is assumed of outages and upgrades.
Fairness ==
    /\ \A p \in Pods : /\ WF_vars(Boot(p)) /\ WF_vars(Stop(p))
                       /\ WF_vars(ReadinessProbe(p)) /\ WF_vars(LivenessProbe(p))
    /\ WF_vars(\E p \in Pods : Create(p))
    /\ WF_vars(\E p \in Pods : Terminate(p))
    /\ WF_vars(\E p \in Pods : GetScript(p))

FairSpec == Spec /\ Fairness
=============================================================================
