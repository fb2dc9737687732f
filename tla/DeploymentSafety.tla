-------------------------- MODULE DeploymentSafety --------------------------
(***************************************************************************)
(* What an operator may rely on during upgrades and outages.               *)
(***************************************************************************)
EXTENDS Deployment

\* The environment names the provider and the store and is complete, with no
\* value that is read as another.
Sound(env) ==
    /\ \A v \in Required : env[v] # ""
    /\ env.key = "good" /\ env.issuer = "right" /\ env.redis = "right"
    /\ env.external = "http" => env.insecure = "true"
    /\ env.tls # "junk" /\ env.insecure # "junk"
    /\ CASE StoreTLS = "none" -> env.tls # "true"
         [] StoreTLS = "system" -> env.tls = "true" /\ env.ca = ""
         [] StoreTLS = "custom" -> env.tls = "true" /\ env.ca = "usable"

\* A pod in rotation has been given everything it needs, and was checked before
\* it could take the place of another (config.go, "missing required values fail
\* startup"; redis_tls.go, "never a silent fallback"; oidc.go, NewHandler fails
\* without discovery; health.go, readyzHandler).
ServesSoundly == \A p \in Pods : pod[p].ready => Sound(pod[p].env)

\* operations.md:37-38, a rolling upgrade "never drops below the configured
\* replica count": whatever the new pods are given, only a crash or a store that
\* does not answer, and never the provider, takes a pod that is missed out of
\* rotation.
AvailabilityKept ==
    [][Cardinality(Ready) <= Replicas =>
         \A p \in Ready : pod'[p].ready \/ pod'[p].exit = "crashed" \/ ~store]_vars

\* A pod outlasts an outage of the store by itself (health.go:15-17): once the
\* store answers for good, every pod that is up and whose environment reaches it
\* gets back into rotation, unless it is replaced or crashes, and this without the
\* provider, which it would need if it had been restarted meanwhile.
RejoinsAlone ==
    <>[]store => \A p \in Pods :
        pod[p].pc = "serving" /\ Reaches(pod[p].env) ~>
            \/ pod[p].ready
            \/ pod[p].pc \in {"none", "draining"}
            \/ pod[p].pc = "starting" /\ pod[p].exit = "crashed"

RolledOut == \A p \in Active : pod[p].env = rev

\* Store and provider stay, nothing crashes, and the last upgrade made sense.
Calm ==
    /\ <>[](store /\ provider /\ Sound(rev))
    /\ <>[][\A p \in Pods : ~Crash(p)]_vars
    /\ <>[][rev' = rev]_vars

\* After any upgrades and outages the Deployment ends with its replicas, all of
\* the last environment, in rotation (health.go, "reachable right now").
Recovers == Calm => <>[](RolledOut /\ Cardinality(Ready) = Replicas)

\* A user who keeps loading the page gets a whole one in the end: a script that
\* was asked of a pod with another build, and came back as index.html
\* (handler.go), is not the last word.
PageLoads ==
    Calm /\ []<><<\E p \in Pods : GetIndex(p)>>_vars => <>(page.state = "whole")
=============================================================================
