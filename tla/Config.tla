------------------------------- MODULE Config -------------------------------
(***************************************************************************)
(* What a process makes of its environment before it serves: config.Load,  *)
(* BuildRedisTLSConfig and the rest of run.  A value is what it is checked *)
(* for, and "" is a variable that is not set.                              *)
(***************************************************************************)

CONSTANTS
    Images,
    StoreTLS      \* the TLS configuration that the store's certificate verifies with

ASSUME ConfigAssumption == StoreTLS \in {"none", "system", "custom"}

Bools == {"", "true", "false", "junk"}

\* external: "other" is any spelling but the two; issuer and redis: "wrong" is a
\* value that names no provider, or not the store.
Environment ==
    [external : {"", "https", "http", "other"}, insecure : Bools,
     issuer : {"", "right", "wrong"}, client : {"", "set"}, proxy : {"", "set"},
     redis : {"", "right", "wrong"}, tls : Bools, ca : {"", "usable", "unusable"},
     key : {"", "good", "malformed"}, image : Images]

Required == {"external", "issuer", "client", "redis", "proxy", "key"}

\* strconv.ParseBool, whose value is FALSE on an error.
True(v) == v = "true"

\* Bug: a bool that is none counts as false.
LoadsLeniently(env) ==
    /\ \A v \in Required : env[v] # ""
    /\ env.key # "malformed"
    /\ env.external = "http" => True(env.insecure)

\* Load: no error was collected.
Loads(env) ==
    /\ \A v \in Required : env[v] # ""
    /\ env.insecure # "junk" /\ env.tls # "junk"
    /\ env.key # "malformed"
    /\ env.external = "http" => True(env.insecure)

\* Bug: the file is not looked at.
IgnoresCA(env) == IF True(env.tls) THEN "system" ELSE "none"

BuildRedisTLSConfig(env) ==
    IF ~True(env.tls) THEN "none"
    ELSE CASE env.ca = "" -> "system"
           [] env.ca = "usable" -> "custom"
           [] env.ca = "unusable" -> "error"

\* The clients of the store and of the proxy connect when they are first used;
\* the provider is asked for its configuration at once.
StartsUp(env, provider) ==
    /\ Loads(env) /\ BuildRedisTLSConfig(env) # "error"
    /\ env.issuer = "right" /\ provider

\* Whether the store answers a process with this environment.
Reaches(env) == env.redis = "right" /\ BuildRedisTLSConfig(env) = StoreTLS
=============================================================================
