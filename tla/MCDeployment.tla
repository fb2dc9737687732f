---------------------------- MODULE MCDeployment ----------------------------
EXTENDS DeploymentSafety

Good == [external |-> "https", insecure |-> "false", issuer |-> "right",
         client |-> "set", proxy |-> "set", redis |-> "right", tls |-> "true",
         ca |-> "usable", key |-> "good", image |-> "v2"]

\* The environment of the first installation, the next one, and what may be
\* wrong with it.
MCEnvs ==
    {[Good EXCEPT !.image = "v1"], Good,
     [Good EXCEPT !.external = "http"],
     [Good EXCEPT !.insecure = "junk"],
     [Good EXCEPT !.ca = ""],
     [Good EXCEPT !.ca = "unusable"],
     [Good EXCEPT !.client = ""],
     [Good EXCEPT !.issuer = "wrong"],
     [Good EXCEPT !.redis = "wrong"]}
=============================================================================
