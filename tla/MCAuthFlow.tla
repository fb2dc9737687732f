---------------------------- MODULE MCAuthFlow ----------------------------
(* AuthSafety on small instances, for TLC. *)
EXTENDS AuthRefinement, TLC

Symmetry == Permutations(Browsers) \cup Permutations(Replicas)
    \cup Permutations(Requests) \cup Permutations(Codes)
    \cup Permutations(States) \cup Permutations(Sids)
===========================================================================
