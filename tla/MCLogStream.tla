---- MODULE MCLogStream ----
(* Model values for the runs of LogStream. *)
EXTENDS LogSafety, TLC

Symmetry == Permutations(Streams)
====
