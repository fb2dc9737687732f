-------------------------- MODULE MCNamespaceData --------------------------
(* NamespaceDataSafety on small instances, for TLC. *)
EXTENDS NamespaceDataSafety

App == [name |-> "app", image |-> "i1"]

Sidecar == [name |-> "sidecar", image |-> "i2"]

MCPodSpecs == {<<App>>, <<App, Sidecar>>}

\* In either order, and an image by another of its names.
MCReported ==
    [spec \in MCPodSpecs |->
        IF Len(spec) = 1 THEN {<<App>>, <<[App EXCEPT !.image = "i2"]>>}
        ELSE {<<App, Sidecar>>, <<Sidecar, App>>}]

\* Not positive, below both limits and above them.
MCNumbers == {-1, 0, 1, 4}
=============================================================================
