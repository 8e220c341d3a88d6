---- MODULE MCClusterLifecycle ----
(* Constants for model checking ClusterLifecycle. *)
EXTENDS ClusterLifecycle, TLC

CONSTANTS c1, c2, c3, d1, d2, p1

OneCreator == {c1}
TwoCreators == {c1, c2}
ThreeCreators == {c1, c2, c3}
TwoDeleters == {d1, d2}
OneDeployer == {p1}
Nobody == {}
\* Requests of one kind, all of them queued, are interchangeable.
Symmetry == Permutations(ThreeCreators) \cup Permutations(TwoDeleters)

\* The failures of a creation: "config" stands for "router" and "busy" as well,
\* which end it at the same places.
MakingFaults == {"config", "cleanup", "pve", "clone_config", "ssh"}
\* A deletion may fail before, between and after its releases and the router's cleanup.
DeletingFaults == {"busy", "router", "db", "pve", "ssh"}
====
