------------------------------- MODULE MCJobs -------------------------------
(* Small instances of Jobs for TLC. *)
EXTENDS JobsInvariant, TLC

CONSTANTS f1, f2, teacher, wCreate, wDelete, wDeploy, wDeploy2

OwnerOf == [f \in Fingerprint |-> teacher]

\* Rows that code outside the queues may put into the table: none, the same
\* cluster again, or a cluster with another identity under the same name.
RowsReused == {NoRow, [fp |-> f2, ready |-> TRUE]}

DeployOnly  == [w \in {wDeploy} |-> "deploy"]
DeployPool  == [w \in {wDeploy, wDeploy2} |-> "deploy"]
DeleteOnly  == [w \in {wDelete} |-> "delete"]
ServesChain == (wCreate :> "create") @@ (wDeploy :> "deploy")

CallerSymmetry == Permutations(Caller)
=============================================================================
