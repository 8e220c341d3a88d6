-------------------------------- MODULE Policy --------------------------------
(***************************************************************************)
(* The authorization policy of modules/authz.py: a pure function of an     *)
(* account, an action and the resource it is asked for.  An account is a   *)
(* record [id, role, active]; a resource is a record that has those of the *)
(* fields created_by, group_id, owner_user_id and owner_teacher_id that    *)
(* the action asks about.                                                  *)
(***************************************************************************)
CONSTANT None  \* a missing id

TeacherUnscoped == {"provider.read", "cluster.list", "cluster.create"}
ClusterOwner    == {"cluster.read", "cluster.delete", "cluster.deploy", "cluster.vm_action",
                    "webssh.connect"}
TaskActions     == {"task.read", "task.cancel", "task.retry"}
StudentGroup    == {"cluster.read", "cluster.vm_action", "webssh.connect"}
KnownActions    == TeacherUnscoped \cup ClusterOwner \cup TaskActions \cup
                   {"provider.write", "webssh.terminate_own", "webssh.observe",
                    "admin.compensate"}

\* _ids_equal: a missing id equals nothing, not even another missing one.
SameId(left, right) == left # None /\ left = right

TeacherMay(user, action, resource) ==
  \/ action \in TeacherUnscoped
  \/ action \in ClusterOwner /\ SameId(resource.created_by, user.id)
  \/ action = "webssh.terminate_own" /\ SameId(resource.owner_user_id, user.id)
  \/ action = "webssh.observe" /\ SameId(resource.owner_teacher_id, user.id)
  \/ action \in TaskActions /\ \/ SameId(resource.created_by, user.id)
                               \/ SameId(resource.owner_teacher_id, user.id)

StudentMay(user, action, resource, groups) ==
  \/ action = "cluster.list"
  \/ action \in StudentGroup /\ \E g \in groups : SameId(resource.group_id, g)
  \/ action = "webssh.terminate_own" /\ SameId(resource.owner_user_id, user.id)
  \/ action \in TaskActions /\ SameId(resource.created_by, user.id)

IsAllowed(user, action, resource, groups) ==
  /\ action \in KnownActions /\ user.active
  /\ \/ user.role = "admin"
     \/ user.role = "teacher" /\ TeacherMay(user, action, resource)
     \/ user.role = "student" /\ StudentMay(user, action, resource, groups)
===============================================================================
