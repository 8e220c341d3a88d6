------------------------------ MODULE TaskStore ------------------------------
(***************************************************************************)
(* The in-memory job registry of modules/k8s_manager.py: _task_store,      *)
(* _task_cancel_events and the three private retry tables, each changed    *)
(* only inside a `with _task_lock` block.  This module holds the state and *)
(* one operator per critical section; Jobs.tla says which thread runs      *)
(* which section when.  The user and cluster tables of the database that   *)
(* the authorization calls reload are here too, because the sections are   *)
(* guarded by them.                                                        *)
(***************************************************************************)
EXTENDS Integers, FiniteSets

CONSTANTS
  Task,         \* job identifiers (uuid4 prefixes, never reused)
  Name,         \* cluster names (k8s_<n>)
  Fingerprint,  \* what _retry_resource_fingerprint can return for a row
  Legacy,       \* rows it refuses: an incomplete record gives no descriptor
  Actor,        \* teacher and admin accounts
  Admin,        \* the accounts whose role is admin
  Owner,        \* the teacher a row belongs to (part of its fingerprint)
  Operation,    \* the repeatable operations, _RETRY_ACTIONS
  Expire,       \* clock ticks after which an entry is older than 1800 s
  None          \* Python's None

Desc == [op : Operation, name : Name, fp : Fingerprint]

ASSUME StoreAssumption ==
  /\ None \notin Task /\ None \notin Name
  /\ None \notin Fingerprint /\ None \notin Actor /\ None \notin Desc
  /\ Legacy \subseteq Fingerprint
  /\ Admin \subseteq Actor
  /\ Owner \in [Fingerprint -> Actor]
  /\ Operation \subseteq {"deploy", "delete"}
  /\ Expire \in Nat \ {0}

VARIABLES
  store,      \* _task_store: task -> entry
  descr,      \* _task_retry_descriptions
  reserved,   \* _task_retry_reservations: parent -> child
  pending,    \* _task_retry_pending: parents with a submission in flight
  events,     \* keys of _task_cancel_events
  evset,      \* tasks whose create closure holds a set cancel event
  cluster,    \* rows of the clusters table, by name
  active      \* accounts that get_user reports as active

registry == <<store, descr, reserved, pending, events, evset>>
database == <<cluster, active>>

Live     == {"running", "cancelling"}
Terminal == {"completed", "error", "cancelled"}
Status   == {"absent"} \cup Live \cup Terminal

Entry == [status : Status, holders : SUBSET Actor, age : 0..Expire,
          retryOf : Task \cup {None}]
NoEntry == [status |-> "absent", holders |-> {}, age |-> 0, retryOf |-> None]


Row   == [fp : Fingerprint, ready : BOOLEAN]
NoRow == [fp |-> None, ready |-> FALSE]

StoreTypeOK ==
  /\ store    \in [Task -> Entry]
  /\ descr    \in [Task -> Desc \cup {None}]
  /\ reserved \in [Task -> Task \cup {None}]
  /\ pending  \subseteq Task
  /\ events   \subseteq Task
  /\ evset    \subseteq Task
  /\ cluster  \in [Name -> Row \cup {NoRow}]
  /\ active   \subseteq Actor

StoreInit ==
  /\ store    = [t \in Task |-> NoEntry]
  /\ descr    = [t \in Task |-> None]
  /\ reserved = [t \in Task |-> None]
  /\ pending  = {}
  /\ events   = {}
  /\ evset    = {}
  /\ cluster  \in [Name -> Row \cup {NoRow}]
  /\ active   = Actor

Present(t) == store[t].status # "absent"

-----------------------------------------------------------------------------
(* Authorization, as far as the registry depends on it: an active account  *)
(* that is an admin or one of the entry's created_by / owner_teacher_id.   *)

Holds(a, t)   == a \in Admin \/ a \in store[t].holders
CanTask(a, t) == a \in active /\ Holds(a, t)

CanCluster(a, n) ==
  /\ a \in active
  /\ cluster[n] # NoRow
  /\ a \in Admin \/ a = Owner[cluster[n].fp]

\* _authorize_retry_resource: permission first, then identity and readiness.
RetryResourceOk(a, d) ==
  /\ CanCluster(a, d.name)
  /\ cluster[d.name].fp = d.fp
  /\ d.op = "deploy" => cluster[d.name].ready

-----------------------------------------------------------------------------
(* The critical sections.                                                  *)

\* _update_task: overwrite the status, refresh updated_at, and create the
\* entry, without an owner, when there is none.
Updated(e, st, who, parent) ==
  [status  |-> st,
   holders |-> e.holders \cup who,
   age     |-> 0,
   retryOf |-> IF parent = None THEN e.retryOf ELSE parent]

PutTask(t, st, who, parent) ==
  store' = [store EXCEPT ![t] = Updated(@, st, who, parent)]

\* _append_log: refreshes updated_at of an entry that is still there.
AppendLog(t) ==
  store' = [store EXCEPT ![t].age = 0]

\* _remember_task_retry, called once the job's entry exists.
RememberRetry(t, d) ==
  descr' = IF Present(t) /\ d.fp \notin Legacy
           THEN [descr EXCEPT ![t] = d] ELSE descr

\* _cleanup_old_tasks.
BadProtected == pending  \* fault: the child of a submission is forgotten
Protected == pending \cup {reserved[p] : p \in {q \in pending : reserved[q] # None}}
Expired   == {t \in Task \ Protected : Present(t) /\ store[t].age = Expire}
Dropped   == {t \in Task \ Protected : ~Present(t)} \cup Expired

CleanupOldTasks ==
  /\ store'    = [t \in Task |-> IF t \in Expired THEN NoEntry ELSE store[t]]
  /\ events'   = events \ Expired
  /\ descr'    = [t \in Task |-> IF t \in Dropped THEN None ELSE descr[t]]
  /\ reserved' = [t \in Task |-> IF t \in Dropped THEN None ELSE reserved[t]]
  /\ UNCHANGED <<pending, evset>>

\* Faults: a job that ended is reopened; a job is reported cancelled at once.
BadCancelTask(t) ==
  /\ evset' = IF t \in events THEN evset \cup {t} ELSE evset
  /\ store' = [store EXCEPT ![t].status = "cancelling"]
  /\ UNCHANGED <<descr, reserved, pending, events>>
\* cancel_task, once the actor has been authorized on the entry.
CancelTask(t) ==
  /\ evset' = IF t \in events THEN evset \cup {t} ELSE evset
  /\ store' = IF store[t].status = "running"
              THEN [store EXCEPT ![t].status = "cancelling"] ELSE store
  /\ UNCHANGED <<descr, reserved, pending, events>>

\* The reservation block of retry_task.
BadRetryable(t) == store[t].status # "completed"  \* fault
Retryable(t) == store[t].status \in {"error", "cancelled"}

Reserve(parent, child) ==
  /\ reserved' = [reserved EXCEPT ![parent] = child]
  /\ pending'  = pending \cup {parent}
  /\ UNCHANGED <<store, descr, events, evset>>

\* The finally block of retry_task: release the submission and, when it was
\* not enqueued, everything that was written for the child.
BadReleaseAccepted(parent) ==  \* fault: protected for ever
  UNCHANGED <<store, descr, reserved, pending, events, evset>>
ReleaseAccepted(parent) ==
  /\ pending' = pending \ {parent}
  /\ UNCHANGED <<store, descr, reserved, events, evset>>

\* Faults: the reservation stays; the child's entry stays.
KeepReservation(parent, child) ==
  /\ pending' = pending \ {parent}
  /\ store'   = [store EXCEPT ![child] = NoEntry]
  /\ descr'   = [descr EXCEPT ![child] = None]
  /\ events'  = events \ {child}
  /\ UNCHANGED <<reserved, evset>>
KeepChildEntry(parent, child) ==
  /\ pending'  = pending \ {parent}
  /\ reserved' = [reserved EXCEPT ![parent] = None]
  /\ descr'    = [descr EXCEPT ![child] = None]
  /\ UNCHANGED <<store, events, evset>>

ReleaseFailed(parent, child) ==
  /\ pending' = pending \ {parent}
  /\ IF reserved[parent] = child
     THEN /\ reserved' = [reserved EXCEPT ![parent] = None]
          /\ store'    = [store EXCEPT ![child] = NoEntry]
          /\ descr'    = [descr EXCEPT ![child] = None]
          /\ events'   = events \ {child}
     ELSE UNCHANGED <<reserved, store, descr, events>>
  /\ UNCHANGED evset

\* time.time() advances: every entry gets one tick older.
TickStore ==
  store' = [t \in Task |->
              IF Present(t) /\ store[t].age < Expire
              THEN [store[t] EXCEPT !.age = @ + 1] ELSE store[t]]
=============================================================================
