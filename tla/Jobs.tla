--------------------------------- MODULE Jobs ---------------------------------
(***************************************************************************)
(* The threads of the job system: request threads that submit jobs         *)
(* (create/delete/deploy_cluster_async), retry failed ones (retry_task)    *)
(* and cancel them, and the queue workers of modules/task_queue.py that    *)
(* run them.  Each action is one stretch of code between two points where  *)
(* another thread can be seen: a _task_lock section or a database access.  *)
(***************************************************************************)
EXTENDS TaskStore, Sequences

CONSTANTS
  Caller,       \* request threads
  Queue,        \* "create", "delete", "deploy"
  Worker,       \* QueueWorker threads
  Serves,       \* the queue a worker was started for
  EnvRows,      \* rows that code outside the queues may leave in the table
  Revocable,    \* accounts an administrator may disable and enable
  Cancellers    \* accounts whose users press cancel

\* What the closure enqueued for a task has captured; a worker adds what it
\* reads before it decides to run a retry, and the row it then works on.
Kind  == {"plain", "retry", "create", "chain"}
Job == [kind : Kind, desc : Desc \cup {None}, actor : Actor,
        parent : Task \cup {None}, seen : Status, trusted : BOOLEAN,
        row : Row \cup {NoRow}]

ASSUME JobsAssumption ==
  /\ None \notin Job
  /\ Operation \subseteq Queue
  /\ "create" \in Queue => "deploy" \in Operation
  /\ Serves \in [Worker -> Queue]
  /\ EnvRows \subseteq Row \cup {NoRow}
  /\ Revocable \subseteq Actor /\ Cancellers \subseteq Actor

VARIABLES
  call,         \* control state and locals of each request thread
  job,          \* what the closure enqueued for a task has captured
  stage,        \* where a task is between its submission and its end
  queue,        \* the FIFO queues
  work,         \* the task each worker is running
  accepted,     \* history: <<parent, child>> pairs that retry_task enqueued
  asked,        \* history: tasks whose cancellation was acknowledged
  askedQueued   \* history: ... while they were retries waiting in a queue

threads == <<call, job, stage, queue, work>>
history == <<accepted, asked, askedQueued>>
vars == <<registry, database, threads, history>>

Stage == {"none", "claimed", "queued", "taken", "begun", "op", "done", "dropped"}

Submitting == {"submitted", "remembered"}
InFlight   == {"reserved", "rechecked", "bound", "published", "enqueued", "failing"}
CallerPc   == {"idle", "read", "cleanup"} \cup Submitting \cup InFlight
Call == [pc : CallerPc, task : Task \cup {None}, kid : Task \cup {None},
         desc : Desc \cup {None}, actor : Actor \cup {None}]
Idle == [pc |-> "idle", task |-> None, kid |-> None, desc |-> None, actor |-> None]

\* Closures are records; one with no operation of its own is blank.
Closure(k, d, a, p) ==
  [kind |-> k, desc |-> d, actor |-> a, parent |-> p,
   seen |-> "absent", trusted |-> FALSE, row |-> NoRow]

TypeOK ==
  /\ StoreTypeOK
  /\ call  \in [Caller -> Call]
  /\ job   \in [Task -> Job \cup {None}]
  /\ stage \in [Task -> Stage]
  /\ queue \in [Queue -> Seq(Task)]
  /\ work  \in [Worker -> Task \cup {None}]
  /\ accepted \subseteq Task \X Task
  /\ asked \subseteq Task
  /\ askedQueued \subseteq Task

Init ==
  /\ StoreInit
  /\ call  = [c \in Caller |-> Idle]
  /\ job   = [t \in Task |-> None]
  /\ stage = [t \in Task |-> "none"]
  /\ queue = [q \in Queue |-> <<>>]
  /\ work  = [w \in Worker |-> None]
  /\ accepted = {} /\ asked = {} /\ askedQueued = {}

Unused    == {t \in Task : stage[t] = "none"}
NewTaskId == CHOOSE t \in Unused : TRUE

Goto(c, pc)  == call' = [call EXCEPT ![c].pc = pc]
Hangup(c)    == call' = [call EXCEPT ![c] = Idle]
SetStage(t, s) == stage' = [stage EXCEPT ![t] = s]
Enqueue(q, t) == queue' = [queue EXCEPT ![q] = Append(@, t)]

QueueOf(t) == CASE job[t].kind = "create" -> "create"
                [] job[t].kind = "chain"  -> "deploy"
                [] OTHER                  -> job[t].desc.op

-----------------------------------------------------------------------------
(* delete_cluster_async and deploy_k8s_async.                              *)

Submit(c, a, op, n) ==
  LET t == NewTaskId
      d == [op |-> op, name |-> n, fp |-> cluster[n].fp]
  IN /\ call[c].pc = "idle" /\ Unused # {}
     /\ CanCluster(a, n)
     /\ PutTask(t, "running", {a, Owner[d.fp]}, None)
     /\ job'  = [job EXCEPT ![t] = Closure("plain", d, a, None)]
     /\ SetStage(t, "claimed")
     /\ call' = [call EXCEPT ![c] = [Idle EXCEPT !.pc = "submitted", !.task = t]]
     /\ UNCHANGED <<descr, reserved, pending, events, evset, database, queue, work, history>>

SubmitRemember(c) ==
  /\ call[c].pc = "submitted"
  /\ RememberRetry(call[c].task, job[call[c].task].desc)
  /\ Goto(c, "remembered")
  /\ UNCHANGED <<store, reserved, pending, events, evset, database, job, stage, queue, work, history>>

\* create_cluster_async has no retry description before the cluster exists.
SubmitCreate(c, a) ==
  LET t == NewTaskId
  IN /\ call[c].pc = "idle" /\ Unused # {}
     /\ "create" \in Queue /\ a \in active
     /\ PutTask(t, "running", {a}, None)
     /\ job'  = [job EXCEPT ![t] = Closure("create", None, a, None)]
     /\ SetStage(t, "claimed")
     /\ call' = [call EXCEPT ![c] = [Idle EXCEPT !.pc = "remembered", !.task = t]]
     /\ UNCHANGED <<descr, reserved, pending, events, evset, database, queue, work, history>>

SubmitEnqueue(c) ==
  LET t == call[c].task
  IN /\ call[c].pc = "remembered"
     /\ Enqueue(QueueOf(t), t)
     /\ SetStage(t, "queued")
     /\ Goto(c, "cleanup")
     /\ UNCHANGED <<registry, database, job, work, history>>

\* The _cleanup_old_tasks call that ends every submission.
CallerCleanup(c) ==
  /\ call[c].pc = "cleanup"
  /\ CleanupOldTasks
  /\ Hangup(c)
  /\ UNCHANGED <<database, job, stage, queue, work, history>>

-----------------------------------------------------------------------------
(* retry_task.  Early returns before the reservation change nothing.       *)

RetryRead(c, a, p) ==
  /\ call[c].pc = "idle"
  /\ Present(p) /\ CanTask(a, p)
  /\ descr[p] # None
  /\ RetryResourceOk(a, descr[p])
  /\ call' = [call EXCEPT ![c] = [pc |-> "read", task |-> p, kid |-> None,
                                  desc |-> descr[p], actor |-> a]]
  /\ UNCHANGED <<registry, database, job, stage, queue, work, history>>

\* The first locked block re-checks everything the lock did not cover.
BadMayReserve(c) ==  \* fault: an existing reservation is not looked at
  LET p == call[c].task
  IN Present(p) /\ Holds(call[c].actor, p) /\ Retryable(p) /\ descr[p] = call[c].desc

MayReserve(c) ==
  LET p == call[c].task
  IN /\ Present(p) /\ Holds(call[c].actor, p)
     /\ Retryable(p)
     /\ descr[p] = call[c].desc
     /\ reserved[p] = None

RetryReserve(c) ==
  /\ call[c].pc = "read" /\ Unused # {}
  /\ MayReserve(c)
  /\ Reserve(call[c].task, NewTaskId)
  /\ SetStage(NewTaskId, "claimed")
  /\ call' = [call EXCEPT ![c].pc = "reserved", ![c].kid = NewTaskId]
  /\ UNCHANGED <<database, job, queue, work, history>>

RetryRefused(c) ==
  /\ call[c].pc = "read"
  /\ ~MayReserve(c)
  /\ Hangup(c)
  /\ UNCHANGED <<registry, database, job, stage, queue, work, history>>

\* Outside the lock: the resource and the actor are loaded again.
RetryRecheck(c) ==
  /\ call[c].pc = "reserved"
  /\ Goto(c, IF RetryResourceOk(call[c].actor, call[c].desc)
                /\ CanTask(call[c].actor, call[c].task)
             THEN "rechecked" ELSE "failing")
  /\ UNCHANGED <<registry, database, job, stage, queue, work, history>>

\* The second locked block hands the description to the child.
MayBind(c) ==
  LET p == call[c].task
  IN /\ Present(p) /\ Holds(call[c].actor, p)
     /\ Retryable(p)
     /\ descr[p] = call[c].desc
     /\ reserved[p] = call[c].kid

RetryBind(c) ==
  /\ call[c].pc = "rechecked"
  /\ IF MayBind(c)
     THEN /\ descr' = [descr EXCEPT ![call[c].kid] = call[c].desc]
          /\ Goto(c, "bound")
     ELSE /\ UNCHANGED descr
          /\ Goto(c, "failing")
  /\ UNCHANGED <<store, reserved, pending, events, evset, database, job, stage, queue, work, history>>

RetryPublish(c) ==
  /\ call[c].pc = "bound"
  /\ PutTask(call[c].kid, "running", {call[c].actor, Owner[call[c].desc.fp]}, call[c].task)
  /\ Goto(c, "published")
  /\ UNCHANGED <<descr, reserved, pending, events, evset, database, job, stage, queue, work, history>>

BadRetryClosure(c) ==  \* fault: the description is made anew from the row
  Closure("retry", [call[c].desc EXCEPT !.fp = cluster[call[c].desc.name].fp],
          call[c].actor, call[c].task)
RetryClosure(c) == Closure("retry", call[c].desc, call[c].actor, call[c].task)

RetryEnqueue(c) ==
  LET p   == call[c].task
      kid == call[c].kid
  IN /\ call[c].pc = "published"
     /\ job' = [job EXCEPT ![kid] = RetryClosure(c)]
     /\ Enqueue(call[c].desc.op, kid)
     /\ SetStage(kid, "queued")
     /\ accepted' = accepted \cup {<<p, kid>>}
     /\ Goto(c, "enqueued")
     /\ UNCHANGED <<registry, database, work, asked, askedQueued>>

\* A database, callback or queue error at any point of the submission.
RetryFault(c) ==
  /\ call[c].pc \in {"reserved", "rechecked", "bound", "published"}
  /\ Goto(c, "failing")
  /\ UNCHANGED <<registry, database, job, stage, queue, work, history>>

RetryFinally(c) ==
  LET p   == call[c].task
      kid == call[c].kid
  IN \/ /\ call[c].pc = "enqueued"
        /\ ReleaseAccepted(p)
        /\ Goto(c, "cleanup")
        /\ UNCHANGED <<database, job, stage, queue, work, history>>
     \/ /\ call[c].pc = "failing"
        /\ ReleaseFailed(p, kid)
        /\ SetStage(kid, "dropped")
        /\ Hangup(c)
        /\ UNCHANGED <<database, job, queue, work, history>>

\* cancel_task from any account that may act on the entry.
Cancel(a, t) ==
  /\ Present(t) /\ CanTask(a, t)
  /\ CancelTask(t)
  /\ asked' = IF store[t].status \in Live THEN asked \cup {t} ELSE asked
  /\ askedQueued' = IF stage[t] = "queued" /\ job[t].kind = "retry"
                    THEN askedQueued \cup {t} ELSE askedQueued
  /\ UNCHANGED <<database, threads, accepted>>

-----------------------------------------------------------------------------
(* The queue workers.  A worker swallows whatever its task raises.         *)

\* queue.get and the first statements of the closure: a retry takes its
\* snapshot under the lock, every other job reports "running" at once.
BadDequeue(q) == UNCHANGED queue  \* fault: the task is only looked at
Dequeue(q)    == queue' = [queue EXCEPT ![q] = Tail(@)]

Take(w) ==
  LET q == Serves[w]
      t == Head(queue[q])
      k == job[t].kind
  IN /\ work[w] = None /\ queue[q] # <<>>
     /\ Dequeue(q)
     /\ work'  = [work EXCEPT ![w] = t]
     /\ SetStage(t, IF k = "retry" THEN "taken" ELSE "begun")
     /\ IF k = "retry"
        THEN /\ job' = [job EXCEPT ![t].seen = store[t].status,
                                   ![t].trusted = (descr[t] = job[t].desc)]
             /\ UNCHANGED store
        ELSE /\ PutTask(t, "running", {}, None)
             /\ UNCHANGED job
     /\ events' = IF k = "create" THEN events \cup {t} ELSE events
     /\ evset'  = IF k = "create" THEN evset \ {t} ELSE evset
     /\ UNCHANGED <<descr, reserved, pending, database, call, history>>

BadFinish(w, t) ==  \* fault: an exception ends the worker's loop
  SetStage(t, "done") /\ UNCHANGED work

Finish(w, t) ==
  /\ SetStage(t, "done")
  /\ work' = [work EXCEPT ![w] = None]

\* _run_retry_task reports an error only on an entry that still exists.
ReportRetryError(t) ==
  IF Present(t) THEN PutTask(t, "error", {}, None) ELSE UNCHANGED store

MayRunRetry(t) ==
  LET j == job[t]
  IN /\ j.actor \in active
     /\ j.seen # "absent" /\ j.trusted
     /\ Present(j.parent) => Holds(j.actor, j.parent)
     /\ RetryResourceOk(j.actor, j.desc)

BadShouldRun(t) == MayRunRetry(t) /\ job[t].seen \in Live  \* fault
ShouldRun(t)    == MayRunRetry(t) /\ job[t].seen = "running"

RetryDecide(w) ==
  LET t == work[w]
  IN /\ t # None /\ stage[t] = "taken"
     /\ \/ /\ ShouldRun(t)
           /\ PutTask(t, "running", {}, None)
           /\ SetStage(t, "begun")
           /\ UNCHANGED work
        \/ /\ MayRunRetry(t) /\ job[t].seen \in {"cancelling", "cancelled"}
           /\ PutTask(t, "cancelled", {}, None)
           /\ Finish(w, t)
        \/ /\ ~MayRunRetry(t) \/ job[t].seen \notin {"running", "cancelling", "cancelled"}
           /\ ReportRetryError(t)
           /\ Finish(w, t)
     /\ UNCHANGED <<descr, reserved, pending, events, evset, database, call, job, queue, history>>

\* create_cluster, delete_cluster and deploy_k8s authorize again and load
\* the row they then work on.
OpStart(w) ==
  LET t == work[w]
      j == job[t]
  IN /\ t # None /\ stage[t] = "begun"
     /\ IF j.kind = "create"
        THEN /\ j.actor \in active
             /\ UNCHANGED job
        ELSE /\ CanCluster(j.actor, j.desc.name)
             /\ j.desc.op = "deploy" => cluster[j.desc.name].ready
             /\ job' = [job EXCEPT ![t].row = cluster[j.desc.name]]
     /\ SetStage(t, "op")
     /\ UNCHANGED <<registry, database, call, queue, work, history>>

\* The status and log callbacks of a running operation.
Progress(w) ==
  LET t == work[w]
  IN /\ t # None /\ stage[t] = "op"
     /\ PutTask(t, "running", {}, None) \/ (Present(t) /\ AppendLog(t))
     /\ UNCHANGED <<descr, reserved, pending, events, evset, database, threads, history>>

OpSucceed(w) ==
  LET t == work[w]
      n == job[t].desc.name
  IN /\ t # None /\ stage[t] = "op" /\ job[t].kind # "create"
     /\ cluster' = [cluster EXCEPT ![n] =
                      IF job[t].desc.op = "delete" THEN NoRow ELSE job[t].row]
     /\ PutTask(t, "completed", {}, None)
     /\ Finish(w, t)
     /\ UNCHANGED <<descr, reserved, pending, events, evset, active, call, job, queue, history>>

\* A finished create records the deployment it can be retried as and queues
\* it under the same task id; the cancel event is unregistered.
CreateSucceed(w, n, r) ==
  LET t == work[w]
      d == [op |-> "deploy", name |-> n, fp |-> r.fp]
  IN /\ t # None /\ stage[t] = "op" /\ job[t].kind = "create"
     /\ cluster[n] = NoRow /\ r.ready
     /\ cluster' = [cluster EXCEPT ![n] = r]
     /\ RememberRetry(t, d)
     /\ IF Present(t) THEN AppendLog(t) ELSE UNCHANGED store
     /\ job' = [job EXCEPT ![t] = Closure("chain", d, job[t].actor, None)]
     /\ Enqueue("deploy", t)
     /\ SetStage(t, "queued")
     /\ work' = [work EXCEPT ![w] = None]
     /\ events' = events \ {t}
     /\ UNCHANGED <<reserved, pending, evset, active, call, history>>

\* What a failed operation may leave behind in the clusters table.
Leftover(t) ==
  CASE job[t].kind = "create" ->
         {cluster} \cup {[cluster EXCEPT ![n] = r] :
                           n \in {m \in Name : cluster[m] = NoRow},
                           r \in {x \in Row : ~x.ready}}
    [] job[t].kind # "create" /\ stage[t] = "op" /\ job[t].desc.op = "deploy" ->
         {cluster, [cluster EXCEPT ![job[t].desc.name] = job[t].row]}
    [] OTHER -> {cluster}

FailStatus(t) ==
  IF job[t].kind \in {"create", "chain"} /\ t \in evset THEN "cancelled" ELSE "error"

OpFail(w) ==
  LET t == work[w]
      k == job[t].kind
  IN /\ t # None /\ stage[t] \in {"begun", "op"}
     /\ cluster' \in Leftover(t)
     /\ IF k = "retry" THEN ReportRetryError(t)
                       ELSE PutTask(t, FailStatus(t), {}, None)
     /\ Finish(w, t)
     /\ events' = IF k = "create" THEN events \ {t} ELSE events
     /\ UNCHANGED <<descr, reserved, pending, evset, active, call, job, queue, history>>

-----------------------------------------------------------------------------
(* Everything else: other code writes the clusters table, an administrator *)
(* disables or enables an account, time passes.                            *)

ChangeRow(n, r) ==
  /\ cluster' = [cluster EXCEPT ![n] = r]
  /\ UNCHANGED <<registry, active, threads, history>>

ToggleActor(a) ==
  /\ active' = IF a \in active THEN active \ {a} ELSE active \cup {a}
  /\ UNCHANGED <<registry, cluster, threads, history>>

Tick ==
  /\ TickStore
  /\ UNCHANGED <<descr, reserved, pending, events, evset, database, threads, history>>

-----------------------------------------------------------------------------
RetryStep(c) ==
  \/ RetryReserve(c) \/ RetryRefused(c) \/ RetryRecheck(c) \/ RetryBind(c)
  \/ RetryPublish(c) \/ RetryEnqueue(c) \/ RetryFinally(c)

CallerStep(c) ==
  \/ SubmitRemember(c) \/ SubmitEnqueue(c) \/ CallerCleanup(c) \/ RetryStep(c)

Request(c) ==
  \/ \E a \in Actor : SubmitCreate(c, a)
  \/ \E a \in Actor, op \in Operation, n \in Name : Submit(c, a, op, n)
  \/ \E a \in Actor, p \in Task : RetryRead(c, a, p)

WorkerStep(w) ==
  \/ Take(w) \/ RetryDecide(w) \/ OpStart(w) \/ OpSucceed(w) \/ OpFail(w)
  \/ \E n \in Name, r \in Row : CreateSucceed(w, n, r)

Environment ==
  \/ \E n \in Name, r \in EnvRows : ChangeRow(n, r)
  \/ \E a \in Revocable : ToggleActor(a)
  \/ \E a \in Cancellers, t \in Task : Cancel(a, t)
  \/ Tick

Next ==
  \/ \E c \in Caller : Request(c) \/ CallerStep(c) \/ RetryFault(c)
  \/ \E w \in Worker : WorkerStep(w) \/ Progress(w)
  \/ Environment

\* Threads that have work go on; operations have timeouts and so end; nobody
\* has to submit, retry or cancel.
Fairness ==
  /\ \A c \in Caller : WF_vars(CallerStep(c))
  /\ \A w \in Worker : WF_vars(WorkerStep(w))

Spec == Init /\ [][Next]_vars /\ Fairness
-----------------------------------------------------------------------------
(* Safety.                                                                 *)

\* However many requests race, and whatever expires meanwhile, a failed job
\* gets at most one accepted retry for ever (retry_task, _cleanup_old_tasks).
OneChildPerParent ==
  \A e1, e2 \in accepted : e1[1] = e2[1] => e1 = e2

\* A retry repeats the very operation of its parent, on the same resource
\* identity, and a job whose creation failed is never a parent.
RetryRepeatsParent ==
  \A e \in accepted :
    /\ job[e[1]].kind # "create"
    /\ job[e[2]].desc = job[e[1]].desc
    /\ job[e[2]].parent = e[1]

\* A cleanup run by another request never takes the records of a submission
\* in flight: "Protect a parent and its child only while a submission is in
\* flight" (_cleanup_old_tasks).
SubmissionSurvivesCleanup ==
  \A c \in Caller : call[c].pc \in {"bound", "published", "enqueued"} =>
    /\ Present(call[c].task)
    /\ reserved[call[c].task] = call[c].kid
    /\ descr[call[c].kid] = call[c].desc
    /\ call[c].pc = "published" => Present(call[c].kid)

\* A reservation blocks its parent only for a child that was enqueued or is
\* still being submitted: a failed submission leaves the parent retryable.
NoStrandedReservation ==
  \A p \in Task : reserved[p] # None =>
    \/ <<p, reserved[p]>> \in accepted
    \/ p \in pending /\ \E c \in Caller : /\ call[c].pc \in InFlight
                                         /\ call[c].task = p

\* No job is shown as running or cancelling when nothing will run it.
NoStuckJob ==
  \A t \in Task : store[t].status \in Live =>
    \/ stage[t] \in {"queued", "taken", "begun", "op"}
    \/ \E c \in Caller : call[c].pc \in Submitting \cup InFlight
                       /\ t \in {call[c].task, call[c].kid}

\* A retry whose cancellation was acknowledged while it waited in its queue
\* is never run (_run_retry_task).
QueuedRetryCancelHolds ==
  \A t \in askedQueued : stage[t] \notin {"begun", "op"}

\* A job ends as cancelled only when a cancellation was acknowledged.
CancelledWasAsked ==
  \A t \in Task : store[t].status = "cancelled" => t \in asked

\* A cancellation means what its answer says, whenever it comes: both of the above.
CancellationHolds == QueuedRetryCancelHolds /\ CancelledWasAsked

\* Two workers never run the same job, and a queue holds a job once.
JobRunsOnce ==
  /\ \A v, w \in Worker : work[v] # None /\ work[v] = work[w] => v = w
  /\ \A w \in Worker : work[w] # None => stage[work[w]] \in {"taken", "begun", "op"}
  /\ \A q \in Queue : \A i, j \in 1..Len(queue[q]) :
       /\ stage[queue[q][i]] = "queued"
       /\ queue[q][i] = queue[q][j] => i = j

(* Action properties.                                                      *)

\* A job that ended keeps its outcome until its entry expires: a retry never
\* modifies its parent ("without modifying its parent job", retry_task) and
\* no late callback reopens it.
OutcomeIsFinal ==
  [][\A t \in Task : store[t].status \in Terminal
        => store'[t].status \in {store[t].status, "absent"}]_vars

(* Liveness.                                                               *)

\* "finally in retry_task always releases this short-lived protection".
ProtectionIsReleased ==
  \A p \in Task : p \in pending ~> p \notin pending

-----------------------------------------------------------------------------
(* What callers of the job system may rely on is RetryContract; its state  *)
(* is read off the stages and the accepted retries.                        *)

StartedJobs == {t \in Task : stage[t] \in {"queued", "taken", "begun", "op", "done"}}
EndedJobs   == {t \in Task : stage[t] = "done"}

Contract == INSTANCE RetryContract
            WITH started <- StartedJobs, ended <- EndedJobs, retries <- accepted

\* No interleaving of threads, lock sections and expiry shows a caller a
\* step the contract does not allow (retry_task, QueueWorker.run), and under the
\* fairness of the threads every started job ends.
ImplementsContract == Contract!Spec
=============================================================================
