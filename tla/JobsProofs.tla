------------------------------ MODULE JobsProofs ------------------------------
(***************************************************************************)
(* The safety of Jobs for every number of tasks, callers, workers and      *)
(* actors: IInv is inductive, and so are EndInv and RecordsInv with it.    *)
(* What the runs check follows from them, and so does the safety part of   *)
(* the contract.                                                           *)
(***************************************************************************)
EXTENDS JobsInvariant, TLAPS

-----------------------------------------------------------------------------
(* Facts about the state space.                                            *)

LEMMA NewTaskIdUnused ==
  ASSUME Unused # {} PROVE NewTaskId \in Task /\ stage[NewTaskId] = "none"
BY DEF NewTaskId, Unused

\* None is no value of any table.
LEMMA NoneApart ==
  /\ None \notin Task /\ None \notin Desc /\ None \notin Actor /\ None \notin Job
BY StoreAssumption, JobsAssumption

\* _update_task writes an entry.
LEMMA UpdatedType ==
  ASSUME NEW e \in Entry, NEW st \in Status, NEW who \in SUBSET Actor,
         NEW p \in Task \cup {None}
  PROVE  Updated(e, st, who, p) \in Entry
<1>1. 0 \in 0..Expire
  BY StoreAssumption
<1>. QED
  BY <1>1 DEF Updated, Entry

LEMMA PutTaskType ==
  ASSUME TypeOK, NEW t \in Task, NEW st \in Status, NEW who \in SUBSET Actor,
         NEW p \in Task \cup {None}, PutTask(t, st, who, p)
  PROVE  /\ store' \in [Task -> Entry]
         /\ store'[t].status = st
         /\ \A u \in Task \ {t} : store'[u] = store[u]
<1>1. store \in [Task -> Entry]
  BY DEF TypeOK, StoreTypeOK
<1>2. Updated(store[t], st, who, p) \in Entry
  BY <1>1, UpdatedType
<1>3. store' = [store EXCEPT ![t] = Updated(store[t], st, who, p)]
  BY DEF PutTask
<1>4. Updated(store[t], st, who, p).status = st
  BY DEF Updated
<1>. QED
  BY <1>1, <1>2, <1>3, <1>4

LEMMA NoEntryType == NoEntry \in Entry
<1>1. 0 \in 0..Expire
  BY StoreAssumption
<1>. QED
  BY <1>1 DEF NoEntry, Entry, Status

\* Changing one field of an entry keeps its type and its other fields.
LEMMA EntryStatus ==
  ASSUME NEW e \in Entry, NEW s \in Status
  PROVE  /\ [e EXCEPT !.status = s] \in Entry
         /\ [e EXCEPT !.status = s].status = s
BY DEF Entry

LEMMA EntryAge ==
  ASSUME NEW e \in Entry, NEW n \in 0..Expire
  PROVE  /\ [e EXCEPT !.age = n] \in Entry
         /\ [e EXCEPT !.age = n].status = e.status
BY DEF Entry

LEMMA GotoType ==
  ASSUME TypeOK, NEW c \in Caller, NEW pc \in CallerPc, call' = [call EXCEPT ![c].pc = pc]
  PROVE  /\ call' \in [Caller -> Call]
         /\ call'[c] = [call[c] EXCEPT !.pc = pc]
         /\ \A b \in Caller \ {c} : call'[b] = call[b]
<1>1. call[c] \in Call /\ call \in [Caller -> Call]
  BY DEF TypeOK
<1>2. [call[c] EXCEPT !.pc = pc] \in Call
  BY <1>1 DEF Call
<1>. QED
  BY <1>1, <1>2

LEMMA ClosureType ==
  ASSUME NEW k \in Kind, NEW d \in Desc \cup {None}, NEW a \in Actor,
         NEW p \in Task \cup {None}
  PROVE  Closure(k, d, a, p) \in Job
BY DEF Closure, Job, Status

-----------------------------------------------------------------------------
\* The initial states satisfy the inductive invariant.
THEOREM InitInv == Init => IInv
<1>. SUFFICES ASSUME Init PROVE IInv
  OBVIOUS
<1>. USE DEF Init
<1>1. TypeOK
  <2>1. StoreTypeOK
    BY NoEntryType DEF StoreInit, StoreTypeOK
  <2>2. call \in [Caller -> Call]
    BY DEF Idle, Call, CallerPc
  <2>. QED
    BY <2>1, <2>2 DEF TypeOK, Stage
<1>2. LocalsInv /\ ClaimInv /\ FlightInv
  BY DEF LocalsInv, ClaimInv, FlightInv, Claim, Submitting, Unsent, InFlight, Idle
<1>3. JobInv
  BY NoneApart DEF JobInv, Submitting, Idle, Run
<1>4. QueueInv /\ WorkInv
  BY DEF QueueInv, WorkInv
<1>5. OutcomeInv
  BY DEF OutcomeInv, StoreInit, NoEntry, Terminal
<1>6. AcceptedInv /\ OneChildPerParent
  BY DEF AcceptedInv, OneChildPerParent
<1>. QED
  BY <1>1, <1>2, <1>3, <1>4, <1>5, <1>6 DEF IInv

-----------------------------------------------------------------------------
(* Submissions.                                                            *)

LEMMA SubmitInv ==
  ASSUME IInv, NEW c \in Caller, NEW a \in Actor, NEW op \in Operation,
         NEW n \in Name, Submit(c, a, op, n)
  PROVE  IInv'
<1>. DEFINE t == NewTaskId
            d == [op |-> op, name |-> n, fp |-> cluster[n].fp]
<1>. USE DEF IInv
<1>1. t \in Task /\ stage[t] = "none"
  BY NewTaskIdUnused DEF Submit
<1>2. cluster[n] \in Row /\ d \in Desc
  BY DEF TypeOK, StoreTypeOK, Submit, CanCluster, Desc, Row
<1>3. {a, Owner[d.fp]} \in SUBSET Actor
  BY <1>2, StoreAssumption DEF Row
<1>4. PutTask(t, "running", {a, Owner[d.fp]}, None)
  BY DEF Submit
<1>5. /\ store' \in [Task -> Entry]
      /\ store'[t].status = "running"
      /\ \A u \in Task \ {t} : store'[u] = store[u]
  BY <1>1, <1>3, <1>4, PutTaskType DEF Status, Live
<1>6. job' \in [Task -> Job \cup {None}] /\ job'[t] \in Job /\ job'[t].kind = "plain"
      /\ job'[t].desc = d /\ \A u \in Task \ {t} : job'[u] = job[u]
  <2>1. Closure("plain", d, a, None) \in Job
    BY <1>2, ClosureType DEF Kind
  <2>. QED
    BY <1>1, <2>1 DEF Submit, TypeOK, Closure
<1>7. /\ stage' = [stage EXCEPT ![t] = "claimed"]
      /\ call' = [call EXCEPT ![c] = [Idle EXCEPT !.pc = "submitted", !.task = t]]
      /\ UNCHANGED <<descr, reserved, pending, events, evset, cluster, active,
                     queue, work, accepted, asked, askedQueued>>
  BY DEF Submit, SetStage, database, history
<1>8. TypeOK'
  BY <1>1, <1>5, <1>6, <1>7 DEF TypeOK, StoreTypeOK, Stage, Idle, Call, CallerPc, Submitting
<1>9. LocalsInv'
  BY <1>1, <1>7 DEF TypeOK, LocalsInv, Idle, Submitting, InFlight
<1>10. ClaimInv'
  BY <1>1, <1>7 DEF TypeOK, ClaimInv, Claim, Idle, Submitting, Unsent, LocalsInv, InFlight
<1>11. FlightInv'
  BY <1>1, <1>7 DEF TypeOK, FlightInv, Idle, InFlight
<1>12. JobInv'
  BY <1>1, <1>2, <1>6, <1>7 DEF TypeOK, JobInv, Idle, Submitting, Run
<1>13. QueueInv'
  BY <1>1, <1>7 DEF TypeOK, QueueInv
<1>14. WorkInv'
  BY <1>1, <1>7 DEF TypeOK, WorkInv, Run
<1>15. OutcomeInv'
  BY <1>1, <1>5, <1>7 DEF TypeOK, OutcomeInv, Terminal
<1>16. AcceptedInv'
  BY <1>1, <1>7 DEF TypeOK, AcceptedInv, Run
<1>17. OneChildPerParent'
  BY <1>7 DEF OneChildPerParent
<1>. QED
  BY <1>8, <1>9, <1>10, <1>11, <1>12, <1>13, <1>14, <1>15, <1>16, <1>17

LEMMA SubmitRememberInv ==
  ASSUME IInv, NEW c \in Caller, SubmitRemember(c)
  PROVE  IInv'
<1>. DEFINE t == call[c].task
<1>. USE DEF IInv
<1>1. t \in Task /\ stage[t] = "claimed" /\ call[c].pc = "submitted" /\ job[t] \in Job
  BY NoneApart DEF SubmitRemember, LocalsInv, ClaimInv, Claim, Submitting, JobInv
<1>2. /\ call' = [call EXCEPT ![c].pc = "remembered"]
      /\ UNCHANGED <<store, reserved, pending, events, evset, cluster, active,
                     job, stage, queue, work, accepted, asked, askedQueued>>
  BY DEF SubmitRemember, Goto, database, history
<1>3. /\ descr' \in [Task -> Desc \cup {None}]
      /\ \A u \in Task \ {t} : descr'[u] = descr[u]
  BY <1>1 DEF SubmitRemember, RememberRetry, TypeOK, StoreTypeOK, Job
<1>4. TypeOK'
  <2>1. call' \in [Caller -> Call]
    BY <1>2, GotoType DEF CallerPc, Submitting
  <2>. QED
    BY <1>2, <1>3, <2>1 DEF TypeOK, StoreTypeOK
<1>5. LocalsInv' /\ ClaimInv'
  BY <1>1, <1>2 DEF TypeOK, LocalsInv, ClaimInv, Claim, Submitting, Unsent, InFlight
<1>6. FlightInv' /\ JobInv'
  BY <1>1, <1>2 DEF TypeOK, FlightInv, JobInv, InFlight, Submitting
<1>7. QueueInv' /\ WorkInv' /\ OutcomeInv' /\ OneChildPerParent'
  BY <1>2 DEF QueueInv, WorkInv, OutcomeInv, OneChildPerParent
<1>8. AcceptedInv'
  BY <1>1, <1>2, <1>3 DEF TypeOK, AcceptedInv
<1>. QED
  BY <1>4, <1>5, <1>6, <1>7, <1>8

LEMMA SubmitCreateInv ==
  ASSUME IInv, NEW c \in Caller, NEW a \in Actor, SubmitCreate(c, a)
  PROVE  IInv'
<1>. DEFINE t == NewTaskId
<1>. USE DEF IInv
<1>1. t \in Task /\ stage[t] = "none" /\ "create" \in Queue
  BY NewTaskIdUnused DEF SubmitCreate
<1>2. PutTask(t, "running", {a}, None)
  BY DEF SubmitCreate
<1>3. /\ store' \in [Task -> Entry]
      /\ store'[t].status = "running"
      /\ \A u \in Task \ {t} : store'[u] = store[u]
  BY <1>1, <1>2, PutTaskType DEF Status, Live
<1>4. /\ job' \in [Task -> Job \cup {None}] /\ job'[t] \in Job /\ job'[t].kind = "create"
      /\ \A u \in Task \ {t} : job'[u] = job[u]
  <2>1. Closure("create", None, a, None) \in Job
    BY ClosureType DEF Kind
  <2>. QED
    BY <1>1, <2>1 DEF SubmitCreate, TypeOK, Closure
<1>5. /\ stage' = [stage EXCEPT ![t] = "claimed"]
      /\ call' = [call EXCEPT ![c] = [Idle EXCEPT !.pc = "remembered", !.task = t]]
      /\ UNCHANGED <<descr, reserved, pending, events, evset, cluster, active,
                     queue, work, accepted, asked, askedQueued>>
  BY DEF SubmitCreate, SetStage, database, history
<1>6. TypeOK'
  BY <1>1, <1>3, <1>4, <1>5 DEF TypeOK, StoreTypeOK, Stage, Idle, Call, CallerPc, Submitting
<1>7. LocalsInv'
  BY <1>1, <1>5 DEF TypeOK, LocalsInv, Idle, Submitting, InFlight
<1>8. ClaimInv'
  BY <1>1, <1>5 DEF TypeOK, ClaimInv, Claim, Idle, Submitting, Unsent, LocalsInv, InFlight
<1>9. FlightInv'
  BY <1>1, <1>5 DEF TypeOK, FlightInv, Idle, InFlight
<1>10. JobInv'
  BY <1>1, <1>4, <1>5 DEF TypeOK, JobInv, Idle, Submitting, Run
<1>11. QueueInv' /\ WorkInv'
  BY <1>1, <1>5 DEF TypeOK, QueueInv, WorkInv, Run
<1>12. OutcomeInv'
  BY <1>1, <1>3, <1>5 DEF TypeOK, OutcomeInv, Terminal
<1>13. AcceptedInv' /\ OneChildPerParent'
  BY <1>1, <1>5 DEF TypeOK, AcceptedInv, OneChildPerParent, Run
<1>. QED
  BY <1>6, <1>7, <1>8, <1>9, <1>10, <1>11, <1>12, <1>13

\* Putting a task that is in no queue into one keeps the queues disjoint.
LEMMA EnqueueKeeps ==
  ASSUME TypeOK, QueueInv, NEW t \in Task, NEW q, stage[t] # "queued",
         Enqueue(q, t), SetStage(t, "queued")
  PROVE  queue' \in [Queue -> Seq(Task)] /\ QueueInv'
<1>. USE DEF TypeOK
<1>1. stage'[t] = "queued" /\ \A u \in Task \ {t} : stage'[u] = stage[u]
  BY DEF SetStage
<1>2. CASE q \in Queue
  <2>1. /\ queue' = [queue EXCEPT ![q] = Append(queue[q], t)]
        /\ queue[q] \in Seq(Task)
    BY <1>2 DEF Enqueue
  <2>2. queue' \in [Queue -> Seq(Task)]
    BY <1>2, <2>1
  <2>3. /\ Len(queue'[q]) = Len(queue[q]) + 1
        /\ queue'[q][Len(queue[q]) + 1] = t
        /\ \A i \in 1..Len(queue[q]) : queue'[q][i] = queue[q][i]
        /\ \A p \in Queue \ {q} : queue'[p] = queue[p]
    BY <1>2, <2>1
  <2>4. \A p \in Queue : \A i \in 1..Len(queue[p]) :
          queue[p][i] \in Task /\ stage[queue[p][i]] = "queued"
    BY DEF QueueInv
  <2>5. \A p \in Queue : \A i \in 1..Len(queue'[p]) :
          \/ p = q /\ i = Len(queue[q]) + 1 /\ queue'[p][i] = t
          \/ i \in 1..Len(queue[p]) /\ queue'[p][i] = queue[p][i] /\ queue'[p][i] # t
    BY <2>1, <2>3, <2>4
  <2>6. \A p \in Queue : \A i \in 1..Len(queue'[p]) : stage'[queue'[p][i]] = "queued"
    BY <1>1, <2>4, <2>5
  <2>7. \A p, r \in Queue : \A i \in 1..Len(queue[p]), j \in 1..Len(queue[r]) :
          queue[p][i] = queue[r][j] => p = r /\ i = j
    BY DEF QueueInv
  <2>8. \A p, r \in Queue : \A i \in 1..Len(queue'[p]), j \in 1..Len(queue'[r]) :
          queue'[p][i] = queue'[r][j] => p = r /\ i = j
    BY <2>5, <2>7
  <2>. QED
    BY <2>2, <2>6, <2>8 DEF QueueInv
<1>3. CASE q \notin Queue
  <2>1. queue' = queue /\ queue \in [Queue -> Seq(Task)]
    BY <1>3 DEF Enqueue
  <2>2. ASSUME NEW p \in Queue, NEW i \in 1..Len(queue[p])
        PROVE  stage'[queue[p][i]] = "queued"
    <3>1. queue[p][i] \in Task
      BY <2>1
    <3>2. stage[queue[p][i]] = "queued"
      BY DEF QueueInv
    <3>. QED
      BY <1>1, <3>1, <3>2
  <2>. QED
    BY <2>1, <2>2 DEF QueueInv
<1>. QED
  BY <1>2, <1>3

LEMMA SubmitEnqueueInv ==
  ASSUME IInv, NEW c \in Caller, SubmitEnqueue(c)
  PROVE  IInv'
<1>. DEFINE t == call[c].task
<1>. USE DEF IInv
<1>1. t \in Task /\ stage[t] = "claimed" /\ call[c].pc = "remembered" /\ job[t] \in Job
  BY NoneApart DEF SubmitEnqueue, LocalsInv, ClaimInv, Claim, Submitting, JobInv
<1>2. /\ call' = [call EXCEPT ![c].pc = "cleanup"]
      /\ stage' = [stage EXCEPT ![t] = "queued"]
      /\ UNCHANGED <<store, descr, reserved, pending, events, evset, cluster, active,
                     job, work, accepted, asked, askedQueued>>
  BY DEF SubmitEnqueue, Goto, SetStage, registry, database, history
<1>3. queue' \in [Queue -> Seq(Task)] /\ QueueInv'
  BY <1>1, EnqueueKeeps DEF SubmitEnqueue
<1>4. TypeOK'
  <2>1. call' \in [Caller -> Call]
    BY <1>2, GotoType DEF CallerPc
  <2>. QED
    BY <1>2, <1>3, <2>1 DEF TypeOK, StoreTypeOK, Stage
<1>5. LocalsInv' /\ ClaimInv'
  BY <1>1, <1>2, NoneApart DEF TypeOK, LocalsInv, ClaimInv, Claim, Submitting, Unsent, InFlight
<1>6. FlightInv'
  BY <1>1, <1>2 DEF TypeOK, FlightInv, InFlight
<1>7. JobInv'
  BY <1>1, <1>2 DEF TypeOK, JobInv, Submitting, Run
<1>8. WorkInv'
  BY <1>1, <1>2 DEF TypeOK, WorkInv, Run
<1>9. OutcomeInv'
  BY <1>1, <1>2 DEF TypeOK, OutcomeInv
<1>10. AcceptedInv' /\ OneChildPerParent'
  BY <1>1, <1>2 DEF TypeOK, AcceptedInv, OneChildPerParent, Run
<1>. QED
  BY <1>3, <1>4, <1>5, <1>6, <1>7, <1>8, <1>9, <1>10

\* The cleanup spares the records of every submission in flight.
LEMMA CallerCleanupInv ==
  ASSUME IInv, NEW c \in Caller, CallerCleanup(c)
  PROVE  IInv'
<1>. USE DEF IInv
<1>1. /\ call' = [call EXCEPT ![c] = Idle] /\ call[c].pc = "cleanup"
      /\ UNCHANGED <<pending, evset, cluster, active,
                     job, stage, queue, work, accepted, asked, askedQueued>>
  BY DEF CallerCleanup, CleanupOldTasks, Hangup, database, history
<1>2. /\ \A u \in Task : store'[u] = NoEntry \/ store'[u] = store[u]
      /\ store' \in [Task -> Entry]
  BY NoEntryType DEF CallerCleanup, CleanupOldTasks, TypeOK, StoreTypeOK
<1>3. \A u \in Task : \/ u \in Dropped /\ reserved'[u] = None /\ descr'[u] = None
                      \/ u \notin Dropped /\ reserved'[u] = reserved[u] /\ descr'[u] = descr[u]
  BY DEF CallerCleanup, CleanupOldTasks
<1>4. pending \cap Dropped = {}
  BY DEF Dropped, Expired, Protected
<1>5. TypeOK'
  BY <1>1, <1>2 DEF CallerCleanup, CleanupOldTasks, TypeOK, StoreTypeOK, Idle, Call, CallerPc
<1>6. LocalsInv' /\ ClaimInv'
  BY <1>1 DEF TypeOK, LocalsInv, ClaimInv, Claim, Idle, Submitting, Unsent, InFlight
<1>7. FlightInv'
  BY <1>1, <1>3, <1>4 DEF TypeOK, FlightInv, LocalsInv, Idle, InFlight
<1>8. JobInv' /\ QueueInv' /\ WorkInv'
  BY <1>1 DEF TypeOK, JobInv, QueueInv, WorkInv, Idle, Submitting
<1>9. OutcomeInv'
  BY <1>1, <1>2 DEF OutcomeInv, NoEntry, Terminal
<1>10. AcceptedInv' /\ OneChildPerParent'
  BY <1>1, <1>3 DEF TypeOK, AcceptedInv, OneChildPerParent
<1>. QED
  BY <1>5, <1>6, <1>7, <1>8, <1>9, <1>10

-----------------------------------------------------------------------------
(* retry_task.                                                             *)

\* Steps of a request thread that change nothing but its own locals, and
\* neither give up a task they hold nor take one.
LEMMA LocalStepInv ==
  ASSUME IInv, NEW c \in Caller, NEW pc \in CallerPc,
         call' = [call EXCEPT ![c].pc = pc],
         UNCHANGED <<registry, database, job, stage, queue, work, history>>,
         \/ call[c].pc \in Unsent /\ pc \in Unsent
         \/ call[c].pc = "read" /\ pc = "idle"
  PROVE  IInv'
<1>. USE DEF IInv
<1>1. UNCHANGED <<store, descr, reserved, pending, events, evset, cluster, active,
                  job, stage, queue, work, accepted, asked, askedQueued>>
  BY DEF registry, database, history
<1>2. /\ call' \in [Caller -> Call]
      /\ call'[c] = [call[c] EXCEPT !.pc = pc]
      /\ \A b \in Caller \ {c} : call'[b] = call[b]
  BY GotoType
<1>3. TypeOK'
  BY <1>1, <1>2 DEF TypeOK, StoreTypeOK
<1>4. /\ call'[c].pc = pc /\ call'[c].task = call[c].task /\ call'[c].kid = call[c].kid
      /\ call'[c].desc = call[c].desc /\ call'[c].actor = call[c].actor
  BY <1>2 DEF TypeOK, Call
<1>5. LocalsInv'
  BY <1>2, <1>4 DEF LocalsInv, Submitting, Unsent, InFlight
<1>6. \A b \in Caller : Claim(b)' = Claim(b)
  BY <1>2, <1>4 DEF Claim, Submitting, Unsent
<1>7. ClaimInv'
  BY <1>1, <1>6 DEF ClaimInv
<1>8. FlightInv'
  BY <1>1, <1>2, <1>4 DEF FlightInv, Unsent, InFlight
<1>9. JobInv'
  BY <1>1, <1>2, <1>4 DEF JobInv, Unsent, Submitting
<1>10. QueueInv' /\ WorkInv' /\ OutcomeInv' /\ AcceptedInv' /\ OneChildPerParent'
  BY <1>1 DEF QueueInv, WorkInv, OutcomeInv, AcceptedInv, OneChildPerParent
<1>. QED
  BY <1>3, <1>5, <1>7, <1>8, <1>9, <1>10

\* Steps that leave every thread alone but the one that becomes idle or
\* starts a retry, and change no shared state.
LEMMA QuietStepInv ==
  ASSUME IInv, NEW c \in Caller, NEW l \in Call,
         call' = [call EXCEPT ![c] = l],
         call[c].pc \in {"idle", "read"},
         \/ l.pc = "idle"
         \/ /\ l.pc = "read" /\ l.task \in Task
            /\ l.desc \in Desc /\ l.actor \in Actor,
         UNCHANGED <<registry, database, job, stage, queue, work, history>>
  PROVE  IInv'
<1>. USE DEF IInv
<1>1. UNCHANGED <<store, descr, reserved, pending, events, evset, cluster, active,
                  job, stage, queue, work, accepted, asked, askedQueued>>
  BY DEF registry, database, history
<1>2. /\ call' \in [Caller -> Call] /\ call'[c] = l
      /\ \A b \in Caller \ {c} : call'[b] = call[b]
  BY DEF TypeOK
<1>3. TypeOK'
  BY <1>1, <1>2 DEF TypeOK, StoreTypeOK
<1>4. LocalsInv'
  BY <1>2 DEF LocalsInv, Submitting, InFlight
<1>5. \A b \in Caller : Claim(b)' = Claim(b)
  BY <1>2 DEF Claim, Submitting, Unsent
<1>6. ClaimInv'
  BY <1>1, <1>5 DEF ClaimInv
<1>7. FlightInv'
  BY <1>1, <1>2 DEF FlightInv, InFlight
<1>8. JobInv'
  BY <1>1, <1>2 DEF JobInv, Submitting
<1>9. QueueInv' /\ WorkInv' /\ OutcomeInv' /\ AcceptedInv' /\ OneChildPerParent'
  BY <1>1 DEF QueueInv, WorkInv, OutcomeInv, AcceptedInv, OneChildPerParent
<1>. QED
  BY <1>3, <1>4, <1>6, <1>7, <1>8, <1>9

LEMMA RetryReadInv ==
  ASSUME IInv, NEW c \in Caller, NEW a \in Actor, NEW p \in Task, RetryRead(c, a, p)
  PROVE  IInv'
<1>. DEFINE l == [pc |-> "read", task |-> p, kid |-> None, desc |-> descr[p], actor |-> a]
<1>1. descr[p] \in Desc
  BY DEF RetryRead, IInv, TypeOK, StoreTypeOK
<1>2. l \in Call
  BY <1>1 DEF Call, CallerPc
<1>. QED
  BY <1>1, <1>2, QuietStepInv DEF RetryRead

LEMMA IdleType == Idle \in Call /\ Idle.pc = "idle"
BY DEF Idle, Call, CallerPc

LEMMA RetryRefusedInv ==
  ASSUME IInv, NEW c \in Caller, RetryRefused(c)
  PROVE  IInv'
BY IdleType, QuietStepInv DEF RetryRefused, Hangup

\* A parent that may be reserved ended, and has no accepted retry: had it
\* one, its reservation or its description would be different.
LEMMA RetryReserveInv ==
  ASSUME IInv, NEW c \in Caller, RetryReserve(c)
  PROVE  IInv'
<1>. DEFINE p == call[c].task
            t == NewTaskId
<1>. USE DEF IInv
<1>1. t \in Task /\ stage[t] = "none"
  BY NewTaskIdUnused DEF RetryReserve
<1>2. /\ call[c].pc = "read" /\ p \in Task
      /\ call[c].desc \in Desc /\ call[c].actor \in Actor
  BY DEF RetryReserve, LocalsInv
<1>3. stage[p] = "done"
  BY <1>2 DEF RetryReserve, MayReserve, Retryable, OutcomeInv, Terminal
<1>4. reserved[p] = None /\ descr[p] # None
  BY <1>2, NoneApart DEF RetryReserve, MayReserve
<1>5. /\ stage' = [stage EXCEPT ![t] = "claimed"]
      /\ call' = [call EXCEPT ![c].pc = "reserved", ![c].kid = t]
      /\ reserved' = [reserved EXCEPT ![p] = t]
      /\ pending' = pending \cup {p}
      /\ UNCHANGED <<store, descr, events, evset, cluster, active,
                     job, queue, work, accepted, asked, askedQueued>>
  BY DEF RetryReserve, Reserve, SetStage, database, history
<1>6. /\ call' \in [Caller -> Call]
      /\ call'[c].pc = "reserved" /\ call'[c].kid = t /\ call'[c].task = p
      /\ call'[c].desc = call[c].desc /\ call'[c].actor = call[c].actor
      /\ \A b \in Caller \ {c} : call'[b] = call[b]
  <2>1. call[c] \in Call /\ call \in [Caller -> Call]
    BY DEF TypeOK
  <2>2. call' = [call EXCEPT ![c] = [call[c] EXCEPT !.pc = "reserved", !.kid = t]]
    BY <1>5, <2>1
  <2>3. [call[c] EXCEPT !.pc = "reserved", !.kid = t] \in Call
    BY <1>1, <2>1 DEF Call, CallerPc, InFlight
  <2>. QED
    BY <2>1, <2>2, <2>3 DEF Call
<1>7. TypeOK'
  BY <1>1, <1>2, <1>5, <1>6 DEF TypeOK, StoreTypeOK, Stage
<1>8. LocalsInv'
  BY <1>1, <1>2, <1>6 DEF LocalsInv, Submitting, InFlight
<1>9. ClaimInv'
  BY <1>1, <1>2, <1>5, <1>6 DEF TypeOK, ClaimInv, Claim, Submitting, Unsent, InFlight, LocalsInv
<1>10. FlightInv'
  <2>1. \A b \in Caller : call[b].pc \in InFlight =>
          call[b].task \in Task \ {p, t}
    BY <1>1, <1>4, NoneApart DEF FlightInv, LocalsInv
  <2>2. reserved'[p] = t /\ \A q \in Task \ {p} : reserved'[q] = reserved[q]
    BY <1>2, <1>5 DEF TypeOK, StoreTypeOK
  <2>3. stage'[p] = "done" /\ \A q \in Task \ {t} : stage'[q] = stage[q]
    BY <1>1, <1>3, <1>5 DEF TypeOK
  <2>. QED
    BY <1>2, <1>5, <1>6, <2>1, <2>2, <2>3 DEF FlightInv, InFlight
<1>11. JobInv'
  BY <1>1, <1>5, <1>6 DEF TypeOK, JobInv, Submitting, Run
<1>12. QueueInv' /\ WorkInv'
  BY <1>1, <1>5 DEF TypeOK, QueueInv, WorkInv, Run
<1>13. OutcomeInv'
  BY <1>1, <1>5 DEF TypeOK, OutcomeInv
<1>14. AcceptedInv' /\ OneChildPerParent'
  BY <1>1, <1>2, <1>4, <1>5, NoneApart
  DEF TypeOK, StoreTypeOK, AcceptedInv, OneChildPerParent, Run
<1>. QED
  BY <1>7, <1>8, <1>9, <1>10, <1>11, <1>12, <1>13, <1>14

LEMMA RetryRecheckInv ==
  ASSUME IInv, NEW c \in Caller, RetryRecheck(c)
  PROVE  IInv'
<1>1. PICK pc \in {"rechecked", "failing"} : call' = [call EXCEPT ![c].pc = pc]
  BY DEF RetryRecheck, Goto
<1>2. UNCHANGED <<registry, database, job, stage, queue, work, history>>
  BY DEF RetryRecheck
<1>. QED
  BY <1>1, <1>2, LocalStepInv DEF RetryRecheck, Unsent, CallerPc, InFlight

LEMMA RetryFaultInv ==
  ASSUME IInv, NEW c \in Caller, RetryFault(c)
  PROVE  IInv'
BY LocalStepInv DEF RetryFault, Goto, Unsent, CallerPc, InFlight

LEMMA RetryBindInv ==
  ASSUME IInv, NEW c \in Caller, RetryBind(c)
  PROVE  IInv'
<1>. DEFINE kid == call[c].kid
<1>. USE DEF IInv
<1>1. /\ call[c].pc = "rechecked" /\ kid \in Task /\ stage[kid] = "claimed"
      /\ call[c].desc \in Desc
  BY NoneApart DEF RetryBind, LocalsInv, ClaimInv, Claim, InFlight, Unsent, Submitting
<1>2. CASE MayBind(c)
  <2>1. /\ descr' = [descr EXCEPT ![kid] = call[c].desc]
        /\ call' = [call EXCEPT ![c].pc = "bound"]
        /\ UNCHANGED <<store, reserved, pending, events, evset, cluster, active,
                       job, stage, queue, work, accepted, asked, askedQueued>>
    BY <1>2 DEF RetryBind, Goto, database, history
  <2>2. call' \in [Caller -> Call]
    BY <2>1, GotoType DEF CallerPc, InFlight
  <2>3. TypeOK'
    BY <1>1, <2>1, <2>2 DEF TypeOK, StoreTypeOK
  <2>4. LocalsInv' /\ ClaimInv'
    BY <1>1, <2>1 DEF TypeOK, LocalsInv, ClaimInv, Claim, Submitting, Unsent, InFlight
  <2>5. FlightInv' /\ JobInv'
    BY <1>1, <2>1 DEF TypeOK, FlightInv, JobInv, InFlight, Submitting
  <2>6. QueueInv' /\ WorkInv' /\ OutcomeInv' /\ OneChildPerParent'
    BY <2>1 DEF QueueInv, WorkInv, OutcomeInv, OneChildPerParent
  <2>7. AcceptedInv'
    BY <1>1, <2>1 DEF TypeOK, StoreTypeOK, AcceptedInv
  <2>. QED
    BY <2>3, <2>4, <2>5, <2>6, <2>7
<1>3. CASE ~MayBind(c)
  <2>1. /\ call' = [call EXCEPT ![c].pc = "failing"]
        /\ UNCHANGED <<registry, database, job, stage, queue, work, history>>
    BY <1>3 DEF RetryBind, Goto, registry
  <2>. QED
    BY <1>1, <2>1, LocalStepInv DEF Unsent, CallerPc, InFlight
<1>. QED
  BY <1>2, <1>3

LEMMA RetryPublishInv ==
  ASSUME IInv, NEW c \in Caller, RetryPublish(c)
  PROVE  IInv'
<1>. DEFINE kid == call[c].kid
<1>. USE DEF IInv
<1>1. /\ call[c].pc = "bound" /\ kid \in Task /\ stage[kid] = "claimed"
      /\ call[c].desc \in Desc /\ call[c].actor \in Actor /\ call[c].task \in Task
  BY NoneApart DEF RetryPublish, LocalsInv, ClaimInv, Claim, InFlight, Unsent, Submitting
<1>2. {call[c].actor, Owner[call[c].desc.fp]} \in SUBSET Actor
  BY <1>1, StoreAssumption DEF Desc
<1>3. PutTask(kid, "running", {call[c].actor, Owner[call[c].desc.fp]}, call[c].task)
  BY DEF RetryPublish
<1>4. /\ store' \in [Task -> Entry]
      /\ store'[kid].status = "running"
      /\ \A u \in Task \ {kid} : store'[u] = store[u]
  BY <1>1, <1>2, <1>3, PutTaskType DEF Status, Live
<1>5. /\ call' = [call EXCEPT ![c].pc = "published"]
      /\ UNCHANGED <<descr, reserved, pending, events, evset, cluster, active,
                     job, stage, queue, work, accepted, asked, askedQueued>>
  BY DEF RetryPublish, Goto, database, history
<1>6. call' \in [Caller -> Call]
  BY <1>5, GotoType DEF CallerPc, InFlight
<1>7. TypeOK'
  BY <1>4, <1>5, <1>6 DEF TypeOK, StoreTypeOK
<1>8. LocalsInv' /\ ClaimInv'
  BY <1>1, <1>5 DEF TypeOK, LocalsInv, ClaimInv, Claim, Submitting, Unsent, InFlight
<1>9. FlightInv' /\ JobInv'
  BY <1>1, <1>5 DEF TypeOK, FlightInv, JobInv, InFlight, Submitting
<1>10. QueueInv' /\ WorkInv' /\ AcceptedInv' /\ OneChildPerParent'
  BY <1>5 DEF QueueInv, WorkInv, AcceptedInv, OneChildPerParent
<1>11. OutcomeInv'
  BY <1>1, <1>4, <1>5 DEF OutcomeInv, Terminal
<1>. QED
  BY <1>7, <1>8, <1>9, <1>10, <1>11

\* The only step that accepts a retry: the reservation it still holds rules
\* out an earlier accepted one.
LEMMA RetryEnqueueInv ==
  ASSUME IInv, NEW c \in Caller, RetryEnqueue(c)
  PROVE  IInv'
<1>. DEFINE p == call[c].task
            kid == call[c].kid
<1>. USE DEF IInv
<1>1. /\ call[c].pc = "published" /\ kid \in Task /\ p \in Task
      /\ stage[kid] = "claimed" /\ stage[p] = "done" /\ reserved[p] = kid
      /\ call[c].desc \in Desc /\ call[c].actor \in Actor
  BY NoneApart
  DEF RetryEnqueue, LocalsInv, ClaimInv, Claim, FlightInv, InFlight, Unsent, Submitting
<1>2. /\ job' \in [Task -> Job \cup {None}] /\ job'[kid] \in Job
      /\ job'[kid].kind = "retry" /\ job'[kid].desc = call[c].desc
      /\ \A u \in Task \ {kid} : job'[u] = job[u]
  <2>1. Closure("retry", call[c].desc, call[c].actor, p) \in Job
    BY <1>1, ClosureType DEF Kind
  <2>. QED
    BY <1>1, <2>1 DEF RetryEnqueue, RetryClosure, TypeOK, Closure
<1>3. /\ call' = [call EXCEPT ![c].pc = "enqueued"]
      /\ stage' = [stage EXCEPT ![kid] = "queued"]
      /\ accepted' = accepted \cup {<<p, kid>>}
      /\ UNCHANGED <<store, descr, reserved, pending, events, evset, cluster, active,
                     work, asked, askedQueued>>
  BY DEF RetryEnqueue, Goto, SetStage, registry, database
<1>4. queue' \in [Queue -> Seq(Task)] /\ QueueInv'
  BY <1>1, EnqueueKeeps DEF RetryEnqueue
<1>5. TypeOK'
  <2>1. call' \in [Caller -> Call]
    BY <1>3, GotoType DEF CallerPc, InFlight
  <2>. QED
    BY <1>1, <1>2, <1>3, <1>4, <2>1 DEF TypeOK, StoreTypeOK, Stage
<1>6. LocalsInv' /\ ClaimInv'
  BY <1>1, <1>3, NoneApart DEF TypeOK, LocalsInv, ClaimInv, Claim, Submitting, Unsent, InFlight
<1>7. FlightInv'
  BY <1>1, <1>3 DEF TypeOK, FlightInv, InFlight
<1>8. JobInv'
  BY <1>1, <1>2, <1>3 DEF TypeOK, JobInv, Submitting, Run
<1>9. WorkInv' /\ OutcomeInv'
  BY <1>1, <1>3 DEF TypeOK, WorkInv, OutcomeInv, Run
<1>10. AcceptedInv'
  BY <1>1, <1>3 DEF TypeOK, AcceptedInv, Run
<1>11. \A e \in accepted : e[1] = p => e[2] = kid
  BY <1>1, NoneApart DEF AcceptedInv
<1>12. OneChildPerParent'
  BY <1>3, <1>11 DEF TypeOK, OneChildPerParent
<1>. QED
  BY <1>4, <1>5, <1>6, <1>7, <1>8, <1>9, <1>10, <1>12

LEMMA RetryFinallyInv ==
  ASSUME IInv, NEW c \in Caller, RetryFinally(c)
  PROVE  IInv'
<1>. DEFINE p == call[c].task
            kid == call[c].kid
<1>. USE DEF IInv
<1>1. /\ kid \in Task /\ p \in Task /\ p \in pending /\ call[c].pc \in InFlight
      /\ stage[p] = "done" /\ reserved[p] = kid
  BY DEF RetryFinally, LocalsInv, FlightInv, InFlight
<1>2. \A b \in Caller \ {c} : call[b].pc \in InFlight => call[b].task # p
  BY <1>1 DEF FlightInv
<1>3. CASE call[c].pc = "enqueued"
  <2>1. /\ call' = [call EXCEPT ![c].pc = "cleanup"]
        /\ pending' = pending \ {p}
        /\ UNCHANGED <<store, descr, reserved, events, evset, cluster, active,
                       job, stage, queue, work, accepted, asked, askedQueued>>
    BY <1>3 DEF RetryFinally, ReleaseAccepted, Goto, database, history
  <2>2. call' \in [Caller -> Call]
    BY <2>1, GotoType DEF CallerPc
  <2>3. TypeOK'
    BY <2>1, <2>2 DEF TypeOK, StoreTypeOK
  <2>4. LocalsInv' /\ ClaimInv'
    BY <1>3, <2>1 DEF TypeOK, LocalsInv, ClaimInv, Claim, Submitting, Unsent, InFlight
  <2>5. FlightInv' /\ JobInv'
    BY <1>2, <1>3, <2>1 DEF TypeOK, FlightInv, JobInv, InFlight, Submitting
  <2>6. QueueInv' /\ WorkInv' /\ OutcomeInv' /\ AcceptedInv' /\ OneChildPerParent'
    BY <2>1 DEF QueueInv, WorkInv, OutcomeInv, AcceptedInv, OneChildPerParent
  <2>. QED
    BY <2>3, <2>4, <2>5, <2>6
<1>4. CASE call[c].pc = "failing"
  <2>1. /\ call' = [call EXCEPT ![c] = Idle]
        /\ pending' = pending \ {p}
        /\ reserved' = [reserved EXCEPT ![p] = None]
        /\ store' = [store EXCEPT ![kid] = NoEntry]
        /\ descr' = [descr EXCEPT ![kid] = None]
        /\ stage' = [stage EXCEPT ![kid] = "dropped"]
        /\ events' = events \ {kid}
        /\ UNCHANGED <<evset, cluster, active,
                       job, queue, work, accepted, asked, askedQueued>>
    BY <1>1, <1>4 DEF RetryFinally, ReleaseFailed, Hangup, SetStage, database, history
  <2>2. stage[kid] = "claimed"
    BY <1>1, <1>4, NoneApart DEF ClaimInv, Claim, Unsent, Submitting
  <2>3. TypeOK'
    BY <2>1, IdleType, NoEntryType DEF TypeOK, StoreTypeOK, Stage
  <2>4. LocalsInv'
    BY <2>1 DEF TypeOK, LocalsInv, Idle, Submitting, InFlight
  <2>5. ClaimInv'
    BY <1>1, <1>4, <2>1, NoneApart
    DEF TypeOK, ClaimInv, Claim, Idle, Submitting, Unsent, InFlight, LocalsInv
  <2>6. FlightInv'
    BY <1>1, <1>2, <2>1, <2>2 DEF TypeOK, StoreTypeOK, FlightInv, LocalsInv, Idle, InFlight
  <2>7. JobInv'
    BY <2>1, <2>2 DEF TypeOK, JobInv, Idle, Submitting, Run
  <2>8. QueueInv' /\ WorkInv'
    BY <1>1, <2>1, <2>2 DEF TypeOK, QueueInv, WorkInv, Run
  <2>9. OutcomeInv'
    BY <1>1, <2>1, <2>2 DEF TypeOK, StoreTypeOK, OutcomeInv, NoEntry, Terminal
  <2>10. AcceptedInv' /\ OneChildPerParent'
    BY <1>1, <2>1, <2>2, NoneApart
    DEF TypeOK, StoreTypeOK, AcceptedInv, OneChildPerParent, Run
  <2>. QED
    BY <2>3, <2>4, <2>5, <2>6, <2>7, <2>8, <2>9, <2>10
<1>. QED
  BY <1>3, <1>4 DEF RetryFinally

-----------------------------------------------------------------------------
(* Cancellation, workers and the environment.                              *)

LEMMA CancelInv ==
  ASSUME IInv, NEW a \in Actor, NEW t \in Task, Cancel(a, t)
  PROVE  IInv'
<1>. USE DEF IInv
<1>1. /\ evset' \subseteq Task /\ asked' \subseteq Task /\ askedQueued' \subseteq Task
      /\ UNCHANGED <<descr, reserved, pending, events, cluster, active,
                     call, job, stage, queue, work, accepted>>
  BY DEF Cancel, CancelTask, TypeOK, StoreTypeOK, database, threads
<1>2. /\ store' \in [Task -> Entry]
      /\ \A u \in Task : store'[u].status \in {store[u].status, "cancelling"}
  <2>1. store \in [Task -> Entry]
    BY DEF TypeOK, StoreTypeOK
  <2>2. [store[t] EXCEPT !.status = "cancelling"] \in Entry
        /\ [store[t] EXCEPT !.status = "cancelling"].status = "cancelling"
    BY <2>1, EntryStatus DEF Status, Live
  <2>3. \/ store' = store
        \/ store' = [store EXCEPT ![t] = [store[t] EXCEPT !.status = "cancelling"]]
    BY <2>1 DEF Cancel, CancelTask
  <2>. QED
    BY <2>1, <2>2, <2>3
<1>3. TypeOK'
  BY <1>1, <1>2 DEF TypeOK, StoreTypeOK
<1>4. LocalsInv' /\ ClaimInv' /\ FlightInv' /\ JobInv' /\ QueueInv' /\ WorkInv'
  BY <1>1 DEF LocalsInv, ClaimInv, Claim, FlightInv, JobInv, QueueInv, WorkInv
<1>5. OutcomeInv' /\ AcceptedInv' /\ OneChildPerParent'
  BY <1>1, <1>2 DEF OutcomeInv, Terminal, AcceptedInv, OneChildPerParent
<1>. QED
  BY <1>3, <1>4, <1>5

\* The environment's steps, and those of a running operation, touch only the
\* entries of the store, without making one end, and the database.
LEMMA OutsideStepInv ==
  ASSUME IInv,
         store' \in [Task -> Entry],
         \A u \in Task : store'[u].status \in Terminal => store[u].status \in Terminal,
         cluster' \in [Name -> Row \cup {NoRow}], active' \subseteq Actor,
         UNCHANGED <<descr, reserved, pending, events, evset, threads, history>>
  PROVE  IInv'
<1>. USE DEF IInv
<1>1. UNCHANGED <<descr, reserved, pending, events, evset, call, job, stage, queue,
                  work, accepted, asked, askedQueued>>
  BY DEF threads, history
<1>2. TypeOK'
  BY <1>1 DEF TypeOK, StoreTypeOK
<1>3. LocalsInv' /\ ClaimInv' /\ FlightInv' /\ JobInv' /\ QueueInv' /\ WorkInv'
  BY <1>1 DEF LocalsInv, ClaimInv, Claim, FlightInv, JobInv, QueueInv, WorkInv
<1>4. OutcomeInv' /\ AcceptedInv' /\ OneChildPerParent'
  BY <1>1 DEF OutcomeInv, AcceptedInv, OneChildPerParent
<1>. QED
  BY <1>2, <1>3, <1>4

LEMMA EnvironmentInv ==
  ASSUME IInv, Environment
  PROVE  IInv'
<1>. USE DEF IInv, TypeOK, StoreTypeOK
<1>1. ASSUME NEW n \in Name, NEW r \in EnvRows, ChangeRow(n, r) PROVE IInv'
  <2>1. cluster' \in [Name -> Row \cup {NoRow}] /\ store' = store /\ active' = active
    BY <1>1, JobsAssumption DEF ChangeRow, registry
  <2>. QED
    BY <1>1, <2>1, OutsideStepInv DEF ChangeRow, registry
<1>2. ASSUME NEW a \in Revocable, ToggleActor(a) PROVE IInv'
  <2>1. active' \subseteq Actor /\ store' = store /\ cluster' = cluster
    BY <1>2, JobsAssumption DEF ToggleActor, registry
  <2>. QED
    BY <1>2, <2>1, OutsideStepInv DEF ToggleActor, registry
<1>3. ASSUME NEW a \in Cancellers, NEW t \in Task, Cancel(a, t) PROVE IInv'
  BY <1>3, CancelInv, JobsAssumption
<1>4. ASSUME Tick PROVE IInv'
  <2>1. \A u \in Task : /\ store'[u].status = store[u].status
                        /\ store'[u] \in Entry
    <3>1. SUFFICES ASSUME NEW u \in Task, store[u].age < Expire,
                          store'[u] = [store[u] EXCEPT !.age = store[u].age + 1]
                   PROVE  store'[u].status = store[u].status /\ store'[u] \in Entry
      BY <1>4 DEF Tick, TickStore
    <3>2. store[u] \in Entry
      OBVIOUS
    <3>3. store[u].age + 1 \in 0..Expire
      BY <3>1, <3>2, StoreAssumption DEF Entry
    <3>. QED
      BY <3>1, <3>2, <3>3, EntryAge
  <2>2. store' \in [Task -> Entry]
    BY <1>4, <2>1 DEF Tick, TickStore
  <2>. QED
    BY <1>4, <2>1, <2>2, OutsideStepInv DEF Tick, database
<1>. QED
  BY <1>1, <1>2, <1>3, <1>4 DEF Environment

LEMMA ProgressInv ==
  ASSUME IInv, NEW w \in Worker, Progress(w)
  PROVE  IInv'
<1>. DEFINE t == work[w]
<1>. USE DEF IInv
<1>1. t \in Task /\ UNCHANGED <<descr, reserved, pending, events, evset, database, threads, history>>
  BY DEF Progress, TypeOK
<1>2. cluster' \in [Name -> Row \cup {NoRow}] /\ active' \subseteq Actor
  BY <1>1 DEF TypeOK, StoreTypeOK, database
<1>3. CASE PutTask(t, "running", {}, None)
  <2>1. /\ store' \in [Task -> Entry]
        /\ store'[t].status = "running"
        /\ \A u \in Task \ {t} : store'[u] = store[u]
    BY <1>1, <1>3, PutTaskType DEF Status, Live
  <2>. QED
    BY <1>1, <1>2, <2>1, OutsideStepInv DEF Terminal
<1>4. CASE AppendLog(t)
  <2>1. /\ store' \in [Task -> Entry]
        /\ \A u \in Task : store'[u].status = store[u].status
    <3>1. store \in [Task -> Entry] /\ 0 \in 0..Expire
      BY StoreAssumption DEF TypeOK, StoreTypeOK
    <3>2. store' = [store EXCEPT ![t] = [store[t] EXCEPT !.age = 0]]
      BY <1>4, <3>1 DEF AppendLog
    <3>. QED
      BY <1>1, <3>1, <3>2, EntryAge
  <2>. QED
    BY <1>1, <1>2, <2>1, OutsideStepInv
<1>. QED
  BY <1>3, <1>4 DEF Progress

\* Taking a task from a queue.
LEMMA TakeInv ==
  ASSUME IInv, NEW w \in Worker, Take(w)
  PROVE  IInv'
<1>. DEFINE q == Serves[w]
            t == Head(queue[q])
            s == IF job[t].kind = "retry" THEN "taken" ELSE "begun"
<1>. USE DEF IInv
<1>1. q \in Queue /\ queue[q] \in Seq(Task) /\ queue[q] # <<>>
  BY JobsAssumption DEF Take, TypeOK
<1>2. t = queue[q][1] /\ 1 \in 1..Len(queue[q]) /\ t \in Task
  BY <1>1
<1>3. stage[t] = "queued" /\ job[t] \in Job
  BY <1>1, <1>2, NoneApart DEF QueueInv, JobInv
<1>4. /\ queue' = [queue EXCEPT ![q] = Tail(@)]
      /\ work' = [work EXCEPT ![w] = t] /\ work[w] = None
      /\ stage' = [stage EXCEPT ![t] = s]
      /\ UNCHANGED <<descr, reserved, pending, cluster, active, call,
                     accepted, asked, askedQueued>>
  BY DEF Take, Dequeue, SetStage, database, history
<1>5. /\ store' \in [Task -> Entry]
      /\ \A u \in Task : store'[u].status \in {store[u].status, "running"}
  <2>1. CASE job[t].kind = "retry"
    BY <2>1 DEF Take, TypeOK, StoreTypeOK
  <2>2. CASE job[t].kind # "retry"
    <3>1. PutTask(t, "running", {}, None)
      BY <2>2 DEF Take
    <3>2. /\ store' \in [Task -> Entry] /\ store'[t].status = "running"
          /\ \A u \in Task \ {t} : store'[u] = store[u]
      BY <1>2, <3>1, PutTaskType DEF Status, Live
    <3>. QED
      BY <3>2
  <2>. QED
    BY <2>1, <2>2
<1>6. /\ job' \in [Task -> Job \cup {None}]
      /\ \A u \in Task : job[u] \in Job =>
           job'[u] \in Job /\ job'[u].kind = job[u].kind /\ job'[u].desc = job[u].desc
      /\ \A u \in Task \ {t} : job'[u] = job[u]
  <2>1. CASE job[t].kind = "retry"
    <3>1. store[t].status \in Status
      BY <1>2 DEF TypeOK, StoreTypeOK, Entry
    <3>2. job' = [job EXCEPT ![t].seen = store[t].status,
                             ![t].trusted = (descr[t] = job[t].desc)]
      BY <2>1 DEF Take
    <3>3. job' = [job EXCEPT ![t] = [job[t] EXCEPT !.seen = store[t].status,
                                                   !.trusted = (descr[t] = job[t].desc)]]
      BY <3>2 DEF TypeOK
    <3>4. (descr[t] = job[t].desc) \in BOOLEAN
      OBVIOUS
    <3>5. /\ [job[t] EXCEPT !.seen = store[t].status,
                            !.trusted = (descr[t] = job[t].desc)] \in Job
      BY <1>3, <3>1, <3>4 DEF Job
    <3>. QED
      BY <1>2, <1>3, <3>3, <3>5 DEF TypeOK, Job
  <2>2. CASE job[t].kind # "retry"
    BY <2>2 DEF Take, TypeOK
  <2>. QED
    BY <2>1, <2>2
<1>7. queue' \in [Queue -> Seq(Task)] /\ QueueInv'
  <2>1. Tail(queue[q]) \in Seq(Task) /\ Len(Tail(queue[q])) = Len(queue[q]) - 1
    BY <1>1
  <2>2. queue' \in [Queue -> Seq(Task)]
    BY <1>4, <2>1 DEF TypeOK
  <2>3. \A i \in 1..Len(queue'[q]) : i+1 \in 1..Len(queue[q]) /\ queue'[q][i] = queue[q][i+1]
    BY <1>1, <1>4, <2>1 DEF TypeOK
  <2>4. \A p \in Queue \ {q} : queue'[p] = queue[p]
    BY <1>4 DEF TypeOK
  <2>5. \A p, r \in Queue : \A i \in 1..Len(queue[p]), j \in 1..Len(queue[r]) :
          queue[p][i] = queue[r][j] => p = r /\ i = j
    BY DEF QueueInv
  <2>6. \A p \in Queue : \A i \in 1..Len(queue'[p]) :
          /\ queue'[p][i] \in Task /\ queue'[p][i] # t /\ stage[queue'[p][i]] = "queued"
    <3>1. ASSUME NEW i \in 1..Len(queue'[q])
          PROVE  queue'[q][i] \in Task /\ queue'[q][i] # t /\ stage[queue'[q][i]] = "queued"
      <4>1. i \in Nat /\ i # 0 /\ i + 1 \in 1..Len(queue[q])
        BY <2>2, <2>3, <1>1
      <4>2. queue'[q][i] = queue[q][i+1]
        BY <2>3
      <4>3. queue[q][i+1] \in Task /\ stage[queue[q][i+1]] = "queued"
        BY <1>1, <4>1 DEF QueueInv
      <4>4. queue[q][i+1] # queue[q][1]
        <5>1. i + 1 # 1
          BY <4>1
        <5>. QED
          BY <1>1, <1>2, <2>5, <4>1, <5>1
      <4>. QED
        BY <1>2, <4>2, <4>3, <4>4
    <3>2. ASSUME NEW p \in Queue \ {q}, NEW i \in 1..Len(queue'[p])
          PROVE  queue'[p][i] \in Task /\ queue'[p][i] # t /\ stage[queue'[p][i]] = "queued"
      BY <1>1, <1>2, <2>4, <2>5 DEF QueueInv, TypeOK
    <3>. QED
      BY <3>1, <3>2
  <2>7. \A p \in Queue : \A i \in 1..Len(queue'[p]) : stage'[queue'[p][i]] = "queued"
    BY <1>4, <2>6 DEF TypeOK
  <2>8. \A p, r \in Queue : \A i \in 1..Len(queue'[p]), j \in 1..Len(queue'[r]) :
          queue'[p][i] = queue'[r][j] => p = r /\ i = j
    <3>1. SUFFICES ASSUME NEW p \in Queue, NEW r \in Queue,
                          NEW i \in 1..Len(queue'[p]), NEW j \in 1..Len(queue'[r]),
                          queue'[p][i] = queue'[r][j]
                   PROVE  p = r /\ i = j
      OBVIOUS
    <3>2. PICK k \in 1..Len(queue[p]) :
            queue'[p][i] = queue[p][k] /\ k = IF p = q THEN i+1 ELSE i
      BY <2>3, <2>4
    <3>3. PICK l \in 1..Len(queue[r]) :
            queue'[r][j] = queue[r][l] /\ l = IF r = q THEN j+1 ELSE j
      BY <2>3, <2>4
    <3>4. p = r /\ k = l
      <4>1. queue[p][k] = queue[r][l]
        BY <3>1, <3>2, <3>3
      <4>. QED
        BY <2>5, <4>1, Zenon
    <3>5. i \in Int /\ j \in Int
      OBVIOUS
    <3>. QED
      BY <3>2, <3>3, <3>4, <3>5
  <2>. QED
    BY <2>2, <2>7, <2>8 DEF QueueInv
<1>8. TypeOK'
  <2>1. events' \subseteq Task /\ evset' \subseteq Task
    BY <1>2 DEF Take, TypeOK, StoreTypeOK
  <2>. QED
    BY <1>2, <1>4, <1>5, <1>6, <1>7, <2>1 DEF TypeOK, StoreTypeOK, Stage
<1>9. LocalsInv'
  BY <1>4 DEF LocalsInv
<1>10. ClaimInv' /\ FlightInv'
  BY <1>2, <1>3, <1>4 DEF TypeOK, ClaimInv, Claim, FlightInv
<1>11. JobInv'
  BY <1>2, <1>3, <1>4, <1>6, NoneApart DEF TypeOK, JobInv, Run
<1>12. WorkInv'
  BY <1>2, <1>3, <1>4 DEF TypeOK, WorkInv, Run
<1>13. OutcomeInv'
  BY <1>2, <1>3, <1>4, <1>5 DEF TypeOK, OutcomeInv, Terminal
<1>14. AcceptedInv' /\ OneChildPerParent'
  BY <1>2, <1>3, <1>4 DEF TypeOK, AcceptedInv, OneChildPerParent, Run
<1>. QED
  BY <1>7, <1>8, <1>9, <1>10, <1>11, <1>12, <1>13, <1>14

\* A worker is done with its task: the task ends whatever its entry says.
LEMMA FinishInv ==
  ASSUME IInv, NEW w \in Worker, NEW t \in Task, t = work[w], Finish(w, t),
         store' \in [Task -> Entry], \A u \in Task \ {t} : store'[u] = store[u],
         cluster' \in [Name -> Row \cup {NoRow}], events' \subseteq Task,
         UNCHANGED <<descr, reserved, pending, evset, active, call, job, queue, history>>
  PROVE  IInv'
<1>. USE DEF IInv
<1>1. stage[t] \in Run
  BY NoneApart DEF WorkInv
<1>2. /\ stage' = [stage EXCEPT ![t] = "done"]
      /\ work' = [work EXCEPT ![w] = None]
      /\ UNCHANGED <<accepted, asked, askedQueued>>
  BY DEF Finish, SetStage, history
<1>3. TypeOK'
  BY <1>2 DEF TypeOK, StoreTypeOK, Stage
<1>4. LocalsInv'
  BY DEF LocalsInv
<1>5. ClaimInv' /\ FlightInv'
  BY <1>1, <1>2 DEF TypeOK, ClaimInv, Claim, FlightInv, Run
<1>6. JobInv'
  BY <1>1, <1>2 DEF TypeOK, JobInv, Run
<1>7. QueueInv'
  BY <1>1, <1>2 DEF TypeOK, QueueInv, Run
<1>8. WorkInv'
  BY <1>2 DEF TypeOK, WorkInv
<1>9. OutcomeInv'
  BY <1>2 DEF TypeOK, OutcomeInv
<1>10. AcceptedInv' /\ OneChildPerParent'
  BY <1>1, <1>2 DEF TypeOK, AcceptedInv, OneChildPerParent, Run
<1>. QED
  BY <1>3, <1>4, <1>5, <1>6, <1>7, <1>8, <1>9, <1>10

\* A worker goes on with its task.
LEMMA AdvanceInv ==
  ASSUME IInv, NEW w \in Worker, NEW t \in Task, t = work[w],
         NEW s \in Run, SetStage(t, s),
         store' \in [Task -> Entry],
         \A u \in Task : store'[u].status \in {store[u].status, "running"},
         job' \in [Task -> Job \cup {None}],
         job'[t] \in Job, job'[t].kind = job[t].kind, job'[t].desc = job[t].desc,
         \A u \in Task \ {t} : job'[u] = job[u],
         UNCHANGED <<descr, reserved, pending, events, evset, database, call,
                     queue, work, history>>
  PROVE  IInv'
<1>. USE DEF IInv
<1>1. stage[t] \in Run /\ job[t] \in Job
  BY NoneApart DEF WorkInv, JobInv
<1>2. /\ stage' = [stage EXCEPT ![t] = s]
      /\ UNCHANGED <<cluster, active, accepted, asked, askedQueued>>
  BY DEF SetStage, database, history
<1>3. TypeOK'
  BY <1>2 DEF TypeOK, StoreTypeOK, Stage, Run
<1>4. LocalsInv'
  BY DEF LocalsInv
<1>5. ClaimInv' /\ FlightInv'
  BY <1>1, <1>2 DEF TypeOK, ClaimInv, Claim, FlightInv, Run
<1>6. JobInv'
  BY <1>1, <1>2 DEF TypeOK, JobInv, Run
<1>7. QueueInv' /\ WorkInv'
  BY <1>1, <1>2 DEF TypeOK, QueueInv, WorkInv, Run
<1>8. OutcomeInv'
  BY <1>1, <1>2 DEF TypeOK, OutcomeInv, Run, Terminal
<1>9. AcceptedInv' /\ OneChildPerParent'
  BY <1>1, <1>2 DEF TypeOK, AcceptedInv, OneChildPerParent, Run
<1>. QED
  BY <1>3, <1>4, <1>5, <1>6, <1>7, <1>8, <1>9

LEMMA PutOutcome ==
  ASSUME TypeOK, NEW t \in Task, NEW s \in {"running", "completed", "error", "cancelled"},
         \/ PutTask(t, s, {}, None)
         \/ s = "error" /\ ReportRetryError(t)
  PROVE  /\ store' \in [Task -> Entry]
         /\ \A u \in Task \ {t} : store'[u] = store[u]
         /\ s = "running" => store'[t].status = "running"
<1>1. CASE PutTask(t, s, {}, None)
  BY <1>1, PutTaskType DEF Status, Live, Terminal
<1>2. CASE s = "error" /\ ReportRetryError(t)
  <2>1. CASE Present(t)
    BY <1>2, <2>1, PutTaskType DEF ReportRetryError, Status, Terminal
  <2>2. CASE ~Present(t)
    BY <1>2, <2>2 DEF ReportRetryError, TypeOK, StoreTypeOK
  <2>. QED
    BY <2>1, <2>2
<1>. QED
  BY <1>1, <1>2

LEMMA RetryDecideInv ==
  ASSUME IInv, NEW w \in Worker, RetryDecide(w)
  PROVE  IInv'
<1>. DEFINE t == work[w]
<1>. USE DEF IInv
<1>1. t \in Task /\ job[t] \in Job
  BY NoneApart DEF RetryDecide, TypeOK, WorkInv, JobInv
<1>2. UNCHANGED <<descr, reserved, pending, events, evset, database, call, job, queue, history>>
  BY DEF RetryDecide
<1>3. /\ cluster' \in [Name -> Row \cup {NoRow}] /\ events' \subseteq Task
      /\ active' = active
  BY <1>2 DEF TypeOK, StoreTypeOK, database
<1>4. CASE PutTask(t, "running", {}, None) /\ SetStage(t, "begun") /\ UNCHANGED work
  <2>1. /\ store' \in [Task -> Entry]
        /\ \A u \in Task : store'[u].status \in {store[u].status, "running"}
    BY <1>1, <1>4, PutOutcome
  <2>2. "begun" \in Run
    BY DEF Run
  <2>. QED
    BY <1>1, <1>2, <1>4, <2>1, <2>2, AdvanceInv DEF TypeOK
<1>5. CASE PutTask(t, "cancelled", {}, None) /\ Finish(w, t)
  BY <1>1, <1>2, <1>3, <1>5, PutOutcome, FinishInv
<1>6. CASE ReportRetryError(t) /\ Finish(w, t)
  BY <1>1, <1>2, <1>3, <1>6, PutOutcome, FinishInv
<1>. QED
  BY <1>4, <1>5, <1>6 DEF RetryDecide

LEMMA OpStartInv ==
  ASSUME IInv, NEW w \in Worker, OpStart(w)
  PROVE  IInv'
<1>. DEFINE t == work[w]
<1>. USE DEF IInv
<1>1. t \in Task /\ job[t] \in Job
  BY NoneApart DEF OpStart, TypeOK, WorkInv, JobInv
<1>2. /\ SetStage(t, "op")
      /\ UNCHANGED <<store, descr, reserved, pending, events, evset, database,
                     call, queue, work, history>>
  BY DEF OpStart, registry
<1>3. /\ job' \in [Task -> Job \cup {None}] /\ job'[t] \in Job
      /\ job'[t].kind = job[t].kind /\ job'[t].desc = job[t].desc
      /\ \A u \in Task \ {t} : job'[u] = job[u]
  <2>1. CASE job' = job
    BY <1>1, <2>1 DEF TypeOK
  <2>2. CASE job[t].kind # "create"
    <3>1. cluster[job[t].desc.name] \in Row \cup {NoRow}
      BY <1>1, <2>2 DEF JobInv, TypeOK, StoreTypeOK, Desc
    <3>2. job' = [job EXCEPT ![t] = [job[t] EXCEPT !.row = cluster[job[t].desc.name]]]
      BY <2>2 DEF OpStart, TypeOK
    <3>3. [job[t] EXCEPT !.row = cluster[job[t].desc.name]] \in Job
      BY <1>1, <3>1 DEF Job
    <3>4. /\ [job[t] EXCEPT !.row = cluster[job[t].desc.name]].kind = job[t].kind
          /\ [job[t] EXCEPT !.row = cluster[job[t].desc.name]].desc = job[t].desc
      BY <1>1 DEF Job
    <3>. QED
      BY <1>1, <3>2, <3>3, <3>4 DEF TypeOK
  <2>. QED
    BY <2>1, <2>2 DEF OpStart
<1>4. /\ store' \in [Task -> Entry]
      /\ \A u \in Task : store'[u].status \in {store[u].status, "running"}
  BY <1>2 DEF TypeOK, StoreTypeOK
<1>. QED
  BY <1>1, <1>2, <1>3, <1>4, AdvanceInv DEF Run

LEMMA OpSucceedInv ==
  ASSUME IInv, NEW w \in Worker, OpSucceed(w)
  PROVE  IInv'
<1>. DEFINE t == work[w]
<1>. USE DEF IInv
<1>1. t \in Task /\ job[t] \in Job /\ job[t].row \in Row \cup {NoRow}
  BY NoneApart DEF OpSucceed, TypeOK, WorkInv, JobInv, Job
<1>2. cluster' \in [Name -> Row \cup {NoRow}]
  BY <1>1 DEF OpSucceed, TypeOK, StoreTypeOK
<1>3. /\ PutTask(t, "completed", {}, None) /\ Finish(w, t) /\ events' \subseteq Task
      /\ UNCHANGED <<descr, reserved, pending, evset, active, call, job, queue, history>>
  BY DEF OpSucceed, TypeOK, StoreTypeOK
<1>. QED
  BY <1>1, <1>2, <1>3, PutOutcome, FinishInv

LEMMA OpFailInv ==
  ASSUME IInv, NEW w \in Worker, OpFail(w)
  PROVE  IInv'
<1>. DEFINE t == work[w]
<1>. USE DEF IInv
<1>1. t \in Task /\ job[t] \in Job /\ job[t].row \in Row \cup {NoRow}
  BY NoneApart DEF OpFail, TypeOK, WorkInv, JobInv, Job
<1>2. cluster' \in [Name -> Row \cup {NoRow}]
  BY <1>1 DEF OpFail, Leftover, TypeOK, StoreTypeOK
<1>3. /\ Finish(w, t) /\ events' \subseteq Task
      /\ UNCHANGED <<descr, reserved, pending, evset, active, call, job, queue, history>>
  BY DEF OpFail, TypeOK, StoreTypeOK
<1>4. \/ ReportRetryError(t)
      \/ PutTask(t, "cancelled", {}, None)
      \/ PutTask(t, "error", {}, None)
  BY DEF OpFail, FailStatus
<1>5. /\ store' \in [Task -> Entry]
      /\ \A u \in Task \ {t} : store'[u] = store[u]
  BY <1>1, <1>4, PutOutcome
<1>. QED
  BY <1>1, <1>2, <1>3, <1>5, FinishInv

\* A finished create leaves the create worker and enters the deploy queue.
LEMMA CreateSucceedInv ==
  ASSUME IInv, NEW w \in Worker, NEW n \in Name, NEW r \in Row, CreateSucceed(w, n, r)
  PROVE  IInv'
<1>. DEFINE t == work[w]
            d == [op |-> "deploy", name |-> n, fp |-> r.fp]
<1>. USE DEF IInv
<1>1. t \in Task /\ job[t] \in Job /\ stage[t] = "op" /\ job[t].kind = "create"
  BY NoneApart DEF CreateSucceed, TypeOK, WorkInv, JobInv, Run
<1>2. d \in Desc
  BY <1>1, JobsAssumption DEF JobInv, Desc, Row
<1>3. /\ stage' = [stage EXCEPT ![t] = "queued"]
      /\ work' = [work EXCEPT ![w] = None]
      /\ UNCHANGED <<reserved, pending, evset, active, call, accepted, asked, askedQueued>>
  BY DEF CreateSucceed, SetStage, history
<1>4. /\ job' \in [Task -> Job \cup {None}] /\ job'[t] \in Job
      /\ job'[t].kind = "chain" /\ job'[t].desc = d
      /\ \A u \in Task \ {t} : job'[u] = job[u]
  <2>1. Closure("chain", d, job[t].actor, None) \in Job
    BY <1>1, <1>2, ClosureType DEF Kind, Job
  <2>. QED
    BY <1>1, <2>1 DEF CreateSucceed, TypeOK, Closure
<1>5. queue' \in [Queue -> Seq(Task)] /\ QueueInv'
  BY <1>1, EnqueueKeeps DEF CreateSucceed
<1>6. /\ store' \in [Task -> Entry]
      /\ \A u \in Task : store'[u].status = store[u].status
  <2>1. store \in [Task -> Entry] /\ 0 \in 0..Expire
    BY StoreAssumption DEF TypeOK, StoreTypeOK
  <2>2. store' = store \/ store' = [store EXCEPT ![t] = [store[t] EXCEPT !.age = 0]]
    BY <2>1 DEF CreateSucceed, AppendLog
  <2>3. /\ [store[t] EXCEPT !.age = 0] \in Entry
        /\ [store[t] EXCEPT !.age = 0].status = store[t].status
    BY <1>1, <2>1, EntryAge
  <2>. QED
    BY <1>1, <2>1, <2>2, <2>3
<1>7. /\ descr' \in [Task -> Desc \cup {None}]
      /\ \A u \in Task \ {t} : descr'[u] = descr[u]
  BY <1>1, <1>2 DEF CreateSucceed, RememberRetry, TypeOK, StoreTypeOK
<1>8. TypeOK'
  <2>1. cluster' \in [Name -> Row \cup {NoRow}] /\ events' \subseteq Task
    BY DEF CreateSucceed, TypeOK, StoreTypeOK
  <2>. QED
    BY <1>3, <1>4, <1>5, <1>6, <1>7, <2>1 DEF TypeOK, StoreTypeOK, Stage
<1>9. LocalsInv'
  BY <1>3 DEF LocalsInv
<1>10. ClaimInv' /\ FlightInv'
  BY <1>1, <1>3 DEF TypeOK, ClaimInv, Claim, FlightInv
<1>11. JobInv'
  BY <1>1, <1>2, <1>3, <1>4 DEF TypeOK, JobInv, Run
<1>12. WorkInv'
  BY <1>1, <1>3 DEF TypeOK, WorkInv, Run
<1>13. OutcomeInv'
  BY <1>1, <1>3, <1>6 DEF TypeOK, OutcomeInv
<1>14. AcceptedInv' /\ OneChildPerParent'
  BY <1>1, <1>3, <1>7 DEF TypeOK, AcceptedInv, OneChildPerParent, Run
<1>. QED
  BY <1>5, <1>8, <1>9, <1>10, <1>11, <1>12, <1>13, <1>14

-----------------------------------------------------------------------------
(* The theorems.                                                           *)

\* Every action of the request threads, the workers and the environment
\* preserves the inductive invariant.
THEOREM NextInv == IInv /\ [Next]_vars => IInv'
<1>. SUFFICES ASSUME IInv, [Next]_vars PROVE IInv'
  OBVIOUS
<1>1. ASSUME NEW c \in Caller, Request(c) PROVE IInv'
  BY <1>1, SubmitCreateInv, SubmitInv, RetryReadInv DEF Request
<1>2. ASSUME NEW c \in Caller, CallerStep(c) PROVE IInv'
  BY <1>2, SubmitRememberInv, SubmitEnqueueInv, CallerCleanupInv, RetryReserveInv,
     RetryRefusedInv, RetryRecheckInv, RetryBindInv, RetryPublishInv,
     RetryEnqueueInv, RetryFinallyInv
  DEF CallerStep, RetryStep
<1>3. ASSUME NEW w \in Worker, WorkerStep(w) PROVE IInv'
  BY <1>3, TakeInv, RetryDecideInv, OpStartInv, OpSucceedInv, OpFailInv, CreateSucceedInv
  DEF WorkerStep
<1>4. CASE UNCHANGED vars
  BY <1>4 DEF vars, registry, database, threads, history, IInv, TypeOK, StoreTypeOK,
     LocalsInv, ClaimInv, Claim, FlightInv, JobInv, QueueInv, WorkInv, OutcomeInv,
     AcceptedInv, OneChildPerParent
<1>. QED
  BY <1>1, <1>2, <1>3, <1>4, RetryFaultInv, ProgressInv, EnvironmentInv DEF Next

\* The inductive invariant holds in every reachable state of the job system.
THEOREM JobsInductive == Spec => []IInv
BY InitInv, NextInv, PTL DEF Spec

\* Every variable of the job system keeps its type, for every number of
\* tasks, threads and accounts.
THEOREM JobsType == Spec => []TypeOK
<1>1. IInv => TypeOK
  BY DEF IInv
<1>. QED
  BY <1>1, JobsInductive, PTL

\* retry_task never accepts two retries of one job, however its requests,
\* the workers and the cleanup interleave.
THEOREM AtMostOneRetry == Spec => []OneChildPerParent
<1>1. IInv => OneChildPerParent
  BY DEF IInv
<1>. QED
  BY <1>1, JobsInductive, PTL

\* No job is in two queues, or with two workers, or both.
THEOREM NoDoubleRun == Spec => []JobRunsOnce
<1>1. IInv => JobRunsOnce
  BY NoneApart DEF IInv, QueueInv, WorkInv, JobRunsOnce, Run
<1>. QED
  BY <1>1, JobsInductive, PTL

-----------------------------------------------------------------------------
(* What becomes of a job.                                                  *)

\* At the start no job has a status, a cancel event or a closure.
LEMMA EndInit == Init => EndInv
<1>. SUFFICES ASSUME Init PROVE EndInv
  OBVIOUS
<1>. QED
  BY NoneApart DEF Init, StoreInit, NoEntry, EndInv, EndOf, Live

\* Tasks outside S keep their stage, closure and status, unless their entry
\* expires; it is enough to look at those in S.
LEMMA EndKeeps ==
  ASSUME EndInv, NEW S \in SUBSET Task,
         \A u \in Task \ S : /\ stage'[u] = stage[u] /\ job'[u] = job[u]
                            /\ store'[u].status \in {store[u].status, "absent"},
         events' \subseteq events \cup S,
         \A c \in Caller : Claim(c) \in Task \ S => Claim(c)' = Claim(c),
         asked \subseteq asked', askedQueued' \subseteq askedQueued \cup S,
         evset' \subseteq asked',
         \A t \in S : EndOf(t)'
  PROVE  EndInv'
<1>1. ASSUME NEW u \in Task \ S PROVE EndOf(u)'
  <2>1. EndOf(u)
    BY DEF EndInv
  <2>2. /\ stage'[u] = stage[u] /\ job'[u] = job[u]
        /\ store'[u].status = store[u].status \/ store'[u].status = "absent"
        /\ u \in events' => u \in events
        /\ u \in asked => u \in asked'
        /\ u \in askedQueued' => u \in askedQueued
    OBVIOUS
  <2>3. ASSUME store'[u].status \in Live
        PROVE  stage'[u] \in {"queued"} \cup Run \/ \E c \in Caller : Claim(c)' = u
    <3>1. store[u].status \in Live
      BY <2>2, <2>3 DEF Live
    <3>2. CASE stage[u] \in {"queued"} \cup Run
      BY <2>2, <3>2
    <3>3. ASSUME NEW c \in Caller, Claim(c) = u PROVE Claim(c)' = u
      BY <3>3
    <3>. QED
      BY <2>1, <3>1, <3>2, <3>3 DEF EndOf
  <2>. QED
    BY <2>1, <2>2, <2>3 DEF EndOf
<1>. QED
  BY <1>1 DEF EndInv

\* Steps that leave every job where it is.
LEMMA EndUntouched ==
  ASSUME EndInv, UNCHANGED <<stage, job, asked, askedQueued, evset>>,
         \A u \in Task : store'[u].status \in {store[u].status, "absent"},
         events' \subseteq events,
         \A c \in Caller : Claim(c) \in Task => Claim(c)' = Claim(c)
  PROVE  EndInv'
<1>1. evset' \subseteq asked'
  BY DEF EndInv
<1>. QED
  BY <1>1, EndKeeps, {} \in SUBSET Task

\* A new job is in the hands of the thread that made it.
LEMMA SubmitEnd ==
  ASSUME IInv, EndInv, NEW c \in Caller, NEW t \in Task, stage[t] = "none",
         NEW who \in SUBSET Actor, PutTask(t, "running", who, None),
         NEW j \in Job, j.seen = "absent", job' = [job EXCEPT ![t] = j],
         SetStage(t, "claimed"), call[c].pc = "idle",
         NEW pc \in Submitting, call' = [call EXCEPT ![c] = [Idle EXCEPT !.pc = pc, !.task = t]],
         UNCHANGED <<events, evset, history>>
  PROVE  EndInv'
<1>. USE DEF IInv, TypeOK
<1>1. /\ stage'[t] = "claimed" /\ job'[t] = j /\ store'[t].status = "running"
      /\ \A u \in Task \ {t} : /\ stage'[u] = stage[u] /\ job'[u] = job[u]
                               /\ store'[u] = store[u]
  BY PutTaskType DEF SetStage, Status, Live
<1>2. UNCHANGED <<asked, askedQueued>>
  BY DEF history
<1>3. Claim(c) = None /\ Claim(c)' = t /\ \A b \in Caller \ {c} : Claim(b)' = Claim(b)
  BY DEF Claim, Idle, Submitting, Unsent
<1>4. t \notin events /\ t \notin askedQueued
  BY DEF EndInv, EndOf
<1>5. EndOf(t)'
  BY <1>1, <1>2, <1>3, <1>4 DEF EndOf, Live
<1>6. \A b \in Caller : Claim(b) \in Task \ {t} => Claim(b)' = Claim(b)
  BY <1>3, NoneApart
<1>7. evset' \subseteq asked'
  BY <1>2 DEF EndInv
<1>. QED
  BY <1>1, <1>2, <1>5, <1>6, <1>7, EndKeeps, {t} \in SUBSET Task

LEMMA RequestEnd ==
  ASSUME IInv, EndInv, NEW c \in Caller, Request(c)
  PROVE  EndInv'
<1>. USE DEF IInv, TypeOK, StoreTypeOK
<1>1. ASSUME NEW a \in Actor, SubmitCreate(c, a) PROVE EndInv'
  <2>1. /\ NewTaskId \in Task /\ stage[NewTaskId] = "none" /\ {a} \in SUBSET Actor
        /\ call[c].pc = "idle"
    BY <1>1, NewTaskIdUnused DEF SubmitCreate
  <2>2. /\ Closure("create", None, a, None) \in Job
        /\ Closure("create", None, a, None).seen = "absent"
    BY ClosureType DEF Kind, Closure
  <2>. QED
    BY <1>1, <2>1, <2>2, SubmitEnd DEF SubmitCreate, Submitting
<1>2. ASSUME NEW a \in Actor, NEW op \in Operation, NEW n \in Name, Submit(c, a, op, n)
      PROVE  EndInv'
  <2>. DEFINE t == NewTaskId
              d == [op |-> op, name |-> n, fp |-> cluster[n].fp]
  <2>1. t \in Task /\ stage[t] = "none" /\ call[c].pc = "idle"
    BY <1>2, NewTaskIdUnused DEF Submit
  <2>2. cluster[n] \in Row /\ d \in Desc
    BY <1>2 DEF Submit, CanCluster, Desc, Row
  <2>3. {a, Owner[d.fp]} \in SUBSET Actor
    BY <2>2, StoreAssumption DEF Row
  <2>4. Closure("plain", d, a, None) \in Job /\ Closure("plain", d, a, None).seen = "absent"
    BY <2>2, ClosureType DEF Kind, Closure
  <2>. QED
    BY <1>2, <2>1, <2>3, <2>4, SubmitEnd DEF Submit, Submitting
<1>3. ASSUME NEW a \in Actor, NEW p \in Task, RetryRead(c, a, p) PROVE EndInv'
  <2>1. \A b \in Caller : Claim(b)' = Claim(b)
    BY <1>3 DEF RetryRead, Claim, Submitting, Unsent
  <2>. QED
    BY <1>3, <2>1, EndUntouched DEF RetryRead, registry, history
<1>. QED
  BY <1>1, <1>2, <1>3 DEF Request

\* A thread that still holds a task, and only goes on with it.
LEMMA HoldEnd ==
  ASSUME IInv, EndInv, NEW c \in Caller, NEW pc \in CallerPc,
         call' = [call EXCEPT ![c].pc = pc],
         \/ call[c].pc \in Submitting /\ pc \in Submitting
         \/ call[c].pc \in Unsent /\ pc \in Unsent
         \/ Claim(c) = None /\ pc \notin Submitting \cup Unsent,
         NEW S \in SUBSET Task, \A t \in S : t = Claim(c),
         \A u \in Task \ S : store'[u] = store[u],
         \A t \in S : store'[t].status = "running",
         UNCHANGED <<events, evset, job, stage, history>>
  PROVE  EndInv'
<1>. USE DEF IInv, TypeOK
<1>1. /\ call'[c] = [call[c] EXCEPT !.pc = pc] /\ \A b \in Caller \ {c} : call'[b] = call[b]
      /\ call'[c].pc = pc /\ call'[c].task = call[c].task /\ call'[c].kid = call[c].kid
  BY GotoType DEF Call
<1>2. \A b \in Caller : Claim(b)' = Claim(b)
  BY <1>1, Zenon DEF Claim, Submitting, Unsent
<1>3. asked' = asked /\ askedQueued' = askedQueued /\ evset' \subseteq asked'
  BY DEF history, EndInv
<1>4. ASSUME NEW t \in S PROVE EndOf(t)'
  <2>1. stage[t] = "claimed" /\ EndOf(t) /\ stage'[t] = stage[t] /\ job'[t] = job[t]
    BY NoneApart DEF ClaimInv, EndInv
  <2>2. Claim(c)' = t /\ store'[t].status = "running"
    BY <1>2
  <2>3. t \notin askedQueued' /\ t \notin events'
    BY <1>3, <2>1 DEF EndOf
  <2>. QED
    BY <1>3, <2>1, <2>2, <2>3 DEF EndOf
<1>. QED
  BY <1>2, <1>3, <1>4, EndKeeps

\* A thread hands the task it holds to a queue.
LEMMA HandOverEnd ==
  ASSUME IInv, EndInv, NEW c \in Caller, NEW t \in Task, Claim(c) = t,
         SetStage(t, "queued"),
         NEW pc \in CallerPc, call' = [call EXCEPT ![c].pc = pc],
         job'[t] \in Job /\ job'[t].seen \in {"cancelling", "cancelled"} => t \in asked,
         \A u \in Task \ {t} : job'[u] = job[u],
         UNCHANGED <<store, events, evset, asked, askedQueued>>
  PROVE  EndInv'
<1>. USE DEF IInv, TypeOK
<1>1. stage[t] = "claimed" /\ EndOf(t)
  BY NoneApart DEF ClaimInv, EndInv
<1>2. stage'[t] = "queued" /\ \A u \in Task \ {t} : stage'[u] = stage[u]
  BY DEF SetStage
<1>3. \A b \in Caller \ {c} : call'[b] = call[b]
  BY GotoType
<1>4. \A b \in Caller : Claim(b) \in Task \ {t} => Claim(b)' = Claim(b)
  BY <1>3 DEF Claim
<1>5. t \notin askedQueued /\ t \notin events
  BY <1>1 DEF EndOf
<1>6. EndOf(t)'
  BY <1>1, <1>2, <1>5 DEF EndOf
<1>7. evset' \subseteq asked'
  BY DEF EndInv
<1>. QED
  BY <1>2, <1>4, <1>6, <1>7, EndKeeps, {t} \in SUBSET Task

LEMMA SubmissionEnd ==
  ASSUME IInv, EndInv, NEW c \in Caller,
         SubmitRemember(c) \/ SubmitEnqueue(c) \/ CallerCleanup(c)
  PROVE  EndInv'
<1>. USE DEF IInv, TypeOK
<1>1. CASE SubmitRemember(c)
  <2>1. /\ call[c].pc = "submitted" /\ call' = [call EXCEPT ![c].pc = "remembered"]
        /\ UNCHANGED <<store, events, evset, job, stage, history>>
    BY <1>1 DEF SubmitRemember, Goto
  <2>2. {} \in SUBSET Task /\ "remembered" \in CallerPc
    BY DEF CallerPc, Submitting
  <2>. QED
    BY <2>1, <2>2, HoldEnd DEF Submitting
<1>2. CASE SubmitEnqueue(c)
  <2>. DEFINE t == call[c].task
  <2>1. /\ call[c].pc = "remembered" /\ t \in Task /\ Claim(c) = t
        /\ call' = [call EXCEPT ![c].pc = "cleanup"]
        /\ SetStage(t, "queued")
        /\ UNCHANGED <<store, events, evset, job, asked, askedQueued>>
    BY <1>2 DEF SubmitEnqueue, LocalsInv, Claim, Submitting, Goto, registry, history
  <2>2. stage[t] = "claimed" /\ EndOf(t) /\ "cleanup" \in CallerPc
    BY <2>1, NoneApart DEF ClaimInv, EndInv, CallerPc
  <2>3. job'[t] \in Job /\ job'[t].seen \in {"cancelling", "cancelled"} => t \in asked
    BY <2>1, <2>2 DEF EndOf
  <2>. QED
    BY <2>1, <2>2, <2>3, HandOverEnd
<1>3. CASE CallerCleanup(c)
  <2>1. /\ call' = [call EXCEPT ![c] = Idle] /\ call[c].pc = "cleanup"
        /\ UNCHANGED <<stage, job, asked, askedQueued, evset>>
        /\ events' \subseteq events
    BY <1>3 DEF CallerCleanup, CleanupOldTasks, Hangup, history
  <2>2. \A u \in Task : store'[u].status \in {store[u].status, "absent"}
    BY <1>3 DEF CallerCleanup, CleanupOldTasks, NoEntry
  <2>3. \A b \in Caller : Claim(b) \in Task => Claim(b)' = Claim(b)
    BY <2>1, NoneApart DEF Claim, Submitting, Unsent
  <2>. QED
    BY <2>1, <2>2, <2>3, EndUntouched
<1>. QED
  BY <1>1, <1>2, <1>3

LEMMA RetryStepEnd ==
  ASSUME IInv, EndInv, NEW c \in Caller, RetryStep(c) \/ RetryFault(c)
  PROVE  EndInv'
<1>. USE DEF IInv, TypeOK
<1>. PICK kid : kid = call[c].kid
  OBVIOUS
<1>0. /\ {} \in SUBSET Task
      /\ \A pc \in {"idle", "cleanup"} \cup InFlight : pc \in CallerPc
      /\ \A pc \in {"read", "enqueued"} :
           call[c].pc = pc => Claim(c) = None
      /\ \A pc \in Unsent : call[c].pc = pc => Claim(c) = kid /\ kid \in Task
  BY DEF CallerPc, Claim, Submitting, Unsent, LocalsInv, InFlight
<1>1. CASE RetryReserve(c)
  <2>1. PICK t \in Task : t = NewTaskId /\ stage[t] = "none"
    BY <1>1, NewTaskIdUnused DEF RetryReserve
  <2>2. /\ stage' = [stage EXCEPT ![t] = "claimed"]
        /\ call' = [call EXCEPT ![c].pc = "reserved", ![c].kid = t]
        /\ call[c].pc = "read"
        /\ UNCHANGED <<store, events, evset, job, asked, askedQueued>>
    BY <1>1, <2>1 DEF RetryReserve, Reserve, SetStage, history
  <2>3. call'[c].pc = "reserved" /\ call'[c].kid = t /\ \A b \in Caller \ {c} : call'[b] = call[b]
    <3>1. call[c] \in Call /\ call \in [Caller -> Call]
      OBVIOUS
    <3>2. call' = [call EXCEPT ![c] = [call[c] EXCEPT !.pc = "reserved", !.kid = t]]
      BY <2>2, <3>1
    <3>. QED
      BY <3>1, <3>2 DEF Call
  <2>4. Claim(c)' = t /\ \A b \in Caller : Claim(b) \in Task \ {t} => Claim(b)' = Claim(b)
    BY <1>0, <2>2, <2>3, NoneApart DEF Claim, Submitting, Unsent
  <2>5. EndOf(t) /\ stage'[t] = "claimed"
    BY <2>1, <2>2 DEF EndInv
  <2>6. t \notin askedQueued /\ t \notin events
    BY <2>1, <2>5 DEF EndOf
  <2>7. EndOf(t)'
    BY <2>2, <2>4, <2>5, <2>6 DEF EndOf
  <2>8. \A u \in Task \ {t} : stage'[u] = stage[u]
    BY <2>2
  <2>9. evset' \subseteq asked'
    BY <2>2 DEF EndInv
  <2>. QED
    BY <2>1, <2>2, <2>4, <2>7, <2>8, <2>9, EndKeeps, {t} \in SUBSET Task
<1>2. CASE RetryRefused(c)
  <2>1. \A b \in Caller : Claim(b)' = Claim(b)
    BY <1>2 DEF RetryRefused, Hangup, Idle, Claim, Submitting, Unsent
  <2>. QED
    BY <1>2, <2>1, EndUntouched DEF RetryRefused, registry, history
<1>3. CASE RetryRecheck(c) \/ RetryFault(c)
  <2>1. PICK pc \in {"rechecked", "failing"} : call' = [call EXCEPT ![c].pc = pc]
    BY <1>3 DEF RetryRecheck, RetryFault, Goto
  <2>2. /\ call[c].pc \in Unsent /\ pc \in Unsent /\ pc \in CallerPc
        /\ UNCHANGED <<store, events, evset, job, stage, history>>
    BY <1>0, <1>3, <2>1 DEF RetryRecheck, RetryFault, registry, Unsent, InFlight
  <2>. QED
    BY <1>0, <2>1, <2>2, HoldEnd
<1>4. CASE RetryBind(c)
  <2>1. PICK pc \in {"bound", "failing"} : call' = [call EXCEPT ![c].pc = pc]
    BY <1>4 DEF RetryBind, Goto
  <2>2. /\ call[c].pc \in Unsent /\ pc \in Unsent /\ pc \in CallerPc
        /\ UNCHANGED <<store, events, evset, job, stage, history>>
    BY <1>0, <1>4, <2>1 DEF RetryBind, Unsent, InFlight
  <2>. QED
    BY <1>0, <2>1, <2>2, HoldEnd
<1>5. CASE RetryPublish(c)
  <2>1. /\ call[c].pc = "bound" /\ kid \in Task /\ Claim(c) = kid
        /\ call[c].desc \in Desc /\ call[c].actor \in Actor /\ call[c].task \in Task
        /\ call' = [call EXCEPT ![c].pc = "published"]
        /\ UNCHANGED <<events, evset, job, stage, history>>
    BY <1>0, <1>5 DEF RetryPublish, Goto, LocalsInv, InFlight, Unsent
  <2>2. {call[c].actor, Owner[call[c].desc.fp]} \in SUBSET Actor
    BY <2>1, StoreAssumption DEF Desc
  <2>3. /\ store'[kid].status = "running"
        /\ \A u \in Task \ {kid} : store'[u] = store[u]
    <3>1. PutTask(kid, "running", {call[c].actor, Owner[call[c].desc.fp]}, call[c].task)
      BY <1>5 DEF RetryPublish
    <3>. QED
      BY <2>1, <2>2, <3>1, PutTaskType DEF Status, Live
  <2>4. "bound" \in Unsent /\ "published" \in Unsent /\ "published" \in CallerPc
    BY <1>0 DEF Unsent, InFlight
  <2>. QED
    BY <2>1, <2>3, <2>4, HoldEnd, {kid} \in SUBSET Task
<1>6. CASE RetryEnqueue(c)
  <2>1. /\ call[c].pc = "published" /\ kid \in Task /\ Claim(c) = kid
        /\ SetStage(kid, "queued")
        /\ call' = [call EXCEPT ![c].pc = "enqueued"]
        /\ job' = [job EXCEPT ![kid] = RetryClosure(c)]
        /\ UNCHANGED <<store, events, evset, asked, askedQueued>>
    BY <1>0, <1>6 DEF RetryEnqueue, Goto, Unsent, registry
  <2>2. RetryClosure(c).seen = "absent"
    BY DEF RetryClosure, Closure
  <2>3. "enqueued" \in CallerPc
    BY <1>0 DEF InFlight
  <2>. QED
    BY <2>1, <2>2, <2>3, HandOverEnd
<1>7. CASE RetryFinally(c) /\ call[c].pc = "enqueued"
  <2>1. /\ call' = [call EXCEPT ![c].pc = "cleanup"]
        /\ UNCHANGED <<store, events, evset, job, stage, history>>
    BY <1>7 DEF RetryFinally, ReleaseAccepted, Goto
  <2>. QED
    BY <1>0, <1>7, <2>1, HoldEnd DEF Submitting, Unsent
<1>8. CASE RetryFinally(c) /\ call[c].pc = "failing"
  <2>1. /\ kid \in Task /\ reserved[call[c].task] = kid /\ stage[kid] = "claimed"
        /\ Claim(c) = kid
    BY <1>0, <1>8, NoneApart DEF FlightInv, InFlight, Unsent, ClaimInv
  <2>2. /\ call' = [call EXCEPT ![c] = Idle]
        /\ store' = [store EXCEPT ![kid] = NoEntry]
        /\ stage' = [stage EXCEPT ![kid] = "dropped"]
        /\ events' = events \ {kid}
        /\ UNCHANGED <<evset, job, asked, askedQueued>>
    BY <1>8, <2>1 DEF RetryFinally, ReleaseFailed, Hangup, SetStage, history
  <2>3. \A b \in Caller : Claim(b) \in Task \ {kid} => Claim(b)' = Claim(b)
    BY <2>1, <2>2 DEF Claim
  <2>4. EndOf(kid) /\ store'[kid] = NoEntry /\ stage'[kid] = "dropped"
    BY <2>1, <2>2 DEF EndInv, StoreTypeOK
  <2>5. kid \notin askedQueued
    BY <2>1, <2>4 DEF EndOf
  <2>6. EndOf(kid)'
    BY <2>2, <2>4, <2>5 DEF EndOf, NoEntry, Live
  <2>7. \A u \in Task \ {kid} : stage'[u] = stage[u] /\ store'[u] = store[u]
    BY <2>2 DEF StoreTypeOK
  <2>8. evset' \subseteq asked' /\ {kid} \in SUBSET Task
    BY <2>1, <2>2 DEF EndInv
  <2>. QED
    BY <2>2, <2>3, <2>6, <2>7, <2>8, EndKeeps
<1>. QED
  BY <1>1, <1>2, <1>3, <1>4, <1>5, <1>6, <1>7, <1>8 DEF RetryStep, RetryFinally

\* cancel_task marks a job that a worker or a queue still has, and records
\* the answer it gives.
LEMMA CancelEnd ==
  ASSUME IInv, EndInv, NEW a \in Actor, NEW t \in Task, Cancel(a, t)
  PROVE  EndInv'
<1>. USE DEF IInv, TypeOK, StoreTypeOK
<1>1. /\ UNCHANGED <<call, job, stage, events>>
      /\ asked' = IF store[t].status \in Live THEN asked \cup {t} ELSE asked
      /\ askedQueued' = IF stage[t] = "queued" /\ job[t].kind = "retry"
                        THEN askedQueued \cup {t} ELSE askedQueued
      /\ evset' = IF t \in events THEN evset \cup {t} ELSE evset
      /\ store[t].status # "absent"
  BY DEF Cancel, CancelTask, threads, Present
<1>2. /\ store'[t].status = IF store[t].status = "running" THEN "cancelling" ELSE store[t].status
      /\ \A u \in Task \ {t} : store'[u] = store[u]
  BY DEF Cancel, CancelTask, Entry
<1>3. \A b \in Caller : Claim(b)' = Claim(b)
  BY <1>1 DEF Claim
<1>4. EndOf(t) /\ store[t].status \in Status
  BY DEF EndInv, Entry
<1>5. t \in events => store[t].status \in Live
  BY <1>1, <1>4 DEF EndOf, OutcomeInv, Status
<1>6. evset' \subseteq asked'
  BY <1>1, <1>5 DEF EndInv
<1>7. EndOf(t)'
  <2>1. store'[t].status \in Live =>
          stage'[t] \in {"queued"} \cup Run \/ \E c \in Caller : Claim(c)' = t
    BY <1>1, <1>2, <1>3, <1>4 DEF EndOf, Live
  <2>2. t \in askedQueued' =>
          /\ stage'[t] \in {"queued", "taken", "done"} /\ job'[t].kind = "retry"
          /\ stage'[t] = "queued" => store'[t].status # "running"
          /\ stage'[t] = "taken"  => job'[t].seen # "running"
    BY <1>1, <1>2, <1>4 DEF EndOf
  <2>3. store'[t].status \in {"cancelling", "cancelled"} => t \in asked'
    BY <1>1, <1>2, <1>4 DEF EndOf, Live
  <2>. QED
    BY <1>1, <1>4, <2>1, <2>2, <2>3 DEF EndOf
<1>. QED
  BY <1>1, <1>2, <1>3, <1>6, <1>7, EndKeeps, {t} \in SUBSET Task

LEMMA EnvironmentEnd ==
  ASSUME IInv, EndInv, Environment
  PROVE  EndInv'
<1>1. ASSUME UNCHANGED <<events, evset, threads, history>>,
             \A u \in Task : store'[u].status = store[u].status
      PROVE  EndInv'
  <2>1. \A b \in Caller : Claim(b)' = Claim(b)
    BY <1>1 DEF threads, Claim
  <2>. QED
    BY <1>1, <2>1, EndUntouched DEF threads, history
<1>2. ASSUME NEW n \in Name, NEW r \in EnvRows, ChangeRow(n, r) PROVE EndInv'
  BY <1>1, <1>2 DEF ChangeRow, registry
<1>3. ASSUME NEW a \in Revocable, ToggleActor(a) PROVE EndInv'
  BY <1>1, <1>3 DEF ToggleActor, registry
<1>4. ASSUME NEW a \in Cancellers, NEW t \in Task, Cancel(a, t) PROVE EndInv'
  BY <1>4, CancelEnd, JobsAssumption
<1>5. ASSUME Tick PROVE EndInv'
  <2>1. store \in [Task -> Entry]
    BY DEF IInv, TypeOK, StoreTypeOK
  <2>2. \A u \in Task : store'[u].status = store[u].status
    BY <1>5, <2>1 DEF Tick, TickStore, Entry
  <2>. QED
    BY <1>1, <1>5, <2>2 DEF Tick
<1>. QED
  BY <1>2, <1>3, <1>4, <1>5 DEF Environment

\* A worker touches the job it works on, and no thread has a claim on it.
LEMMA WorkEnd ==
  ASSUME IInv, EndInv, NEW t \in Task, stage[t] \in {"queued"} \cup Run,
         \A u \in Task \ {t} : /\ stage'[u] = stage[u] /\ job'[u] = job[u]
                              /\ store'[u] = store[u],
         events' \subseteq events \cup {t}, evset' \subseteq evset,
         UNCHANGED <<call, asked, askedQueued>>,
         EndOf(t)'
  PROVE  EndInv'
<1>1. \A b \in Caller : Claim(b) \in Task \ {t} => Claim(b)' = Claim(b)
  BY DEF Claim
<1>2. evset' \subseteq asked'
  BY DEF EndInv
<1>. QED
  BY <1>1, <1>2, EndKeeps, {t} \in SUBSET Task

\* The task a worker takes waited in its queue.
LEMMA TakeHead ==
  ASSUME IInv, NEW w \in Worker, Take(w)
  PROVE  \E t \in Task : t = Head(queue[Serves[w]]) /\ stage[t] = "queued" /\ job[t] \in Job
<1>1. PICK q \in Queue : q = Serves[w] /\ queue[q] \in Seq(Task) /\ queue[q] # <<>>
  BY JobsAssumption DEF Take, IInv, TypeOK
<1>2. PICK t \in Task : t = Head(queue[q]) /\ t = queue[q][1] /\ 1 \in 1..Len(queue[q])
  BY <1>1
<1>. QED
  BY <1>1, <1>2 DEF IInv, QueueInv, JobInv

LEMMA TakeEnd ==
  ASSUME IInv, EndInv, NEW w \in Worker, Take(w)
  PROVE  EndInv'
<1>. USE DEF IInv, TypeOK, StoreTypeOK
<1>1. PICK t \in Task : t = Head(queue[Serves[w]]) /\ stage[t] = "queued" /\ job[t] \in Job
  BY TakeHead
<1>2. stage[t] = "queued" /\ job[t] \in Job /\ EndOf(t)
  BY <1>1 DEF EndInv
<1>3. /\ stage' = [stage EXCEPT ![t] = IF job[t].kind = "retry" THEN "taken" ELSE "begun"]
      /\ IF job[t].kind = "retry"
         THEN /\ job' = [job EXCEPT ![t].seen = store[t].status,
                                    ![t].trusted = (descr[t] = job[t].desc)]
              /\ UNCHANGED store
         ELSE /\ PutTask(t, "running", {}, None)
              /\ UNCHANGED job
      /\ events' = IF job[t].kind = "create" THEN events \cup {t} ELSE events
      /\ evset'  = IF job[t].kind = "create" THEN evset \ {t} ELSE evset
      /\ UNCHANGED <<call, asked, askedQueued>>
  BY <1>1 DEF Take, SetStage, history
<1>4. t \notin events
  BY <1>2 DEF EndOf
<1>5. \A u \in Task \ {t} : stage'[u] = stage[u]
  BY <1>3
<1>6. CASE job[t].kind = "retry"
  <2>1. /\ stage'[t] = "taken" /\ job'[t].kind = "retry"
        /\ job'[t].seen = store[t].status /\ store' = store
        /\ \A u \in Task \ {t} : job'[u] = job[u]
    <3>1. job' = [job EXCEPT ![t] = [job[t] EXCEPT !.seen = store[t].status,
                                                  !.trusted = (descr[t] = job[t].desc)]]
      BY <1>3, <1>6
    <3>. QED
      BY <1>2, <1>3, <1>6, <3>1 DEF Job
  <2>2. EndOf(t)'
    BY <1>2, <1>3, <1>4, <1>6, <2>1 DEF EndOf, Run
  <2>. QED
    BY <1>2, <1>3, <1>5, <1>6, <2>1, <2>2, WorkEnd
<1>7. CASE job[t].kind # "retry"
  <2>1. /\ stage'[t] = "begun" /\ job' = job /\ store'[t].status = "running"
        /\ \A u \in Task \ {t} : store'[u] = store[u]
    BY <1>3, <1>7, PutTaskType DEF Status, Live
  <2>2. EndOf(t)'
    BY <1>2, <1>3, <1>4, <1>7, <2>1 DEF EndOf, Run
  <2>. QED
    BY <1>2, <1>3, <1>5, <2>1, <2>2, WorkEnd
<1>. QED
  BY <1>6, <1>7

\* A job that ends shows an outcome, or nothing, and its cancel event is gone.
LEMMA FinishEnd ==
  ASSUME IInv, EndInv, NEW w \in Worker, NEW t \in Task, stage[t] \in Run, Finish(w, t),
         \A u \in Task \ {t} : store'[u] = store[u],
         store'[t].status \notin Live, store'[t].status = "cancelled" => t \in asked,
         events' \subseteq events, t \notin events',
         UNCHANGED <<evset, call, job, history>>
  PROVE  EndInv'
<1>. USE DEF IInv, TypeOK
<1>1. stage'[t] = "done" /\ \A u \in Task \ {t} : stage'[u] = stage[u]
  BY DEF Finish, SetStage
<1>2. UNCHANGED <<asked, askedQueued>> /\ EndOf(t)
  BY DEF history, EndInv
<1>3. EndOf(t)'
  BY <1>1, <1>2 DEF EndOf, Live
<1>. QED
  BY <1>1, <1>2, <1>3, WorkEnd

LEMMA OutcomeStatus ==
  ASSUME TypeOK, NEW t \in Task, NEW s \in {"running", "completed", "error", "cancelled"},
         \/ PutTask(t, s, {}, None)
         \/ s = "error" /\ ReportRetryError(t)
  PROVE  store'[t].status \in {s, "absent"}
<1>1. CASE PutTask(t, s, {}, None)
  BY <1>1, PutTaskType DEF Status, Live, Terminal
<1>2. CASE s = "error" /\ ReportRetryError(t)
  <2>1. CASE Present(t)
    BY <1>2, <2>1, PutTaskType DEF ReportRetryError, Status, Terminal
  <2>2. CASE ~Present(t)
    BY <1>2, <2>2 DEF ReportRetryError, Present
  <2>. QED
    BY <2>1, <2>2
<1>. QED
  BY <1>1, <1>2

LEMMA RetryDecideEnd ==
  ASSUME IInv, EndInv, NEW w \in Worker, RetryDecide(w)
  PROVE  EndInv'
<1>. USE DEF IInv, TypeOK
<1>1. PICK t \in Task : t = work[w] /\ stage[t] = "taken" /\ job[t] \in Job /\ EndOf(t)
  BY NoneApart DEF RetryDecide, JobInv, Run, EndInv
<1>2. /\ UNCHANGED <<events, evset, call, job, asked, askedQueued, history>>
      /\ t \notin events /\ stage[t] \in Run
  BY <1>1 DEF RetryDecide, history, EndOf, Run
<1>3. CASE ShouldRun(t) /\ PutTask(t, "running", {}, None) /\ SetStage(t, "begun")
  <2>1. /\ store'[t].status = "running" /\ \A u \in Task \ {t} : store'[u] = store[u]
        /\ stage'[t] = "begun" /\ \A u \in Task \ {t} : stage'[u] = stage[u]
    BY <1>3, PutOutcome DEF SetStage
  <2>2. t \notin askedQueued
    BY <1>1, <1>3 DEF ShouldRun, EndOf
  <2>3. EndOf(t)'
    BY <1>1, <1>2, <2>1, <2>2 DEF EndOf, Run
  <2>. QED
    BY <1>2, <2>1, <2>3, WorkEnd
<1>4. CASE /\ job[t].seen \in {"cancelling", "cancelled"}
           /\ PutTask(t, "cancelled", {}, None) /\ Finish(w, t)
  <2>1. /\ \A u \in Task \ {t} : store'[u] = store[u]
        /\ store'[t].status \in {"cancelled", "absent"}
    BY <1>4, PutOutcome, OutcomeStatus
  <2>2. t \in asked
    BY <1>1, <1>4 DEF EndOf
  <2>. QED
    BY <1>2, <1>4, <2>1, <2>2, FinishEnd DEF Live
<1>5. CASE ReportRetryError(t) /\ Finish(w, t)
  <2>1. /\ \A u \in Task \ {t} : store'[u] = store[u]
        /\ store'[t].status \in {"error", "absent"}
    BY <1>5, PutOutcome, OutcomeStatus
  <2>. QED
    BY <1>2, <1>5, <2>1, FinishEnd DEF Live
<1>. QED
  BY <1>1, <1>3, <1>4, <1>5 DEF RetryDecide

LEMMA RunningEnd ==
  ASSUME IInv, EndInv, NEW w \in Worker, OpStart(w) \/ Progress(w)
  PROVE  EndInv'
<1>. USE DEF IInv, TypeOK
<1>1. PICK t \in Task : t = work[w] /\ stage[t] \in {"begun", "op"} /\ job[t] \in Job /\ EndOf(t)
  BY NoneApart DEF OpStart, Progress, JobInv, Run, EndInv
<1>2. /\ UNCHANGED <<events, evset, call, asked, askedQueued>>
      /\ t \notin askedQueued /\ stage[t] \in Run
  BY <1>1 DEF OpStart, Progress, registry, threads, history, EndOf, Run
<1>3. CASE OpStart(w)
  <2>1. /\ stage'[t] = "op" /\ \A u \in Task \ {t} : stage'[u] = stage[u]
        /\ store' = store
    BY <1>1, <1>3 DEF OpStart, SetStage, registry
  <2>2. /\ job'[t].kind = job[t].kind /\ job'[t].seen = job[t].seen
        /\ \A u \in Task \ {t} : job'[u] = job[u]
    <3>1. \/ job' = job
          \/ job' = [job EXCEPT ![t] = [job[t] EXCEPT !.row = cluster[job[t].desc.name]]]
      BY <1>1, <1>3 DEF OpStart
    <3>. QED
      BY <1>1, <3>1 DEF Job
  <2>3. EndOf(t)'
    BY <1>1, <1>2, <2>1, <2>2 DEF EndOf, Run
  <2>. QED
    BY <1>2, <2>1, <2>2, <2>3, WorkEnd
<1>4. CASE Progress(w)
  <2>1. UNCHANGED <<job, stage>> /\ stage[t] = "op"
    BY <1>1, <1>4 DEF Progress, threads
  <2>2. /\ \A u \in Task \ {t} : store'[u] = store[u]
        /\ store'[t].status \in {"running", store[t].status}
    <3>1. CASE PutTask(t, "running", {}, None)
      BY <3>1, PutOutcome
    <3>2. CASE AppendLog(t)
      BY <3>2 DEF AppendLog, StoreTypeOK, Entry
    <3>. QED
      BY <1>1, <1>4, <3>1, <3>2 DEF Progress
  <2>3. EndOf(t)'
    BY <1>1, <1>2, <2>1, <2>2 DEF EndOf, Run
  <2>. QED
    BY <1>2, <2>1, <2>2, <2>3, WorkEnd
<1>. QED
  BY <1>3, <1>4

LEMMA OperationEnd ==
  ASSUME IInv, EndInv, NEW w \in Worker, OpSucceed(w) \/ OpFail(w)
  PROVE  EndInv'
<1>. USE DEF IInv, TypeOK
<1>1. PICK t \in Task : t = work[w] /\ stage[t] \in {"begun", "op"} /\ job[t] \in Job /\ EndOf(t)
  BY NoneApart DEF OpSucceed, OpFail, JobInv, Run, EndInv
<1>2. UNCHANGED <<evset, call, job, history>> /\ Finish(w, t) /\ stage[t] \in Run
  BY <1>1 DEF OpSucceed, OpFail, Run
<1>3. CASE OpSucceed(w)
  <2>1. PutTask(t, "completed", {}, None) /\ events' = events /\ job[t].kind # "create"
    BY <1>1, <1>3 DEF OpSucceed
  <2>2. /\ \A u \in Task \ {t} : store'[u] = store[u]
        /\ store'[t].status \in {"completed", "absent"}
    BY <2>1, PutOutcome, OutcomeStatus
  <2>3. t \notin events
    BY <1>1, <2>1 DEF EndOf
  <2>. QED
    BY <1>2, <2>1, <2>2, <2>3, FinishEnd DEF Live
<1>4. CASE OpFail(w)
  <2>1. t \notin events' /\ events' \subseteq events
    BY <1>1, <1>4 DEF OpFail, EndOf
  <2>2. PICK s \in {"error", "cancelled"} :
          /\ \/ PutTask(t, s, {}, None)
             \/ s = "error" /\ ReportRetryError(t)
          /\ s = "cancelled" => t \in evset
    <3>1. CASE job[t].kind = "retry"
      BY <1>1, <1>4, <3>1 DEF OpFail
    <3>2. CASE job[t].kind # "retry"
      <4>1. PutTask(t, FailStatus(t), {}, None)
        BY <1>1, <1>4, <3>2 DEF OpFail
      <4>2. FailStatus(t) = "error" \/ (FailStatus(t) = "cancelled" /\ t \in evset)
        BY DEF FailStatus
      <4>. QED
        BY <4>1, <4>2
    <3>. QED
      BY <3>1, <3>2
  <2>3. s \in {"running", "completed", "error", "cancelled"}
    OBVIOUS
  <2>4. /\ \A u \in Task \ {t} : store'[u] = store[u]
        /\ store'[t].status \in {s, "absent"}
    BY <2>2, <2>3, PutOutcome, OutcomeStatus
  <2>5. s = "cancelled" => t \in asked
    BY <2>2 DEF EndInv
  <2>. QED
    BY <1>2, <2>1, <2>4, <2>5, FinishEnd DEF Live
<1>. QED
  BY <1>3, <1>4

LEMMA CreateSucceedEnd ==
  ASSUME IInv, EndInv, NEW w \in Worker, NEW n \in Name, NEW r \in Row, CreateSucceed(w, n, r)
  PROVE  EndInv'
<1>. USE DEF IInv, TypeOK, StoreTypeOK
<1>1. PICK t \in Task : t = work[w] /\ stage[t] = "op" /\ EndOf(t)
  BY DEF CreateSucceed, EndInv
<1>2. /\ stage' = [stage EXCEPT ![t] = "queued"]
      /\ job' = [job EXCEPT ![t] = Closure("chain", [op |-> "deploy", name |-> n, fp |-> r.fp],
                                           job[t].actor, None)]
      /\ events' = events \ {t}
      /\ UNCHANGED <<call, evset, asked, askedQueued>>
  BY <1>1 DEF CreateSucceed, SetStage, history
<1>3. stage'[t] = "queued" /\ job'[t].seen = "absent" /\ t \notin askedQueued /\ t \notin events'
  BY <1>1, <1>2 DEF Closure, EndOf
<1>4. /\ store'[t].status = store[t].status
      /\ \A u \in Task \ {t} : store'[u] = store[u]
  BY <1>1 DEF CreateSucceed, AppendLog, Entry
<1>5. EndOf(t)'
  BY <1>1, <1>2, <1>3, <1>4 DEF EndOf
<1>6. \A u \in Task \ {t} : stage'[u] = stage[u] /\ job'[u] = job[u]
  BY <1>2
<1>7. stage[t] \in {"queued"} \cup Run
  BY <1>1 DEF Run
<1>. QED
  BY <1>2, <1>4, <1>5, <1>6, <1>7, WorkEnd

\* Every step keeps the account of what becomes of each job.
LEMMA NextEnd ==
  ASSUME IInv, EndInv, [Next]_vars
  PROVE  EndInv'
<1>1. ASSUME NEW c \in Caller, CallerStep(c) PROVE EndInv'
  BY <1>1, SubmissionEnd, RetryStepEnd DEF CallerStep
<1>2. ASSUME NEW c \in Caller, RetryFault(c) PROVE EndInv'
  BY <1>2, RetryStepEnd
<1>3. ASSUME NEW w \in Worker, WorkerStep(w) PROVE EndInv'
  BY <1>3, TakeEnd, RetryDecideEnd, RunningEnd, OperationEnd, CreateSucceedEnd DEF WorkerStep
<1>4. CASE UNCHANGED vars
  <2>1. \A b \in Caller : Claim(b)' = Claim(b)
    BY <1>4 DEF vars, threads, Claim
  <2>. QED
    BY <1>4, <2>1, EndUntouched DEF vars, registry, threads, history
<1>. QED
  BY <1>1, <1>2, <1>3, <1>4, RequestEnd, RunningEnd, EnvironmentEnd DEF Next

-----------------------------------------------------------------------------
(* What the retry tables say.                                              *)

LEMMA RecordsInit == Init => RecordsInv
BY DEF Init, StoreInit, RecordsInv, FlightOf, DescOf, ReserveOf, RetryOf, Idle, InFlight

\* Tasks outside S and threads outside M go on as they were, and the threads
\* in M hold tasks of S only: it is enough to look at S, M and the new retries.
LEMMA RecordsKeep ==
  ASSUME IInv, RecordsInv, NEW S \in SUBSET Task, NEW M \in SUBSET Caller,
         \A u \in Task \ S : /\ stage'[u] = stage[u] /\ job'[u] = job[u]
                            /\ descr'[u] = descr[u] /\ (Present(u) => Present(u)'),
         \A t \in S : stage[t] \in {"none", "claimed", "queued"} \cup Run,
         \A t \in S : (stage[t] \in {"queued"} \cup Run /\ job[t].kind = "retry") =>
           /\ descr'[t] = descr[t] /\ job'[t].kind = job[t].kind
           /\ job'[t].desc = job[t].desc /\ job'[t].parent = job[t].parent,
         \A b \in Caller \ M : call'[b] = call[b] /\ Claim(b) \notin S,
         \A c \in M : Claim(c) \in Task => Claim(c) \in S,
         accepted \subseteq accepted',
         \A c \in M : FlightOf(c)', \A t \in S : DescOf(t)',
         \A t \in Task : ReserveOf(t)', \A e \in accepted' \ accepted : RetryOf(e)'
  PROVE  RecordsInv'
<1>. USE DEF IInv
<1>1. ASSUME NEW e \in accepted PROVE RetryOf(e)'
  <2>1. /\ stage[e[1]] = "done" /\ stage[e[2]] \in {"queued", "done"} \cup Run
        /\ e[1] \in Task /\ e[2] \in Task /\ RetryOf(e)
    BY DEF AcceptedInv, TypeOK, RecordsInv
  <2>2. job'[e[1]] = job[e[1]]
    BY <2>1 DEF Run
  <2>3. /\ job'[e[2]].kind = job[e[2]].kind /\ job'[e[2]].desc = job[e[2]].desc
        /\ job'[e[2]].parent = job[e[2]].parent
    BY <2>1 DEF RetryOf
  <2>. QED
    BY <2>1, <2>2, <2>3 DEF RetryOf
<1>2. ASSUME NEW b \in Caller \ M PROVE FlightOf(b)'
  <2>. DEFINE p == call[b].task
              k == call[b].kid
  <2>1. call'[b] = call[b] /\ FlightOf(b)
    BY DEF RecordsInv
  <2>2. ASSUME call[b].pc \in InFlight
        PROVE  /\ p \in Task /\ k \in Task
               /\ job'[p] = job[p] /\ (Present(p) => Present(p)')
    <3>1. p \in Task /\ k \in Task /\ stage[p] = "done"
      BY <2>2 DEF LocalsInv, FlightInv
    <3>2. p \notin S
      BY <3>1 DEF Run
    <3>. QED
      BY <3>1, <3>2
  <2>3. ASSUME call[b].pc \in Unsent
        PROVE  descr'[k] = descr[k] /\ (Present(k) => Present(k)')
    <3>1. k \in Task \ S
      BY <2>2, <2>3 DEF Claim, Unsent, InFlight, Submitting
    <3>. QED
      BY <3>1
  <2>4. ASSUME call[b].pc = "enqueued" PROVE descr'[k] = descr[k] /\ <<p, k>> \in accepted'
    <3>1. <<p, k>> \in accepted /\ k \in Task
      BY <2>1, <2>2, <2>4 DEF FlightOf, InFlight
    <3>2. RetryOf(<<p, k>>) /\ stage[k] \in {"queued", "done"} \cup Run
      BY <3>1 DEF RecordsInv, AcceptedInv
    <3>. QED
      BY <3>1, <3>2 DEF RetryOf
  <2>. QED
    <3>1. ASSUME call[b].pc = "submitted" PROVE job'[p].kind # "create"
      <4>1. p \in Task /\ Claim(b) = p
        BY <3>1 DEF LocalsInv, Claim, Submitting
      <4>. QED
        BY <2>1, <3>1, <4>1 DEF FlightOf
    <3>. QED
      BY <2>1, <2>2, <2>3, <2>4, <3>1, Zenon DEF FlightOf, Unsent, InFlight
<1>3. ASSUME NEW u \in Task \ S PROVE DescOf(u)'
  <2>1. DescOf(u) /\ stage'[u] = stage[u] /\ job'[u] = job[u] /\ descr'[u] = descr[u]
    BY DEF RecordsInv
  <2>2. ASSUME NEW c \in Caller, call[c].pc \in Unsent, call[c].kid = u PROVE call'[c] = call[c]
    BY <2>2 DEF Claim, Unsent, Submitting
  <2>. QED
    BY <2>1, <2>2 DEF DescOf
<1>. QED
  BY <1>1, <1>2, <1>3 DEF RecordsInv

\* Steps of one thread with the one task that it holds or makes.
LEMMA CallerRecords ==
  ASSUME IInv, RecordsInv, NEW t \in Task, NEW c \in Caller,
         \A u \in Task \ {t} : /\ stage'[u] = stage[u] /\ job'[u] = job[u]
                              /\ descr'[u] = descr[u] /\ store'[u] = store[u],
         \/ stage[t] = "none" /\ Claim(c) = None
         \/ stage[t] = "claimed" /\ Claim(c) = t,
         \A b \in Caller \ {c} : call'[b] = call[b],
         accepted \subseteq accepted',
         FlightOf(c)', DescOf(t)', \A u \in Task : ReserveOf(u)',
         \A e \in accepted' \ accepted : RetryOf(e)'
  PROVE  RecordsInv'
<1>1. PICK S \in SUBSET Task, M \in SUBSET Caller : S = {t} /\ M = {c}
  OBVIOUS
<1>2. \A b \in Caller \ M : call'[b] = call[b] /\ Claim(b) \notin S
  BY <1>1, NoneApart DEF IInv, ClaimInv
<1>3. \A u \in Task \ S : /\ stage'[u] = stage[u] /\ job'[u] = job[u]
                         /\ descr'[u] = descr[u] /\ (Present(u) => Present(u)')
  BY <1>1 DEF Present
<1>4. /\ \A u \in S : stage[u] \in {"none", "claimed", "queued"} \cup Run
      /\ \A u \in S : (stage[u] \in {"queued"} \cup Run /\ job[u].kind = "retry") =>
           /\ descr'[u] = descr[u] /\ job'[u].kind = job[u].kind
           /\ job'[u].desc = job[u].desc /\ job'[u].parent = job[u].parent
  BY <1>1 DEF Run
<1>5. \A b \in M : Claim(b) \in Task => Claim(b) \in S
  BY <1>1, NoneApart
<1>6. (\A b \in M : FlightOf(b)') /\ (\A u \in S : DescOf(u)')
  BY <1>1
<1>. QED
  BY <1>2, <1>3, <1>4, <1>5, <1>6, RecordsKeep, Zenon

\* Steps of the workers: no thread moves and no reservation changes.
LEMMA WorkRecords ==
  ASSUME IInv, RecordsInv, NEW t \in Task, stage[t] \in {"queued"} \cup Run,
         \A u \in Task \ {t} : /\ stage'[u] = stage[u] /\ job'[u] = job[u]
                              /\ descr'[u] = descr[u] /\ store'[u] = store[u],
         job[t].kind = "retry" =>
           /\ descr'[t] = descr[t] /\ job'[t].kind = job[t].kind
           /\ job'[t].desc = job[t].desc /\ job'[t].parent = job[t].parent,
         UNCHANGED <<call, reserved, accepted>>,
         DescOf(t)'
  PROVE  RecordsInv'
<1>1. {t} \in SUBSET Task /\ {} \in SUBSET Caller
  OBVIOUS
<1>2. \A b \in Caller : call'[b] = call[b] /\ Claim(b) \notin {t}
  BY NoneApart DEF IInv, ClaimInv, Run
<1>3. \A u \in Task : ReserveOf(u)'
  BY DEF RecordsInv, ReserveOf
<1>4. \A u \in Task \ {t} : Present(u) => Present(u)'
  BY DEF Present
<1>. QED
  BY <1>1, <1>2, <1>3, <1>4, RecordsKeep

\* Steps that touch no task, no record and no submission in flight.
LEMMA QuietRecords ==
  ASSUME IInv, RecordsInv, UNCHANGED <<stage, job, descr, reserved, accepted>>,
         \A u \in Task : Present(u) => Present(u)',
         NEW M \in SUBSET Caller, \A b \in Caller \ M : call'[b] = call[b],
         \A c \in M : /\ call[c].pc \notin Submitting \cup InFlight
                     /\ call'[c].pc \notin Submitting \cup InFlight
  PROVE  RecordsInv'
<1>1. \A c \in M : Claim(c) = None /\ FlightOf(c)'
  BY DEF Claim, FlightOf, Unsent, InFlight, Submitting
<1>2. \A u \in Task : ReserveOf(u)'
  BY DEF RecordsInv, ReserveOf
<1>. QED
  BY <1>1, <1>2, RecordsKeep, NoneApart, {} \in SUBSET Task

\* A job of create_cluster_async, delete_cluster_async or deploy_k8s_async.
LEMMA SubmitRecords ==
  ASSUME IInv, RecordsInv, NEW c \in Caller, NEW t \in Task, stage[t] = "none",
         NEW who \in SUBSET Actor, PutTask(t, "running", who, None),
         NEW j \in Job, job' = [job EXCEPT ![t] = j],
         SetStage(t, "claimed"), call[c].pc = "idle",
         NEW pc \in Submitting, call' = [call EXCEPT ![c] = [Idle EXCEPT !.pc = pc, !.task = t]],
         pc = "submitted" => j.kind # "create",
         UNCHANGED <<descr, reserved, accepted>>
  PROVE  RecordsInv'
<1>. USE DEF IInv, TypeOK
<1>1. /\ \A u \in Task \ {t} : /\ stage'[u] = stage[u] /\ job'[u] = job[u]
                               /\ store'[u] = store[u]
      /\ \A b \in Caller \ {c} : call'[b] = call[b]
      /\ call'[c].pc \in Submitting
  BY PutTaskType DEF SetStage, Status, Live, Idle
<1>2. Claim(c) = None
  BY DEF Claim, Submitting, Unsent
<1>3. FlightOf(c)'
  BY <1>1 DEF FlightOf, Submitting, InFlight, Idle
<1>4. DescOf(t)'
  BY DEF RecordsInv, DescOf
<1>5. \A u \in Task : ReserveOf(u)'
  BY <1>1 DEF RecordsInv, ReserveOf, InFlight
<1>. QED
  BY <1>1, <1>2, <1>3, <1>4, <1>5, CallerRecords

LEMMA RequestRecords ==
  ASSUME IInv, RecordsInv, NEW c \in Caller, Request(c)
  PROVE  RecordsInv'
<1>. USE DEF IInv, TypeOK, StoreTypeOK
<1>1. ASSUME NEW a \in Actor, SubmitCreate(c, a) PROVE RecordsInv'
  <2>1. /\ NewTaskId \in Task /\ stage[NewTaskId] = "none" /\ {a} \in SUBSET Actor
        /\ call[c].pc = "idle" /\ Closure("create", None, a, None) \in Job
        /\ "remembered" \in Submitting /\ "remembered" # "submitted"
    BY <1>1, NewTaskIdUnused, ClosureType DEF SubmitCreate, Kind, Submitting
  <2>. QED
    BY <1>1, <2>1, SubmitRecords DEF SubmitCreate, history
<1>2. ASSUME NEW a \in Actor, NEW op \in Operation, NEW n \in Name, Submit(c, a, op, n)
      PROVE  RecordsInv'
  <2>. DEFINE t == NewTaskId
              d == [op |-> op, name |-> n, fp |-> cluster[n].fp]
  <2>1. t \in Task /\ stage[t] = "none" /\ call[c].pc = "idle"
    BY <1>2, NewTaskIdUnused DEF Submit
  <2>2. cluster[n] \in Row /\ d \in Desc
    BY <1>2 DEF Submit, CanCluster, Desc, Row
  <2>3. {a, Owner[d.fp]} \in SUBSET Actor
    BY <2>2, StoreAssumption DEF Row
  <2>4. Closure("plain", d, a, None) \in Job /\ Closure("plain", d, a, None).kind # "create"
    BY <2>2, ClosureType DEF Kind, Closure
  <2>. QED
    BY <1>2, <2>1, <2>3, <2>4, SubmitRecords DEF Submit, Submitting, history
<1>3. ASSUME NEW a \in Actor, NEW p \in Task, RetryRead(c, a, p) PROVE RecordsInv'
  <2>1. /\ call[c].pc = "idle" /\ \A b \in Caller \ {c} : call'[b] = call[b]
        /\ call'[c].pc = "read"
        /\ UNCHANGED <<store, stage, job, descr, reserved, accepted>>
    BY <1>3 DEF RetryRead, registry, history
  <2>2. \A u \in Task : Present(u) => Present(u)'
    BY <2>1 DEF Present
  <2>. QED
    BY <2>1, <2>2, QuietRecords, {c} \in SUBSET Caller DEF Submitting, InFlight
<1>. QED
  BY <1>1, <1>2, <1>3 DEF Request

\* The description of a plain job is that of its closure.
LEMMA SubmissionRecords ==
  ASSUME IInv, RecordsInv, NEW c \in Caller, SubmitRemember(c) \/ SubmitEnqueue(c)
  PROVE  RecordsInv'
<1>. USE DEF IInv, TypeOK, StoreTypeOK
<1>1. PICK t \in Task : /\ t = call[c].task /\ Claim(c) = t /\ stage[t] = "claimed"
                       /\ job[t] \in Job /\ call[c].pc \in Submitting
  BY NoneApart
  DEF SubmitRemember, SubmitEnqueue, LocalsInv, ClaimInv, Claim, Submitting, JobInv
<1>2. PICK pc \in {"remembered", "cleanup"} : call' = [call EXCEPT ![c].pc = pc]
  BY DEF SubmitRemember, SubmitEnqueue, Goto
<1>3. /\ UNCHANGED <<store, job, reserved, accepted>>
      /\ \A u \in Task \ {t} : stage'[u] = stage[u] /\ descr'[u] = descr[u]
      /\ stage'[t] \in {"claimed", "queued"}
  BY <1>1 DEF SubmitRemember, SubmitEnqueue, SetStage, RememberRetry, registry, history
<1>4. (\A b \in Caller \ {c} : call'[b] = call[b]) /\ call'[c].pc = pc
  BY <1>2
<1>5. FlightOf(c)'
  BY <1>2, <1>4 DEF FlightOf, InFlight
<1>6. DescOf(t)'
  <2>1. CASE SubmitRemember(c)
    <3>1. \/ descr'[t] = descr[t]
          \/ descr'[t] = job[t].desc /\ call[c].pc = "submitted"
      BY <1>1, <2>1 DEF SubmitRemember, RememberRetry
    <3>2. call[c].pc = "submitted" => job[t].kind # "create"
      BY <1>1 DEF RecordsInv, FlightOf
    <3>3. stage'[t] = "claimed" /\ DescOf(t)
      BY <1>1, <2>1 DEF SubmitRemember, RecordsInv
    <3>4. \A b \in Caller : call[b].pc \in Unsent => call'[b] = call[b]
      BY <1>1, <1>4 DEF Submitting, Unsent
    <3>. QED
      BY <1>1, <1>3, <3>1, <3>2, <3>3, <3>4 DEF DescOf
  <2>2. CASE SubmitEnqueue(c)
    <3>1. descr' = descr
      BY <2>2 DEF SubmitEnqueue, registry
    <3>2. DescOf(t) /\ \A b \in Caller : ~(call[b].pc \in Unsent /\ call[b].kid = t)
      BY <1>1, NoneApart DEF RecordsInv, ClaimInv, Claim, Submitting, Unsent
    <3>. QED
      BY <1>3, <3>1, <3>2 DEF DescOf
  <2>. QED
    BY <2>1, <2>2
<1>7. \A u \in Task : ReserveOf(u)'
  BY <1>1, <1>3, <1>4 DEF RecordsInv, ReserveOf, Submitting, InFlight
<1>. QED
  BY <1>1, <1>3, <1>4, <1>5, <1>6, <1>7, CallerRecords

\* _cleanup_old_tasks spares the parent and the retry of a submission in flight.
LEMMA CleanupRecords ==
  ASSUME IInv, RecordsInv, NEW c \in Caller, CallerCleanup(c)
  PROVE  RecordsInv'
<1>. USE DEF IInv, TypeOK, StoreTypeOK
<1>1. /\ call[c].pc = "cleanup" /\ call'[c] = Idle
      /\ \A b \in Caller \ {c} : call'[b] = call[b]
      /\ UNCHANGED <<job, stage, accepted>>
  BY DEF CallerCleanup, Hangup, history
<1>2. /\ \A u \in Task : descr'[u] \in {descr[u], None} /\ reserved'[u] \in {reserved[u], None}
      /\ \A u \in Protected : u \in Task => descr'[u] = descr[u] /\ store'[u] = store[u]
  BY DEF CallerCleanup, CleanupOldTasks, Dropped, Expired
<1>3. ASSUME NEW b \in Caller PROVE FlightOf(b)'
  <2>1. CASE b = c
    BY <1>1, <2>1 DEF FlightOf, Idle, InFlight
  <2>2. CASE b # c /\ call[b].pc \in InFlight
    <3>1. PICK p \in Task, k \in Task : p = call[b].task /\ k = call[b].kid
      BY <2>2 DEF LocalsInv
    <3>2. p \in Protected /\ k \in Protected
      BY <2>2, <3>1, NoneApart DEF FlightInv, Protected
    <3>3. FlightOf(b) /\ call'[b] = call[b]
      BY <1>1, <2>2 DEF RecordsInv
    <3>4. descr'[k] = descr[k] /\ store'[p] = store[p] /\ store'[k] = store[k]
      BY <1>2, <3>2
    <3>. QED
      BY <1>1, <3>1, <3>3, <3>4 DEF FlightOf, Present
  <2>3. CASE b # c /\ call[b].pc \notin InFlight
    BY <1>1, <2>3 DEF RecordsInv, FlightOf, InFlight
  <2>. QED
    BY <2>1, <2>2, <2>3
<1>4. ASSUME NEW t \in Task PROVE DescOf(t)'
  <2>1. \A b \in Caller : call[b].pc \in Unsent => call'[b] = call[b]
    BY <1>1 DEF Unsent
  <2>2. DescOf(t)
    BY DEF RecordsInv
  <2>. QED
    BY <1>1, <1>2, <2>1, <2>2 DEF DescOf
<1>5. ASSUME NEW t \in Task PROVE ReserveOf(t)'
  <2>1. \A b \in Caller : call[b].pc \in InFlight => call'[b] = call[b]
    BY <1>1 DEF InFlight
  <2>2. ReserveOf(t)
    BY DEF RecordsInv
  <2>. QED
    BY <1>1, <1>2, <2>1, <2>2 DEF ReserveOf
<1>6. \A e \in accepted' : RetryOf(e)'
  BY <1>1 DEF RecordsInv, RetryOf
<1>. QED
  BY <1>3, <1>4, <1>5, <1>6 DEF RecordsInv

\* The parent of a new reservation has a description, and so a closure.
LEMMA ReserveRecords ==
  ASSUME IInv, RecordsInv, NEW c \in Caller, RetryReserve(c)
  PROVE  RecordsInv'
<1>. USE DEF IInv, TypeOK, StoreTypeOK
<1>1. PICK t \in Task : t = NewTaskId /\ stage[t] = "none"
  BY NewTaskIdUnused DEF RetryReserve
<1>2. PICK p \in Task : /\ p = call[c].task /\ call[c].pc = "read"
                       /\ descr[p] = call[c].desc /\ descr[p] \in Desc
                       /\ stage[p] = "done"
  BY DEF RetryReserve, MayReserve, Retryable, LocalsInv, OutcomeInv, Terminal
<1>3. /\ stage' = [stage EXCEPT ![t] = "claimed"]
      /\ call' = [call EXCEPT ![c].pc = "reserved", ![c].kid = t]
      /\ reserved' = [reserved EXCEPT ![p] = t]
      /\ UNCHANGED <<store, descr, job, accepted>>
  BY <1>1, <1>2 DEF RetryReserve, Reserve, SetStage, history
<1>4. /\ call'[c].pc = "reserved" /\ call'[c].kid = t /\ call'[c].task = p
      /\ call'[c].desc = call[c].desc
      /\ \A b \in Caller \ {c} : call'[b] = call[b]
  <2>1. call[c] \in Call /\ call \in [Caller -> Call]
    OBVIOUS
  <2>2. call' = [call EXCEPT ![c] = [call[c] EXCEPT !.pc = "reserved", !.kid = t]]
    BY <1>3, <2>1
  <2>. QED
    BY <1>2, <2>1, <2>2 DEF Call
<1>5. Claim(c) = None
  BY <1>2 DEF Claim, Submitting, Unsent
<1>6. job[p] \in Job /\ job[p].kind # "create" /\ job[p].desc = descr[p]
  <2>1. \A b \in Caller : ~(call[b].pc \in Unsent /\ call[b].kid = p)
    BY <1>2, NoneApart DEF ClaimInv, Claim, Unsent, Submitting
  <2>. QED
    BY <1>2, <2>1, NoneApart DEF RecordsInv, DescOf
<1>7. FlightOf(c)'
  BY <1>2, <1>3, <1>4, <1>6 DEF FlightOf
<1>8. DescOf(t)'
  <2>1. DescOf(t)
    BY DEF RecordsInv
  <2>. QED
    BY <1>1, <1>3, <2>1 DEF DescOf
<1>9. ASSUME NEW u \in Task PROVE ReserveOf(u)'
  <2>1. CASE u = p
    BY <1>4, <2>1 DEF ReserveOf, InFlight
  <2>2. CASE u # p
    <3>1. ReserveOf(u) /\ reserved'[u] = reserved[u]
      BY <1>3, <2>2 DEF RecordsInv
    <3>2. \A b \in Caller : call[b].pc \in InFlight => call'[b] = call[b]
      BY <1>2, <1>4 DEF InFlight
    <3>. QED
      BY <1>3, <3>1, <3>2 DEF ReserveOf
  <2>. QED
    BY <2>1, <2>2
<1>10. \A u \in Task \ {t} : stage'[u] = stage[u]
  BY <1>3
<1>. QED
  BY <1>1, <1>3, <1>4, <1>5, <1>7, <1>8, <1>9, <1>10, CallerRecords

\* A submission in flight goes on, and stays in flight.
LEMMA FlightRecords ==
  ASSUME IInv, RecordsInv, NEW c \in Caller, call[c].pc \in Unsent,
         NEW pc \in InFlight, call' = [call EXCEPT ![c].pc = pc],
         NEW k \in Task, k = call[c].kid,
         \A u \in Task \ {k} : /\ stage'[u] = stage[u] /\ job'[u] = job[u]
                              /\ descr'[u] = descr[u] /\ store'[u] = store[u],
         reserved' = reserved, accepted \subseteq accepted',
         pc \in {"bound", "published", "enqueued"} =>
           Present(call[c].task) /\ descr'[k] = call[c].desc,
         pc = "published" => Present(k)',
         pc = "enqueued" => <<call[c].task, k>> \in accepted',
         DescOf(k)', \A e \in accepted' \ accepted : RetryOf(e)'
  PROVE  RecordsInv'
<1>. USE DEF IInv, TypeOK, StoreTypeOK
<1>1. PICK p \in Task : p = call[c].task
  BY DEF LocalsInv, Unsent, InFlight
<1>2. /\ call'[c].pc = pc /\ call'[c].task = p /\ call'[c].kid = k
      /\ call'[c].desc = call[c].desc
      /\ \A b \in Caller \ {c} : call'[b] = call[b]
  BY <1>1, GotoType DEF Call, CallerPc
<1>3. Claim(c) = k /\ stage[k] = "claimed" /\ stage[p] = "done"
  BY <1>1, NoneApart DEF Claim, Unsent, Submitting, ClaimInv, FlightInv, InFlight
<1>4. FlightOf(c)'
  <2>1. FlightOf(c) /\ call[c].pc \in InFlight
    BY DEF RecordsInv, Unsent, InFlight
  <2>2. job'[p] = job[p] /\ store'[p] = store[p]
    BY <1>3
  <2>3. job'[p] \in Job /\ job'[p].kind # "create" /\ job'[p].desc = call'[c].desc
    BY <1>1, <1>2, <2>1, <2>2 DEF FlightOf
  <2>4. pc # "submitted"
    BY DEF InFlight
  <2>. QED
    BY <1>1, <1>2, <2>2, <2>3, <2>4 DEF FlightOf, Present
<1>5. ASSUME NEW u \in Task PROVE ReserveOf(u)'
  <2>1. \A b \in Caller : call[b].pc \in InFlight =>
          call'[b].pc \in InFlight /\ call'[b].task = call[b].task
    BY <1>1, <1>2
  <2>2. ReserveOf(u)
    BY DEF RecordsInv
  <2>. QED
    BY <2>1, <2>2 DEF ReserveOf
<1>. QED
  BY <1>2, <1>3, <1>4, <1>5, CallerRecords

LEMMA RetryStepRecords ==
  ASSUME IInv, RecordsInv, NEW c \in Caller, RetryStep(c) \/ RetryFault(c)
  PROVE  RecordsInv'
<1>. USE DEF IInv, TypeOK, StoreTypeOK
<1>1. CASE RetryRefused(c)
  <2>1. /\ call[c].pc = "read" /\ call'[c] = Idle
        /\ \A b \in Caller \ {c} : call'[b] = call[b]
        /\ UNCHANGED <<store, stage, job, descr, reserved, accepted>>
    BY <1>1 DEF RetryRefused, Hangup, registry, history
  <2>2. \A u \in Task : Present(u) => Present(u)'
    BY <2>1 DEF Present
  <2>3. PICK M \in SUBSET Caller : M = {c}
    OBVIOUS
  <2>4. \A b \in M : /\ call[b].pc \notin Submitting \cup InFlight
                    /\ call'[b].pc \notin Submitting \cup InFlight
    BY <2>1, <2>3 DEF Submitting, InFlight, Idle
  <2>. QED
    BY <2>1, <2>2, <2>3, <2>4, QuietRecords
<1>2. ASSUME call[c].pc \in Unsent
      PROVE  /\ call[c].kid \in Task /\ call[c].task \in Task /\ Claim(c) = call[c].kid
             /\ stage[call[c].kid] = "claimed" /\ stage[call[c].task] = "done"
             /\ reserved[call[c].task] = call[c].kid /\ call[c].desc \in Desc
             /\ FlightOf(c) /\ DescOf(call[c].kid)
  BY <1>2, NoneApart
  DEF LocalsInv, Claim, Unsent, InFlight, Submitting, ClaimInv, FlightInv, RecordsInv
<1>3. PICK k : k = call[c].kid
  OBVIOUS
\* The description of the retry has its thread behind it until it is enqueued.
<1>4. ASSUME call[c].pc \in Unsent, NEW pc \in Unsent, call' = [call EXCEPT ![c].pc = pc],
             stage' = stage
      PROVE  DescOf(k)'
  <2>1. call'[c].pc = pc /\ call'[c].kid = k /\ stage'[k] = "claimed"
    BY <1>2, <1>3, <1>4 DEF Call
  <2>. QED
    BY <2>1 DEF DescOf
<1>5. CASE RetryRecheck(c) \/ RetryFault(c) \/ (RetryBind(c) /\ ~MayBind(c))
  <2>1. PICK pc \in {"rechecked", "failing"} : call' = [call EXCEPT ![c].pc = pc]
    BY <1>5 DEF RetryRecheck, RetryFault, RetryBind, Goto
  <2>2. /\ UNCHANGED <<store, descr, reserved, job, stage, accepted>>
        /\ call[c].pc \in Unsent /\ pc \in Unsent /\ pc \in InFlight
        /\ pc \notin {"bound", "published", "enqueued"}
    BY <1>5 DEF RetryRecheck, RetryFault, RetryBind, registry, history, Unsent, InFlight
  <2>. QED
    BY <1>2, <1>3, <1>4, <2>1, <2>2, FlightRecords
<1>6. CASE RetryBind(c) /\ MayBind(c)
  <2>1. /\ call[c].pc \in Unsent /\ "bound" \in Unsent /\ "bound" \in InFlight
        /\ call' = [call EXCEPT ![c].pc = "bound"]
        /\ descr' = [descr EXCEPT ![k] = call[c].desc]
        /\ Present(call[c].task)
        /\ UNCHANGED <<store, reserved, job, stage, accepted>>
    BY <1>3, <1>6 DEF RetryBind, MayBind, Goto, history, Unsent, InFlight
  <2>2. descr'[k] = call[c].desc /\ \A u \in Task \ {k} : descr'[u] = descr[u]
    BY <1>2, <1>3, <2>1
  <2>. QED
    BY <1>2, <1>3, <1>4, <2>1, <2>2, FlightRecords
<1>7. CASE RetryPublish(c)
  <2>1. /\ call[c].pc \in Unsent /\ "published" \in Unsent /\ "published" \in InFlight
        /\ call[c].pc = "bound" /\ call[c].actor \in Actor
        /\ call' = [call EXCEPT ![c].pc = "published"]
        /\ PutTask(k, "running", {call[c].actor, Owner[call[c].desc.fp]}, call[c].task)
        /\ UNCHANGED <<descr, reserved, job, stage, accepted>>
    BY <1>3, <1>7 DEF RetryPublish, LocalsInv, Goto, history, Unsent, InFlight
  <2>2. {call[c].actor, Owner[call[c].desc.fp]} \in SUBSET Actor
    BY <1>2, <2>1, StoreAssumption DEF Desc
  <2>3. /\ store'[k].status = "running"
        /\ \A u \in Task \ {k} : store'[u] = store[u]
    BY <1>2, <1>3, <2>1, <2>2, PutTaskType DEF Status, Live
  <2>4. Present(k)' /\ Present(call[c].task) /\ descr'[k] = call[c].desc
    BY <1>2, <1>3, <2>1, <2>3 DEF Present, FlightOf
  <2>. QED
    BY <1>2, <1>3, <1>4, <2>1, <2>3, <2>4, FlightRecords
<1>8. CASE RetryEnqueue(c)
  <2>1. PICK p \in Task : p = call[c].task /\ call[c].pc = "published" /\ call[c].pc \in Unsent
    BY <1>2, <1>8 DEF RetryEnqueue, Unsent
  <2>2. /\ "enqueued" \in InFlight
        /\ call' = [call EXCEPT ![c].pc = "enqueued"]
        /\ stage' = [stage EXCEPT ![k] = "queued"]
        /\ job' = [job EXCEPT ![k] = RetryClosure(c)]
        /\ accepted' = accepted \cup {<<p, k>>}
        /\ UNCHANGED <<store, descr, reserved>>
    BY <1>3, <1>8, <2>1 DEF RetryEnqueue, Goto, SetStage, registry, InFlight
  <2>3. /\ job'[k].kind = "retry" /\ job'[k].desc = call[c].desc /\ job'[k].parent = p
        /\ job'[k] \in Job
        /\ \A u \in Task \ {k} : job'[u] = job[u] /\ stage'[u] = stage[u]
        /\ stage'[k] = "queued"
    <3>1. call[c].actor \in Actor /\ call[c].desc \in Desc
      BY <2>1 DEF LocalsInv, Unsent, InFlight
    <3>2. RetryClosure(c) \in Job
      BY <2>1, <3>1, ClosureType DEF RetryClosure, Kind
    <3>. QED
      BY <1>2, <1>3, <2>1, <2>2, <3>2 DEF RetryClosure, Closure
  <2>4. /\ Present(p) /\ descr'[k] = call[c].desc
        /\ job[p] \in Job /\ job[p].kind # "create" /\ job[p].desc = call[c].desc
    BY <1>2, <1>3, <2>1, <2>2 DEF FlightOf, InFlight
  <2>5. ASSUME NEW e \in accepted' \ accepted PROVE RetryOf(e)'
    <3>1. job'[p] = job[p] /\ e[1] = p /\ e[2] = k
      BY <1>2, <1>3, <2>1, <2>2, <2>3
    <3>. QED
      BY <2>3, <2>4, <3>1 DEF RetryOf
  <2>6. DescOf(k)'
    BY <2>3, <2>4 DEF DescOf
  <2>7. accepted \subseteq accepted' /\ <<call[c].task, k>> \in accepted'
    BY <2>1, <2>2
  <2>8. k \in Task /\ Present(call[c].task) /\ UNCHANGED <<store, descr, reserved>>
    BY <1>2, <1>3, <2>1, <2>2, <2>4
  <2>9. "enqueued" \in InFlight /\ call' = [call EXCEPT ![c].pc = "enqueued"]
    BY <2>2
  <2>. QED
    BY <1>3, <2>1, <2>3, <2>4, <2>5, <2>6, <2>7, <2>8, <2>9, FlightRecords
<1>9. CASE RetryFinally(c)
  <2>1. PICK p \in Task : p = call[c].task
    BY <1>9 DEF RetryFinally, LocalsInv, InFlight
  <2>2. \A b \in Caller \ {c} : call[b].pc \in InFlight /\ call[c].pc \in InFlight =>
          call[b].task # p
    BY <2>1 DEF FlightInv
  <2>3. CASE call[c].pc = "enqueued"
    <3>1. /\ call'[c].pc = "cleanup" /\ \A b \in Caller \ {c} : call'[b] = call[b]
          /\ UNCHANGED <<store, descr, reserved, job, stage, accepted>>
      BY <1>9, <2>3, GotoType DEF RetryFinally, ReleaseAccepted, Goto, history, Call, CallerPc
    <3>2. FlightOf(c)' /\ Claim(c) = None
      BY <2>3, <3>1 DEF FlightOf, InFlight, Claim, Submitting, Unsent
    <3>3. <<p, reserved[p]>> \in accepted
      BY <2>1, <2>3 DEF RecordsInv, FlightOf, FlightInv, InFlight
    <3>4. ASSUME NEW u \in Task PROVE ReserveOf(u)'
      <4>1. ReserveOf(u)
        BY DEF RecordsInv
      <4>2. CASE u = p
        BY <3>1, <3>3, <4>2 DEF ReserveOf
      <4>3. CASE u # p
        BY <2>1, <3>1, <4>1, <4>3 DEF ReserveOf
      <4>. QED
        BY <4>2, <4>3
    <3>5. PICK M \in SUBSET Caller, S \in SUBSET Task : M = {c} /\ S = {}
      OBVIOUS
    <3>6. (\A b \in M : FlightOf(b)') /\ (\A b \in M : Claim(b) \in Task => Claim(b) \in S)
      BY <3>2, <3>5, NoneApart
    <3>7. \A u \in Task : Present(u) => Present(u)'
      BY <3>1 DEF Present
    <3>. QED
      BY <3>1, <3>4, <3>5, <3>6, <3>7, RecordsKeep
  <2>4. CASE call[c].pc = "failing"
    <3>1. call[c].pc \in Unsent /\ call[c].pc \in InFlight
      BY <2>4 DEF Unsent, InFlight
    <3>2. /\ call'[c] = Idle /\ \A b \in Caller \ {c} : call'[b] = call[b]
          /\ reserved' = [reserved EXCEPT ![p] = None]
          /\ store' = [store EXCEPT ![k] = NoEntry]
          /\ descr' = [descr EXCEPT ![k] = None]
          /\ stage' = [stage EXCEPT ![k] = "dropped"]
          /\ UNCHANGED <<job, accepted>>
      BY <1>2, <1>3, <1>9, <2>1, <2>4, <3>1
      DEF RetryFinally, ReleaseFailed, Hangup, SetStage, history
    <3>3. FlightOf(c)'
      BY <3>2 DEF FlightOf, Idle, InFlight
    <3>4. DescOf(k)'
      BY <1>2, <1>3, <3>1, <3>2 DEF DescOf
    <3>5. ASSUME NEW u \in Task PROVE ReserveOf(u)'
      <4>1. ReserveOf(u)
        BY DEF RecordsInv
      <4>. QED
        BY <2>1, <3>2, <4>1 DEF ReserveOf
    <3>6. /\ k \in Task /\ stage[k] = "claimed" /\ Claim(c) = k
          /\ \A u \in Task \ {k} : /\ stage'[u] = stage[u] /\ job'[u] = job[u]
                                   /\ descr'[u] = descr[u] /\ store'[u] = store[u]
      BY <1>2, <1>3, <3>1, <3>2
    <3>. QED
      BY <3>2, <3>3, <3>4, <3>5, <3>6, CallerRecords
  <2>. QED
    BY <1>9, <2>3, <2>4 DEF RetryFinally
<1>. QED
  BY <1>1, <1>5, <1>6, <1>7, <1>8, <1>9, ReserveRecords DEF RetryStep

\* Cancellation, the environment and the callbacks of a running job touch no
\* record and drop no entry.
LEMMA OutsideRecords ==
  ASSUME IInv, RecordsInv, UNCHANGED <<call, stage, job, descr, reserved, accepted>>,
         \A u \in Task : Present(u) => Present(u)'
  PROVE  RecordsInv'
BY QuietRecords, {} \in SUBSET Caller

LEMMA EnvironmentRecords ==
  ASSUME IInv, RecordsInv, Environment
  PROVE  RecordsInv'
<1>. USE DEF IInv, TypeOK, StoreTypeOK
<1>1. ASSUME NEW n \in Name, NEW r \in EnvRows, ChangeRow(n, r) PROVE RecordsInv'
  BY <1>1, OutsideRecords DEF ChangeRow, registry, threads, history, Present
<1>2. ASSUME NEW a \in Revocable, ToggleActor(a) PROVE RecordsInv'
  BY <1>2, OutsideRecords DEF ToggleActor, registry, threads, history, Present
<1>3. ASSUME NEW a \in Cancellers, NEW t \in Task, Cancel(a, t) PROVE RecordsInv'
  <2>1. UNCHANGED <<call, stage, job, descr, reserved, accepted>>
    BY <1>3 DEF Cancel, CancelTask, threads
  <2>2. \A u \in Task : Present(u) => Present(u)'
    BY <1>3 DEF Cancel, CancelTask, Present, Entry
  <2>. QED
    BY <2>1, <2>2, OutsideRecords
<1>4. ASSUME Tick PROVE RecordsInv'
  <2>1. UNCHANGED <<call, stage, job, descr, reserved, accepted>>
    BY <1>4 DEF Tick, threads, history
  <2>2. \A u \in Task : Present(u) => Present(u)'
    BY <1>4 DEF Tick, TickStore, Present, Entry
  <2>. QED
    BY <2>1, <2>2, OutsideRecords
<1>. QED
  BY <1>1, <1>2, <1>3, <1>4 DEF Environment

LEMMA TakeRecords ==
  ASSUME IInv, RecordsInv, NEW w \in Worker, Take(w)
  PROVE  RecordsInv'
<1>. USE DEF IInv, TypeOK, StoreTypeOK
<1>1. PICK t \in Task : t = Head(queue[Serves[w]]) /\ stage[t] = "queued" /\ job[t] \in Job
  BY TakeHead
<1>2. stage[t] = "queued" /\ job[t] \in Job /\ DescOf(t)
  BY <1>1 DEF RecordsInv
<1>3. /\ stage' = [stage EXCEPT ![t] = IF job[t].kind = "retry" THEN "taken" ELSE "begun"]
      /\ UNCHANGED <<descr, reserved, call, accepted>>
  BY <1>1 DEF Take, SetStage, history
<1>4. \A u \in Task \ {t} : store'[u] = store[u]
  <2>1. CASE job[t].kind = "retry"
    BY <1>1, <2>1 DEF Take
  <2>2. CASE job[t].kind # "retry"
    <3>1. PutTask(t, "running", {}, None)
      BY <1>1, <2>2 DEF Take
    <3>. QED
      BY <3>1, PutTaskType DEF Status, Live
  <2>. QED
    BY <2>1, <2>2
<1>5. /\ job'[t] \in Job /\ job'[t].kind = job[t].kind /\ job'[t].desc = job[t].desc
      /\ job'[t].parent = job[t].parent
      /\ \A u \in Task \ {t} : job'[u] = job[u]
  <2>1. CASE job[t].kind = "retry"
    <3>1. job' = [job EXCEPT ![t] = [job[t] EXCEPT !.seen = store[t].status,
                                                  !.trusted = (descr[t] = job[t].desc)]]
      BY <1>1, <2>1 DEF Take
    <3>2. store[t].status \in Status /\ (descr[t] = job[t].desc) \in BOOLEAN
      BY DEF Entry
    <3>3. [job[t] EXCEPT !.seen = store[t].status, !.trusted = (descr[t] = job[t].desc)] \in Job
      BY <1>2, <3>2 DEF Job
    <3>. QED
      BY <1>2, <3>1, <3>3 DEF Job
  <2>2. CASE job[t].kind # "retry"
    BY <1>1, <1>2, <2>2 DEF Take
  <2>. QED
    BY <2>1, <2>2
<1>6. DescOf(t)'
  BY <1>2, <1>3, <1>5 DEF DescOf
<1>7. \A u \in Task \ {t} : stage'[u] = stage[u] /\ descr'[u] = descr[u]
  BY <1>3
<1>. QED
  BY <1>2, <1>3, <1>4, <1>5, <1>6, <1>7, WorkRecords

LEMMA WorkerRecords ==
  ASSUME IInv, RecordsInv, NEW w \in Worker, WorkerStep(w) \/ Progress(w)
  PROVE  RecordsInv'
<1>. USE DEF IInv, TypeOK, StoreTypeOK
<1>1. CASE RetryDecide(w) \/ OpStart(w) \/ OpSucceed(w) \/ OpFail(w) \/ Progress(w)
  <2>1. PICK t \in Task : t = work[w] /\ stage[t] \in Run /\ job[t] \in Job /\ DescOf(t)
    BY <1>1, NoneApart
    DEF RetryDecide, OpStart, OpSucceed, OpFail, Progress, WorkInv, JobInv, RecordsInv
  <2>2. /\ \A u \in Task \ {t} : stage'[u] = stage[u]
        /\ stage'[t] \in Run \cup {"done"}
        /\ UNCHANGED <<call, descr, reserved, accepted>>
    BY <1>1, <2>1
    DEF RetryDecide, OpStart, OpSucceed, OpFail, Progress, Finish, SetStage, Run,
        threads, registry, history
  <2>3. /\ job'[t] \in Job /\ job'[t].kind = job[t].kind /\ job'[t].desc = job[t].desc
        /\ job'[t].parent = job[t].parent
        /\ \A u \in Task \ {t} : job'[u] = job[u]
    <3>1. CASE job' = job
      BY <2>1, <3>1
    <3>2. CASE OpStart(w) /\ job[t].kind # "create"
      <4>1. cluster[job[t].desc.name] \in Row \cup {NoRow}
        BY <2>1, <3>2 DEF JobInv, Desc
      <4>2. job' = [job EXCEPT ![t] = [job[t] EXCEPT !.row = cluster[job[t].desc.name]]]
        BY <2>1, <3>2 DEF OpStart
      <4>3. [job[t] EXCEPT !.row = cluster[job[t].desc.name]] \in Job
        BY <2>1, <4>1 DEF Job
      <4>. QED
        BY <2>1, <4>2, <4>3 DEF Job
    <3>. QED
      BY <1>1, <2>1, <3>1, <3>2 DEF RetryDecide, OpStart, OpSucceed, OpFail, Progress, threads
  <2>4. \A u \in Task \ {t} : store'[u] = store[u]
    <3>1. \/ store' = store \/ AppendLog(t)
          \/ \E s \in {"running", "completed", "error", "cancelled"} : PutTask(t, s, {}, None)
      BY <1>1, <2>1
      DEF RetryDecide, OpStart, OpSucceed, OpFail, Progress, ReportRetryError, FailStatus, registry
    <3>2. ASSUME NEW s \in {"running", "completed", "error", "cancelled"},
                 PutTask(t, s, {}, None)
          PROVE  \A u \in Task \ {t} : store'[u] = store[u]
      BY <3>2, PutOutcome
    <3>. QED
      BY <3>1, <3>2 DEF AppendLog
  <2>5. DescOf(t)'
    BY <2>1, <2>2, <2>3 DEF DescOf, Run
  <2>. QED
    BY <2>1, <2>2, <2>3, <2>4, <2>5, WorkRecords
<1>2. ASSUME NEW n \in Name, NEW r \in Row, CreateSucceed(w, n, r) PROVE RecordsInv'
  <2>1. PICK t \in Task : t = work[w] /\ stage[t] = "op" /\ job[t] \in Job
                         /\ job[t].kind = "create" /\ DescOf(t)
    BY <1>2, NoneApart DEF CreateSucceed, JobInv, Run, RecordsInv
  <2>2. PICK d \in Desc : d = [op |-> "deploy", name |-> n, fp |-> r.fp]
    BY <2>1, JobsAssumption DEF JobInv, Desc, Row
  <2>3. /\ stage' = [stage EXCEPT ![t] = "queued"]
        /\ job' = [job EXCEPT ![t] = Closure("chain", d, job[t].actor, None)]
        /\ RememberRetry(t, d)
        /\ UNCHANGED <<call, reserved, accepted>>
    BY <1>2, <2>1, <2>2 DEF CreateSucceed, SetStage, history
  <2>4. /\ \A u \in Task \ {t} : /\ store'[u] = store[u] /\ stage'[u] = stage[u]
                                 /\ job'[u] = job[u] /\ descr'[u] = descr[u]
    BY <1>2, <2>1, <2>3 DEF CreateSucceed, AppendLog, RememberRetry
  <2>5. /\ job'[t] \in Job /\ job'[t].kind # "create" /\ job'[t].desc = d
        /\ stage'[t] = "queued"
    <3>1. Closure("chain", d, job[t].actor, None) \in Job
      BY <2>1, ClosureType DEF Kind, Job
    <3>. QED
      BY <2>3, <3>1 DEF Closure
  <2>6. descr[t] = None
    <3>1. \A b \in Caller : ~(call[b].pc \in Unsent /\ call[b].kid = t)
      BY <2>1, NoneApart DEF ClaimInv, Claim, Unsent, Submitting
    <3>. QED
      BY <2>1, <3>1 DEF DescOf
  <2>7. DescOf(t)'
    BY <2>3, <2>5, <2>6 DEF DescOf, RememberRetry
  <2>8. stage[t] \in {"queued"} \cup Run /\ job[t].kind # "retry"
    BY <2>1 DEF Run
  <2>. QED
    BY <2>3, <2>4, <2>7, <2>8, WorkRecords
<1>. QED
  BY <1>1, <1>2, TakeRecords DEF WorkerStep

\* Every step keeps what the retry tables say of the jobs.
LEMMA NextRecords ==
  ASSUME IInv, RecordsInv, [Next]_vars
  PROVE  RecordsInv'
<1>1. ASSUME NEW c \in Caller, CallerStep(c) PROVE RecordsInv'
  BY <1>1, SubmissionRecords, CleanupRecords, RetryStepRecords DEF CallerStep
<1>2. ASSUME NEW c \in Caller, RetryFault(c) PROVE RecordsInv'
  BY <1>2, RetryStepRecords
<1>3. CASE UNCHANGED vars
  BY <1>3, OutsideRecords DEF vars, registry, threads, history, Present
<1>. QED
  BY <1>1, <1>2, <1>3, RequestRecords, WorkerRecords, EnvironmentRecords DEF Next

-----------------------------------------------------------------------------
(* The theorems about a job's end and its records.                         *)

\* What becomes of each job, and what the retry tables say of it, are
\* invariants of the job system.
THEOREM FateInductive == Spec => [](IInv /\ EndInv /\ RecordsInv)
<1>1. Init => EndInv /\ RecordsInv
  BY EndInit, RecordsInit
<1>2. IInv /\ EndInv /\ RecordsInv /\ [Next]_vars => EndInv' /\ RecordsInv'
  BY NextEnd, NextRecords
<1>. QED
  BY <1>1, <1>2, InitInv, NextInv, PTL DEF Spec

\* Whatever a cleanup removes while a retry is being submitted, it is never
\* what that submission still needs (_cleanup_old_tasks, retry_task).
THEOREM CleanupSparesSubmissions == Spec => []SubmissionSurvivesCleanup
<1>1. IInv /\ RecordsInv => SubmissionSurvivesCleanup
  BY DEF IInv, RecordsInv, FlightOf, FlightInv, InFlight, SubmissionSurvivesCleanup
<1>. QED
  BY <1>1, FateInductive, PTL

\* A reservation without an accepted retry has a submission in flight, which
\* will release it: no failure leaves a parent blocked (retry_task's finally).
THEOREM NoReservationIsStranded == Spec => []NoStrandedReservation
<1>1. IInv /\ RecordsInv => NoStrandedReservation
  BY DEF IInv, RecordsInv, ReserveOf, FlightInv, NoStrandedReservation
<1>. QED
  BY <1>1, FateInductive, PTL

\* Every accepted retry runs the operation of its parent on the resource
\* identity of its parent, whatever was renamed or recreated meanwhile.
THEOREM RetriesRepeat == Spec => []RetryRepeatsParent
<1>1. RecordsInv => RetryRepeatsParent
  BY DEF RecordsInv, RetryOf, RetryRepeatsParent
<1>. QED
  BY <1>1, FateInductive, PTL

\* A job shown as running or cancelling is in a queue, with a worker or in the
\* hands of the request that submits it.
THEOREM NothingIsStuck == Spec => []NoStuckJob
<1>1. ASSUME EndInv PROVE NoStuckJob
  <2>1. ASSUME NEW t \in Task, NEW c \in Caller, Claim(c) = t
        PROVE  /\ call[c].pc \in Submitting \cup InFlight
               /\ t \in {call[c].task, call[c].kid}
    BY <2>1, NoneApart DEF Claim, Unsent, InFlight
  <2>2. ASSUME NEW t \in Task, store[t].status \in Live
        PROVE  \/ stage[t] \in {"queued", "taken", "begun", "op"}
               \/ \E c \in Caller : /\ call[c].pc \in Submitting \cup InFlight
                                   /\ t \in {call[c].task, call[c].kid}
    <3>1. EndOf(t)
      BY <1>1 DEF EndInv
    <3>2. CASE stage[t] \in {"queued"} \cup Run
      BY <3>2 DEF Run
    <3>. QED
      BY <2>1, <2>2, <3>1, <3>2 DEF EndOf
  <2>. QED
    BY <2>2 DEF NoStuckJob
<1>. QED
  BY <1>1, FateInductive, PTL

\* A retry cancelled while it waited is never run, and no job ends as
\* cancelled that nobody cancelled (cancel_task, _run_retry_task).
THEOREM CancellationIsHonoured == Spec => []CancellationHolds
<1>1. IInv /\ EndInv => CancellationHolds
  BY DEF IInv, TypeOK, EndInv, EndOf, CancellationHolds, QueuedRetryCancelHolds, CancelledWasAsked
<1>. QED
  BY <1>1, FateInductive, PTL

-----------------------------------------------------------------------------
(* An outcome is final.                                                    *)

\* A step of a worker, or of a thread with its own task, writes the entry of
\* a job that has not ended.
LEMMA WriteKeepsOutcomes ==
  ASSUME IInv, NEW t \in Task, stage[t] # "done",
         \A u \in Task \ {t} : store'[u] = store[u]
  PROVE  \A u \in Task : store[u].status \in Terminal => store'[u].status = store[u].status
BY DEF IInv, OutcomeInv

\* The status a job ended with stays until its entry expires: neither a retry,
\* nor a cancellation, nor a late callback changes it (_update_task).
THEOREM OutcomesAreFinal == Spec => OutcomeIsFinal
<1>. DEFINE Final == \A t \in Task : store[t].status \in Terminal
                       => store'[t].status \in {store[t].status, "absent"}
<1>1. ASSUME IInv, [Next]_vars PROVE Final
  <2>. USE <1>1 DEF IInv, TypeOK, StoreTypeOK
  <2>1. CASE UNCHANGED store
    BY <2>1
  <2>2. ASSUME NEW t \in Task, stage[t] # "done",
               \A u \in Task \ {t} : store'[u] = store[u]
        PROVE  Final
    BY <2>2, WriteKeepsOutcomes
  <2>3. ASSUME NEW c \in Caller, Request(c) PROVE Final
    <3>1. CASE UNCHANGED store
      BY <2>1, <3>1
    <3>2. CASE NewTaskId \in Task /\ stage[NewTaskId] = "none"
      <4>1. store' = store \/ \E who, p : PutTask(NewTaskId, "running", who, p)
        BY <2>3 DEF Request, Submit, SubmitCreate, RetryRead, registry
      <4>2. \A u \in Task \ {NewTaskId} : store'[u] = store[u]
        BY <4>1 DEF PutTask
      <4>. QED
        BY <2>2, <3>2, <4>2
    <3>. QED
      BY <2>3, <3>1, <3>2, NewTaskIdUnused DEF Request, Submit, SubmitCreate, RetryRead, registry
  <2>4. ASSUME NEW c \in Caller, CallerStep(c) \/ RetryFault(c) PROVE Final
    <3>1. CASE CallerCleanup(c)
      BY <3>1 DEF CallerCleanup, CleanupOldTasks, NoEntry
    <3>2. CASE RetryPublish(c) \/ (RetryFinally(c) /\ call[c].pc = "failing")
      <4>1. PICK k \in Task : k = call[c].kid /\ stage[k] = "claimed"
        BY <3>2, NoneApart
        DEF RetryPublish, RetryFinally, LocalsInv, InFlight, ClaimInv, Claim, Unsent, Submitting
      <4>2. \A u \in Task \ {k} : store'[u] = store[u]
        BY <3>2, <4>1 DEF RetryPublish, PutTask, RetryFinally, ReleaseFailed
      <4>. QED
        BY <2>2, <4>1, <4>2
    <3>3. CASE RetryFinally(c) /\ call[c].pc = "enqueued"
      BY <2>1, <3>3 DEF RetryFinally, ReleaseAccepted
    <3>. QED
      BY <2>1, <2>4, <3>1, <3>2, <3>3
      DEF CallerStep, RetryStep, SubmitRemember, SubmitEnqueue, RetryReserve, Reserve, RetryRefused,
          RetryRecheck, RetryBind, RetryEnqueue, RetryFinally, RetryFault, registry
  <2>5. ASSUME NEW w \in Worker, Take(w) PROVE Final
    <3>1. PICK t \in Task : t = Head(queue[Serves[w]]) /\ stage[t] = "queued"
      BY <2>5, TakeHead
    <3>2. \A u \in Task \ {t} : store'[u] = store[u]
      BY <2>5, <3>1 DEF Take, PutTask
    <3>. QED
      BY <2>2, <3>1, <3>2
  <2>6. ASSUME NEW w \in Worker, WorkerStep(w) \/ Progress(w), ~Take(w) PROVE Final
    <3>1. PICK t \in Task : t = work[w] /\ stage[t] # "done"
      BY <2>6
      DEF WorkerStep, RetryDecide, OpStart, OpSucceed, OpFail, CreateSucceed, Progress
    <3>2. \A u \in Task \ {t} : store'[u] = store[u]
      BY <2>6, <3>1
      DEF WorkerStep, RetryDecide, OpStart, OpSucceed, OpFail, CreateSucceed, Progress,
          ReportRetryError, PutTask, AppendLog, registry
    <3>. QED
      BY <2>2, <3>1, <3>2
  <2>7. ASSUME Environment PROVE Final
    <3>1. CASE Tick
      BY <3>1 DEF Tick, TickStore, Entry
    <3>2. ASSUME NEW a \in Cancellers, NEW t \in Task, Cancel(a, t) PROVE Final
      BY <3>2 DEF Cancel, CancelTask, Terminal
    <3>. QED
      BY <2>1, <2>7, <3>1, <3>2 DEF Environment, ChangeRow, ToggleActor, registry
  <2>8. CASE UNCHANGED vars
    BY <2>1, <2>8 DEF vars, registry
  <2>. QED
    BY <2>3, <2>4, <2>5, <2>6, <2>7, <2>8 DEF Next
<1>2. Spec => [][Final]_vars
  BY <1>1, JobsInductive, PTL DEF Spec
<1>. QED
  BY <1>2 DEF OutcomeIsFinal

-----------------------------------------------------------------------------
(* The job system implements its contract.                                 *)

\* The stages that the contract counts as started.
LEMMA StartedStages ==
  /\ StartedJobs = {t \in Task : stage[t] \in {"queued", "done"} \cup Run}
  /\ EndedJobs = {t \in Task : stage[t] = "done"}
BY DEF StartedJobs, EndedJobs, Run

\* A step that moves no job, or moves one between stages that the contract
\* does not tell apart, is no step of the contract.
LEMMA ContractStutters ==
  ASSUME TypeOK, NEW t \in Task, NEW s \in Stage, SetStage(t, s), accepted' = accepted,
         stage[t] \in {"queued", "done"} \cup Run <=> s \in {"queued", "done"} \cup Run,
         stage[t] = "done" <=> s = "done"
  PROVE  UNCHANGED Contract!cvars
<1>1. stage'[t] = s /\ \A u \in Task \ {t} : stage'[u] = stage[u]
  BY DEF SetStage, TypeOK
<1>2. StartedJobs' = StartedJobs /\ EndedJobs' = EndedJobs
  BY <1>1, StartedStages DEF StartedJobs, EndedJobs, Run
<1>. QED
  BY <1>2 DEF Contract!cvars

\* Every step of the job system is a step of the contract, or none.
LEMMA ContractStep ==
  ASSUME IInv, [Next]_vars
  PROVE  [Contract!CNext]_(Contract!cvars)
<1>. USE DEF IInv, TypeOK
<1>1. CASE UNCHANGED <<stage, accepted>>
  BY <1>1 DEF Contract!cvars, StartedJobs, EndedJobs
<1>2. ASSUME NEW t \in Task, NEW s \in Stage, SetStage(t, s), accepted' = accepted,
             stage[t] \in {"queued", "done"} \cup Run <=> s \in {"queued", "done"} \cup Run,
             stage[t] = "done" <=> s = "done"
      PROVE  UNCHANGED Contract!cvars
  BY <1>2, ContractStutters
<1>3. ASSUME NEW c \in Caller, Request(c) PROVE UNCHANGED Contract!cvars
  <2>1. CASE UNCHANGED <<stage, accepted>>
    BY <2>1 DEF Contract!cvars, StartedJobs, EndedJobs
  <2>2. CASE /\ NewTaskId \in Task /\ stage[NewTaskId] = "none"
             /\ SetStage(NewTaskId, "claimed") /\ accepted' = accepted
    BY <1>2, <2>2 DEF Stage, Run
  <2>. QED
    BY <1>3, <2>1, <2>2, NewTaskIdUnused
    DEF Request, Submit, SubmitCreate, RetryRead, history
<1>4. ASSUME NEW c \in Caller, SubmitEnqueue(c) PROVE Contract!CNext
  <2>1. PICK t \in Task : t = call[c].task /\ stage[t] = "claimed"
    BY <1>4, NoneApart DEF SubmitEnqueue, LocalsInv, ClaimInv, Claim, Submitting
  <2>2. stage'[t] = "queued" /\ (\A u \in Task \ {t} : stage'[u] = stage[u])
        /\ accepted' = accepted
    BY <1>4, <2>1 DEF SubmitEnqueue, SetStage, history
  <2>3. /\ t \notin StartedJobs /\ StartedJobs' = StartedJobs \cup {t}
        /\ EndedJobs' = EndedJobs
    BY <2>1, <2>2 DEF StartedJobs, EndedJobs
  <2>. QED
    BY <2>2, <2>3 DEF Contract!CNext, Contract!Start
<1>5. ASSUME NEW c \in Caller, RetryEnqueue(c) PROVE Contract!CNext
  <2>1. PICK p \in Task, k \in Task :
          /\ p = call[c].task /\ k = call[c].kid /\ stage[k] = "claimed"
          /\ stage[p] = "done" /\ reserved[p] = k
    BY <1>5, NoneApart
    DEF RetryEnqueue, LocalsInv, ClaimInv, Claim, FlightInv, InFlight, Unsent, Submitting
  <2>2. stage'[k] = "queued" /\ (\A u \in Task \ {k} : stage'[u] = stage[u])
        /\ accepted' = accepted \cup {<<p, k>>}
    BY <1>5, <2>1 DEF RetryEnqueue, SetStage
  <2>3. /\ p \in EndedJobs /\ k \notin StartedJobs /\ StartedJobs' = StartedJobs \cup {k}
        /\ EndedJobs' = EndedJobs
    BY <2>1, <2>2 DEF StartedJobs, EndedJobs
  <2>4. \A e \in accepted : e[1] # p
    BY <2>1, NoneApart, Zenon DEF AcceptedInv, Run
  <2>. QED
    BY <2>1, <2>2, <2>3, <2>4 DEF Contract!CNext, Contract!Retry
<1>6. ASSUME NEW w \in Worker, NEW t \in Task, t = work[w], Finish(w, t), accepted' = accepted
      PROVE  Contract!CNext
  <2>1. stage[t] \in Run
    BY <1>6, NoneApart DEF WorkInv
  <2>2. stage'[t] = "done" /\ \A u \in Task \ {t} : stage'[u] = stage[u]
    BY <1>6 DEF Finish, SetStage
  <2>3. /\ t \in StartedJobs \ EndedJobs /\ StartedJobs' = StartedJobs
        /\ EndedJobs' = EndedJobs \cup {t}
    BY <2>1, <2>2 DEF StartedJobs, EndedJobs, Run
  <2>. QED
    BY <1>6, <2>3 DEF Contract!CNext, Contract!End
<1>7. ASSUME NEW c \in Caller, RetryReserve(c) \/ RetryFinally(c) PROVE UNCHANGED Contract!cvars
  <2>1. CASE RetryReserve(c)
    <3>1. NewTaskId \in Task /\ stage[NewTaskId] = "none"
      BY <2>1, NewTaskIdUnused DEF RetryReserve
    <3>. QED
      BY <1>2, <2>1, <3>1 DEF RetryReserve, history, Stage, Run
  <2>2. CASE RetryFinally(c) /\ call[c].pc = "enqueued"
    BY <2>2 DEF RetryFinally, history, Contract!cvars, StartedJobs, EndedJobs
  <2>3. CASE RetryFinally(c) /\ call[c].pc = "failing"
    <3>1. call[c].kid \in Task /\ stage[call[c].kid] = "claimed"
      BY <2>3, NoneApart DEF LocalsInv, ClaimInv, Claim, InFlight, Unsent, Submitting
    <3>. QED
      BY <1>2, <2>3, <3>1 DEF RetryFinally, history, Stage, Run
  <2>. QED
    BY <1>7, <2>1, <2>2, <2>3 DEF RetryFinally
<1>8. ASSUME NEW w \in Worker, WorkerStep(w) PROVE [Contract!CNext]_(Contract!cvars)
  <2>1. CASE Take(w)
    <3>1. PICK t \in Task : t = Head(queue[Serves[w]]) /\ stage[t] = "queued"
      BY <2>1, TakeHead
    <3>2. SetStage(t, "taken") \/ SetStage(t, "begun")
      BY <2>1, <3>1 DEF Take
    <3>. QED
      BY <1>2, <2>1, <3>1, <3>2 DEF Take, history, Stage, Run
  <2>2. CASE ~Take(w)
    <3>1. PICK t \in Task : t = work[w] /\ stage[t] \in Run
      BY <1>8, <2>2, NoneApart
      DEF WorkerStep, RetryDecide, OpStart, OpSucceed, OpFail, CreateSucceed, Run
    <3>2. accepted' = accepted
      BY <1>8, <2>2
      DEF WorkerStep, RetryDecide, OpStart, OpSucceed, OpFail, CreateSucceed, history
    <3>3. \/ Finish(w, t) \/ SetStage(t, "begun") \/ SetStage(t, "op") \/ SetStage(t, "queued")
      BY <1>8, <2>2, <3>1
      DEF WorkerStep, RetryDecide, OpStart, OpSucceed, OpFail, CreateSucceed
    <3>. QED
      BY <1>2, <1>6, <3>1, <3>2, <3>3 DEF Stage, Run
  <2>. QED
    BY <2>1, <2>2
<1>9. ASSUME NEW c \in Caller, CallerStep(c) \/ RetryFault(c)
      PROVE  [Contract!CNext]_(Contract!cvars)
  BY <1>1, <1>4, <1>5, <1>7, <1>9
  DEF CallerStep, RetryStep, SubmitRemember, CallerCleanup, RetryRefused, RetryRecheck,
      RetryBind, RetryPublish, RetryFault, history
<1>10. CASE Environment \/ (\E w \in Worker : Progress(w)) \/ UNCHANGED vars
  BY <1>1, <1>10 DEF Environment, ChangeRow, ToggleActor, Cancel, Tick, Progress, vars,
     threads, history
<1>. QED
  BY <1>3, <1>8, <1>9, <1>10 DEF Next

\* Seen through started, ended and retried jobs, the threads, locks, queues
\* and expiry of the job system do only what its contract allows: each job
\* starts and ends once, and one that ended gets one retry, a new job.
THEOREM JobsImplementContract == Spec => Contract!Safe
<1>1. Init => Contract!CInit
  BY DEF Init, Contract!CInit, StartedJobs, EndedJobs
<1>2. IInv /\ [Next]_vars => [Contract!CNext]_(Contract!cvars)
  BY ContractStep
<1>. QED
  BY <1>1, <1>2, JobsInductive, PTL DEF Spec, Contract!Safe
=============================================================================
