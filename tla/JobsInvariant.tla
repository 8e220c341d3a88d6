---------------------------- MODULE JobsInvariant ----------------------------
(***************************************************************************)
(* The inductive invariant of Jobs: who may still act on a task at each    *)
(* stage, and why a parent that got a retry cannot get another.  Two more   *)
(* parts rest on it: what becomes of a job, and what its records say.      *)
(***************************************************************************)
EXTENDS Jobs

Unsent == {"reserved", "rechecked", "bound", "published", "failing"}
Run    == {"taken", "begun", "op"}

\* The task whose submission a request thread still holds.
Claim(c) == IF call[c].pc \in Submitting THEN call[c].task
            ELSE IF call[c].pc \in Unsent THEN call[c].kid ELSE None

ClaimInv ==
  /\ \A c \in Caller : Claim(c) # None => stage[Claim(c)] = "claimed"
  /\ \A b, c \in Caller : Claim(b) # None /\ Claim(b) = Claim(c) => b = c

LocalsInv ==
  \A c \in Caller :
    /\ call[c].pc \in Submitting => call[c].task \in Task
    /\ call[c].pc \in {"read"} \cup InFlight =>
         call[c].task \in Task /\ call[c].desc \in Desc /\ call[c].actor \in Actor
    /\ call[c].pc \in InFlight => call[c].kid \in Task

\* A submission in flight owns its parent's reservation and protection.
FlightInv ==
  /\ \A c \in Caller : call[c].pc \in InFlight =>
       /\ call[c].task \in pending
       /\ reserved[call[c].task] = call[c].kid
       /\ stage[call[c].task] = "done"
  /\ \A b, c \in Caller :
       call[b].pc \in InFlight /\ call[c].pc \in InFlight
         /\ call[b].task = call[c].task => b = c

JobInv ==
  \A t \in Task :
    /\ stage[t] \in {"queued", "done"} \cup Run => job[t] \in Job
    /\ \A c \in Caller : call[c].pc \in Submitting /\ call[c].task = t => job[t] \in Job
    /\ job[t] \in Job /\ job[t].kind # "create" => job[t].desc \in Desc
    /\ job[t] \in Job /\ job[t].kind = "create" => "create" \in Queue

QueueInv ==
  /\ \A q \in Queue : \A i \in 1..Len(queue[q]) : stage[queue[q][i]] = "queued"
  /\ \A p, q \in Queue : \A i \in 1..Len(queue[p]), j \in 1..Len(queue[q]) :
       queue[p][i] = queue[q][j] => p = q /\ i = j

WorkInv ==
  /\ \A w \in Worker : work[w] # None => stage[work[w]] \in Run
  /\ \A v, w \in Worker : work[v] # None /\ work[v] = work[w] => v = w

\* Only a job that ended shows an outcome.
OutcomeInv ==
  \A t \in Task : store[t].status \in Terminal => stage[t] = "done"

\* A parent with an accepted retry either still has its reservation or lost
\* its description with it, and then nothing can describe it again.
AcceptedInv ==
  \A e \in accepted :
    /\ stage[e[1]] = "done"
    /\ stage[e[2]] \in {"queued", "done"} \cup Run
    /\ \/ reserved[e[1]] = e[2]
       \/ reserved[e[1]] = None /\ descr[e[1]] = None

\* Inductive: enough of the threads' ownership of tasks (_task_lock sections,
\* FIFO queues, workers) to show that a failed job never gets two retries.
IInv ==
  /\ TypeOK /\ LocalsInv /\ ClaimInv /\ FlightInv /\ JobInv
  /\ QueueInv /\ WorkInv /\ OutcomeInv /\ AcceptedInv /\ OneChildPerParent

-----------------------------------------------------------------------------
(* What becomes of a job: who still has to end it, and whether a            *)
(* cancellation it shows was asked for.                                    *)

\* A live entry has somebody behind it; a retry cancelled in its queue is not
\* seen running by the worker that takes it; only a create in its worker has a
\* cancel event; and nothing is shown or seen as cancelled that was not asked.
EndOf(t) ==
  /\ store[t].status \in Live =>
       stage[t] \in {"queued"} \cup Run \/ \E c \in Caller : Claim(c) = t
  /\ t \in askedQueued =>
       /\ stage[t] \in {"queued", "taken", "done"} /\ job[t].kind = "retry"
       /\ stage[t] = "queued" => store[t].status # "running"
       /\ stage[t] = "taken"  => job[t].seen # "running"
  /\ t \in events => stage[t] \in {"begun", "op"} /\ job[t].kind = "create"
  /\ store[t].status \in {"cancelling", "cancelled"} => t \in asked
  /\ job[t] \in Job /\ job[t].seen \in {"cancelling", "cancelled"} => t \in asked

EndInv == evset \subseteq asked /\ \A t \in Task : EndOf(t)

-----------------------------------------------------------------------------
(* What the retry tables say of a job and of its retry.                    *)

\* A submission in flight repeats what its parent ran; while the retry depends
\* on them, the parent's entry and the retry's description and entry are there.
FlightOf(c) ==
  LET p == call[c].task
      k == call[c].kid
  IN /\ call[c].pc = "submitted" => job[p].kind # "create"
     /\ call[c].pc \in InFlight =>
          job[p] \in Job /\ job[p].kind # "create" /\ job[p].desc = call[c].desc
     /\ call[c].pc \in {"bound", "published", "enqueued"} =>
          Present(p) /\ descr[k] = call[c].desc
     /\ call[c].pc = "published" => Present(k)
     /\ call[c].pc = "enqueued" => <<p, k>> \in accepted

\* A description is the operation of its job, or of the retry it is made for.
DescOf(t) ==
  descr[t] # None =>
    /\ stage[t] # "none"
    /\ \/ job[t] \in Job /\ job[t].kind # "create" /\ job[t].desc = descr[t]
       \/ \E c \in Caller : call[c].pc \in Unsent /\ call[c].kid = t

ReserveOf(t) ==
  reserved[t] # None =>
    \/ <<t, reserved[t]>> \in accepted
    \/ \E c \in Caller : call[c].pc \in InFlight /\ call[c].task = t

RetryOf(e) ==
  /\ job[e[1]].kind # "create"
  /\ job[e[2]].kind = "retry"
  /\ job[e[2]].desc = job[e[1]].desc
  /\ job[e[2]].parent = e[1]

RecordsInv ==
  /\ \A c \in Caller : FlightOf(c)
  /\ \A t \in Task : DescOf(t)
  /\ \A t \in Task : ReserveOf(t)
  /\ \A e \in accepted : RetryOf(e)
=============================================================================
