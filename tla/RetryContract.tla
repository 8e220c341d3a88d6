---------------------------- MODULE RetryContract ----------------------------
(***************************************************************************)
(* What the job system promises, without its threads, locks and queues: a  *)
(* job is started once and ends; a job that ended may get one retry, which *)
(* is a new job, and at most one ever (retry_task: "Retry one trusted,     *)
(* failed operation without modifying its parent job").                    *)
(***************************************************************************)
CONSTANTS Task

VARIABLES
  started,
  ended,
  retries   \* <<job, its retry>>

cvars == <<started, ended, retries>>

CInit == started = {} /\ ended = {} /\ retries = {}

Start(t) ==
  /\ t \notin started
  /\ started' = started \cup {t}
  /\ UNCHANGED <<ended, retries>>

Retry(p, c) ==
  /\ p \in ended /\ c \notin started
  /\ \A r \in retries : r[1] # p
  /\ started' = started \cup {c}
  /\ retries' = retries \cup {<<p, c>>}
  /\ UNCHANGED ended

End(t) ==
  /\ t \in started \ ended
  /\ ended' = ended \cup {t}
  /\ UNCHANGED <<started, retries>>

CNext == \/ \E t \in Task : Start(t) \/ End(t)
         \/ \E p, c \in Task : Retry(p, c)

Safe == CInit /\ [][CNext]_cvars
Spec == Safe /\ \A t \in Task : WF_cvars(End(t))
=============================================================================
