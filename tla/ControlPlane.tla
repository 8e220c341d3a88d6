---------------------------- MODULE ControlPlane ----------------------------
(***************************************************************************)
(* Processes of "python -m control_plane start" that compete for the one   *)
(* PostgreSQL advisory lock: control_plane/cli.py, runtime.py and          *)
(* coordination.py.  Signals and the deadline of the start-up interrupt a  *)
(* process between any two of its steps; its session can end, and its      *)
(* link be cut, at any moment.  Every process runs once.                   *)
(***************************************************************************)
EXTENDS Naturals

CONSTANTS Proc, None

ASSUME ControlPlaneAssumption == None \notin Proc \cup Nat

VARIABLES
  pc,      \* where _run_start is
  stop,    \* stop_event
  active,  \* whether the start-up deadline runs
  state,   \* ControlPlaneRuntime._state
  code,    \* the exit code, as far as it is decided
  frames,  \* the events written
  link,    \* the connection as the process has it
  sess,    \* the sessions the server has
  holder   \* the process whose session holds the lock

vars == <<pc, stop, active, state, code, frames, link, sess, holder>>
server == <<sess, holder>>
local  == <<stop, active, state, code, frames>>

\* The part of start() in which an exception closes the connection again.
Dialog == {"connect", "lock", "locked"}
Starting == {"configure", "check", "enter", "recheck", "held", "leave"} \cup Dialog
Serving == {"write", "serve", "poll"}
Ending == {"refused", "quiet", "finally", "finish"}
Running == Starting \cup {"announce"} \cup Serving \cup Ending

TypeOK ==
  /\ pc \in [Proc -> Running \cup {"off", "ended"}]
  /\ stop \in [Proc -> BOOLEAN] /\ active \in [Proc -> BOOLEAN]
  /\ state \in [Proc -> {"stopped", "running", "lost"}]
  /\ code \in [Proc -> {0, 2, 3, 4, None}]
  /\ frames \in [Proc -> SUBSET {"ready", "stopped", "leadership_lost"}]
  /\ link \in [Proc -> {"none", "up", "cut"}]
  /\ sess \subseteq Proc /\ holder \in Proc \cup {None}

Init ==
  /\ pc = [p \in Proc |-> "off"] /\ stop = [p \in Proc |-> FALSE]
  /\ active = [p \in Proc |-> FALSE] /\ state = [p \in Proc |-> "stopped"]
  /\ code = [p \in Proc |-> None] /\ frames = [p \in Proc |-> {}]
  /\ link = [p \in Proc |-> "none"] /\ sess = {} /\ holder = None

At(p, where) == pc[p] = where
Go(p, where) == pc' = [pc EXCEPT ![p] = where]
Exit(p, c) == Go(p, "ended") /\ code' = [code EXCEPT ![p] = c]
Answers(p) == p \in sess /\ link[p] = "up"

\* The process closes its end; the server learns of it later.
Hung(l) == IF l = "up" THEN "none" ELSE l
HangUp(p) == link' = [link EXCEPT ![p] = Hung(@)]

-----------------------------------------------------------------------------
(* The start-up *)

Launch(p) ==
  /\ At(p, "off") /\ Go(p, "configure")
  /\ UNCHANGED <<local, link, server>>

Configure(p) ==
  /\ At(p, "configure")
  /\ \/ Go(p, "check") /\ UNCHANGED code
     \/ Exit(p, 2)
  /\ UNCHANGED <<stop, active, state, frames, link, server>>

Check(p) ==
  /\ At(p, "check")
  /\ IF stop[p] THEN Exit(p, 0) ELSE Go(p, "enter") /\ UNCHANGED code
  /\ UNCHANGED <<stop, active, state, frames, link, server>>

\* _StartupDeadline.__enter__
Unarmed == FALSE  \* fault: the timer is set for the wrong thread
Armed == TRUE

EnterDeadline(p) ==
  /\ At(p, "enter") /\ active' = [active EXCEPT ![p] = Armed] /\ Go(p, "recheck")
  /\ UNCHANGED <<stop, state, code, frames, link, server>>

Unasked(p) == FALSE  \* fault: the deadline's block does not ask again
StopSeen(p) == stop[p]

Recheck(p) ==
  /\ At(p, "recheck")
  /\ IF StopSeen(p) THEN Exit(p, 0) /\ active' = [active EXCEPT ![p] = FALSE]
     ELSE Go(p, "connect") /\ UNCHANGED <<code, active>>
  /\ UNCHANGED <<stop, state, frames, link, server>>

Connect(p) ==
  /\ At(p, "connect") /\ Go(p, "lock")
  /\ link' = [link EXCEPT ![p] = "up"] /\ sess' = sess \cup {p}
  /\ UNCHANGED <<local, holder>>

\* start() gives up: it disposes of the engine, and the deadline is left.
GiveUp(p, c) ==
  /\ Go(p, "refused") /\ code' = [code EXCEPT ![p] = c]
  /\ active' = [active EXCEPT ![p] = FALSE] /\ HangUp(p)
  /\ UNCHANGED <<stop, state, frames>>

\* pg_try_advisory_lock
Always(p) == TRUE  \* fault: its result is not looked at
Granted(p) == holder = None

TryLock(p) ==
  /\ At(p, "lock") /\ Answers(p)
  /\ IF Granted(p) THEN Go(p, "locked") /\ UNCHANGED <<local, link>> ELSE GiveUp(p, 3)
  /\ holder' = IF holder = None THEN p ELSE holder
  /\ UNCHANGED sess

GetPid(p) ==
  /\ At(p, "locked") /\ Answers(p) /\ Go(p, "held")
  /\ UNCHANGED <<local, link, server>>

\* Any exchange with the server may fail, and does when there is no session.
DatabaseFails(p) ==
  /\ pc[p] \in Dialog /\ GiveUp(p, 4)
  /\ UNCHANGED server

Assign(p) ==
  /\ At(p, "held") /\ state' = [state EXCEPT ![p] = "running"] /\ Go(p, "leave")
  /\ UNCHANGED <<stop, active, code, frames, link, server>>

LeaveDeadline(p) ==
  /\ At(p, "leave") /\ active' = [active EXCEPT ![p] = FALSE] /\ Go(p, "announce")
  /\ UNCHANGED <<stop, state, code, frames, link, server>>

\* The exception handlers of _run_start
Refused(p) ==
  /\ At(p, "refused") /\ Exit(p, IF stop[p] THEN 0 ELSE code[p])
  /\ UNCHANGED <<stop, active, state, frames, link, server>>

-----------------------------------------------------------------------------
(* Interruptions *)

\* An exception raised by a handler: what start() does about it depends on how
\* far it is.  It closes a connection in use by its dialog, but one that acquire()
\* has handed over is not the engine's to dispose of.
Interrupt(p, c) ==
  /\ Go(p, "quiet") /\ code' = [code EXCEPT ![p] = c]
  /\ active' = [active EXCEPT ![p] = FALSE]
  /\ IF pc[p] \in Dialog THEN HangUp(p) ELSE UNCHANGED link
  /\ UNCHANGED <<state, frames, server>>

\* SIGINT and SIGTERM: request_stop
Signal(p) ==
  /\ pc[p] \in Running /\ ~stop[p]
  /\ stop' = [stop EXCEPT ![p] = TRUE]
  /\ IF active[p] THEN Interrupt(p, 0)
     ELSE UNCHANGED <<pc, active, state, code, frames, link, server>>

\* SIGALRM: _alarm
Alarm(p) == active[p] /\ Interrupt(p, 4) /\ UNCHANGED stop

Kill(p) ==
  /\ pc[p] \in Running /\ Exit(p, None) /\ HangUp(p)
  /\ active' = [active EXCEPT ![p] = FALSE]
  /\ UNCHANGED <<stop, state, frames, server>>

-----------------------------------------------------------------------------
(* Serving and stopping *)

Announce(p) ==
  /\ At(p, "announce")
  /\ Go(p, IF stop[p] THEN "finally" ELSE "write")
  /\ code' = [code EXCEPT ![p] = 0]
  /\ UNCHANGED <<stop, active, state, frames, link, server>>

\* The output may be gone.
WriteReady(p) ==
  /\ At(p, "write")
  /\ \/ frames' = [frames EXCEPT ![p] = @ \cup {"ready"}] /\ Go(p, "serve") /\ UNCHANGED code
     \/ code' = [code EXCEPT ![p] = 4] /\ Go(p, "finally") /\ UNCHANGED frames
  /\ UNCHANGED <<stop, active, state, link, server>>

Woken(p) == stop[p]

Wait(p) ==
  /\ At(p, "serve") /\ Go(p, IF Woken(p) THEN "finally" ELSE "poll")
  /\ UNCHANGED <<local, link, server>>

\* CoordinatorLease.verify
Trusting(p) == TRUE  \* fault: the exception is swallowed
Verified(p) == Answers(p)

Unblamed(p) == code[p]  \* fault: the loop is left without setting it
LossCode(p) == 4

Poll(p) ==
  /\ At(p, "poll")
  /\ \/ Verified(p) /\ Go(p, "serve") /\ UNCHANGED <<local, link>>
     \/ /\ ~Verified(p) /\ HangUp(p) /\ Go(p, "finally")
        /\ state' = [state EXCEPT ![p] = "lost"] /\ code' = [code EXCEPT ![p] = LossCode(p)]
        /\ frames' = [frames EXCEPT ![p] = @ \cup {"leadership_lost"}]
        /\ UNCHANGED <<stop, active>>
  /\ UNCHANGED server

\* ControlPlaneRuntime.stop: a lease that is still held is unlocked, if the server
\* answers, and closed.
KeepsLock(p) == UNCHANGED holder  \* fault: the connection is closed without it
Unlock(p) == holder' = IF state[p] = "running" /\ Answers(p) /\ holder = p THEN None ELSE holder

RuntimeStop(p) ==
  /\ Unlock(p) /\ state' = [state EXCEPT ![p] = "stopped"]
  /\ IF state[p] = "stopped" THEN UNCHANGED link ELSE HangUp(p)
  /\ UNCHANGED <<stop, active, frames, sess>>

\* _stop_quietly: a runtime that did not get to "running" keeps its connection
\* until the process exits.
StopQuietly(p) ==
  /\ At(p, "quiet") /\ Go(p, "finish") /\ RuntimeStop(p)
  /\ UNCHANGED code

Finally(p) ==
  /\ At(p, "finally") /\ Go(p, "finish") /\ RuntimeStop(p)
  /\ UNCHANGED code

\* "shutdown failed", before or after the lock was given back
FinallyFails(p) ==
  /\ At(p, "finally") /\ Go(p, "finish") /\ HangUp(p)
  /\ code' = [code EXCEPT ![p] = 4] /\ state' = [state EXCEPT ![p] = "stopped"]
  /\ Unlock(p) \/ UNCHANGED holder
  /\ UNCHANGED <<stop, active, frames, sess>>

Finish(p) ==
  /\ At(p, "finish") /\ Go(p, "ended") /\ HangUp(p)
  /\ frames' = IF "ready" \in frames[p] /\ code[p] = 0
               THEN [frames EXCEPT ![p] = @ \cup {"stopped"}] ELSE frames
  /\ UNCHANGED <<stop, active, state, code, server>>

-----------------------------------------------------------------------------
(* The server and the network *)

EndSession(p) ==
  /\ p \in sess /\ sess' = sess \ {p}
  /\ holder' = IF holder = p THEN None ELSE holder
  /\ UNCHANGED <<pc, local, link>>

Notice(p) == link[p] # "up" /\ EndSession(p)

Cut(p) ==
  /\ link[p] = "up" /\ link' = [link EXCEPT ![p] = "cut"]
  /\ UNCHANGED <<pc, local, server>>

\* What a process does by itself; the exchanges of the start-up may take for ever.
Own(p) ==
  \/ Configure(p) \/ Check(p) \/ EnterDeadline(p) \/ Recheck(p) \/ Assign(p)
  \/ LeaveDeadline(p) \/ Refused(p) \/ Announce(p) \/ WriteReady(p) \/ Wait(p)
  \/ Poll(p) \/ StopQuietly(p) \/ Finally(p) \/ FinallyFails(p) \/ Finish(p)

Next == \E p \in Proc :
  \/ Launch(p) \/ Own(p)
  \/ Connect(p) \/ TryLock(p) \/ GetPid(p) \/ DatabaseFails(p)
  \/ Signal(p) \/ Alarm(p) \/ Kill(p)
  \/ EndSession(p) \/ Cut(p)

\* A process goes on, the timer fires, and the server notices a client that has
\* gone.  After the start-up every exchange has a time-out.
Fairness == \A p \in Proc : WF_vars(Own(p)) /\ WF_vars(Alarm(p)) /\ WF_vars(Notice(p))

Spec == Init /\ [][Next]_vars /\ Fairness

-----------------------------------------------------------------------------
(* Properties *)

\* At most one process serves with a live session: the lock stays with the process
\* that announced itself, however the others start, fail and stop.
OneCoordinator == \A p, q \in Proc :
  pc[p] \in Serving /\ pc[q] \in Serving /\ p \in sess /\ q \in sess => p = q

\* The exit code tells why a process ended, whatever coincided: 0 only after a stop
\* signal, 3 only if it never was coordinator, and 4 whenever it lost the lock; it
\* reports "stopped" exactly if it had reported "ready" and ended with 0.
CodeTellsWhy == \A p \in Proc : pc[p] = "ended" =>
  /\ code[p] = 0 => stop[p]
  /\ code[p] = 3 => frames[p] = {}
  /\ "leadership_lost" \in frames[p] => code[p] \in {4, None}
  /\ "stopped" \in frames[p] <=> "ready" \in frames[p] /\ code[p] = 0

\* A process that reported a clean stop has given the lock back, unless its link
\* was cut, so that the next one can take over at once.
StoppedMeansReleased == \A p \in Proc :
  "stopped" \in frames[p] /\ link[p] # "cut" => holder # p

\* A process that was told to stop does not go and take the lock.
NoLockAfterStop == [][\A p \in Proc : holder # p /\ holder' = p => ~stop[p]]_vars

\* A start-up ends within its deadline, even if the server never answers.
StartEnds == \A p \in Proc : pc[p] \in Starting ~> pc[p] \in {"serve", "ended"}

\* A process whose session is gone ends, and one that is told to stop does too.
ProcessEnds == \A p \in Proc :
  (pc[p] \in Serving /\ p \notin sess) \/ stop[p] ~> pc[p] = "ended"

=============================================================================
