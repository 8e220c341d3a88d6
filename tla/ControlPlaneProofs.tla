-------------------------- MODULE ControlPlaneProofs --------------------------
(***************************************************************************)
(* Theorems about ControlPlane, for any set of processes.  LockInv says    *)
(* who may hold the lock, StartInv that nobody who was told to stop is on  *)
(* the way to it.                                                          *)
(***************************************************************************)
EXTENDS ControlPlane, TLAPS

\* From the moment the lock is granted until the process lets it go, its session,
\* while it lives, is the one that holds it.
Owning == {"locked", "held", "leave", "announce"} \cup Serving
LockInv == \A p \in Proc : pc[p] \in Owning /\ p \in sess => holder = p

\* Throughout the deadline's block a stop signal interrupts a process at once, so that
\* none that was told to stop is found there after its question.
StartInv == \A p \in Proc :
  /\ pc[p] = "recheck" => active[p]
  /\ pc[p] \in Dialog \cup {"held", "leave"} => active[p] /\ ~stop[p]

IInv == TypeOK /\ LockInv /\ StartInv

USE DEF Starting, Serving, Ending, Running, Dialog, At, Go, Exit, Answers, Hung, HangUp,
        local, server, Owning

-----------------------------------------------------------------------------

LEMMA InitInv == Init => IInv
BY DEF Init, IInv, TypeOK, LockInv, StartInv

\* Every step of the start-up keeps the invariant.
LEMMA StartupInv ==
  ASSUME IInv, NEW p \in Proc,
         \/ Launch(p) \/ Configure(p) \/ Check(p) \/ EnterDeadline(p) \/ Recheck(p)
         \/ Connect(p) \/ TryLock(p) \/ GetPid(p) \/ DatabaseFails(p)
         \/ Assign(p) \/ LeaveDeadline(p) \/ Refused(p)
  PROVE  IInv'
<1> USE DEF IInv, TypeOK, LockInv, StartInv
<1>1. CASE Launch(p)         BY <1>1 DEF Launch
<1>2. CASE Configure(p)      BY <1>2 DEF Configure
<1>3. CASE Check(p)          BY <1>3 DEF Check
<1>4. CASE EnterDeadline(p)  BY <1>4 DEF EnterDeadline, Armed
<1>5. CASE Recheck(p)
  <2>1. CASE stop[p]
    <3>1. /\ pc' = [pc EXCEPT ![p] = "ended"] /\ code' = [code EXCEPT ![p] = 0]
          /\ active' = [active EXCEPT ![p] = FALSE]
          /\ UNCHANGED <<stop, state, frames, link, sess, holder>>
      BY <1>5, <2>1 DEF Recheck, StopSeen
    <3>2. TypeOK'
      BY <3>1
    <3>3. LockInv'
      BY <3>1
    <3>4. StartInv'
      BY <3>1
    <3> QED BY <3>2, <3>3, <3>4
  <2>2. CASE ~stop[p]
    <3>1. active' = active /\ stop' = stop /\ pc' = [pc EXCEPT ![p] = "connect"]
      BY <1>5, <2>2 DEF Recheck, StopSeen
    <3>2. active[p]
      BY <1>5 DEF Recheck
    <3>3. StartInv'
      BY <2>2, <3>1, <3>2
    <3>4. TypeOK' /\ LockInv'
      BY <1>5, <2>2 DEF Recheck, StopSeen
    <3> QED BY <3>3, <3>4
  <2> QED BY <2>1, <2>2
<1>6. CASE Connect(p)        BY <1>6 DEF Connect
<1>7. CASE TryLock(p)
  <2>1. CASE Granted(p)
    <3>1. \A q \in Proc : ~(pc[q] \in Owning /\ q \in sess)
      BY <2>1, ControlPlaneAssumption DEF Granted
    <3>2. TypeOK' /\ StartInv'
      BY <1>7, <2>1 DEF TryLock, Granted
    <3>3. LockInv'
      BY <1>7, <2>1, <3>1 DEF TryLock, Granted
    <3> QED BY <3>2, <3>3
  <2>2. CASE ~Granted(p)
    <3>1. /\ pc' = [pc EXCEPT ![p] = "refused"] /\ code' = [code EXCEPT ![p] = 3]
          /\ active' = [active EXCEPT ![p] = FALSE] /\ HangUp(p)
          /\ UNCHANGED <<stop, state, frames, sess, holder>>
      BY <1>7, <2>2 DEF TryLock, Granted, GiveUp
    <3>2. TypeOK'
      BY <3>1
    <3>3. LockInv'
      BY <3>1
    <3>4. StartInv'
      BY <3>1
    <3> QED BY <3>2, <3>3, <3>4
  <2> QED BY <2>1, <2>2
<1>8. CASE GetPid(p)         BY <1>8 DEF GetPid
<1>9. CASE DatabaseFails(p)  BY <1>9 DEF DatabaseFails, GiveUp
<1>10. CASE Assign(p)        BY <1>10 DEF Assign
<1>11. CASE LeaveDeadline(p) BY <1>11 DEF LeaveDeadline
<1>12. CASE Refused(p)       BY <1>12 DEF Refused
<1> QED BY <1>1, <1>2, <1>3, <1>4, <1>5, <1>6, <1>7, <1>8, <1>9, <1>10, <1>11, <1>12

\* So does every interruption.
LEMMA InterruptInv ==
  ASSUME IInv, NEW p \in Proc, Signal(p) \/ Alarm(p) \/ Kill(p)
  PROVE  IInv'
<1> USE DEF IInv, TypeOK, LockInv, StartInv
<1>1. CASE Signal(p)
  <2>1. CASE active[p]
    <3>1. /\ pc' = [pc EXCEPT ![p] = "quiet"] /\ code' = [code EXCEPT ![p] = 0]
          /\ active' = [active EXCEPT ![p] = FALSE] /\ stop' = [stop EXCEPT ![p] = TRUE]
          /\ link' = link \/ HangUp(p)
          /\ UNCHANGED <<state, frames, sess, holder>>
      BY <1>1, <2>1 DEF Signal, Interrupt
    <3>2. TypeOK'
      BY <3>1
    <3>3. LockInv'
      BY <3>1
    <3>4. StartInv'
      BY <3>1
    <3> QED BY <3>2, <3>3, <3>4
  <2>2. CASE ~active[p]
    <3>1. TypeOK' /\ LockInv'
      BY <1>1, <2>2 DEF Signal
    <3>2. pc[p] \notin Dialog \cup {"held", "leave"}
      BY <2>2
    <3>3. StartInv'
      BY <1>1, <2>2, <3>2 DEF Signal
    <3> QED BY <3>1, <3>3
  <2> QED BY <2>1, <2>2
<1>2. CASE Alarm(p)  BY <1>2 DEF Alarm, Interrupt
<1>3. CASE Kill(p)   BY <1>3 DEF Kill
<1> QED BY <1>1, <1>2, <1>3

\* So does every step of serving and stopping: only a process that no longer owns
\* the lock gives it back.
LEMMA ServingInv ==
  ASSUME IInv, NEW p \in Proc,
         \/ Announce(p) \/ WriteReady(p) \/ Wait(p) \/ Poll(p)
         \/ StopQuietly(p) \/ Finally(p) \/ FinallyFails(p) \/ Finish(p)
  PROVE  IInv'
<1> USE DEF IInv, TypeOK, LockInv, StartInv
<1>1. CASE Announce(p)     BY <1>1 DEF Announce
<1>2. CASE WriteReady(p)   BY <1>2 DEF WriteReady
<1>3. CASE Wait(p)         BY <1>3 DEF Wait, Woken
<1>4. CASE Poll(p)         BY <1>4 DEF Poll, Verified, LossCode
<1>5. CASE StopQuietly(p)  BY <1>5 DEF StopQuietly, RuntimeStop, Unlock
<1>6. CASE Finally(p)      BY <1>6 DEF Finally, RuntimeStop, Unlock
<1>7. CASE FinallyFails(p) BY <1>7 DEF FinallyFails, Unlock
<1>8. CASE Finish(p)       BY <1>8 DEF Finish
<1> QED BY <1>1, <1>2, <1>3, <1>4, <1>5, <1>6, <1>7, <1>8

\* So do the server and the network.
LEMMA OutsideInv ==
  ASSUME IInv, NEW p \in Proc, EndSession(p) \/ Cut(p)
  PROVE  IInv'
<1> USE DEF IInv, TypeOK, LockInv, StartInv
<1>1. CASE EndSession(p) BY <1>1 DEF EndSession
<1>2. CASE Cut(p)        BY <1>2 DEF Cut
<1> QED BY <1>1, <1>2

LEMMA NextInv == IInv /\ [Next]_vars => IInv'
<1> SUFFICES ASSUME IInv, [Next]_vars PROVE IInv'
  OBVIOUS
<1>1. CASE UNCHANGED vars
  BY <1>1 DEF vars, IInv, TypeOK, LockInv, StartInv
<1>2. CASE Next
  <2> PICK p \in Proc :
        \/ Launch(p) \/ Own(p)
        \/ Connect(p) \/ TryLock(p) \/ GetPid(p) \/ DatabaseFails(p)
        \/ Signal(p) \/ Alarm(p) \/ Kill(p)
        \/ EndSession(p) \/ Cut(p)
    BY <1>2 DEF Next
  <2> QED BY StartupInv, InterruptInv, ServingInv, OutsideInv DEF Own
<1> QED BY <1>1, <1>2

\* IInv holds always: the start-up's and the lock's bookkeeping agree with the
\* server's, for any number of competing processes.
THEOREM ControlPlaneInductive == Spec => []IInv
BY InitInv, NextInv, PTL DEF Spec

\* Every variable keeps its type.
THEOREM ControlPlaneType == Spec => []TypeOK
<1>1. IInv => TypeOK
  BY DEF IInv
<1> QED BY <1>1, ControlPlaneInductive, PTL

\* At most one process serves with a live session.
THEOREM SingleCoordinator == Spec => []OneCoordinator
<1>1. IInv => OneCoordinator
  BY DEF IInv, LockInv, OneCoordinator
<1> QED BY <1>1, ControlPlaneInductive, PTL

\* No process takes the lock after it was told to stop.
THEOREM StopPrecludesLock == Spec => NoLockAfterStop
<1>1. ASSUME IInv, [Next]_vars, NEW p \in Proc, holder # p, holder' = p
      PROVE  ~stop[p]
  <2>1. CASE UNCHANGED vars
    BY <1>1, <2>1 DEF vars
  <2>2. CASE Next
    <3> PICK q \in Proc :
          \/ Launch(q) \/ Own(q)
          \/ Connect(q) \/ TryLock(q) \/ GetPid(q) \/ DatabaseFails(q)
          \/ Signal(q) \/ Alarm(q) \/ Kill(q)
          \/ EndSession(q) \/ Cut(q)
      BY <2>2 DEF Next
    <3>1. CASE TryLock(q)
      BY <1>1, <3>1 DEF TryLock, IInv, StartInv
    <3>2. CASE ~TryLock(q)
      <4>1. holder' \in {holder, None}
        BY <3>2 DEF Launch, Own, Connect, GetPid, DatabaseFails, GiveUp, Signal, Alarm, Kill,
             Interrupt, EndSession, Cut, Configure, Check, EnterDeadline, Recheck, Assign,
             LeaveDeadline, Refused, Announce, WriteReady, Wait, Poll, StopQuietly, Finally,
             FinallyFails, Finish, RuntimeStop, Unlock
      <4> QED BY <1>1, <4>1, ControlPlaneAssumption
    <3> QED BY <3>1, <3>2
  <2> QED BY <1>1, <2>1, <2>2
<1>2. IInv /\ [Next]_vars => [\A p \in Proc : holder # p /\ holder' = p => ~stop[p]]_vars
  BY <1>1
<1> QED BY <1>2, ControlPlaneInductive, PTL DEF Spec, NoLockAfterStop

-----------------------------------------------------------------------------
(* What a process reports, and why it ends as it does *)

\* The deadline runs only where an exception of its handlers is dealt with.
DeadlineInv == \A p \in Proc : active[p] => pc[p] \in {"recheck", "held", "leave"} \cup Dialog

\* The exit code, from where it is decided on, has its reason.
CodeInv == \A p \in Proc :
  /\ code[p] = 0 /\ pc[p] \in {"quiet", "finally", "finish", "ended"} => stop[p]
  /\ code[p] = 3 => pc[p] \in {"refused", "ended"} /\ frames[p] = {}
  /\ pc[p] \in Serving => code[p] = 0
  /\ pc[p] = "refused" => code[p] \in {3, 4}
  /\ pc[p] = "ended" /\ "ready" \in frames[p] /\ code[p] = 0 => "stopped" \in frames[p]

\* What was written tells how far the process got.
FramesInv == \A p \in Proc :
  /\ frames[p] # {} => pc[p] \in {"serve", "poll", "finally", "finish", "ended"}
  /\ "leadership_lost" \in frames[p] =>
       pc[p] \in {"finally", "finish", "ended"} /\ code[p] \in {4, None}
  /\ "stopped" \in frames[p] => pc[p] = "ended" /\ "ready" \in frames[p] /\ code[p] = 0

\* Only a process with a session holds the lock.  One that serves keeps its connection,
\* unless it finds it cut, until it has given the lock back.
HolderInv ==
  /\ holder \in sess \cup {None}
  /\ \A p \in Proc :
       /\ pc[p] \in {"lock", "locked", "held", "leave", "announce"} \cup Serving =>
            link[p] # "none"
       /\ pc[p] \in {"leave", "announce"} \cup Serving => state[p] = "running"
       /\ pc[p] = "finally" => code[p] = 4 \/ (state[p] = "running" /\ link[p] # "none")
       /\ /\ pc[p] \in {"finish", "ended"} /\ "ready" \in frames[p]
          /\ code[p] = 0 /\ link[p] # "cut"
          => holder # p

ReportInv == DeadlineInv /\ CodeInv /\ FramesInv /\ HolderInv

LEMMA ReportInit == Init => ReportInv
BY ControlPlaneAssumption
   DEF Init, ReportInv, DeadlineInv, CodeInv, FramesInv, HolderInv

LEMMA StartupReport ==
  ASSUME IInv, ReportInv, NEW p \in Proc,
         \/ Launch(p) \/ Configure(p) \/ Check(p) \/ EnterDeadline(p) \/ Recheck(p)
         \/ Connect(p) \/ TryLock(p) \/ GetPid(p) \/ DatabaseFails(p)
         \/ Assign(p) \/ LeaveDeadline(p) \/ Refused(p)
  PROVE  ReportInv'
<1> USE ControlPlaneAssumption
        DEF IInv, TypeOK, StartInv, ReportInv, DeadlineInv, CodeInv, FramesInv, HolderInv
<1>1. CASE Launch(p)         BY <1>1 DEF Launch
<1>2. CASE Configure(p)      BY <1>2 DEF Configure
<1>3. CASE Check(p)          BY <1>3 DEF Check
<1>4. CASE EnterDeadline(p)  BY <1>4 DEF EnterDeadline, Armed
<1>5. CASE Recheck(p)        BY <1>5 DEF Recheck, StopSeen
<1>6. CASE Connect(p)        BY <1>6 DEF Connect
<1>7. CASE TryLock(p)        BY <1>7 DEF TryLock, Granted, GiveUp
<1>8. CASE GetPid(p)         BY <1>8 DEF GetPid
<1>9. CASE DatabaseFails(p)  BY <1>9 DEF DatabaseFails, GiveUp
<1>10. CASE Assign(p)        BY <1>10 DEF Assign
<1>11. CASE LeaveDeadline(p) BY <1>11 DEF LeaveDeadline
<1>12. CASE Refused(p)       BY <1>12 DEF Refused
<1> QED BY <1>1, <1>2, <1>3, <1>4, <1>5, <1>6, <1>7, <1>8, <1>9, <1>10, <1>11, <1>12

LEMMA InterruptReport ==
  ASSUME IInv, ReportInv, NEW p \in Proc, Signal(p) \/ Alarm(p) \/ Kill(p)
  PROVE  ReportInv'
<1> USE ControlPlaneAssumption
        DEF IInv, TypeOK, StartInv, ReportInv, DeadlineInv, CodeInv, FramesInv, HolderInv
<1>1. CASE Signal(p) BY <1>1 DEF Signal, Interrupt
<1>2. CASE Alarm(p)  BY <1>2 DEF Alarm, Interrupt
<1>3. CASE Kill(p)   BY <1>3 DEF Kill
<1> QED BY <1>1, <1>2, <1>3

LEMMA ServingReport ==
  ASSUME IInv, ReportInv, NEW p \in Proc,
         \/ Announce(p) \/ WriteReady(p) \/ Wait(p) \/ Poll(p)
         \/ StopQuietly(p) \/ Finally(p) \/ FinallyFails(p) \/ Finish(p)
  PROVE  ReportInv'
<1> USE ControlPlaneAssumption
        DEF IInv, TypeOK, StartInv, ReportInv, DeadlineInv, CodeInv, FramesInv, HolderInv
<1>1. CASE Announce(p)     BY <1>1 DEF Announce
<1>2. CASE WriteReady(p)   BY <1>2 DEF WriteReady
<1>3. CASE Wait(p)         BY <1>3 DEF Wait, Woken
<1>4. CASE Poll(p)         BY <1>4 DEF Poll, Verified, LossCode
<1>5. CASE StopQuietly(p)  BY <1>5 DEF StopQuietly, RuntimeStop, Unlock
<1>6. CASE Finally(p)      BY <1>6 DEF Finally, RuntimeStop, Unlock
<1>7. CASE FinallyFails(p) BY <1>7 DEF FinallyFails, Unlock
<1>8. CASE Finish(p)       BY <1>8 DEF Finish
<1> QED BY <1>1, <1>2, <1>3, <1>4, <1>5, <1>6, <1>7, <1>8

LEMMA OutsideReport ==
  ASSUME IInv, ReportInv, NEW p \in Proc, EndSession(p) \/ Cut(p)
  PROVE  ReportInv'
<1> USE ControlPlaneAssumption
        DEF IInv, TypeOK, StartInv, ReportInv, DeadlineInv, CodeInv, FramesInv, HolderInv
<1>1. CASE EndSession(p) BY <1>1 DEF EndSession
<1>2. CASE Cut(p)        BY <1>2 DEF Cut
<1> QED BY <1>1, <1>2

\* Given the bookkeeping of the lock, that of the reports is inductive too.
THEOREM ReportsInductive == Spec => []ReportInv
<1>1. IInv /\ ReportInv /\ [Next]_vars => ReportInv'
  <2> SUFFICES ASSUME IInv, ReportInv, [Next]_vars PROVE ReportInv'
    OBVIOUS
  <2>1. CASE UNCHANGED vars
    BY <2>1 DEF vars, ReportInv, DeadlineInv, CodeInv, FramesInv, HolderInv
  <2>2. CASE Next
    <3> PICK p \in Proc :
          \/ Launch(p) \/ Own(p)
          \/ Connect(p) \/ TryLock(p) \/ GetPid(p) \/ DatabaseFails(p)
          \/ Signal(p) \/ Alarm(p) \/ Kill(p)
          \/ EndSession(p) \/ Cut(p)
      BY <2>2 DEF Next
    <3> QED BY StartupReport, InterruptReport, ServingReport, OutsideReport DEF Own
  <2> QED BY <2>1, <2>2
<1> QED BY <1>1, ReportInit, ControlPlaneInductive, PTL DEF Spec

\* The exit code of a process that ended tells why.
THEOREM ExitTellsWhy == Spec => []CodeTellsWhy
<1>1. ReportInv => CodeTellsWhy
  BY DEF ReportInv, CodeInv, FramesInv, CodeTellsWhy
<1> QED BY <1>1, ReportsInductive, PTL

\* A process that reported a clean stop does not hold the lock, unless its link was cut.
THEOREM CleanStopReleases == Spec => []StoppedMeansReleased
<1>1. ReportInv => StoppedMeansReleased
  BY DEF ReportInv, FramesInv, HolderInv, StoppedMeansReleased
<1> QED BY <1>1, ReportsInductive, PTL

=============================================================================
