-------------------------- MODULE StatusCacheProofs --------------------------
(***************************************************************************)
(* Proofs about StatusCache for any number of machines, servers and        *)
(* commanders: nothing shown is older than the refresh it came with.       *)
(***************************************************************************)
EXTENDS StatusCache, TLAPS

-----------------------------------------------------------------------------
(* The inductive invariant *)

\* What a refresh has read so far was true since it began; as long as it is
\* under way its history holds what each machine is now.
RefreshInv ==
  /\ refresh.at = "asleep" => refresh = NoRefresh
  /\ refresh.at # "asleep" => \A m \in Machine : power[m] \in sinceLoad[m]
  /\ \A m \in Machine : refresh.new[m] # None => refresh.new[m] \in sinceLoad[m]

\* Only what the hypervisor said or accepted is told to the cache.
CommandInv == \A c \in Commander :
  /\ cmd[c].at # "idle" => cmd[c].vm \in Machine /\ cmd[c].task \in Task
  /\ cmd[c].at = "telling" => cmd[c].heard = Goal(cmd[c].task)

IInv == TypeOK /\ RefreshInv /\ CommandInv /\ StalenessIsBounded

LEMMA InitInv == Init => IInv
BY CacheAssumption
   DEF Init, IInv, TypeOK, RefreshInv, CommandInv, StalenessIsBounded, NoRefresh, NoCommand,
       Unknown, Nothing, Status, Power, Task

-----------------------------------------------------------------------------
(* The refresh *)

LEMMA LoadClustersInv == IInv /\ LoadClusters => IInv'
<1>. SUFFICES ASSUME IInv, LoadClusters
              PROVE  IInv'
  OBVIOUS
<1>1. TypeOK'
  BY CacheAssumption DEF IInv, TypeOK, LoadClusters, world, Unknown, Power
<1>2. RefreshInv'
  BY DEF IInv, TypeOK, LoadClusters, world, Unknown, RefreshInv
<1>3. CommandInv' /\ StalenessIsBounded'
  BY DEF IInv, LoadClusters, CommandInv, StalenessIsBounded
<1>. QED  BY <1>1, <1>2, <1>3 DEF IInv

LEMMA BuildClientsInv == IInv /\ BuildClients => IInv'
<1>. SUFFICES ASSUME IInv, BuildClients
              PROVE  IInv'
  OBVIOUS
<1>1. TypeOK'
  BY CacheAssumption DEF IInv, TypeOK, BuildClients, world, Unknown, NoRefresh, Nothing
<1>2. RefreshInv'
  BY DEF IInv, TypeOK, BuildClients, world, Unknown, NoRefresh, Nothing, RefreshInv
<1>3. CommandInv' /\ StalenessIsBounded'
  BY DEF IInv, BuildClients, CommandInv, StalenessIsBounded
<1>. QED  BY <1>1, <1>2, <1>3 DEF IInv

LEMMA QuerySingleVmInv ==
  ASSUME IInv, NEW m \in Machine, QuerySingleVm(m)
  PROVE  IInv'
<1>1. Query(m) \in Status \cup {None} /\ (Query(m) # None => Query(m) = power[m])
  BY CacheAssumption DEF IInv, TypeOK, Query, Power, Status
<1>2. TypeOK'
  BY <1>1 DEF IInv, TypeOK, QuerySingleVm, world, ages
<1>3. RefreshInv'
  BY <1>1 DEF IInv, TypeOK, QuerySingleVm, ages, RefreshInv
<1>4. CommandInv' /\ StalenessIsBounded'
  BY DEF IInv, QuerySingleVm, CommandInv, StalenessIsBounded, ages
<1>. QED  BY <1>2, <1>3, <1>4 DEF IInv

\* The new cache brings its own history along.
LEMMA ReplaceCacheInv == IInv /\ ReplaceCache => IInv'
<1>. SUFFICES ASSUME IInv, ReplaceCache
              PROVE  IInv'
  OBVIOUS
<1>1. TypeOK'
  BY CacheAssumption DEF IInv, TypeOK, ReplaceCache, NewCache, world, Unknown, NoRefresh, Nothing
<1>2. RefreshInv'
  BY DEF IInv, TypeOK, ReplaceCache, Unknown, NoRefresh, Nothing, RefreshInv
<1>3. CommandInv' /\ StalenessIsBounded'
  BY DEF IInv, RefreshInv, ReplaceCache, NewCache, CommandInv, StalenessIsBounded
<1>. QED  BY <1>1, <1>2, <1>3 DEF IInv

-----------------------------------------------------------------------------
(* Commands *)

\* What CommandInv says of one commander.
Locals == [at : {"idle", "asked", "posting", "telling"}, vm : Machine \cup {None},
           task : Task \cup {None}, heard : Status \cup {None}]
LocalsOK(l) == /\ l.at # "idle" => l.vm \in Machine /\ l.task \in Task
               /\ l.at = "telling" => l.heard = Goal(l.task)

\* A commander goes on, and no machine changes.
LEMMA CommanderMoves ==
  ASSUME IInv, NEW c \in Commander, NEW l \in Locals, LocalsOK(l),
         cmd' = [cmd EXCEPT ![c] = l], UNCHANGED <<world, power, cache, refresh, ages>>,
         pending' \in [Machine -> Task \cup {None}],
         budget' \in [change : 0..MaxChange, command : 0..MaxCommand]
  PROVE  IInv'
<1>1. TypeOK'
  BY DEF IInv, TypeOK, Locals, world, ages
<1>2. RefreshInv' /\ StalenessIsBounded'
  BY DEF IInv, RefreshInv, StalenessIsBounded, ages
<1>3. CommandInv'
  BY DEF IInv, TypeOK, CommandInv, LocalsOK
<1>. QED  BY <1>1, <1>2, <1>3 DEF IInv

LEMMA AskInv ==
  ASSUME IInv, NEW c \in Commander, NEW m \in Machine, NEW task \in Task, Ask(c, m, task)
  PROVE  IInv'
<1>. DEFINE l == [NoCommand EXCEPT !.at = "asked", !.vm = m, !.task = task]
<1>1. l \in Locals /\ LocalsOK(l)
  BY DEF NoCommand, Locals, LocalsOK
<1>2. cmd' = [cmd EXCEPT ![c] = l] /\ UNCHANGED <<world, power, pending, cache, refresh, ages>>
  BY DEF Ask
<1>3. budget' \in [change : 0..MaxChange, command : 0..MaxCommand]
  BY CacheAssumption DEF Ask, IInv, TypeOK
<1>. HIDE DEF l
<1>. QED  BY <1>1, <1>2, <1>3, CommanderMoves DEF IInv, TypeOK

LEMMA GoalIsStatus == \A task \in Task : Goal(task) \in Status
BY DEF Goal, Task, Status

LEMMA ReadStatusInv ==
  ASSUME IInv, NEW c \in Commander, ReadStatus(c)
  PROVE  IInv'
<1>. DEFINE r == cmd[c]
            told == [r EXCEPT !.at = "telling", !.heard = Goal(r.task)]
            posting == [r EXCEPT !.at = "posting"]
<1>1. /\ r.at = "asked" /\ r.vm \in Machine /\ r.task \in Task /\ Goal(r.task) \in Status
      /\ r \in Locals
  BY GoalIsStatus DEF IInv, TypeOK, CommandInv, ReadStatus, Locals
<1>2. /\ told \in Locals /\ LocalsOK(told)
      /\ posting \in Locals /\ LocalsOK(posting)
      /\ NoCommand \in Locals /\ LocalsOK(NoCommand)
  BY <1>1 DEF Locals, LocalsOK, NoCommand
<1>3. UNCHANGED <<world, power, pending, cache, refresh, budget, ages>>
  BY DEF ReadStatus
<1>4. cmd' = [cmd EXCEPT ![c] = CASE Query(r.vm) = None -> NoCommand
                                  [] Query(r.vm) = Goal(r.task) -> told
                                  [] OTHER -> posting]
  BY DEF ReadStatus, Failed
<1>. HIDE DEF told, posting
<1>5. \/ cmd' = [cmd EXCEPT ![c] = NoCommand]
      \/ cmd' = [cmd EXCEPT ![c] = told]
      \/ cmd' = [cmd EXCEPT ![c] = posting]
  <2>1. CASE Query(r.vm) = None
    <3>1. Goal(r.task) # None
      BY <1>1, CacheAssumption DEF Status
    <3>. QED  BY <1>4, <2>1, <3>1
  <2>2. CASE Query(r.vm) # None
    BY <1>4, <2>2
  <2>. QED  BY <2>1, <2>2
<1>. QED  BY <1>2, <1>3, <1>5, CommanderMoves DEF IInv, TypeOK

LEMMA PostInv ==
  ASSUME IInv, NEW c \in Commander, Post(c)
  PROVE  IInv'
<1>. DEFINE r == cmd[c]
            told == [r EXCEPT !.at = "telling", !.heard = Goal(r.task)]
<1>1. /\ r.at = "posting" /\ r.vm \in Machine /\ r.task \in Task /\ Goal(r.task) \in Status
      /\ r \in Locals
  BY GoalIsStatus DEF IInv, TypeOK, CommandInv, Post, Locals
<1>2. /\ told \in Locals /\ LocalsOK(told)
      /\ NoCommand \in Locals /\ LocalsOK(NoCommand)
  BY <1>1 DEF Locals, LocalsOK, NoCommand
<1>3. UNCHANGED <<world, power, cache, refresh, budget, ages>>
      /\ pending' \in [Machine -> Task \cup {None}]
  BY <1>1 DEF Post, IInv, TypeOK
<1>4. CASE Query(r.vm) = None
  <2>1. cmd' = [cmd EXCEPT ![c] = NoCommand]
    BY <1>4 DEF Post, Failed
  <2>. QED  BY <1>2, <1>3, <2>1, CommanderMoves DEF IInv, TypeOK
<1>5. CASE Query(r.vm) # None
  <2>1. cmd' = [cmd EXCEPT ![c].at = "telling", ![c].heard = Goal(r.task)]
    BY <1>5 DEF Post
  <2>2. cmd' = [cmd EXCEPT ![c] = told]
    BY <2>1 DEF IInv, TypeOK
  <2>. HIDE DEF told
  <2>. QED  BY <1>2, <1>3, <2>2, CommanderMoves DEF IInv, TypeOK
<1>. QED  BY <1>4, <1>5

-----------------------------------------------------------------------------
(* Histories only grow *)

LEMMA NoteKeeps ==
  ASSUME IInv, NEW m \in Machine, NEW p \in Power, Note(m, p)
  PROVE  /\ since' \in [Machine -> SUBSET Power] /\ sinceLoad' \in [Machine -> SUBSET Power]
         /\ \A n \in Machine : since[n] \subseteq since'[n] /\ sinceLoad[n] \subseteq sinceLoad'[n]
         /\ p \in since'[m]
         /\ refresh.at # "asleep" => p \in sinceLoad'[m]
BY DEF IInv, TypeOK, Note, Noted

LEMMA UpdateVmStatusInv ==
  ASSUME IInv, NEW c \in Commander, UpdateVmStatus(c)
  PROVE  IInv'
<1>. DEFINE r == cmd[c]
<1>1. /\ r.at = "telling" /\ r.vm \in Machine /\ Goal(r.task) \in Status
      /\ r.heard = Goal(r.task)
  BY GoalIsStatus DEF IInv, CommandInv, UpdateVmStatus
<1>2. Note(r.vm, Goal(r.task)) /\ Goal(r.task) \in Power
  BY <1>1, CacheAssumption DEF UpdateVmStatus, Status, Power
<1>3. /\ since' \in [Machine -> SUBSET Power] /\ sinceLoad' \in [Machine -> SUBSET Power]
      /\ \A n \in Machine : since[n] \subseteq since'[n] /\ sinceLoad[n] \subseteq sinceLoad'[n]
      /\ Goal(r.task) \in since'[r.vm]
  BY <1>1, <1>2, NoteKeeps
<1>4. /\ cache' = [cache EXCEPT ![r.vm] = Goal(r.task)]
      /\ cmd' = [cmd EXCEPT ![c] = NoCommand]
      /\ UNCHANGED <<world, power, pending, refresh, budget>>
  BY DEF UpdateVmStatus
<1>5. TypeOK'
  BY <1>1, <1>3, <1>4 DEF IInv, TypeOK, NoCommand, world
<1>6. RefreshInv'
  BY <1>3, <1>4 DEF IInv, RefreshInv
<1>7. CommandInv'
  BY <1>4 DEF IInv, TypeOK, CommandInv, NoCommand
<1>8. StalenessIsBounded'
  BY <1>1, <1>3, <1>4 DEF IInv, TypeOK, StalenessIsBounded
<1>. QED  BY <1>5, <1>6, <1>7, <1>8 DEF IInv

-----------------------------------------------------------------------------
(* The hypervisors and everybody else *)

LEMMA BecomesInv ==
  ASSUME IInv, NEW m \in Machine, NEW p \in Power, Becomes(m, p),
         UNCHANGED <<world, cache, refresh, cmd>>,
         pending' \in [Machine -> Task \cup {None}],
         budget' \in [change : 0..MaxChange, command : 0..MaxCommand]
  PROVE  IInv'
<1>1. /\ since' \in [Machine -> SUBSET Power] /\ sinceLoad' \in [Machine -> SUBSET Power]
      /\ \A n \in Machine : since[n] \subseteq since'[n] /\ sinceLoad[n] \subseteq sinceLoad'[n]
      /\ refresh.at # "asleep" => p \in sinceLoad'[m]
  BY NoteKeeps DEF Becomes
<1>2. power' = [power EXCEPT ![m] = p]
  BY DEF Becomes
<1>3. TypeOK'
  BY <1>1, <1>2 DEF IInv, TypeOK, world
<1>4. RefreshInv'
  BY <1>1, <1>2 DEF IInv, TypeOK, RefreshInv
<1>5. CommandInv' /\ StalenessIsBounded'
  BY <1>1 DEF IInv, TypeOK, CommandInv, StalenessIsBounded
<1>. QED  BY <1>3, <1>4, <1>5 DEF IInv

LEMMA EndTaskInv ==
  ASSUME IInv, NEW m \in Machine, EndTask(m)
  PROVE  IInv'
<1>1. pending' \in [Machine -> Task \cup {None}]
  BY DEF IInv, TypeOK, EndTask
<1>2. Goal(pending[m]) \in Power
  BY GoalIsStatus DEF IInv, TypeOK, EndTask, Power
<1>3. CASE Becomes(m, Goal(pending[m]))
  BY <1>1, <1>2, <1>3, BecomesInv DEF EndTask, IInv, TypeOK
<1>4. CASE UNCHANGED <<power, ages>>
  BY <1>1, <1>4 DEF EndTask, IInv, TypeOK, RefreshInv, CommandInv, StalenessIsBounded, world, ages
<1>. QED  BY <1>3, <1>4 DEF EndTask

LEMMA ChangeBudget ==
  ASSUME IInv, Change
  PROVE  budget' \in [change : 0..MaxChange, command : 0..MaxCommand]
BY CacheAssumption DEF IInv, TypeOK, Change

LEMMA ChangePowerInv ==
  ASSUME IInv, NEW m \in Machine, NEW p \in Power, ChangePower(m, p)
  PROVE  IInv'
BY BecomesInv, ChangeBudget DEF ChangePower, IInv, TypeOK

LEMMA ChangeWorldInv ==
  ASSUME IInv, (\E m \in Machine : ChangeRows(m)) \/ \E s \in Server : ChangeServer(s)
  PROVE  IInv'
<1>1. budget' \in [change : 0..MaxChange, command : 0..MaxCommand]
  BY ChangeBudget DEF ChangeRows, ChangeServer
<1>2. /\ rows' \subseteq Machine /\ known' \subseteq Server /\ reached' \subseteq Server
      /\ UNCHANGED <<power, pending, cache, refresh, cmd, ages>>
  BY DEF ChangeRows, ChangeServer, IInv, TypeOK
<1>. QED  BY <1>1, <1>2 DEF IInv, TypeOK, RefreshInv, CommandInv, StalenessIsBounded, ages

-----------------------------------------------------------------------------
(* The theorems *)

LEMMA NextInv == IInv /\ [Next]_vars => IInv'
<1>. SUFFICES ASSUME IInv, [Next]_vars
              PROVE  IInv'
  OBVIOUS
<1>1. CASE RefreshStep
  BY <1>1, LoadClustersInv, BuildClientsInv, ReplaceCacheInv, QuerySingleVmInv DEF RefreshStep
<1>2. CASE \E c \in Commander : CommandStep(c) \/ \E m \in Machine, t \in Task : Ask(c, m, t)
  BY <1>2, ReadStatusInv, PostInv, UpdateVmStatusInv, AskInv DEF CommandStep
<1>3. CASE \E m \in Machine : EndTask(m) \/ \E p \in Power : ChangePower(m, p)
  BY <1>3, EndTaskInv, ChangePowerInv
<1>4. CASE (\E m \in Machine : ChangeRows(m)) \/ \E s \in Server : ChangeServer(s)
  BY <1>4, ChangeWorldInv
<1>5. CASE UNCHANGED vars
  BY <1>5 DEF vars, world, ages, IInv, TypeOK, RefreshInv, CommandInv, StalenessIsBounded
<1>. QED  BY <1>1, <1>2, <1>3, <1>4, <1>5 DEF Next

\* In every reachable state the variables have their types, what a refresh has
\* read was true since it began, and a command tells the cache only what the
\* hypervisor said or accepted.
THEOREM CacheInductive == Spec => []IInv
<1>1. Init => IInv
  BY InitInv
<1>2. IInv /\ [Next]_vars => IInv'
  BY NextInv
<1>. QED  BY <1>1, <1>2, PTL DEF Spec

\* No status shown is older than the refresh that is in the cache: it was true,
\* or accepted by the hypervisor, since that refresh began (_refresh_cache
\* replaces everything, update_vm_status follows a successful call).
THEOREM NothingIsOlder == Spec => []StalenessIsBounded
<1>1. IInv => StalenessIsBounded
  BY DEF IInv
<1>. QED  BY <1>1, CacheInductive, PTL
===============================================================================
