----------------------------- MODULE RouterConfig -----------------------------
(***************************************************************************)
(* The configuration of the OpenWrt router as modules/openwrt_client.py    *)
(* edits it for creations, rollbacks and deletions of clusters and for     *)
(* administrators.  Each call of exec runs one uci command; what the       *)
(* commands have staged is shared by all sessions.  VLAN devices, DHCP     *)
(* hosts and redirects are anonymous sections: they are made by "uci add", *)
(* filled through their index -1, found by what they hold and deleted by   *)
(* the index they had when they were found.  The firewall zone is a list   *)
(* that is deleted and written anew without the member to remove.          *)
(***************************************************************************)
EXTENDS Integers, Sequences, FiniteSets, SequencesExt

CONSTANTS
  Cluster,   \* names of clusters; each is made once
  Visitor,   \* administrators' requests, one each, on a name of its own
  List,      \* the types of anonymous sections that are looked at
  Lan,       \* the member of the zone that was always there
  MaxFail,   \* bound on the calls that fail
  None

Name == Cluster \cup Visitor

ASSUME RouterAssumption ==
  /\ List \subseteq {"device", "host", "redirect"}
  /\ IsFiniteSet(Name) /\ Cluster \cap Visitor = {}
  /\ Lan \notin Name /\ None \notin Name \cup {Lan} /\ MaxFail \in Nat

VARIABLES
  lists,   \* anonymous sections, by type: what each is found by
  named,   \* the interfaces, which have names
  zone,    \* the networks of the zone "lan"
  lock,    \* the lock of _openwrt_lock for this router
  run,     \* what each thread does and has read
  fails,   \* how many calls failed
  spoilt,  \* history: lists edited by two threads at once, one of them without the
           \* lock, and the zone if its rewriting was broken off
  failed   \* history: threads that had a call fail

config  == <<lists, named, zone>>
history == <<spoilt, failed>>
vars    == <<config, lock, run, fails, history>>

Held(l) == ToSet(lists[l])

-----------------------------------------------------------------------------
(* The calls, as the uci commands they run *)

Op(do, on) == [do |-> do, on |-> on]
Add(l)    == IF l \in List THEN <<Op("add", l), Op("name", l)>> ELSE <<>>
Delete(l) == IF l \in List THEN <<Op("find", l), Op("drop", l)>> ELSE <<>>

AddInterfaceToZone      == <<Op("join", "zone")>>
RemoveInterfaceFromZone == <<Op("read", "zone"), Op("clear", "zone"), Op("refill", "zone")>>
CreateInterface == <<Op("set", "interface")>>
DeleteInterface == RemoveInterfaceFromZone \o <<Op("unset", "interface")>>

\* A sequence of calls is a sequence of groups; a call that fails ends its
\* group.  DHCP pools are left out: like an interface each has its name, which
\* nobody else uses, and no place in the zone.
Groups(g, rest) == IF g = <<>> THEN rest ELSE <<g>> \o rest
SetUp   == <<Add("device") \o (CreateInterface \o AddInterfaceToZone)>>
Forward == Groups(Add("host") \o Add("redirect"), <<>>)
CleanUpWith(interface) ==
  Groups(Delete("redirect"), Groups(Delete("host"),
    <<interface>> \o Groups(Delete("device"), <<>>)))
CleanUpKeepingZone == CleanUpWith(<<Op("unset", "interface")>>)  \* fault: it is left in the zone
CleanUp == CleanUpWith(DeleteInterface)
\* The routes that edit the zone alone do a part of these, and those for VLAN
\* devices do to their list what a rollback and a set-up do.
Visits  == {<<CreateInterface \o AddInterfaceToZone>>, <<DeleteInterface>>}

Stage == {"new", "setUp", "cloning", "forward", "ssh", "ready", "late", "cleanUp",
          "visit", "gone", "failed"}

\* Administrators may have made what their requests work on before.
Init ==
  /\ \E vs \in SUBSET Visitor : named = vs /\ zone = {Lan} \cup vs
  /\ lists = [l \in List |-> <<>>]
  /\ lock = None
  /\ run = [t \in Name |-> [at |-> "new", todo |-> <<>>, index |-> 0, nets |-> {}]]
  /\ fails = 0 /\ spoilt = {} /\ failed = {}

TypeOK ==
  /\ lists \in [List -> Seq(Name \cup {None})]
  /\ named \subseteq Name
  /\ zone \subseteq Name \cup {Lan}
  /\ lock \in Cluster \cup {None}
  /\ \A t \in Name : run[t].at \in Stage /\ run[t].index \in Nat
                     /\ run[t].nets \subseteq Name \cup {Lan}
  /\ fails \in 0..MaxFail /\ spoilt \subseteq List \cup {"zone"}
  /\ failed \subseteq Name

Busy(t) == run[t].todo # <<>>
NextOp(t) == Head(Head(run[t].todo))

\* The next command relies on what an earlier one saw or made.
Pending(t, do, on) == Busy(t) /\ NextOp(t) = Op(do, on)

\* Only a rollback that follows the set-up of the network, and administrators,
\* edit without the lock.
Unlocked(t) == run[t].at \in {"late", "visit"}

\* Does a command of t pull the rug from under u?
Upsets(op, u) ==
  \/ op.do = "add" /\ Pending(u, "name", op.on)
  \/ op.do = "drop" /\ (Pending(u, "name", op.on) \/ Pending(u, "drop", op.on))
  \/ /\ op.do \in {"join", "clear", "refill"}
     /\ Pending(u, "clear", op.on) \/ Pending(u, "refill", op.on)
  \/ op.do = "read" /\ Pending(u, "refill", op.on)

Races(t) == \E u \in Name \ {t} : (Unlocked(t) \/ Unlocked(u)) /\ Upsets(NextOp(t), u)

-----------------------------------------------------------------------------
(* One command *)

Advanced(t) == Groups(Tail(Head(run[t].todo)), Tail(run[t].todo))
\* The call returns, or raises.
Returned(t) == Tail(run[t].todo)

\* A set-up that fails is undone under the lock; elsewhere the exception is
\* swallowed or ends the request.
Raised(t) == IF run[t].at = "setUp" THEN [run[t] EXCEPT !.at = "cleanUp", !.todo = CleanUp]
             ELSE [run[t] EXCEPT !.todo = Returned(t)]

Position(l, n) == CHOOSE i \in DOMAIN lists[l] :
                    lists[l][i] = n /\ \A j \in 1..(i - 1) : lists[l][j] # n

Then(t) == run' = [run EXCEPT ![t].todo = Advanced(t)]
SetList(l, s) == lists' = [lists EXCEPT ![l] = s]

AddSection(t, l) ==
  /\ Pending(t, "add", l) /\ SetList(l, Append(lists[l], None)) /\ Then(t)
  /\ UNCHANGED <<named, zone, failed>>

\* uci refuses an index that is not there.
NameSection(t, l) ==
  /\ Pending(t, "name", l)
  /\ IF lists[l] = <<>>
     THEN run' = [run EXCEPT ![t] = Raised(t)] /\ UNCHANGED lists /\ failed' = failed \cup {t}
     ELSE /\ SetList(l, [lists[l] EXCEPT ![Len(lists[l])] = t])
          /\ Then(t) /\ UNCHANGED failed
  /\ UNCHANGED <<named, zone>>

\* What is not found raises: there is nothing to delete.
FindSection(t, l) ==
  /\ Pending(t, "find", l)
  /\ run' = IF t \in Held(l)
            THEN [run EXCEPT ![t].todo = Advanced(t), ![t].index = Position(l, t)]
            ELSE [run EXCEPT ![t] = Raised(t)]
  /\ UNCHANGED <<config, failed>>

\* "uci -q delete": an index that is not there is nothing to complain about.
DropSection(t, l) ==
  /\ Pending(t, "drop", l)
  /\ SetList(l, IF run[t].index <= Len(lists[l]) THEN RemoveAt(lists[l], run[t].index)
                ELSE lists[l])
  /\ run' = [run EXCEPT ![t].todo = Advanced(t), ![t].index = 0]
  /\ UNCHANGED <<named, zone, failed>>

SetInterface(t) ==
  /\ \/ Pending(t, "set", "interface") /\ named' = named \cup {t}
     \/ Pending(t, "unset", "interface") /\ named' = named \ {t}
  /\ Then(t)
  /\ UNCHANGED <<lists, zone, failed>>

JoinZone(t) ==
  /\ Pending(t, "join", "zone") /\ zone' = zone \cup {t} /\ Then(t)
  /\ UNCHANGED <<lists, named, failed>>

\* An interface that is not in the zone needs no rewriting.
ReadZone(t) ==
  /\ Pending(t, "read", "zone")
  /\ run' = IF t \in zone
            THEN [run EXCEPT ![t].todo = Advanced(t), ![t].nets = zone]
            ELSE [run EXCEPT ![t].todo =
                    Groups(SubSeq(Head(@), 4, Len(Head(@))), Tail(@))]
  /\ UNCHANGED <<config, failed>>

\* Deleting a list that is gone raises.
ClearZone(t) ==
  /\ Pending(t, "clear", "zone")
  /\ IF zone = {}
     THEN run' = [run EXCEPT ![t] = Raised(t)] /\ failed' = failed \cup {t}
     ELSE Then(t) /\ UNCHANGED failed
  /\ zone' = {}
  /\ UNCHANGED <<lists, named>>

\* One add_list after the other, of what was read.
RefillZone(t) ==
  /\ Pending(t, "refill", "zone")
  /\ zone' = zone \cup (run[t].nets \ {t})
  /\ run' = [run EXCEPT ![t].todo = Advanced(t), ![t].nets = {}]
  /\ UNCHANGED <<lists, named, failed>>

Command(t) ==
  /\ \/ \E l \in List : AddSection(t, l) \/ NameSection(t, l) \/ FindSection(t, l)
                        \/ DropSection(t, l)
     \/ SetInterface(t) \/ JoinZone(t) \/ ReadZone(t) \/ ClearZone(t) \/ RefillZone(t)
  /\ spoilt' = IF Races(t) THEN spoilt \cup {NextOp(t).on} ELSE spoilt
  /\ UNCHANGED <<lock, fails>>

\* The connection fails, or the command does.
CommandFails(t) ==
  /\ Busy(t) /\ fails < MaxFail
  /\ run' = [run EXCEPT ![t] = [Raised(t) EXCEPT !.index = 0, !.nets = {}]]
  /\ fails' = fails + 1 /\ failed' = failed \cup {t}
  /\ spoilt' = IF Pending(t, "refill", "zone") THEN spoilt \cup {"zone"} ELSE spoilt
  /\ UNCHANGED <<config, lock>>

-----------------------------------------------------------------------------
(* What the threads do: create_cluster, delete_cluster, routes *)

Begin(t, stage, plan) == run' = [run EXCEPT ![t].at = stage, ![t].todo = plan]
Goto(t, stage) == run' = [run EXCEPT ![t].at = stage]
Free(t, stage) == ~Busy(t) /\ run[t].at = stage

\* Each works under the lock, and gives up when it is held for 30 s: then a
\* creation ends where it is, a forwarding is left out, a deletion is refused.
LockedPlan == [new |-> <<"setUp", SetUp>>, cloning |-> <<"forward", Forward>>,
               ready |-> <<"cleanUp", CleanUp>>]
GivenUp == [new |-> "failed", cloning |-> "ssh", ready |-> "ready"]

AcquireToMake(t) ==  \* fault: a deletion does without the lock
  IF run[t].at = "ready" THEN UNCHANGED lock ELSE lock = None /\ lock' = t
Acquire(t) == lock = None /\ lock' = t

AskLock(k) ==
  /\ \E s \in DOMAIN LockedPlan :
       /\ Free(k, s)
       /\ \/ Acquire(k) /\ Begin(k, LockedPlan[s][1], LockedPlan[s][2])
          \/ lock \notin {None, k} /\ Goto(k, GivenUp[s]) /\ UNCHANGED lock
  /\ UNCHANGED <<config, fails, history>>

\* The lock is given back, whatever came of it.
Done == [setUp |-> "cloning", forward |-> "ssh", cleanUp |-> "gone", late |-> "gone", visit |-> "gone"]
EndPlan(t) ==
  /\ ~Busy(t) /\ run[t].at \in DOMAIN Done
  /\ Goto(t, Done[run[t].at])
  /\ lock' = IF lock = t THEN None ELSE lock
  /\ UNCHANGED <<config, fails, history>>

\* Through the router to the new client machine.
Reachable(k) == k \in named \cap zone /\ \A l \in List : k \in Held(l)
ReachClient(k) ==
  /\ Free(k, "ssh") /\ Reachable(k) /\ Goto(k, "ready")
  /\ UNCHANGED <<config, lock, fails, history>>

\* A cancellation, or a failure of the hypervisor or of SSH: _rollback_openwrt,
\* without the lock.
RollBack(k) ==
  /\ Free(k, "cloning") \/ Free(k, "ssh")
  /\ Begin(k, "late", CleanUp)
  /\ UNCHANGED <<config, lock, fails, history>>

Visit(t, plan) ==
  /\ Free(t, "new")
  /\ Begin(t, "visit", plan)
  /\ UNCHANGED <<config, lock, fails, history>>

Next ==
  \/ \E t \in Name : Command(t) \/ CommandFails(t) \/ EndPlan(t)
  \/ \E k \in Cluster : AskLock(k) \/ ReachClient(k) \/ RollBack(k)
  \/ \E t \in Visitor, plan \in Visits : Visit(t, plan)

Spec == Init /\ [][Next]_vars

-----------------------------------------------------------------------------
(* Properties *)

Rewriting == \E t \in Name : Pending(t, "refill", "zone")

\* A cluster that was made and is not being deleted keeps every entry it has
\* on the router, and the LAN its place in the zone, while other clusters are
\* made, rolled back and deleted.  Two things only may take them away: an edit
\* without the lock in the middle of another thread's, and for the zone a
\* rewriting that failed half-way (openwrt_client.py:264).
BystandersAreIntact ==
  /\ \A k \in Cluster : Free(k, "ready") =>
       /\ \A l \in List \ spoilt : k \in Held(l)
       /\ k \in named
  /\ "zone" \notin spoilt /\ ~Rewriting =>
       {Lan} \cup {k \in Cluster : Free(k, "ready")} \subseteq zone

\* A rollback or a deletion none of whose calls failed leaves nothing of its
\* cluster on the router, and no section is left without a name: those could
\* not be found again.
NothingIsLeft ==
  /\ \A k \in Cluster \ failed : Free(k, "gone") =>
       /\ \A l \in List \ spoilt : k \notin Held(l)
       /\ "zone" \notin spoilt => k \notin zone \cup named
  /\ failed = {} => \A l \in List \ spoilt :
       None \in Held(l) => \E t \in Name : Pending(t, "name", l)
===============================================================================
