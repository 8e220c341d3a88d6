--------------------------- MODULE ClusterLifecycle ---------------------------
(***************************************************************************)
(* The life of a cluster in modules/k8s_manager.py: creation with its      *)
(* rollback, deletion, forced deletion and the row saved by a deployment,  *)
(* over four systems that fail separately: the table of clusters, the      *)
(* router, the hypervisor and SSH into the new machines.  Each request     *)
(* runs once; an action is one stretch of its thread's code that other     *)
(* threads cannot tell apart.                                              *)
(***************************************************************************)
EXTENDS Integers, Sequences, FiniteSets

CONSTANTS
  Creator,   \* requests to create a cluster
  Queued,    \* those submitted to the create queue; the others run in their HTTP thread
  Deleter,   \* requests to delete one
  Deployer,  \* deployments of Kubernetes, at most the two workers of their queue
  Size,      \* machines of a cluster
  MaxVm,     \* bound on the machine ids the hypervisor has
  Admin,     \* may administrators act on clusters still being made?
  Faults,    \* what may fail, a subset of Fault
  None

Fault == {"config",        \* a lookup of the settings, or incomplete settings
          "db",            \* a save or a deletion of a row
          "busy",          \* 30 s pass in front of a lock held by another thread
          "router",        \* connecting to the router, setting it up
          "cleanup",       \* removing an entry from the router
          "pve",           \* connecting to the hypervisor, reading, cloning
          "clone_config",  \* configuring a machine that was just cloned
          "release",       \* removing a machine
          "ssh"}           \* reaching the new client machine

ASSUME LifecycleAssumption ==
  /\ IsFiniteSet(Creator) /\ Queued \subseteq Creator
  /\ Creator \cap Deleter = {}
  /\ Size \in Nat \ {0} /\ MaxVm \in Nat
  /\ Admin \in BOOLEAN /\ Faults \subseteq Fault
  /\ None \notin Creator \cup Deleter

VARIABLES
  rows,    \* table clusters with its vms, by the number in the name
  serial,  \* the table's id sequence, drawn by save_cluster only
  net,     \* numbers with VLAN device, interface and DHCP pool on the router
  fwd,     \* numbers with a port forwarding and DHCP hosts on the router
  hyp,     \* the machines of the hypervisor: id -> request that cloned it
  left,    \* history: numbers of which a call that cleans up has left something, or
           \* whose row an administrator forced away
  torn,    \* history: numbers a deletion has released machines of, until they are
           \* allocated again: their rows list ids that may be another cluster's
  lock,    \* the router's lock of _openwrt_lock
  make,    \* locals of create_cluster
  queue,   \* the delete queue
  del,     \* locals of delete_cluster
  dep      \* locals of deploy_k8s

vars == <<rows, serial, net, fwd, hyp, left, torn, lock, make, queue, del, dep>>

Num  == 1..Cardinality(Creator)
VmId == 1..MaxVm
SeqRange(s) == {s[i] : i \in DOMAIN s}

\* A row's "by" is the creation whose entry it holds; the code has no such
\* column, the properties need it.
NoRow == [id |-> 0, status |-> "none", vms |-> <<>>, by |-> None]
Row   == [id : Nat, status : {"allocating", "creating", "running"},
          vms : Seq(VmId), by : Creator]

Ended == {"failed", "done"}
MakeStage == {"idle", "allocated", "saved", "setup", "networked", "cloning", "numbered",
              "forwarding", "forward", "started", "ready", "resaving",
              "undoVms", "undoRouter", "undoRow"} \cup Ended
DelStage  == {"idle", "queued", "loaded", "released", "cleaning", "cleaned"} \cup Ended

TypeOK ==
  /\ rows \in [Num -> Row \cup {NoRow}] /\ serial \in Nat
  /\ net \subseteq Num /\ fwd \subseteq Num /\ left \subseteq Num /\ torn \subseteq Num
  /\ hyp \in [VmId -> Creator \cup {None}]
  /\ lock \in Creator \cup Deleter \cup {None}
  /\ make \in [Creator -> [at : MakeStage, num : Num \cup {0}, vms : Seq(VmId),
                           next : VmId \cup {0}, cancel : BOOLEAN]]
  /\ queue \in Seq(Deleter)
  /\ del \in [Deleter -> [at : DelStage, num : Num \cup {0}, row : Row \cup {NoRow}]]
  /\ dep \in [Deployer -> [at : {"idle", "deploying", "installing", "done"}, num : Num \cup {0},
                           row : Row \cup {NoRow}]]

Init ==
  /\ rows = [n \in Num |-> NoRow] /\ serial = 0
  /\ net = {} /\ fwd = {} /\ left = {} /\ torn = {} /\ hyp = [v \in VmId |-> None] /\ lock = None
  /\ make = [c \in Creator |-> [at |-> "idle", num |-> 0, vms |-> <<>>, next |-> 0,
                                cancel |-> FALSE]]
  /\ queue = <<>>
  /\ del = [d \in Deleter |-> [at |-> "idle", num |-> 0, row |-> NoRow]]
  /\ dep = [p \in Deployer |-> [at |-> "idle", num |-> 0, row |-> NoRow]]

Live(c)   == make[c].at \notin Ended \cup {"idle"}
Active(d) == del[d].at \notin Ended \cup {"idle", "queued"}

-----------------------------------------------------------------------------
(* The table *)

Used == {n \in Num : rows[n] # NoRow}

\* _allocate_cluster_id: the first gap in the ids.
FirstGap(ids) == CHOOSE n \in 1..(Cardinality(ids) + 1) :
                   n \notin ids /\ \A i \in 1..(n - 1) : i \in ids

\* save_cluster finds the row by name.  A missing one is inserted under an id
\* of the sequence; machines are overwritten by name, none is dropped.
Saved(n, status, vms, by) ==
  LET old == rows[n] IN
  [rows EXCEPT ![n] = [id |-> IF old = NoRow THEN serial + 1 ELSE old.id,
                       status |-> status,
                       vms |-> IF vms = <<>> THEN old.vms ELSE vms,
                       by |-> by]]

\* Its id and its machines must be no other row's.
Unique(n, vms) == \A m \in Used \ {n} :
  /\ rows[n] = NoRow => rows[m].id # serial + 1
  /\ SeqRange(vms) \cap SeqRange(rows[m].vms) = {}

Drawn(n) == IF rows[n] = NoRow THEN serial + 1 ELSE serial

Save(n, status, vms, by) ==
  /\ Unique(n, vms)
  /\ rows' = Saved(n, status, vms, by)
  /\ serial' = Drawn(n)

\* A conflict uses up the drawn id.
SaveFails(n, vms) ==
  \/ "db" \in Faults /\ UNCHANGED serial
  \/ ~Unique(n, vms) /\ serial' = Drawn(n)

\* delete_cluster_db where its exception is swallowed.
TryDropRow(n) ==
  \/ rows' = [rows EXCEPT ![n] = NoRow]
  \/ "db" \in Faults /\ UNCHANGED rows

-----------------------------------------------------------------------------
(* Router and hypervisor *)

Acquire(a) == lock = None /\ lock' = a
\* Half a minute passed, or the router's address could not be looked up.
GivesUp == /\ UNCHANGED lock
           /\ "config" \in Faults \/ (lock # None /\ "busy" \in Faults)

\* _rollback_openwrt and the cleanup of a deletion: every entry is removed on
\* its own, and a failure is swallowed.
KeepForwarding(n) == net' = net \ {n} /\ UNCHANGED <<fwd, left>>  \* fault: the forwarding is forgotten
TryCleanRouter(n) ==
  /\ net' = net \ {n} \/ ("cleanup" \in Faults /\ UNCHANGED net)
  /\ fwd' = fwd \ {n} \/ ("cleanup" \in Faults /\ UNCHANGED fwd)
  /\ left' = IF n \in net' \cup fwd' THEN left \cup {n} ELSE left

\* release_vm for each machine of a list, every failure swallowed.
TryRelease(n, vms) ==
  \E kept \in SUBSET SeqRange(vms) :
    /\ kept # {} => "release" \in Faults
    /\ left' = IF kept = {} THEN left ELSE left \cup {n}
    /\ hyp' = [v \in VmId |-> IF v \in SeqRange(vms) \ kept THEN None ELSE hyp[v]]

Free == {v \in VmId : hyp[v] = None}

\* get_next_vmid: the hypervisor names its lowest free id, and reserves nothing.
NextId == CHOOSE v \in Free : \A w \in Free : v <= w
-----------------------------------------------------------------------------
(* create_cluster *)

\* Only the number outlives the request, in the names of what it made.
Goto(c, stage) == make' = [make EXCEPT ![c] =
  IF stage \in Ended THEN [at |-> stage, num |-> @.num, vms |-> <<>>, next |-> 0, cancel |-> FALSE]
  ELSE [@ EXCEPT !.at = stage]]
tables   == <<rows, serial>>
router   == <<net, fwd, left>>
requests == <<torn, queue, del, dep>>

\* The id of a new row is its number, not one of the sequence.
IdFromSequence(n) == serial + 1  \* fault: the insertion leaves the id to the table
NewId(n) == n

\* One worker serves the create queue.  The row is inserted with the number as
\* its id, under the advisory lock of the transaction; a row of the same name
\* makes the insertion fail.
Allocate(c) ==
  /\ make[c].at = "idle"
  /\ c \in Queued => \A e \in Queued : ~Live(e)
  /\ LET n == FirstGap({rows[m].id : m \in Used}) IN
     IF rows[n] = NoRow
     THEN /\ rows' = [rows EXCEPT ![n] = [id |-> NewId(n), status |-> "allocating",
                                          vms |-> <<>>, by |-> c]]
          /\ make' = [make EXCEPT ![c].at = "allocated", ![c].num = n]
         /\ torn' = torn \ {n}
     ELSE Goto(c, "failed") /\ UNCHANGED <<rows, torn>>
  /\ UNCHANGED <<serial, router, hyp, lock, queue, del, dep>>

SaveInitial(c) ==
  LET n == make[c].num IN
  /\ make[c].at = "allocated"
  /\ \/ Save(n, "creating", <<>>, c) /\ Goto(c, "saved")
     \/ "config" \in Faults /\ UNCHANGED tables /\ Goto(c, "failed")
     \/ SaveFails(n, <<>>) /\ TryDropRow(n) /\ Goto(c, "failed")
  /\ UNCHANGED <<router, hyp, lock, requests>>

\* The first cancellation check calls _cleanup_db before it is defined: the
\* exception it raises leaves the row.  So does giving up in front of the lock.
AskRouter(c) ==
  /\ make[c].at = "saved"
  /\ \/ make[c].cancel /\ Goto(c, "failed") /\ UNCHANGED lock
     \/ ~make[c].cancel /\ Acquire(c) /\ Goto(c, "setup")
     \/ ~make[c].cancel /\ GivesUp /\ Goto(c, "failed")
  /\ UNCHANGED <<tables, router, hyp, requests>>

\* The client is made outside the handler that rolls back, inside the "finally".
Setup(c) ==
  LET n == make[c].num IN
  /\ make[c].at = "setup"
  /\ \/ "config" \in Faults /\ lock' = None /\ UNCHANGED <<rows, router>> /\ Goto(c, "failed")
     \/ /\ ~make[c].cancel /\ lock' = None /\ net' = net \cup {n} /\ UNCHANGED <<rows, fwd, left>>
        /\ Goto(c, "networked")
     \/ /\ make[c].cancel \/ "router" \in Faults
        /\ lock' = None
        /\ \/ TryCleanRouter(n)
           \/ /\ "cleanup" \in Faults /\ ~make[c].cancel
              /\ net' = net \cup {n} /\ left' = left \cup {n} /\ UNCHANGED fwd
        /\ TryDropRow(n) /\ Goto(c, "failed")
  /\ UNCHANGED <<serial, hyp, requests>>

\* Without a connection to the hypervisor nothing is undone.
ConnectPve(c) ==
  /\ make[c].at = "networked"
  /\ \/ make[c].cancel /\ Goto(c, "undoRouter")
     \/ ~make[c].cancel /\ Goto(c, "cloning")
     \/ ~make[c].cancel /\ Faults \cap {"config", "pve"} # {} /\ Goto(c, "failed")
  /\ UNCHANGED <<tables, router, hyp, lock, requests>>

\* The head of the loop over the machines.
DrawVmId(c) ==
  /\ make[c].at = "cloning"
  /\ \/ ~make[c].cancel /\ Free # {}
        /\ make' = [make EXCEPT ![c].at = "numbered", ![c].next = NextId]
     \/ (make[c].cancel \/ "pve" \in Faults \/ Free = {}) /\ Goto(c, "undoVms")
  /\ UNCHANGED <<tables, router, hyp, lock, requests>>

\* The machines recorded for the rollback: one whose clone succeeded and whose
\* configuration failed is not among them.
Recorded(c) == Append(make[c].vms, make[c].next)

RecordedEarly(c) == [make[c] EXCEPT !.at = "undoVms", !.vms = Recorded(c)]  \* fault: recorded before it is cloned
TriedAgain(c) == [make[c] EXCEPT !.at = "cloning"]  \* fault: retried without a bound
CloneFailed(c) == [make[c] EXCEPT !.at = "undoVms", !.next = 0]

Clone(c) ==
  LET v == make[c].next IN
  /\ make[c].at = "numbered"
  /\ \/ /\ hyp[v] = None /\ hyp' = [hyp EXCEPT ![v] = c]
        /\ make' = [make EXCEPT
             ![c].at = IF Len(Recorded(c)) = Size THEN "forwarding" ELSE "cloning",
             ![c].vms = Recorded(c), ![c].next = 0]
        /\ UNCHANGED left
     \/ /\ hyp[v] = None /\ "clone_config" \in Faults /\ hyp' = [hyp EXCEPT ![v] = c]
        /\ make' = [make EXCEPT ![c] = CloneFailed(c)] /\ left' = left \cup {make[c].num}
     \/ /\ hyp[v] # None \/ "pve" \in Faults
        /\ make' = [make EXCEPT ![c] = CloneFailed(c)] /\ UNCHANGED <<hyp, left>>
  /\ UNCHANGED <<tables, net, fwd, lock, requests>>

\* Failures of the forwarding are logged and nothing else.
AskForwarding(c) ==
  /\ make[c].at = "forwarding"
  /\ \/ Acquire(c) /\ Goto(c, "forward")
     \/ GivesUp /\ Goto(c, "started")
  /\ UNCHANGED <<tables, router, hyp, requests>>

Forward(c) ==
  LET n == make[c].num IN
  /\ make[c].at = "forward" /\ lock' = None
  /\ fwd' = fwd \cup {n} \/ (Faults \cap {"config", "router"} # {} /\ UNCHANGED fwd)
  /\ Goto(c, "started")
  /\ UNCHANGED <<tables, net, left, hyp, requests>>

\* SSH goes through the router to the client machine of this creation.
Reachable(c) == /\ make[c].num \in net \cap fwd
                /\ \A v \in SeqRange(make[c].vms) : hyp[v] = c

ConfigureSsh(c) ==
  /\ make[c].at = "started"
  /\ \/ Reachable(c) /\ Goto(c, "ready")
     \/ (~Reachable(c) \/ "ssh" \in Faults) /\ Goto(c, "undoVms")
  /\ UNCHANGED <<tables, router, hyp, lock, requests>>

\* The rollback: machines, router (without its lock), row.
RowFirst == [undoVms |-> "undoRow", undoRow |-> "undoRouter", undoRouter |-> "failed"]  \* fault: the number is free too early
AfterUndo == [undoVms |-> "undoRouter", undoRouter |-> "undoRow", undoRow |-> "failed"]
Undone(c) == Goto(c, AfterUndo[make[c].at])

UndoVms(c) ==
  /\ make[c].at = "undoVms"
  /\ TryRelease(make[c].num, make[c].vms) /\ Undone(c)
  /\ UNCHANGED <<tables, net, fwd, lock, requests>>

UndoRouter(c) ==
  /\ make[c].at = "undoRouter"
  /\ TryCleanRouter(make[c].num) /\ Undone(c)
  /\ UNCHANGED <<tables, hyp, lock, requests>>

UndoRow(c) ==
  /\ make[c].at = "undoRow"
  /\ TryDropRow(make[c].num) /\ Undone(c)
  /\ UNCHANGED <<serial, router, hyp, lock, requests>>

\* The last save has no rollback.
FinalSave(c) ==
  LET n == make[c].num IN
  /\ make[c].at = "ready"
  /\ \/ /\ Save(n, "running", make[c].vms, c)
        /\ Goto(c, IF c \in Queued THEN "done" ELSE "resaving")
     \/ SaveFails(n, make[c].vms) /\ Goto(c, "failed") /\ UNCHANGED rows
  /\ UNCHANGED <<router, hyp, lock, requests>>

\* The HTTP route saves the entry it got back once more.
Resave(c) ==
  LET n == make[c].num IN
  /\ make[c].at = "resaving"
  /\ \/ Save(n, "running", make[c].vms, c)
     \/ SaveFails(n, make[c].vms) /\ UNCHANGED rows
  /\ Goto(c, "done")
  /\ UNCHANGED <<router, hyp, lock, requests>>

\* cancel_task sets the event of a creation that runs in the queue.
Cancel(c) ==
  /\ c \in Queued /\ Live(c) /\ ~make[c].cancel
  /\ make' = [make EXCEPT ![c].cancel = TRUE]
  /\ UNCHANGED <<tables, router, hyp, lock, requests>>

CreatorStep(c) ==
  \/ Allocate(c) \/ SaveInitial(c) \/ AskRouter(c) \/ Setup(c) \/ ConnectPve(c)
  \/ DrawVmId(c) \/ Clone(c) \/ AskForwarding(c) \/ Forward(c) \/ ConfigureSsh(c)
  \/ UndoVms(c) \/ UndoRouter(c) \/ UndoRow(c) \/ FinalSave(c) \/ Resave(c)

-----------------------------------------------------------------------------
(* delete_cluster_async, delete_cluster, force_delete_cluster *)

Step(d, stage) == del' = [del EXCEPT ![d].at = stage]
others == <<make, dep>>

\* created_by is written by the last save of a creation: until then only an
\* administrator is authorized.
Deletable(n) == rows[n] # NoRow /\ (Admin \/ rows[n].status = "running")

AskDelete(d, n) ==
  /\ del[d].at = "idle" /\ Deletable(n)
  /\ del' = [del EXCEPT ![d].at = "queued", ![d].num = n]
  /\ queue' = Append(queue, d)
  /\ UNCHANGED <<tables, router, hyp, lock, torn, others>>

\* The one worker of the queue authorizes again and takes the row it finds
\* under the name.
LoadRow(d) ==
  LET n == del[d].num IN
  /\ queue # <<>> /\ Head(queue) = d /\ \A e \in Deleter : ~Active(e)
  /\ queue' = Tail(queue)
  /\ IF Deletable(n)
     THEN del' = [del EXCEPT ![d].at = "loaded", ![d].row = rows[n]]
     ELSE Step(d, "failed")
  /\ UNCHANGED <<tables, router, hyp, lock, torn, others>>

\* Without a connection to the hypervisor the deletion ends before it began.
IgnoresPve(d) == UNCHANGED <<hyp, left>> /\ Step(d, "released")  \* fault: it goes on
HalfDone(d)   == TryRelease(del[d].num, del[d].row.vms) /\ Step(d, "failed")  \* fault: a later call may raise
PveFails(d)   == UNCHANGED <<hyp, left>> /\ Step(d, "failed")

\* The numbers of the creations that lose a machine in this step.
Robbed == {make[hyp[v]].num : v \in {w \in VmId : hyp[w] # None /\ hyp'[w] = None}}

ReleaseVms(d) ==
  /\ del[d].at = "loaded"
  /\ \/ TryRelease(del[d].num, del[d].row.vms) /\ Step(d, "released")
        /\ torn' = torn \cup {del[d].num} \cup Robbed
     \/ Faults \cap {"config", "pve"} # {} /\ PveFails(d) /\ UNCHANGED torn
  /\ UNCHANGED <<tables, net, fwd, lock, queue, others>>

LockRouter(d) ==
  /\ del[d].at = "released"
  /\ \/ Acquire(d) /\ Step(d, "cleaning")
     \/ GivesUp /\ Step(d, "failed")
  /\ UNCHANGED <<tables, router, hyp, queue, torn, others>>

\* Only the reload of dnsmasq, after the forwarding, may still raise.
CleanRouter(d) ==
  LET n == del[d].num IN
  /\ del[d].at = "cleaning" /\ lock' = None
  /\ \/ TryCleanRouter(n) /\ Step(d, "cleaned")
     \/ /\ Faults \cap {"config", "router"} # {} /\ Step(d, "failed")
        /\ fwd' \in {fwd, fwd \ {n}} /\ UNCHANGED <<net, left>>
  /\ UNCHANGED <<tables, hyp, queue, torn, others>>

DeleteRow(d) ==
  /\ del[d].at = "cleaned"
  /\ \/ rows' = [rows EXCEPT ![del[d].num] = NoRow] /\ Step(d, "done")
     \/ "db" \in Faults /\ UNCHANGED rows /\ Step(d, "failed")
  /\ UNCHANGED <<serial, router, hyp, lock, queue, torn, others>>

DeleterStep(d) ==
  LoadRow(d) \/ ReleaseVms(d) \/ LockRouter(d) \/ CleanRouter(d) \/ DeleteRow(d)

ForceDelete(n) ==
  /\ Admin /\ rows[n] # NoRow
  /\ rows' = [rows EXCEPT ![n] = NoRow] /\ left' = left \cup {n}
  /\ UNCHANGED <<serial, net, fwd, hyp, lock, make, requests>>

-----------------------------------------------------------------------------
(* deploy_k8s: half an hour may pass between the row it loads and its saves *)

Deploy(p, n) ==
  /\ dep[p].at = "idle" /\ rows[n].status = "running"
  /\ dep' = [dep EXCEPT ![p] = [at |-> "deploying", num |-> n, row |-> rows[n]]]
  /\ UNCHANGED <<tables, router, hyp, lock, make, torn, queue, del>>

\* Nothing reads how a deployment ended.
DeploymentEnds(p) == dep' = [dep EXCEPT ![p] = [at |-> "done", num |-> 0, row |-> NoRow]]

\* The loaded row is saved when the installation begins, when it succeeds, and
\* by the steps that report their failure; the deployment ends with a save that
\* fails and with every other failure.
Deploying == {"deploying", "installing"}

SaveDeployment(p) ==
  LET row == dep[p].row n == dep[p].num at == dep[p].at IN
  /\ at \in Deploying
  /\ \/ /\ Save(n, row.status, row.vms, row.by)
        /\ \/ at = "deploying" /\ dep' = [dep EXCEPT ![p].at = "installing"]
           \/ DeploymentEnds(p)
     \/ SaveFails(n, row.vms) /\ UNCHANGED rows /\ DeploymentEnds(p)
  /\ UNCHANGED <<router, hyp, lock, make, torn, queue, del>>

AbandonDeployment(p) ==
  /\ dep[p].at \in Deploying
  /\ DeploymentEnds(p)
  /\ UNCHANGED <<tables, router, hyp, lock, make, torn, queue, del>>

Next ==
  \/ \E c \in Creator : CreatorStep(c) \/ Cancel(c)
  \/ \E d \in Deleter : DeleterStep(d) \/ \E n \in Num : AskDelete(d, n)
  \/ \E n \in Num : ForceDelete(n)
  \/ \E p \in Deployer : SaveDeployment(p) \/ AbandonDeployment(p)
                         \/ \E n \in Num : Deploy(p, n)

\* A thread that began goes on; a queued creation or deletion is taken when its
\* worker is free.  Nobody is obliged to cancel, to ask or to force.
Fairness ==
  /\ \A c \in Creator : WF_vars(CreatorStep(c))
  /\ \A d \in Deleter : WF_vars(DeleterStep(d))
  /\ \A p \in Deployer : WF_vars(SaveDeployment(p) \/ AbandonDeployment(p))

Spec == Init /\ [][Next]_vars /\ Fairness

-----------------------------------------------------------------------------
(* Properties *)

\* Nobody is working on number n.
Quiet(n) == /\ \A c \in Creator : make[c].num = n => ~Live(c)
            /\ \A d \in Deleter : del[d].num = n => ~Active(d)

\* A number without a row has nothing left on the router or the hypervisor:
\* what create_cluster's rollback and delete_cluster clean up before they drop
\* the row is everything that was made, whatever else fails on the way.  Only a
\* failing call that cleans up, a machine that was cloned and could not be
\* configured, and an administrator's force leave something behind.
NothingIsStranded == \A n \in Num \ left : rows[n] = NoRow /\ Quiet(n) =>
  /\ n \notin net \cup fwd
  /\ \A v \in VmId : hyp[v] # None => make[hyp[v]].num # n

\* A creation keeps the row it was given until it ends or rolls back: its
\* number, and so its VLAN, its addresses and the name it is deleted by, is
\* not handed to another creation meanwhile.
CreationKeepsItsRow == \A c \in Creator :
  Live(c) /\ make[c].num \notin left => rows[make[c].num].by = c

\* A row that says "running" and that no deletion has got hold of stands for a
\* cluster that is all there: network, forwarding and each of its machines.
\* create_cluster swallows a failed forwarding and relies on its SSH step.
RunningIsComplete == \A n \in Num \ left :
  /\ rows[n].status = "running"
  /\ \A d \in Deleter : del[d].row.by # rows[n].by
  => /\ n \in net \cap fwd
     /\ Len(rows[n].vms) = Size
     /\ \A v \in SeqRange(rows[n].vms) : hyp[v] = rows[n].by

\* A row tells the truth about its cluster: one that is being made is its creation's
\* own, and one that runs is complete.
RowsTellTheTruth == CreationKeepsItsRow /\ RunningIsComplete

\* A rollback releases machines of its own creation only, although ids are
\* drawn before they are taken and another creation may take them first.
RollbackReleasesOwn == [][\A c \in Creator, v \in VmId :
  make'[c] # make[c] /\ hyp[v] # None /\ hyp'[v] = None => hyp[v] = c]_vars

\* A deletion releases machines of the cluster it deletes only, unless one of them
\* was released before.  A deletion that fails after its releases keeps the machines
\* in the row, and their ids are free for another cluster: repeated, it releases
\* machines of that one, whose row then names ids it has lost in its turn.
NoForeignRelease == [][\A d \in Deleter, v \in VmId :
  /\ del'[d] # del[d] /\ del[d].num \notin torn
  /\ hyp[v] # None /\ hyp'[v] = None
  => hyp[v] = del[d].row.by]_vars

\* The number that _allocate_cluster_id computes has no row: otherwise no
\* cluster can be created, however often the user tries again.
AllocatableNumber == FirstGap({rows[m].id : m \in Used}) \notin Used

\* The table of clusters serves as the allocator: no number is handed out twice,
\* and one can always be handed out.
TableAllocates == CreationKeepsItsRow /\ AllocatableNumber

\* A creation that began ends, whatever fails, whoever holds the lock and however
\* many machine ids another creation takes from under it.
RequestsEnd == \A c \in Creator : Live(c) ~> ~Live(c)

=============================================================================
