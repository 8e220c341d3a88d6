------------------------ MODULE ClusterLifecycleProofs ------------------------
(***************************************************************************)
(* Proofs about ClusterLifecycle for any number of requests, machines and  *)
(* machine ids, and any faults: the numbers handed out stay in range, a    *)
(* rollback releases its own machines, a number without a row has nothing  *)
(* left behind, a row tells the truth about its cluster, the table         *)
(* allocates, and a deletion releases its own cluster's machines.  All but *)
(* the first are about one of two settings, NoDeletion and QueueOnly, and  *)
(* are false in general.                                                   *)
(***************************************************************************)
EXTENDS ClusterLifecycle, FiniteSetTheorems, WellFoundedInduction, TLAPS

-----------------------------------------------------------------------------
(* What every instance keeps: types, and where the numbers are             *)

Made   == [at : MakeStage, num : Num \cup {0}, vms : Seq(VmId), next : VmId \cup {0},
           cancel : BOOLEAN]
Asked  == [at : DelStage, num : Num \cup {0}, row : Row \cup {NoRow}]
DepRec == [at : {"idle", "deploying", "installing", "done"}, num : Num \cup {0},
           row : Row \cup {NoRow}]

\* A request that went to work has a number, and so has what it made: the row that
\* holds its entry is the row of its number.
NumbersOK ==
  /\ \A c \in Creator : /\ make[c].at = "idle" => make[c].num = 0
                        /\ Live(c) => make[c].num \in Num
                        /\ make[c].at = "numbered" => make[c].next \in VmId
  /\ \A v \in VmId : hyp[v] # None => make[hyp[v]].num \in Num
  /\ \A n \in Used : make[rows[n].by].num = n
  /\ \A d \in Deleter : del[d].at # "idle" => del[d].num \in Num
  /\ \A i \in 1..Len(queue) : del[queue[i]].at # "idle"
  /\ \A p \in Deployer : dep[p].at \in Deploying =>
       /\ dep[p].num \in Num /\ dep[p].row \in Row
       /\ make[dep[p].row.by].num = dep[p].num

Typed == TypeOK /\ NumbersOK

LEMMA LeastExists ==
  ASSUME NEW S \in SUBSET Nat, S # {}
  PROVE  \E n \in S : \A m \in S : n <= m
<1>1. PICK n \in S : \A m \in S : ~ (<<m, n>> \in OpToRel(<, Nat))
  BY NatLessThanWellFounded, WFMin, Zenon
<1>2. \A m \in S : ~ (m < n)
  BY <1>1 DEF OpToRel
<1>. QED  BY <1>2

LEMMA NoRowIsNoRow == NoRow \notin Row
BY DEF NoRow, Row

LEMMA VmsOfRow == ASSUME NEW r \in Row \cup {NoRow} PROVE r.vms \in Seq(VmId)
<1>1. CASE r \in Row
  BY <1>1 DEF Row
<1>2. CASE r = NoRow
  <2>1. <<>> \in Seq(VmId)
    OBVIOUS
  <2>. QED  BY <1>2, <2>1 DEF NoRow
<1>. QED  BY <1>1, <1>2

LEMMA NumIsNat == Cardinality(Creator) \in Nat /\ Num \subseteq Nat \ {0}
BY LifecycleAssumption, FS_CardinalityType DEF Num

LEMMA FirstGapIsFree ==
  ASSUME NEW ids, IsFiniteSet(ids)
  PROVE  /\ FirstGap(ids) \in 1..(Cardinality(ids) + 1)
         /\ FirstGap(ids) \notin ids
<1>. DEFINE k == Cardinality(ids)
            S == (1..(k + 1)) \ ids
<1>1. k \in Nat
  BY FS_CardinalityType
<1>2. S # {}
  <2>1. SUFFICES ASSUME 1..(k + 1) \in SUBSET ids PROVE FALSE
    OBVIOUS
  <2>2. Cardinality(1..(k + 1)) <= k
    BY <2>1, FS_Subset
  <2>3. Cardinality(1..(k + 1)) = k + 1
    BY <1>1, FS_Interval
  <2>. QED  BY <1>1, <2>2, <2>3
<1>3. S \in SUBSET Nat
  BY <1>1
<1>. HIDE DEF S
<1>4. PICK n \in S : \A m \in S : n <= m
  BY <1>2, <1>3, LeastExists
<1>5. n \in 1..(k + 1) /\ n \notin ids /\ \A i \in 1..(n - 1) : i \in ids
  BY <1>1, <1>4 DEF S
<1>. QED  BY <1>5 DEF FirstGap

\* While a creation has no number, the others cannot have used them all up.
LEMMA GapInRange ==
  ASSUME Typed, NEW c \in Creator, make[c].at = "idle"
  PROVE  LET ids == {rows[m].id : m \in Used} IN
         FirstGap(ids) \in Num /\ FirstGap(ids) \notin ids
<1>. DEFINE ids == {rows[m].id : m \in Used}
            B == {rows[n].by : n \in Used}
            f == [b \in B |-> rows[make[b].num].id]
<1>1. \A n \in Used : rows[n].by \in Creator \ {c}
  BY NumIsNat, NoRowIsNoRow DEF Typed, TypeOK, NumbersOK, Used, Row
<1>2. /\ IsFiniteSet(Creator \ {c})
      /\ Cardinality(Creator \ {c}) = Cardinality(Creator) - 1
  BY LifecycleAssumption, FS_RemoveElement
<1>3. B \in SUBSET (Creator \ {c})
  BY <1>1
<1>4. IsFiniteSet(B) /\ Cardinality(B) <= Cardinality(Creator) - 1
  BY <1>2, <1>3, FS_Subset
<1>5. \A n \in Used : f[rows[n].by] = rows[n].id
  BY DEF Typed, NumbersOK
<1>6. f \in Surjection(B, ids)
  <2>. DEFINE g(b) == rows[make[b].num].id
  <2>0. \A b \in B : g(b) \in ids
    BY DEF Typed, NumbersOK
  <2>1. f \in [B -> ids]
    BY <2>0, Zenon
  <2>2. ASSUME NEW i \in ids PROVE \E b \in B : f[b] = i
    <3>1. PICK m \in Used : i = rows[m].id
      OBVIOUS
    <3>2. rows[m].by \in B
      OBVIOUS
    <3>. QED  BY <1>5, <3>1, <3>2, Zenon
  <2>. QED  BY <2>1, <2>2 DEF Surjection
<1>7. IsFiniteSet(ids) /\ Cardinality(ids) <= Cardinality(Creator) - 1
  BY <1>4, <1>6, FS_Surjection, FS_CardinalityType, NumIsNat
<1>8. Cardinality(ids) \in Nat
  BY <1>7, FS_CardinalityType
<1>. QED  BY <1>7, <1>8, FirstGapIsFree, NumIsNat DEF Num

LEMMA NextIdIsFree == Free # {} => NextId \in Free
<1>1. Free \in SUBSET Nat
  BY LifecycleAssumption DEF Free, VmId
<1>. QED  BY <1>1, LeastExists DEF NextId

-----------------------------------------------------------------------------
(* What the parts of a step do                                             *)

\* A creation after it went to a stage.
At(c, stage) ==
  IF stage \in Ended
  THEN [at |-> stage, num |-> make[c].num, vms |-> <<>>, next |-> 0, cancel |-> FALSE]
  ELSE [make[c] EXCEPT !.at = stage]

LEMMA GotoMakes ==
  ASSUME Typed, NEW c \in Creator, NEW stage \in MakeStage, Goto(c, stage)
  PROVE  /\ make' = [make EXCEPT ![c] = At(c, stage)]
         /\ At(c, stage) \in Made
         /\ At(c, stage).at = stage /\ At(c, stage).num = make[c].num
         /\ stage \notin Ended => At(c, stage).vms = make[c].vms
<1>1. make[c] \in Made
  BY DEF Typed, TypeOK, Made
<1>2. make' = [make EXCEPT ![c] = At(c, stage)]
  BY DEF Goto, At
<1>3. CASE stage \in Ended
  <2>1. <<>> \in Seq(VmId)
    OBVIOUS
  <2>. QED  BY <1>1, <1>2, <1>3, <2>1 DEF At, Made
<1>4. CASE stage \notin Ended
  BY <1>1, <1>2, <1>4 DEF At, Made
<1>. QED  BY <1>3, <1>4

\* The row that a save writes.
Entry(n, status, vms, by) ==
  [id |-> IF rows[n] = NoRow THEN serial + 1 ELSE rows[n].id, status |-> status,
   vms |-> IF vms = <<>> THEN rows[n].vms ELSE vms, by |-> by]

LEMMA SaveWrites ==
  ASSUME Typed, NEW n \in Num, NEW status \in {"allocating", "creating", "running"},
         NEW vms \in Seq(VmId), NEW by \in Creator, Save(n, status, vms, by)
  PROVE  /\ rows' = [rows EXCEPT ![n] = Entry(n, status, vms, by)]
         /\ Entry(n, status, vms, by) \in Row
         /\ serial' \in Nat
<1>1. rows' = [rows EXCEPT ![n] = Entry(n, status, vms, by)]
  BY DEF Save, Saved, Entry
<1>2. rows[n] \in Row \cup {NoRow} /\ serial \in Nat
  BY DEF Typed, TypeOK
<1>3. rows[n].vms \in Seq(VmId) /\ rows[n].id \in Nat
  BY <1>2, VmsOfRow DEF Row, NoRow
<1>4. serial' \in Nat
  BY <1>2 DEF Save, Drawn
<1>5. /\ (IF rows[n] = NoRow THEN serial + 1 ELSE rows[n].id) \in Nat
      /\ (IF vms = <<>> THEN rows[n].vms ELSE vms) \in Seq(VmId)
  BY <1>2, <1>3
<1>6. Entry(n, status, vms, by) \in Row
  BY <1>5 DEF Entry, Row
<1>. QED  BY <1>1, <1>4, <1>6

\* A creation that goes on with its number: what it adds to the tables is its own.
OwnWork(c) ==
  /\ rows' \in [Num -> Row \cup {NoRow}] /\ serial' \in Nat
  /\ \A m \in Num : rows'[m] \in {rows[m], NoRow} \/ (m = make[c].num /\ rows'[m].by = c)
  /\ net' \subseteq Num /\ fwd' \subseteq Num /\ left' \subseteq Num
  /\ hyp' \in [VmId -> Creator \cup {None}] /\ \A v \in VmId : hyp'[v] \in {hyp[v], None, c}
  /\ lock' \in Creator \cup Deleter \cup {None}
  /\ UNCHANGED requests

LEMMA SaveIsOwnWork ==
  ASSUME Typed, NEW c \in Creator, Live(c), UNCHANGED <<router, hyp, lock, requests>>,
         NEW status \in {"allocating", "creating", "running"}, NEW vms \in Seq(VmId),
         Save(make[c].num, status, vms, c)
  PROVE  OwnWork(c)
<1>1. make[c].num \in Num
  BY DEF Typed, NumbersOK
<1>. DEFINE r == Entry(make[c].num, status, vms, c)
<1>2. /\ rows' = [rows EXCEPT ![make[c].num] = r] /\ r \in Row /\ r.by = c
      /\ serial' \in Nat
  BY <1>1, SaveWrites DEF Entry
<1>. HIDE DEF r
<1>. QED  BY <1>1, <1>2 DEF OwnWork, Typed, TypeOK, requests, router

LEMMA SaveFailsDraws ==
  ASSUME Typed, NEW n, NEW vms, SaveFails(n, vms)
  PROVE  serial' \in Nat
BY DEF Typed, TypeOK, SaveFails, Drawn

LEMMA DropsRow ==
  ASSUME Typed, NEW n \in Num, TryDropRow(n)
  PROVE  rows' \in [Num -> Row \cup {NoRow}] /\ \A m \in Num : rows'[m] \in {rows[m], NoRow}
BY DEF Typed, TypeOK, TryDropRow

LEMMA CleansRouter ==
  ASSUME Typed, NEW n \in Num, TryCleanRouter(n)
  PROVE  net' \subseteq Num /\ fwd' \subseteq Num /\ left' \subseteq Num
BY DEF Typed, TypeOK, TryCleanRouter

LEMMA ReleasesVms ==
  ASSUME Typed, NEW n \in Num, NEW vms \in Seq(VmId), TryRelease(n, vms)
  PROVE  /\ left' \subseteq Num /\ hyp' \in [VmId -> Creator \cup {None}]
         /\ \A v \in VmId : hyp'[v] \in {hyp[v], None}
<1>. PICK kept \in SUBSET SeqRange(vms) :
       /\ left' = IF kept = {} THEN left ELSE left \cup {n}
       /\ hyp' = [v \in VmId |-> IF v \in SeqRange(vms) \ kept THEN None ELSE hyp[v]]
  BY DEF TryRelease
<1>. QED  BY DEF Typed, TypeOK

-----------------------------------------------------------------------------
(* Types                                                                   *)

LEMMA InitTyped == Init => Typed
<1>1. Len(<<>>) = 0 /\ <<>> \in Seq(Deleter) /\ <<>> \in Seq(VmId)
  OBVIOUS
<1>. QED  BY <1>1 DEF Init, Typed, TypeOK, NumbersOK, Used, Live, Ended, Deploying, MakeStage,
                      DelStage

LEMMA OwnWorkTyped ==
  ASSUME Typed, NEW c \in Creator, Live(c), NEW q \in Made,
         make' = [make EXCEPT ![c] = q], q.num = make[c].num, q.at # "idle",
         q.at = "numbered" => q.next \in VmId, OwnWork(c)
  PROVE  Typed'
<1>1. make' \in [Creator -> Made] /\ make'[c] = q /\ \A e \in Creator \ {c} : make'[e] = make[e]
  BY DEF Typed, TypeOK, Made
<1>2. \A e \in Creator : make'[e].num = make[e].num
  BY <1>1
<1>3. TypeOK'
  BY <1>1 DEF Typed, TypeOK, Made, OwnWork, requests
<1>4. \A e \in Creator : /\ make'[e].at = "idle" => make'[e].num = 0
                         /\ Live(e)' => make'[e].num \in Num
                         /\ make'[e].at = "numbered" => make'[e].next \in VmId
  BY <1>1, <1>2 DEF Typed, NumbersOK, Live
<1>5. make[c].num \in Num
  BY DEF Typed, NumbersOK
<1>6. \A v \in VmId : hyp'[v] # None => make'[hyp'[v]].num \in Num
  BY <1>2, <1>5 DEF Typed, TypeOK, NumbersOK, OwnWork
<1>7. \A n \in Used' : make'[rows'[n].by].num = n
  BY <1>2, NoRowIsNoRow DEF Typed, TypeOK, NumbersOK, OwnWork, Used, Row
<1>8. \A p \in Deployer : dep[p].at \in Deploying => make'[dep[p].row.by].num = dep[p].num
  BY <1>2 DEF Typed, TypeOK, NumbersOK, Row
<1>. QED  BY <1>3, <1>4, <1>6, <1>7, <1>8 DEF Typed, NumbersOK, OwnWork, requests

LEMMA GoesOnTyped ==
  ASSUME Typed, NEW c \in Creator, Live(c), NEW stage \in MakeStage \ {"idle", "numbered"},
         Goto(c, stage), OwnWork(c)
  PROVE  Typed'
BY GotoMakes, OwnWorkTyped

LEMMA AllocateTyped == ASSUME Typed, NEW c \in Creator, Allocate(c) PROVE Typed'
<1>. DEFINE n == FirstGap({rows[m].id : m \in Used})
<1>0. n \in Num
  BY GapInRange DEF Allocate
<1>. HIDE DEF n
<1>1. make[c] \in Made /\ make[c].at = "idle" /\ make[c].num = 0
  BY DEF Typed, TypeOK, Made, NumbersOK, Allocate
<1>2. UNCHANGED <<serial, net, fwd, left, hyp, lock, queue, del, dep>>
  BY DEF Allocate, router
<1>3. \A m \in Used : rows[m].by # c
  BY <1>1, NumIsNat DEF Typed, NumbersOK, Used
<1>4. \A v \in VmId : hyp[v] # c
  BY <1>1, NumIsNat, LifecycleAssumption DEF Typed, NumbersOK
<1>5. \A p \in Deployer : dep[p].at \in Deploying => dep[p].row.by # c
  BY <1>1, NumIsNat DEF Typed, NumbersOK
<1>6. CASE rows[n] = NoRow
  <2>. DEFINE q == [make[c] EXCEPT !.at = "allocated", !.num = n]
              r == [id |-> NewId(n), status |-> "allocating", vms |-> <<>>, by |-> c]
  <2>1. make' = [make EXCEPT ![c] = q] /\ rows' = [rows EXCEPT ![n] = r] /\ torn' = torn \ {n}
    BY <1>6 DEF Allocate, n
  <2>2. q \in Made /\ q.at = "allocated" /\ q.num = n
    BY <1>0, <1>1 DEF Made, MakeStage
  <2>3. r \in Row /\ r.by = c
    <3>1. <<>> \in Seq(VmId)
      OBVIOUS
    <3>. QED  BY <1>0, <3>1, NumIsNat DEF Row, NewId
  <2>. HIDE DEF q, r
  <2>4. /\ make' \in [Creator -> Made] /\ make'[c] = q
        /\ \A e \in Creator \ {c} : make'[e] = make[e]
    BY <2>1, <2>2 DEF Typed, TypeOK, Made
  <2>5. /\ rows' \in [Num -> Row \cup {NoRow}] /\ rows'[n] = r
        /\ \A m \in Num \ {n} : rows'[m] = rows[m]
    BY <1>0, <2>1, <2>3 DEF Typed, TypeOK
  <2>6. TypeOK'
    BY <1>2, <2>1, <2>4, <2>5 DEF Typed, TypeOK, Made
  <2>7. \A e \in Creator : /\ make'[e].at = "idle" => make'[e].num = 0
                           /\ Live(e)' => make'[e].num \in Num
                           /\ make'[e].at = "numbered" => make'[e].next \in VmId
    BY <1>0, <2>2, <2>4 DEF Typed, NumbersOK, Live
  <2>8. \A v \in VmId : hyp'[v] # None => make'[hyp'[v]].num \in Num
    BY <1>2, <1>4, <2>4 DEF Typed, TypeOK, NumbersOK
  <2>9. \A m \in Used' : make'[rows'[m].by].num = m
    <3>1. ASSUME NEW m \in Num \ {n}, rows'[m] # NoRow PROVE make'[rows'[m].by].num = m
      BY <1>3, <2>4, <2>5, <3>1 DEF Typed, TypeOK, NumbersOK, Used, Row
    <3>. QED  BY <2>2, <2>3, <2>4, <2>5, <3>1 DEF Used
  <2>10. \A p \in Deployer : dep[p].at \in Deploying => make'[dep[p].row.by].num = dep[p].num
    BY <1>5, <2>4 DEF Typed, TypeOK, NumbersOK, Row
  <2>. QED  BY <1>2, <2>6, <2>7, <2>8, <2>9, <2>10 DEF Typed, NumbersOK
<1>7. CASE rows[n] # NoRow
  <2>1. Goto(c, "failed") /\ UNCHANGED <<rows, torn>>
    BY <1>7 DEF Allocate, n
  <2>2. make' = [make EXCEPT ![c] = At(c, "failed")] /\ At(c, "failed") \in Made
        /\ At(c, "failed").at = "failed" /\ At(c, "failed").num = 0
    BY <1>1, <2>1, GotoMakes DEF MakeStage, Ended
  <2>3. /\ make' \in [Creator -> Made] /\ make'[c].at = "failed"
        /\ \A e \in Creator : make'[e].num = make[e].num
        /\ \A e \in Creator \ {c} : make'[e] = make[e]
    BY <1>1, <2>2 DEF Typed, TypeOK, Made
  <2>4. TypeOK'
    BY <1>2, <2>1, <2>3 DEF Typed, TypeOK, Made
  <2>5. \A e \in Creator : /\ make'[e].at = "idle" => make'[e].num = 0
                           /\ Live(e)' => make'[e].num \in Num
                           /\ make'[e].at = "numbered" => make'[e].next \in VmId
    BY <2>3 DEF Typed, NumbersOK, Live, Ended
  <2>6. \A v \in VmId : hyp'[v] # None => make'[hyp'[v]].num \in Num
    BY <1>2, <2>3 DEF Typed, TypeOK, NumbersOK
  <2>7. \A m \in Used' : make'[rows'[m].by].num = m
    BY <2>1, <2>3 DEF Typed, TypeOK, NumbersOK, Used, Row
  <2>8. \A p \in Deployer : dep[p].at \in Deploying => make'[dep[p].row.by].num = dep[p].num
    BY <2>3 DEF Typed, TypeOK, NumbersOK, Row
  <2>. QED  BY <1>2, <2>4, <2>5, <2>6, <2>7, <2>8 DEF Typed, NumbersOK
<1>. QED  BY <1>6, <1>7

LEMMA CreatorTyped ==
  ASSUME Typed, NEW c \in Creator, CreatorStep(c) \/ Cancel(c)
  PROVE  Typed'
<1>. DEFINE n == make[c].num
<1>0. ASSUME Live(c) PROVE n \in Num /\ make[c] \in Made
  BY <1>0 DEF Typed, TypeOK, NumbersOK, Made
<1>1. CASE Allocate(c)
  BY <1>1, AllocateTyped
<1>2. CASE SaveInitial(c)
  <2>1. Live(c)
    BY <1>2 DEF SaveInitial, Live, Ended
  <2>2. <<>> \in Seq(VmId)
    OBVIOUS
  <2>3. OwnWork(c)
    <3>1. CASE Save(n, "creating", <<>>, c)
      BY <1>2, <2>1, <2>2, <3>1, SaveIsOwnWork DEF SaveInitial
    <3>2. CASE UNCHANGED tables
      BY <1>2, <3>2 DEF SaveInitial, OwnWork, Typed, TypeOK, requests, router, tables
    <3>3. CASE SaveFails(n, <<>>) /\ TryDropRow(n)
      BY <1>0, <1>2, <2>1, <3>3, SaveFailsDraws, DropsRow
         DEF SaveInitial, OwnWork, Typed, TypeOK, requests, router
    <3>. QED  BY <1>2, <3>1, <3>2, <3>3 DEF SaveInitial
  <2>. QED  BY <1>2, <2>1, <2>3, GoesOnTyped DEF SaveInitial, MakeStage, Ended
<1>3. CASE AskRouter(c)
  <2>1. Live(c)
    BY <1>3 DEF AskRouter, Live, Ended
  <2>2. OwnWork(c)
    BY <1>3 DEF AskRouter, OwnWork, Typed, TypeOK, requests, router, tables, Acquire, GivesUp
  <2>. QED  BY <1>3, <2>1, <2>2, GoesOnTyped DEF AskRouter, MakeStage, Ended
<1>4. CASE Setup(c)
  <2>1. Live(c)
    BY <1>4 DEF Setup, Live, Ended
  <2>2. OwnWork(c)
    BY <1>0, <1>4, <2>1, DropsRow, CleansRouter
       DEF Setup, OwnWork, Typed, TypeOK, requests, router
  <2>. QED  BY <1>4, <2>1, <2>2, GoesOnTyped DEF Setup, MakeStage, Ended
<1>5. CASE ConnectPve(c)
  <2>1. Live(c)
    BY <1>5 DEF ConnectPve, Live, Ended
  <2>2. OwnWork(c)
    BY <1>5 DEF ConnectPve, OwnWork, Typed, TypeOK, requests, router, tables
  <2>. QED  BY <1>5, <2>1, <2>2, GoesOnTyped DEF ConnectPve, MakeStage, Ended
<1>6. CASE DrawVmId(c)
  <2>1. Live(c)
    BY <1>6 DEF DrawVmId, Live, Ended
  <2>2. OwnWork(c)
    BY <1>6 DEF DrawVmId, OwnWork, Typed, TypeOK, requests, router, tables
  <2>3. CASE /\ Free # {}
             /\ make' = [make EXCEPT ![c].at = "numbered", ![c].next = NextId]
    <3>. DEFINE q == [make[c] EXCEPT !.at = "numbered", !.next = NextId]
    <3>1. make' = [make EXCEPT ![c] = q]
      BY <2>3
    <3>2. q \in Made /\ q.at = "numbered" /\ q.num = n /\ q.next \in VmId
      BY <1>0, <2>1, <2>3, NextIdIsFree DEF Made, MakeStage, Free
    <3>. HIDE DEF q
    <3>. QED  BY <2>1, <2>2, <3>1, <3>2, OwnWorkTyped
  <2>4. CASE Goto(c, "undoVms")
    BY <2>1, <2>2, <2>4, GoesOnTyped DEF MakeStage, Ended
  <2>. QED  BY <1>6, <2>3, <2>4 DEF DrawVmId
<1>7. CASE Clone(c)
  <2>1. Live(c)
    BY <1>7 DEF Clone, Live, Ended
  <2>2. make[c].next \in VmId
    BY <1>7 DEF Clone, Typed, NumbersOK
  <2>3. OwnWork(c)
    BY <1>0, <1>7, <2>1, <2>2 DEF Clone, OwnWork, Typed, TypeOK, requests, tables
  <2>4. Recorded(c) \in Seq(VmId)
    BY <1>0, <2>1, <2>2 DEF Recorded, Made
  <2>5. \E q \in Made : /\ make' = [make EXCEPT ![c] = q] /\ q.num = n
                        /\ q.at \in {"cloning", "forwarding", "undoVms"}
    <3>1. ASSUME NEW s \in {"cloning", "forwarding"},
                 make' = [make EXCEPT ![c].at = s, ![c].vms = Recorded(c), ![c].next = 0]
          PROVE  \E q \in Made : /\ make' = [make EXCEPT ![c] = q] /\ q.num = n
                                 /\ q.at \in {"cloning", "forwarding", "undoVms"}
      <4>. DEFINE q == [make[c] EXCEPT !.at = s, !.vms = Recorded(c), !.next = 0]
      <4>1. make' = [make EXCEPT ![c] = q]
        BY <3>1
      <4>2. q \in Made /\ q.num = n /\ q.at = s
        BY <1>0, <2>1, <2>4 DEF Made, MakeStage
      <4>. HIDE DEF q
      <4>. QED  BY <4>1, <4>2
    <3>2. CloneFailed(c) \in Made /\ CloneFailed(c).num = n /\ CloneFailed(c).at = "undoVms"
      BY <1>0, <2>1 DEF CloneFailed, Made, MakeStage
    <3>. QED  BY <1>7, <3>1, <3>2 DEF Clone
  <2>. QED  BY <2>1, <2>3, <2>5, OwnWorkTyped
<1>8. CASE AskForwarding(c)
  <2>1. Live(c)
    BY <1>8 DEF AskForwarding, Live, Ended
  <2>2. OwnWork(c)
    BY <1>8 DEF AskForwarding, OwnWork, Typed, TypeOK, requests, router, tables, Acquire, GivesUp
  <2>. QED  BY <1>8, <2>1, <2>2, GoesOnTyped DEF AskForwarding, MakeStage, Ended
<1>9. CASE Forward(c)
  <2>1. Live(c)
    BY <1>9 DEF Forward, Live, Ended
  <2>2. OwnWork(c)
    BY <1>0, <1>9, <2>1 DEF Forward, OwnWork, Typed, TypeOK, requests, tables
  <2>. QED  BY <1>9, <2>1, <2>2, GoesOnTyped DEF Forward, MakeStage, Ended
<1>10. CASE ConfigureSsh(c)
  <2>1. Live(c)
    BY <1>10 DEF ConfigureSsh, Live, Ended
  <2>2. OwnWork(c)
    BY <1>10 DEF ConfigureSsh, OwnWork, Typed, TypeOK, requests, router, tables
  <2>. QED  BY <1>10, <2>1, <2>2, GoesOnTyped DEF ConfigureSsh, MakeStage, Ended
<1>11. CASE UndoVms(c)
  <2>1. Live(c)
    BY <1>11 DEF UndoVms, Live, Ended
  <2>2. make[c].vms \in Seq(VmId)
    BY <1>0, <2>1 DEF Made
  <2>3. OwnWork(c)
    BY <1>0, <1>11, <2>1, <2>2, ReleasesVms DEF UndoVms, OwnWork, Typed, TypeOK, requests, tables
  <2>. QED  BY <1>11, <2>1, <2>3, GoesOnTyped DEF UndoVms, Undone, AfterUndo, MakeStage, Ended
<1>12. CASE UndoRouter(c)
  <2>1. Live(c)
    BY <1>12 DEF UndoRouter, Live, Ended
  <2>2. OwnWork(c)
    BY <1>0, <1>12, <2>1, CleansRouter DEF UndoRouter, OwnWork, Typed, TypeOK, requests, tables
  <2>. QED  BY <1>12, <2>1, <2>2, GoesOnTyped DEF UndoRouter, Undone, AfterUndo, MakeStage, Ended
<1>13. CASE UndoRow(c)
  <2>1. Live(c)
    BY <1>13 DEF UndoRow, Live, Ended
  <2>2. OwnWork(c)
    BY <1>0, <1>13, <2>1, DropsRow DEF UndoRow, OwnWork, Typed, TypeOK, requests, router
  <2>. QED  BY <1>13, <2>1, <2>2, GoesOnTyped DEF UndoRow, Undone, AfterUndo, MakeStage, Ended
<1>14. CASE FinalSave(c)
  <2>1. Live(c)
    BY <1>14 DEF FinalSave, Live, Ended
  <2>2. make[c].vms \in Seq(VmId)
    BY <1>0, <2>1 DEF Made
  <2>3. OwnWork(c)
    <3>1. CASE Save(n, "running", make[c].vms, c)
      BY <1>14, <2>1, <2>2, <3>1, SaveIsOwnWork DEF FinalSave
    <3>2. CASE SaveFails(n, make[c].vms) /\ UNCHANGED rows
      BY <1>14, <3>2, SaveFailsDraws DEF FinalSave, OwnWork, Typed, TypeOK, requests, router
    <3>. QED  BY <1>14, <3>1, <3>2 DEF FinalSave
  <2>. QED  BY <1>14, <2>1, <2>3, GoesOnTyped DEF FinalSave, MakeStage, Ended
<1>15. CASE Resave(c)
  <2>1. Live(c)
    BY <1>15 DEF Resave, Live, Ended
  <2>2. make[c].vms \in Seq(VmId)
    BY <1>0, <2>1 DEF Made
  <2>3. OwnWork(c)
    <3>1. CASE Save(n, "running", make[c].vms, c)
      BY <1>15, <2>1, <2>2, <3>1, SaveIsOwnWork DEF Resave
    <3>2. CASE SaveFails(n, make[c].vms) /\ UNCHANGED rows
      BY <1>15, <3>2, SaveFailsDraws DEF Resave, OwnWork, Typed, TypeOK, requests, router
    <3>. QED  BY <1>15, <3>1, <3>2 DEF Resave
  <2>. QED  BY <1>15, <2>1, <2>3, GoesOnTyped DEF Resave, MakeStage, Ended
<1>16. CASE Cancel(c)
  <2>. DEFINE q == [make[c] EXCEPT !.cancel = TRUE]
  <2>1. Live(c) /\ make' = [make EXCEPT ![c] = q]
    BY <1>16 DEF Cancel
  <2>2. OwnWork(c)
    BY <1>16 DEF Cancel, OwnWork, Typed, TypeOK, requests, router, tables
  <2>3. /\ q \in Made /\ q.num = n /\ q.at # "idle"
        /\ q.at = "numbered" => q.next \in VmId
    BY <1>0, <2>1 DEF Made, Live, Typed, NumbersOK
  <2>. HIDE DEF q
  <2>. QED  BY <2>1, <2>2, <2>3, OwnWorkTyped
<1>. QED  BY <1>1, <1>2, <1>3, <1>4, <1>5, <1>6, <1>7, <1>8, <1>9, <1>10, <1>11, <1>12, <1>13,
             <1>14, <1>15, <1>16 DEF CreatorStep

\* Deletions, deployments and administrators: the numbers of creations stay, and a
\* row is dropped, or saved with the entry of a creation that has its number.
OthersWork ==
  /\ rows' \in [Num -> Row \cup {NoRow}] /\ serial' \in Nat
  /\ \A m \in Num : rows'[m] \in {rows[m], NoRow} \/ make[rows'[m].by].num = m
  /\ net' \subseteq Num /\ fwd' \subseteq Num /\ left' \subseteq Num /\ torn' \subseteq Num
  /\ hyp' \in [VmId -> Creator \cup {None}] /\ \A v \in VmId : hyp'[v] \in {hyp[v], None}
  /\ lock' \in Creator \cup Deleter \cup {None}
  /\ UNCHANGED make

LEMMA DeletionTyped ==
  ASSUME Typed, OthersWork, UNCHANGED dep, NEW d \in Deleter, NEW q \in Asked,
         del' = [del EXCEPT ![d] = q], q.num \in Num, q.at # "idle",
         queue' \in Seq(Deleter),
         \A i \in 1..Len(queue') : queue'[i] = d \/ \E j \in 1..Len(queue) : queue'[i] = queue[j]
  PROVE  Typed'
<1>1. /\ del' \in [Deleter -> Asked] /\ del'[d] = q
      /\ \A e \in Deleter \ {d} : del'[e] = del[e]
  BY DEF Typed, TypeOK, Asked
<1>2. TypeOK'
  BY <1>1 DEF Typed, TypeOK, Asked, OthersWork
<1>3. \A v \in VmId : hyp'[v] # None => make'[hyp'[v]].num \in Num
  BY DEF Typed, TypeOK, NumbersOK, OthersWork
<1>4. \A n \in Used' : make'[rows'[n].by].num = n
  BY DEF Typed, TypeOK, NumbersOK, OthersWork, Used
<1>5. \A e \in Deleter : del'[e].at # "idle" => del'[e].num \in Num
  BY <1>1 DEF Typed, NumbersOK
<1>6. \A i \in 1..Len(queue') : del'[queue'[i]].at # "idle"
  BY <1>1 DEF Typed, TypeOK, NumbersOK
<1>. QED  BY <1>2, <1>3, <1>4, <1>5, <1>6 DEF Typed, NumbersOK, OthersWork, Live

LEMMA StepTyped ==
  ASSUME Typed, OthersWork, UNCHANGED <<dep, queue>>, NEW d \in Deleter, del[d].at # "idle",
         NEW stage \in DelStage \ {"idle"}, Step(d, stage)
  PROVE  Typed'
<1>. DEFINE q == [del[d] EXCEPT !.at = stage]
<1>0. del[d] \in Asked /\ del[d].num \in Num
  BY DEF Typed, TypeOK, NumbersOK, Asked
<1>1. q \in Asked /\ q.num \in Num /\ q.at # "idle" /\ del' = [del EXCEPT ![d] = q]
  BY <1>0 DEF Asked, Step
<1>2. queue' \in Seq(Deleter) /\ \A i \in 1..Len(queue') : queue'[i] = queue[i]
  BY DEF Typed, TypeOK
<1>. HIDE DEF q
<1>. QED  BY <1>1, <1>2, DeletionTyped

LEMMA DeleterTyped ==
  ASSUME Typed, NEW d \in Deleter, DeleterStep(d) \/ \E n \in Num : AskDelete(d, n)
  PROVE  Typed'
<1>. DEFINE num == del[d].num
<1>0. /\ del[d] \in Asked
      /\ del[d].at # "idle" => num \in Num
  BY DEF Typed, TypeOK, NumbersOK, Asked
<1>1. ASSUME NEW n \in Num, AskDelete(d, n) PROVE Typed'
  <2>. DEFINE q == [del[d] EXCEPT !.at = "queued", !.num = n]
  <2>1. q \in Asked /\ q.num = n /\ q.at # "idle"
    BY <1>0 DEF Asked, DelStage
  <2>2. del' = [del EXCEPT ![d] = q]
    BY <1>1 DEF AskDelete
  <2>3. OthersWork /\ UNCHANGED dep
    BY <1>1 DEF AskDelete, OthersWork, Typed, TypeOK, tables, router, others
  <2>4. queue \in Seq(Deleter) /\ queue' = Append(queue, d)
    BY <1>1 DEF AskDelete, Typed, TypeOK
  <2>5. /\ queue' \in Seq(Deleter)
        /\ \A i \in 1..Len(queue') : queue'[i] = d \/ \E j \in 1..Len(queue) : queue'[i] = queue[j]
    <3>1. /\ queue' \in Seq(Deleter) /\ Len(queue') = Len(queue) + 1 /\ Len(queue) \in Nat
          /\ \A i \in 1..Len(queue) + 1 : queue'[i] = IF i <= Len(queue) THEN queue[i] ELSE d
      BY <2>4
    <3>. QED  BY <3>1
  <2>. HIDE DEF q
  <2>. QED  BY <2>1, <2>2, <2>3, <2>5, DeletionTyped
<1>2. CASE LoadRow(d)
  <2>1. OthersWork /\ UNCHANGED dep
    BY <1>2 DEF LoadRow, OthersWork, Typed, TypeOK, tables, router, others
  <2>2. queue \in Seq(Deleter) /\ queue # <<>> /\ queue' = Tail(queue) /\ Head(queue) = d
    BY <1>2 DEF LoadRow, Typed, TypeOK
  <2>3. /\ queue' \in Seq(Deleter) /\ 1 \in 1..Len(queue) /\ queue[1] = d
        /\ \A i \in 1..Len(queue') : i + 1 \in 1..Len(queue) /\ queue'[i] = queue[i + 1]
    BY <2>2
  <2>4. del[d].at # "idle" /\ num \in Num
    BY <1>0, <2>3 DEF Typed, NumbersOK
  <2>5. \E q \in Asked : del' = [del EXCEPT ![d] = q] /\ q.num = num /\ q.at # "idle"
    <3>. DEFINE loaded == [del[d] EXCEPT !.at = "loaded", !.row = rows[num]]
                failed == [del[d] EXCEPT !.at = "failed"]
    <3>1. /\ loaded \in Asked /\ loaded.num = num /\ loaded.at # "idle"
          /\ failed \in Asked /\ failed.num = num /\ failed.at # "idle"
      BY <1>0, <2>4 DEF Asked, DelStage, Ended, Typed, TypeOK
    <3>2. del' = [del EXCEPT ![d] = loaded] \/ del' = [del EXCEPT ![d] = failed]
      BY <1>2 DEF LoadRow, Step
    <3>. HIDE DEF loaded, failed
    <3>. QED  BY <3>1, <3>2
  <2>6. \A i \in 1..Len(queue') : \E j \in 1..Len(queue) : queue'[i] = queue[j]
    BY <2>3
  <2>. QED  BY <2>1, <2>3, <2>4, <2>5, <2>6, DeletionTyped
<1>3. CASE ReleaseVms(d)
  <2>1. del[d].row.vms \in Seq(VmId)
    BY <1>0, VmsOfRow DEF Asked
  <2>2. del[d].at = "loaded" /\ num \in Num
    BY <1>0, <1>3 DEF ReleaseVms
  <2>3. /\ left' \subseteq Num /\ hyp' \in [VmId -> Creator \cup {None}]
        /\ \A v \in VmId : hyp'[v] \in {hyp[v], None}
    BY <1>3, <2>1, <2>2, ReleasesVms DEF ReleaseVms, PveFails, Typed, TypeOK
  <2>4. Robbed \subseteq Num
    BY DEF Robbed, Typed, NumbersOK
  <2>5. OthersWork /\ UNCHANGED <<dep, queue>>
    BY <1>3, <2>2, <2>3, <2>4 DEF ReleaseVms, PveFails, OthersWork, Typed, TypeOK, tables, others
  <2>6. \E stage \in {"released", "failed"} : Step(d, stage)
    BY <1>3 DEF ReleaseVms, PveFails
  <2>. QED  BY <2>2, <2>5, <2>6, StepTyped DEF DelStage, Ended
<1>4. CASE LockRouter(d)
  <2>1. OthersWork /\ UNCHANGED <<dep, queue>>
    BY <1>4 DEF LockRouter, OthersWork, Typed, TypeOK, tables, router, others, Acquire, GivesUp
  <2>2. del[d].at # "idle" /\ \E stage \in {"cleaning", "failed"} : Step(d, stage)
    BY <1>4 DEF LockRouter
  <2>. QED  BY <2>1, <2>2, StepTyped DEF DelStage, Ended
<1>5. CASE CleanRouter(d)
  <2>1. del[d].at # "idle" /\ \E stage \in {"cleaned", "failed"} : Step(d, stage)
    BY <1>5 DEF CleanRouter
  <2>2. OthersWork /\ UNCHANGED <<dep, queue>>
    BY <1>0, <1>5, <2>1, CleansRouter DEF CleanRouter, OthersWork, Typed, TypeOK, tables, others
  <2>. QED  BY <2>1, <2>2, StepTyped DEF DelStage, Ended
<1>6. CASE DeleteRow(d)
  <2>1. del[d].at # "idle" /\ \E stage \in {"done", "failed"} : Step(d, stage)
    BY <1>6 DEF DeleteRow
  <2>2. OthersWork /\ UNCHANGED <<dep, queue>>
    BY <1>0, <1>6, <2>1 DEF DeleteRow, OthersWork, Typed, TypeOK, router, others
  <2>. QED  BY <2>1, <2>2, StepTyped DEF DelStage, Ended
<1>. QED  BY <1>1, <1>2, <1>3, <1>4, <1>5, <1>6 DEF DeleterStep

LEMMA OthersTyped ==
  ASSUME Typed, OthersWork, UNCHANGED <<queue, del>>,
         dep' \in [Deployer -> DepRec],
         \A p \in Deployer : dep'[p].at \in Deploying =>
           /\ dep'[p].num \in Num /\ dep'[p].row \in Row
           /\ make[dep'[p].row.by].num = dep'[p].num
  PROVE  Typed'
<1>1. TypeOK'
  BY DEF Typed, TypeOK, DepRec, OthersWork
<1>2. \A v \in VmId : hyp'[v] # None => make'[hyp'[v]].num \in Num
  BY DEF Typed, TypeOK, NumbersOK, OthersWork
<1>3. \A n \in Used' : make'[rows'[n].by].num = n
  BY DEF Typed, TypeOK, NumbersOK, OthersWork, Used
<1>. QED  BY <1>1, <1>2, <1>3 DEF Typed, NumbersOK, OthersWork, Live

LEMMA ForceTyped == ASSUME Typed, NEW n \in Num, ForceDelete(n) PROVE Typed'
<1>1. OthersWork /\ UNCHANGED <<queue, del, dep>>
  BY DEF ForceDelete, OthersWork, Typed, TypeOK, requests
<1>. QED  BY <1>1, OthersTyped DEF Typed, TypeOK, NumbersOK, DepRec

LEMMA EndsTyped ==
  ASSUME Typed, OthersWork, UNCHANGED <<queue, del>>, NEW p \in Deployer, DeploymentEnds(p)
  PROVE  Typed'
<1>1. [at |-> "done", num |-> 0, row |-> NoRow] \in DepRec
  BY DEF DepRec
<1>2. dep' \in [Deployer -> DepRec] /\ dep'[p].at = "done"
      /\ \A q \in Deployer \ {p} : dep'[q] = dep[q]
  BY <1>1 DEF DeploymentEnds, Typed, TypeOK, DepRec
<1>. QED  BY <1>2, OthersTyped DEF Typed, NumbersOK, Deploying

LEMMA DeployerTyped ==
  ASSUME Typed, NEW p \in Deployer,
         SaveDeployment(p) \/ AbandonDeployment(p) \/ \E n \in Num : Deploy(p, n)
  PROVE  Typed'
<1>1. ASSUME NEW n \in Num, Deploy(p, n) PROVE Typed'
  <2>1. rows[n] \in Row /\ make[rows[n].by].num = n
    BY <1>1 DEF Deploy, Typed, TypeOK, NumbersOK, Used, NoRow
  <2>. DEFINE q == [at |-> "deploying", num |-> n, row |-> rows[n]]
  <2>2. q \in DepRec /\ q.num = n /\ q.row = rows[n] /\ dep' = [dep EXCEPT ![p] = q]
    BY <1>1, <2>1 DEF Deploy, DepRec
  <2>. HIDE DEF q
  <2>3. /\ dep' \in [Deployer -> DepRec] /\ dep'[p] = q
        /\ \A r \in Deployer \ {p} : dep'[r] = dep[r]
    BY <2>2 DEF Typed, TypeOK, DepRec
  <2>4. OthersWork /\ UNCHANGED <<queue, del>>
    BY <1>1 DEF Deploy, OthersWork, Typed, TypeOK, tables, router
  <2>. QED  BY <2>1, <2>2, <2>3, <2>4, OthersTyped DEF Typed, NumbersOK
<1>2. CASE AbandonDeployment(p)
  <2>1. OthersWork /\ UNCHANGED <<queue, del>>
    BY <1>2 DEF AbandonDeployment, OthersWork, Typed, TypeOK, tables, router
  <2>. QED  BY <1>2, <2>1, EndsTyped DEF AbandonDeployment
<1>3. CASE SaveDeployment(p)
  <2>. DEFINE n == dep[p].num
              row == dep[p].row
  <2>1. /\ dep[p] \in DepRec /\ dep[p].at \in Deploying
        /\ n \in Num /\ row \in Row /\ make[row.by].num = n
    BY <1>3 DEF SaveDeployment, Typed, TypeOK, NumbersOK, DepRec
  <2>2. OthersWork /\ UNCHANGED <<queue, del>>
    <3>1. UNCHANGED <<net, fwd, left, hyp, lock, make, torn, queue, del>>
      BY <1>3 DEF SaveDeployment, router
    <3>2. CASE Save(n, row.status, row.vms, row.by)
      <4>. DEFINE r == Entry(n, row.status, row.vms, row.by)
      <4>1. rows' = [rows EXCEPT ![n] = r] /\ r \in Row /\ r.by = row.by /\ serial' \in Nat
        BY <2>1, <3>2, SaveWrites DEF Entry, Row
      <4>. HIDE DEF r
      <4>. QED  BY <2>1, <3>1, <4>1 DEF OthersWork, Typed, TypeOK
    <3>3. CASE SaveFails(n, row.vms) /\ UNCHANGED rows
      BY <3>1, <3>3, SaveFailsDraws DEF OthersWork, Typed, TypeOK
    <3>. QED  BY <1>3, <3>2, <3>3 DEF SaveDeployment
  <2>3. CASE dep' = [dep EXCEPT ![p].at = "installing"]
    <3>. DEFINE q == [dep[p] EXCEPT !.at = "installing"]
    <3>1. q \in DepRec /\ q.num = n /\ q.row = row /\ dep' = [dep EXCEPT ![p] = q]
      BY <2>1, <2>3 DEF DepRec
    <3>. HIDE DEF q
    <3>2. /\ dep' \in [Deployer -> DepRec] /\ dep'[p] = q
          /\ \A r \in Deployer \ {p} : dep'[r] = dep[r]
      BY <3>1 DEF Typed, TypeOK, DepRec
    <3>. QED  BY <2>1, <2>2, <3>1, <3>2, OthersTyped DEF Typed, NumbersOK
  <2>4. CASE DeploymentEnds(p)
    BY <2>2, <2>4, EndsTyped
  <2>. QED  BY <1>3, <2>3, <2>4 DEF SaveDeployment
<1>. QED  BY <1>1, <1>2, <1>3

LEMMA NextTyped == ASSUME Typed, [Next]_vars PROVE Typed'
<1>1. CASE UNCHANGED vars
  BY <1>1 DEF vars, Typed, TypeOK, NumbersOK, Live, Used
<1>2. CASE Next
  BY <1>2, CreatorTyped, DeleterTyped, ForceTyped, DeployerTyped DEF Next
<1>. QED  BY <1>1, <1>2

\* Every variable has its type, whatever fails and whoever acts: the numbers that
\* _allocate_cluster_id hands out stay within one for each creation, because a row
\* holds the entry of a creation that has its number.
THEOREM LifecycleType == Spec => []TypeOK
<1>1. Typed /\ [Next]_vars => Typed'
  BY NextTyped
<1>2. Typed => TypeOK
  BY DEF Typed
<1>. QED  BY InitTyped, <1>1, <1>2, PTL DEF Spec

-----------------------------------------------------------------------------
(* The instances the safety properties are about, and their invariant      *)

\* Either nothing is deleted, or everything that is made goes through the create
\* queue, nothing is deployed and no administrator acts on what is being made.
\* Outside of both TLC finds the properties violated, RowsTellTheTruth in the second
\* as well.
NoDeletion == Deleter = {}
QueueOnly  == Queued = Creator /\ Deployer = {} /\ ~Admin
Sheltered  == NoDeletion \/ QueueOnly

\* No administrator has forced the row of n away.
Sure(n) == n \in left => ~Admin
Machines(n) == {v \in VmId : hyp[v] # None /\ make[hyp[v]].num = n}

Blank       == {"allocated", "saved", "setup"}
Bare        == Blank \cup {"networked"}
Unforwarded == Bare \cup {"cloning", "numbered", "forwarding", "forward"}
Complete    == {"forwarding", "forward", "started", "ready", "resaving"}
Released    == {"undoRouter", "undoRow"}
StatusAt(s) == IF s = "allocated" THEN "allocating"
               ELSE IF s = "resaving" THEN "running" ELSE "creating"

\* A creation at work has its row, the router as far as it has come, and every
\* machine of its number among those it would release; these are its own, or a
\* deletion has released them.
RowOf(c) == Sure(make[c].num) =>
  /\ rows[make[c].num].by = c
  /\ rows[make[c].num].status = StatusAt(make[c].at)
  /\ rows[make[c].num].vms = IF make[c].at = "resaving" THEN make[c].vms ELSE <<>>
StageOf(c) ==
  /\ make[c].at \in Bare => make[c].vms = <<>>
  /\ make[c].at \in Complete => Len(make[c].vms) = Size
  /\ make[c].at = "resaving" => c \notin Queued
RouterOf(c) == make[c].num \notin left =>
  /\ make[c].at \in Blank => make[c].num \notin net
  /\ make[c].at \in Unforwarded => make[c].num \notin fwd
  /\ make[c].at \in {"ready", "resaving"} => make[c].num \in net \cap fwd
  /\ make[c].at = "undoRow" => make[c].num \notin net \cup fwd
MachinesOf(c) == make[c].num \notin left =>
  /\ Machines(make[c].num) \subseteq SeqRange(make[c].vms)
  /\ make[c].at \in Released => Machines(make[c].num) = {}
HoldsOf(c) == make[c].at \notin Released =>
  \A v \in SeqRange(make[c].vms) : hyp[v] = c \/ (hyp[v] = None /\ make[c].num \in torn)

Creation(c) ==
  /\ make[c].at = "idle" => make[c].vms = <<>>
  /\ Live(c) => RowOf(c) /\ StageOf(c) /\ RouterOf(c) /\ MachinesOf(c) /\ HoldsOf(c)

\* A number without a row is clean.  A running row lists its machines, and its
\* creation has nothing left to undo.
CleanNumber(n) == n \notin left /\ rows[n] = NoRow => n \notin net \cup fwd /\ Machines(n) = {}
Settled(by) == make[by].at \in {"resaving"} \cup Ended
RunningNumber(n) == rows[n].status = "running" =>
  /\ Settled(rows[n].by)
  /\ Len(rows[n].vms) = Size
  /\ \A v \in SeqRange(rows[n].vms) : hyp[v] = rows[n].by \/ n \in torn
  /\ n \notin left => Machines(n) \subseteq SeqRange(rows[n].vms)
  /\ NoDeletion /\ n \notin left => n \in net \cap fwd
IdOf(n) == ~Admin /\ rows[n] # NoRow => rows[n].id = n
Number(n) == CleanNumber(n) /\ RunningNumber(n) /\ IdOf(n)

\* What a deployment saves is what the row says.
Deployment(p) == dep[p].at \in Deploying =>
  LET r == dep[p].row s == rows[dep[p].num] IN
  /\ r.status = "running" /\ Settled(r.by) /\ Len(r.vms) = Size
  /\ \A v \in SeqRange(r.vms) : hyp[v] = r.by
  /\ Sure(dep[p].num) => s.status = r.status /\ s.vms = r.vms /\ s.by = r.by

\* A deletion works on the row it loaded, and cleans up before it drops it.
Deletion(d) == QueueOnly /\ Active(d) =>
  LET n == del[d].num IN
  /\ rows[n] = del[d].row /\ rows[n].status = "running"
  /\ del[d].at # "loaded" => n \in torn /\ (n \notin left => Machines(n) = {})
  /\ del[d].at = "cleaned" /\ n \notin left => n \notin net \cup fwd

\* Each queue has one worker.
Alone == QueueOnly =>
  /\ \A c, e \in Creator : Live(c) /\ Live(e) => c = e
  /\ \A d, e \in Deleter : Active(d) /\ Active(e) => d = e

IInv == /\ Typed
        /\ \A c \in Creator : Creation(c)
        /\ \A n \in Num : Number(n)
        /\ \A p \in Deployer : Deployment(p)
        /\ \A d \in Deleter : Deletion(d)
        /\ Alone
        /\ NoDeletion => torn = {}

LEMMA InitInv == Init => IInv
<1>1. SUFFICES ASSUME Init PROVE IInv
  OBVIOUS
<1>2. \A n \in Num : rows[n] = NoRow /\ Machines(n) = {}
  BY <1>1 DEF Init, Machines
<1>3. \A n \in Num : Number(n)
  BY <1>1, <1>2 DEF Init, Number, CleanNumber, RunningNumber, IdOf, NoRow
<1>4. \A c \in Creator : Creation(c)
  BY <1>1 DEF Init, Creation, Live
<1>5. \A p \in Deployer : Deployment(p)
  BY <1>1 DEF Init, Deployment, Deploying
<1>6. \A d \in Deleter : Deletion(d)
  BY <1>1 DEF Init, Deletion, Active
<1>7. Alone
  BY <1>1 DEF Init, Alone, Live, Active
<1>. QED  BY <1>1, <1>3, <1>4, <1>5, <1>6, <1>7, InitTyped DEF Init, IInv

-----------------------------------------------------------------------------
(* What a step of a creation leaves alone                                  *)

\* The step concerns the creation's own number, and the machines it takes or, at
\* the rollback, releases.
OwnSlice(c) ==
  LET n == make[c].num IN
  /\ Live(c)
  /\ \A e \in Creator \ {c} : make'[e] = make[e]
  /\ make'[c].num = n /\ make'[c].at # "idle"
  /\ make[c].at = "resaving" => make'[c].at \in Ended
  /\ \A m \in Num \ {n} : /\ rows'[m] = rows[m]
                          /\ m \in net' <=> m \in net
                          /\ m \in fwd' <=> m \in fwd
                          /\ m \in left' <=> m \in left
  /\ left \subseteq left'
  /\ \A v \in VmId : \/ hyp'[v] = hyp[v]
                     \/ hyp[v] = None /\ hyp'[v] = c
                     \/ hyp[v] = c /\ hyp'[v] = None /\ make[c].at = "undoVms"
  /\ UNCHANGED requests

\* Two creations at work have different numbers, unless one lost its row.
LEMMA OneEach ==
  ASSUME IInv, NEW c \in Creator, NEW e \in Creator, Live(c), Live(e), Sure(make[c].num),
         make[e].num = make[c].num
  PROVE  c = e
BY DEF IInv, Creation, RowOf

LEMMA SliceMachines ==
  ASSUME IInv, NEW c \in Creator, OwnSlice(c), NEW m \in Num, m # make[c].num
  PROVE  Machines(m)' = Machines(m)
<1>1. \A e \in Creator : make'[e].num = make[e].num
  BY DEF OwnSlice
<1>2. c # None /\ \A v \in VmId : hyp[v] \in Creator \cup {None}
  BY LifecycleAssumption DEF IInv, Typed, TypeOK
<1>3. ASSUME NEW v \in VmId
      PROVE  (hyp'[v] # None /\ make'[hyp'[v]].num = m) <=> (hyp[v] # None /\ make[hyp[v]].num = m)
  BY <1>1, <1>2 DEF OwnSlice
<1>. QED  BY <1>3 DEF Machines

\* A machine that a settled or another creation owns stays.
LEMMA SliceKeeps ==
  ASSUME IInv, NEW c \in Creator, OwnSlice(c), NEW v \in VmId, NEW e \in Creator, hyp[v] = e,
         e = c => make[c].at # "undoVms"
  PROVE  hyp'[v] = e
BY LifecycleAssumption DEF OwnSlice

LEMMA SliceSettled ==
  ASSUME IInv, NEW c \in Creator, OwnSlice(c), NEW e \in Creator, Settled(e)
  PROVE  Settled(e)' /\ (e = c => make[c].at # "undoVms")
BY DEF OwnSlice, Settled, Live, Ended

LEMMA SliceCreation ==
  ASSUME Sheltered, IInv, NEW c \in Creator, OwnSlice(c), NEW e \in Creator \ {c}
  PROVE  Creation(e)'
<1>1. make'[e] = make[e] /\ UNCHANGED torn
  BY DEF OwnSlice, requests
<1>2. Creation(e)
  BY DEF IInv
<1>3. SUFFICES ASSUME Live(e) PROVE Creation(e)'
  BY <1>1, <1>2 DEF Creation, Live
<1>4. make[e].num \in Num /\ RowOf(e) /\ StageOf(e) /\ RouterOf(e) /\ MachinesOf(e) /\ HoldsOf(e)
  BY <1>2, <1>3 DEF IInv, Typed, NumbersOK, Creation
<1>5. HoldsOf(e)'
  <2>. SUFFICES ASSUME make[e].at \notin Released, NEW v \in SeqRange(make[e].vms)
                PROVE  hyp'[v] = e \/ (hyp'[v] = None /\ make[e].num \in torn)
    BY <1>1 DEF HoldsOf
  <2>1. hyp[v] = e \/ (hyp[v] = None /\ make[e].num \in torn)
    BY <1>4 DEF HoldsOf
  <2>2. v \in VmId
    BY DEF IInv, Typed, TypeOK, SeqRange
  <2>3. CASE hyp[v] = e
    BY <2>2, <2>3, SliceKeeps
  <2>4. CASE hyp[v] = None /\ make[e].num \in torn
    \* Under QueueOnly only one creation is at work.
    <3>1. FALSE
      BY <1>3, <2>4 DEF IInv, Alone, Sheltered, OwnSlice
    <3>. QED  BY <3>1
  <2>. QED  BY <2>1, <2>3, <2>4
<1>6. CASE make[e].num # make[c].num
  <2>1. /\ rows'[make[e].num] = rows[make[e].num]
        /\ make[e].num \in net' <=> make[e].num \in net
        /\ make[e].num \in fwd' <=> make[e].num \in fwd
        /\ make[e].num \in left' <=> make[e].num \in left
    BY <1>4, <1>6 DEF OwnSlice
  <2>2. Machines(make[e].num)' = Machines(make[e].num)
    <3>. DEFINE m == make[e].num
    <3>1. Machines(m)' = {v \in VmId : hyp'[v] # None /\ make'[hyp'[v]].num = make'[e].num}
      BY DEF Machines
    <3>2. \A k \in Num : k # make[c].num =>
             {v \in VmId : hyp'[v] # None /\ make'[hyp'[v]].num = k} = Machines(k)
      BY SliceMachines DEF Machines
    <3>. QED  BY <1>1, <1>4, <1>6, <3>1, <3>2
  <2>3. RowOf(e)' /\ StageOf(e)'
    BY <1>1, <1>4, <2>1 DEF RowOf, StageOf, Sure
  <2>4. RouterOf(e)'
    BY <1>1, <1>4, <2>1 DEF RouterOf
  <2>5. MachinesOf(e)'
    BY <1>1, <1>4, <2>1, <2>2 DEF MachinesOf
  <2>. QED  BY <1>1, <1>2, <1>5, <2>3, <2>4, <2>5 DEF Creation
<1>7. CASE make[e].num = make[c].num
  <2>1. ~Sure(make[e].num) /\ make[e].num \in left'
    BY <1>3, <1>7, OneEach DEF OwnSlice, Sure
  <2>2. Admin /\ make[e].num \in left
    BY <2>1 DEF Sure
  <2>. QED  BY <1>1, <1>2, <1>4, <1>5, <2>1, <2>2
            DEF Creation, RowOf, StageOf, RouterOf, MachinesOf, Sure
<1>. QED  BY <1>6, <1>7

LEMMA SliceListed ==
  ASSUME IInv, NEW c \in Creator, OwnSlice(c), NEW n \in Num, RunningNumber(n),
         rows[n].status = "running"
  PROVE  /\ make'[rows[n].by].at \in {"resaving"} \cup Ended
         /\ \A v \in SeqRange(rows[n].vms) : hyp'[v] = rows[n].by \/ n \in torn'
<1>1. rows[n] \in Row
  BY DEF IInv, Typed, TypeOK, NoRow
<1>2. rows[n].by \in Creator /\ SeqRange(rows[n].vms) \subseteq VmId
  BY <1>1 DEF Row, SeqRange
<1>3. /\ Settled(rows[n].by)
      /\ \A v \in SeqRange(rows[n].vms) : hyp[v] = rows[n].by \/ n \in torn
  BY DEF RunningNumber
<1>4. ASSUME NEW by \in Creator, by = rows[n].by
      PROVE  Settled(by)' /\ (by = c => make[c].at # "undoVms")
  BY <1>3, <1>4, SliceSettled
<1>5. \A v \in SeqRange(rows[n].vms) : hyp'[v] = rows[n].by \/ n \in torn'
  BY <1>2, <1>3, <1>4, SliceKeeps DEF OwnSlice, requests
<1>. QED  BY <1>2, <1>4, <1>5 DEF Settled

LEMMA SliceNumber ==
  ASSUME IInv, NEW c \in Creator, OwnSlice(c), NEW m \in Num \ {make[c].num}
  PROVE  Number(m)'
<1>1. Number(m) /\ rows'[m] = rows[m] /\ m \in Num
  BY DEF IInv, OwnSlice
<1>2. /\ m \in net' <=> m \in net
      /\ m \in fwd' <=> m \in fwd
      /\ m \in left' <=> m \in left
  BY DEF OwnSlice
<1>3. Machines(m)' = Machines(m)
  BY SliceMachines
<1>4. CleanNumber(m)' /\ IdOf(m)'
  BY <1>1, <1>2, <1>3 DEF Number, CleanNumber, IdOf
<1>5. RunningNumber(m)'
  <2>. SUFFICES ASSUME rows[m].status = "running" PROVE RunningNumber(m)'
    BY <1>1 DEF RunningNumber
  <2>1. RunningNumber(m)
    BY <1>1 DEF Number
  <2>. QED  BY <1>1, <1>2, <1>3, <2>1, SliceListed DEF RunningNumber, Settled
<1>. QED  BY <1>4, <1>5 DEF Number

\* The creation's own number, when its row stays.
LEMMA SliceOwnNumber ==
  ASSUME IInv, NEW c \in Creator, OwnSlice(c), NEW n \in Num, n = make[c].num,
         rows'[n] = rows[n], make[c].at # "resaving"
  PROVE  Number(n)'
<1>1. Number(n) /\ RowOf(c) /\ c # None
  BY LifecycleAssumption DEF IInv, OwnSlice, Creation
<1>2. n \notin left' => n \notin left
  BY DEF OwnSlice
<1>3. n \notin left' => rows[n] # NoRow /\ rows[n].status # "running"
  BY <1>1, <1>2 DEF RowOf, Sure, NoRow, StatusAt
<1>4. CleanNumber(n)' /\ IdOf(n)'
  BY <1>1, <1>2, <1>3 DEF Number, CleanNumber, IdOf
<1>5. RunningNumber(n)'
  <2>. SUFFICES ASSUME rows[n].status = "running" PROVE RunningNumber(n)'
    BY DEF RunningNumber
  <2>1. RunningNumber(n)
    BY <1>1 DEF Number
  <2>2. /\ make'[rows[n].by].at \in {"resaving"} \cup Ended
        /\ \A v \in SeqRange(rows[n].vms) : hyp'[v] = rows[n].by \/ n \in torn'
    BY <2>1, SliceListed
  <2>. QED  BY <1>2, <1>3, <2>1, <2>2 DEF RunningNumber, Settled
<1>. QED  BY <1>4, <1>5 DEF Number

LEMMA SliceDeployment ==
  ASSUME Sheltered, IInv, NEW c \in Creator, OwnSlice(c), NEW p \in Deployer,
         make[c].at = "resaving" /\ Sure(make[c].num) => rows' = rows
  PROVE  Deployment(p)'
<1>. DEFINE r == dep[p].row
            n == dep[p].num
<1>1. dep' = dep /\ (Sure(n)' => Sure(n))
  BY DEF OwnSlice, requests, Sure
<1>2. SUFFICES ASSUME dep[p].at \in Deploying PROVE Deployment(p)'
  BY <1>1 DEF Deployment
<1>3. Deployment(p) /\ n \in Num /\ r \in Row
  BY <1>2 DEF IInv, Typed, NumbersOK
<1>4. r.by \in Creator /\ SeqRange(r.vms) \subseteq VmId
  BY <1>3 DEF Row, SeqRange
<1>5. /\ r.status = "running" /\ Settled(r.by) /\ Len(r.vms) = Size
      /\ \A v \in SeqRange(r.vms) : hyp[v] = r.by
      /\ Sure(n) => /\ rows[n].status = r.status /\ rows[n].vms = r.vms /\ rows[n].by = r.by
  BY <1>2, <1>3 DEF Deployment
<1>6. ASSUME NEW by \in Creator, by = r.by
      PROVE  Settled(by)' /\ (by = c => make[c].at # "undoVms")
  BY <1>5, <1>6, SliceSettled
<1>7. \A v \in SeqRange(r.vms) : hyp'[v] = r.by
  BY <1>4, <1>5, <1>6, SliceKeeps
<1>8. make'[r.by].at \in {"resaving"} \cup Ended
  BY <1>4, <1>6 DEF Settled
<1>9. Sure(n) => rows'[n] = rows[n]
  <2>1. CASE n # make[c].num
    BY <1>3, <2>1 DEF OwnSlice
  <2>2. CASE n = make[c].num /\ Sure(n)
    <3>1. RowOf(c) /\ rows[n].status = "running"
      BY <1>5, <2>2 DEF IInv, Creation, OwnSlice
    <3>2. make[c].at = "resaving"
      BY <2>2, <3>1 DEF RowOf, StatusAt
    <3>. QED  BY <2>2, <3>2
  <2>. QED  BY <2>1, <2>2
<1>. QED  BY <1>1, <1>5, <1>7, <1>8, <1>9 DEF Deployment, Settled, Sure

LEMMA SliceDeletion ==
  ASSUME IInv, NEW c \in Creator, OwnSlice(c), NEW d \in Deleter
  PROVE  Deletion(d)'
<1>. DEFINE n == del[d].num
<1>1. UNCHANGED <<del, torn>>
  BY DEF OwnSlice, requests
<1>2. SUFFICES ASSUME QueueOnly, Active(d) PROVE Deletion(d)'
  BY <1>1 DEF Deletion, Active
<1>3. Deletion(d) /\ n \in Num
  BY <1>2 DEF IInv, Typed, NumbersOK, Active
<1>4. n # make[c].num
  <2>1. rows[n].status = "running"
    BY <1>2, <1>3 DEF Deletion
  <2>2. StageOf(c) /\ RowOf(c) /\ Sure(make[c].num) /\ c \in Queued
    BY <1>2 DEF IInv, Creation, OwnSlice, QueueOnly, Sure
  <2>. QED  BY <2>1, <2>2 DEF StageOf, RowOf, StatusAt
<1>5. /\ rows'[n] = rows[n]
      /\ n \in net' <=> n \in net
      /\ n \in fwd' <=> n \in fwd
      /\ n \in left' <=> n \in left
  BY <1>3, <1>4 DEF OwnSlice
<1>6. {v \in VmId : hyp'[v] # None /\ make'[hyp'[v]].num = n} = Machines(n)
  BY <1>3, <1>4, SliceMachines DEF Machines
<1>. QED  BY <1>1, <1>3, <1>5, <1>6 DEF Deletion, Machines, Active

\* The invariant after such a step, when it holds of the creation and its number.
LEMMA SliceInv ==
  ASSUME Sheltered, IInv, Typed', NEW c \in Creator, OwnSlice(c),
         Creation(c)', NEW n \in Num, n = make[c].num, Number(n)',
         make[c].at = "resaving" /\ Sure(n) => rows' = rows
  PROVE  IInv'
<1>1. \A m \in Num : Number(m)'
  BY SliceNumber
<1>2. Alone'
  <2>1. \A e \in Creator : Live(e)' => Live(e)
    BY DEF OwnSlice, Live
  <2>. QED  BY <2>1 DEF IInv, Alone, OwnSlice, requests, Active
<1>. QED  BY <1>1, <1>2, SliceCreation, SliceDeployment, SliceDeletion DEF IInv, OwnSlice, requests

-----------------------------------------------------------------------------
(* The steps of a creation                                                 *)

\* Only the record of c changes, and its number stays.
Turns(c, stage) ==
  /\ \A e \in Creator \ {c} : make'[e] = make[e]
  /\ make'[c].at = stage /\ make'[c].num = make[c].num
  /\ stage \notin Ended => make'[c].vms = make[c].vms

LEMMA GotoTurns ==
  ASSUME Typed, NEW c \in Creator, NEW stage \in MakeStage, Goto(c, stage)
  PROVE  Turns(c, stage)
<1>1. make' = [make EXCEPT ![c] = At(c, stage)] /\ At(c, stage).at = stage
      /\ At(c, stage).num = make[c].num /\ (stage \notin Ended => At(c, stage).vms = make[c].vms)
  BY GotoMakes
<1>2. make'[c] = At(c, stage) /\ \A e \in Creator \ {c} : make'[e] = make[e]
  BY <1>1 DEF Typed, TypeOK
<1>. QED  BY <1>1, <1>2 DEF Turns

LEMMA LiveFacts ==
  ASSUME IInv, NEW c \in Creator, Live(c)
  PROVE  /\ make[c].num \in Num /\ make[c] \in Made /\ c # None
         /\ RowOf(c) /\ StageOf(c) /\ RouterOf(c) /\ MachinesOf(c) /\ HoldsOf(c)
         /\ Number(make[c].num)
BY LifecycleAssumption DEF IInv, Typed, TypeOK, NumbersOK, Made, Creation

\* Machines change hands only with hyp.
LEMMA SameMachines ==
  ASSUME Typed, UNCHANGED hyp, \A e \in Creator : make'[e].num = make[e].num, NEW n
  PROVE  Machines(n)' = Machines(n)
<1>1. \A v \in VmId : hyp[v] \in Creator \cup {None}
  BY DEF Typed, TypeOK
<1>. QED  BY <1>1 DEF Machines

LEMMA NoMachinesYet ==
  ASSUME IInv, NEW c \in Creator, Live(c), make[c].at \in Bare, make[c].num \notin left
  PROVE  Machines(make[c].num) = {}
<1>1. make[c].vms = <<>> /\ Machines(make[c].num) \subseteq SeqRange(make[c].vms)
  BY LiveFacts DEF StageOf, MachinesOf
<1>. QED  BY <1>1 DEF SeqRange

LEMMA DropNumber ==
  ASSUME IInv, NEW c \in Creator, OwnSlice(c), NEW n \in Num, n = make[c].num,
         TryDropRow(n), make[c].at # "resaving",
         n \notin left' => n \notin net' \cup fwd' /\ Machines(n)' = {}
  PROVE  Number(n)'
<1>1. CASE rows'[n] = rows[n]
  BY <1>1, SliceOwnNumber
<1>2. CASE rows'[n] = NoRow
  BY <1>2 DEF Number, CleanNumber, RunningNumber, IdOf, NoRow
<1>. QED  BY <1>1, <1>2 DEF TryDropRow, IInv, Typed, TypeOK

LEMMA FailedCreation ==
  ASSUME NEW c \in Creator, NEW stage \in Ended, Turns(c, stage)
  PROVE  Creation(c)'
BY DEF Turns, Creation, Live, Ended

\* A step that touches nothing but its record and, perhaps, the lock.
LEMMA QuietInv ==
  ASSUME Sheltered, IInv, Typed', NEW c \in Creator, Live(c), make[c].at # "resaving",
         NEW stage \in MakeStage \ {"idle"}, Goto(c, stage),
         UNCHANGED <<rows, net, fwd, left, hyp, requests>>,
         stage \notin Ended => Creation(c)'
  PROVE  IInv'
<1>1. Turns(c, stage)
  BY GotoTurns DEF IInv
<1>2. OwnSlice(c)
  BY <1>1 DEF OwnSlice, Turns
<1>3. Creation(c)'
  BY <1>1, FailedCreation
<1>4. PICK n \in Num : n = make[c].num
  BY LiveFacts
<1>5. Number(n)'
  BY <1>2, <1>4, SliceOwnNumber
<1>. QED  BY <1>2, <1>3, <1>4, <1>5, SliceInv

\* Of the next stage no more is said than of the one before.
LEMMA OnwardCreation ==
  ASSUME IInv, NEW c \in Creator, Live(c), NEW stage, Turns(c, stage),
         UNCHANGED <<rows, net, fwd, left, hyp, torn>>,
         stage \notin Ended \cup {"idle", "allocated", "resaving", "undoRow"},
         make[c].at \notin {"allocated", "resaving"} \cup Released,
         stage \in Bare => make[c].at \in Bare,
         stage \in Blank => make[c].at \in Blank,
         stage \in Unforwarded => make[c].at \in Unforwarded,
         stage \in Complete => make[c].at \in Complete,
         stage = "ready" => make[c].num \in net \cap fwd,
         stage \in Released => make[c].at \in Bare
  PROVE  Creation(c)'
<1>1. /\ make'[c].at = stage /\ make'[c].num = make[c].num /\ make'[c].vms = make[c].vms
  BY DEF Turns
<1>2. RowOf(c) /\ StageOf(c) /\ RouterOf(c) /\ MachinesOf(c) /\ HoldsOf(c)
  BY LiveFacts
<1>3. {v \in VmId : hyp'[v] # None /\ make'[hyp'[v]].num = make[c].num} = Machines(make[c].num)
  BY <1>1, SameMachines DEF IInv, Turns, Machines
<1>4. RowOf(c)'
  BY <1>1, <1>2 DEF RowOf, Sure, StatusAt
<1>5. StageOf(c)'
  BY <1>1, <1>2 DEF StageOf
<1>6. RouterOf(c)'
  BY <1>1, <1>2 DEF RouterOf
<1>7. MachinesOf(c)'
  BY <1>1, <1>2, <1>3, NoMachinesYet DEF MachinesOf, Machines
<1>8. HoldsOf(c)'
  BY <1>1, <1>2 DEF HoldsOf
<1>. QED  BY <1>1, <1>4, <1>5, <1>6, <1>7, <1>8 DEF Creation

LEMMA OnwardInv ==
  ASSUME Sheltered, IInv, Typed', NEW c \in Creator, Live(c), NEW stage \in MakeStage,
         Goto(c, stage), UNCHANGED <<rows, net, fwd, left, hyp, requests>>,
         stage \notin Ended \cup {"idle", "allocated", "resaving", "undoRow"},
         make[c].at \notin {"allocated", "resaving"} \cup Released,
         stage \in Bare => make[c].at \in Bare,
         stage \in Blank => make[c].at \in Blank,
         stage \in Unforwarded => make[c].at \in Unforwarded,
         stage \in Complete => make[c].at \in Complete,
         stage = "ready" => make[c].num \in net \cap fwd,
         stage \in Released => make[c].at \in Bare
  PROVE  IInv'
<1>1. Turns(c, stage)
  BY GotoTurns DEF IInv
<1>2. UNCHANGED <<rows, net, fwd, left, hyp, torn>>
  BY DEF requests
<1>3. Creation(c)'
  BY <1>1, <1>2, OnwardCreation
<1>. QED  BY <1>3, QuietInv

LEMMA QuietStepsInv ==
  ASSUME Sheltered, IInv, Typed', NEW c \in Creator,
         \/ AskRouter(c) \/ ConnectPve(c) \/ AskForwarding(c) \/ ConfigureSsh(c)
         \/ DrawVmId(c) /\ Goto(c, "undoVms")
  PROVE  IInv'
<1>1. Live(c) /\ make[c].at # "resaving" /\ UNCHANGED <<rows, net, fwd, left, hyp, requests>>
  BY DEF AskRouter, ConnectPve, DrawVmId, AskForwarding, ConfigureSsh, Live, Ended, tables, router
<1>2. ASSUME Goto(c, "failed") PROVE IInv'
  BY <1>1, <1>2, QuietInv DEF MakeStage, Ended
<1>3. CASE AskRouter(c)
  <2>1. make[c].at = "saved" /\ (Goto(c, "setup") \/ Goto(c, "failed"))
    BY <1>3 DEF AskRouter
  <2>. QED  BY <1>1, <1>2, <2>1, OnwardInv
            DEF MakeStage, Ended, Bare, Blank, Unforwarded, Complete, Released
<1>4. CASE ConnectPve(c)
  <2>1. make[c].at = "networked" /\ \/ Goto(c, "undoRouter") \/ Goto(c, "cloning")
                                    \/ Goto(c, "failed")
    BY <1>4 DEF ConnectPve
  <2>. QED  BY <1>1, <1>2, <2>1, OnwardInv
            DEF MakeStage, Ended, Bare, Blank, Unforwarded, Complete, Released
<1>5. CASE AskForwarding(c)
  <2>1. make[c].at = "forwarding" /\ (Goto(c, "forward") \/ Goto(c, "started"))
    BY <1>5 DEF AskForwarding
  <2>. QED  BY <1>1, <2>1, OnwardInv
            DEF MakeStage, Ended, Bare, Blank, Unforwarded, Complete, Released
<1>6. CASE ConfigureSsh(c)
  <2>1. /\ make[c].at = "started"
        /\ (Goto(c, "ready") /\ make[c].num \in net \cap fwd) \/ Goto(c, "undoVms")
    BY <1>6 DEF ConfigureSsh, Reachable
  <2>. QED  BY <1>1, <2>1, OnwardInv
            DEF MakeStage, Ended, Bare, Blank, Unforwarded, Complete, Released
<1>7. CASE DrawVmId(c) /\ Goto(c, "undoVms")
  <2>1. make[c].at = "cloning"
    BY <1>7 DEF DrawVmId
  <2>. QED  BY <1>1, <1>7, <2>1, OnwardInv
            DEF MakeStage, Ended, Bare, Blank, Unforwarded, Complete, Released
<1>. QED  BY <1>3, <1>4, <1>5, <1>6, <1>7

\* The id is drawn, nothing reserves it.  A cancellation only sets the event.
LEMMA RecordInv ==
  ASSUME Sheltered, IInv, Typed', NEW c \in Creator,
         \/ DrawVmId(c) /\ make' = [make EXCEPT ![c].at = "numbered", ![c].next = NextId]
         \/ Cancel(c)
  PROVE  IInv'
<1>1. Live(c) /\ UNCHANGED <<rows, net, fwd, left, hyp, requests>>
  BY DEF DrawVmId, Cancel, Live, Ended, tables, router
<1>2. PICK stage : /\ Turns(c, stage) /\ stage \notin Ended
                   /\ stage = make[c].at \/ (make[c].at = "cloning" /\ stage = "numbered")
  <2>1. CASE DrawVmId(c) /\ make' = [make EXCEPT ![c].at = "numbered", ![c].next = NextId]
    <3>1. Turns(c, "numbered") /\ make[c].at = "cloning"
      BY <2>1 DEF DrawVmId, Turns, IInv, Typed, TypeOK
    <3>. QED  BY <3>1 DEF Ended
  <2>2. CASE Cancel(c)
    <3>1. Turns(c, make[c].at)
      BY <2>2 DEF Cancel, Turns, IInv, Typed, TypeOK
    <3>. QED  BY <1>1, <3>1 DEF Live
  <2>. QED  BY <2>1, <2>2
<1>3. make[c].at # "resaving" /\ make[c].at # "idle"
  <2>1. CASE Cancel(c)
    BY <1>1, <2>1, LiveFacts DEF Cancel, StageOf, Live
  <2>. QED  BY <2>1 DEF DrawVmId
<1>4. OwnSlice(c)
  BY <1>1, <1>2, <1>3 DEF OwnSlice, Turns
<1>5. /\ make'[c].at = stage /\ make'[c].num = make[c].num /\ make'[c].vms = make[c].vms
  BY <1>2 DEF Turns
<1>6. RowOf(c) /\ StageOf(c) /\ RouterOf(c) /\ MachinesOf(c) /\ HoldsOf(c)
  BY <1>1, LiveFacts
<1>7. {v \in VmId : hyp'[v] # None /\ make'[hyp'[v]].num = make[c].num} = Machines(make[c].num)
  BY <1>1, <1>2, SameMachines DEF IInv, Turns, Machines
<1>8. RowOf(c)' /\ StageOf(c)' /\ RouterOf(c)' /\ HoldsOf(c)'
  BY <1>1, <1>2, <1>5, <1>6 DEF RowOf, Sure, StatusAt, StageOf, RouterOf, HoldsOf, requests, Bare,
     Blank, Unforwarded, Complete, Released
<1>9. MachinesOf(c)'
  BY <1>1, <1>2, <1>5, <1>6, <1>7 DEF MachinesOf, Machines, Released
<1>10. Creation(c)'
  BY <1>2, <1>3, <1>5, <1>8, <1>9 DEF Creation
<1>11. PICK n \in Num : n = make[c].num
  BY <1>1, LiveFacts
<1>12. Number(n)'
  BY <1>1, <1>3, <1>4, <1>11, SliceOwnNumber
<1>. QED  BY <1>3, <1>4, <1>10, <1>11, <1>12, SliceInv

LEMMA SaveInitialInv ==
  ASSUME Sheltered, IInv, Typed', NEW c \in Creator, SaveInitial(c)
  PROVE  IInv'
<1>1. Live(c) /\ make[c].at = "allocated" /\ UNCHANGED <<net, fwd, left, hyp, requests>>
  BY DEF SaveInitial, Live, Ended, router
<1>2. PICK n \in Num : n = make[c].num
  BY <1>1, LiveFacts
<1>3. /\ RowOf(c) /\ StageOf(c) /\ RouterOf(c) /\ MachinesOf(c) /\ HoldsOf(c) /\ Number(n)
      /\ c # None
  BY <1>1, <1>2, LiveFacts
<1>4. n \notin left => n \notin net \cup fwd /\ Machines(n) = {}
  BY <1>1, <1>2, <1>3, NoMachinesYet DEF RouterOf, Blank, Unforwarded, Bare
<1>5. CASE Save(n, "creating", <<>>, c) /\ Goto(c, "saved")
  <2>. DEFINE r == Entry(n, "creating", <<>>, c)
  <2>1. <<>> \in Seq(VmId)
    OBVIOUS
  <2>2. rows' = [rows EXCEPT ![n] = r] /\ r \in Row
    BY <1>5, <2>1, SaveWrites DEF IInv
  <2>3. /\ r.by = c /\ r.status = "creating" /\ r.vms = rows[n].vms
        /\ rows[n] # NoRow => r.id = rows[n].id
    BY DEF Entry
  <2>. HIDE DEF r
  <2>4. rows'[n] = r /\ \A m \in Num \ {n} : rows'[m] = rows[m]
    BY <2>2 DEF IInv, Typed, TypeOK
  <2>5. Turns(c, "saved")
    BY <1>5, GotoTurns DEF IInv, MakeStage
  <2>6. OwnSlice(c)
    BY <1>1, <1>2, <2>4, <2>5 DEF OwnSlice, Turns
  <2>7. /\ make'[c].at = "saved" /\ make'[c].num = n /\ make'[c].vms = make[c].vms
    BY <1>2, <2>5 DEF Turns, Ended
  <2>8. {v \in VmId : hyp'[v] # None /\ make'[hyp'[v]].num = n} = Machines(n)
    BY <1>1, <1>2, <2>5, SameMachines DEF IInv, Turns, Machines
  <2>9. RowOf(c)' /\ StageOf(c)' /\ RouterOf(c)' /\ HoldsOf(c)'
    BY <1>1, <1>2, <1>3, <2>3, <2>4, <2>7 DEF RowOf, Sure, StatusAt, StageOf, RouterOf, HoldsOf,
       requests, Bare, Blank, Unforwarded, Complete, Released
  <2>10. MachinesOf(c)'
    BY <1>1, <1>2, <1>3, <2>7, <2>8 DEF MachinesOf, Machines, Released
  <2>11. Creation(c)'
    BY <2>7, <2>9, <2>10 DEF Creation
  <2>12. Number(n)'
    <3>1. ~Admin => rows[n].by = c
      BY <1>2, <1>3 DEF RowOf, Sure
    <3>2. ~Admin => rows[n] # NoRow
      BY <1>3, <3>1 DEF NoRow
    <3>. QED  BY <1>3, <2>2, <2>3, <2>4, <3>2, NoRowIsNoRow
              DEF Number, CleanNumber, RunningNumber, IdOf
  <2>. QED  BY <1>1, <1>2, <2>6, <2>11, <2>12, SliceInv
<1>6. CASE UNCHANGED tables /\ Goto(c, "failed")
  BY <1>1, <1>6, QuietInv DEF MakeStage, Ended, tables
<1>7. CASE TryDropRow(n) /\ Goto(c, "failed")
  <2>1. Turns(c, "failed")
    BY <1>7, GotoTurns DEF IInv, MakeStage, Ended
  <2>2. OwnSlice(c)
    BY <1>1, <1>2, <1>7, <2>1 DEF OwnSlice, Turns, TryDropRow, IInv, Typed, TypeOK
  <2>3. Machines(n)' = Machines(n)
    BY <1>1, <2>1, SameMachines DEF IInv, Turns
  <2>4. Number(n)'
    BY <1>1, <1>2, <1>4, <1>7, <2>2, <2>3, DropNumber
  <2>5. Creation(c)'
    BY <2>1, FailedCreation DEF Ended
  <2>. QED  BY <1>1, <1>2, <2>2, <2>4, <2>5, SliceInv
<1>. QED  BY <1>2, <1>5, <1>6, <1>7 DEF SaveInitial

LEMMA SetupInv ==
  ASSUME Sheltered, IInv, Typed', NEW c \in Creator, Setup(c)
  PROVE  IInv'
<1>1. Live(c) /\ make[c].at = "setup" /\ UNCHANGED <<hyp, requests>>
  BY DEF Setup, Live, Ended
<1>2. PICK n \in Num : n = make[c].num
  BY <1>1, LiveFacts
<1>3. RowOf(c) /\ StageOf(c) /\ RouterOf(c) /\ MachinesOf(c) /\ HoldsOf(c)
  BY <1>1, LiveFacts
<1>4. n \notin left => n \notin net \cup fwd /\ Machines(n) = {}
  BY <1>1, <1>2, <1>3, NoMachinesYet DEF RouterOf, Blank, Unforwarded, Bare
<1>5. CASE UNCHANGED <<rows, router>> /\ Goto(c, "failed")
  BY <1>1, <1>5, QuietInv DEF MakeStage, Ended, router
<1>6. CASE net' = net \cup {n} /\ UNCHANGED <<rows, fwd, left>> /\ Goto(c, "networked")
  <2>1. Turns(c, "networked")
    BY <1>6, GotoTurns DEF IInv, MakeStage
  <2>2. OwnSlice(c)
    BY <1>1, <1>2, <1>6, <2>1 DEF OwnSlice, Turns
  <2>3. /\ make'[c].at = "networked" /\ make'[c].num = n /\ make'[c].vms = make[c].vms
    BY <1>2, <2>1 DEF Turns, Ended
  <2>4. {v \in VmId : hyp'[v] # None /\ make'[hyp'[v]].num = n} = Machines(n)
    BY <1>1, <1>2, <2>1, SameMachines DEF IInv, Turns, Machines
  <2>5. RowOf(c)' /\ StageOf(c)' /\ RouterOf(c)' /\ HoldsOf(c)'
    BY <1>1, <1>2, <1>3, <1>6, <2>3 DEF RowOf, Sure, StatusAt, StageOf, RouterOf, HoldsOf,
       requests, Bare, Blank, Unforwarded, Complete, Released
  <2>6. MachinesOf(c)'
    BY <1>1, <1>2, <1>3, <1>6, <2>3, <2>4 DEF MachinesOf, Machines, Released
  <2>7. Creation(c)'
    BY <2>3, <2>5, <2>6 DEF Creation
  <2>8. Number(n)'
    BY <1>1, <1>2, <1>6, <2>2, SliceOwnNumber
  <2>. QED  BY <1>1, <1>2, <2>2, <2>7, <2>8, SliceInv
<1>7. CASE /\ \/ TryCleanRouter(n)
              \/ net' = net \cup {n} /\ left' = left \cup {n} /\ UNCHANGED fwd
           /\ TryDropRow(n) /\ Goto(c, "failed")
  <2>1. Turns(c, "failed")
    BY <1>7, GotoTurns DEF IInv, MakeStage, Ended
  <2>2. OwnSlice(c)
    BY <1>1, <1>2, <1>7, <2>1
       DEF OwnSlice, Turns, TryDropRow, TryCleanRouter, IInv, Typed, TypeOK
  <2>3. Machines(n)' = Machines(n)
    BY <1>1, <2>1, SameMachines DEF IInv, Turns
  <2>4. n \notin left' => n \notin left /\ n \notin net' \cup fwd'
    BY <1>7 DEF TryCleanRouter
  <2>5. Number(n)'
    BY <1>1, <1>2, <1>4, <1>7, <2>2, <2>3, <2>4, DropNumber
  <2>6. Creation(c)'
    BY <2>1, FailedCreation DEF Ended
  <2>. QED  BY <1>1, <1>2, <2>2, <2>5, <2>6, SliceInv
<1>. QED  BY <1>2, <1>5, <1>6, <1>7 DEF Setup

LEMMA ForwardInv ==
  ASSUME Sheltered, IInv, Typed', NEW c \in Creator, Forward(c)
  PROVE  IInv'
<1>1. /\ Live(c) /\ make[c].at = "forward" /\ UNCHANGED <<rows, net, left, hyp, requests>>
      /\ Goto(c, "started")
  BY DEF Forward, Live, Ended, tables
<1>2. PICK n \in Num : n = make[c].num
  BY <1>1, LiveFacts
<1>3. RowOf(c) /\ StageOf(c) /\ RouterOf(c) /\ MachinesOf(c) /\ HoldsOf(c)
  BY <1>1, LiveFacts
<1>4. Turns(c, "started")
  BY <1>1, GotoTurns DEF IInv, MakeStage
<1>5. OwnSlice(c)
  BY <1>1, <1>2, <1>4 DEF OwnSlice, Turns, Forward
<1>6. /\ make'[c].at = "started" /\ make'[c].num = n /\ make'[c].vms = make[c].vms
  BY <1>2, <1>4 DEF Turns, Ended
<1>7. {v \in VmId : hyp'[v] # None /\ make'[hyp'[v]].num = n} = Machines(n)
  BY <1>1, <1>2, <1>4, SameMachines DEF IInv, Turns, Machines
<1>8. RowOf(c)' /\ StageOf(c)' /\ RouterOf(c)' /\ HoldsOf(c)'
  BY <1>1, <1>2, <1>3, <1>6 DEF RowOf, Sure, StatusAt, StageOf, RouterOf, HoldsOf,
     requests, Bare, Blank, Unforwarded, Complete, Released
<1>9. MachinesOf(c)'
  BY <1>1, <1>2, <1>3, <1>6, <1>7 DEF MachinesOf, Machines, Released
<1>10. Creation(c)'
  BY <1>6, <1>8, <1>9 DEF Creation
<1>11. Number(n)'
  BY <1>1, <1>2, <1>5, SliceOwnNumber
<1>. QED  BY <1>1, <1>2, <1>5, <1>10, <1>11, SliceInv

LEMMA UndoRouterInv ==
  ASSUME Sheltered, IInv, Typed', NEW c \in Creator, UndoRouter(c)
  PROVE  IInv'
<1>1. /\ Live(c) /\ make[c].at = "undoRouter" /\ UNCHANGED <<rows, hyp, requests>>
      /\ Goto(c, "undoRow")
  BY DEF UndoRouter, Undone, AfterUndo, Live, Ended, tables
<1>2. PICK n \in Num : n = make[c].num
  BY <1>1, LiveFacts
<1>3. RowOf(c) /\ StageOf(c) /\ RouterOf(c) /\ MachinesOf(c) /\ HoldsOf(c)
  BY <1>1, LiveFacts
<1>4. Turns(c, "undoRow")
  BY <1>1, GotoTurns DEF IInv, MakeStage
<1>0. TryCleanRouter(n)
  BY <1>2 DEF UndoRouter
<1>5. OwnSlice(c)
  BY <1>0, <1>1, <1>2, <1>4 DEF OwnSlice, Turns, TryCleanRouter
<1>6. /\ make'[c].at = "undoRow" /\ make'[c].num = n /\ make'[c].vms = make[c].vms
  BY <1>2, <1>4 DEF Turns, Ended
<1>7. {v \in VmId : hyp'[v] # None /\ make'[hyp'[v]].num = n} = Machines(n)
  BY <1>1, <1>2, <1>4, SameMachines DEF IInv, Turns, Machines
<1>8. n \notin left' => n \notin left /\ n \notin net' \cup fwd'
  BY <1>0 DEF TryCleanRouter
<1>9. RowOf(c)' /\ StageOf(c)' /\ RouterOf(c)' /\ HoldsOf(c)'
  BY <1>1, <1>2, <1>3, <1>5, <1>6, <1>8 DEF RowOf, Sure, StatusAt, StageOf, RouterOf, HoldsOf,
     requests, Bare, Blank, Unforwarded, Complete, Released, OwnSlice
<1>10. MachinesOf(c)'
  BY <1>1, <1>2, <1>3, <1>6, <1>7, <1>8 DEF MachinesOf, Machines, Released
<1>11. Creation(c)'
  BY <1>6, <1>9, <1>10 DEF Creation
<1>12. Number(n)'
  BY <1>1, <1>2, <1>5, SliceOwnNumber
<1>. QED  BY <1>1, <1>2, <1>5, <1>11, <1>12, SliceInv

LEMMA UndoRowInv ==
  ASSUME Sheltered, IInv, Typed', NEW c \in Creator, UndoRow(c)
  PROVE  IInv'
<1>1. /\ Live(c) /\ make[c].at = "undoRow" /\ UNCHANGED <<net, fwd, left, hyp, requests>>
      /\ Goto(c, "failed")
  BY DEF UndoRow, Undone, AfterUndo, Live, Ended, router
<1>2. PICK n \in Num : n = make[c].num
  BY <1>1, LiveFacts
<1>3. RouterOf(c) /\ MachinesOf(c) /\ TryDropRow(n)
  BY <1>1, <1>2, LiveFacts DEF UndoRow
<1>4. n \notin left => n \notin net \cup fwd /\ Machines(n) = {}
  BY <1>1, <1>2, <1>3 DEF RouterOf, MachinesOf, Released
<1>5. Turns(c, "failed")
  BY <1>1, GotoTurns DEF IInv, MakeStage, Ended
<1>6. OwnSlice(c)
  BY <1>1, <1>2, <1>3, <1>5 DEF OwnSlice, Turns, TryDropRow, IInv, Typed, TypeOK
<1>7. Machines(n)' = Machines(n)
  BY <1>1, <1>5, SameMachines DEF IInv, Turns
<1>8. Number(n)'
  BY <1>1, <1>2, <1>3, <1>4, <1>6, <1>7, DropNumber
<1>9. Creation(c)'
  BY <1>5, FailedCreation DEF Ended
<1>. QED  BY <1>1, <1>2, <1>6, <1>8, <1>9, SliceInv

LEMMA RangeOfAppend ==
  ASSUME NEW S, NEW s \in Seq(S), NEW x \in S
  PROVE  SeqRange(Append(s, x)) = SeqRange(s) \cup {x} /\ Append(s, x) \in Seq(S)
<1>1. /\ Append(s, x) \in Seq(S) /\ DOMAIN Append(s, x) = 1..(Len(s) + 1)
      /\ \A i \in 1..Len(s) : Append(s, x)[i] = s[i]
      /\ Append(s, x)[Len(s) + 1] = x /\ DOMAIN s = 1..Len(s) /\ Len(s) \in Nat
  OBVIOUS
<1>2. 1..(Len(s) + 1) = 1..Len(s) \cup {Len(s) + 1}
  BY <1>1
<1>. QED  BY <1>1, <1>2 DEF SeqRange

\* A machine that is cloned is recorded, unless it could not be configured.
LEMMA CloneInv ==
  ASSUME Sheltered, IInv, Typed', NEW c \in Creator, Clone(c)
  PROVE  IInv'
<1>1. Live(c) /\ make[c].at = "numbered" /\ UNCHANGED <<rows, net, fwd, requests>>
  BY DEF Clone, Live, Ended, tables
<1>2. PICK n \in Num : n = make[c].num
  BY <1>1, LiveFacts
<1>3. /\ RowOf(c) /\ StageOf(c) /\ RouterOf(c) /\ MachinesOf(c) /\ HoldsOf(c)
      /\ make[c] \in Made /\ c # None
  BY <1>1, LiveFacts
<1>4. PICK v \in VmId : v = make[c].next
  BY <1>1 DEF IInv, Typed, NumbersOK
<1>5. PICK vms \in Seq(VmId) : vms = make[c].vms
  BY <1>3 DEF Made
<1>6. Recorded(c) = Append(vms, v)
  BY <1>4, <1>5 DEF Recorded
<1>7. SeqRange(Append(vms, v)) = SeqRange(vms) \cup {v}
  BY RangeOfAppend
<1>8. hyp \in [VmId -> Creator \cup {None}] /\ make \in [Creator -> Made]
  BY DEF IInv, Typed, TypeOK, Made
<1>9. ASSUME \A e \in Creator \ {c} : make'[e] = make[e], make'[c].num = n,
             make'[c].at \notin {"idle"}, left \subseteq left', left' \subseteq left \cup {n},
             hyp' = hyp \/ (hyp[v] = None /\ hyp' = [hyp EXCEPT ![v] = c]), Creation(c)'
      PROVE  IInv'
  <2>1. OwnSlice(c)
    BY <1>1, <1>2, <1>8, <1>9 DEF OwnSlice
  <2>2. Number(n)'
    BY <1>1, <1>2, <2>1, SliceOwnNumber
  <2>. QED  BY <1>1, <1>2, <1>9, <2>1, <2>2, SliceInv
<1>10. CASE /\ hyp[v] = None /\ hyp' = [hyp EXCEPT ![v] = c] /\ UNCHANGED left
            /\ make' = [make EXCEPT
                 ![c].at = IF Len(Recorded(c)) = Size THEN "forwarding" ELSE "cloning",
                 ![c].vms = Recorded(c), ![c].next = 0]
  <2>1. /\ \A e \in Creator \ {c} : make'[e] = make[e]
        /\ make'[c].num = n /\ make'[c].vms = Append(vms, v)
        /\ make'[c].at \in {"forwarding", "cloning"}
        /\ make'[c].at = "forwarding" => Len(Append(vms, v)) = Size
        /\ left' = left
    BY <1>2, <1>3, <1>6, <1>8, <1>10 DEF Made
  <2>2. hyp'[v] = c /\ \A w \in VmId \ {v} : hyp'[w] = hyp[w]
    BY <1>8, <1>10
  <2>3. \A e \in Creator : make'[e].num = make[e].num
    BY <1>2, <2>1
  <2>4. {w \in VmId : hyp'[w] # None /\ make'[hyp'[w]].num = n} \subseteq Machines(n) \cup {v}
    BY <1>8, <2>2, <2>3 DEF Machines
  <2>5. MachinesOf(c)'
    BY <1>2, <1>3, <1>5, <1>7, <2>1, <2>4 DEF MachinesOf, Machines, Released
  <2>6. HoldsOf(c)'
    <3>1. SeqRange(vms) \subseteq VmId
      BY DEF SeqRange
    <3>2. ASSUME NEW w \in SeqRange(vms) PROVE hyp'[w] = c \/ (hyp'[w] = None /\ n \in torn)
      BY <1>1, <1>2, <1>3, <1>5, <2>2, <3>1 DEF HoldsOf, Released
    <3>. QED  BY <1>1, <1>7, <2>1, <2>2, <3>2 DEF HoldsOf, requests
  <2>7. RowOf(c)' /\ StageOf(c)' /\ RouterOf(c)'
    BY <1>1, <1>2, <1>3, <2>1 DEF RowOf, Sure, StatusAt, StageOf, RouterOf,
       Bare, Blank, Unforwarded, Complete
  <2>8. Creation(c)'
    BY <2>1, <2>5, <2>6, <2>7 DEF Creation
  <2>. QED  BY <1>9, <1>10, <2>1, <2>8
<1>11. CASE /\ make' = [make EXCEPT ![c] = CloneFailed(c)]
            /\ \/ hyp[v] = None /\ hyp' = [hyp EXCEPT ![v] = c] /\ left' = left \cup {n}
               \/ UNCHANGED <<hyp, left>>
  <2>1. /\ \A e \in Creator \ {c} : make'[e] = make[e]
        /\ make'[c].num = n /\ make'[c].vms = vms /\ make'[c].at = "undoVms"
    BY <1>2, <1>3, <1>5, <1>8, <1>11 DEF Made, CloneFailed
  <2>2. hyp' = hyp \/ (hyp'[v] = c /\ \A w \in VmId \ {v} : hyp'[w] = hyp[w])
    BY <1>8, <1>11
  <2>3. n \notin left' => {w \in VmId : hyp'[w] # None /\ make'[hyp'[w]].num = n} = Machines(n)
    <3>1. \A e \in Creator : make'[e].num = make[e].num
      BY <1>2, <2>1
    <3>. QED  BY <1>8, <1>11, <3>1 DEF Machines
  <2>4. MachinesOf(c)'
    BY <1>2, <1>3, <1>5, <1>11, <2>1, <2>3 DEF MachinesOf, Machines, Released
  <2>5. HoldsOf(c)'
    <3>1. SeqRange(vms) \subseteq VmId
      BY DEF SeqRange
    <3>2. ASSUME NEW w \in SeqRange(vms) PROVE hyp'[w] = c \/ (hyp'[w] = None /\ n \in torn)
      BY <1>1, <1>2, <1>3, <1>5, <2>2, <3>1 DEF HoldsOf, Released
    <3>. QED  BY <1>1, <2>1, <3>2 DEF HoldsOf, requests
  <2>6. RowOf(c)' /\ StageOf(c)' /\ RouterOf(c)'
    BY <1>1, <1>2, <1>3, <1>11, <2>1 DEF RowOf, Sure, StatusAt, StageOf, RouterOf,
       Bare, Blank, Unforwarded, Complete
  <2>7. Creation(c)'
    BY <2>1, <2>4, <2>5, <2>6 DEF Creation
  <2>. QED  BY <1>9, <1>11, <2>1, <2>7
<1>. QED  BY <1>2, <1>4, <1>10, <1>11 DEF Clone

\* A rollback finds its own machines under the ids it recorded, or nothing.
LEMMA UndoVmsInv ==
  ASSUME Sheltered, IInv, Typed', NEW c \in Creator, UndoVms(c)
  PROVE  IInv' /\ OwnSlice(c)
<1>1. /\ Live(c) /\ make[c].at = "undoVms" /\ UNCHANGED <<rows, net, fwd, requests>>
      /\ Goto(c, "undoRouter")
  BY DEF UndoVms, Undone, AfterUndo, Live, Ended, tables
<1>2. PICK n \in Num : n = make[c].num
  BY <1>1, LiveFacts
<1>3. /\ RowOf(c) /\ StageOf(c) /\ RouterOf(c) /\ MachinesOf(c) /\ HoldsOf(c)
      /\ make[c] \in Made
  BY <1>1, LiveFacts
<1>4. PICK kept \in SUBSET SeqRange(make[c].vms) :
        /\ left' = IF kept = {} THEN left ELSE left \cup {n}
        /\ hyp' = [v \in VmId |-> IF v \in SeqRange(make[c].vms) \ kept THEN None ELSE hyp[v]]
  BY <1>2 DEF UndoVms, TryRelease
<1>5. Turns(c, "undoRouter")
  BY <1>1, GotoTurns DEF IInv, MakeStage
<1>6. \A v \in VmId : hyp'[v] = hyp[v] \/ (hyp[v] = c /\ hyp'[v] = None)
  BY <1>1, <1>3, <1>4 DEF HoldsOf, Released
<1>7. OwnSlice(c)
  BY <1>1, <1>2, <1>4, <1>5, <1>6 DEF OwnSlice, Turns
<1>8. /\ make'[c].at = "undoRouter" /\ make'[c].num = n /\ make'[c].vms = make[c].vms
  BY <1>2, <1>5 DEF Turns, Ended
<1>9. n \notin left' => {v \in VmId : hyp'[v] # None /\ make'[hyp'[v]].num = n} = {}
  <2>1. ASSUME n \notin left', NEW v \in VmId, hyp'[v] # None, make'[hyp'[v]].num = n PROVE FALSE
    <3>1. hyp'[v] = hyp[v] /\ v \notin SeqRange(make[c].vms) /\ n \notin left
      BY <1>4, <2>1
    <3>2. hyp[v] \in Creator /\ make'[hyp[v]].num = make[hyp[v]].num
      BY <1>5, <2>1, <3>1 DEF Turns, IInv, Typed, TypeOK
    <3>. QED  BY <1>2, <1>3, <2>1, <3>1, <3>2 DEF MachinesOf, Machines
  <2>. QED  BY <2>1
<1>10. RowOf(c)' /\ StageOf(c)' /\ RouterOf(c)' /\ HoldsOf(c)'
  BY <1>1, <1>2, <1>3, <1>7, <1>8 DEF RowOf, Sure, StatusAt, StageOf, RouterOf, HoldsOf,
     Bare, Blank, Unforwarded, Complete, Released, OwnSlice
<1>11. MachinesOf(c)'
  BY <1>2, <1>8, <1>9 DEF MachinesOf, Machines
<1>12. Creation(c)'
  BY <1>8, <1>10, <1>11 DEF Creation
<1>13. Number(n)'
  BY <1>1, <1>2, <1>7, SliceOwnNumber
<1>. QED  BY <1>1, <1>2, <1>7, <1>12, <1>13, SliceInv

\* The row that says "running" is complete.
LEMMA SavedNumber ==
  ASSUME IInv, NEW c \in Creator, OwnSlice(c), make[c].at \in {"ready", "resaving"},
         NEW n \in Num, n = make[c].num, make'[c].at \in {"resaving"} \cup Ended,
         UNCHANGED <<net, fwd, left, hyp>>, rows'[n] = Entry(n, "running", make[c].vms, c)
  PROVE  Number(n)'
<1>1. /\ RowOf(c) /\ StageOf(c) /\ RouterOf(c) /\ MachinesOf(c) /\ HoldsOf(c) /\ Number(n)
      /\ make[c] \in Made /\ c # None
  BY LiveFacts DEF OwnSlice
<1>2. Len(make[c].vms) = Size /\ make[c].vms # <<>>
  <2>1. Len(make[c].vms) = Size
    BY <1>1 DEF StageOf, Complete
  <2>. QED  BY <2>1, LifecycleAssumption
<1>3. /\ rows'[n].by = c /\ rows'[n].status = "running" /\ rows'[n].vms = make[c].vms
      /\ rows[n] # NoRow => rows'[n].id = rows[n].id
  BY <1>2 DEF Entry
<1>4. rows'[n] # NoRow
  BY <1>3 DEF NoRow
<1>5. IdOf(n)'
  BY <1>1, <1>3 DEF IdOf, Number, RowOf, Sure, NoRow
<1>6. {v \in VmId : hyp'[v] # None /\ make'[hyp'[v]].num = n} = Machines(n)
  BY SameMachines DEF IInv, OwnSlice, Machines
<1>7. RunningNumber(n)'
  BY <1>1, <1>2, <1>3, <1>6
     DEF RunningNumber, Settled, HoldsOf, MachinesOf, RouterOf, Machines, Released, OwnSlice, requests
<1>. QED  BY <1>4, <1>5, <1>7 DEF Number, CleanNumber

LEMMA FinalSaveInv ==
  ASSUME Sheltered, IInv, Typed', NEW c \in Creator, FinalSave(c)
  PROVE  IInv'
<1>1. Live(c) /\ make[c].at = "ready" /\ UNCHANGED <<net, fwd, left, hyp, requests>>
  BY DEF FinalSave, Live, Ended, router
<1>2. PICK n \in Num : n = make[c].num
  BY <1>1, LiveFacts
<1>3. /\ RowOf(c) /\ StageOf(c) /\ RouterOf(c) /\ MachinesOf(c) /\ HoldsOf(c)
      /\ make[c] \in Made /\ c # None
  BY <1>1, LiveFacts
<1>4. CASE UNCHANGED rows /\ Goto(c, "failed")
  BY <1>1, <1>4, QuietInv DEF MakeStage, Ended
<1>5. CASE /\ Save(n, "running", make[c].vms, c)
           /\ Goto(c, IF c \in Queued THEN "done" ELSE "resaving")
  <2>1. PICK stage \in {"done", "resaving"} :
          Goto(c, stage) /\ stage = IF c \in Queued THEN "done" ELSE "resaving"
    BY <1>5
  <2>2. Turns(c, stage)
    BY <2>1, GotoTurns DEF IInv, MakeStage, Ended
  <2>3. rows' = [rows EXCEPT ![n] = Entry(n, "running", make[c].vms, c)]
    BY <1>3, <1>5, SaveWrites DEF IInv, Made
  <2>4. /\ rows'[n] = Entry(n, "running", make[c].vms, c)
        /\ \A m \in Num \ {n} : rows'[m] = rows[m]
    BY <2>3 DEF IInv, Typed, TypeOK
  <2>5. OwnSlice(c)
    BY <1>1, <1>2, <2>2, <2>4 DEF OwnSlice, Turns
  <2>6. Number(n)'
    BY <1>1, <1>2, <2>2, <2>4, <2>5, SavedNumber DEF Turns, Ended
  <2>7. Creation(c)'
    <3>1. CASE stage = "done"
      BY <2>2, <3>1, FailedCreation DEF Ended
    <3>2. CASE stage = "resaving"
      <4>1. /\ make'[c].at = "resaving" /\ make'[c].num = n /\ make'[c].vms = make[c].vms
            /\ c \notin Queued
        BY <1>2, <2>1, <2>2, <3>2 DEF Turns, Ended
      <4>2. Len(make[c].vms) = Size /\ make[c].vms # <<>>
        <5>1. Len(make[c].vms) = Size
          BY <1>1, <1>3 DEF StageOf, Complete
        <5>. QED  BY <5>1, LifecycleAssumption
      <4>3. rows'[n].by = c /\ rows'[n].status = "running" /\ rows'[n].vms = make[c].vms
        BY <2>4, <4>2 DEF Entry
      <4>4. {v \in VmId : hyp'[v] # None /\ make'[hyp'[v]].num = n} = Machines(n)
        BY <1>1, <1>2, <2>2, SameMachines DEF IInv, Turns, Machines
      <4>5. RowOf(c)' /\ StageOf(c)' /\ RouterOf(c)' /\ HoldsOf(c)'
        BY <1>1, <1>2, <1>3, <4>1, <4>2, <4>3 DEF RowOf, Sure, StatusAt, StageOf, RouterOf, HoldsOf,
           requests, Bare, Blank, Unforwarded, Complete, Released
      <4>6. MachinesOf(c)'
        BY <1>1, <1>2, <1>3, <4>1, <4>4 DEF MachinesOf, Machines, Released
      <4>. QED  BY <4>1, <4>5, <4>6 DEF Creation
    <3>. QED  BY <3>1, <3>2
  <2>. QED  BY <1>1, <1>2, <2>5, <2>6, <2>7, SliceInv
<1>. QED  BY <1>2, <1>4, <1>5 DEF FinalSave

\* The entry saved once more is the entry, unless an administrator removed it.
LEMMA ResaveInv ==
  ASSUME Sheltered, IInv, Typed', NEW c \in Creator, Resave(c)
  PROVE  IInv'
<1>1. /\ Live(c) /\ make[c].at = "resaving" /\ UNCHANGED <<net, fwd, left, hyp, requests>>
      /\ Goto(c, "done")
  BY DEF Resave, Live, Ended, router
<1>2. PICK n \in Num : n = make[c].num
  BY <1>1, LiveFacts
<1>3. RowOf(c) /\ StageOf(c) /\ make[c] \in Made /\ c # None /\ Number(n)
  BY <1>1, <1>2, LiveFacts
<1>4. Turns(c, "done")
  BY <1>1, GotoTurns DEF IInv, MakeStage, Ended
<1>5. Creation(c)'
  BY <1>4, FailedCreation DEF Ended
<1>6. CASE Save(n, "running", make[c].vms, c)
  <2>1. rows' = [rows EXCEPT ![n] = Entry(n, "running", make[c].vms, c)]
    BY <1>3, <1>6, SaveWrites DEF IInv, Made
  <2>2. /\ rows'[n] = Entry(n, "running", make[c].vms, c)
        /\ \A m \in Num \ {n} : rows'[m] = rows[m]
    BY <2>1 DEF IInv, Typed, TypeOK
  <2>3. OwnSlice(c)
    BY <1>1, <1>2, <1>4, <2>2 DEF OwnSlice, Turns, Ended
  <2>4. Number(n)'
    BY <1>1, <1>2, <1>4, <2>2, <2>3, SavedNumber DEF Turns, Ended
  <2>5. Sure(n) => rows' = rows
    <3>1. SUFFICES ASSUME Sure(n) PROVE rows' = rows
      OBVIOUS
    <3>2. /\ rows[n].by = c /\ rows[n].status = "running" /\ rows[n].vms = make[c].vms
      BY <1>1, <1>2, <1>3, <3>1 DEF RowOf, StatusAt
    <3>3. rows[n] # NoRow /\ rows[n] \in Row
      BY <1>3, <3>2 DEF NoRow, IInv, Typed, TypeOK
    <3>4. rows[n] = [id |-> rows[n].id, status |-> "running", vms |-> rows[n].vms, by |-> c]
      BY <3>2, <3>3 DEF Row
    <3>5. Entry(n, "running", make[c].vms, c) = rows[n]
      BY <3>2, <3>3, <3>4 DEF Entry
    <3>. QED  BY <2>1, <3>5 DEF IInv, Typed, TypeOK
  <2>. QED  BY <1>1, <1>2, <1>5, <2>3, <2>4, <2>5, SliceInv
<1>7. CASE UNCHANGED rows
  <2>1. OwnSlice(c)
    BY <1>1, <1>2, <1>4, <1>7 DEF OwnSlice, Turns, Ended
  <2>2. Machines(n)' = Machines(n)
    BY <1>1, <1>4, SameMachines DEF IInv, Turns
  <2>3. CleanNumber(n)' /\ IdOf(n)'
    BY <1>1, <1>3, <1>7, <2>2 DEF Number, CleanNumber, IdOf
  <2>4. RunningNumber(n)'
    <3>1. SUFFICES ASSUME rows[n].status = "running" PROVE RunningNumber(n)'
      BY <1>7 DEF RunningNumber
    <3>2. RunningNumber(n)
      BY <1>3 DEF Number
    <3>3. /\ make'[rows[n].by].at \in {"resaving"} \cup Ended
          /\ \A v \in SeqRange(rows[n].vms) : hyp'[v] = rows[n].by \/ n \in torn'
      BY <2>1, <3>1, <3>2, SliceListed
    <3>. QED  BY <1>1, <1>7, <2>2, <3>1, <3>2, <3>3 DEF RunningNumber, Settled
  <2>5. Number(n)'
    BY <2>3, <2>4 DEF Number
  <2>. QED  BY <1>1, <1>2, <1>5, <1>7, <2>1, <2>5, SliceInv
<1>. QED  BY <1>2, <1>6, <1>7 DEF Resave

\* A number without a row is clean when it is handed out.
LEMMA AllocateInv ==
  ASSUME Sheltered, IInv, Typed', NEW c \in Creator, Allocate(c)
  PROVE  IInv'
<1>1. /\ make[c].at = "idle" /\ make[c].num = 0 /\ make[c].vms = <<>> /\ make[c] \in Made
      /\ c # None /\ UNCHANGED <<serial, net, fwd, left, hyp, lock, queue, del, dep>>
  BY LifecycleAssumption DEF Allocate, router, IInv, Typed, TypeOK, NumbersOK, Creation, Made
<1>2. PICK n \in Num : n = FirstGap({rows[m].id : m \in Used})
  BY <1>1, GapInRange DEF IInv
<1>3. \A e \in Creator : e # c => make'[e] = make[e]
  BY DEF Allocate, Goto, IInv, Typed, TypeOK
<1>4. make \in [Creator -> Made] /\ hyp \in [VmId -> Creator \cup {None}]
  BY DEF IInv, Typed, TypeOK, Made
<1>5. \A v \in VmId : hyp[v] # c
  BY <1>1, NumIsNat DEF IInv, Typed, NumbersOK
<1>6. ASSUME NEW m PROVE {v \in VmId : hyp'[v] # None /\ make'[hyp'[v]].num = m} = Machines(m)
  BY <1>1, <1>3, <1>4, <1>5 DEF Machines
<1>7. ASSUME NEW e \in Creator, Settled(e) PROVE make'[e].at \in {"resaving"} \cup Ended
  BY <1>1, <1>3, <1>7 DEF Settled, Ended
<1>8. CASE rows[n] # NoRow
  <2>1. Goto(c, "failed") /\ UNCHANGED <<rows, torn>>
    BY <1>2, <1>8 DEF Allocate
  <2>2. Turns(c, "failed")
    BY <2>1, GotoTurns DEF IInv, MakeStage, Ended
  <2>3. ASSUME NEW e \in Creator PROVE Creation(e)'
    <3>1. CASE e = c
      BY <2>2, <3>1, FailedCreation DEF Ended
    <3>2. CASE e # c
      BY <1>1, <1>3, <1>6, <2>1, <3>2
         DEF IInv, Creation, Live, RowOf, StageOf, RouterOf, MachinesOf, HoldsOf, Sure, Machines
    <3>. QED  BY <3>1, <3>2
  <2>4. ASSUME NEW m \in Num PROVE Number(m)'
    <3>1. Number(m) /\ (rows[m].status = "running" => rows[m].by \in Creator)
      BY DEF IInv, Typed, TypeOK, Row, NoRow
    <3>2. CleanNumber(m)' /\ IdOf(m)'
      BY <1>1, <1>6, <2>1, <3>1 DEF Number, CleanNumber, IdOf, Machines
    <3>3. RunningNumber(m)'
      BY <1>1, <1>6, <1>7, <2>1, <3>1 DEF Number, RunningNumber, Machines, Settled
    <3>. QED  BY <3>2, <3>3 DEF Number
  <2>5. ASSUME NEW p \in Deployer PROVE Deployment(p)'
    BY <1>1, <1>7, <2>1 DEF IInv, Typed, NumbersOK, Deployment, Settled, Sure, Row
  <2>6. ASSUME NEW d \in Deleter PROVE Deletion(d)'
    BY <1>1, <1>6, <2>1 DEF IInv, Deletion, Active, Machines
  <2>7. Alone'
    BY <1>1, <1>3, <2>2 DEF IInv, Alone, Live, Turns, Active, Ended
  <2>. QED  BY <2>1, <2>3, <2>4, <2>5, <2>6, <2>7 DEF IInv
<1>9. CASE rows[n] = NoRow
  <2>1. /\ rows' = [rows EXCEPT ![n] = [id |-> NewId(n), status |-> "allocating",
                                        vms |-> <<>>, by |-> c]]
        /\ make' = [make EXCEPT ![c].at = "allocated", ![c].num = n]
        /\ torn' = torn \ {n}
    BY <1>2, <1>9 DEF Allocate
  <2>2. /\ rows'[n].by = c /\ rows'[n].status = "allocating" /\ rows'[n].vms = <<>>
        /\ rows'[n].id = n /\ rows'[n] # NoRow
        /\ \A m \in Num \ {n} : rows'[m] = rows[m]
    BY <1>1, <2>1 DEF NewId, NoRow, IInv, Typed, TypeOK
  <2>3. make'[c].at = "allocated" /\ make'[c].num = n /\ make'[c].vms = <<>>
    BY <1>1, <1>4, <2>1 DEF Made
  <2>4. n \notin left => n \notin net \cup fwd /\ Machines(n) = {}
    BY <1>9 DEF IInv, Number, CleanNumber
  <2>5. ASSUME NEW e \in Creator, Live(e) PROVE e # c /\ (Sure(make[e].num) => make[e].num # n)
    BY <1>1, <1>9, <2>5, LiveFacts, LifecycleAssumption DEF RowOf, NoRow, Live
  <2>6. ASSUME NEW e \in Creator, Live(e) PROVE ~QueueOnly
    BY <2>6 DEF Allocate, QueueOnly
  <2>7. ASSUME NEW e \in Creator PROVE Creation(e)'
    <3>1. CASE e = c
      <4>1. RowOf(c)' /\ StageOf(c)' /\ RouterOf(c)' /\ HoldsOf(c)'
        BY <1>1, <2>2, <2>3, <2>4 DEF RowOf, StatusAt, StageOf, RouterOf, HoldsOf, SeqRange, Bare,
           Blank, Unforwarded, Complete
      <4>2. MachinesOf(c)'
        BY <1>1, <1>6, <2>3, <2>4 DEF MachinesOf, Machines
      <4>. QED  BY <2>3, <3>1, <4>1, <4>2 DEF Creation
    <3>2. CASE e # c /\ ~Live(e)
      BY <1>3, <3>2 DEF IInv, Creation, Live
    <3>3. CASE e # c /\ Live(e)
      <4>1. /\ make'[e] = make[e] /\ torn' = {} /\ torn = {}
            /\ make[e].num \in Num /\ (Sure(make[e].num) => rows'[make[e].num] = rows[make[e].num])
        BY <1>3, <2>1, <2>2, <2>5, <2>6, <3>3, LiveFacts DEF IInv, Sheltered
      <4>2. RowOf(e) /\ StageOf(e) /\ RouterOf(e) /\ MachinesOf(e) /\ HoldsOf(e)
        BY <3>3, LiveFacts
      <4>3. RowOf(e)' /\ StageOf(e)' /\ RouterOf(e)' /\ HoldsOf(e)'
        BY <1>1, <4>1, <4>2 DEF RowOf, StageOf, RouterOf, HoldsOf, Sure
      <4>4. {v \in VmId : hyp'[v] # None /\ make'[hyp'[v]].num = make[e].num} = Machines(make[e].num)
        BY <1>6
      <4>5. MachinesOf(e)'
        BY <1>1, <4>1, <4>2, <4>4 DEF MachinesOf, Machines
      <4>. QED  BY <3>3, <4>1, <4>3, <4>5 DEF Creation, Live
    <3>. QED  BY <3>1, <3>2, <3>3
  <2>8. ASSUME NEW m \in Num PROVE Number(m)'
    <3>1. CASE m = n
      BY <2>2, <3>1 DEF Number, CleanNumber, RunningNumber, IdOf
    <3>2. CASE m # n
      <4>1. /\ Number(m) /\ rows'[m] = rows[m] /\ (m \in torn' <=> m \in torn)
            /\ rows[m].status = "running" => rows[m].by \in Creator
        BY <2>1, <2>2, <3>2 DEF IInv, Typed, TypeOK, Row, NoRow
      <4>2. CleanNumber(m)' /\ IdOf(m)'
        BY <1>1, <1>6, <4>1 DEF Number, CleanNumber, IdOf, Machines
      <4>3. RunningNumber(m)'
        BY <1>1, <1>6, <1>7, <4>1 DEF Number, RunningNumber, Machines, Settled
      <4>. QED  BY <4>2, <4>3 DEF Number
    <3>. QED  BY <3>1, <3>2
  <2>9. ASSUME NEW p \in Deployer, dep[p].at \in Deploying PROVE Deployment(p)'
    <3>1. Deployment(p) /\ dep[p].num \in Num /\ dep[p].row.by \in Creator
      BY <2>9 DEF IInv, Typed, NumbersOK, Row
    <3>2. Sure(dep[p].num) => dep[p].num # n
      BY <1>9, <2>9, <3>1 DEF Deployment, NoRow
    <3>3. Sure(dep[p].num) => rows'[dep[p].num] = rows[dep[p].num]
      BY <2>2, <3>1, <3>2
    <3>4. Settled(dep[p].row.by)' <=> make'[dep[p].row.by].at \in {"resaving"} \cup Ended
      BY <1>1 DEF Settled
    <3>. QED  BY <1>1, <1>7, <2>9, <3>1, <3>3, <3>4 DEF Deployment, Sure
  <2>10. ASSUME NEW p \in Deployer, dep[p].at \notin Deploying PROVE Deployment(p)'
    BY <1>1, <2>10 DEF Deployment
  <2>11. ASSUME NEW d \in Deleter PROVE Deletion(d)'
    <3>1. SUFFICES ASSUME QueueOnly, Active(d) PROVE Deletion(d)'
      BY <1>1 DEF Deletion, Active
    <3>2. Deletion(d) /\ del[d].num \in Num
      BY <3>1 DEF IInv, Typed, NumbersOK, Active
    <3>3. del[d].num # n /\ rows'[del[d].num] = rows[del[d].num]
      BY <1>9, <2>2, <3>1, <3>2 DEF Deletion, NoRow
    <3>4. {v \in VmId : hyp'[v] # None /\ make'[hyp'[v]].num = del[d].num} = Machines(del[d].num)
      BY <1>6
    <3>5. del[d].num \in torn' <=> del[d].num \in torn
      BY <2>1, <3>3
    <3>. QED  BY <1>1, <3>2, <3>3, <3>4, <3>5 DEF Deletion, Active, Machines
  <2>12. Alone'
    <3>1. \A e \in Creator : Live(e)' => e = c \/ Live(e)
      BY <1>3 DEF Live
    <3>. QED  BY <1>1, <2>6, <3>1 DEF IInv, Alone, Active
  <2>13. NoDeletion => torn' = {}
    BY <2>1 DEF IInv
  <2>. QED  BY <2>7, <2>8, <2>9, <2>10, <2>11, <2>12, <2>13 DEF IInv
<1>. QED  BY <1>8, <1>9

LEMMA CreatorInv ==
  ASSUME Sheltered, IInv, NEW c \in Creator, CreatorStep(c) \/ Cancel(c)
  PROVE  IInv'
<1>1. Typed'
  BY CreatorTyped DEF IInv
<1>2. CASE DrawVmId(c)
  <2>1. \/ DrawVmId(c) /\ make' = [make EXCEPT ![c].at = "numbered", ![c].next = NextId]
        \/ DrawVmId(c) /\ Goto(c, "undoVms")
    BY <1>2 DEF DrawVmId
  <2>. QED  BY <1>1, <2>1, RecordInv, QuietStepsInv
<1>. QED  BY <1>1, <1>2, AllocateInv, SaveInitialInv, QuietStepsInv, SetupInv, CloneInv, ForwardInv,
             UndoVmsInv, UndoRouterInv, UndoRowInv, FinalSaveInv, ResaveInv, RecordInv
          DEF CreatorStep

-----------------------------------------------------------------------------
(* The steps of administrators, deployments and deletions                  *)

\* Where a row changes an administrator has acted, and nothing is said of it.
LEMMA RowsInv ==
  ASSUME IInv, Typed', UNCHANGED <<net, fwd, hyp, torn, make, del>>, left \subseteq left',
         \A m \in Num : \/ rows'[m] = rows[m] /\ (m \in left' <=> m \in left)
                        \/ Admin /\ m \in left' /\ RunningNumber(m)',
         \A p \in Deployer : Deployment(p)'
  PROVE  IInv'
<1>1. \A m \in Num : Machines(m)' = Machines(m)
  BY SameMachines DEF IInv
<1>2. ASSUME NEW c \in Creator PROVE Creation(c)'
  <2>1. CASE ~Live(c)
    BY <2>1 DEF IInv, Creation, Live
  <2>2. CASE Live(c)
    <3>1. /\ RowOf(c) /\ StageOf(c) /\ RouterOf(c) /\ MachinesOf(c) /\ HoldsOf(c)
          /\ make[c].num \in Num
      BY <2>2, LiveFacts
    <3>2. RowOf(c)' /\ StageOf(c)' /\ RouterOf(c)' /\ HoldsOf(c)'
      BY <3>1 DEF RowOf, StageOf, RouterOf, HoldsOf, Sure
    <3>3. {v \in VmId : hyp'[v] # None /\ make'[hyp'[v]].num = make[c].num} = Machines(make[c].num)
      BY DEF Machines
    <3>4. MachinesOf(c)'
      BY <3>1, <3>3 DEF MachinesOf, Machines
    <3>. QED  BY <2>2, <3>2, <3>4 DEF Creation, Live
  <2>. QED  BY <2>1, <2>2
<1>3. ASSUME NEW m \in Num PROVE Number(m)'
  <2>1. Number(m)
    BY DEF IInv
  <2>2. CASE rows'[m] = rows[m] /\ (m \in left' <=> m \in left)
    <3>1. CleanNumber(m)' /\ IdOf(m)'
      BY <1>1, <2>1, <2>2 DEF Number, CleanNumber, IdOf
    <3>2. RunningNumber(m)'
      BY <1>1, <2>1, <2>2 DEF Number, RunningNumber, Settled
    <3>. QED  BY <3>1, <3>2 DEF Number
  <2>3. CASE Admin /\ m \in left' /\ RunningNumber(m)'
    BY <2>3 DEF Number, CleanNumber, IdOf
  <2>. QED  BY <2>2, <2>3
<1>4. ASSUME NEW d \in Deleter PROVE Deletion(d)'
  <2>1. SUFFICES ASSUME QueueOnly, Active(d) PROVE Deletion(d)'
    BY DEF Deletion, Active
  <2>2. Deletion(d) /\ del[d].num \in Num
    BY <2>1 DEF IInv, Typed, NumbersOK, Active
  <2>3. /\ rows'[del[d].num] = rows[del[d].num]
        /\ del[d].num \in left' <=> del[d].num \in left
    BY <2>1, <2>2 DEF QueueOnly
  <2>4. {v \in VmId : hyp'[v] # None /\ make'[hyp'[v]].num = del[d].num} = Machines(del[d].num)
    BY DEF Machines
  <2>. QED  BY <2>2, <2>3, <2>4 DEF Deletion, Active, Machines
<1>5. Alone'
  BY DEF IInv, Alone, Live, Active
<1>. QED  BY <1>2, <1>3, <1>4, <1>5 DEF IInv

LEMMA ForceInv == ASSUME IInv, NEW n \in Num, ForceDelete(n) PROVE IInv'
<1>1. /\ Typed' /\ Admin /\ left' = left \cup {n} /\ rows'[n] = NoRow
      /\ \A m \in Num \ {n} : rows'[m] = rows[m]
      /\ UNCHANGED <<net, fwd, hyp, torn, make, del, dep>>
  BY ForceTyped DEF ForceDelete, requests, IInv, Typed, TypeOK
<1>2. RunningNumber(n)'
  BY <1>1 DEF RunningNumber, NoRow
<1>3. ASSUME NEW p \in Deployer PROVE Deployment(p)'
  <2>1. Deployment(p) /\ (dep[p].at \in Deploying => dep[p].num \in Num)
    BY DEF IInv, Typed, NumbersOK
  <2>. QED  BY <1>1, <2>1 DEF Deployment, Settled, Sure
<1>. QED  BY <1>1, <1>2, <1>3, RowsInv

LEMMA DeployerInv ==
  ASSUME Sheltered, IInv, NEW p \in Deployer,
         SaveDeployment(p) \/ AbandonDeployment(p) \/ \E n \in Num : Deploy(p, n)
  PROVE  IInv'
<1>1. Typed'
  BY DeployerTyped DEF IInv
<1>2. UNCHANGED <<net, fwd, hyp, left, torn, make, del>> /\ \A q \in Deployer \ {p} : dep'[q] = dep[q]
  BY DEF SaveDeployment, AbandonDeployment, Deploy, DeploymentEnds, router, IInv, Typed, TypeOK
<1>3. NoDeletion /\ torn = {}
  BY DEF Sheltered, QueueOnly, IInv
<1>4. ASSUME \A m \in Num : rows'[m] = rows[m] \/ ~Sure(m), NEW q \in Deployer \ {p}
      PROVE  Deployment(q)'
  <2>1. Deployment(q) /\ (dep[q].at \in Deploying => dep[q].num \in Num)
    BY DEF IInv, Typed, NumbersOK
  <2>. QED  BY <1>2, <1>4, <2>1 DEF Deployment, Settled, Sure
<1>5. ASSUME UNCHANGED rows, Deployment(p)' PROVE IInv'
  BY <1>1, <1>2, <1>4, <1>5, RowsInv
<1>6. ASSUME DeploymentEnds(p) PROVE Deployment(p)'
  BY <1>6 DEF DeploymentEnds, Deployment, Deploying, IInv, Typed, TypeOK
<1>7. CASE AbandonDeployment(p)
  BY <1>5, <1>6, <1>7 DEF AbandonDeployment, tables
<1>8. ASSUME NEW n \in Num, Deploy(p, n) PROVE IInv'
  <2>1. /\ dep'[p] = [at |-> "deploying", num |-> n, row |-> rows[n]]
        /\ rows[n].status = "running" /\ UNCHANGED rows
    BY <1>8 DEF Deploy, tables, IInv, Typed, TypeOK
  <2>2. RunningNumber(n)
    BY DEF IInv, Number
  <2>3. Deployment(p)'
    BY <1>2, <1>3, <2>1, <2>2 DEF RunningNumber, Deployment, Settled
  <2>. QED  BY <1>5, <2>1, <2>3
<1>9. CASE SaveDeployment(p)
  <2>. PICK n \in Num, row \in Row : n = dep[p].num /\ row = dep[p].row /\ dep[p].at \in Deploying
    BY <1>9 DEF SaveDeployment, IInv, Typed, NumbersOK
  <2>1. /\ row.status = "running" /\ Settled(row.by) /\ Len(row.vms) = Size
        /\ \A v \in SeqRange(row.vms) : hyp[v] = row.by
        /\ Sure(n) => /\ rows[n].status = "running" /\ rows[n].vms = row.vms
                      /\ rows[n].by = row.by
    BY DEF IInv, Deployment
  <2>2. ASSUME \A m \in Num : rows'[m] = rows[m] \/ ~Sure(m) PROVE Deployment(p)'
    <3>1. CASE DeploymentEnds(p)
      BY <1>6, <3>1
    <3>2. CASE dep' = [dep EXCEPT ![p].at = "installing"]
      <4>1. dep'[p].num = n /\ dep'[p].row = row
        BY <3>2 DEF IInv, Typed, TypeOK
      <4>. QED  BY <1>2, <2>1, <2>2, <4>1 DEF Deployment, Settled, Sure
    <3>. QED  BY <1>9, <3>1, <3>2 DEF SaveDeployment
  <2>3. CASE UNCHANGED rows
    BY <1>5, <2>2, <2>3
  <2>4. CASE Save(n, row.status, row.vms, row.by)
    <3>. DEFINE r == Entry(n, row.status, row.vms, row.by)
    <3>1. rows' = [rows EXCEPT ![n] = r] /\ rows \in [Num -> Row \cup {NoRow}]
      BY <2>4, SaveWrites DEF Row, IInv, Typed, TypeOK
    <3>2. row.vms # <<>>
      BY <2>1, LifecycleAssumption
    <3>3. r = [id |-> IF rows[n] = NoRow THEN serial + 1 ELSE rows[n].id, status |-> "running",
               vms |-> row.vms, by |-> row.by]
      BY <2>1, <3>2 DEF Entry
    <3>. HIDE DEF r
    <3>4. CASE Sure(n)
      <4>1. rows[n] # NoRow /\ rows[n] \in Row
        BY <2>1, <3>1, <3>4 DEF NoRow
      <4>2. rows[n] = [id |-> rows[n].id, status |-> "running", vms |-> row.vms, by |-> row.by]
        BY <2>1, <3>4, <4>1 DEF Row
      <4>3. rows' = rows
        BY <3>1, <3>3, <4>1, <4>2
      <4>. QED  BY <1>5, <2>2, <4>3
    <3>5. CASE ~Sure(n)
      <4>1. rows'[n] = r /\ \A m \in Num \ {n} : rows'[m] = rows[m]
        BY <3>1
      <4>2. r.status = "running" /\ r.vms = row.vms /\ r.by = row.by
        BY <3>3
      <4>3. n \in left /\ Admin
        BY <3>5 DEF Sure
      <4>4. RunningNumber(n)'
        BY <1>2, <2>1, <4>1, <4>2, <4>3 DEF RunningNumber, Settled
      <4>5. \A q \in Deployer : Deployment(q)'
        BY <1>4, <2>2, <3>5, <4>1
      <4>. QED  BY <1>1, <1>2, <4>1, <4>3, <4>4, <4>5, RowsInv
    <3>. QED  BY <3>4, <3>5
  <2>. QED  BY <1>9, <2>3, <2>4 DEF SaveDeployment
<1>. QED  BY <1>7, <1>8, <1>9

\* A deletion changes the entries of a number that no creation works on, and marks
\* the numbers that lose machines.
DeletionSlice(d, n) ==
  /\ UNCHANGED <<make, dep>>
  /\ \A e \in Deleter \ {d} : del'[e] = del[e]
  /\ rows[n].status = "running" \/ UNCHANGED <<rows, net, fwd, left>>
  /\ Active(d)' => \A e \in Deleter \ {d} : ~Active(e)
  /\ (\A e \in Deleter \ {d} : ~Active(e)) \/ UNCHANGED <<rows, net, fwd, left, hyp, torn>>
  /\ \A m \in Num \ {n} : rows'[m] = rows[m] /\ (m \in left' <=> m \in left)
  /\ rows'[n] = rows[n] \/ rows'[n] = NoRow
  /\ net' \subseteq net /\ fwd' \subseteq fwd /\ left \subseteq left' /\ torn \subseteq torn'
  /\ \A m \in Num \ {n} : (m \in net' <=> m \in net) /\ (m \in fwd' <=> m \in fwd)
  /\ \A v \in VmId : \/ hyp'[v] = hyp[v]
                     \/ hyp[v] # None /\ hyp'[v] = None /\ make[hyp[v]].num \in torn'

LEMMA DeletionInv ==
  ASSUME QueueOnly, IInv, Typed', NEW d \in Deleter, NEW n \in Num, DeletionSlice(d, n),
         rows'[n] = NoRow => CleanNumber(n)', Deletion(d)'
  PROVE  IInv'
<1>1. \A m : Machines(m)' \subseteq Machines(m)
  BY DEF DeletionSlice, Machines
<1>2. ASSUME NEW c \in Creator PROVE Creation(c)'
  <2>1. CASE ~Live(c)
    BY <2>1 DEF IInv, Creation, Live, DeletionSlice
  <2>2. CASE Live(c)
    <3>1. /\ RowOf(c) /\ StageOf(c) /\ RouterOf(c) /\ MachinesOf(c) /\ HoldsOf(c)
          /\ make[c].num \in Num /\ Sure(make[c].num) /\ c \in Queued /\ make[c] \in Made
      BY <2>2, LiveFacts DEF QueueOnly, Sure
    <3>2. rows[make[c].num].status # "running"
      BY <3>1 DEF RowOf, StageOf, StatusAt
    <3>3. /\ rows'[make[c].num] = rows[make[c].num]
          /\ make[c].num \in left' <=> make[c].num \in left
          /\ make[c].num \in net' <=> make[c].num \in net
          /\ make[c].num \in fwd' <=> make[c].num \in fwd
          /\ make' = make
      BY <3>1, <3>2 DEF DeletionSlice
    <3>4. RowOf(c)' /\ StageOf(c)' /\ RouterOf(c)'
      BY <3>1, <3>3 DEF RowOf, StageOf, RouterOf, Sure
    <3>5. {v \in VmId : hyp'[v] # None /\ make'[hyp'[v]].num = make[c].num}
            \subseteq Machines(make[c].num)
      BY <1>1 DEF Machines
    <3>6. MachinesOf(c)'
      BY <3>1, <3>3, <3>5 DEF MachinesOf, Machines
    <3>7. HoldsOf(c)'
      <4>1. SUFFICES ASSUME make[c].at \notin Released, NEW v \in SeqRange(make[c].vms)
                     PROVE  hyp'[v] = c \/ (hyp'[v] = None /\ make[c].num \in torn')
        BY <3>3 DEF HoldsOf
      <4>2. v \in VmId
        BY <3>1 DEF SeqRange, Made
      <4>. QED  BY <3>1, <4>1, <4>2 DEF HoldsOf, DeletionSlice
    <3>. QED  BY <2>2, <3>3, <3>4, <3>6, <3>7 DEF Creation, Live
  <2>. QED  BY <2>1, <2>2
<1>3. ASSUME NEW m \in Num PROVE Number(m)'
  <2>1. Number(m) /\ ~NoDeletion
    BY DEF IInv, NoDeletion
  <2>2. rows'[m] = rows[m] \/ (rows'[m] = NoRow /\ m = n)
    BY DEF DeletionSlice
  <2>3. CleanNumber(m)' /\ IdOf(m)'
    <3>1. CASE rows'[m] = NoRow /\ m = n
      BY <3>1 DEF IdOf
    <3>2. CASE rows'[m] = rows[m]
      <4>1. m \notin left' => m \notin left
        BY DEF DeletionSlice
      <4>2. net' \subseteq net /\ fwd' \subseteq fwd
        BY DEF DeletionSlice
      <4>. QED  BY <1>1, <2>1, <3>2, <4>1, <4>2 DEF Number, CleanNumber, IdOf
    <3>. QED  BY <2>2, <3>1, <3>2
  <2>4. RunningNumber(m)'
    <3>1. SUFFICES ASSUME rows'[m].status = "running" PROVE RunningNumber(m)'
      BY DEF RunningNumber
    <3>2. /\ rows'[m] = rows[m] /\ rows[m] \in Row /\ rows[m] # NoRow
      BY <2>2, <3>1 DEF NoRow, IInv, Typed, TypeOK
    <3>3. RunningNumber(m) /\ make[rows[m].by].num = m
      BY <2>1, <3>2 DEF Number, IInv, Typed, NumbersOK, Used
    <3>4. SeqRange(rows[m].vms) \subseteq VmId
      BY <3>2 DEF Row, SeqRange
    <3>5. \A v \in SeqRange(rows[m].vms) : hyp'[v] = rows[m].by \/ m \in torn'
      BY <3>1, <3>2, <3>3, <3>4 DEF RunningNumber, DeletionSlice
    <3>6. m \notin left' => m \notin left
      BY DEF DeletionSlice
    <3>7. make' = make
      BY DEF DeletionSlice
    <3>. QED  BY <1>1, <2>1, <3>1, <3>2, <3>3, <3>5, <3>6, <3>7 DEF RunningNumber, Settled
  <2>. QED  BY <2>3, <2>4 DEF Number
<1>4. ASSUME NEW e \in Deleter \ {d} PROVE Deletion(e)'
  <2>1. CASE ~Active(e)
    BY <2>1 DEF Deletion, Active, DeletionSlice
  <2>2. CASE UNCHANGED <<rows, net, fwd, left, hyp, torn>>
    BY <2>2 DEF IInv, Deletion, Active, Machines, DeletionSlice
  <2>. QED  BY <2>1, <2>2 DEF DeletionSlice
<1>5. Alone'
  BY DEF IInv, Alone, Live, Active, DeletionSlice
<1>6. \A p \in Deployer : Deployment(p)'
  BY DEF QueueOnly
<1>. QED  BY <1>2, <1>3, <1>4, <1>5, <1>6 DEF IInv, NoDeletion

LEMMA DeleterInv ==
  ASSUME Sheltered, IInv, NEW d \in Deleter, DeleterStep(d) \/ \E n \in Num : AskDelete(d, n)
  PROVE  IInv'
<1>1. Typed' /\ QueueOnly /\ ~Admin
  BY DeleterTyped DEF IInv, Sheltered, NoDeletion, QueueOnly
<1>2. ASSUME NEW stage, Step(d, stage)
      PROVE  /\ del'[d] = [del[d] EXCEPT !.at = stage] /\ del'[d].at = stage
             /\ del'[d].num = del[d].num /\ del'[d].row = del[d].row
             /\ \A e \in Deleter \ {d} : del'[e] = del[e]
  BY <1>2 DEF Step, IInv, Typed, TypeOK
<1>3. ASSUME NEW n \in Num, AskDelete(d, n) PROVE IInv'
  <2>1. del'[d].at = "queued" /\ \A e \in Deleter \ {d} : del'[e] = del[e]
    <3>1. del \in [Deleter -> Asked]
      BY DEF IInv, Typed, TypeOK, Asked
    <3>2. del' = [del EXCEPT ![d] = [del[d] EXCEPT !.at = "queued", !.num = n]]
      BY <1>3 DEF AskDelete
    <3>3. del'[d] = [del[d] EXCEPT !.at = "queued", !.num = n]
      BY <3>1, <3>2
    <3>. QED  BY <3>1, <3>2, <3>3 DEF Asked
  <2>2. UNCHANGED <<rows, net, fwd, left, hyp, torn, make, dep>>
    BY <1>3 DEF AskDelete, tables, router, others
  <2>3. DeletionSlice(d, n) /\ Deletion(d)'
    BY <2>1, <2>2 DEF DeletionSlice, Deletion, Active
  <2>4. rows'[n] = NoRow => CleanNumber(n)'
    BY <1>3, <2>2 DEF AskDelete, Deletable
  <2>. QED  BY <1>1, <2>3, <2>4, DeletionInv
<1>4. CASE LoadRow(d)
  <2>1. /\ UNCHANGED <<rows, net, fwd, left, hyp, torn, make, dep>>
        /\ \A e \in Deleter : ~Active(e)
    BY <1>4 DEF LoadRow, tables, router, others
  <2>2. PICK n \in Num : n = del[d].num
    <3>1. queue # <<>> /\ Head(queue) = d /\ queue \in Seq(Deleter)
      BY <1>4 DEF LoadRow, IInv, Typed, TypeOK
    <3>2. 1 \in 1..Len(queue) /\ queue[1] = d
      BY <3>1
    <3>. QED  BY <3>2 DEF IInv, Typed, NumbersOK
  <2>3. CASE Deletable(n) /\ del' = [del EXCEPT ![d].at = "loaded", ![d].row = rows[n]]
    <3>1. /\ del'[d].at = "loaded" /\ del'[d].num = n /\ del'[d].row = rows[n]
          /\ \A e \in Deleter \ {d} : del'[e] = del[e]
      BY <2>2, <2>3 DEF IInv, Typed, TypeOK
    <3>2. rows[n].status = "running" /\ rows[n] # NoRow
      BY <1>1, <2>3 DEF Deletable
    <3>3. DeletionSlice(d, n) /\ Deletion(d)'
      BY <2>1, <3>1, <3>2 DEF DeletionSlice, Deletion, Active
    <3>. QED  BY <1>1, <2>1, <3>2, <3>3, DeletionInv
  <2>4. CASE Step(d, "failed")
    <3>1. del'[d].at = "failed" /\ \A e \in Deleter \ {d} : del'[e] = del[e]
      BY <1>2, <2>4
    <3>2. DeletionSlice(d, n) /\ Deletion(d)'
      BY <2>1, <3>1 DEF DeletionSlice, Deletion, Active, Ended
    <3>3. rows'[n] = NoRow => CleanNumber(n)'
      BY <2>1 DEF IInv, Number, CleanNumber, Machines
    <3>. QED  BY <1>1, <3>2, <3>3, DeletionInv
  <2>. QED  BY <1>4, <2>2, <2>3, <2>4 DEF LoadRow
<1>5. ASSUME ~LoadRow(d), DeleterStep(d)
      PROVE  /\ Active(d) /\ Deletion(d) /\ \A e \in Deleter \ {d} : ~Active(e)
             /\ UNCHANGED <<make, dep>>
             /\ del[d].num \in Num /\ rows[del[d].num] = del[d].row
             /\ rows[del[d].num].status = "running" /\ RunningNumber(del[d].num)
  <2>1. Active(d) /\ UNCHANGED <<make, dep>>
    BY <1>5 DEF DeleterStep, ReleaseVms, LockRouter, CleanRouter, DeleteRow, Active, Ended, others
  <2>2. del[d].num \in Num /\ Deletion(d)
    BY <2>1 DEF IInv, Typed, NumbersOK, Active
  <2>. QED  BY <1>1, <2>1, <2>2 DEF IInv, Alone, Deletion, Number
<1>6. ASSUME ~LoadRow(d), DeleterStep(d), NEW n \in Num, n = del[d].num, Step(d, "failed"),
             UNCHANGED <<rows, left, hyp, torn>>, net' \subseteq net, fwd' \subseteq fwd,
             \A m \in Num \ {n} : (m \in net' <=> m \in net) /\ (m \in fwd' <=> m \in fwd)
      PROVE  IInv'
  <2>1. del'[d].at = "failed" /\ \A e \in Deleter \ {d} : del'[e] = del[e]
    BY <1>2, <1>6
  <2>2. DeletionSlice(d, n) /\ Deletion(d)'
    BY <1>5, <1>6, <2>1 DEF DeletionSlice, Deletion, Active, Ended
  <2>3. rows'[n] # NoRow
    BY <1>5, <1>6 DEF NoRow
  <2>. QED  BY <1>1, <1>6, <2>2, <2>3, DeletionInv
<1>7. CASE ReleaseVms(d) /\ ~LoadRow(d)
  <2>. PICK n \in Num : n = del[d].num
    BY <1>5, <1>7 DEF DeleterStep
  <2>1. UNCHANGED <<rows, net, fwd>> /\ DeleterStep(d)
    BY <1>7 DEF ReleaseVms, tables, DeleterStep
  <2>2. CASE PveFails(d) /\ UNCHANGED torn
    BY <1>6, <1>7, <2>1, <2>2 DEF PveFails
  <2>3. CASE /\ TryRelease(n, del[d].row.vms) /\ Step(d, "released")
             /\ torn' = torn \cup {n} \cup Robbed
    <3>1. PICK kept \in SUBSET SeqRange(rows[n].vms) :
            /\ left' = IF kept = {} THEN left ELSE left \cup {n}
            /\ hyp' = [v \in VmId |-> IF v \in SeqRange(rows[n].vms) \ kept THEN None ELSE hyp[v]]
      BY <1>5, <1>7, <2>1, <2>3 DEF TryRelease
    <3>2. /\ del'[d].at = "released" /\ del'[d].num = n /\ del'[d].row = del[d].row
          /\ \A e \in Deleter \ {d} : del'[e] = del[e]
      BY <1>2, <2>3
    <3>3. \A v \in VmId : \/ hyp'[v] = hyp[v]
                          \/ hyp[v] # None /\ hyp'[v] = None /\ make[hyp[v]].num \in Robbed
      BY <3>1 DEF Robbed
    <3>4. DeletionSlice(d, n)
      BY <1>5, <1>7, <2>1, <2>3, <3>1, <3>2, <3>3 DEF DeletionSlice
    <3>5. n \notin left' => {v \in VmId : hyp'[v] # None /\ make'[hyp'[v]].num = n} = {}
      <4>1. ASSUME n \notin left', NEW v \in VmId, hyp'[v] # None, make'[hyp'[v]].num = n PROVE FALSE
        <5>1. hyp'[v] = hyp[v] /\ v \notin SeqRange(rows[n].vms) /\ n \notin left
          BY <3>1, <4>1
        <5>2. Machines(n) \subseteq SeqRange(rows[n].vms)
          BY <1>5, <1>7, <2>1, <5>1 DEF RunningNumber
        <5>. QED  BY <1>5, <1>7, <2>1, <4>1, <5>1, <5>2 DEF Machines
      <4>. QED  BY <4>1
    <3>6. Deletion(d)'
      BY <1>5, <1>7, <2>1, <2>3, <3>2, <3>5 DEF Deletion, Machines
    <3>7. rows'[n] # NoRow
      BY <1>5, <1>7, <2>1 DEF NoRow
    <3>. QED  BY <1>1, <3>4, <3>6, <3>7, DeletionInv
  <2>. QED  BY <1>7, <2>2, <2>3 DEF ReleaseVms
<1>8. CASE LockRouter(d) /\ ~LoadRow(d)
  <2>. PICK n \in Num : n = del[d].num
    BY <1>5, <1>8 DEF DeleterStep
  <2>1. UNCHANGED <<rows, net, fwd, left, hyp, torn>> /\ DeleterStep(d) /\ del[d].at = "released"
    BY <1>8 DEF LockRouter, tables, router, DeleterStep
  <2>2. CASE Step(d, "failed")
    BY <1>6, <1>8, <2>1, <2>2
  <2>3. CASE Step(d, "cleaning")
    <3>1. /\ del'[d].at = "cleaning" /\ del'[d].num = n /\ del'[d].row = del[d].row
          /\ \A e \in Deleter \ {d} : del'[e] = del[e]
      BY <1>2, <2>3
    <3>2. DeletionSlice(d, n)
      BY <1>5, <1>8, <2>1, <3>1 DEF DeletionSlice
    <3>3. {v \in VmId : hyp'[v] # None /\ make'[hyp'[v]].num = n} = Machines(n)
      BY <1>5, <1>8, <2>1 DEF Machines
    <3>4. Deletion(d)'
      BY <1>1, <1>5, <1>8, <2>1, <3>1, <3>3 DEF Deletion, Machines
    <3>5. rows'[n] # NoRow
      BY <1>5, <1>8, <2>1 DEF NoRow
    <3>. QED  BY <1>1, <3>2, <3>4, <3>5, DeletionInv
  <2>. QED  BY <1>8, <2>2, <2>3 DEF LockRouter
<1>9. CASE CleanRouter(d) /\ ~LoadRow(d)
  <2>. PICK n \in Num : n = del[d].num
    BY <1>5, <1>9 DEF DeleterStep
  <2>1. UNCHANGED <<rows, hyp, torn>> /\ DeleterStep(d) /\ del[d].at = "cleaning"
    BY <1>9 DEF CleanRouter, tables, DeleterStep
  <2>2. CASE Step(d, "failed") /\ fwd' \in {fwd, fwd \ {n}} /\ UNCHANGED <<net, left>>
    BY <1>6, <1>9, <2>1, <2>2
  <2>3. CASE TryCleanRouter(n) /\ Step(d, "cleaned")
    <3>1. /\ del'[d].at = "cleaned" /\ del'[d].num = n /\ del'[d].row = del[d].row
          /\ \A e \in Deleter \ {d} : del'[e] = del[e]
      BY <1>2, <2>3
    <3>2. /\ net' \in {net, net \ {n}} /\ fwd' \in {fwd, fwd \ {n}}
          /\ left' \in {left, left \cup {n}}
          /\ n \notin left' => n \notin left /\ n \notin net' \cup fwd'
      BY <2>3 DEF TryCleanRouter
    <3>3. DeletionSlice(d, n)
      BY <1>5, <1>9, <2>1, <3>1, <3>2 DEF DeletionSlice
    <3>4. {v \in VmId : hyp'[v] # None /\ make'[hyp'[v]].num = n} = Machines(n)
      BY <1>5, <1>9, <2>1 DEF Machines
    <3>5. Deletion(d)'
      BY <1>1, <1>5, <1>9, <2>1, <3>1, <3>2, <3>4 DEF Deletion, Machines
    <3>6. rows'[n] # NoRow
      BY <1>5, <1>9, <2>1 DEF NoRow
    <3>. QED  BY <1>1, <3>3, <3>5, <3>6, DeletionInv
  <2>. QED  BY <1>9, <2>2, <2>3 DEF CleanRouter
<1>10. CASE DeleteRow(d) /\ ~LoadRow(d)
  <2>. PICK n \in Num : n = del[d].num
    BY <1>5, <1>10 DEF DeleterStep
  <2>1. /\ UNCHANGED <<net, fwd, left, hyp, torn>> /\ DeleterStep(d) /\ del[d].at = "cleaned"
    BY <1>10 DEF DeleteRow, router, DeleterStep
  <2>2. CASE UNCHANGED rows /\ Step(d, "failed")
    BY <1>6, <1>10, <2>1, <2>2
  <2>3. CASE rows' = [rows EXCEPT ![n] = NoRow] /\ Step(d, "done")
    <3>1. del'[d].at = "done" /\ \A e \in Deleter \ {d} : del'[e] = del[e]
      BY <1>2, <2>3
    <3>2. rows'[n] = NoRow /\ \A m \in Num \ {n} : rows'[m] = rows[m]
      BY <2>3 DEF IInv, Typed, TypeOK
    <3>3. DeletionSlice(d, n) /\ Deletion(d)'
      BY <1>5, <1>10, <2>1, <3>1, <3>2 DEF DeletionSlice, Deletion, Active, Ended
    <3>4. {v \in VmId : hyp'[v] # None /\ make'[hyp'[v]].num = n} = Machines(n)
      BY <1>5, <1>10, <2>1 DEF Machines
    <3>5. CleanNumber(n)'
      BY <1>1, <1>5, <1>10, <2>1, <3>4 DEF CleanNumber, Deletion, Machines
    <3>. QED  BY <1>1, <3>3, <3>5, DeletionInv
  <2>. QED  BY <1>10, <2>2, <2>3 DEF DeleteRow
<1>. QED  BY <1>3, <1>4, <1>7, <1>8, <1>9, <1>10 DEF DeleterStep

LEMMA NextInv == ASSUME Sheltered, IInv, [Next]_vars PROVE IInv'
<1>1. CASE UNCHANGED vars
  <2>1. Typed'
    BY NextTyped DEF IInv
  <2>2. Alone'
    BY <1>1 DEF IInv, Alone, Live, Active, vars
  <2>3. \A c \in Creator : Creation(c)'
    BY <1>1 DEF IInv, Creation, Live, RowOf, StageOf, RouterOf, MachinesOf, HoldsOf, Sure,
                Machines, vars
  <2>4. \A n \in Num : Number(n)'
    BY <1>1 DEF IInv, Number, CleanNumber, RunningNumber, IdOf, Settled, Machines, vars
  <2>5. \A p \in Deployer : Deployment(p)'
    BY <1>1 DEF IInv, Deployment, Settled, Sure, vars
  <2>6. \A d \in Deleter : Deletion(d)'
    BY <1>1 DEF IInv, Deletion, Active, Machines, vars
  <2>. QED  BY <1>1, <2>1, <2>2, <2>3, <2>4, <2>5, <2>6 DEF IInv, vars
<1>2. CASE Next
  BY <1>2, CreatorInv, DeleterInv, ForceInv, DeployerInv DEF Next
<1>. QED  BY <1>1, <1>2

-----------------------------------------------------------------------------
(* The theorems.  Those about safety assume an instance of one of the two  *)
(* kinds; the invariant says more than any of them.                        *)

\* Creations keep their rows and their machines, rows say what is there, and a
\* deletion cleans up before it drops its row, in any instance where nothing is
\* deleted or where the queue makes everything.
THEOREM LifecycleInductive == ASSUME Sheltered PROVE Spec => []IInv
<1>1. IInv /\ [Next]_vars => IInv'
  BY NextInv
<1>. QED  BY InitInv, <1>1, PTL DEF Spec

\* What create_cluster's rollback and delete_cluster clean up is everything that was
\* made: a number without a row has nothing left on the router or the hypervisor,
\* unless a call that cleans up has failed.
THEOREM NothingStaysBehind == ASSUME Sheltered PROVE Spec => []NothingIsStranded
<1>1. ASSUME IInv PROVE NothingIsStranded
  BY <1>1 DEF IInv, Number, CleanNumber, Machines, NothingIsStranded
<1>. QED  BY <1>1, LifecycleInductive, PTL

LEMMA KeepsRow == ASSUME IInv PROVE CreationKeepsItsRow
BY DEF IInv, Creation, RowOf, Sure, CreationKeepsItsRow

\* Where nothing is deleted, a creation keeps its row while it works, and a row that
\* says "running" has its network, its forwarding and each of its machines, although
\* create_cluster swallows a failed forwarding and deployments save rows they loaded
\* long ago.
THEOREM RowsAreTrue == ASSUME NoDeletion PROVE Spec => []RowsTellTheTruth
<1>1. ASSUME IInv PROVE RunningIsComplete
  <2>1. \A n \in Num : RunningNumber(n)
    BY <1>1 DEF IInv, Number
  <2>2. torn = {}
    BY <1>1 DEF IInv
  <2>. QED  BY <2>1, <2>2 DEF RunningNumber, RunningIsComplete
<1>2. IInv => RowsTellTheTruth
  BY <1>1, KeepsRow DEF RowsTellTheTruth
<1>. QED  BY <1>2, LifecycleInductive, PTL DEF Sheltered

\* A rollback releases machines of its own creation only.
THEOREM RollbackIsOwn == ASSUME Sheltered PROVE Spec => RollbackReleasesOwn
<1>1. ASSUME IInv, [Next]_vars
      PROVE  [\A c \in Creator, v \in VmId :
                make'[c] # make[c] /\ hyp[v] # None /\ hyp'[v] = None => hyp[v] = c]_vars
  <2>. SUFFICES ASSUME NEW c \in Creator, NEW v \in VmId, Next,
                       make'[c] # make[c], hyp[v] # None, hyp'[v] = None
                PROVE  hyp[v] = c
    BY <1>1 DEF vars
  <2>1. PICK e \in Creator : CreatorStep(e) \/ Cancel(e)
    BY DEF Next, DeleterStep, LoadRow, ReleaseVms, LockRouter, CleanRouter, DeleteRow, AskDelete,
       ForceDelete, SaveDeployment, AbandonDeployment, Deploy, others
  <2>2. CASE UndoVms(e)
    <3>1. OwnSlice(e)
      BY <1>1, <2>2, UndoVmsInv, NextTyped DEF IInv
    <3>2. c = e
      BY <3>1 DEF OwnSlice
    <3>. QED  BY <3>1, <3>2 DEF OwnSlice
  <2>3. CASE ~UndoVms(e)
    <3>1. UNCHANGED hyp \/ \E w \in VmId : hyp' = [hyp EXCEPT ![w] = e]
      BY <1>1, <2>1, <2>3 DEF CreatorStep, Allocate, SaveInitial, AskRouter, Setup, ConnectPve,
         DrawVmId, Clone, AskForwarding, Forward, ConfigureSsh, UndoRouter, UndoRow, FinalSave,
         Resave, Cancel, IInv, Typed, NumbersOK
    <3>. QED  BY <1>1, <3>1, LifecycleAssumption DEF IInv, Typed, TypeOK
  <2>. QED  BY <2>2, <2>3
<1>. QED  BY <1>1, LifecycleInductive, PTL DEF Spec, RollbackReleasesOwn

\* Where the create queue makes everything, no number is handed out twice and one can
\* always be handed out: the ids that _allocate_cluster_id looks for gaps in are the
\* numbers of the rows.
THEOREM TableIsAllocator == ASSUME QueueOnly PROVE Spec => []TableAllocates
<1>1. ASSUME IInv PROVE AllocatableNumber
  <2>1. \A n \in Used : rows[n].id = n
    BY <1>1 DEF IInv, Number, IdOf, Used, QueueOnly
  <2>2. {rows[m].id : m \in Used} = Used
    BY <2>1
  <2>3. IsFiniteSet(Used)
    <3>1. IsFiniteSet(Num) /\ Used \in SUBSET Num
      BY NumIsNat, FS_Interval DEF Num, Used
    <3>. QED  BY <3>1, FS_Subset
  <2>. QED  BY <2>2, <2>3, FirstGapIsFree DEF AllocatableNumber
<1>2. IInv => TableAllocates
  BY <1>1, KeepsRow DEF TableAllocates
<1>. QED  BY <1>2, LifecycleInductive, PTL DEF Sheltered

\* A deletion releases machines of the cluster it deletes only, unless one of them
\* was released by a deletion before.
THEOREM DeletionsSpareOthers == ASSUME QueueOnly PROVE Spec => NoForeignRelease
<1>1. ASSUME IInv, [Next]_vars
      PROVE  [\A d \in Deleter, v \in VmId :
                /\ del'[d] # del[d] /\ del[d].num \notin torn
                /\ hyp[v] # None /\ hyp'[v] = None
                => hyp[v] = del[d].row.by]_vars
  <2>. SUFFICES ASSUME NEW d \in Deleter, NEW v \in VmId, Next,
                       del'[d] # del[d], del[d].num \notin torn, hyp[v] # None, hyp'[v] = None
                PROVE  hyp[v] = del[d].row.by
    BY <1>1 DEF vars
  <2>1. PICK e \in Deleter : DeleterStep(e) \/ \E n \in Num : AskDelete(e, n)
    BY DEF Next, CreatorStep, Allocate, SaveInitial, AskRouter, Setup, ConnectPve, DrawVmId, Clone,
       AskForwarding, Forward, ConfigureSsh, UndoVms, UndoRouter, UndoRow, FinalSave, Resave,
       Cancel, requests, ForceDelete, SaveDeployment, AbandonDeployment, Deploy
  <2>2. ReleaseVms(e)
    BY <1>1, <2>1 DEF DeleterStep, LoadRow, LockRouter, CleanRouter, DeleteRow, AskDelete
  <2>3. e = d
    BY <1>1, <2>2 DEF ReleaseVms, PveFails, Step, IInv, Typed, TypeOK
  <2>4. TryRelease(del[d].num, del[d].row.vms) /\ del[d].at = "loaded"
    BY <2>2, <2>3 DEF ReleaseVms, PveFails
  <2>5. v \in SeqRange(del[d].row.vms)
    <3>1. PICK kept : hyp' = [w \in VmId |-> IF w \in SeqRange(del[d].row.vms) \ kept
                                             THEN None ELSE hyp[w]]
      BY <2>4 DEF TryRelease
    <3>. QED  BY <3>1
  <2>6. /\ rows[del[d].num] = del[d].row /\ rows[del[d].num].status = "running"
        /\ del[d].num \in Num
    BY <1>1, <2>4 DEF IInv, Typed, NumbersOK, Deletion, Active, Ended
  <2>. QED  BY <1>1, <2>5, <2>6 DEF IInv, Number, RunningNumber
<1>. QED  BY <1>1, LifecycleInductive, PTL DEF Spec, NoForeignRelease, Sheltered

===============================================================================
