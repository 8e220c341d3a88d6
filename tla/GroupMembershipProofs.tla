------------------------ MODULE GroupMembershipProofs ------------------------
(***************************************************************************)
(* Proofs about GroupMembership for any number of accounts, classes,       *)
(* groups, clusters and requests: a student is in one group of a class, a  *)
(* cluster of a class lets nobody in from outside the class, only requests *)
(* that overlap give one number twice, and a deletion of a class or group  *)
(* that succeeds has asked for every cluster it found there.               *)
(***************************************************************************)
EXTENDS GroupMembership, FiniteSetTheorems, WellFoundedInduction, TLAPS

-----------------------------------------------------------------------------
(* The inductive invariant.  What is said of a row, a request or a creation *)
(* is said for given tables of classes and groups, cl and gr, and spent ids *)
(* sp, so that it can be compared before and after a step.                  *)

ReqFields   == {"at", "by", "class", "group", "name", "user", "num", "over", "names", "had"}
MakeFields  == {"at", "by", "class", "group", "plan", "stale", "over"}
RowFields   == {"class", "group", "by", "live"}
GroupFields == {"class", "name", "max", "by"}

\* An id that was given back is not given out again.
TablesOK(cl, gr, sp) ==
  /\ cl = [c \in Class |-> cl[c]] /\ gr = [g \in Group |-> gr[g]]
  /\ \A g \in Group : DOMAIN gr[g] = GroupFields /\ gr[g].class \in Class \cup {None}
  /\ \A c \in Class \cap sp : cl[c] = None
  /\ \A g \in Group \cap sp : gr[g].class = None

\* What a request read of a group is still true, unless the group is gone.
RequestOK(r, gr, sp) ==
  /\ DOMAIN r = ReqFields
  /\ r.class \in Class \cup {None} /\ r.group \in Group \cup {None}
  /\ r.at \in {"readGroup", "insertMember"} => r.group \in Group
  /\ r.at = "insertMember" => /\ r.class # None
                              /\ gr[r.group].class = r.class \/ r.group \in sp

\* A member's class is that of his group, which exists.
MemberOK(m, gr) ==
  /\ DOMAIN m = {"user", "group", "class", "num", "over"}
  /\ m.group \in Group /\ m.class # None /\ gr[m.group].class = m.class

\* An association that was valid once stays so, unless the class or the group is
\* gone: owners and the classes of groups do not change.
Associates(x, cl, gr, sp) ==
  /\ x.class # None => /\ x.class \in Class
                       /\ x.by \in Teacher => cl[x.class] = x.by \/ x.class \in sp
  /\ x.group # None => x.group \in Group
  /\ x.class # None /\ x.group # None => gr[x.group].class = x.class \/ x.group \in sp

\* The class of a row exists.
RowOK(x, cl, gr, sp) ==
  /\ DOMAIN x = RowFields /\ Associates(x, cl, gr, sp)
  /\ x.class # None => x.live = TRUE /\ cl[x.class] # None

CreationOK(x, cl, gr, sp) == DOMAIN x = MakeFields /\ Associates(x, cl, gr, sp)

DeploymentOK(d, cl, gr, sp) ==
  /\ DOMAIN d.row = RowFields /\ Associates(d.row, cl, gr, sp)
  /\ d.on => d.row.live = TRUE

TablesInv      == student \subseteq Student /\ TablesOK(classes, groups, spent)
RequestsInv    == /\ req = [t \in Request |-> req[t]]
                  /\ \A t \in Request : RequestOK(req[t], groups, spent)
MembersInv     == \A m \in members : MemberOK(m, groups)
RowsInv        == /\ rows = [k \in Cluster |-> rows[k]]
                  /\ \A k \in Cluster : RowOK(rows[k], classes, groups, spent)
CreationsInv   == /\ make = [k \in Cluster |-> make[k]]
                  /\ \A k \in Cluster : CreationOK(make[k], classes, groups, spent)
DeploymentsInv == /\ dep = [k \in Cluster |-> dep[k]]
                  /\ \A k \in Cluster : DeploymentOK(dep[k], classes, groups, spent)

IInv == /\ TablesInv /\ RequestsInv /\ MembersInv /\ RowsInv /\ CreationsInv
        /\ DeploymentsInv /\ OneGroupPerClass

-----------------------------------------------------------------------------
(* How the tables of classes and groups may change *)

\* An entry changes when it is made under a fresh id or when its id is spent.
Kept(cl, gr, sp, cl2, gr2, sp2) ==
  /\ sp \subseteq sp2
  /\ \A c \in Class : cl2[c] = cl[c] \/ (cl[c] = None /\ c \notin sp) \/ c \in sp2
  /\ \A g \in Group : \/ gr2[g].class = gr[g].class \/ (gr[g].class = None /\ g \notin sp)
                      \/ g \in sp2

LEMMA AssociatesKept ==
  ASSUME NEW cl, NEW gr, NEW sp, NEW cl2, NEW gr2, NEW sp2, NEW x,
         Kept(cl, gr, sp, cl2, gr2, sp2), Associates(x, cl, gr, sp)
  PROVE  Associates(x, cl2, gr2, sp2)
BY MembershipAssumption DEF Kept, Associates, Staff

LEMMA RequestKept ==
  ASSUME NEW cl, NEW gr, NEW sp, NEW cl2, NEW gr2, NEW sp2, NEW r,
         Kept(cl, gr, sp, cl2, gr2, sp2), RequestOK(r, gr, sp)
  PROVE  RequestOK(r, gr2, sp2)
BY MembershipAssumption DEF Kept, RequestOK

\* Requests, creations and deployments do not notice such a change.
LEMMA LocalsKept ==
  ASSUME RequestsInv, CreationsInv, DeploymentsInv,
         Kept(classes, groups, spent, classes', groups', spent')
  PROVE  /\ UNCHANGED req => RequestsInv'
         /\ UNCHANGED make => CreationsInv'
         /\ UNCHANGED dep => DeploymentsInv'
<1>1. UNCHANGED req => RequestsInv'
  BY RequestKept DEF RequestsInv
<1>2. UNCHANGED make => CreationsInv'
  BY AssociatesKept DEF CreationsInv, CreationOK
<1>3. UNCHANGED dep => DeploymentsInv'
  BY AssociatesKept DEF DeploymentsInv, DeploymentOK
<1>. QED  BY <1>1, <1>2, <1>3

-----------------------------------------------------------------------------
(* Steps of one request, creation, row or deployment *)

LEMMA RequestStep ==
  ASSUME RequestsInv, UNCHANGED org, NEW t \in Request, NEW r,
         RequestOK(r, groups, spent), req' = [req EXCEPT ![t] = r]
  PROVE  RequestsInv'
BY DEF RequestsInv, org

LEMMA CreationStep ==
  ASSUME CreationsInv, UNCHANGED org, NEW k \in Cluster, NEW x,
         CreationOK(x, classes, groups, spent), make' = [make EXCEPT ![k] = x]
  PROVE  CreationsInv'
BY DEF CreationsInv, org

LEMMA RowStep ==
  ASSUME RowsInv, UNCHANGED org, NEW k \in Cluster, NEW x,
         RowOK(x, classes, groups, spent), rows' = [rows EXCEPT ![k] = x]
  PROVE  RowsInv'
BY DEF RowsInv, org

LEMMA DeploymentStep ==
  ASSUME DeploymentsInv, UNCHANGED org, NEW k \in Cluster, NEW d,
         DeploymentOK(d, classes, groups, spent), dep' = [dep EXCEPT ![k] = d]
  PROVE  DeploymentsInv'
BY DEF DeploymentsInv, org

\* What no step touches stays.
LEMMA Untouched ==
  ASSUME IInv, UNCHANGED org
  PROVE  /\ TablesInv'
         /\ UNCHANGED req => RequestsInv'
         /\ UNCHANGED members => MembersInv' /\ OneGroupPerClass'
         /\ UNCHANGED rows => RowsInv'
         /\ UNCHANGED make => CreationsInv'
         /\ UNCHANGED dep => DeploymentsInv'
BY DEF IInv, org, TablesInv, RequestsInv, MembersInv, OneGroupPerClass, RowsInv, CreationsInv,
       DeploymentsInv

LEMMA Constants ==
  /\ \A gr, sp : RequestOK(Idle, gr, sp)
  /\ \A cl, gr, sp : /\ RowOK(NoRow, cl, gr, sp) /\ DeploymentOK(NoDep, cl, gr, sp)
                     /\ CreationOK(NoMake, cl, gr, sp)
                     /\ CreationOK([NoMake EXCEPT !.at = "failed"], cl, gr, sp)
                     /\ CreationOK([NoMake EXCEPT !.at = "done"], cl, gr, sp)
                     /\ RowOK([NoRow EXCEPT !.live = TRUE], cl, gr, sp)
BY DEF RequestOK, Idle, RowOK, NoRow, DeploymentOK, NoDep, CreationOK, NoMake, Associates,
       ReqFields, RowFields, MakeFields

-----------------------------------------------------------------------------
(* Steps that change a request only *)

LEMMA RequestOnly ==
  ASSUME IInv, UNCHANGED <<org, members, rows, make, dep>>, NEW t \in Request, NEW r,
         RequestOK(r, groups, spent), req' = [req EXCEPT ![t] = r]
  PROVE  IInv'
<1>1. RequestsInv'
  BY RequestStep DEF IInv
<1>. QED  BY <1>1, Untouched DEF IInv

LEMMA StartInv ==
  ASSUME IInv, NEW t \in Request
  PROVE  /\ \A a \in Staff, c \in Class, n \in GroupName : StartGroup(t, a, c, n) => IInv'
         /\ \A a \in Staff, c \in Class, n \in GroupName, u \in Student :
              StartImport(t, a, c, n, u) => IInv'
         /\ \A g \in Group, u \in Student : StartAdd(t, g, u) => IInv'
         /\ \A a \in Staff, c \in Class : StartClassDeletion(t, a, c) => IInv'
         /\ \A a \in Staff, g \in Group : StartGroupDeletion(t, a, g) => IInv'
<1>1. ASSUME NEW a \in Staff, NEW c \in Class, NEW n \in GroupName, StartGroup(t, a, c, n)
      PROVE  IInv'
  <2>1. RequestOK([Idle EXCEPT !.at = "makeGroup", !.by = a, !.class = c, !.name = n],
                  groups, spent)
    BY DEF RequestOK, Idle, ReqFields
  <2>. QED  BY <1>1, <2>1, RequestOnly DEF StartGroup
<1>2. ASSUME NEW a \in Staff, NEW c \in Class, NEW n \in GroupName,
             NEW u \in Student, StartImport(t, a, c, n, u)
      PROVE  IInv'
  <2>1. RequestOK([Idle EXCEPT !.at = "findGroup", !.by = a, !.class = c, !.name = n,
                               !.user = u], groups, spent)
    BY DEF RequestOK, Idle, ReqFields
  <2>. QED  BY <1>2, <2>1, RequestOnly DEF StartImport
<1>3. ASSUME NEW g \in Group, NEW u \in Student, StartAdd(t, g, u)
      PROVE  IInv'
  <2>1. RequestOK([Idle EXCEPT !.at = "readGroup", !.group = g, !.user = u],
                  groups, spent)
    BY DEF RequestOK, Idle, ReqFields
  <2>. QED  BY <1>3, <2>1, RequestOnly DEF StartAdd
<1>4. ASSUME NEW a \in Staff, NEW c \in Class, StartClassDeletion(t, a, c)
      PROVE  IInv'
  <2>1. \A ks : RequestOK([Idle EXCEPT !.at = "list", !.by = a, !.class = c, !.had = ks],
                          groups, spent)
    BY DEF RequestOK, Idle, ReqFields
  <2>. QED  BY <1>4, <2>1, RequestOnly DEF StartClassDeletion
<1>5. ASSUME NEW a \in Staff, NEW g \in Group, StartGroupDeletion(t, a, g)
      PROVE  IInv'
  <2>1. \A ks : RequestOK([Idle EXCEPT !.at = "list", !.by = a, !.group = g, !.had = ks],
                          groups, spent)
    BY DEF RequestOK, Idle, ReqFields
  <2>. QED  BY <1>5, <2>1, RequestOnly DEF StartGroupDeletion
<1>. QED  BY <1>1, <1>2, <1>3, <1>4, <1>5

LEMMA FindGroupInv ==
  ASSUME IInv, NEW t \in Request, FindGroup(t)
  PROVE  IInv'
<1>1. RequestOK(req[t], groups, spent)
  BY DEF IInv, RequestsInv
<1>2. CASE \E g \in Group : req' = [req EXCEPT ![t].at = "readGroup", ![t].group = g]
  <2>1. PICK g \in Group : req' = [req EXCEPT ![t].at = "readGroup", ![t].group = g]
    BY <1>2
  <2>2. RequestOK([req[t] EXCEPT !.at = "readGroup", !.group = g], groups, spent)
    BY <1>1 DEF RequestOK, ReqFields
  <2>3. req' = [req EXCEPT ![t] = [req[t] EXCEPT !.at = "readGroup", !.group = g]]
    BY <2>1 DEF IInv, RequestsInv
  <2>. QED  BY <2>2, <2>3, RequestOnly DEF FindGroup
<1>3. CASE req' = [req EXCEPT ![t].at = "makeGroup"]
  <2>1. RequestOK([req[t] EXCEPT !.at = "makeGroup"], groups, spent)
    BY <1>1 DEF RequestOK, ReqFields
  <2>. QED  BY <1>3, <2>1, RequestOnly DEF FindGroup
<1>. QED  BY <1>2, <1>3, Zenon DEF FindGroup

\* The number may be any: it plays no part here.
LEMMA ReadGroupInv ==
  ASSUME IInv, NEW t \in Request, ReadGroup(t)
  PROVE  IInv'
<1>. DEFINE g == req[t].group
            r(n) == [req[t] EXCEPT !.at = "insertMember", !.class = groups[g].class,
                                   !.num = n, !.over = {}]
<1>1. RequestOK(req[t], groups, spent) /\ req[t].at = "readGroup"
  BY DEF IInv, RequestsInv, ReadGroup
<1>2. CASE req' = [req EXCEPT ![t] = Idle]
  BY <1>2, Constants, RequestOnly DEF ReadGroup
<1>3. CASE GroupLive(g) /\ req' = [req EXCEPT ![t] = r(NextNumber(g))]
  <2>1. \A n : RequestOK(r(n), groups, spent)
    BY <1>1, <1>3 DEF IInv, TablesInv, TablesOK, RequestOK, ReqFields, GroupLive
  <2>. QED  BY <1>3, <2>1, RequestOnly DEF ReadGroup
<1>. QED  BY <1>2, <1>3 DEF ReadGroup

LEMMA ListClustersInv ==
  ASSUME IInv, NEW t \in Request, ListClusters(t)
  PROVE  IInv'
<1>. DEFINE r(ns) == [req[t] EXCEPT !.at = "detach", !.names = ns]
<1>1. RequestOK(req[t], groups, spent)
  BY DEF IInv, RequestsInv
<1>2. \A ns : RequestOK(r(ns), groups, spent)
  BY <1>1 DEF RequestOK, ReqFields
<1>3. req' = [req EXCEPT ![t] = r(Clusters(req[t].class, req[t].group))]
  BY DEF ListClusters
<1>. QED  BY <1>2, <1>3, RequestOnly DEF ListClusters

LEMMA SubmitNextInv ==
  ASSUME IInv, NEW t \in Request, SubmitNext(t)
  PROVE  IInv'
<1>. DEFINE r(ns) == [req[t] EXCEPT !.names = ns]
<1>1. RequestOK(req[t], groups, spent) /\ req[t].at = "submit"
  BY DEF IInv, RequestsInv, SubmitNext
<1>2. \A ns : RequestOK(r(ns), groups, spent)
  BY <1>1 DEF RequestOK, ReqFields
<1>3. PICK k : req' = [req EXCEPT ![t] = r(req[t].names \ {k})] \/ req' = [req EXCEPT ![t] = Idle]
  BY DEF SubmitNext
<1>. QED  BY <1>2, <1>3, Constants, RequestOnly DEF SubmitNext

-----------------------------------------------------------------------------
(* Members *)

\* The history of overtaking is no part of the invariant.
LEMMA OvertakeKeeps ==
  ASSUME IInv, UNCHANGED org, NEW us
  PROVE  /\ \A t \in Request : RequestOK(Overtake(us)[t], groups, spent)
         /\ \A k \in Cluster : CreationOK(OvertakeMakers(us)[k], classes, groups, spent)
BY DEF IInv, RequestsInv, CreationsInv, RequestOK, CreationOK, Associates, ReqFields, MakeFields,
       Overtake, OvertakeMakers

LEMMA InsertMemberInv ==
  ASSUME IInv, NEW t \in Request, InsertMember(t)
  PROVE  IInv'
<1>. DEFINE r == req[t]
            m == [user |-> r.user, group |-> r.group, class |-> r.class, num |-> r.num,
                  over |-> r.over]
<1>1. RequestOK(r, groups, spent) /\ r.at = "insertMember"
  BY DEF IInv, RequestsInv, InsertMember
<1>2. CASE Admits(r.user, r.group, r.class)
  <2>1. /\ members' = members \cup {m} /\ make' = OvertakeMakers({r.user})
        /\ req' = [Overtake({r.user}) EXCEPT ![t] = Idle]
        /\ UNCHANGED <<org, rows, dep>>
    BY <1>2 DEF InsertMember
  <2>2. MemberOK(m, groups)
    BY <1>1, <1>2 DEF Admits, GroupLive, RequestOK, MemberOK, IInv, TablesInv, TablesOK
  <2>3. MembersInv'
    BY <2>1, <2>2 DEF IInv, MembersInv, org
  <2>4. OneGroupPerClass'
    BY <1>2, <2>1 DEF IInv, OneGroupPerClass, Admits
  <2>5. RequestsInv'
    BY <2>1, OvertakeKeeps, Constants DEF RequestsInv, Overtake, org
  <2>6. CreationsInv'
    BY <2>1, OvertakeKeeps DEF CreationsInv, OvertakeMakers, org
  <2>. QED  BY <2>1, <2>3, <2>4, <2>5, <2>6, Untouched DEF IInv
<1>3. CASE ~Admits(r.user, r.group, r.class)
  BY <1>3, Constants, RequestOnly DEF InsertMember
<1>. QED  BY <1>2, <1>3

LEMMA RemoveMemberInv ==
  ASSUME IInv, NEW m \in members, RemoveMember(m)
  PROVE  IInv'
<1>1. MembersInv' /\ OneGroupPerClass'
  BY DEF IInv, MembersInv, OneGroupPerClass, RemoveMember, org
<1>2. CreationsInv'
  BY DEF IInv, CreationsInv, CreationOK, Associates, MakeFields, RemoveMember, org
<1>. QED  BY <1>1, <1>2, Untouched DEF IInv, RemoveMember

-----------------------------------------------------------------------------
(* Creations, rows and deployments *)

LEMMA CreationOnly ==
  ASSUME IInv, UNCHANGED <<org, members, rows, req, dep>>, NEW k \in Cluster, NEW x,
         CreationOK(x, classes, groups, spent), make' = [make EXCEPT ![k] = x]
  PROVE  IInv'
<1>1. CreationsInv'
  BY CreationStep DEF IInv
<1>. QED  BY <1>1, Untouched DEF IInv

\* What validate_cluster_creation accepted is an association.
LEMMA ValidAssociates ==
  ASSUME IInv, NEW a \in Staff, NEW c \in Class \cup {None}, NEW g \in Group \cup {None},
         Valid(a, c, g), NEW x, x.by = a, x.class = c, x.group = g
  PROVE  Associates(x, classes, groups, spent)
BY MembershipAssumption DEF Valid, Owns, Associates, Staff

LEMMA StartCreationInv ==
  ASSUME IInv, NEW k \in Cluster, NEW a \in Staff, NEW c \in Class \cup {None},
         NEW g \in Group \cup {None}, StartCreation(k, a, c, g)
  PROVE  IInv'
<1>. DEFINE x == [NoMake EXCEPT !.at = "row", !.by = a, !.class = c, !.group = g]
<1>1. CreationOK(x, classes, groups, spent)
  <2>1. x.by = a /\ x.class = c /\ x.group = g /\ DOMAIN x = MakeFields
    BY DEF NoMake, MakeFields
  <2>. QED  BY <2>1, ValidAssociates DEF CreationOK, StartCreation
<1>2. CreationsInv'
  BY <1>1, CreationStep DEF IInv, StartCreation
<1>3. RowsInv'
  BY Constants, RowStep DEF IInv, StartCreation
<1>. QED  BY <1>2, <1>3, Untouched DEF IInv, StartCreation

LEMMA FailCreationInv ==
  ASSUME IInv, NEW k \in Cluster, FailCreation(k)
  PROVE  IInv'
<1>1. CreationsInv'
  BY Constants, CreationStep DEF IInv, FailCreation
<1>2. RowsInv'
  BY Constants, RowStep DEF IInv, FailCreation
<1>. QED  BY <1>1, <1>2, Untouched DEF IInv, FailCreation

LEMMA ReadNumbersInv ==
  ASSUME IInv, NEW k \in Cluster, ReadNumbers(k)
  PROVE  IInv'
<1>. DEFINE x(p) == [make[k] EXCEPT !.at = "number", !.plan = p, !.over = {}]
            y == [make[k] EXCEPT !.at = "attach"]
<1>1. CreationOK(make[k], classes, groups, spent)
  BY DEF IInv, CreationsInv
<1>2. CreationOK(y, classes, groups, spent) /\ \A p : CreationOK(x(p), classes, groups, spent)
  BY <1>1 DEF CreationOK, Associates, MakeFields
<1>3. PICK p : make' = [make EXCEPT ![k] = x(p)] \/ make' = [make EXCEPT ![k] = y]
  BY DEF ReadNumbers
<1>. QED  BY <1>2, <1>3, CreationOnly DEF ReadNumbers

\* The update keeps each member's user and group, so it merges no two of them.
LEMMA WriteNumbersInv ==
  ASSUME IInv, NEW k \in Cluster, WriteNumbers(k)
  PROVE  IInv'
<1>. DEFINE plan == make[k].plan
            mine(m) == m.group = make[k].group /\ m.user \in DOMAIN plan
            new(m) == IF mine(m) THEN [m EXCEPT !.num = plan[m.user], !.over = make[k].over] ELSE m
            x == [OvertakeMakers(DOMAIN plan)[k] EXCEPT !.at = "attach", !.plan = <<>>, !.over = {}]
<1>1. CASE /\ members' = {new(m) : m \in members} /\ req' = Overtake(DOMAIN plan)
           /\ make' = [OvertakeMakers(DOMAIN plan) EXCEPT ![k] = x]
  <2>1. \A m \in members : /\ new(m).user = m.user /\ new(m).group = m.group
                           /\ new(m).class = m.class /\ DOMAIN new(m) = DOMAIN m
    BY DEF IInv, MembersInv, MemberOK
  <2>2. \A m2 \in members' : \E m \in members : m2 = new(m)
    BY <1>1
  <2>3. MembersInv' /\ OneGroupPerClass'
    <3>. HIDE DEF new
    <3>1. \A m \in members : MemberOK(new(m), groups)
      BY <2>1 DEF IInv, MembersInv, MemberOK
    <3>2. OneGroupPerClass'
      BY <2>1, <2>2 DEF IInv, OneGroupPerClass
    <3>. QED  BY <2>2, <3>1, <3>2 DEF MembersInv, WriteNumbers, org
  <2>4. RequestsInv'
    BY <1>1, OvertakeKeeps DEF RequestsInv, Overtake, WriteNumbers, org
  <2>5. CreationOK(x, classes, groups, spent)
    BY OvertakeKeeps DEF CreationOK, Associates, MakeFields, WriteNumbers
  <2>6. CreationsInv'
    BY <1>1, <2>5, OvertakeKeeps DEF CreationsInv, OvertakeMakers, WriteNumbers, org
  <2>. QED  BY <2>3, <2>4, <2>6, Untouched DEF IInv, WriteNumbers
<1>2. CASE make' = [make EXCEPT ![k] = [NoMake EXCEPT !.at = "failed"]] /\ UNCHANGED <<members, req>>
  BY <1>2, Constants, CreationOnly DEF WriteNumbers
<1>. QED  BY <1>1, <1>2, Zenon DEF WriteNumbers

LEMMA AttachInv ==
  ASSUME IInv, NEW k \in Cluster, Attach(k)
  PROVE  IInv'
<1>1. CreationOK(make[k], classes, groups, spent)
  BY DEF IInv, CreationsInv
<1>2. CASE Saved(k, Entry(k)) /\ make' = [make EXCEPT ![k].at = "resave"]
  <2>1. RowOK(Entry(k), classes, groups, spent)
    BY <1>1, <1>2 DEF RowOK, CreationOK, Associates, Entry, Saved, References, ClassLive, RowFields
  <2>2. RowsInv'
    BY <1>2, <2>1, RowStep DEF IInv, Saved, Attach
  <2>3. CreationOK([make[k] EXCEPT !.at = "resave"], classes, groups, spent)
    BY <1>1 DEF CreationOK, Associates, MakeFields
  <2>4. make' = [make EXCEPT ![k] = [make[k] EXCEPT !.at = "resave"]]
    BY <1>2 DEF IInv, CreationsInv
  <2>5. CreationsInv'
    BY <2>3, <2>4, CreationStep DEF IInv, Attach
  <2>. QED  BY <2>2, <2>5, Untouched DEF IInv, Attach
<1>3. CASE make' = [make EXCEPT ![k] = [NoMake EXCEPT !.at = "failed"]] /\ UNCHANGED rows
  BY <1>3, Constants, CreationOnly DEF Attach
<1>. QED  BY <1>2, <1>3 DEF Attach

LEMMA ResaveInv ==
  ASSUME IInv, NEW k \in Cluster, Resave(k)
  PROVE  IInv'
<1>1. CreationsInv'
  BY Constants, CreationStep DEF IInv, Resave
<1>2. CASE Saved(k, Entry(k))
  <2>1. RowOK(Entry(k), classes, groups, spent)
    BY <1>2 DEF IInv, CreationsInv, RowOK, CreationOK, Associates, Entry, Saved, References,
                ClassLive, RowFields
  <2>2. RowsInv'
    BY <1>2, <2>1, RowStep DEF IInv, Saved, Resave
  <2>. QED  BY <1>1, <2>2, Untouched DEF IInv, Resave
<1>3. CASE UNCHANGED rows
  BY <1>1, <1>3, Untouched DEF IInv, Resave
<1>. QED  BY <1>2, <1>3 DEF Resave

LEMMA StartDeploymentInv ==
  ASSUME IInv, NEW k \in Cluster, NEW a \in Staff, StartDeployment(k, a)
  PROVE  IInv'
<1>1. DeploymentOK([on |-> TRUE, row |-> rows[k]], classes, groups, spent)
  <2>1. RowOK(rows[k], classes, groups, spent) /\ rows[k].live
    BY DEF IInv, RowsInv, StartDeployment, May, Live
  <2>. QED  BY <2>1 DEF RowOK, DeploymentOK
<1>2. DeploymentsInv'
  BY <1>1, DeploymentStep DEF IInv, StartDeployment
<1>. QED  BY <1>2, Untouched DEF IInv, StartDeployment

\* The row a deployment writes back is an old one: its class may be gone, but then
\* the key refuses it.
LEMMA SaveDeploymentInv ==
  ASSUME IInv, NEW k \in Cluster, SaveDeployment(k)
  PROVE  IInv'
<1>1. RowOK(dep[k].row, classes, groups, spent)
  BY DEF IInv, DeploymentsInv, DeploymentOK, RowOK, SaveDeployment, Saved, References, ClassLive
<1>2. RowsInv'
  BY <1>1, RowStep DEF IInv, SaveDeployment, Saved
<1>. QED  BY <1>2, Untouched DEF IInv, SaveDeployment

LEMMA EndDeploymentInv ==
  ASSUME IInv, NEW k \in Cluster, EndDeployment(k)
  PROVE  IInv'
<1>1. DeploymentsInv'
  BY Constants, DeploymentStep DEF IInv, EndDeployment
<1>. QED  BY <1>1, Untouched DEF IInv, EndDeployment

LEMMA DetachInv ==
  ASSUME IInv, NEW t \in Request, Detach(t)
  PROVE  IInv'
<1>. DEFINE c == req[t].class
            out(k) == [rows[k] EXCEPT !.class = IF c # None THEN None ELSE rows[k].class,
                                      !.group = None]
            new(k) == IF In(k, c, req[t].group) THEN out(k) ELSE rows[k]
<1>1. RequestOK([req[t] EXCEPT !.at = "submit"], groups, spent)
  BY DEF IInv, RequestsInv, RequestOK, ReqFields
<1>2. RequestsInv'
  <2>1. req' = [req EXCEPT ![t] = [req[t] EXCEPT !.at = "submit"]]
    BY DEF IInv, RequestsInv, Detach
  <2>. QED  BY <1>1, <2>1, RequestStep DEF IInv, Detach
<1>3. \A k \in Cluster : RowOK(new(k), classes, groups, spent)
  <2>. TAKE k \in Cluster
  <2>1. RowOK(rows[k], classes, groups, spent)
    BY DEF IInv, RowsInv
  <2>2. RowOK(out(k), classes, groups, spent)
    BY <2>1 DEF RowOK, Associates, RowFields
  <2>. QED  BY <2>1, <2>2
<1>4. rows' = [k \in Cluster |-> new(k)]
  BY DEF Detach
<1>5. RowsInv'
  <2>. HIDE DEF new
  <2>. QED  BY <1>3, <1>4 DEF RowsInv, Detach, org
<1>. QED  BY <1>2, <1>5, Untouched DEF IInv, Detach

LEMMA RunDeletionInv ==
  ASSUME IInv, NEW j \in jobs, RunDeletion(j)
  PROVE  IInv'
<1>1. RowsInv'
  BY Constants DEF IInv, RowsInv, RunDeletion, org
<1>. QED  BY <1>1, Untouched DEF IInv, RunDeletion

-----------------------------------------------------------------------------
(* Steps that change the tables of accounts, classes and groups *)

LEMMA CreateClassInv ==
  ASSUME IInv, NEW a \in Staff, NEW c \in Class, CreateClass(a, c)
  PROVE  IInv'
<1>1. TablesInv' /\ Kept(classes, groups, spent, classes', groups', spent')
  BY DEF IInv, TablesInv, TablesOK, Kept, CreateClass, ClassLive
<1>2. RequestsInv' /\ CreationsInv' /\ DeploymentsInv'
  BY <1>1, LocalsKept DEF IInv, CreateClass
<1>3. RowsInv'
  <2>1. \A d \in Class : classes[d] # None => classes'[d] # None
    BY DEF IInv, TablesInv, TablesOK, CreateClass, ClassLive
  <2>2. \A k \in Cluster : Associates(rows[k], classes', groups', spent')
    BY <1>1, AssociatesKept DEF IInv, RowsInv, RowOK
  <2>3. \A k \in Cluster : rows[k].class # None => rows[k].class \in Class
    BY DEF IInv, RowsInv, RowOK, Associates
  <2>. QED  BY <2>1, <2>2, <2>3 DEF IInv, RowsInv, RowOK, CreateClass
<1>4. MembersInv' /\ OneGroupPerClass'
  BY DEF IInv, MembersInv, OneGroupPerClass, CreateClass
<1>. QED  BY <1>1, <1>2, <1>3, <1>4 DEF IInv

LEMMA UpdateGroupInv ==
  ASSUME IInv, NEW a \in Staff, NEW g \in Group, NEW m \in 0..MaxSeats, UpdateGroup(a, g, m)
  PROVE  IInv'
<1>1. \A h \in Group : groups'[h].class = groups[h].class /\ DOMAIN groups'[h] = GroupFields
  BY DEF IInv, TablesInv, TablesOK, UpdateGroup, GroupFields
<1>2. TablesInv' /\ Kept(classes, groups, spent, classes', groups', spent')
  BY <1>1 DEF IInv, TablesInv, TablesOK, Kept, UpdateGroup
<1>3. RequestsInv' /\ CreationsInv' /\ DeploymentsInv'
  BY <1>2, LocalsKept DEF IInv, UpdateGroup
<1>4. RowsInv'
  BY <1>2, AssociatesKept DEF IInv, RowsInv, RowOK, UpdateGroup
<1>5. MembersInv' /\ OneGroupPerClass'
  BY <1>1 DEF IInv, MembersInv, MemberOK, OneGroupPerClass, UpdateGroup
<1>. QED  BY <1>2, <1>3, <1>4, <1>5 DEF IInv

LEMMA DeleteStudentInv ==
  ASSUME IInv, NEW u \in Student, DeleteStudent(u)
  PROVE  IInv'
<1>1. TablesInv' /\ Kept(classes, groups, spent, classes', groups', spent')
  BY DEF IInv, TablesInv, Kept, DeleteStudent
<1>2. RequestsInv' /\ CreationsInv' /\ DeploymentsInv'
  BY <1>1, LocalsKept DEF IInv, DeleteStudent
<1>3. RowsInv' /\ MembersInv' /\ OneGroupPerClass'
  BY DEF IInv, RowsInv, MembersInv, OneGroupPerClass, DeleteStudent
<1>. QED  BY <1>1, <1>2, <1>3 DEF IInv

LEMMA MakeGroupInv ==
  ASSUME IInv, NEW t \in Request, NEW g \in Group, NEW m \in 0..MaxSeats, MakeGroup(t, g, m)
  PROVE  IInv'
<1>. DEFINE r == req[t]
            next == IF r.user = None THEN Idle ELSE [r EXCEPT !.at = "readGroup", !.group = g]
<1>1. RequestOK(r, groups, spent)
  BY DEF IInv, RequestsInv
<1>2. CASE ClassLive(r.class)
  <2>1. PICK seats : /\ groups' = [groups EXCEPT ![g] = [class |-> r.class, name |-> r.name,
                                                         max |-> seats, by |-> r.by]]
                     /\ req' = [req EXCEPT ![t] = next]
                     /\ UNCHANGED <<student, classes, spent, members, rows, make, dep>>
    BY <1>2 DEF MakeGroup
  <2>2. TablesInv' /\ Kept(classes, groups, spent, classes', groups', spent')
    BY <1>1, <2>1 DEF IInv, TablesInv, TablesOK, RequestOK, Kept, MakeGroup, GroupLive, GroupFields
  <2>3. RequestsInv'
    <3>1. \A s \in Request : RequestOK(req[s], groups', spent')
      BY <2>2, RequestKept DEF IInv, RequestsInv
    <3>2. RequestOK(next, groups', spent')
      BY <1>1, Constants DEF RequestOK, ReqFields
    <3>. HIDE DEF next
    <3>. QED  BY <2>1, <3>1, <3>2 DEF IInv, RequestsInv
  <2>4. CreationsInv' /\ DeploymentsInv'
    BY <2>1, <2>2, LocalsKept DEF IInv
  <2>5. RowsInv'
    BY <2>1, <2>2, AssociatesKept DEF IInv, RowsInv, RowOK
  <2>6. MembersInv' /\ OneGroupPerClass'
    BY <2>1 DEF IInv, MembersInv, MemberOK, OneGroupPerClass, MakeGroup, GroupLive, TablesInv,
                TablesOK
  <2>. QED  BY <2>2, <2>3, <2>4, <2>5, <2>6 DEF IInv
<1>3. CASE ~ClassLive(r.class)
  BY <1>3, Constants, RequestOnly DEF MakeGroup, org
<1>. QED  BY <1>2, <1>3

\* Classes and groups go with what is in them.
LEMMA RemoveInv ==
  ASSUME IInv, NEW t \in Request, NEW cs, NEW gs, Remove(cs, gs),
         \A k \in Cluster : rows[k].class # None => rows[k].class \notin cs,
         \A c \in Class : c \in gs => FALSE, \A g \in Group : g \in cs => FALSE,
         req' = [req EXCEPT ![t] = Idle], UNCHANGED <<student, make, dep>>
  PROVE  IInv'
<1>1. TablesInv' /\ Kept(classes, groups, spent, classes', groups', spent')
  BY DEF IInv, TablesInv, TablesOK, Kept, Remove, NoGroup, GroupFields
<1>2. RequestsInv'
  <2>1. \A s \in Request : RequestOK(req[s], groups', spent')
    BY <1>1, RequestKept DEF IInv, RequestsInv
  <2>. QED  BY <2>1, Constants DEF IInv, RequestsInv
<1>3. CreationsInv' /\ DeploymentsInv'
  BY <1>1, LocalsKept DEF IInv
<1>4. RowsInv'
  <2>. SUFFICES ASSUME NEW k \in Cluster
                PROVE  RowOK(rows'[k], classes', groups', spent')
    BY DEF RowsInv, Remove
  <2>1. RowOK(rows[k], classes', groups', spent')
    BY <1>1, AssociatesKept DEF IInv, RowsInv, RowOK, Associates, Remove
  <2>2. rows'[k] \in {rows[k], [rows[k] EXCEPT !.group = None]}
    BY DEF Remove
  <2>. QED  BY <2>1, <2>2 DEF RowOK, Associates, RowFields
<1>5. MembersInv' /\ OneGroupPerClass'
  BY DEF IInv, MembersInv, MemberOK, OneGroupPerClass, Remove
<1>. QED  BY <1>1, <1>2, <1>3, <1>4, <1>5 DEF IInv

LEMMA DropInv ==
  ASSUME IInv, NEW t \in Request, Drop(t)
  PROVE  IInv'
<1>. DEFINE c == req[t].class
            g == req[t].group
            gs == {h \in Group : groups[h].class = c}
<1>1. c \in Class \cup {None} /\ g \in Group \cup {None}
  BY DEF IInv, RequestsInv, RequestOK
<1>2. req' = [req EXCEPT ![t] = Idle] /\ UNCHANGED <<student, make, dep>>
  BY DEF Drop
<1>3. CASE c # None /\ Clusters(c, None) = {} /\ Remove({c}, gs)
  <2>1. \A k \in Cluster : rows[k].class # c
    BY <1>3 DEF IInv, RowsInv, RowOK, Clusters, In, Live
  <2>2. PICK cs, hs : cs = {c} /\ hs \subseteq Group /\ Remove(cs, hs)
    BY <1>3 DEF Remove
  <2>3. /\ \A k \in Cluster : rows[k].class # None => rows[k].class \notin cs
        /\ \A d \in Class : d \in hs => FALSE
        /\ \A h \in Group : h \in cs => FALSE
    BY <1>1, <1>3, <2>1, <2>2, MembershipAssumption
  <2>. QED  BY <1>2, <2>2, <2>3, RemoveInv
<1>4. CASE c = None /\ Remove({}, {g})
  <2>1. PICK cs : cs = {}
    OBVIOUS
  <2>2. PICK hs : hs = {g}
    OBVIOUS
  <2>3. Remove(cs, hs)
    BY <1>4, <2>1, <2>2 DEF Remove
  <2>4. /\ \A k \in Cluster : rows[k].class # None => rows[k].class \notin cs
        /\ \A d \in Class : d \in hs => FALSE
        /\ \A h \in Group : h \in cs => FALSE
    BY <1>1, <2>1, <2>2, MembershipAssumption
  <2>. QED  BY <1>2, <2>3, <2>4, RemoveInv
<1>5. CASE UNCHANGED <<classes, groups, spent, members, rows, lost>>
  BY <1>5, Constants, RequestOnly DEF Drop, org
<1>. QED  BY <1>3, <1>4, <1>5 DEF Drop

-----------------------------------------------------------------------------
(* The theorems *)

LEMMA StutterInv ==
  ASSUME IInv, UNCHANGED vars
  PROVE  IInv'
BY Untouched DEF IInv, vars

LEMMA SubmitDeletionInv ==
  ASSUME IInv, NEW k \in Cluster, NEW a \in Staff, SubmitDeletion(k, a)
  PROVE  IInv'
BY Untouched DEF IInv, SubmitDeletion

LEMMA NextInv ==
  ASSUME IInv, [Next]_vars
  PROVE  IInv'
<1>1. CASE StaffNext
  BY <1>1, CreateClassInv, UpdateGroupInv, StartCreationInv, StartDeploymentInv, SubmitDeletionInv,
     StartInv DEF StaffNext
<1>2. CASE MemberNext
  BY <1>2, StartInv, RemoveMemberInv, DeleteStudentInv DEF MemberNext
<1>3. CASE \E t \in Request : Step(t)
  BY <1>3, FindGroupInv, ReadGroupInv, InsertMemberInv, MakeGroupInv, ListClustersInv, DetachInv,
     SubmitNextInv, DropInv DEF Step
<1>4. CASE \E k \in Cluster : ClusterNext(k)
  BY <1>4, FailCreationInv, ReadNumbersInv, WriteNumbersInv, AttachInv, ResaveInv,
     SaveDeploymentInv, EndDeploymentInv DEF ClusterNext
<1>5. CASE \E j \in jobs : RunDeletion(j)
  BY <1>5, RunDeletionInv
<1>6. CASE UNCHANGED vars
  BY <1>6, StutterInv
<1>. QED  BY <1>1, <1>2, <1>3, <1>4, <1>5, <1>6 DEF Next

LEMMA InitInv == Init => IInv
<1>. SUFFICES ASSUME Init PROVE IInv
  OBVIOUS
<1>1. TablesInv
  BY MembershipAssumption DEF Init, TablesInv, TablesOK, NoGroup, GroupFields
<1>2. RequestsInv /\ RowsInv /\ CreationsInv /\ DeploymentsInv
  BY Constants DEF Init, RequestsInv, RowsInv, CreationsInv, DeploymentsInv
<1>3. MembersInv /\ OneGroupPerClass
  BY DEF Init, MembersInv, OneGroupPerClass
<1>. QED  BY <1>1, <1>2, <1>3 DEF IInv

\* Associations hold as long as their class and group do, at every step of
\* every request: what add_group_member, validate_cluster_creation and the
\* foreign keys of db.py keep true together.
THEOREM MembershipInductive == Spec => []IInv
<1>1. Init => IInv
  BY InitInv
<1>2. IInv /\ [Next]_vars => IInv'
  BY NextInv
<1>. QED  BY <1>1, <1>2, PTL DEF Spec

\* A student is in at most one group of a class, whoever adds him (the unique
\* key behind db.py's add_group_member).
THEOREM SingleGroup == Spec => []OneGroupPerClass
<1>1. IInv => OneGroupPerClass
  BY DEF IInv
<1>. QED  BY <1>1, MembershipInductive, PTL

\* The policy lets a teacher into a row she made, and a student into a row of his
\* group.
LEMMA AccessNeeds ==
  ASSUME NEW u \in Teacher \cup student, student \subseteq Student, NEW k \in Cluster,
         P!IsAllowed(Account(u), "webssh.connect", Resource(k), GroupsOf(u))
  PROVE  \/ u \in Teacher /\ rows[k].by = u
         \/ \E m \in members : m.user = u /\ m.group = rows[k].group /\ rows[k].group # None
<1>1. CASE u \in Teacher
  BY <1>1, MembershipAssumption
     DEF P!IsAllowed, P!TeacherMay, P!TeacherUnscoped, P!ClusterOwner, P!TaskActions, P!SameId,
         Account, Resource, Staff
<1>2. CASE u \in student
  BY <1>2, MembershipAssumption
     DEF P!IsAllowed, P!StudentMay, P!StudentGroup, P!TaskActions, P!SameId, Account, Resource,
         GroupsOf, Staff
<1>. QED  BY <1>1, <1>2

\* Nobody from outside a class reaches its clusters: the policy of authz.py asks
\* a row for its group and its creator only, and the tables keep both in the
\* row's class.
THEOREM AccessStaysInClass == Spec => []AccessFollowsClass
<1>1. IInv => AccessFollowsClass
  <2>. SUFFICES ASSUME IInv, NEW k \in Cluster, NEW u \in Teacher \cup student,
                       rows[k].class # None,
                       P!IsAllowed(Account(u), "webssh.connect", Resource(k), GroupsOf(u))
                PROVE  \/ classes[rows[k].class] = u
                       \/ \E m \in members : m.user = u /\ m.class = rows[k].class
    BY DEF AccessFollowsClass
  <2>1. TablesOK(classes, groups, spent) /\ student \subseteq Student
    BY DEF IInv, TablesInv
  <2>2. RowOK(rows[k], classes, groups, spent)
    BY DEF IInv, RowsInv
  <2>3. CASE u \in Teacher /\ rows[k].by = u
    BY <2>1, <2>2, <2>3 DEF TablesOK, RowOK, Associates
  <2>4. ASSUME NEW m \in members, m.user = u, m.group = rows[k].group, rows[k].group # None
        PROVE  m.class = rows[k].class
    <3>1. MemberOK(m, groups)
      BY DEF IInv, MembersInv
    <3>. QED  BY <2>1, <2>2, <2>4, <3>1 DEF TablesOK, RowOK, Associates, MemberOK
  <2>. QED  BY <2>1, <2>3, <2>4, AccessNeeds
<1>. QED  BY <1>1, MembershipInductive, PTL

-----------------------------------------------------------------------------
(* Lowest numbers *)

LEMMA LeastExists ==
  ASSUME NEW S \in SUBSET Nat, S # {}
  PROVE  \E n \in S : \A m \in S : n <= m
<1>1. PICK n \in S : \A m \in S : ~ (<<m, n>> \in OpToRel(<, Nat))
  BY NatLessThanWellFounded, WFMin, Zenon
<1>2. \A m \in S : ~ (m < n)
  BY <1>1 DEF OpToRel
<1>. QED  BY <1>2

LEMMA LowestIsOne ==
  ASSUME NEW S \in SUBSET Nat, S # {}
  PROVE  Lowest(S) \in S
BY LeastExists DEF Lowest

\* The elements of a finite set with fewer than c below them are c many.
LEMMA LowestMany ==
  ASSUME NEW S \in SUBSET Nat, IsFiniteSet(S), NEW c \in 0..Cardinality(S)
  PROVE  /\ IsFiniteSet({n \in S : Cardinality({m \in S : m < n}) < c})
         /\ Cardinality({n \in S : Cardinality({m \in S : m < n}) < c}) = c
<1>. DEFINE Below(n) == {m \in S : m < n}
            rank == [n \in S |-> Cardinality(Below(n))]
            T == {n \in S : Cardinality(Below(n)) < c}
            low == [n \in T |-> Cardinality(Below(n))]
            N == 0..(Cardinality(S) - 1)
            C == 0..(c - 1)
<1>1. Cardinality(S) \in Nat
  BY FS_CardinalityType
<1>2. \A n \in S : IsFiniteSet(Below(n)) /\ Cardinality(Below(n)) \in N
  <2>. SUFFICES ASSUME NEW n \in S
                PROVE  IsFiniteSet(Below(n)) /\ Cardinality(Below(n)) \in N
    OBVIOUS
  <2>1. Below(n) \in SUBSET S /\ Below(n) # S
    OBVIOUS
  <2>2. /\ IsFiniteSet(Below(n)) /\ Cardinality(Below(n)) <= Cardinality(S)
        /\ Cardinality(Below(n)) # Cardinality(S)
    <3>. HIDE DEF Below
    <3>. QED  BY <2>1, FS_Subset
  <2>3. Cardinality(Below(n)) \in Nat
    <3>. HIDE DEF Below
    <3>. QED  BY <2>2, FS_CardinalityType
  <2>. QED  BY <1>1, <2>2, <2>3
<1>3. \A m, n \in S : m < n => Cardinality(Below(m)) # Cardinality(Below(n))
  <2>. SUFFICES ASSUME NEW m \in S, NEW n \in S, m < n
                PROVE  Cardinality(Below(m)) # Cardinality(Below(n))
    OBVIOUS
  <2>1. Below(m) \in SUBSET Below(n) /\ Below(m) # Below(n)
    <3>1. m \in Below(n) /\ m \notin Below(m)
      OBVIOUS
    <3>2. \A x \in Below(m) : x \in Below(n)
      OBVIOUS
    <3>. QED  BY <3>1, <3>2
  <2>. HIDE DEF Below
  <2>. QED  BY <1>2, <2>1, FS_Subset
<1>4. \A m, n \in S : Cardinality(Below(m)) = Cardinality(Below(n)) => m = n
  BY <1>3
<1>5. IsFiniteSet(N) /\ Cardinality(N) = Cardinality(S) /\ IsFiniteSet(C) /\ Cardinality(C) = c
  <2>1. \A i \in Nat : IsFiniteSet(0..(i - 1)) /\ Cardinality(0..(i - 1)) = i
    <3>. SUFFICES ASSUME NEW i \in Nat
                  PROVE  IsFiniteSet(0..(i - 1)) /\ Cardinality(0..(i - 1)) = i
      OBVIOUS
    <3>1. PICK j \in Int : j = i - 1
      OBVIOUS
    <3>2. IsFiniteSet(0..j) /\ Cardinality(0..j) = IF 0 > j THEN 0 ELSE j - 0 + 1
      BY FS_Interval
    <3>. QED  BY <3>1, <3>2
  <2>. QED  BY <1>1, <2>1
<1>. HIDE DEF Below
<1>6. rank \in Injection(S, N)
  BY <1>2, <1>4 DEF Injection, IsInjective
<1>7. rank \in Surjection(S, N)
  BY <1>5, <1>6, FS_Injection
<1>8. low \in [T -> C]
  <2>1. \A n \in T : Cardinality(Below(n)) \in C
    BY <1>1, <1>2
  <2>. HIDE DEF T, C
  <2>. QED  BY <2>1
<1>9. low \in Injection(T, C)
  <2>1. \A m, n \in T : low[m] = low[n] => m = n
    BY <1>4
  <2>. HIDE DEF T, C, low
  <2>. QED  BY <1>8, <2>1 DEF Injection, IsInjective
<1>10. low \in Surjection(T, C)
  <2>1. ASSUME NEW i \in C PROVE \E n \in T : low[n] = i
    <3>1. i \in N
      BY <1>1
    <3>2. PICK n \in S : rank[n] = i
      <4>. HIDE DEF rank, N
      <4>. QED  BY <1>7, <3>1 DEF Surjection
    <3>3. n \in T
      BY <3>2
    <3>. QED  BY <3>2, <3>3
  <2>. HIDE DEF T, C, low
  <2>. QED  BY <1>8, <2>1 DEF Surjection
<1>11. IsFiniteSet(T) /\ Cardinality(T) = c
  <2>. HIDE DEF low, T, C
  <2>. QED  BY <1>5, <1>9, <1>10, FS_Injection
<1>. QED  BY <1>11 DEF Below

-----------------------------------------------------------------------------
(* What the numbers rest on: whoever is between its read and its write knows  *)
(* of the members that got a number it is about to write.                     *)

Distinct(p) == \A u, v \in DOMAIN p : p[u] = p[v] => u = v

SeatsInv == IsFiniteSet(members) /\ \A g \in Group : groups[g].max \in Nat

RequestKnows(r, ms) ==
  r.at = "insertMember" =>
    \A m \in ms : m.group = r.group /\ m.num = r.num /\ m.num # NoNumber => m.user \in r.over

MakerKnows(x, ms) ==
  x.at = "number" =>
    /\ Distinct(x.plan)
    /\ \A m \in ms, u \in DOMAIN x.plan :
         m.group = x.group /\ m.num = x.plan[u] => m.user \in x.over

NumbersInv ==
  /\ SeatsInv /\ SharedNumberMeansOverlap
  /\ \A t \in Request : RequestKnows(req[t], members)
  /\ \A k \in Cluster : MakerKnows(make[k], members)

\* Fewer members are no harm.
LEMMA NumbersKeep ==
  ASSUME NumbersInv, members' \subseteq members, \A g \in Group : groups'[g].max \in Nat,
         \A t \in Request : RequestKnows(req'[t], members),
         \A k \in Cluster : MakerKnows(make'[k], members)
  PROVE  NumbersInv'
<1>1. SeatsInv'
  BY FS_Subset DEF NumbersInv, SeatsInv
<1>2. SharedNumberMeansOverlap'
  BY DEF NumbersInv, SharedNumberMeansOverlap
<1>3. /\ \A t \in Request : RequestKnows(req'[t], members')
      /\ \A k \in Cluster : MakerKnows(make'[k], members')
  BY DEF RequestKnows, MakerKnows
<1>. QED  BY <1>1, <1>2, <1>3 DEF NumbersInv

LEMMA NumbersRequest ==
  ASSUME IInv, NumbersInv, UNCHANGED <<groups, members, make>>, NEW t \in Request, NEW r,
         r.at # "insertMember", req' = [req EXCEPT ![t] = r]
  PROVE  NumbersInv'
<1>1. \A s \in Request : RequestKnows(req'[s], members)
  BY DEF IInv, RequestsInv, NumbersInv, RequestKnows
<1>. QED  BY <1>1, NumbersKeep DEF NumbersInv, SeatsInv

LEMMA NumbersCreation ==
  ASSUME IInv, NumbersInv, UNCHANGED <<groups, members, req>>, NEW k \in Cluster, NEW x,
         x.at # "number", make' = [make EXCEPT ![k] = x]
  PROVE  NumbersInv'
<1>1. \A j \in Cluster : MakerKnows(make'[j], members)
  BY DEF IInv, CreationsInv, NumbersInv, MakerKnows
<1>. QED  BY <1>1, NumbersKeep DEF NumbersInv, SeatsInv

LEMMA NumbersQuiet ==
  ASSUME NumbersInv, UNCHANGED <<groups, members, req, make>>
  PROVE  NumbersInv'
BY NumbersKeep DEF NumbersInv, SeatsInv

LEMMA FreeSeats ==
  ASSUME SeatsInv, NEW g \in Group, NEW taken
  PROVE  Free(g, taken) \in SUBSET Nat /\ IsFiniteSet(Free(g, taken))
<1>1. IsFiniteSet(1..groups[g].max)
  BY FS_Interval DEF SeatsInv
<1>2. Free(g, taken) \in SUBSET (1..groups[g].max)
  BY DEF Free
<1>. QED  BY <1>1, <1>2, FS_Subset DEF SeatsInv

\* add_group_member reads a number that no member has.
LEMMA NextNumberIsFree ==
  ASSUME SeatsInv, NEW g \in Group, NextNumber(g) # NoNumber
  PROVE  \A m \in members : m.group = g => m.num # NextNumber(g)
<1>1. Free(g, Taken(g)) # {}
  BY DEF NextNumber, Lowest
<1>2. NextNumber(g) \in Free(g, Taken(g))
  BY <1>1, FreeSeats, LowestIsOne DEF NextNumber
<1>. QED  BY <1>2 DEF Free, Taken, MembersOf

\* backfill_group_student_numbers plans different numbers that no member has.
LEMMA PlansAreFree ==
  ASSUME SeatsInv, NEW g \in Group, NEW p \in Plans(g)
  PROVE  Distinct(p) /\ \A u \in DOMAIN p, m \in members : m.group = g => m.num # p[u]
<1>. DEFINE free == Free(g, Taken(g))
            given(us) == {n \in free : Cardinality({m \in free : m < n}) < Cardinality(us)}
<1>1. PICK us \in SUBSET Unnumbered(g) :
        /\ Cardinality(us) = IF Cardinality(free) < Cardinality(Unnumbered(g))
                             THEN Cardinality(free) ELSE Cardinality(Unnumbered(g))
        /\ p \in [us -> given(us)]
        /\ \A n \in given(us) : \E u \in us : p[u] = n
  BY DEF Plans
<1>2. free \in SUBSET Nat /\ IsFiniteSet(free) /\ Cardinality(free) \in Nat
  BY FreeSeats, FS_CardinalityType
<1>3. IsFiniteSet(Unnumbered(g))
  <2>. DEFINE of == {n \in MembersOf(g) : n.num = NoNumber}
              user == [n \in of |-> n.user]
  <2>1. IsFiniteSet(of)
    BY FS_Subset DEF SeatsInv, MembersOf
  <2>2. user \in Surjection(of, Unnumbered(g))
    BY DEF Unnumbered, Surjection
  <2>. HIDE DEF of, user
  <2>. QED  BY <2>1, <2>2, FS_Surjection
<1>4. IsFiniteSet(us) /\ Cardinality(us) \in Nat /\ Cardinality(Unnumbered(g)) \in Nat
  BY <1>3, FS_Subset, FS_CardinalityType
<1>5. Cardinality(us) \in 0..Cardinality(free)
  BY <1>1, <1>2, <1>4
<1>6. Cardinality(given(us)) = Cardinality(us)
  <2>. HIDE DEF free
  <2>. QED  BY <1>2, <1>5, LowestMany
<1>7. p \in Surjection(us, given(us))
  BY <1>1 DEF Surjection
<1>8. p \in Injection(us, given(us))
  <2>. HIDE DEF given
  <2>. QED  BY <1>4, <1>6, <1>7, FS_SurjSameCardinalityImpliesInj
<1>9. Distinct(p)
  BY <1>8 DEF Injection, IsInjective, Distinct
<1>10. ASSUME NEW u \in DOMAIN p PROVE p[u] \in free
  BY <1>1
<1>. QED  BY <1>9, <1>10 DEF Free, Taken, MembersOf, NoNumber

-----------------------------------------------------------------------------
(* One lemma per step that reads or writes numbers, one for the others *)

LEMMA NumbersStart ==
  ASSUME IInv, NumbersInv, NEW t \in Request
  PROVE  /\ \A a \in Staff, c \in Class, n \in GroupName : StartGroup(t, a, c, n) => NumbersInv'
         /\ \A a \in Staff, c \in Class, n \in GroupName, u \in Student :
              StartImport(t, a, c, n, u) => NumbersInv'
         /\ \A g \in Group, u \in Student : StartAdd(t, g, u) => NumbersInv'
         /\ \A a \in Staff, c \in Class : StartClassDeletion(t, a, c) => NumbersInv'
         /\ \A a \in Staff, g \in Group : StartGroupDeletion(t, a, g) => NumbersInv'
BY NumbersRequest DEF StartGroup, StartImport, StartAdd, StartClassDeletion, StartGroupDeletion,
                      Idle, org

LEMMA NumbersFindGroup ==
  ASSUME IInv, NumbersInv, NEW t \in Request, FindGroup(t)
  PROVE  NumbersInv'
<1>1. PICK r : r.at # "insertMember" /\ req' = [req EXCEPT ![t] = r]
  <2>1. DOMAIN req[t] = ReqFields
    BY DEF IInv, RequestsInv, RequestOK
  <2>2. CASE \E g \in Group : req' = [req EXCEPT ![t].at = "readGroup", ![t].group = g]
    <3>1. PICK g \in Group : req' = [req EXCEPT ![t].at = "readGroup", ![t].group = g]
      BY <2>2
    <3>2. req' = [req EXCEPT ![t] = [req[t] EXCEPT !.at = "readGroup", !.group = g]]
      BY <3>1 DEF IInv, RequestsInv
    <3>3. [req[t] EXCEPT !.at = "readGroup", !.group = g].at = "readGroup"
      BY <2>1 DEF ReqFields
    <3>. QED  BY <3>2, <3>3
  <2>3. CASE req' = [req EXCEPT ![t].at = "makeGroup"]
    <3>1. [req[t] EXCEPT !.at = "makeGroup"].at = "makeGroup"
      BY <2>1 DEF ReqFields
    <3>. QED  BY <2>3, <3>1
  <2>. QED  BY <2>2, <2>3, Zenon DEF FindGroup
<1>. QED  BY <1>1, NumbersRequest DEF FindGroup, org

LEMMA NumbersReadGroup ==
  ASSUME IInv, NumbersInv, NEW t \in Request, ReadGroup(t)
  PROVE  NumbersInv'
<1>. DEFINE g == req[t].group
            r == [req[t] EXCEPT !.at = "insertMember", !.class = groups[g].class,
                                !.num = NextNumber(g), !.over = {}]
<1>1. RequestOK(req[t], groups, spent) /\ req[t].at = "readGroup"
  BY DEF IInv, RequestsInv, ReadGroup
<1>2. CASE req' = [req EXCEPT ![t] = Idle]
  BY <1>2, NumbersRequest DEF ReadGroup, Idle, org
<1>3. CASE req' = [req EXCEPT ![t] = r]
  <2>1. g \in Group /\ r.group = g /\ r.num = NextNumber(g)
    BY <1>1 DEF RequestOK, ReqFields
  <2>2. NextNumber(g) # NoNumber => \A m \in members : m.group = g => m.num # NextNumber(g)
    BY <2>1, NextNumberIsFree DEF NumbersInv
  <2>3. RequestKnows(r, members)
    <3>. HIDE DEF r
    <3>. QED  BY <2>1, <2>2 DEF RequestKnows
  <2>4. \A s \in Request : RequestKnows(req'[s], members)
    <3>. HIDE DEF r
    <3>. QED  BY <1>3, <2>3 DEF IInv, RequestsInv, NumbersInv
  <2>. QED  BY <2>4, NumbersKeep DEF ReadGroup, org, NumbersInv, SeatsInv
<1>. QED  BY <1>2, <1>3, Zenon DEF ReadGroup

\* Who overtakes, and is told, does no harm to those who know.
LEMMA OvertakeTells ==
  ASSUME IInv, NumbersInv, NEW us
  PROVE  /\ \A s \in Request : LET r == Overtake(us)[s] IN
              /\ RequestKnows(r, members)
              /\ r.at = req[s].at /\ r.group = req[s].group /\ r.num = req[s].num
              /\ r.at = "insertMember" => us \subseteq r.over
         /\ \A k \in Cluster : LET x == OvertakeMakers(us)[k] IN
              /\ MakerKnows(x, members)
              /\ x.at = make[k].at /\ x.group = make[k].group /\ x.plan = make[k].plan
              /\ x.at = "number" => us \subseteq x.over
<1>1. \A s \in Request : DOMAIN req[s] = ReqFields
  BY DEF IInv, RequestsInv, RequestOK
<1>2. \A k \in Cluster : DOMAIN make[k] = MakeFields
  BY DEF IInv, CreationsInv, CreationOK
<1>3. ASSUME NEW s \in Request
      PROVE  LET r == Overtake(us)[s] IN
              /\ RequestKnows(r, members)
              /\ r.at = req[s].at /\ r.group = req[s].group /\ r.num = req[s].num
              /\ r.at = "insertMember" => us \subseteq r.over
  <2>1. RequestKnows(req[s], members)
    BY DEF NumbersInv
  <2>2. CASE req[s].at = "insertMember"
    <3>1. Overtake(us)[s] = [req[s] EXCEPT !.over = req[s].over \cup us]
      BY <2>2 DEF Overtake
    <3>. QED  BY <1>1, <2>1, <3>1 DEF RequestKnows, ReqFields
  <2>3. CASE req[s].at # "insertMember"
    BY <2>1, <2>3 DEF Overtake
  <2>. QED  BY <2>2, <2>3
<1>4. ASSUME NEW k \in Cluster
      PROVE  LET x == OvertakeMakers(us)[k] IN
              /\ MakerKnows(x, members)
              /\ x.at = make[k].at /\ x.group = make[k].group /\ x.plan = make[k].plan
              /\ x.at = "number" => us \subseteq x.over
  <2>1. MakerKnows(make[k], members)
    BY DEF NumbersInv
  <2>2. CASE make[k].at = "number"
    <3>1. OvertakeMakers(us)[k] = [make[k] EXCEPT !.over = make[k].over \cup us]
      BY <2>2 DEF OvertakeMakers
    <3>. QED  BY <1>2, <2>1, <3>1 DEF MakerKnows, MakeFields
  <2>3. CASE make[k].at # "number"
    BY <2>1, <2>3 DEF OvertakeMakers
  <2>. QED  BY <2>2, <2>3
<1>. QED  BY <1>3, <1>4

LEMMA NumbersInsertMember ==
  ASSUME IInv, NumbersInv, NEW t \in Request, InsertMember(t)
  PROVE  NumbersInv'
<1>. DEFINE r == req[t]
            m == [user |-> r.user, group |-> r.group, class |-> r.class, num |-> r.num,
                  over |-> r.over]
<1>1. CASE Admits(r.user, r.group, r.class)
  <2>1. /\ members' = members \cup {m} /\ make' = OvertakeMakers({r.user})
        /\ req' = [Overtake({r.user}) EXCEPT ![t] = Idle]
        /\ UNCHANGED groups
    BY <1>1 DEF InsertMember, org
  <2>2. SeatsInv'
    <3>. HIDE DEF m
    <3>. QED  BY <2>1, FS_AddElement DEF NumbersInv, SeatsInv
  <2>3. \A n \in members : n.group = r.group /\ n.num = r.num /\ n.num # NoNumber => n.user \in r.over
    BY DEF NumbersInv, RequestKnows, InsertMember
  <2>4. SharedNumberMeansOverlap'
    BY <2>1, <2>3 DEF NumbersInv, SharedNumberMeansOverlap
  <2>5. ASSUME NEW s \in Request PROVE RequestKnows(req'[s], members')
    <3>1. CASE s = t
      BY <2>1, <3>1 DEF RequestKnows, Overtake, Idle
    <3>2. CASE s # t
      <4>1. req'[s] = Overtake({r.user})[s]
        BY <2>1, <3>2 DEF Overtake
      <4>2. PICK q : q = Overtake({r.user})[s]
        OBVIOUS
      <4>3. RequestKnows(q, members) /\ (q.at = "insertMember" => r.user \in q.over)
        BY <4>2, OvertakeTells
      <4>. QED  BY <2>1, <4>1, <4>2, <4>3 DEF RequestKnows
    <3>. QED  BY <3>1, <3>2
  <2>6. ASSUME NEW k \in Cluster PROVE MakerKnows(make'[k], members')
    <3>1. PICK x : x = OvertakeMakers({r.user})[k]
      OBVIOUS
    <3>2. MakerKnows(x, members) /\ (x.at = "number" => r.user \in x.over)
      BY <3>1, OvertakeTells
    <3>3. \A n \in members' : n \in members \/ n.user = r.user
      BY <2>1
    <3>4. MakerKnows(x, members')
      BY <3>2, <3>3 DEF MakerKnows
    <3>. QED  BY <2>1, <3>1, <3>4
  <2>. QED  BY <2>2, <2>4, <2>5, <2>6 DEF NumbersInv
<1>2. CASE ~Admits(r.user, r.group, r.class)
  BY <1>2, NumbersRequest DEF InsertMember, Idle, org
<1>. QED  BY <1>1, <1>2

LEMMA NumbersReadNumbers ==
  ASSUME IInv, NumbersInv, NEW k \in Cluster, ReadNumbers(k)
  PROVE  NumbersInv'
<1>. DEFINE g == make[k].group
            x(p) == [make[k] EXCEPT !.at = "number", !.plan = p, !.over = {}]
<1>1. CreationOK(make[k], classes, groups, spent)
  BY DEF IInv, CreationsInv
<1>2. CASE make' = [make EXCEPT ![k].at = "attach"]
  <2>1. [make[k] EXCEPT !.at = "attach"].at = "attach"
    BY <1>1 DEF CreationOK, MakeFields
  <2>. QED  BY <1>2, <2>1, NumbersCreation DEF ReadNumbers, org
<1>3. CASE g # None /\ \E p \in Plans(g) : make' = [make EXCEPT ![k] = x(p)]
  <2>1. PICK p \in Plans(g) : make' = [make EXCEPT ![k] = x(p)]
    BY <1>3
  <2>2. g \in Group
    BY <1>1, <1>3 DEF CreationOK, Associates
  <2>3. Distinct(p) /\ \A u \in DOMAIN p, m \in members : m.group = g => m.num # p[u]
    BY <2>2, PlansAreFree DEF NumbersInv
  <2>4. x(p).group = g /\ x(p).plan = p
    BY <1>1 DEF CreationOK, MakeFields
  <2>5. MakerKnows(x(p), members)
    <3>. HIDE DEF x
    <3>. QED  BY <2>3, <2>4 DEF MakerKnows
  <2>6. \A j \in Cluster : MakerKnows(make'[j], members)
    <3>. HIDE DEF x
    <3>. QED  BY <2>1, <2>5 DEF IInv, CreationsInv, NumbersInv
  <2>. QED  BY <2>6, NumbersKeep DEF ReadNumbers, org, NumbersInv, SeatsInv
<1>. QED  BY <1>2, <1>3 DEF ReadNumbers

LEMMA NumbersWriteNumbers ==
  ASSUME IInv, NumbersInv, NEW k \in Cluster, WriteNumbers(k)
  PROVE  NumbersInv'
<1>. DEFINE plan == make[k].plan
            us == DOMAIN plan
            mine(m) == m.group = make[k].group /\ m.user \in us
            new(m) == IF mine(m) THEN [m EXCEPT !.num = plan[m.user], !.over = make[k].over] ELSE m
<1>1. CASE /\ members' = {new(m) : m \in members} /\ req' = Overtake(us)
           /\ make' = [OvertakeMakers(us) EXCEPT
                         ![k] = [@ EXCEPT !.at = "attach", !.plan = <<>>, !.over = {}]]
  <2>1. \A m \in members : /\ new(m).user = m.user /\ new(m).group = m.group
                           /\ mine(m) => new(m).num = plan[m.user] /\ new(m).over = make[k].over
                           /\ ~mine(m) => new(m) = m
    BY DEF IInv, MembersInv, MemberOK
  <2>2. MakerKnows(make[k], members) /\ make[k].at = "number"
    BY DEF NumbersInv, WriteNumbers
  <2>3. \A m, n \in members : m.group = n.group /\ m.user = n.user => m = n
    BY DEF IInv, MembersInv, MemberOK, OneGroupPerClass
  <2>. HIDE DEF new
  <2>4. \A x \in members' : \E m \in members : x = new(m)
    BY <1>1
  <2>5. SeatsInv'
    <3>. DEFINE f == [m \in members |-> new(m)]
    <3>1. f \in Surjection(members, members')
      BY <1>1 DEF Surjection
    <3>. HIDE DEF f
    <3>. QED  BY <3>1, FS_Surjection DEF NumbersInv, SeatsInv, WriteNumbers, org
  <2>6. ASSUME NEW m \in members, NEW n \in members, new(m) # new(n),
               new(m).group = new(n).group, new(m).num = new(n).num, new(m).num # NoNumber
        PROVE  new(m).user \in new(n).over \/ new(n).user \in new(m).over
    <3>1. m.user # n.user /\ m.group = n.group
      BY <2>1, <2>3, <2>6
    <3>2. CASE mine(m) /\ mine(n)
      BY <2>1, <2>2, <2>6, <3>1, <3>2 DEF MakerKnows, Distinct
    <3>3. CASE mine(m) /\ ~mine(n)
      BY <2>1, <2>2, <2>6, <3>1, <3>3 DEF MakerKnows
    <3>4. CASE ~mine(m) /\ mine(n)
      BY <2>1, <2>2, <2>6, <3>1, <3>4 DEF MakerKnows
    <3>5. CASE ~mine(m) /\ ~mine(n)
      BY <2>1, <2>6, <3>5 DEF NumbersInv, SharedNumberMeansOverlap
    <3>. QED  BY <3>2, <3>3, <3>4, <3>5
  <2>7. SharedNumberMeansOverlap'
    BY <2>4, <2>6 DEF SharedNumberMeansOverlap
  <2>8. ASSUME NEW s \in Request PROVE RequestKnows(req'[s], members')
    <3>1. PICK q : q = Overtake(us)[s]
      OBVIOUS
    <3>2. RequestKnows(q, members) /\ (q.at = "insertMember" => us \subseteq q.over)
      BY <3>1, OvertakeTells
    <3>3. RequestKnows(q, members')
      BY <2>1, <2>4, <3>2 DEF RequestKnows
    <3>. QED  BY <1>1, <3>1, <3>3
  <2>9. ASSUME NEW j \in Cluster PROVE MakerKnows(make'[j], members')
    <3>1. PICK x : x = OvertakeMakers(us)[j]
      OBVIOUS
    <3>2. MakerKnows(x, members) /\ (x.at = "number" => us \subseteq x.over)
      BY <3>1, OvertakeTells
    <3>3. MakerKnows(x, members')
      BY <2>1, <2>4, <3>2 DEF MakerKnows
    <3>4. CASE j # k
      BY <1>1, <3>1, <3>3, <3>4 DEF OvertakeMakers
    <3>5. CASE j = k
      <4>1. DOMAIN OvertakeMakers(us)[k] = MakeFields
        BY OvertakeKeeps DEF CreationOK, WriteNumbers
      <4>2. make'[k] = [OvertakeMakers(us)[k] EXCEPT !.at = "attach", !.plan = <<>>, !.over = {}]
        BY <1>1 DEF OvertakeMakers
      <4>3. make'[k].at = "attach"
        BY <4>1, <4>2 DEF MakeFields
      <4>. QED  BY <3>5, <4>3 DEF MakerKnows
    <3>. QED  BY <3>4, <3>5
  <2>. QED  BY <2>5, <2>7, <2>8, <2>9 DEF NumbersInv
<1>2. CASE make' = [make EXCEPT ![k] = [NoMake EXCEPT !.at = "failed"]] /\ UNCHANGED <<members, req>>
  <2>1. [NoMake EXCEPT !.at = "failed"].at = "failed"
    BY DEF NoMake
  <2>. QED  BY <1>2, <2>1, NumbersCreation DEF WriteNumbers, org
<1>. QED  BY <1>1, <1>2, Zenon DEF WriteNumbers

\* The other steps write no numbers, and where members go only fewer are left.
LEMMA NumbersOthers ==
  ASSUME IInv, NumbersInv
  PROVE  /\ \A a \in Staff, c \in Class : CreateClass(a, c) => NumbersInv'
         /\ \A u \in Student : DeleteStudent(u) => NumbersInv'
         /\ \A t \in Request : ListClusters(t) \/ Detach(t) \/ SubmitNext(t) => NumbersInv'
         /\ \A k \in Cluster, a \in Staff :
              StartDeployment(k, a) \/ SubmitDeletion(k, a) => NumbersInv'
         /\ \A k \in Cluster : SaveDeployment(k) \/ EndDeployment(k) => NumbersInv'
         /\ \A j \in jobs : RunDeletion(j) => NumbersInv'
         /\ UNCHANGED vars => NumbersInv'
<1>1. ASSUME NEW a \in Staff, NEW c \in Class, CreateClass(a, c) PROVE NumbersInv'
  BY <1>1, NumbersQuiet DEF CreateClass
<1>2. ASSUME NEW u \in Student, DeleteStudent(u) PROVE NumbersInv'
  BY <1>2, NumbersKeep DEF DeleteStudent, NumbersInv, SeatsInv
<1>3. ASSUME NEW t \in Request, ListClusters(t) \/ Detach(t) \/ SubmitNext(t) PROVE NumbersInv'
  <2>1. /\ RequestOK(req[t], groups, spent) /\ req[t].at # "insertMember"
        /\ UNCHANGED <<groups, members, make>>
    BY <1>3 DEF IInv, RequestsInv, ListClusters, Detach, SubmitNext, org
  <2>2. \A ns : /\ [req[t] EXCEPT !.at = "detach", !.names = ns].at # "insertMember"
                /\ [req[t] EXCEPT !.at = "submit"].at # "insertMember"
                /\ [req[t] EXCEPT !.names = ns].at # "insertMember"
                /\ Idle.at # "insertMember"
    BY <2>1 DEF RequestOK, ReqFields, Idle
  <2>3. PICK r : r.at # "insertMember" /\ req' = [req EXCEPT ![t] = r]
    <3>1. CASE ListClusters(t)
      <4>1. PICK ns : req' = [req EXCEPT ![t].at = "detach", ![t].names = ns]
        BY <3>1 DEF ListClusters
      <4>2. req' = [req EXCEPT ![t] = [req[t] EXCEPT !.at = "detach", !.names = ns]]
        BY <4>1 DEF IInv, RequestsInv
      <4>. QED  BY <2>2, <4>2
    <3>2. CASE Detach(t)
      BY <2>2, <3>2 DEF Detach
    <3>3. CASE SubmitNext(t)
      <4>1. PICK k : \/ req' = [req EXCEPT ![t] = [req[t] EXCEPT !.names = req[t].names \ {k}]]
                     \/ req' = [req EXCEPT ![t] = Idle]
        BY <3>3 DEF SubmitNext
      <4>. QED  BY <2>2, <4>1
    <3>. QED  BY <1>3, <3>1, <3>2, <3>3
  <2>. QED  BY <2>1, <2>3, NumbersRequest
<1>4. ASSUME NEW k \in Cluster, NEW a \in Staff, StartDeployment(k, a) \/ SubmitDeletion(k, a)
      PROVE  NumbersInv'
  BY <1>4, NumbersQuiet DEF StartDeployment, SubmitDeletion, org
<1>5. ASSUME NEW k \in Cluster, SaveDeployment(k) \/ EndDeployment(k) PROVE NumbersInv'
  BY <1>5, NumbersQuiet DEF SaveDeployment, EndDeployment, org
<1>6. ASSUME NEW j \in jobs, RunDeletion(j) PROVE NumbersInv'
  BY <1>6, NumbersQuiet DEF RunDeletion, org
<1>7. ASSUME UNCHANGED vars PROVE NumbersInv'
  BY <1>7, NumbersQuiet DEF vars, org
<1>. QED  BY <1>1, <1>2, <1>3, <1>4, <1>5, <1>6, <1>7

LEMMA NumbersRemoveMember ==
  ASSUME IInv, NumbersInv, NEW m \in members, RemoveMember(m)
  PROVE  NumbersInv'
<1>1. \A k \in Cluster : MakerKnows(make'[k], members)
  <2>. SUFFICES ASSUME NEW k \in Cluster PROVE MakerKnows(make'[k], members)
    OBVIOUS
  <2>1. DOMAIN make[k] = MakeFields /\ MakerKnows(make[k], members)
    BY DEF IInv, CreationsInv, CreationOK, NumbersInv
  <2>2. make'[k] \in {make[k], [make[k] EXCEPT !.stale = TRUE]}
    BY DEF RemoveMember
  <2>. QED  BY <2>1, <2>2 DEF MakerKnows, MakeFields
<1>. QED  BY <1>1, NumbersKeep DEF RemoveMember, org, NumbersInv, SeatsInv

LEMMA NumbersGroups ==
  ASSUME IInv, NumbersInv, NEW g \in Group, NEW m \in 0..MaxSeats
  PROVE  /\ \A a \in Staff : UpdateGroup(a, g, m) => NumbersInv'
         /\ \A t \in Request : MakeGroup(t, g, m) => NumbersInv'
<1>1. ASSUME NEW a \in Staff, UpdateGroup(a, g, m) PROVE NumbersInv'
  <2>1. \A h \in Group : groups'[h].max \in Nat
    BY <1>1, MembershipAssumption
       DEF UpdateGroup, IInv, TablesInv, TablesOK, GroupFields, NumbersInv, SeatsInv
  <2>. QED  BY <1>1, <2>1, NumbersKeep DEF UpdateGroup, NumbersInv
<1>2. ASSUME NEW t \in Request, MakeGroup(t, g, m) PROVE NumbersInv'
  <2>1. UNCHANGED <<members, make>> /\ RequestOK(req[t], groups, spent)
    BY <1>2 DEF MakeGroup, IInv, RequestsInv
  <2>2. \A h \in Group : groups'[h].max \in Nat
    <3>1. CASE UNCHANGED groups
      BY <3>1 DEF NumbersInv, SeatsInv
    <3>2. CASE \E seats \in Nat : groups' = [groups EXCEPT ![g] = [class |-> req[t].class,
                                    name |-> req[t].name, max |-> seats, by |-> req[t].by]]
      BY <3>2 DEF NumbersInv, SeatsInv, IInv, TablesInv, TablesOK
    <3>. QED  BY <1>2, <3>1, <3>2, MembershipAssumption DEF MakeGroup
  <2>3. PICK r : r.at # "insertMember" /\ req' = [req EXCEPT ![t] = r]
    <3>1. [req[t] EXCEPT !.at = "readGroup", !.group = g].at # "insertMember"
      BY <2>1 DEF RequestOK, ReqFields
    <3>2. Idle.at # "insertMember"
      BY DEF Idle
    <3>. QED  BY <1>2, <3>1, <3>2 DEF MakeGroup
  <2>4. \A s \in Request : RequestKnows(req'[s], members)
    BY <2>3 DEF IInv, RequestsInv, NumbersInv, RequestKnows
  <2>. QED  BY <2>1, <2>2, <2>4, NumbersKeep DEF NumbersInv
<1>. QED  BY <1>1, <1>2

LEMMA NumbersDrop ==
  ASSUME IInv, NumbersInv, NEW t \in Request, Drop(t)
  PROVE  NumbersInv'
<1>1. members' \subseteq members /\ \A h \in Group : groups'[h].max \in Nat
  BY DEF Drop, Remove, NoGroup, NumbersInv, SeatsInv
<1>2. \A s \in Request : RequestKnows(req'[s], members)
  BY DEF Drop, IInv, RequestsInv, NumbersInv, RequestKnows, Idle
<1>. QED  BY <1>1, <1>2, NumbersKeep DEF Drop, NumbersInv

LEMMA NumbersCreations ==
  ASSUME IInv, NumbersInv, NEW k \in Cluster
  PROVE  /\ \A a \in Staff, c \in Class \cup {None}, g \in Group \cup {None} :
              StartCreation(k, a, c, g) => NumbersInv'
         /\ FailCreation(k) \/ Attach(k) \/ Resave(k) => NumbersInv'
<1>1. DOMAIN make[k] = MakeFields
  BY DEF IInv, CreationsInv, CreationOK
<1>2. [make[k] EXCEPT !.at = "resave"].at # "number"
  BY <1>1 DEF MakeFields
<1>3. /\ [NoMake EXCEPT !.at = "failed"].at # "number" /\ [NoMake EXCEPT !.at = "done"].at # "number"
      /\ \A a, c, g : [NoMake EXCEPT !.at = "row", !.by = a, !.class = c, !.group = g].at # "number"
  BY DEF NoMake
<1>4. ASSUME NEW a \in Staff, NEW c \in Class \cup {None}, NEW g \in Group \cup {None},
             StartCreation(k, a, c, g)
      PROVE  NumbersInv'
  BY <1>3, <1>4, NumbersCreation DEF StartCreation, org
<1>5. ASSUME FailCreation(k) PROVE NumbersInv'
  BY <1>3, <1>5, NumbersCreation DEF FailCreation, org
<1>6. ASSUME Attach(k) PROVE NumbersInv'
  BY <1>2, <1>3, <1>6, NumbersCreation DEF Attach, org
<1>7. ASSUME Resave(k) PROVE NumbersInv'
  BY <1>3, <1>7, NumbersCreation DEF Resave, org
<1>. QED  BY <1>4, <1>5, <1>6, <1>7

LEMMA NextNumbers ==
  ASSUME IInv, NumbersInv, [Next]_vars
  PROVE  NumbersInv'
<1>1. CASE StaffNext
  BY <1>1, NumbersOthers, NumbersGroups, NumbersCreations, NumbersStart DEF StaffNext
<1>2. CASE MemberNext
  BY <1>2, NumbersStart, NumbersRemoveMember, NumbersOthers DEF MemberNext
<1>3. CASE \E t \in Request : Step(t)
  BY <1>3, NumbersFindGroup, NumbersReadGroup, NumbersInsertMember, NumbersGroups, NumbersOthers,
     NumbersDrop DEF Step
<1>4. CASE \E k \in Cluster : ClusterNext(k)
  BY <1>4, NumbersCreations, NumbersReadNumbers, NumbersWriteNumbers, NumbersOthers
     DEF ClusterNext
<1>5. CASE (\E j \in jobs : RunDeletion(j)) \/ UNCHANGED vars
  BY <1>5, NumbersOthers
<1>. QED  BY <1>1, <1>2, <1>3, <1>4, <1>5 DEF Next

LEMMA InitNumbers == Init => NumbersInv
<1>. SUFFICES ASSUME Init PROVE NumbersInv
  OBVIOUS
<1>1. SeatsInv
  BY MembershipAssumption, FS_EmptySet DEF Init, SeatsInv, NoGroup
<1>2. SharedNumberMeansOverlap /\ \A t \in Request : RequestKnows(req[t], members)
  BY DEF Init, SharedNumberMeansOverlap, RequestKnows
<1>3. \A k \in Cluster : MakerKnows(make[k], members)
  BY DEF Init, MakerKnows, NoMake
<1>. QED  BY <1>1, <1>2, <1>3 DEF NumbersInv

\* Two students share a number only if the requests that numbered them, the
\* insertions of add_group_member and the updates of
\* backfill_group_student_numbers, overlapped: those that follow each other never
\* give one number twice, however many members leave and come back.
THEOREM OnlyOverlapShares == Spec => []SharedNumberMeansOverlap
<1>1. Init => IInv /\ NumbersInv
  BY InitInv, InitNumbers
<1>2. (IInv /\ NumbersInv) /\ [Next]_vars => (IInv /\ NumbersInv)'
  BY NextInv, NextNumbers
<1>3. NumbersInv => SharedNumberMeansOverlap
  BY DEF NumbersInv
<1>. QED  BY <1>1, <1>2, <1>3, PTL DEF Spec

-----------------------------------------------------------------------------
(* What deletions rest on: of the clusters that were in the class or group   *)
(* when a deletion began, each is asked for, lost, named by a request under   *)
(* way, or, before the listing, still where it was.                           *)

Accounted(k) == k \in asked \cup lost \/ \E s \in Request : k \in req[s].names

\* Whoever detaches has listed all that is there, but for what is lost.  Nobody
\* else holds names.
DetachOK(r) ==
  /\ r.at \notin {"detach", "submit"} => r.names = {}
  /\ r.at \in {"list", "detach", "submit"} =>
       r.had \subseteq Cluster /\ (r.class # None \/ r.group # None)
  /\ r.at = "detach" => \A k \in Cluster : In(k, r.class, r.group) => k \in r.names \cup lost

HadOK(r) ==
  r.at \in {"list", "detach", "submit"} =>
    \A k \in Cluster \cap r.had :
      Accounted(k) \/ (r.at = "list" /\ In(k, r.class, r.group))

\* A cluster is associated by the last saves only, and what they write differs
\* from the row only after a deletion that accounted for it.
SavesOK(k) ==
  /\ rows[k].class # None \/ rows[k].group # None \/ dep[k].on
       => make[k].at \in {"resave", "done"}
  /\ make[k].at = "resave" => rows[k] = Entry(k) \/ Accounted(k)
  /\ dep[k].on => dep[k].row = rows[k] \/ Accounted(k)

DeletionsInv ==
  /\ \A j \in jobs : j[1] \in asked
  /\ \A t \in Request : DetachOK(req[t]) /\ HadOK(req[t])
  /\ \A k \in Cluster : SavesOK(k)

\* Nothing that is accounted for is forgotten by a step that keeps the names.
LEMMA AccountedStays ==
  ASSUME asked \subseteq asked', lost \subseteq lost', NEW k, Accounted(k),
         \A s \in Request : k \in req[s].names => Accounted(k)'
  PROVE  Accounted(k)'
BY DEF Accounted

\* A step of one request that leaves the rows alone.
LEMMA DeletionsRequest ==
  ASSUME IInv, DeletionsInv, UNCHANGED <<rows, make, dep>>, NEW t \in Request, NEW r,
         req' = [req EXCEPT ![t] = r], asked \subseteq asked', lost \subseteq lost',
         \A j \in jobs' : j[1] \in asked', req[t].names \subseteq r.names \cup asked' \cup lost',
         DetachOK(r), r.at \in {"list", "detach", "submit"} =>
           \A k \in Cluster \cap r.had :
             \/ Accounted(k) \/ k \in r.names \/ (r.at = "list" /\ In(k, r.class, r.group))
  PROVE  DeletionsInv'
<1>1. req = [s \in Request |-> req[s]]
  BY DEF IInv, RequestsInv
<1>2. \A k : Accounted(k) => Accounted(k)'
  BY <1>1 DEF Accounted
<1>3. \A k : k \in r.names => Accounted(k)'
  BY <1>1 DEF Accounted
<1>4. \A k \in Cluster : \A c, g : In(k, c, g)' <=> In(k, c, g)
  BY DEF In, Live
<1>5. ASSUME NEW s \in Request PROVE DetachOK(req[s])' /\ HadOK(req[s])'
  <2>1. CASE s = t
    <3>1. req'[s] = r
      BY <1>1, <2>1
    <3>2. DetachOK(req[s])'
      BY <1>4, <3>1 DEF DetachOK
    <3>3. HadOK(req[s])'
      BY <1>2, <1>3, <1>4, <3>1 DEF HadOK
    <3>. QED  BY <3>2, <3>3
  <2>2. CASE s # t
    <3>1. req'[s] = req[s] /\ DetachOK(req[s]) /\ HadOK(req[s])
      BY <1>1, <2>2 DEF DeletionsInv
    <3>2. DetachOK(req[s])'
      BY <1>4, <3>1 DEF DetachOK
    <3>3. HadOK(req[s])'
      BY <1>2, <1>4, <3>1 DEF HadOK
    <3>. QED  BY <3>2, <3>3
  <2>. QED  BY <2>1, <2>2
<1>6. \A k \in Cluster : SavesOK(k)'
  BY <1>2 DEF DeletionsInv, SavesOK, Entry
<1>. QED  BY <1>5, <1>6 DEF DeletionsInv

\* A step that leaves the requests, as far as deletions go, and the rows alone.
LEMMA DeletionsLocal ==
  ASSUME IInv, DeletionsInv, UNCHANGED rows, asked \subseteq asked', UNCHANGED lost,
         \A j \in jobs' : j[1] \in asked',
         \A s \in Request : /\ req'[s].at = req[s].at /\ req'[s].class = req[s].class
                            /\ req'[s].group = req[s].group /\ req'[s].names = req[s].names
                            /\ req'[s].had = req[s].had,
         \A k \in Cluster : SavesOK(k) => SavesOK(k)'
  PROVE  DeletionsInv'
<1>1. \A k : Accounted(k) => Accounted(k)'
  BY DEF Accounted
<1>2. \A k \in Cluster : \A c, g : In(k, c, g)' <=> In(k, c, g)
  BY DEF In, Live
<1>3. ASSUME NEW s \in Request PROVE DetachOK(req[s])' /\ HadOK(req[s])'
  <2>1. DetachOK(req[s]) /\ HadOK(req[s])
    BY DEF DeletionsInv
  <2>2. DetachOK(req[s])'
    BY <1>2, <2>1 DEF DetachOK
  <2>3. HadOK(req[s])'
    BY <1>1, <1>2, <2>1 DEF HadOK
  <2>. QED  BY <2>2, <2>3
<1>. QED  BY <1>3 DEF DeletionsInv

\* A step that changes rows: whoever detaches sees nobody arrive unlisted but the
\* lost, and nobody leaves unaccounted for.
LEMMA DeletionsRows ==
  ASSUME IInv, DeletionsInv, lost \subseteq lost', asked \subseteq asked',
         \A j \in jobs' : j[1] \in asked',
         \A k : Accounted(k) => Accounted(k)',
         \A s \in Request :
           \/ req'[s] = req[s]
           \/ /\ req[s].at = "detach" /\ req'[s].at = "submit" /\ req'[s].class = req[s].class
              /\ req'[s].group = req[s].group /\ req'[s].names = req[s].names
              /\ req'[s].had = req[s].had
           \/ req'[s] = Idle,
         \A k \in Cluster : \A c, g : (c # None \/ g # None) /\ In(k, c, g)' =>
           In(k, c, g) \/ k \in lost' \/ \A s \in Request : req'[s].at # "detach",
         \A k \in Cluster : \A c, g : (c # None \/ g # None) /\ In(k, c, g) =>
           In(k, c, g)' \/ Accounted(k)',
         \A k \in Cluster : SavesOK(k)'
  PROVE  DeletionsInv'
<1>1. ASSUME NEW s \in Request PROVE DetachOK(req[s])' /\ HadOK(req[s])'
  <2>1. DetachOK(req[s]) /\ HadOK(req[s])
    BY DEF DeletionsInv
  <2>2. CASE req'[s] = req[s]
    <3>1. DetachOK(req[s])'
      BY <2>1, <2>2 DEF DetachOK
    <3>2. HadOK(req[s])'
      BY <2>1, <2>2 DEF HadOK, DetachOK
    <3>. QED  BY <3>1, <3>2
  <2>3. CASE /\ req[s].at = "detach" /\ req'[s].at = "submit" /\ req'[s].class = req[s].class
             /\ req'[s].group = req[s].group /\ req'[s].names = req[s].names
             /\ req'[s].had = req[s].had
    BY <2>1, <2>3 DEF DetachOK, HadOK
  <2>4. CASE req'[s] = Idle
    BY <2>4 DEF DetachOK, HadOK, Idle
  <2>. QED  BY <2>2, <2>3, <2>4
<1>. QED  BY <1>1 DEF DeletionsInv

-----------------------------------------------------------------------------
(* Steps that leave the rows alone *)

LEMMA DeletionsQuiet ==
  ASSUME IInv, DeletionsInv, UNCHANGED <<rows, req, make, dep, jobs, asked, lost>>
  PROVE  DeletionsInv'
<1>1. \A k \in Cluster : SavesOK(k) => SavesOK(k)'
  BY DEF SavesOK, Entry, Accounted
<1>. QED  BY <1>1, DeletionsLocal DEF DeletionsInv

LEMMA DeletionsStart ==
  ASSUME IInv, DeletionsInv, NEW t \in Request
  PROVE  /\ \A a \in Staff, c \in Class, n \in GroupName : StartGroup(t, a, c, n) => DeletionsInv'
         /\ \A a \in Staff, c \in Class, n \in GroupName, u \in Student :
              StartImport(t, a, c, n, u) => DeletionsInv'
         /\ \A g \in Group, u \in Student : StartAdd(t, g, u) => DeletionsInv'
         /\ \A a \in Staff, c \in Class : StartClassDeletion(t, a, c) => DeletionsInv'
         /\ \A a \in Staff, g \in Group : StartGroupDeletion(t, a, g) => DeletionsInv'
<1>1. req[t].at = "idle" => req[t].names = {}
  BY DEF DeletionsInv, DetachOK
<1>2. ASSUME NEW a \in Staff, NEW c \in Class, NEW n \in GroupName, StartGroup(t, a, c, n)
      PROVE  DeletionsInv'
  <2>. DEFINE r == [Idle EXCEPT !.at = "makeGroup", !.by = a, !.class = c, !.name = n]
  <2>1. r.at = "makeGroup" /\ r.names = {}
    BY DEF Idle
  <2>. HIDE DEF r
  <2>2. req' = [req EXCEPT ![t] = r] /\ UNCHANGED <<rows, make, dep, jobs, asked, lost>>
    BY <1>2 DEF StartGroup, fate, r
  <2>. QED  BY <1>1, <1>2, <2>1, <2>2, DeletionsRequest DEF StartGroup, DetachOK, DeletionsInv
<1>3. ASSUME NEW a \in Staff, NEW c \in Class, NEW n \in GroupName, NEW u \in Student,
             StartImport(t, a, c, n, u)
      PROVE  DeletionsInv'
  <2>. DEFINE r == [Idle EXCEPT !.at = "findGroup", !.by = a, !.class = c, !.name = n, !.user = u]
  <2>1. r.at = "findGroup" /\ r.names = {}
    BY DEF Idle
  <2>. HIDE DEF r
  <2>2. req' = [req EXCEPT ![t] = r] /\ UNCHANGED <<rows, make, dep, jobs, asked, lost>>
    BY <1>3 DEF StartImport, fate, r
  <2>. QED  BY <1>1, <1>3, <2>1, <2>2, DeletionsRequest DEF StartImport, DetachOK, DeletionsInv
<1>4. ASSUME NEW g \in Group, NEW u \in Student, StartAdd(t, g, u) PROVE DeletionsInv'
  <2>. DEFINE r == [Idle EXCEPT !.at = "readGroup", !.group = g, !.user = u]
  <2>1. r.at = "readGroup" /\ r.names = {}
    BY DEF Idle
  <2>. HIDE DEF r
  <2>2. req' = [req EXCEPT ![t] = r] /\ UNCHANGED <<rows, make, dep, jobs, asked, lost>>
    BY <1>4 DEF StartAdd, fate, r
  <2>. QED  BY <1>1, <1>4, <2>1, <2>2, DeletionsRequest DEF StartAdd, DetachOK, DeletionsInv
<1>5. ASSUME NEW a \in Staff, NEW c \in Class, StartClassDeletion(t, a, c) PROVE DeletionsInv'
  <2>. DEFINE r == [Idle EXCEPT !.at = "list", !.by = a, !.class = c, !.had = Clusters(c, None)]
  <2>1. r.at = "list" /\ r.names = {} /\ r.class = c /\ r.group = None /\ r.had = Clusters(c, None)
    BY DEF Idle
  <2>2. c # None
    BY MembershipAssumption
  <2>. HIDE DEF r
  <2>3. req' = [req EXCEPT ![t] = r] /\ UNCHANGED <<rows, make, dep, jobs, asked, lost>>
    BY <1>5 DEF StartClassDeletion, fate, r
  <2>4. r.had \subseteq Cluster /\ \A k \in Cluster \cap r.had : In(k, r.class, r.group)
    BY <2>1 DEF Clusters
  <2>. QED  BY <1>1, <1>5, <2>1, <2>2, <2>3, <2>4, DeletionsRequest
            DEF StartClassDeletion, DetachOK, DeletionsInv
<1>6. ASSUME NEW a \in Staff, NEW g \in Group, StartGroupDeletion(t, a, g) PROVE DeletionsInv'
  <2>. DEFINE r == [Idle EXCEPT !.at = "list", !.by = a, !.group = g, !.had = Clusters(None, g)]
  <2>1. r.at = "list" /\ r.names = {} /\ r.class = None /\ r.group = g /\ r.had = Clusters(None, g)
    BY DEF Idle
  <2>2. g # None
    BY MembershipAssumption
  <2>. HIDE DEF r
  <2>3. req' = [req EXCEPT ![t] = r] /\ UNCHANGED <<rows, make, dep, jobs, asked, lost>>
    BY <1>6 DEF StartGroupDeletion, fate, r
  <2>4. r.had \subseteq Cluster /\ \A k \in Cluster \cap r.had : In(k, r.class, r.group)
    BY <2>1 DEF Clusters
  <2>. QED  BY <1>1, <1>6, <2>1, <2>2, <2>3, <2>4, DeletionsRequest
            DEF StartGroupDeletion, DetachOK, DeletionsInv
<1>. QED  BY <1>2, <1>3, <1>4, <1>5, <1>6

\* Requests that add members or make groups name no clusters.
Adding(r) == r.at \in {"idle", "findGroup", "makeGroup", "readGroup", "insertMember"}

LEMMA DeletionsAddingStep ==
  ASSUME IInv, DeletionsInv, NEW t \in Request, Adding(req[t]),
         UNCHANGED <<rows, make, dep, jobs, asked, lost>>,
         NEW r, Adding(r), r.names = {}, req' = [req EXCEPT ![t] = r]
  PROVE  DeletionsInv'
<1>1. DetachOK(r) /\ req[t].names = {}
  BY DEF DetachOK, Adding, DeletionsInv
<1>2. r.at \notin {"list", "detach", "submit"}
  BY DEF Adding
<1>. QED  BY <1>1, <1>2, DeletionsRequest DEF DeletionsInv

LEMMA DeletionsAdding ==
  ASSUME IInv, DeletionsInv, NEW t \in Request
  PROVE  /\ FindGroup(t) \/ ReadGroup(t) \/ InsertMember(t) => DeletionsInv'
         /\ \A g \in Group, m \in 0..MaxSeats : MakeGroup(t, g, m) => DeletionsInv'
<1>1. DOMAIN req[t] = ReqFields /\ (Adding(req[t]) => req[t].names = {})
  BY DEF IInv, RequestsInv, RequestOK, DeletionsInv, DetachOK, Adding
<1>2. Adding(Idle) /\ Idle.names = {}
  BY DEF Idle, Adding
<1>3. ASSUME FindGroup(t) PROVE DeletionsInv'
  <2>1. Adding(req[t]) /\ UNCHANGED <<rows, make, dep, jobs, asked, lost>>
    BY <1>3 DEF FindGroup, fate, Adding
  <2>2. CASE \E g \in Group : req' = [req EXCEPT ![t].at = "readGroup", ![t].group = g]
    <3>1. PICK g \in Group : req' = [req EXCEPT ![t].at = "readGroup", ![t].group = g]
      BY <2>2
    <3>. DEFINE r == [req[t] EXCEPT !.at = "readGroup", !.group = g]
    <3>2. req' = [req EXCEPT ![t] = r]
      BY <3>1 DEF IInv, RequestsInv
    <3>3. Adding(r) /\ r.names = {}
      BY <1>1, <2>1 DEF ReqFields, Adding
    <3>. HIDE DEF r
    <3>. QED  BY <2>1, <3>2, <3>3, DeletionsAddingStep
  <2>3. CASE req' = [req EXCEPT ![t].at = "makeGroup"]
    <3>. DEFINE r == [req[t] EXCEPT !.at = "makeGroup"]
    <3>1. Adding(r) /\ r.names = {}
      BY <1>1, <2>1 DEF ReqFields, Adding
    <3>. HIDE DEF r
    <3>2. req' = [req EXCEPT ![t] = r]
      BY <2>3 DEF r
    <3>. QED  BY <2>1, <3>1, <3>2, DeletionsAddingStep
  <2>. QED  BY <1>3, <2>2, <2>3, Zenon DEF FindGroup
<1>4. ASSUME ReadGroup(t) PROVE DeletionsInv'
  <2>1. Adding(req[t]) /\ UNCHANGED <<rows, make, dep, jobs, asked, lost>>
    BY <1>4 DEF ReadGroup, fate, Adding
  <2>. DEFINE r(c, n) == [req[t] EXCEPT !.at = "insertMember", !.class = c, !.num = n, !.over = {}]
  <2>2. \A c, n : Adding(r(c, n)) /\ r(c, n).names = {}
    BY <1>1, <2>1 DEF ReqFields, Adding
  <2>3. PICK c, n : req' = [req EXCEPT ![t] = Idle] \/ req' = [req EXCEPT ![t] = r(c, n)]
    BY <1>4 DEF ReadGroup
  <2>. HIDE DEF r
  <2>. QED  BY <1>2, <2>1, <2>2, <2>3, DeletionsAddingStep
<1>5. ASSUME NEW g \in Group, NEW m \in 0..MaxSeats, MakeGroup(t, g, m) PROVE DeletionsInv'
  <2>1. Adding(req[t]) /\ UNCHANGED <<rows, make, dep, jobs, asked, lost>>
    BY <1>5 DEF MakeGroup, fate, Adding
  <2>. DEFINE r == [req[t] EXCEPT !.at = "readGroup", !.group = g]
  <2>2. Adding(r) /\ r.names = {}
    BY <1>1, <2>1 DEF ReqFields, Adding
  <2>3. req' = [req EXCEPT ![t] = Idle] \/ req' = [req EXCEPT ![t] = r]
    BY <1>5 DEF MakeGroup
  <2>. HIDE DEF r
  <2>. QED  BY <1>2, <2>1, <2>2, <2>3, DeletionsAddingStep
<1>6. ASSUME InsertMember(t) PROVE DeletionsInv'
  <2>1. Adding(req[t]) /\ UNCHANGED <<rows, dep, jobs, asked, lost>>
    BY <1>6 DEF InsertMember, fate, Adding
  <2>2. CASE UNCHANGED make /\ req' = [req EXCEPT ![t] = Idle]
    BY <1>2, <2>1, <2>2, DeletionsAddingStep
  <2>3. CASE \E us : make' = OvertakeMakers(us) /\ req' = [Overtake(us) EXCEPT ![t] = Idle]
    <3>1. PICK us : make' = OvertakeMakers(us) /\ req' = [Overtake(us) EXCEPT ![t] = Idle]
      BY <2>3
    <3>2. \A s \in Request : req'[s] = IF s = t THEN Idle ELSE Overtake(us)[s]
      BY <3>1 DEF Overtake
    <3>3. \A s \in Request : s # t =>
            /\ req'[s].at = req[s].at /\ req'[s].class = req[s].class
            /\ req'[s].group = req[s].group /\ req'[s].names = req[s].names
            /\ req'[s].had = req[s].had
      BY <3>2 DEF Overtake, IInv, RequestsInv, RequestOK, ReqFields
    <3>4. \A k : Accounted(k) => Accounted(k)'
      BY <1>1, <2>1, <3>3 DEF Accounted
    <3>5. \A k \in Cluster : SavesOK(k)'
      <4>. SUFFICES ASSUME NEW k \in Cluster PROVE SavesOK(k)'
        OBVIOUS
      <4>1. /\ make'[k].at = make[k].at /\ make'[k].class = make[k].class
            /\ make'[k].group = make[k].group /\ make'[k].by = make[k].by
        BY <3>1 DEF OvertakeMakers, IInv, CreationsInv, CreationOK, MakeFields
      <4>2. SavesOK(k)
        BY DEF DeletionsInv
      <4>. QED  BY <2>1, <3>4, <4>1, <4>2 DEF SavesOK, Entry
    <3>6. \A k \in Cluster : \A c, g : In(k, c, g)' <=> In(k, c, g)
      BY <2>1 DEF In, Live
    <3>7. ASSUME NEW s \in Request PROVE DetachOK(req[s])' /\ HadOK(req[s])'
      <4>1. CASE s = t
        BY <3>2, <4>1 DEF DetachOK, HadOK, Idle
      <4>2. CASE s # t
        <5>1. DetachOK(req[s]) /\ HadOK(req[s])
          BY DEF DeletionsInv
        <5>2. DetachOK(req[s])'
          BY <2>1, <3>3, <3>6, <4>2, <5>1 DEF DetachOK
        <5>3. HadOK(req[s])'
          BY <3>3, <3>4, <3>6, <4>2, <5>1 DEF HadOK
        <5>. QED  BY <5>2, <5>3
      <4>. QED  BY <4>1, <4>2
    <3>. QED  BY <2>1, <3>5, <3>7 DEF DeletionsInv
  <2>. QED  BY <1>6, <2>2, <2>3 DEF InsertMember
<1>. QED  BY <1>3, <1>4, <1>5, <1>6

\* Creations that have not saved their associations yet.
LEMMA DeletionsMakers ==
  ASSUME IInv, DeletionsInv, UNCHANGED <<rows, dep, jobs, asked, lost>>,
         \A s \in Request : /\ req'[s].at = req[s].at /\ req'[s].class = req[s].class
                            /\ req'[s].group = req[s].group /\ req'[s].names = req[s].names
                            /\ req'[s].had = req[s].had,
         \A k \in Cluster :
           \/ /\ make'[k].at = make[k].at /\ make'[k].class = make[k].class
              /\ make'[k].group = make[k].group /\ make'[k].by = make[k].by
           \/ make[k].at \notin {"resave", "done"} /\ make'[k].at # "resave"
  PROVE  DeletionsInv'
<1>1. \A k : Accounted(k) => Accounted(k)'
  BY DEF Accounted
<1>2. \A k \in Cluster : SavesOK(k) => SavesOK(k)'
  BY <1>1 DEF SavesOK, Entry
<1>. QED  BY <1>2, DeletionsLocal DEF DeletionsInv

LEMMA DeletionsNumbers ==
  ASSUME IInv, DeletionsInv
  PROVE  /\ \A m \in members : RemoveMember(m) => DeletionsInv'
         /\ \A k \in Cluster : ReadNumbers(k) \/ WriteNumbers(k) => DeletionsInv'
<1>1. \A k \in Cluster : DOMAIN make[k] = MakeFields
  BY DEF IInv, CreationsInv, CreationOK
<1>2. ASSUME NEW m \in members, RemoveMember(m) PROVE DeletionsInv'
  <2>1. \A k \in Cluster : /\ make'[k].at = make[k].at /\ make'[k].class = make[k].class
                           /\ make'[k].group = make[k].group /\ make'[k].by = make[k].by
    BY <1>1, <1>2 DEF RemoveMember, MakeFields
  <2>. QED  BY <1>2, <2>1, DeletionsMakers DEF RemoveMember, fate
<1>3. ASSUME NEW k \in Cluster, ReadNumbers(k) PROVE DeletionsInv'
  <2>. DEFINE x(p) == [make[k] EXCEPT !.at = "number", !.plan = p, !.over = {}]
              y == [make[k] EXCEPT !.at = "attach"]
  <2>1. y.at # "resave" /\ \A p : x(p).at # "resave"
    BY <1>1 DEF MakeFields
  <2>2. PICK p : make' = [make EXCEPT ![k] = x(p)] \/ make' = [make EXCEPT ![k] = y]
    BY <1>3 DEF ReadNumbers
  <2>. HIDE DEF x, y
  <2>3. make[k].at = "row" /\ make'[k].at # "resave" /\ \A j \in Cluster \ {k} : make'[j] = make[j]
    BY <1>3, <2>1, <2>2 DEF IInv, CreationsInv, ReadNumbers
  <2>. QED  BY <1>3, <2>3, DeletionsMakers DEF ReadNumbers, fate
<1>4. ASSUME NEW k \in Cluster, WriteNumbers(k) PROVE DeletionsInv'
  <2>. DEFINE us == DOMAIN make[k].plan
  <2>1. CASE /\ make' = [OvertakeMakers(us) EXCEPT
                           ![k] = [@ EXCEPT !.at = "attach", !.plan = <<>>, !.over = {}]]
             /\ req' = Overtake(us)
    <3>1. \A s \in Request :
            /\ req'[s].at = req[s].at /\ req'[s].class = req[s].class
            /\ req'[s].group = req[s].group /\ req'[s].names = req[s].names
            /\ req'[s].had = req[s].had
      BY <2>1 DEF Overtake, IInv, RequestsInv, RequestOK, ReqFields
    <3>2. \A j \in Cluster \ {k} :
            /\ make'[j].at = make[j].at /\ make'[j].class = make[j].class
            /\ make'[j].group = make[j].group /\ make'[j].by = make[j].by
      BY <1>1, <2>1 DEF OvertakeMakers, MakeFields
    <3>3. make[k].at = "number" /\ make'[k].at = "attach"
      <4>1. DOMAIN OvertakeMakers(us)[k] = MakeFields
        BY <1>4, OvertakeKeeps DEF CreationOK, WriteNumbers
      <4>2. make'[k] = [OvertakeMakers(us)[k] EXCEPT !.at = "attach", !.plan = <<>>, !.over = {}]
        BY <2>1 DEF OvertakeMakers
      <4>. QED  BY <1>4, <4>1, <4>2 DEF MakeFields, WriteNumbers
    <3>. QED  BY <1>4, <3>1, <3>2, <3>3, DeletionsMakers DEF WriteNumbers, fate
  <2>2. CASE make' = [make EXCEPT ![k] = [NoMake EXCEPT !.at = "failed"]] /\ UNCHANGED req
    <3>1. make[k].at = "number" /\ make'[k].at = "failed" /\ \A j \in Cluster \ {k} : make'[j] = make[j]
      BY <1>4, <2>2 DEF IInv, CreationsInv, NoMake, WriteNumbers
    <3>. QED  BY <1>4, <2>2, <3>1, DeletionsMakers DEF WriteNumbers, fate
  <2>. QED  BY <1>4, <2>1, <2>2, Zenon DEF WriteNumbers
<1>. QED  BY <1>2, <1>3, <1>4

LEMMA DeletionsListing ==
  ASSUME IInv, DeletionsInv, NEW t \in Request
  PROVE  ListClusters(t) \/ SubmitNext(t) => DeletionsInv'
<1>1. DOMAIN req[t] = ReqFields /\ DetachOK(req[t]) /\ HadOK(req[t])
  BY DEF IInv, RequestsInv, RequestOK, DeletionsInv
<1>2. ASSUME ListClusters(t) PROVE DeletionsInv'
  <2>. DEFINE ns == Clusters(req[t].class, req[t].group)
              r == [req[t] EXCEPT !.at = "detach", !.names = ns]
  <2>1. /\ r.at = "detach" /\ r.names = ns /\ r.class = req[t].class /\ r.group = req[t].group
        /\ r.had = req[t].had
    BY <1>1 DEF ReqFields
  <2>2. req' = [req EXCEPT ![t] = r] /\ UNCHANGED <<rows, make, dep, jobs, asked, lost>>
    BY <1>2 DEF IInv, RequestsInv, ListClusters, fate
  <2>3. req[t].names = {} /\ r.had \subseteq Cluster /\ (r.class # None \/ r.group # None)
    BY <1>1, <1>2, <2>1 DEF DetachOK, ListClusters
  <2>4. \A k \in Cluster : In(k, r.class, r.group) => k \in r.names
    BY <2>1 DEF Clusters
  <2>5. \A k \in Cluster \cap r.had : Accounted(k) \/ k \in r.names
    BY <1>1, <1>2, <2>1, <2>4 DEF HadOK, ListClusters
  <2>. HIDE DEF r, ns
  <2>6. DetachOK(r)
    BY <2>1, <2>3, <2>4 DEF DetachOK
  <2>. QED  BY <2>2, <2>3, <2>5, <2>6, DeletionsRequest DEF DeletionsInv
<1>3. ASSUME SubmitNext(t) PROVE DeletionsInv'
  <2>1. req[t].at = "submit" /\ UNCHANGED <<rows, make, dep>>
    BY <1>3 DEF SubmitNext
  <2>2. ASSUME NEW k \in req[t].names, NEW r, r = [req[t] EXCEPT !.names = req[t].names \ {k}],
               req' = [req EXCEPT ![t] = r], jobs' = jobs \cup {<<k, req[t].by>>},
               asked' = asked \cup {k}, UNCHANGED lost
        PROVE  DeletionsInv'
    <3>1. /\ r.at = "submit" /\ r.names = req[t].names \ {k} /\ r.class = req[t].class
          /\ r.group = req[t].group /\ r.had = req[t].had
      BY <1>1, <2>1, <2>2 DEF ReqFields
    <3>2. \A j \in jobs' : j[1] \in asked'
      BY <2>2 DEF DeletionsInv
    <3>3. DetachOK(r)
      BY <1>1, <2>1, <3>1 DEF DetachOK
    <3>4. \A j \in Cluster \cap r.had : Accounted(j)
      BY <1>1, <2>1, <3>1 DEF HadOK
    <3>. QED  BY <2>1, <2>2, <3>1, <3>2, <3>3, <3>4, DeletionsRequest
  <2>3. ASSUME req' = [req EXCEPT ![t] = Idle], lost' = lost \cup req[t].names,
               UNCHANGED <<jobs, asked>>
        PROVE  DeletionsInv'
    <3>1. DetachOK(Idle) /\ Idle.at \notin {"list", "detach", "submit"}
      BY DEF DetachOK, Idle
    <3>. QED  BY <2>1, <2>3, <3>1, DeletionsRequest DEF DeletionsInv
  <2>. QED  BY <1>3, <2>2, <2>3, Zenon DEF SubmitNext
<1>. QED  BY <1>2, <1>3

LEMMA DeletionsOthers ==
  ASSUME IInv, DeletionsInv
  PROVE  /\ \A a \in Staff, c \in Class : CreateClass(a, c) => DeletionsInv'
         /\ \A a \in Staff, g \in Group, m \in 0..MaxSeats : UpdateGroup(a, g, m) => DeletionsInv'
         /\ \A u \in Student : DeleteStudent(u) => DeletionsInv'
         /\ \A k \in Cluster, a \in Staff :
              StartDeployment(k, a) \/ SubmitDeletion(k, a) => DeletionsInv'
         /\ \A k \in Cluster : EndDeployment(k) => DeletionsInv'
         /\ UNCHANGED vars => DeletionsInv'
<1>1. ASSUME NEW a \in Staff, NEW c \in Class, CreateClass(a, c) PROVE DeletionsInv'
  BY <1>1, DeletionsQuiet DEF CreateClass, fate
<1>2. ASSUME NEW a \in Staff, NEW g \in Group, NEW m \in 0..MaxSeats, UpdateGroup(a, g, m)
      PROVE  DeletionsInv'
  BY <1>2, DeletionsQuiet DEF UpdateGroup, fate
<1>3. ASSUME NEW u \in Student, DeleteStudent(u) PROVE DeletionsInv'
  BY <1>3, DeletionsQuiet DEF DeleteStudent, fate
<1>4. ASSUME NEW k \in Cluster, NEW a \in Staff, StartDeployment(k, a) PROVE DeletionsInv'
  <2>1. \A j \in Cluster : SavesOK(j) => SavesOK(j)'
    BY <1>4 DEF StartDeployment, SavesOK, Entry, Accounted, IInv, DeploymentsInv, fate
  <2>. QED  BY <1>4, <2>1, DeletionsLocal DEF StartDeployment, DeletionsInv, fate
<1>5. ASSUME NEW k \in Cluster, NEW a \in Staff, SubmitDeletion(k, a) PROVE DeletionsInv'
  <2>1. \A j \in Cluster : SavesOK(j) => SavesOK(j)'
    BY <1>5 DEF SubmitDeletion, SavesOK, Entry, Accounted
  <2>2. \A j \in jobs' : j[1] \in asked'
    BY <1>5 DEF SubmitDeletion, DeletionsInv
  <2>. QED  BY <1>5, <2>1, <2>2, DeletionsLocal DEF SubmitDeletion, fate
<1>6. ASSUME NEW k \in Cluster, EndDeployment(k) PROVE DeletionsInv'
  <2>1. \A j \in Cluster : SavesOK(j) => SavesOK(j)'
    BY <1>6 DEF EndDeployment, SavesOK, Entry, Accounted, IInv, DeploymentsInv, NoDep, fate
  <2>. QED  BY <1>6, <2>1, DeletionsLocal DEF EndDeployment, DeletionsInv, fate
<1>7. ASSUME UNCHANGED vars PROVE DeletionsInv'
  BY <1>7, DeletionsQuiet DEF vars, fate
<1>. QED  BY <1>1, <1>2, <1>3, <1>4, <1>5, <1>6, <1>7

-----------------------------------------------------------------------------
(* Steps that change rows *)

LEMMA DeletionsCreated ==
  ASSUME IInv, DeletionsInv, NEW k \in Cluster
  PROVE  /\ \A a \in Staff, c \in Class \cup {None}, g \in Group \cup {None} :
              StartCreation(k, a, c, g) => DeletionsInv'
         /\ FailCreation(k) => DeletionsInv'
<1>1. SavesOK(k)
  BY DEF DeletionsInv
<1>2. ASSUME NEW x, NEW row, make[k].at \notin {"resave", "done"}, x.at # "resave",
             row.class = None, row.group = None,
             make' = [make EXCEPT ![k] = x], rows' = [rows EXCEPT ![k] = row],
             UNCHANGED <<req, dep, jobs, asked, lost>>
      PROVE  DeletionsInv'
  <2>1. \A j : Accounted(j) => Accounted(j)'
    BY <1>2 DEF Accounted
  <2>2. rows'[k] = row /\ \A j \in Cluster \ {k} : rows'[j] = rows[j] /\ make'[j] = make[j]
    BY <1>2 DEF IInv, RowsInv, CreationsInv
  <2>3. make'[k] = x /\ rows[k].class = None /\ rows[k].group = None /\ ~dep[k].on
    BY <1>1, <1>2 DEF IInv, CreationsInv, SavesOK
  <2>4. \A j \in Cluster : \A c, g : c # None \/ g # None => (In(j, c, g)' <=> In(j, c, g))
    BY <1>2, <2>2, <2>3 DEF In, Live
  <2>5. \A j \in Cluster : SavesOK(j)'
    <3>. SUFFICES ASSUME NEW j \in Cluster PROVE SavesOK(j)'
      OBVIOUS
    <3>1. CASE j = k
      BY <1>2, <2>2, <2>3, <3>1 DEF SavesOK
    <3>2. CASE j # k
      BY <1>2, <2>1, <2>2, <3>2 DEF DeletionsInv, SavesOK, Entry
    <3>. QED  BY <3>1, <3>2
  <2>. QED  BY <1>2, <2>1, <2>4, <2>5, DeletionsRows DEF DeletionsInv
<1>3. ASSUME NEW a \in Staff, NEW c \in Class \cup {None}, NEW g \in Group \cup {None},
             StartCreation(k, a, c, g)
      PROVE  DeletionsInv'
  <2>. DEFINE x == [NoMake EXCEPT !.at = "row", !.by = a, !.class = c, !.group = g]
              row == [NoRow EXCEPT !.live = TRUE]
  <2>1. x.at = "row" /\ row.class = None /\ row.group = None
    BY DEF NoMake, NoRow
  <2>2. /\ make' = [make EXCEPT ![k] = x] /\ rows' = [rows EXCEPT ![k] = row]
        /\ UNCHANGED <<req, dep, jobs, asked, lost>> /\ make[k].at = "idle"
    BY <1>3 DEF StartCreation, fate
  <2>. HIDE DEF x, row
  <2>. QED  BY <1>2, <2>1, <2>2
<1>4. ASSUME FailCreation(k) PROVE DeletionsInv'
  <2>. DEFINE x == [NoMake EXCEPT !.at = "failed"]
  <2>1. x.at = "failed" /\ NoRow.class = None /\ NoRow.group = None
    BY DEF NoMake, NoRow
  <2>2. /\ make' = [make EXCEPT ![k] = x] /\ rows' = [rows EXCEPT ![k] = NoRow]
        /\ UNCHANGED <<req, dep, jobs, asked, lost>> /\ make[k].at = "row"
    BY <1>4 DEF FailCreation, fate
  <2>. HIDE DEF x
  <2>. QED  BY <1>2, <2>1, <2>2
<1>. QED  BY <1>3, <1>4

\* A save that writes what the row says, or the first association, or finds the
\* cluster accounted for.
LEMMA DeletionsSaved ==
  ASSUME IInv, DeletionsInv, NEW k \in Cluster, NEW row, Saved(k, row),
         UNCHANGED <<req, dep, jobs, asked>>,
         make'[k].at \in {"resave", "done"},
         \A j \in Cluster \ {k} : make'[j] = make[j],
         row = rows[k] \/ make[k].at = "attach" \/ Accounted(k),
         make'[k].at = "resave" => row = Entry(k)' \/ Accounted(k)
  PROVE  DeletionsInv'
<1>1. SavesOK(k) /\ rows = [j \in Cluster |-> rows[j]]
  BY DEF DeletionsInv, IInv, RowsInv
<1>2. /\ rows'[k] = row /\ \A j \in Cluster \ {k} : rows'[j] = rows[j]
      /\ lost \subseteq lost' /\ (k \in lost' \/ \A s \in Request : req[s].at # "detach")
  BY <1>1 DEF Saved
<1>3. \A j : Accounted(j) => Accounted(j)'
  BY <1>2 DEF Accounted
<1>4. \A j \in Cluster : \A c, g : (c # None \/ g # None) /\ In(j, c, g)' =>
        In(j, c, g) \/ j \in lost' \/ \A s \in Request : req'[s].at # "detach"
  BY <1>2 DEF In, Live
<1>5. \A j \in Cluster : \A c, g : (c # None \/ g # None) /\ In(j, c, g) =>
        In(j, c, g)' \/ Accounted(j)'
  <2>. SUFFICES ASSUME NEW j \in Cluster, NEW c, NEW g, c # None \/ g # None, In(j, c, g)
                PROVE  In(j, c, g)' \/ Accounted(j)'
    OBVIOUS
  <2>1. CASE rows'[j] = rows[j]
    BY <2>1 DEF In, Live
  <2>2. CASE j = k /\ make[k].at = "attach"
    BY <1>1, <2>2 DEF In, SavesOK
  <2>3. CASE j = k /\ Accounted(k)
    BY <1>3, <2>3
  <2>. QED  BY <1>2, <2>1, <2>2, <2>3
<1>6. ASSUME NEW j \in Cluster PROVE SavesOK(j)'
  <2>1. CASE j # k
    BY <1>2, <1>3, <2>1 DEF DeletionsInv, SavesOK, Entry
  <2>2. CASE j = k
    <3>1. dep[k].on => dep[k].row = row \/ Accounted(k)
      BY <1>1 DEF SavesOK
    <3>. QED  BY <1>2, <1>3, <2>2, <3>1 DEF SavesOK
  <2>. QED  BY <2>1, <2>2
<1>. QED  BY <1>2, <1>3, <1>4, <1>5, <1>6, DeletionsRows DEF DeletionsInv

LEMMA DeletionsSaves ==
  ASSUME IInv, DeletionsInv, NEW k \in Cluster
  PROVE  Attach(k) \/ Resave(k) \/ SaveDeployment(k) => DeletionsInv'
<1>1. SavesOK(k) /\ DOMAIN make[k] = MakeFields
  BY DEF DeletionsInv, IInv, CreationsInv, CreationOK
<1>2. ASSUME Attach(k) PROVE DeletionsInv'
  <2>1. make[k].at = "attach" /\ UNCHANGED <<req, dep, jobs, asked>>
    BY <1>2 DEF Attach
  <2>2. CASE Saved(k, Entry(k)) /\ make' = [make EXCEPT ![k].at = "resave"]
    <3>1. /\ make'[k].at = "resave" /\ make'[k].class = make[k].class
          /\ make'[k].group = make[k].group /\ make'[k].by = make[k].by
          /\ \A j \in Cluster \ {k} : make'[j] = make[j]
      BY <1>1, <2>2 DEF IInv, CreationsInv, MakeFields
    <3>2. Entry(k)' = Entry(k)
      BY <3>1 DEF Entry
    <3>. QED  BY <2>1, <2>2, <3>1, <3>2, DeletionsSaved
  <2>3. CASE /\ UNCHANGED <<rows, lost>>
             /\ make' = [make EXCEPT ![k] = [NoMake EXCEPT !.at = "failed"]]
    <3>1. make'[k].at = "failed" /\ \A j \in Cluster \ {k} : make'[j] = make[j]
      BY <2>3 DEF IInv, CreationsInv, NoMake
    <3>. QED  BY <2>1, <2>3, <3>1, DeletionsMakers
  <2>. QED  BY <1>2, <2>2, <2>3 DEF Attach
<1>3. ASSUME Resave(k) PROVE DeletionsInv'
  <2>1. /\ make[k].at = "resave" /\ UNCHANGED <<req, dep, jobs, asked>>
        /\ make'[k].at = "done" /\ \A j \in Cluster \ {k} : make'[j] = make[j]
    BY <1>3 DEF Resave, IInv, CreationsInv, NoMake
  <2>2. CASE Saved(k, Entry(k))
    BY <1>1, <2>1, <2>2, DeletionsSaved DEF SavesOK
  <2>3. CASE UNCHANGED <<rows, lost>>
    <3>1. \A j \in Cluster : SavesOK(j) => SavesOK(j)'
      BY <2>1, <2>3 DEF SavesOK, Entry, Accounted
    <3>. QED  BY <2>1, <2>3, <3>1, DeletionsLocal DEF DeletionsInv
  <2>. QED  BY <1>3, <2>2, <2>3 DEF Resave
<1>4. ASSUME SaveDeployment(k) PROVE DeletionsInv'
  <2>1. /\ Saved(k, dep[k].row) /\ UNCHANGED <<req, make, dep, jobs, asked>>
        /\ make[k].at \in {"resave", "done"} /\ (dep[k].row = rows[k] \/ Accounted(k))
    BY <1>1, <1>4 DEF SaveDeployment, SavesOK
  <2>2. make[k].at = "resave" => dep[k].row = Entry(k)' \/ Accounted(k)
    BY <1>1, <2>1 DEF SavesOK, Entry
  <2>. QED  BY <2>1, <2>2, DeletionsSaved
<1>. QED  BY <1>2, <1>3, <1>4

\* Rows that lose what they had, while the deletions that see to it account for
\* the clusters.
LEMMA DeletionsLose ==
  ASSUME IInv, DeletionsInv, lost \subseteq lost', UNCHANGED <<make, dep, asked>>, jobs' \subseteq jobs,
         \A k : Accounted(k) => Accounted(k)',
         \A s \in Request :
           \/ req'[s] = req[s]
           \/ /\ req[s].at = "detach" /\ req'[s].at = "submit" /\ req'[s].class = req[s].class
              /\ req'[s].group = req[s].group /\ req'[s].names = req[s].names
              /\ req'[s].had = req[s].had
           \/ req'[s] = Idle,
         \A k \in Cluster :
           \/ rows'[k] = rows[k]
           \/ /\ Accounted(k)' /\ rows'[k].class \in {rows[k].class, None}
              /\ rows'[k].group \in {rows[k].group, None} /\ rows'[k].live \in {rows[k].live, FALSE}
  PROVE  DeletionsInv'
<1>1. \A k \in Cluster : \A c, g : (c # None \/ g # None) /\ In(k, c, g)' => In(k, c, g)
  BY DEF In, Live
<1>2. \A k \in Cluster : \A c, g : (c # None \/ g # None) /\ In(k, c, g) => In(k, c, g)' \/ Accounted(k)'
  BY DEF In, Live
<1>3. ASSUME NEW k \in Cluster PROVE SavesOK(k)'
  <2>1. SavesOK(k)
    BY DEF DeletionsInv
  <2>. QED  BY <2>1 DEF SavesOK, Entry
<1>. QED  BY <1>1, <1>2, <1>3, DeletionsRows DEF DeletionsInv

LEMMA DeletionsDetach ==
  ASSUME IInv, DeletionsInv, NEW t \in Request, Detach(t)
  PROVE  DeletionsInv'
<1>1. DOMAIN req[t] = ReqFields /\ DetachOK(req[t]) /\ req[t].at = "detach"
  BY DEF IInv, RequestsInv, RequestOK, DeletionsInv, Detach
<1>2. /\ req'[t].at = "submit" /\ req'[t].class = req[t].class /\ req'[t].group = req[t].group
      /\ req'[t].names = req[t].names /\ req'[t].had = req[t].had
      /\ \A s \in Request \ {t} : req'[s] = req[s]
      /\ UNCHANGED <<make, dep, jobs, asked, lost>>
  BY <1>1 DEF Detach, IInv, RequestsInv, ReqFields, fate
<1>3. \A k : Accounted(k) => Accounted(k)'
  BY <1>2 DEF Accounted
<1>4. ASSUME NEW k \in Cluster
      PROVE  \/ rows'[k] = rows[k]
             \/ /\ Accounted(k)' /\ rows'[k].class \in {rows[k].class, None}
                /\ rows'[k].group \in {rows[k].group, None} /\ rows'[k].live \in {rows[k].live, FALSE}
  <2>1. CASE ~In(k, req[t].class, req[t].group)
    BY <2>1 DEF Detach
  <2>2. CASE In(k, req[t].class, req[t].group)
    <3>1. Accounted(k)'
      BY <1>1, <1>2, <2>2 DEF DetachOK, Accounted
    <3>2. DOMAIN rows[k] = RowFields
      BY DEF IInv, RowsInv, RowOK
    <3>3. PICK c : c \in {rows[k].class, None} /\ rows'[k] = [rows[k] EXCEPT !.class = c, !.group = None]
      BY <2>2 DEF Detach
    <3>. QED  BY <3>1, <3>2, <3>3 DEF RowFields
  <2>. QED  BY <2>1, <2>2
<1>. QED  BY <1>1, <1>2, <1>3, <1>4, DeletionsLose

LEMMA DeletionsRunDeletion ==
  ASSUME IInv, DeletionsInv, NEW j \in jobs, RunDeletion(j)
  PROVE  DeletionsInv'
<1>1. UNCHANGED <<req, make, dep, asked, lost>> /\ jobs' \subseteq jobs
  BY DEF RunDeletion
<1>2. \A k : Accounted(k) => Accounted(k)'
  BY <1>1 DEF Accounted
<1>3. ASSUME NEW k \in Cluster, rows'[k] # rows[k]
      PROVE  Accounted(k)' /\ rows'[k] = NoRow
  <2>1. k = j[1] /\ rows'[k] = NoRow
    BY <1>3 DEF RunDeletion, IInv, RowsInv
  <2>. QED  BY <1>1, <2>1 DEF DeletionsInv, Accounted
<1>4. ASSUME NEW k \in Cluster
      PROVE  \/ rows'[k] = rows[k]
             \/ /\ Accounted(k)' /\ rows'[k].class \in {rows[k].class, None}
                /\ rows'[k].group \in {rows[k].group, None} /\ rows'[k].live \in {rows[k].live, FALSE}
  <2>1. NoRow.class = None /\ NoRow.group = None /\ NoRow.live = FALSE
    BY DEF NoRow
  <2>2. CASE rows'[k] # rows[k]
    <3>1. Accounted(k)' /\ rows'[k] = NoRow
      BY <1>3, <2>2
    <3>. QED  BY <2>1, <3>1
  <2>. QED  BY <2>2
<1>. QED  BY <1>1, <1>2, <1>4, DeletionsLose

LEMMA DeletionsDrop ==
  ASSUME IInv, DeletionsInv, NEW t \in Request, Drop(t)
  PROVE  DeletionsInv'
<1>1. /\ req' = [req EXCEPT ![t] = Idle] /\ req[t].names = {}
      /\ UNCHANGED <<make, dep, jobs, asked>>
  BY DEF Drop
<1>2. PICK gs : \/ UNCHANGED <<rows, lost>>
                \/ /\ rows' = [k \in Cluster |-> IF rows[k].group \in gs
                                                 THEN [rows[k] EXCEPT !.group = None] ELSE rows[k]]
                   /\ lost' = lost \cup {k \in Cluster : rows[k].group \in gs}
  BY DEF Drop, Remove
<1>3. lost \subseteq lost'
  BY <1>2
<1>4. \A k : Accounted(k) => Accounted(k)'
  BY <1>1, <1>3 DEF Accounted, IInv, RequestsInv
<1>5. ASSUME NEW k \in Cluster
      PROVE  \/ rows'[k] = rows[k]
             \/ /\ Accounted(k)' /\ rows'[k].class \in {rows[k].class, None}
                /\ rows'[k].group \in {rows[k].group, None} /\ rows'[k].live \in {rows[k].live, FALSE}
  <2>1. DOMAIN rows[k] = RowFields
    BY DEF IInv, RowsInv, RowOK
  <2>2. CASE rows'[k] # rows[k]
    <3>1. rows'[k] = [rows[k] EXCEPT !.group = None] /\ k \in lost'
      BY <1>2, <2>2
    <3>. QED  BY <2>1, <3>1 DEF Accounted, RowFields
  <2>. QED  BY <2>2
<1>6. \A s \in Request : req'[s] = req[s] \/ req'[s] = Idle
  BY <1>1 DEF IInv, RequestsInv
<1>. QED  BY <1>1, <1>3, <1>4, <1>5, <1>6, DeletionsLose

LEMMA NextDeletions ==
  ASSUME IInv, DeletionsInv, [Next]_vars
  PROVE  DeletionsInv'
<1>1. CASE StaffNext
  BY <1>1, DeletionsOthers, DeletionsCreated, DeletionsStart DEF StaffNext
<1>2. CASE MemberNext
  BY <1>2, DeletionsStart, DeletionsNumbers, DeletionsOthers DEF MemberNext
<1>3. CASE \E t \in Request : Step(t)
  BY <1>3, DeletionsAdding, DeletionsListing, DeletionsDetach, DeletionsDrop DEF Step
<1>4. CASE \E k \in Cluster : ClusterNext(k)
  BY <1>4, DeletionsCreated, DeletionsNumbers, DeletionsSaves, DeletionsOthers DEF ClusterNext
<1>5. CASE \E j \in jobs : RunDeletion(j)
  BY <1>5, DeletionsRunDeletion
<1>6. CASE UNCHANGED vars
  BY <1>6, DeletionsOthers
<1>. QED  BY <1>1, <1>2, <1>3, <1>4, <1>5, <1>6 DEF Next

LEMMA InitDeletions == Init => DeletionsInv
<1>. SUFFICES ASSUME Init PROVE DeletionsInv
  OBVIOUS
<1>1. \A t \in Request : DetachOK(req[t]) /\ HadOK(req[t])
  BY DEF Init, DetachOK, HadOK, Idle
<1>2. \A k \in Cluster : SavesOK(k)
  BY DEF Init, SavesOK, NoRow, NoDep, NoMake
<1>. QED  BY <1>1, <1>2 DEF Init, DeletionsInv

\* A deletion of a class or a group that succeeds leaves none of the clusters it
\* found behind, however creations, deployments and other deletions interleave
\* with it: each was asked for, was lost in one of the ways the property names, or
\* is still to be asked for by somebody else (app.py's deletions and
\* detach_clusters_from_class of db.py).
THEOREM DeletionsAreHonest == Spec => AnsweredMeansAsked
<1>1. Init => IInv /\ DeletionsInv
  BY InitInv, InitDeletions
<1>2. (IInv /\ DeletionsInv) /\ [Next]_vars => (IInv /\ DeletionsInv)'
  BY NextInv, NextDeletions
<1>3. DeletionsInv =>
        [\A t \in Request : Answered(t) =>
           \A k \in req[t].had : k \in asked \cup lost \/ ~Live(k) \/ TakenOver(t, k)]_vars
  <2>. SUFFICES ASSUME DeletionsInv, NEW t \in Request, Answered(t), NEW k \in req[t].had
                PROVE  k \in asked \cup lost \/ ~Live(k) \/ TakenOver(t, k)
    OBVIOUS
  <2>1. Accounted(k)
    BY DEF DeletionsInv, DetachOK, HadOK, Answered
  <2>. QED  BY <2>1 DEF Accounted, Answered, TakenOver
<1>. QED  BY <1>1, <1>2, <1>3, PTL DEF Spec, AnsweredMeansAsked
===============================================================================
