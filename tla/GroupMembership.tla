--------------------------- MODULE GroupMembership ---------------------------
(***************************************************************************)
(* Classes, groups, their members and the clusters made for them: the      *)
(* tables of modules/db.py as the routes of app.py and the creation and    *)
(* deployment of clusters change them.  PostgreSQL commits one statement   *)
(* at a time (READ COMMITTED), so what a request read may be old when it   *)
(* writes; foreign keys and the unique key of group_members are what is    *)
(* left of its checks.                                                     *)
(***************************************************************************)
EXTENDS Integers, FiniteSets

CONSTANTS
  Admin, Teacher, Student,  \* accounts by role
  Class, Group, Cluster,    \* ids the sequences may give out, and cluster names
  GroupName,
  MaxSeats,                 \* bound on max_students
  Request,                  \* threads of HTTP requests that take several steps
  MaxBegin,                 \* bound on the requests that begin
  None

Staff == Admin \cup Teacher

ASSUME MembershipAssumption ==
  /\ Admin \cap Teacher = {} /\ Staff \cap Student = {} /\ Class \cap Group = {}
  /\ MaxSeats \in Nat /\ MaxBegin \in Nat
  /\ None \notin Staff \cup Student \cup Class \cup Group \cup Cluster \cup GroupName

VARIABLES
  student,  \* student accounts that exist
  classes,  \* the table classes: id -> the account that created it
  groups,   \* the table groups: id -> row
  spent,    \* ids of classes and groups that were deleted; sequences do not go back
  members,  \* the table group_members
  rows,     \* the table clusters: name -> what associates it
  req,      \* requests under way
  make,     \* creations of clusters
  dep,      \* deployments: the row each loaded
  jobs,     \* deletions of clusters in the queue
  asked,    \* history: clusters whose deletion was submitted
  begun,    \* how many requests began, for the bound
  lost      \* history: clusters that a deletion passed over, see AnsweredMeansAsked

org  == <<student, classes, groups, spent>>
fate == <<jobs, asked, lost>>
vars == <<org, members, rows, req, make, dep, fate, begun>>

P == INSTANCE Policy

NoRow == [class |-> None, group |-> None, by |-> None, live |-> FALSE]
Row   == [class : Class \cup {None}, group : Group \cup {None}, by : Staff \cup {None},
          live : BOOLEAN]
Live(k) == rows[k].live

\* A member's "over" names whose numbers were written between the read and the
\* write of his own; the table has no such column, the properties need it.
Member == [user : Student, group : Group, class : Class, num : 0..MaxSeats,
           over : SUBSET Student]
NoNumber == 0  \* student_number NULL

Idle == [at |-> "idle", by |-> None, class |-> None, group |-> None, name |-> None,
         user |-> None, num |-> NoNumber, over |-> {}, names |-> {}, had |-> {}]
NoMake == [at |-> "idle", by |-> None, class |-> None, group |-> None, plan |-> <<>>,
           stale |-> FALSE, over |-> {}]
NoDep == [on |-> FALSE, row |-> NoRow]

TypeOK ==
  /\ student \subseteq Student
  /\ classes \in [Class -> Staff \cup {None}]
  /\ groups \in [Group -> [class : Class \cup {None}, name : GroupName \cup {None},
                           max : 0..MaxSeats, by : Staff \cup {None}]]
  /\ spent \subseteq Class \cup Group
  /\ members \subseteq Member
  /\ rows \in [Cluster -> Row]
  /\ req \in [Request -> [at : {"idle", "findGroup", "makeGroup", "readGroup", "insertMember",
                                "list", "detach", "submit", "drop"},
                          by : Staff \cup {None}, class : Class \cup {None},
                          group : Group \cup {None}, name : GroupName \cup {None},
                          user : Student \cup {None}, num : 0..MaxSeats,
                          over : SUBSET Student, names : SUBSET Cluster,
                          had : SUBSET Cluster]]
  /\ dep \in [Cluster -> [on : BOOLEAN, row : Row]]
  /\ jobs \subseteq Cluster \X Staff
  /\ asked \subseteq Cluster /\ lost \subseteq Cluster

\* The check that teachers only change what they created.
Owns(a, by) == a \in Admin \/ by = a

NoGroup == [class |-> None, name |-> None, max |-> 0, by |-> None]

\* The tables as staff may have arranged them; nobody is enrolled yet, and
\* each group is its class's owner's.
Init ==
  /\ student = Student
  /\ classes \in [Class -> Staff \cup {None}]
  /\ groups \in {f \in [Group -> {NoGroup} \cup [class : Class, name : GroupName,
                                                max : {MaxSeats}, by : Staff]] :
                  \A g \in Group : f[g] # NoGroup => f[g].by = classes[f[g].class]}
  /\ spent = {}
  /\ members = {} /\ rows = [k \in Cluster |-> NoRow]
  /\ req = [t \in Request |-> Idle]
  /\ make = [k \in Cluster |-> NoMake] /\ dep = [k \in Cluster |-> NoDep]
  /\ jobs = {} /\ asked = {} /\ lost = {} /\ begun = 0

-----------------------------------------------------------------------------
(* The tables *)

Counted == begun < MaxBegin /\ begun' = begun + 1

ClassLive(c) == classes[c] # None
GroupLive(g) == groups[g].class # None
MembersOf(g) == {m \in members : m.group = g}

Account(a) == [id |-> a, active |-> TRUE,
               role |-> IF a \in Admin THEN "admin" ELSE IF a \in Teacher THEN "teacher"
                                                   ELSE "student"]
Resource(k) == [created_by |-> rows[k].by, group_id |-> rows[k].group]
GroupsOf(s) == {m.group : m \in {n \in members : n.user = s}}

\* authorize_cluster_action as a deletion or a deployment asks it.
May(a, action, k) == Live(k) /\ P!IsAllowed(Account(a), action, Resource(k), {})

\* The foreign keys of clusters.
References(class, group) == /\ class # None => ClassLive(class)
                            /\ group # None => GroupLive(group)

\* add_group_member and backfill_group_student_numbers: the lowest number that
\* no member had when the group was read.
Free(g, taken) == {n \in 1..groups[g].max : n \notin taken}
Lowest(ns) == IF ns = {} THEN NoNumber ELSE CHOOSE n \in ns : \A m \in ns : n <= m
Taken(g) == {m.num : m \in MembersOf(g)} \ {NoNumber}
NextNumberBlind(g) == Lowest(Free(g, {}))  \* fault: the numbers in use are not looked at
NextNumber(g) == Lowest(Free(g, Taken(g)))

-----------------------------------------------------------------------------
(* Staff arranges classes and groups *)

CreateClass(a, c) ==
  /\ ~ClassLive(c) /\ c \notin spent
  /\ classes' = [classes EXCEPT ![c] = a]
  /\ Counted
  /\ UNCHANGED <<student, groups, spent, members, rows, req, make, dep, fate>>

\* api_create_group checks the class; the insertion comes later.
StartGroup(t, a, c, n) ==
  /\ req[t].at = "idle" /\ ClassLive(c) /\ Owns(a, classes[c])
  /\ req' = [req EXCEPT ![t] = [Idle EXCEPT !.at = "makeGroup", !.by = a, !.class = c,
                                            !.name = n]]
  /\ Counted
  /\ UNCHANGED <<org, members, rows, make, dep, fate>>

\* A row of an imported file: a teacher's classes are looked up among her own.
StartImport(t, a, c, n, u) ==
  /\ req[t].at = "idle" /\ ClassLive(c) /\ Owns(a, classes[c]) /\ u \in student
  /\ req' = [req EXCEPT ![t] = [Idle EXCEPT !.at = "findGroup", !.by = a, !.class = c,
                                            !.name = n, !.user = u]]
  /\ Counted
  /\ UNCHANGED <<org, members, rows, make, dep, fate>>

FindGroup(t) ==
  /\ req[t].at = "findGroup"
  /\ LET found == {g \in Group : groups[g].class = req[t].class /\ groups[g].name = req[t].name}
     IN \/ \E g \in found : req' = [req EXCEPT ![t].at = "readGroup", ![t].group = g]
        \/ found = {} /\ req' = [req EXCEPT ![t].at = "makeGroup"]
  /\ UNCHANGED <<org, members, rows, make, dep, fate, begun>>

\* create_group, and the insertion of get_or_create_group, whose groups have no
\* seats; the foreign key refuses a class that was deleted meanwhile.
MakeGroup(t, g, m) ==
  /\ req[t].at = "makeGroup" /\ ~GroupLive(g) /\ g \notin spent
  /\ IF ClassLive(req[t].class)
     THEN /\ groups' = [groups EXCEPT ![g] = [class |-> req[t].class, name |-> req[t].name,
                                              max |-> IF req[t].user = None THEN m ELSE 0,
                                              by |-> req[t].by]]
          /\ req' = [req EXCEPT ![t] = IF req[t].user = None THEN Idle
                                       ELSE [@ EXCEPT !.at = "readGroup", !.group = g]]
     ELSE req' = [req EXCEPT ![t] = Idle] /\ UNCHANGED groups
  /\ UNCHANGED <<student, classes, spent, members, rows, make, dep, fate, begun>>

UpdateGroup(a, g, m) ==
  /\ GroupLive(g) /\ Owns(a, groups[g].by)
  /\ groups' = [groups EXCEPT ![g].max = m]
  /\ Counted
  /\ UNCHANGED <<student, classes, spent, members, rows, req, make, dep, fate>>

-----------------------------------------------------------------------------
(* Members *)

\* api_add_group_member looks the student up and asks nothing about the group.
StartAdd(t, g, u) ==
  /\ req[t].at = "idle" /\ u \in student
  /\ req' = [req EXCEPT ![t] = [Idle EXCEPT !.at = "readGroup", !.group = g, !.user = u]]
  /\ Counted
  /\ UNCHANGED <<org, members, rows, make, dep, fate>>

\* add_group_member up to its commit.  Its checks raise ValueError.
ReadGroup(t) ==
  /\ req[t].at = "readGroup"
  /\ LET g == req[t].group
         inClass == \E m \in members : m.user = req[t].user /\ m.class = groups[g].class
     IN req' = [req EXCEPT ![t] =
                  IF ~GroupLive(g) \/ inClass THEN Idle
                  ELSE [@ EXCEPT !.at = "insertMember", !.class = groups[g].class,
                                 !.num = NextNumber(g), !.over = {}]]
  /\ UNCHANGED <<org, members, rows, make, dep, fate, begun>>

\* What the keys of group_members let in.
AdmitsUnkeyed(u, g, c) ==  \* fault: no unique key
  u \in student /\ GroupLive(g) /\ ClassLive(c)
Admits(u, g, c) ==
  /\ u \in student /\ GroupLive(g) /\ ClassLive(c)
  /\ ~\E m \in members : m.user = u /\ m.class = c

\* Whoever is between its read and its write learns of it in the history.
Overtake(us) == [s \in Request |-> IF req[s].at = "insertMember"
                                   THEN [req[s] EXCEPT !.over = @ \cup us] ELSE req[s]]
OvertakeMakers(us) == [k \in Cluster |-> IF make[k].at = "number"
                                         THEN [make[k] EXCEPT !.over = @ \cup us] ELSE make[k]]

InsertMember(t) ==
  /\ req[t].at = "insertMember"
  /\ LET r == req[t] IN
     IF Admits(r.user, r.group, r.class)
     THEN /\ members' = members \cup {[user |-> r.user, group |-> r.group, class |-> r.class,
                                       num |-> r.num, over |-> r.over]}
          /\ req' = [Overtake({r.user}) EXCEPT ![t] = Idle]
          /\ make' = OvertakeMakers({r.user})
     ELSE req' = [req EXCEPT ![t] = Idle] /\ UNCHANGED <<members, make>>
  /\ UNCHANGED <<org, rows, dep, fate, begun>>

RemoveMember(m) ==
  /\ m \in members
  /\ members' = members \ {m}
  /\ make' = [k \in Cluster |-> IF make[k].group = m.group /\ m.user \in DOMAIN make[k].plan
                                THEN [make[k] EXCEPT !.stale = TRUE] ELSE make[k]]
  /\ Counted
  /\ UNCHANGED <<org, rows, req, dep, fate>>

\* delete_user takes the memberships along.
DeleteStudent(u) ==
  /\ u \in student
  /\ student' = student \ {u}
  /\ members' = {m \in members : m.user # u}
  /\ Counted
  /\ UNCHANGED <<classes, groups, spent, rows, req, make, dep, fate>>

-----------------------------------------------------------------------------
(* A cluster is made: create_cluster as these tables see it *)

\* validate_cluster_creation; both associations are optional.
ValidUnmatched(a, c, g) ==  \* fault: the group's class is not compared
  /\ c # None => ClassLive(c) /\ Owns(a, classes[c])
  /\ g # None => GroupLive(g) /\ Owns(a, groups[g].by) /\ Owns(a, classes[groups[g].class])
Valid(a, c, g) ==
  /\ c # None => ClassLive(c) /\ Owns(a, classes[c])
  /\ g # None => /\ GroupLive(g)
                 /\ c # None => groups[g].class = c
                 /\ Owns(a, groups[g].by) /\ Owns(a, classes[groups[g].class])

\* The first saves know of no association.
StartCreation(k, a, c, g) ==
  /\ make[k].at = "idle" /\ ~Live(k) /\ Valid(a, c, g)
  /\ make' = [make EXCEPT ![k] = [NoMake EXCEPT !.at = "row", !.by = a, !.class = c, !.group = g]]
  /\ rows' = [rows EXCEPT ![k] = [NoRow EXCEPT !.live = TRUE]]
  /\ Counted
  /\ UNCHANGED <<org, members, req, dep, fate>>

\* A failure in time rolls back.
FailCreation(k) ==
  /\ make[k].at = "row"
  /\ make' = [make EXCEPT ![k] = [NoMake EXCEPT !.at = "failed"]]
  /\ rows' = [rows EXCEPT ![k] = NoRow]
  /\ UNCHANGED <<org, members, req, dep, fate, begun>>

\* backfill_group_student_numbers, first its reads: members without a number
\* get the lowest free ones, in the order the database returns them.
Unnumbered(g) == {m.user : m \in {n \in MembersOf(g) : n.num = NoNumber}}
Plans(g) ==
  LET free  == Free(g, Taken(g))
      lucky == {us \in SUBSET Unnumbered(g) :
                  Cardinality(us) = IF Cardinality(free) < Cardinality(Unnumbered(g))
                                    THEN Cardinality(free) ELSE Cardinality(Unnumbered(g))}
      given(us) == {n \in free : Cardinality({m \in free : m < n}) < Cardinality(us)}
  IN UNION {{p \in [us -> given(us)] : \A n \in given(us) : \E u \in us : p[u] = n}
            : us \in lucky}

ReadNumbers(k) ==
  /\ make[k].at = "row"
  /\ LET g == make[k].group IN
     IF g # None /\ GroupLive(g) /\ groups[g].max > 0
     THEN \E p \in Plans(g) :
            make' = [make EXCEPT ![k].at = "number", ![k].plan = p, ![k].over = {}]
     ELSE make' = [make EXCEPT ![k].at = "attach"]
  /\ UNCHANGED <<org, members, rows, req, dep, fate, begun>>

\* Then its updates, row by row in one transaction, which fails if a row is
\* gone; nothing catches that.
WriteNumbers(k) ==
  /\ make[k].at = "number"
  /\ LET plan == make[k].plan
         mine(m) == m.group = make[k].group /\ m.user \in DOMAIN plan
     IN IF ~make[k].stale /\ \A u \in DOMAIN plan : \E m \in members : mine(m) /\ m.user = u
        THEN /\ members' = {IF mine(m) THEN [m EXCEPT !.num = plan[m.user],
                                                      !.over = make[k].over] ELSE m
                            : m \in members}
             /\ make' = [OvertakeMakers(DOMAIN plan) EXCEPT
                           ![k] = [@ EXCEPT !.at = "attach", !.plan = <<>>, !.over = {}]]
             /\ req' = Overtake(DOMAIN plan)
        ELSE /\ make' = [make EXCEPT ![k] = [NoMake EXCEPT !.at = "failed"]]
             /\ UNCHANGED <<members, req>>
  /\ UNCHANGED <<org, rows, dep, fate, begun>>

\* save_cluster writes the associations it was given; a foreign key may refuse
\* them.  The history keeps those written behind the listing of a deletion.
Saved(k, row) ==
  /\ References(row.class, row.group)
  /\ rows' = [rows EXCEPT ![k] = row]
  /\ lost' = IF \E t \in Request : req[t].at \in {"detach", "submit"} THEN lost \cup {k} ELSE lost
Entry(k) == [class |-> make[k].class, group |-> make[k].group, by |-> make[k].by, live |-> TRUE]

\* The last save of a creation; nothing catches its failure.
Attach(k) ==
  /\ make[k].at = "attach"
  /\ \/ Saved(k, Entry(k)) /\ make' = [make EXCEPT ![k].at = "resave"]
     \/ /\ ~References(make[k].class, make[k].group) /\ UNCHANGED <<rows, lost>>
        /\ make' = [make EXCEPT ![k] = [NoMake EXCEPT !.at = "failed"]]
  /\ UNCHANGED <<org, members, req, dep, jobs, asked, begun>>

\* The HTTP route saves what it got back once more; the queue does not.
Resave(k) ==
  /\ make[k].at = "resave"
  /\ Saved(k, Entry(k)) \/ UNCHANGED <<rows, lost>>
  /\ make' = [make EXCEPT ![k] = [NoMake EXCEPT !.at = "done"]]
  /\ UNCHANGED <<org, members, req, dep, jobs, asked, begun>>

-----------------------------------------------------------------------------
(* A cluster is deployed to: the row is loaded once and saved several times *)

StartDeployment(k, a) ==
  /\ ~dep[k].on /\ make[k].at \in {"resave", "done"} /\ May(a, "cluster.deploy", k)
  /\ dep' = [dep EXCEPT ![k] = [on |-> TRUE, row |-> rows[k]]]
  /\ Counted
  /\ UNCHANGED <<org, members, rows, req, make, fate>>

SaveDeployment(k) ==
  /\ dep[k].on /\ Saved(k, dep[k].row)
  /\ UNCHANGED <<org, members, req, make, dep, jobs, asked, begun>>

EndDeployment(k) ==
  /\ dep[k].on
  /\ dep' = [dep EXCEPT ![k] = NoDep]
  /\ UNCHANGED <<org, members, rows, req, make, fate, begun>>

-----------------------------------------------------------------------------
(* A class or a group is deleted with its clusters *)

In(k, c, g) == Live(k) /\ IF c # None THEN rows[k].class = c ELSE rows[k].group = g
Clusters(c, g) == {k \in Cluster : In(k, c, g)}

StartClassDeletion(t, a, c) ==
  /\ req[t].at = "idle" /\ ClassLive(c) /\ Owns(a, classes[c])
  /\ req' = [req EXCEPT ![t] = [Idle EXCEPT !.at = "list", !.by = a, !.class = c,
                                            !.had = Clusters(c, None)]]
  /\ Counted
  /\ UNCHANGED <<org, members, rows, make, dep, fate>>

StartGroupDeletion(t, a, g) ==
  /\ req[t].at = "idle" /\ GroupLive(g) /\ Owns(a, groups[g].by)
  /\ req' = [req EXCEPT ![t] = [Idle EXCEPT !.at = "list", !.by = a, !.group = g,
                                            !.had = Clusters(None, g)]]
  /\ Counted
  /\ UNCHANGED <<org, members, rows, make, dep, fate>>

ListDetached(t) ==  \* fault: the list is made of what is detached already
  /\ req[t].at = "list"
  /\ req' = [req EXCEPT ![t].at = "detach", ![t].names = {}]
  /\ UNCHANGED <<org, members, rows, make, dep, fate, begun>>

ListClusters(t) ==
  /\ req[t].at = "list"
  /\ req' = [req EXCEPT ![t].at = "detach", ![t].names = Clusters(req[t].class, req[t].group)]
  /\ UNCHANGED <<org, members, rows, make, dep, fate, begun>>

\* detach_clusters_from_class, detach_clusters_from_group: whatever is in it
\* now, listed or not.
Detach(t) ==
  /\ req[t].at = "detach"
  /\ LET c == req[t].class
         g == req[t].group
     IN rows' = [k \in Cluster |->
                   IF In(k, c, g)
                   THEN [rows[k] EXCEPT !.class = IF c # None THEN None ELSE @, !.group = None]
                   ELSE rows[k]]
  /\ req' = [req EXCEPT ![t].at = "submit"]
  /\ UNCHANGED <<org, members, make, dep, fate, begun>>

\* delete_cluster_async for one of them.  It authorizes, and what it raises
\* ends the request.
SubmitNext(t) ==
  /\ req[t].at = "submit"
  /\ \E k \in req[t].names :
       IF May(req[t].by, "cluster.delete", k)
       THEN /\ req' = [req EXCEPT ![t].names = @ \ {k}]
            /\ jobs' = jobs \cup {<<k, req[t].by>>} /\ asked' = asked \cup {k}
            /\ UNCHANGED lost
       ELSE /\ req' = [req EXCEPT ![t] = Idle]
            /\ lost' = lost \cup req[t].names
            /\ UNCHANGED <<jobs, asked>>
  /\ UNCHANGED <<org, members, rows, make, dep, begun>>

\* delete_class and delete_group: groups and members go along, the clusters of a
\* group lose it, and the key of a cluster's class refuses.
Remove(cs, gs) ==
  /\ classes' = [c \in Class |-> IF c \in cs THEN None ELSE classes[c]]
  /\ groups' = [g \in Group |-> IF g \in gs THEN NoGroup ELSE groups[g]]
  /\ spent' = spent \cup cs \cup gs
  /\ members' = {m \in members : m.group \notin gs}
  /\ rows' = [k \in Cluster |-> IF rows[k].group \in gs THEN [rows[k] EXCEPT !.group = None]
                                ELSE rows[k]]
  /\ lost' = lost \cup {k \in Cluster : rows[k].group \in gs}

Drop(t) ==
  /\ req[t].at = "submit" /\ req[t].names = {}
  /\ LET c == req[t].class
         g == req[t].group
     IN \/ /\ c # None /\ ClassLive(c) /\ Clusters(c, None) = {}
           /\ Remove({c}, {h \in Group : groups[h].class = c})
        \/ c = None /\ GroupLive(g) /\ Remove({}, {g})
        \/ /\ IF c # None THEN ~ClassLive(c) \/ Clusters(c, None) # {} ELSE ~GroupLive(g)
           /\ UNCHANGED <<classes, groups, spent, members, rows, lost>>
  /\ req' = [req EXCEPT ![t] = Idle]
  /\ UNCHANGED <<student, make, dep, jobs, asked, begun>>

\* The route that deletes one cluster.
SubmitDeletion(k, a) ==
  /\ May(a, "cluster.delete", k)
  /\ jobs' = jobs \cup {<<k, a>>} /\ asked' = asked \cup {k}
  /\ Counted
  /\ UNCHANGED <<org, members, rows, req, make, dep, lost>>

\* The worker authorizes again.
RunDeletion(j) ==
  /\ j \in jobs
  /\ jobs' = jobs \ {j}
  /\ rows' = IF May(j[2], "cluster.delete", j[1]) THEN [rows EXCEPT ![j[1]] = NoRow] ELSE rows
  /\ UNCHANGED <<org, members, req, make, dep, asked, lost, begun>>

-----------------------------------------------------------------------------
(* Specification *)

StaffNext ==
  \E a \in Staff :
    \/ \E c \in Class : CreateClass(a, c)
    \/ \E g \in Group, m \in 0..MaxSeats : UpdateGroup(a, g, m)
    \/ \E k \in Cluster :
         \/ \E c \in Class \cup {None}, g \in Group \cup {None} : StartCreation(k, a, c, g)
         \/ StartDeployment(k, a) \/ SubmitDeletion(k, a)
    \/ \E t \in Request :
         \/ \E c \in Class :
              \/ \E n \in GroupName : StartGroup(t, a, c, n)
              \/ \E n \in GroupName, u \in Student : StartImport(t, a, c, n, u)
              \/ StartClassDeletion(t, a, c)
         \/ \E g \in Group : StartGroupDeletion(t, a, g)

MemberNext ==
  \/ \E t \in Request, g \in Group, u \in Student : StartAdd(t, g, u)
  \/ \E m \in members : RemoveMember(m)
  \/ \E u \in Student : DeleteStudent(u)

Step(t) ==
  \/ FindGroup(t) \/ ReadGroup(t) \/ InsertMember(t)
  \/ \E g \in Group, m \in 0..MaxSeats : MakeGroup(t, g, m)
  \/ ListClusters(t) \/ Detach(t) \/ SubmitNext(t) \/ Drop(t)

ClusterNext(k) ==
  \/ FailCreation(k) \/ ReadNumbers(k) \/ WriteNumbers(k) \/ Attach(k) \/ Resave(k)
  \/ SaveDeployment(k) \/ EndDeployment(k)

Next ==
  \/ StaffNext \/ MemberNext
  \/ \E t \in Request : Step(t)
  \/ \E k \in Cluster : ClusterNext(k)
  \/ \E j \in jobs : RunDeletion(j)

Spec == Init /\ [][Next]_vars

-----------------------------------------------------------------------------
(* Properties *)

\* A student is in at most one group of a class, whatever requests add him at
\* once: the route's own check is made on an old reading, the unique key holds.
OneGroupPerClass ==
  \A m, n \in members : m.user = n.user /\ m.class = n.class => m = n

\* Two members of a group have the same number, and so the same account on its
\* machines (app.py:2407), only if their numbers were given by requests that
\* overlapped.  The code has no lock or key that would exclude those.
SharedNumberMeansOverlap ==
  \A m, n \in members :
    m # n /\ m.group = n.group /\ m.num = n.num /\ m.num # NoNumber
      => m.user \in n.over \/ n.user \in m.over

\* Whoever the policy lets into a cluster of a class is an administrator, the
\* teacher who owns the class, or a student in one of its groups, although the
\* associations were checked long before they are saved and old rows are
\* written back.
AccessFollowsClass ==
  \A k \in Cluster, u \in Teacher \cup student :
    /\ Live(k) /\ rows[k].class # None
    /\ P!IsAllowed(Account(u), "webssh.connect", Resource(k), GroupsOf(u))
    => \/ classes[rows[k].class] = u
       \/ \E m \in members : m.user = u /\ m.class = rows[k].class

\* A deletion of a class or a group that is answered with success has asked for
\* the deletion of every cluster that was in it when it began, or another
\* request still has that to do.  A cluster is lost in three ways only: a save
\* associates it behind the listing, a request is refused half-way, or its group
\* goes with a class that its row does not name.
Answered(t) ==
  /\ req[t].at = "submit" /\ req[t].names = {} /\ req'[t].at = "idle"
  /\ IF req[t].class # None THEN classes'[req[t].class] = None
                            ELSE groups'[req[t].group].class = None
TakenOver(t, k) == \E s \in Request \ {t} : k \in req[s].names
AnsweredMeansAsked ==
  [][\A t \in Request : Answered(t) =>
       \A k \in req[t].had :
         k \in asked \cup lost \/ ~Live(k) \/ TakenOver(t, k)]_vars
===============================================================================
