------------------------- MODULE WebSSHSessionsProofs -------------------------
(***************************************************************************)
(* Proofs about WebSSHSessions for any number of threads, sockets,         *)
(* accounts and sessions: a session is connected, or can expire, or is     *)
(* still being made by its creator's event, and no takeover outlives the   *)
(* event and the socket that made it.                                      *)
(***************************************************************************)
EXTENDS WebSSHSessions, TLAPS

-----------------------------------------------------------------------------
(* The inductive invariant *)

Local == [pc : PC, op : {"none", "create", "reconnect", "takeover", "view", "stop", "leave",
                         "end", "deny", "write"},
          sid : Sid \cup {None}, ses : Session \cup {None}, victim : Sid \cup {None},
          from : Session \cup {None}, then : PC, by : User \cup {None}, left : 0..MaxChunk]
Object == [at : {"unused", "disconnected", "connected", "terminated"}, key : Key \cup {None},
           chan : {"none", "open", "closed"}, closed : BOOLEAN,
           owner : Sid \cup {None}, taker : Sid \cup {None}, taken : BOOLEAN,
           by : User \cup {None}, viewers : SUBSET Sid, since : BOOLEAN]

\* Which events come to a place, and the locals they bring.
Binding   == {"create", "reconnect", "takeover", "view"}
Unbinding == {"drop", "unbind", "unseat"}
Onward    == PC \ (Unbinding \cup {"close"})
Bound(r)  == r.sid \in Sid /\ r.ses \in Session
Fits(r, pc) ==
  /\ pc \in {"authorize", "switch", "displace", "enter", "seat"} => r.op \in Binding /\ Bound(r)
  /\ pc \in {"link", "connect"} => r.op \in {"create", "reconnect"} /\ Bound(r)
  /\ pc = "abort"  => r.op = "create" /\ r.ses \in Session
  /\ pc = "undo"   => r.op = "takeover" /\ r.ses \in Session
  /\ pc = "close"  => r.op \in {"create", "end"} /\ r.ses \in Session
  /\ pc = "forget" => r.op = "leave" /\ r.sid \in Sid
  /\ pc = "send"   => r.op = "write" /\ Bound(r)
  /\ pc = "idle"   => r.op \notin {"create", "takeover"}
\* An event that undoes a binding knows whose and where it goes on: the creator of a
\* session and a supervisor never just end there.
LocalOK(r) ==
  /\ Fits(r, r.pc)
  /\ r.pc \in Unbinding => r.victim \in Sid /\ r.then \in Onward /\ Fits(r, r.then)
  /\ r.pc \in {"drop", "unseat"} => r.from \in Session

\* What a session may be.  No event works on one that was never made, and the
\* creator's event closes it only after it was taken out of the table.
Expirable(r) == r.at \in {"connected", "terminated"} \/ (r.at = "disconnected" /\ r.since)
Phantom(r)   == r.taken /\ r.taker = None
LocalsInv  == \A t \in Thread : LocalOK(th[t])
MadeInv    == /\ \A s \in live : ses[s].at # "unused"
              /\ \A t \in Thread : th[t].ses # None => ses[th[t].ses].at # "unused"
ClosingInv == \A t \in Thread : th[t].op = "create" /\ th[t].pc = "close" => th[t].ses \notin live
Sessions   == NoHalfMade /\ NobodyEscapesCleanup /\ NoPhantomTakeover

IInv == TypeOK /\ LocalsInv /\ MadeInv /\ ClosingInv /\ Sessions

LEMMA InitInv == Init => IInv
BY WebSSHAssumption
   DEF Init, IInv, TypeOK, LocalsInv, LocalOK, Fits, Unbinding, MadeInv, ClosingInv, Sessions,
       NoHalfMade, NobodyEscapesCleanup, NoPhantomTakeover, Unused, Rest, NoWs, PC

-----------------------------------------------------------------------------
(* What a step does to the session objects *)

\* No step makes a session connectionless or lets it escape again, and none but the
\* takeover event leaves it taken over by nobody.
Keeps(r, q) ==
  /\ r.chan # "none" => q.chan # "none"
  /\ r.at # "unused" => q.at # "unused"
  /\ Expirable(r) => Expirable(q)
  /\ Phantom(q) => Phantom(r)
Kept == ses' \in [Session -> Object] /\ \A s \in Session : Keeps(ses[s], ses'[s])
Tabled == /\ live' \subseteq live /\ map' \in [Key -> Session \cup {None}]
          /\ ws' \in [Sid -> [ses : Session, role : Role] \cup {NoWs}]

LEMMA KeptSame == TypeOK /\ UNCHANGED ses => Kept
BY DEF TypeOK, Kept, Keeps, Object

LEMMA KeptOne ==
  ASSUME TypeOK, NEW s, NEW q, ses' = [ses EXCEPT ![s] = q],
         s \in Session => q \in Object /\ Keeps(ses[s], q)
  PROVE  Kept
<1>1. ASSUME NEW z \in Session PROVE ses'[z] \in Object /\ Keeps(ses[z], ses'[z])
  <2>1. CASE z = s
    BY <2>1 DEF TypeOK
  <2>2. CASE z # s
    BY <2>2 DEF TypeOK, Keeps, Object
  <2>. QED  BY <2>1, <2>2
<1>2. ses' = [z \in Session |-> ses'[z]]
  BY DEF TypeOK
<1>. QED  BY <1>1, <1>2 DEF Kept

LEMMA KeepsClosed == ASSUME NEW r \in Object PROVE Closed(r) \in Object /\ Keeps(r, Closed(r))
                            /\ Closed(r).at = "terminated"
BY DEF Object, Closed, Keeps, Expirable, Phantom

LEMMA KeepsReleased ==
  ASSUME NEW r \in Object
  PROVE  Released(r) \in Object /\ Keeps(r, Released(r)) /\ ~Phantom(Released(r))
BY DEF Object, Released, Keeps, Expirable, Phantom

LEMMA KeepsUnseated ==
  ASSUME NEW r \in Object, NEW x \in Sid
  PROVE  Unseated(r, x) \in Object /\ Keeps(r, Unseated(r, x))
<1>1. CASE r.owner = x
  BY <1>1 DEF Object, Unseated, Left, Keeps, Expirable, Phantom
<1>2. CASE r.owner # x /\ r.taker = x
  BY <1>2, KeepsReleased DEF Unseated
<1>3. CASE r.owner # x /\ r.taker # x
  <2>1. Unseated(r, x) = [r EXCEPT !.viewers = r.viewers \ {x}]
    BY <1>3 DEF Unseated
  <2>. QED  BY <2>1 DEF Object, Keeps, Expirable, Phantom
<1>. QED  BY <1>1, <1>2, <1>3

LEMMA KeepsSeated ==
  ASSUME NEW r \in Object, NEW x \in Sid, NEW role \in Role, NEW by \in User \cup {None}
  PROVE  /\ Seated(r, x, role, by) \in Object /\ Keeps(r, Seated(r, x, role, by))
         /\ role = "takeover" => ~Phantom(Seated(r, x, role, by))
<1>1. CASE role = "owner"
  BY <1>1 DEF Object, Seated, OwnerSeated, Keeps, Expirable, Phantom
<1>2. CASE role = "takeover"
  BY <1>2, WebSSHAssumption DEF Object, Seated, Keeps, Expirable, Phantom
<1>3. CASE role = "viewer"
  <2>1. Seated(r, x, role, by) = [r EXCEPT !.viewers = r.viewers \cup {x}]
    BY <1>3 DEF Seated
  <2>. QED  BY <1>3, <2>1 DEF Object, Keeps, Expirable, Phantom
<1>. QED  BY <1>1, <1>2, <1>3 DEF Role

-----------------------------------------------------------------------------
(* What a step does to its thread *)

Others(t) == th' \in [Thread -> Local] /\ \A u \in Thread \ {t} : th'[u] = th[u]
GoesOn(t) == Others(t) /\ LocalOK(th'[t]) /\ th'[t].op = th[t].op /\ th'[t].ses = th[t].ses

\* The creator's event ends when its session is connected or gone from the table, a
\* supervisor's when the takeover is seated or undone.
Served(t) ==
  /\ th[t].op = "create" => LET s == th[t].ses IN
       s \notin live' \/ (ses'[s].chan # "none" /\ Expirable(ses'[s]))
  /\ th[t].op = "takeover" => ~Phantom(ses'[th[t].ses])
Ends(t)  == Others(t) /\ th'[t] = Rest /\ Served(t)
Moves(t) ==
  /\ GoesOn(t) \/ Ends(t)
  /\ th'[t].op = "create" /\ th'[t].pc = "close" => th'[t].ses \notin live'

SidOrNone == Sid \cup {None}
SessionOrNone == Session \cup {None}
MovedTo(r, pc, x, s, then) == [r EXCEPT !.pc = pc, !.victim = x, !.from = s, !.then = then]

LEMMA Moved ==
  ASSUME NEW r \in Local, NEW pc \in PC, NEW x \in SidOrNone, NEW s \in SessionOrNone,
         NEW then \in PC, NEW q, q = MovedTo(r, pc, x, s, then)
  PROVE  /\ q \in Local /\ q.op = r.op /\ q.ses = r.ses /\ q.pc = pc
         /\ pc \notin Unbinding /\ Fits(r, pc) => LocalOK(q)
         /\ pc \in Unbinding /\ x \in Sid /\ then \in Onward /\ Fits(r, then)
            /\ (pc \in {"drop", "unseat"} => s \in Session) => LocalOK(q)
<1>1. q \in Local
  BY DEF Local, MovedTo, SidOrNone, SessionOrNone
<1>2. /\ q.pc = pc /\ q.op = r.op /\ q.ses = r.ses /\ q.sid = r.sid /\ q.victim = x
      /\ q.from = s /\ q.then = then
  BY DEF Local, MovedTo
<1>3. Fits(r, pc) => Fits(q, q.pc)
  BY <1>2 DEF Fits, Bound
<1>4. Fits(r, then) => Fits(q, q.then)
  BY <1>2 DEF Fits, Bound
<1>5. pc \in Unbinding => Fits(q, q.pc)
  BY <1>2 DEF Fits, Bound, Unbinding
<1>6. pc \notin Unbinding /\ Fits(r, pc) => LocalOK(q)
  BY <1>2, <1>3 DEF LocalOK, Unbinding
<1>7. pc \in Unbinding /\ x \in Sid /\ then \in Onward /\ Fits(r, then)
        /\ (pc \in {"drop", "unseat"} => s \in Session) => LocalOK(q)
  BY <1>2, <1>4, <1>5 DEF LocalOK
<1>. QED  BY <1>1, <1>2, <1>6, <1>7

LEMMA Dropping ==
  ASSUME NEW r \in Local, NEW x \in Sid, NEW s \in Session, NEW then \in Onward,
         Fits(r, then), NEW q, q = MovedTo(r, "drop", x, s, then)
  PROVE  q \in Local /\ LocalOK(q) /\ q.op = r.op /\ q.ses = r.ses /\ q.pc = "drop"
<1>1. "drop" \in PC /\ then \in PC /\ x \in SidOrNone /\ s \in SessionOrNone
  BY DEF Local, PC, Onward, SidOrNone, SessionOrNone
<1>. QED  BY <1>1, Moved DEF Unbinding

LEMMA SetOn ==
  ASSUME TypeOK, NEW t \in Thread, NEW r \in Local, th' = [th EXCEPT ![t] = r]
  PROVE  Others(t) /\ th'[t] = r
<1>1. th \in [Thread -> Local]
  BY DEF TypeOK, Local
<1>. QED  BY <1>1 DEF Others

LEMMA GoOn ==
  ASSUME TypeOK, NEW t \in Thread, NEW pc \in PC \ Unbinding, Go(t, pc),
         pc # "idle" => Fits(th[t], pc)
  PROVE  /\ pc # "idle" => GoesOn(t) /\ th'[t].pc = pc
         /\ pc = "idle" => Others(t) /\ th'[t] = Rest
<1>1. th[t] \in Local
  BY DEF TypeOK, Local
<1>2. CASE pc = "idle"
  <2>1. Rest \in Local
    BY WebSSHAssumption DEF Rest, Local, PC
  <2>2. th' = [th EXCEPT ![t] = Rest]
    BY <1>2 DEF Go
  <2>. QED  BY <1>2, <2>1, <2>2, SetOn
<1>3. CASE pc # "idle"
  <2>. DEFINE r == MovedTo(th[t], pc, None, None, "idle")
  <2>1. th' = [th EXCEPT ![t] = r]
    BY <1>3 DEF Go, Unbinding, MovedTo
  <2>2. "idle" \in PC /\ None \in SidOrNone /\ None \in SessionOrNone
    BY DEF PC, SidOrNone, SessionOrNone
  <2>3. r \in Local /\ LocalOK(r) /\ r.op = th[t].op /\ r.ses = th[t].ses /\ r.pc = pc
    <3>1. pc \in PC /\ pc \notin Unbinding /\ Fits(th[t], pc)
      BY <1>3, <2>2
    <3>. QED  BY <1>1, <2>2, <3>1, Moved
  <2>. HIDE DEF r
  <2>. QED  BY <1>3, <2>1, <2>3, SetOn DEF GoesOn
<1>. QED  BY <1>2, <1>3

LEMMA DropOn ==
  ASSUME TypeOK, NEW t \in Thread, NEW x \in Sid, NEW s \in Session, NEW then \in Onward,
         Fits(th[t], then), Drop(t, x, s, then)
  PROVE  GoesOn(t) /\ th'[t].pc = "drop"
<1>. DEFINE r == MovedTo(th[t], "drop", x, s, then)
<1>1. th[t] \in Local
  BY DEF TypeOK, Local
<1>2. r \in Local /\ LocalOK(r) /\ r.op = th[t].op /\ r.ses = th[t].ses /\ r.pc = "drop"
  BY <1>1, Dropping
<1>3. th' = [th EXCEPT ![t] = r]
  BY DEF Drop, MovedTo
<1>. HIDE DEF r
<1>. QED  BY <1>2, <1>3, SetOn DEF GoesOn

LEMMA UnbindOn ==
  ASSUME TypeOK, NEW t \in Thread, NEW x \in Sid, NEW then \in Onward,
         Fits(th[t], then), Unbind(t, x, then)
  PROVE  GoesOn(t) /\ th'[t].pc = "unbind"
<1>1. /\ th[t] \in Local /\ th[t].from \in SessionOrNone
      /\ "unbind" \in PC /\ then \in PC /\ x \in SidOrNone
  BY DEF TypeOK, Local, PC, Onward, SidOrNone, SessionOrNone
<1>2. PICK s \in SessionOrNone : s = th[t].from
  BY <1>1
<1>. DEFINE r == MovedTo(th[t], "unbind", x, s, then)
<1>3. r \in Local /\ LocalOK(r) /\ r.op = th[t].op /\ r.ses = th[t].ses /\ r.pc = "unbind"
  <2>1. "unbind" \in Unbinding /\ ("unbind" \in {"drop", "unseat"} => s \in Session)
    BY DEF Unbinding
  <2>. QED  BY <1>1, <2>1, Moved
<1>4. [th[t] EXCEPT !.pc = "unbind", !.victim = x, !.then = then] = r
  BY <1>1, <1>2 DEF Local, MovedTo
<1>5. th' = [th EXCEPT ![t] = r]
  BY <1>4 DEF Unbind
<1>. HIDE DEF r
<1>. QED  BY <1>3, <1>5, SetOn DEF GoesOn

-----------------------------------------------------------------------------
(* The steps of a thread *)

Good(t) == Moves(t) /\ Kept /\ Tabled

\* What a refused event goes on to do fits its locals.
LEMMA RefusedFits ==
  ASSUME NEW r \in Local, r.op \in Binding, r.ses \in Session
  PROVE  /\ Refused(r.op) \in Onward /\ Fits(r, Refused(r.op))
         /\ Refused(r.op) # "idle" \/ r.op \notin {"create", "takeover"}
BY DEF Refused, Fits, PC, Onward, Unbinding, Binding

LEMMA Going ==
  ASSUME TypeOK, NEW t \in Thread, NEW pc \in PC \ Unbinding, Go(t, pc),
         IF pc = "idle" THEN Served(t) ELSE Fits(th[t], pc),
         pc = "close" => th[t].ses \notin live'
  PROVE  Moves(t)
<1>1. CASE pc = "idle"
  BY <1>1, GoOn DEF Moves, Ends, Rest
<1>2. CASE pc # "idle"
  BY <1>2, GoOn DEF Moves, GoesOn
<1>. QED  BY <1>1, <1>2

LEMMA AuthorizeGood == ASSUME IInv, NEW t \in Thread, Authorize(t) PROVE Good(t)
<1>. DEFINE x == th[t].sid  s == th[t].ses  op == th[t].op
<1>1. th[t] \in Local /\ op \in Binding /\ x \in Sid /\ s \in Session
  BY DEF IInv, TypeOK, Local, LocalsInv, LocalOK, Fits, Bound, Authorize, At
<1>2. Kept /\ Tabled
  BY KeptSame DEF IInv, TypeOK, Tabled, Authorize, tables
<1>3. /\ Refused(op) \in Onward /\ Fits(th[t], Refused(op))
      /\ Refused(op) = "idle" => Served(t)
  BY <1>1, RefusedFits DEF Served
<1>4. CASE Go(t, Refused(op))
  BY <1>2, <1>3, <1>4, Going DEF IInv, Good, Onward
<1>5. CASE Go(t, "switch")
  <2>1. "switch" \in PC \ Unbinding /\ Fits(th[t], "switch")
    BY <1>1 DEF PC, Unbinding, Fits, Bound
  <2>. QED  BY <1>2, <1>5, <2>1, Going DEF IInv, Good
<1>6. CASE Drop(t, x, s, Refused(op))
  BY <1>1, <1>2, <1>3, <1>6, DropOn DEF IInv, Moves, GoesOn, Good
<1>. QED  BY <1>2, <1>4, <1>5, <1>6 DEF Authorize, Good

LEMMA DisplacedGood ==
  ASSUME IInv, NEW t \in Thread, Displaced(t), th[t].pc \in {"switch", "displace"},
         UNCHANGED <<tables, ses>>
  PROVE  Good(t)
<1>. DEFINE s == th[t].ses
            holder == [owner |-> ses[s].owner, takeover |-> ses[s].taker,
                       viewer |-> None][RoleOf(th[t].op)]
            by == IF th[t].op = "takeover" THEN ses[s].by ELSE None
            seen == [th[t] EXCEPT !.by = by]
<1>1. th[t] \in Local /\ th[t].op \in Binding /\ th[t].sid \in Sid /\ s \in Session
      /\ ses[s] \in Object
  BY DEF IInv, TypeOK, Local, LocalsInv, LocalOK, Fits, Bound, Object
<1>2. holder \in Sid \cup {None} /\ by \in User \cup {None}
  BY <1>1 DEF Object, RoleOf
<1>. HIDE DEF holder, by
<1>3. seen \in Local /\ seen.op = th[t].op /\ seen.ses = s /\ seen.sid = th[t].sid
  BY <1>1, <1>2 DEF Local
<1>4. Fits(seen, "enter") /\ "enter" \in PC /\ "drop" \in PC /\ "idle" \in PC
      /\ "enter" \in Onward
      /\ None \in SidOrNone /\ None \in SessionOrNone /\ holder \in SidOrNone /\ s \in SessionOrNone
  BY <1>1, <1>2, <1>3 DEF Fits, PC, Bound, Onward, Unbinding, SidOrNone, SessionOrNone
<1>5. Displaced(t) <=> th' = [th EXCEPT ![t] = IF holder \in {None, seen.sid}
          THEN [seen EXCEPT !.pc = "enter", !.victim = None, !.from = None, !.then = "idle"]
          ELSE [seen EXCEPT !.pc = "drop", !.victim = holder, !.from = s, !.then = "enter"]]
  BY DEF Displaced, holder, by
<1>. HIDE DEF seen
<1>6. Kept /\ Tabled
  BY KeptSame DEF IInv, TypeOK, Tabled, tables
<1>7. CASE holder \in {None, seen.sid}
  <2>. DEFINE r == MovedTo(seen, "enter", None, None, "idle")
  <2>1. r \in Local /\ LocalOK(r) /\ r.op = th[t].op /\ r.ses = s /\ r.pc = "enter"
    <3>1. "enter" \notin Unbinding
      BY DEF Unbinding
    <3>2. PICK z \in Local : z = seen
      BY <1>3
    <3>. QED  BY <1>3, <1>4, <3>1, <3>2, Moved
  <2>2. th' = [th EXCEPT ![t] = r]
    BY <1>5, <1>7 DEF MovedTo
  <2>. HIDE DEF r
  <2>. QED  BY <1>6, <2>1, <2>2, SetOn DEF Moves, GoesOn, IInv, Good
<1>8. CASE holder \notin {None, seen.sid}
  <2>. DEFINE r == MovedTo(seen, "drop", holder, s, "enter")
  <2>1. r \in Local /\ LocalOK(r) /\ r.op = th[t].op /\ r.ses = s /\ r.pc = "drop"
    <3>1. holder \in Sid
      BY <1>2, <1>8
    <3>. QED  BY <1>1, <1>3, <1>4, <3>1, Dropping
  <2>2. th' = [th EXCEPT ![t] = r]
    BY <1>5, <1>8 DEF MovedTo
  <2>. HIDE DEF r
  <2>. QED  BY <1>6, <2>1, <2>2, SetOn DEF Moves, GoesOn, IInv, Good
<1>. QED  BY <1>7, <1>8

LEMMA SwitchGood == ASSUME IInv, NEW t \in Thread, Switch(t) PROVE Good(t)
<1>1. CASE Displaced(t)
  BY <1>1, DisplacedGood DEF Switch, At
<1>2. CASE Unbind(t, th[t].sid, "displace")
  <2>1. th[t].op \in Binding /\ th[t].sid \in Sid /\ th[t].ses \in Session
    BY DEF IInv, LocalsInv, LocalOK, Fits, Bound, Switch, At
  <2>2. "displace" \in Onward /\ Fits(th[t], "displace")
    BY <2>1 DEF PC, Onward, Unbinding, Fits, Bound
  <2>3. Kept /\ Tabled
    BY KeptSame DEF IInv, TypeOK, Tabled, tables, Switch
  <2>. QED  BY <1>2, <2>1, <2>2, <2>3, UnbindOn DEF Good, Moves, GoesOn, IInv
<1>. QED  BY <1>1, <1>2 DEF Switch

LEMMA EnterGood == ASSUME IInv, NEW t \in Thread, Enter(t) PROVE Good(t)
<1>1. th[t].op \in Binding /\ th[t].sid \in Sid /\ th[t].ses \in Session
  BY DEF IInv, LocalsInv, LocalOK, Fits, Bound, Enter, At
<1>2. "seat" \in PC \ Unbinding /\ Fits(th[t], "seat")
  BY <1>1 DEF PC, Unbinding, Fits, Bound
<1>3. [ses |-> th[t].ses, role |-> RoleOf(th[t].op)] \in [ses : Session, role : Role]
  BY <1>1 DEF RoleOf, Role
<1>4. Kept /\ Tabled
  BY <1>3, KeptSame DEF IInv, TypeOK, Tabled, Enter
<1>5. Go(t, "seat")
  BY DEF Enter
<1>. QED  BY <1>2, <1>4, <1>5, Going DEF Good, IInv

LEMMA TakeSeatGood == ASSUME IInv, NEW t \in Thread, TakeSeat(t) PROVE Good(t)
<1>. DEFINE x == th[t].sid  op == th[t].op  s == th[t].ses
            q == Seated(ses[s], x, RoleOf(op), th[t].by)
            pc == IF op \in {"create", "reconnect"} THEN "link" ELSE "idle"
<1>1. /\ op \in Binding /\ x \in Sid /\ s \in Session /\ ses[s] \in Object
      /\ th[t].by \in User \cup {None}
  BY DEF IInv, TypeOK, LocalsInv, LocalOK, Fits, Bound, TakeSeat, At, Object
<1>2. RoleOf(op) \in Role /\ (op = "takeover" => RoleOf(op) = "takeover")
  BY <1>1 DEF RoleOf, Role
<1>3. q \in Object /\ Keeps(ses[s], q) /\ (op = "takeover" => ~Phantom(q))
  BY <1>1, <1>2, KeepsSeated
<1>4. ses' = [ses EXCEPT ![s] = q] /\ Go(t, pc) /\ UNCHANGED tables
  BY DEF TakeSeat
<1>. HIDE DEF q
<1>5. Kept /\ ses'[s] = q
  BY <1>1, <1>3, <1>4, KeptOne DEF IInv, TypeOK
<1>6. Tabled
  BY <1>4 DEF IInv, TypeOK, Tabled, tables
<1>7. /\ pc \in PC \ Unbinding /\ pc # "close" /\ (pc # "idle" => Fits(th[t], pc))
      /\ pc = "idle" => op # "create"
  BY <1>1 DEF PC, Unbinding, Fits, Bound, Binding
<1>. QED  BY <1>1, <1>3, <1>4, <1>5, <1>6, <1>7, Going DEF Good, IInv, Served

\* After a binding was undone the event goes on where it meant to.
LEMMA GoingThen ==
  ASSUME IInv, NEW t \in Thread, th[t].pc \in Unbinding, Go(t, th[t].then)
  PROVE  Moves(t)
<1>1. th[t].then \in Onward /\ Fits(th[t], th[t].then)
  BY DEF IInv, LocalsInv, LocalOK
<1>2. th[t].then = "idle" => Served(t)
  BY <1>1 DEF Fits, Served
<1>. QED  BY <1>1, <1>2, Going DEF IInv, Onward

LEMMA ToUnseat ==
  ASSUME IInv, NEW t \in Thread, th[t].pc \in Unbinding, NEW s \in Session,
         th' = [th EXCEPT ![t] = MovedTo(th[t], "unseat", th[t].victim, s, th[t].then)]
  PROVE  Moves(t)
<1>. DEFINE r == MovedTo(th[t], "unseat", th[t].victim, s, th[t].then)
<1>1. /\ th[t] \in Local /\ th[t].victim \in Sid /\ th[t].then \in Onward
      /\ Fits(th[t], th[t].then) /\ th[t].then \in PC /\ "unseat" \in PC
      /\ th[t].victim \in SidOrNone /\ s \in SessionOrNone
  BY DEF IInv, TypeOK, Local, LocalsInv, LocalOK, PC, SidOrNone, SessionOrNone
<1>2. r \in Local /\ LocalOK(r) /\ r.op = th[t].op /\ r.ses = th[t].ses /\ r.pc = "unseat"
  BY <1>1, Moved DEF Unbinding
<1>3. th' = [th EXCEPT ![t] = r]
  OBVIOUS
<1>. HIDE DEF r
<1>. QED  BY <1>2, <1>3, SetOn DEF Moves, GoesOn, IInv

LEMMA DropEntryGood == ASSUME IInv, NEW t \in Thread, DropEntry(t) PROVE Good(t)
<1>1. th[t].pc = "drop" /\ th[t] \in Local /\ th[t].from \in Session
  BY DEF IInv, TypeOK, Local, LocalsInv, LocalOK, DropEntry, At
<1>2. Kept /\ Tabled
  BY KeptSame DEF IInv, TypeOK, Tabled, DropEntry
<1>3. CASE Go(t, "unseat")
  <2>1. th' = [th EXCEPT ![t] = MovedTo(th[t], "unseat", th[t].victim, th[t].from, th[t].then)]
    <3>1. MovedTo(th[t], "unseat", th[t].victim, th[t].from, th[t].then)
            = [th[t] EXCEPT !.pc = "unseat"]
      BY <1>1 DEF MovedTo, Local
    <3>2. th' = [th EXCEPT ![t] = [th[t] EXCEPT !.pc = "unseat"]]
      BY <1>3 DEF Go
    <3>. QED  BY <3>1, <3>2
  <2>. QED  BY <1>1, <1>2, <2>1, ToUnseat DEF Unbinding, Good
<1>4. CASE Go(t, th[t].then)
  BY <1>1, <1>2, <1>4, GoingThen DEF Unbinding, Good
<1>. QED  BY <1>3, <1>4 DEF DropEntry

LEMMA UnbindEntryGood == ASSUME IInv, NEW t \in Thread, UnbindEntry(t) PROVE Good(t)
<1>. DEFINE s == ws[th[t].victim].ses
<1>1. th[t].pc = "unbind" /\ th[t] \in Local
  BY DEF IInv, TypeOK, Local, UnbindEntry, At
<1>2. Kept /\ Tabled
  BY KeptSame DEF IInv, TypeOK, Tabled, UnbindEntry
<1>3. CASE s \in live
  <2>1. s \in Session
    BY <1>3 DEF IInv, TypeOK
  <2>2. th' = [th EXCEPT ![t] = MovedTo(th[t], "unseat", th[t].victim, s, th[t].then)]
    <3>1. MovedTo(th[t], "unseat", th[t].victim, s, th[t].then)
            = [th[t] EXCEPT !.pc = "unseat", !.from = s]
      BY <1>1, <2>1 DEF MovedTo, Local
    <3>2. th' = [th EXCEPT ![t] = [th[t] EXCEPT !.pc = "unseat", !.from = s]]
      BY <1>3 DEF UnbindEntry
    <3>. QED  BY <3>1, <3>2
  <2>. QED  BY <1>1, <1>2, <2>1, <2>2, ToUnseat DEF Unbinding, Good
<1>4. CASE s \notin live
  BY <1>1, <1>2, <1>4, GoingThen DEF UnbindEntry, Unbinding, Good
<1>. QED  BY <1>3, <1>4

LEMMA UnseatGood == ASSUME IInv, NEW t \in Thread, Unseat(t) PROVE Good(t)
<1>. DEFINE s == th[t].from  q == Unseated(ses[s], th[t].victim)
<1>1. th[t].pc = "unseat" /\ s \in Session /\ th[t].victim \in Sid /\ ses[s] \in Object
  BY DEF IInv, TypeOK, LocalsInv, LocalOK, Unbinding, Unseat, At, Object
<1>2. q \in Object /\ Keeps(ses[s], q)
  BY <1>1, KeepsUnseated
<1>3. ses' = [ses EXCEPT ![s] = q] /\ Go(t, th[t].then) /\ UNCHANGED tables
  BY DEF Unseat
<1>. HIDE DEF q
<1>4. Kept
  BY <1>2, <1>3, KeptOne DEF IInv
<1>5. Tabled
  BY <1>3 DEF IInv, TypeOK, Tabled, tables
<1>. QED  BY <1>1, <1>3, <1>4, <1>5, GoingThen DEF Unbinding, Good

LEMMA UndoGood == ASSUME IInv, NEW t \in Thread, Undo(t) PROVE Good(t)
<1>. DEFINE s == th[t].ses  q == Released(ses[s])
<1>1. th[t].op = "takeover" /\ s \in Session /\ ses[s] \in Object
  BY DEF IInv, TypeOK, LocalsInv, LocalOK, Fits, Undo, At, Object
<1>2. q \in Object /\ Keeps(ses[s], q) /\ ~Phantom(q)
  BY <1>1, KeepsReleased
<1>3. ses' = [ses EXCEPT ![s] = q] /\ Go(t, "idle") /\ UNCHANGED tables
  BY DEF Undo
<1>. HIDE DEF q
<1>4. Kept /\ ses'[s] = q
  BY <1>1, <1>2, <1>3, KeptOne DEF IInv, TypeOK
<1>5. Tabled
  BY <1>3 DEF IInv, TypeOK, Tabled, tables
<1>6. "idle" \in PC \ Unbinding
  BY DEF PC, Unbinding
<1>. QED  BY <1>1, <1>2, <1>3, <1>4, <1>5, <1>6, Going DEF Good, IInv, Served

LEMMA ForgetGood == ASSUME IInv, NEW t \in Thread, Forget(t) PROVE Good(t)
<1>1. th[t].op = "leave" /\ Go(t, "idle") /\ UNCHANGED <<tables, ses>>
  BY DEF IInv, LocalsInv, LocalOK, Fits, Forget, At
<1>2. Kept /\ Tabled
  BY <1>1, KeptSame DEF IInv, TypeOK, Tabled, tables
<1>3. "idle" \in PC \ Unbinding
  BY DEF PC, Unbinding
<1>. QED  BY <1>1, <1>2, <1>3, Going DEF Good, IInv, Served

LEMMA LinkGood == ASSUME IInv, NEW t \in Thread, Link(t) PROVE Good(t)
<1>. DEFINE x == th[t].sid  s == th[t].ses  op == th[t].op
<1>1. th[t] \in Local /\ op \in {"create", "reconnect"} /\ x \in Sid /\ s \in Session
  BY DEF IInv, TypeOK, Local, LocalsInv, LocalOK, Fits, Bound, Link, At
<1>2. Kept /\ Tabled
  BY KeptSame DEF IInv, TypeOK, Tabled, Link, tables
<1>3. /\ Refused(op) \in Onward /\ Fits(th[t], Refused(op))
      /\ Refused(op) = "idle" => Served(t)
  BY <1>1, RefusedFits DEF Served, Binding
<1>4. CASE Go(t, Refused(op))
  BY <1>2, <1>3, <1>4, Going DEF IInv, Good, Onward
<1>5. CASE Go(t, "connect")
  <2>1. "connect" \in PC \ Unbinding /\ Fits(th[t], "connect")
    BY <1>1 DEF PC, Unbinding, Fits, Bound
  <2>. QED  BY <1>2, <1>5, <2>1, Going DEF IInv, Good
<1>6. CASE Drop(t, x, s, Refused(op))
  BY <1>1, <1>2, <1>3, <1>6, DropOn DEF IInv, Moves, GoesOn, Good
<1>7. CASE op = "reconnect" /\ Go(t, "idle")
  <2>1. "idle" \in PC \ Unbinding
    BY DEF PC, Unbinding
  <2>. QED  BY <1>2, <1>7, <2>1, Going DEF IInv, Good, Served
<1>. QED  BY <1>4, <1>5, <1>6, <1>7 DEF Link

LEMMA ConnectGood == ASSUME IInv, NEW t \in Thread, Connect(t) PROVE Good(t)
<1>. DEFINE s == th[t].ses  op == th[t].op
            q == [ses[s] EXCEPT !.chan = "open", !.at = "connected", !.since = FALSE]
<1>1. /\ th[t] \in Local /\ op \in {"create", "reconnect"} /\ s \in Session
      /\ ses[s] \in Object
  BY DEF IInv, TypeOK, Local, LocalsInv, LocalOK, Fits, Bound, Connect, At, Object
<1>2. Tabled
  BY DEF IInv, TypeOK, Tabled, Connect, tables
<1>3. CASE ses' = [ses EXCEPT ![s] = q] /\ Go(t, "idle")
  <2>1. q \in Object /\ Keeps(ses[s], q) /\ q.chan # "none" /\ Expirable(q)
    BY <1>1 DEF Object, Keeps, Expirable, Phantom
  <2>. HIDE DEF q
  <2>2. Kept /\ ses'[s] = q
    BY <1>1, <1>3, <2>1, KeptOne DEF IInv, TypeOK
  <2>3. "idle" \in PC \ Unbinding
    BY DEF PC, Unbinding
  <2>. QED  BY <1>1, <1>2, <1>3, <2>1, <2>2, <2>3, Going DEF IInv, Good, Served
<1>4. CASE UNCHANGED ses /\ Go(t, Refused(op))
  <2>1. /\ Refused(op) \in Onward /\ Fits(th[t], Refused(op))
        /\ Refused(op) = "idle" => Served(t)
    BY <1>1, RefusedFits DEF Served, Binding
  <2>2. Kept
    BY <1>4, KeptSame DEF IInv
  <2>. QED  BY <1>2, <1>4, <2>1, <2>2, Going DEF IInv, Good, Onward
<1>. QED  BY <1>3, <1>4 DEF Connect

LEMMA SendGood == ASSUME IInv, NEW t \in Thread, Send(t) PROVE Good(t)
<1>. DEFINE x == th[t].sid  s == th[t].ses
<1>1. /\ th[t] \in Local /\ th[t].op = "write" /\ x \in Sid /\ s \in Session
      /\ th[t].pc = "send"
  BY DEF IInv, TypeOK, Local, LocalsInv, LocalOK, Fits, Bound, Send, At
<1>2. Kept /\ Tabled
  BY KeptSame DEF IInv, TypeOK, Tabled, Send, tables
<1>3. "idle" \in Onward /\ Fits(th[t], "idle") /\ Served(t)
  BY <1>1 DEF Onward, PC, Unbinding, Fits, Served
<1>4. CASE Go(t, "idle")
  BY <1>2, <1>3, <1>4, Going DEF IInv, Good, Onward
<1>5. CASE Drop(t, x, s, "idle")
  BY <1>1, <1>2, <1>3, <1>5, DropOn DEF IInv, Moves, GoesOn, Good
<1>6. CASE th[t].left > 0 /\ th' = [th EXCEPT ![t].left = @ - 1]
  <2>. DEFINE r == [th[t] EXCEPT !.left = th[t].left - 1]
  <2>1. r \in Local /\ r.op = "write" /\ r.pc = "send" /\ r.sid = x /\ r.ses = s
    BY <1>1, <1>6, WebSSHAssumption DEF Local
  <2>2. th' = [th EXCEPT ![t] = r]
    BY <1>6
  <2>. HIDE DEF r
  <2>3. LocalOK(r)
    BY <1>1, <2>1 DEF LocalOK, Fits, Bound, Unbinding
  <2>. QED  BY <1>1, <1>2, <2>1, <2>2, <2>3, SetOn DEF IInv, Moves, GoesOn, Good
<1>. QED  BY <1>4, <1>5, <1>6 DEF Send

\* terminate_session on a session of the table.
LEMMA PoppedTabled == ASSUME TypeOK, NEW s, Popped(s) PROVE Tabled /\ live' = live \ {s}
<1>1. Unbound(s) \in [Sid -> [ses : Session, role : Role] \cup {NoWs}]
  BY DEF TypeOK, Unbound
<1>. QED  BY <1>1 DEF TypeOK, Popped, Tabled

LEMMA AbortGood == ASSUME IInv, NEW t \in Thread, Abort(t) PROVE Good(t)
<1>. DEFINE s == th[t].ses  pc == IF s \in live THEN "close" ELSE "idle"
<1>1. th[t].op = "create" /\ s \in Session
  BY DEF IInv, LocalsInv, LocalOK, Fits, Abort, At
<1>2. Kept /\ Tabled /\ live' = live \ {s} /\ Go(t, pc)
  BY KeptSame, PoppedTabled DEF IInv, Abort
<1>3. pc \in PC \ Unbinding /\ (pc # "idle" => Fits(th[t], pc))
  BY <1>1 DEF PC, Unbinding, Fits
<1>4. Served(t)
  BY <1>1, <1>2 DEF Served
<1>. QED  BY <1>1, <1>2, <1>3, <1>4, Going DEF IInv, Good

LEMMA CloseGood == ASSUME IInv, NEW t \in Thread, Close(t) PROVE Good(t)
<1>. DEFINE s == th[t].ses
<1>1. /\ th[t].op \in {"create", "end"} /\ s \in Session /\ ses[s] \in Object
      /\ th[t].pc = "close"
  BY DEF IInv, TypeOK, LocalsInv, LocalOK, Fits, Close, At, Object
<1>2. ses' = [ses EXCEPT ![s] = Closed(ses[s])] /\ Go(t, "idle") /\ UNCHANGED tables
  BY DEF Close
<1>3. Kept
  BY <1>1, <1>2, KeepsClosed, KeptOne DEF IInv
<1>4. Tabled /\ live' = live
  BY <1>2 DEF IInv, TypeOK, Tabled, tables
<1>5. "idle" \in PC \ Unbinding
  BY DEF PC, Unbinding
<1>6. Served(t)
  BY <1>1, <1>4 DEF IInv, ClosingInv, Served
<1>. QED  BY <1>2, <1>3, <1>4, <1>5, <1>6, Going DEF IInv, Good

LEMMA ThreadStepGood == ASSUME IInv, NEW t \in Thread, ThreadStep(t) PROVE Good(t)
BY AuthorizeGood, SwitchGood, DisplacedGood, EnterGood, TakeSeatGood, DropEntryGood,
   UnbindEntryGood, UnseatGood, UndoGood, ForgetGood, LinkGood, ConnectGood, SendGood, AbortGood,
   CloseGood
   DEF ThreadStep, Displace, At

-----------------------------------------------------------------------------
(* The invariant *)

\* An event starts in an idle thread, on a session that was made.
Starts(t) ==
  /\ Others(t) /\ th[t] = Rest /\ LocalOK(th'[t])
  /\ th'[t].ses # None => ses'[th'[t].ses].at # "unused"
  /\ th'[t].pc = "close" => th'[t].op # "create"

\* What a step may do to the table and the sessions besides keeping them: make a session
\* in its creator's event, take one over in a supervisor's.
BeingTaken(s) == \E t \in Thread : th[t].op = "takeover" /\ th[t].ses = s
Allowable ==
  /\ ses' \in [Session -> Object] /\ live' \subseteq Session
  /\ \A s \in Session : ses[s].at # "unused" =>
       /\ ses'[s].at # "unused"
       /\ ses[s].chan # "none" => ses'[s].chan # "none"
       /\ Expirable(ses[s]) => Expirable(ses'[s])
       /\ Phantom(ses'[s]) => Phantom(ses[s]) \/ BeingTaken(s)'
  /\ \A s \in live' \ live : /\ ses[s].at = "unused" /\ ses'[s].at # "unused"
                             /\ BeingMade(s)' /\ ~Phantom(ses'[s])

LEMMA KeptAllowable == TypeOK /\ Kept /\ Tabled => Allowable
BY DEF TypeOK, Kept, Keeps, Tabled, Allowable

LEMMA RestOK == LocalOK(Rest) /\ Rest.ses = None /\ Rest.op = "none"
BY DEF LocalOK, Rest, Fits, Unbinding

LEMMA AllowableInv ==
  ASSUME IInv, Allowable, UNCHANGED th \/ \E t \in Thread : Moves(t) \/ Starts(t)
  PROVE  LocalsInv' /\ MadeInv' /\ ClosingInv' /\ Sessions'
<1>1. th \in [Thread -> Local] /\ ses \in [Session -> Object] /\ live \subseteq Session
  BY DEF IInv, TypeOK, Local, Object
<1>. DEFINE Made(s) == s \in Session /\ ses[s].at # "unused"
<1>2. \A t \in Thread : th[t].ses # None => Made(th[t].ses)
  BY <1>1 DEF IInv, MadeInv, Local
<1>3. /\ \A s : Made(s) => ses'[s].at # "unused" /\ (s \in live' => s \in live)
      /\ None \notin live'
  BY <1>1, WebSSHAssumption DEF Allowable
<1>4. \A s \in live' : ses'[s].at # "unused"
  BY <1>1 DEF IInv, MadeInv, Allowable
\* It is enough that the creator's and the supervisor's events go on while they are needed.
<1>5. ASSUME \A s \in live' \cap live : BeingMade(s) =>
               BeingMade(s)' \/ (ses'[s].chan # "none" /\ Expirable(ses'[s])),
             \A s \in live' \cap live : BeingTaken(s) => BeingTaken(s)' \/ ~Phantom(ses'[s])
      PROVE  Sessions'
  <2>1. NoHalfMade'
    BY <1>1, <1>5 DEF IInv, MadeInv, Sessions, NoHalfMade, Allowable
  <2>2. NobodyEscapesCleanup'
    BY <1>1, <1>5 DEF IInv, MadeInv, Sessions, NobodyEscapesCleanup, Allowable, MayExpire, Expirable
  <2>3. NoPhantomTakeover'
    BY <1>1, <1>5 DEF IInv, MadeInv, Sessions, NoPhantomTakeover, Allowable, Phantom, BeingTaken
  <2>. QED  BY <2>1, <2>2, <2>3 DEF Sessions
<1>6. CASE UNCHANGED th
  <2>1. LocalsInv'
    BY <1>6 DEF IInv, LocalsInv
  <2>2. MadeInv'
    BY <1>4, <1>6, <1>2, <1>3 DEF MadeInv
  <2>3. ClosingInv'
    BY <1>6, <1>2, <1>3 DEF IInv, ClosingInv
  <2>4. Sessions'
    BY <1>5, <1>6 DEF BeingMade, BeingTaken
  <2>. QED  BY <2>1, <2>2, <2>3, <2>4
<1>7. ASSUME NEW t \in Thread, Moves(t) \/ Starts(t)
      PROVE  LocalsInv' /\ MadeInv' /\ ClosingInv' /\ Sessions'
  <2>1. \A u \in Thread \ {t} : th'[u] = th[u]
    BY <1>7 DEF Moves, Starts, GoesOn, Ends, Others
  <2>2. LocalOK(th'[t])
    BY <1>7, RestOK DEF Moves, Starts, GoesOn, Ends
  <2>3. LocalsInv'
    BY <2>1, <2>2 DEF IInv, LocalsInv
  <2>4. th'[t].ses # None => ses'[th'[t].ses].at # "unused"
    BY <1>7, <1>2, <1>3, RestOK DEF Moves, Starts, GoesOn, Ends
  <2>5. MadeInv'
    BY <1>4, <1>2, <1>3, <2>1, <2>4 DEF MadeInv
  <2>6. ClosingInv'
    <3>1. th'[t].op = "create" /\ th'[t].pc = "close" => th'[t].ses \notin live'
      BY <1>7 DEF Moves, Starts
    <3>. QED  BY <1>2, <1>3, <2>1, <3>1 DEF IInv, ClosingInv
  <2>7. ASSUME NEW s \in live', BeingMade(s)
        PROVE  BeingMade(s)' \/ (ses'[s].chan # "none" /\ Expirable(ses'[s]))
    <3>1. PICK u \in Thread : th[u].op = "create" /\ th[u].ses = s
      BY <2>7 DEF BeingMade
    <3>2. CASE u # t
      BY <2>1, <3>1, <3>2 DEF BeingMade
    <3>3. CASE u = t
      BY <1>7, <3>1, <3>3 DEF BeingMade, Moves, Starts, GoesOn, Ends, Served, Rest
    <3>. QED  BY <3>2, <3>3
  <2>8. ASSUME NEW s \in live', BeingTaken(s)
        PROVE  BeingTaken(s)' \/ ~Phantom(ses'[s])
    <3>1. PICK u \in Thread : th[u].op = "takeover" /\ th[u].ses = s
      BY <2>8 DEF BeingTaken
    <3>2. CASE u # t
      BY <2>1, <3>1, <3>2 DEF BeingTaken
    <3>3. CASE u = t
      BY <1>7, <3>1, <3>3 DEF BeingTaken, Moves, Starts, GoesOn, Ends, Served, Rest
    <3>. QED  BY <3>2, <3>3
  <2>. QED  BY <1>5, <2>3, <2>5, <2>6, <2>7, <2>8
<1>. QED  BY <1>6, <1>7

LEMMA ThreadStepInv == ASSUME IInv, NEW t \in Thread, ThreadStep(t) PROVE IInv'
<1>1. Moves(t) /\ Kept /\ Tabled
  BY ThreadStepGood DEF Good
<1>2. th' \in [Thread -> Local]
  BY <1>1 DEF Moves, GoesOn, Ends, Others
<1>3. ASSUME NEW x \in Sid PROVE [sock EXCEPT ![x] = "gone"] \in [Sid -> {"open", "gone"}]
  BY DEF IInv, TypeOK
<1>4. sock' \in [Sid -> {"open", "gone"}] /\ UNCHANGED <<active, cl, sent>>
  <2>1. CASE Forget(t)
    <3>1. th[t].sid \in Sid
      BY <2>1 DEF IInv, LocalsInv, LocalOK, Fits, Forget, At
    <3>. QED  BY <2>1, <3>1, <1>3 DEF Forget, ThreadStep
  <2>2. CASE ~Forget(t)
    <3>1. UNCHANGED <<sock, active, cl, sent>>
      BY <2>2 DEF ThreadStep, Authorize, Switch, Displace, Enter, TakeSeat, DropEntry, UnbindEntry,
         Unseat, Undo, Link, Connect, Send, Abort, Close, world
    <3>. QED  BY <3>1 DEF IInv, TypeOK
  <2>. QED  BY <2>1, <2>2
<1>5. TypeOK'
  BY <1>1, <1>2, <1>4 DEF IInv, TypeOK, Local, Object, Kept, Tabled
<1>. QED  BY <1>1, <1>5, KeptAllowable, AllowableInv DEF IInv

-----------------------------------------------------------------------------
(* The events *)

LEMMA Beginning ==
  ASSUME TypeOK, NEW t \in Thread, NEW r \in Local, Begin(t, r), LocalOK(r),
         r.ses # None => ses'[r.ses].at # "unused", r.pc = "close" => r.op # "create"
  PROVE  Starts(t) /\ th'[t] = r
BY SetOn DEF Begin, First, Starts

LEMMA TaskOK ==
  ASSUME NEW op \in Binding, NEW x \in Sid, NEW s \in Session,
         NEW q, q = Task(op, x, s, "authorize")
  PROVE  q \in Local /\ LocalOK(q) /\ q.op = op /\ q.ses = s /\ q.pc = "authorize"
<1>1. /\ q.pc = "authorize" /\ q.op = op /\ q.sid = x /\ q.ses = s
  BY DEF Task, Rest
<1>2. q \in Local
  <2>1. q = [pc |-> "authorize", op |-> op, sid |-> x, ses |-> s, victim |-> None, from |-> None,
             then |-> "idle", by |-> None, left |-> 0]
    BY DEF Task, Rest
  <2>2. 0 \in 0..MaxChunk /\ "authorize" \in PC /\ "idle" \in PC
    BY WebSSHAssumption DEF PC
  <2>. QED  BY <2>1, <2>2 DEF Local, Binding
<1>3. LocalOK(q)
  BY <1>1 DEF LocalOK, Fits, Bound, Unbinding
<1>. QED  BY <1>1, <1>2, <1>3

LEMMA LosingOK ==
  ASSUME NEW op \in {"stop", "deny"}, NEW x \in Sid, NEW s \in Session \cup {None},
         NEW pc \in {"drop", "unbind"}, pc = "drop" => s \in Session,
         NEW q, q = Losing(op, x, s, pc)
  PROVE  q \in Local /\ LocalOK(q) /\ q.op = op /\ q.ses = s /\ q.pc = pc
<1>1. /\ q.pc = pc /\ q.op = op /\ q.sid = x /\ q.ses = s /\ q.victim = x /\ q.from = s
      /\ q.then = "idle"
  BY DEF Losing, Task, Rest
<1>2. q \in Local
  <2>1. q = [pc |-> pc, op |-> op, sid |-> x, ses |-> s, victim |-> x, from |-> s,
             then |-> "idle", by |-> None, left |-> 0]
    BY DEF Losing, Task, Rest
  <2>2. 0 \in 0..MaxChunk /\ pc \in PC /\ "idle" \in PC
    BY WebSSHAssumption DEF PC
  <2>. QED  BY <2>1, <2>2 DEF Local
<1>3. LocalOK(q)
  BY <1>1 DEF LocalOK, Fits, Bound, Unbinding, Onward, PC
<1>. QED  BY <1>1, <1>2, <1>3

LEMMA LeaveOK ==
  ASSUME NEW x \in Sid, NEW q, q = [Losing("leave", x, None, "unbind") EXCEPT !.then = "forget"]
  PROVE  q \in Local /\ LocalOK(q) /\ q.ses = None /\ q.pc = "unbind"
<1>1. q = [pc |-> "unbind", op |-> "leave", sid |-> x, ses |-> None, victim |-> x,
           from |-> None, then |-> "forget", by |-> None, left |-> 0]
  BY DEF Losing, Task, Rest
<1>2. 0 \in 0..MaxChunk /\ "unbind" \in PC /\ "forget" \in PC
  BY WebSSHAssumption DEF PC
<1>3. q \in Local
  BY <1>1, <1>2 DEF Local
<1>4. LocalOK(q)
  BY <1>1 DEF LocalOK, Fits, Bound, Unbinding, Onward, PC
<1>. QED  BY <1>1, <1>3, <1>4

LEMMA WriteOK ==
  ASSUME NEW x \in Sid, NEW s \in Session,
         NEW q, q = [Task("write", x, s, "send") EXCEPT !.left = MaxChunk]
  PROVE  q \in Local /\ LocalOK(q) /\ q.ses = s /\ q.pc = "send"
<1>1. q = [pc |-> "send", op |-> "write", sid |-> x, ses |-> s, victim |-> None,
           from |-> None, then |-> "idle", by |-> None, left |-> MaxChunk]
  BY DEF Task, Rest
<1>2. MaxChunk \in 0..MaxChunk /\ "send" \in PC /\ "idle" \in PC
  BY WebSSHAssumption DEF PC
<1>3. q \in Local
  BY <1>1, <1>2 DEF Local
<1>4. LocalOK(q)
  BY <1>1 DEF LocalOK, Fits, Bound, Unbinding
<1>. QED  BY <1>1, <1>3, <1>4

LEMMA EndOK ==
  ASSUME NEW s \in Session, NEW q, q = Task("end", None, s, "close")
  PROVE  q \in Local /\ LocalOK(q) /\ q.ses = s /\ q.op = "end"
<1>1. q = [pc |-> "close", op |-> "end", sid |-> None, ses |-> s, victim |-> None,
           from |-> None, then |-> "idle", by |-> None, left |-> 0]
  BY DEF Task, Rest
<1>2. 0 \in 0..MaxChunk /\ "close" \in PC /\ "idle" \in PC
  BY WebSSHAssumption DEF PC
<1>3. q \in Local
  BY <1>1, <1>2 DEF Local
<1>4. LocalOK(q)
  BY <1>1 DEF LocalOK, Fits, Bound, Unbinding
<1>. QED  BY <1>1, <1>3, <1>4

\* Events that leave the tables and the objects alone.
LEMMA BeginInv ==
  ASSUME IInv, NEW t \in Thread, Starts(t), Allowable, sent' \in 0..MaxEvents,
         map' \in [Key -> Session \cup {None}],
         ws' \in [Sid -> [ses : Session, role : Role] \cup {NoWs}], UNCHANGED world
  PROVE  IInv'
<1>1. TypeOK'
  BY DEF IInv, TypeOK, Starts, Others, Local, Object, Allowable, world
<1>. QED  BY <1>1, AllowableInv DEF IInv

LEMMA QuietBeginInv ==
  ASSUME IInv, NEW t \in Thread, NEW r \in Local, LocalOK(r), Begin(t, r), r.pc # "close",
         r.ses # None => r.ses \in live, UNCHANGED <<world, tables, ses>>, sent' \in 0..MaxEvents
  PROVE  IInv'
<1>1. r.ses # None => ses'[r.ses].at # "unused"
  BY DEF IInv, MadeInv
<1>2. Starts(t)
  BY <1>1, Beginning DEF IInv
<1>3. Allowable
  BY KeptSame, KeptAllowable DEF IInv, TypeOK, Tabled, tables
<1>. QED  BY <1>2, <1>3, BeginInv DEF IInv, TypeOK, tables

LEMMA LosingInv ==
  ASSUME IInv, NEW t \in Thread, NEW x \in Sid, sent' \in 0..MaxEvents,
         Stop(t, x) \/ Deny(t, x) \/ TurnAway(t, x) \/ Leave(t, x)
  PROVE  IInv'
<1>. DEFINE s == ws[x].ses
<1>1. CASE Stop(t, x) \/ Deny(t, x)
  <2>1. s \in live /\ s \in Session /\ UNCHANGED <<world, tables, ses>>
    BY <1>1 DEF Stop, Deny, IInv, TypeOK
  <2>2. PICK op \in {"stop", "deny"}, pc \in {"drop", "unbind"} : Begin(t, Losing(op, x, s, pc))
    BY <1>1 DEF Stop, Deny
  <2>3. PICK z \in Session : z = s
    BY <2>1
  <2>. DEFINE r == Losing(op, x, z, pc)
  <2>4. r \in Local /\ LocalOK(r) /\ r.pc # "close" /\ r.ses = z
    BY LosingOK
  <2>5. Begin(t, r)
    BY <2>2, <2>3
  <2>. HIDE DEF r
  <2>. QED  BY <2>1, <2>3, <2>4, <2>5, QuietBeginInv
<1>2. CASE TurnAway(t, x)
  <2>. DEFINE r == Losing("deny", x, None, "unbind")
  <2>1. r \in Local /\ LocalOK(r) /\ r.pc # "close" /\ r.ses = None
    BY LosingOK
  <2>2. Begin(t, r) /\ UNCHANGED <<world, tables, ses>>
    BY <1>2 DEF TurnAway
  <2>. HIDE DEF r
  <2>. QED  BY <2>1, <2>2, QuietBeginInv
<1>3. CASE Leave(t, x)
  <2>. DEFINE r == [Losing("leave", x, None, "unbind") EXCEPT !.then = "forget"]
  <2>1. r \in Local /\ LocalOK(r) /\ r.pc # "close" /\ r.ses = None
    BY LeaveOK
  <2>2. Begin(t, r) /\ UNCHANGED <<world, tables, ses>>
    BY <1>3 DEF Leave
  <2>. HIDE DEF r
  <2>. QED  BY <2>1, <2>2, QuietBeginInv
<1>. QED  BY <1>1, <1>2, <1>3

LEMMA QuietTaskInv ==
  ASSUME IInv, NEW t \in Thread, NEW x \in Sid, sent' \in 0..MaxEvents,
         \/ \E c \in Cluster : Reconnect(t, x, c)
         \/ \E s \in Session : View(t, x, s)
         \/ \E s \in Session : Takeover(t, x, s) /\ ~Allowed(x, s, "takeover")
         \/ Write(t, x)
  PROVE  IInv'
<1>1. ASSUME NEW op \in Binding, NEW s \in Session, s \in live, UNCHANGED <<world, tables, ses>>,
             Begin(t, Task(op, x, s, "authorize"))
      PROVE  IInv'
  <2>. DEFINE r == Task(op, x, s, "authorize")
  <2>1. r \in Local /\ LocalOK(r) /\ r.pc # "close" /\ r.ses = s
    BY TaskOK
  <2>2. Begin(t, r)
    BY <1>1
  <2>. HIDE DEF r
  <2>. QED  BY <1>1, <2>1, <2>2, QuietBeginInv
<1>2. ASSUME NEW c \in Cluster, Reconnect(t, x, c) PROVE IInv'
  <2>1. map[<<Who[x], c>>] \in live /\ live \subseteq Session /\ UNCHANGED <<world, tables, ses>>
    BY <1>2 DEF Reconnect, IInv, TypeOK
  <2>2. PICK s \in Session : s = map[<<Who[x], c>>]
    BY <2>1
  <2>. QED  BY <1>1, <1>2, <2>1, <2>2 DEF Reconnect, Binding
<1>3. ASSUME NEW s \in Session, View(t, x, s) PROVE IInv'
  BY <1>1, <1>3 DEF View, Binding
<1>4. ASSUME NEW s \in Session, Takeover(t, x, s), ~Allowed(x, s, "takeover") PROVE IInv'
  <2>. DEFINE r == Losing("deny", x, s, "drop")
  <2>1. r \in Local /\ LocalOK(r) /\ r.pc # "close" /\ r.ses = s
    BY LosingOK
  <2>2. Begin(t, r) /\ s \in live /\ UNCHANGED <<world, tables, ses>>
    BY <1>4 DEF Takeover
  <2>. HIDE DEF r
  <2>. QED  BY <2>1, <2>2, QuietBeginInv
<1>5. CASE Write(t, x)
  <2>1. /\ ws[x].ses \in live /\ live \subseteq Session /\ UNCHANGED <<world, tables, ses>>
        /\ Begin(t, [Task("write", x, ws[x].ses, "send") EXCEPT !.left = MaxChunk])
    BY <1>5 DEF Write, IInv, TypeOK
  <2>2. PICK s \in Session : s = ws[x].ses
    BY <2>1
  <2>. DEFINE r == [Task("write", x, s, "send") EXCEPT !.left = MaxChunk]
  <2>3. r \in Local /\ LocalOK(r) /\ r.pc # "close" /\ r.ses = s
    BY WriteOK
  <2>4. Begin(t, r)
    BY <2>1, <2>2
  <2>. HIDE DEF r
  <2>. QED  BY <2>1, <2>2, <2>3, <2>4, QuietBeginInv
<1>. QED  BY <1>2, <1>3, <1>4, <1>5

LEMMA TakeoverInv ==
  ASSUME IInv, NEW t \in Thread, NEW x \in Sid, NEW s \in Session, sent' \in 0..MaxEvents,
         Takeover(t, x, s), Allowed(x, s, "takeover")
  PROVE  IInv'
<1>. DEFINE r == Task("takeover", x, s, "authorize")
            q == [ses[s] EXCEPT !.taken = TRUE, !.by = Who[x]]
<1>1. /\ s \in live /\ Begin(t, r) /\ UNCHANGED <<world, tables>>
      /\ ses' = [ses EXCEPT ![s] = q]
  BY DEF Takeover
<1>2. /\ r \in Local /\ LocalOK(r) /\ r.pc = "authorize" /\ r.ses = s /\ r.op = "takeover"
  BY TaskOK DEF Binding
<1>. HIDE DEF r
<1>3. q \in Object /\ q.at = ses[s].at /\ q.chan = ses[s].chan /\ q.since = ses[s].since
  <2>1. ses[s] \in Object
    BY DEF IInv, TypeOK, Object
  <2>2. Who[x] \in User
    BY WebSSHAssumption
  <2>. QED  BY <2>1, <2>2 DEF Object
<1>4. ses' \in [Session -> Object] /\ ses'[s] = q /\ \A z \in Session \ {s} : ses'[z] = ses[z]
  BY <1>1, <1>3 DEF IInv, TypeOK, Object
<1>5. Starts(t) /\ th'[t] = r
  BY <1>1, <1>2, <1>3, <1>4, Beginning DEF IInv, MadeInv
<1>. HIDE DEF q
<1>6. BeingTaken(s)'
  BY <1>2, <1>5 DEF BeingTaken
<1>7. Allowable
  BY <1>1, <1>3, <1>4, <1>6 DEF Allowable, IInv, TypeOK, Expirable, tables
<1>. QED  BY <1>1, <1>5, <1>7, BeginInv DEF IInv, TypeOK, tables

LEMMA TerminateInv ==
  ASSUME IInv, NEW t \in Thread, NEW s \in Session, sent' \in 0..MaxEvents, Terminate(t, s)
  PROVE  IInv'
<1>. DEFINE r == Task("end", None, s, "close")
<1>1. s \in live /\ Begin(t, r) /\ Popped(s) /\ UNCHANGED <<world, ses>>
  BY DEF Terminate
<1>2. r \in Local /\ LocalOK(r) /\ r.ses = s /\ r.op = "end"
  BY EndOK
<1>. HIDE DEF r
<1>6. ses[s].at # "unused" /\ Tabled
  BY <1>1, PoppedTabled DEF IInv, MadeInv
<1>7. Starts(t)
  BY <1>1, <1>2, <1>6, Beginning DEF IInv
<1>8. Allowable
  BY <1>1, <1>6, KeptSame, KeptAllowable DEF IInv
<1>. QED  BY <1>1, <1>6, <1>7, <1>8, BeginInv DEF Tabled

LEMMA CreateInv ==
  ASSUME IInv, NEW t \in Thread, NEW x \in Sid, NEW c \in Cluster, sent' \in 0..MaxEvents,
         Create(t, x, c)
  PROVE  IInv'
<1>. DEFINE k == <<Who[x], c>>
            old == map[k]
            kept == live \ {old}
            rest == [s \in Session |-> IF s = old /\ s \in live THEN Closed(ses[s]) ELSE ses[s]]
            fresh == CHOOSE s \in Session : ses[s].at = "unused"
            room == Cardinality(kept) < MaxSessions /\ CountUserSessions(Who[x]) < MaxPerUser
<1>1. k \in Key /\ kept \subseteq live /\ kept \subseteq Session /\ ses \in [Session -> Object]
  BY WebSSHAssumption DEF Key, IInv, TypeOK, Object
<1>2. \A s \in Session : rest[s] \in Object /\ Keeps(ses[s], rest[s])
  <2>. SUFFICES ASSUME NEW s \in Session PROVE rest[s] \in Object /\ Keeps(ses[s], rest[s])
    OBVIOUS
  <2>1. Keeps(ses[s], ses[s])
    BY DEF Keeps
  <2>. QED  BY <1>1, <2>1, KeepsClosed
<1>3. rest = [s \in Session |-> rest[s]]
  OBVIOUS
<1>. HIDE DEF rest
<1>4. CASE room
  <2>1. fresh \in Session /\ ses[fresh].at = "unused"
    BY <1>4 DEF Create
  <2>2. PICK new \in Session : new = fresh /\ ses[new].at = "unused"
    BY <2>1
  <2>. DEFINE r == Task("create", x, new, "authorize")
              q == [Unused EXCEPT !.at = "disconnected", !.key = k]
  <2>3. /\ Begin(t, r) /\ live' = kept \cup {new} /\ map' = [map EXCEPT ![k] = new]
        /\ ses' = [rest EXCEPT ![new] = q] /\ UNCHANGED <<world, ws>>
    BY <1>4, <2>2 DEF Create, rest
  <2>. HIDE DEF fresh
  <2>4. r \in Local /\ LocalOK(r) /\ r.pc = "authorize" /\ r.ses = new /\ r.op = "create"
    BY <2>2, TaskOK DEF Binding
  <2>. HIDE DEF r
  <2>5. q \in Object /\ q.at = "disconnected" /\ ~q.taken
    BY <1>1 DEF Object, Unused
  <2>. HIDE DEF q
  <2>6. /\ ses' \in [Session -> Object] /\ ses'[new] = q
        /\ \A s \in Session \ {new} : ses'[s] = rest[s]
    BY <1>2, <1>3, <2>2, <2>3, <2>5
  <2>7. Starts(t) /\ th'[t] = r
    <3>1. ses'[r.ses].at # "unused" /\ r.pc # "close"
      BY <2>4, <2>5, <2>6
    <3>. QED  BY <2>3, <2>4, <3>1, Beginning DEF IInv
  <2>8. BeingMade(new)'
    BY <2>4, <2>7 DEF BeingMade
  <2>9. live' \subseteq Session /\ live' \ live = {new} \ live
    BY <1>1, <2>2, <2>3
  <2>10. Allowable
    <3>1. ASSUME NEW s \in Session, ses[s].at # "unused"
          PROVE  s # new /\ Keeps(ses[s], ses'[s])
      BY <1>2, <2>2, <2>6, <3>1
    <3>2. ~Phantom(ses'[new]) /\ ses'[new].at # "unused"
      BY <2>5, <2>6 DEF Phantom
    <3>. QED  BY <2>2, <2>6, <2>8, <2>9, <3>1, <3>2 DEF Allowable, Keeps
  <2>11. map' \in [Key -> Session \cup {None}] /\ ws' = ws
    BY <2>2, <2>3 DEF IInv, TypeOK
  <2>. QED  BY <2>3, <2>7, <2>10, <2>11, BeginInv DEF IInv, TypeOK
<1>5. CASE ~room
  <2>1. /\ live' = kept /\ map' = [map EXCEPT ![k] = None] /\ ses' = rest
        /\ UNCHANGED <<world, ws, th>>
    BY <1>5 DEF Create, rest
  <2>2. Kept
    BY <1>2, <1>3, <2>1 DEF Kept
  <2>3. Tabled
    BY <1>1, <2>1 DEF IInv, TypeOK, Tabled
  <2>4. TypeOK'
    BY <2>1, <2>2, <2>3 DEF IInv, TypeOK, Kept, Tabled, Object, world
  <2>. QED  BY <2>1, <2>2, <2>3, <2>4, KeptAllowable, AllowableInv DEF IInv
<1>. QED  BY <1>4, <1>5

LEMMA EventInv == ASSUME IInv, NEW t \in Thread, Event(t) PROVE IInv'
<1>1. sent' \in 0..MaxEvents
  BY WebSSHAssumption DEF Event, IInv, TypeOK
<1>. QED  BY <1>1, LosingInv, QuietTaskInv, TakeoverInv, TerminateInv, CreateInv DEF Event

-----------------------------------------------------------------------------
(* The rest of the world *)

LEMMA OutsideInv == IInv /\ Outside => IInv'
<1>. SUFFICES ASSUME IInv, Outside
              PROVE  IInv'
  OBVIOUS
<1>. DEFINE Typed == /\ sock' \in [Sid -> {"open", "gone"}] /\ active' \subseteq User
                     /\ cl' \in [at : {"idle", "key", "ws", "close"}, todo : SUBSET Session,
                                 cur : Session \cup {None}]
<1>1. UNCHANGED <<th, sent>>
  BY DEF Outside, RemoteCloses, RevokeAccount, ScanSome, Scan, Remove, RemoveSession, RemoveKey,
         RemoveSockets, CloseRemoved
<1>2. ASSUME Kept, Tabled, Typed PROVE IInv'
  <2>1. TypeOK'
    BY <1>1, <1>2 DEF IInv, TypeOK, Kept, Tabled, Object
  <2>. QED  BY <1>1, <1>2, <2>1, KeptAllowable, AllowableInv DEF IInv
<1>3. ASSUME NEW s \in Session, RemoteCloses(s) PROVE IInv'
  <2>. DEFINE gone == [ses[s] EXCEPT !.chan = "closed", !.at = "disconnected", !.since = TRUE]
              q == IF gone.taken THEN Released(gone) ELSE gone
  <2>1. gone \in Object /\ Keeps(ses[s], gone)
    <3>1. ses[s] \in Object /\ ses[s].chan = "open"
      BY <1>3 DEF RemoteCloses, IInv, TypeOK, Object
    <3>. QED  BY <3>1 DEF Object, Keeps, Expirable, Phantom
  <2>2. q \in Object /\ Keeps(ses[s], q)
    BY <2>1, KeepsReleased DEF Keeps
  <2>3. ses' = [ses EXCEPT ![s] = q] /\ UNCHANGED <<world, tables>>
    BY <1>3 DEF RemoteCloses
  <2>. HIDE DEF q
  <2>4. Kept
    BY <2>2, <2>3, KeptOne DEF IInv
  <2>. QED  BY <1>2, <2>3, <2>4 DEF IInv, TypeOK, Tabled, tables, world
<1>4. ASSUME NEW u \in User, RevokeAccount(u) PROVE IInv'
  BY <1>2, <1>4, KeptSame DEF RevokeAccount, IInv, TypeOK, Tabled, tables
<1>5. CASE ScanSome
  <2>1. PICK e \in SUBSET live : cl' = [cl EXCEPT !.todo = e] /\ UNCHANGED <<sock, active, tables, ses>>
    BY <1>5 DEF ScanSome, Scan
  <2>2. Typed
    BY <2>1 DEF IInv, TypeOK
  <2>. QED  BY <1>2, <2>1, <2>2, KeptSame DEF IInv, TypeOK, Tabled, tables
<1>6. ASSUME NEW s \in Session, RemoveSession(s) PROVE IInv'
  <2>1. Typed
    BY <1>6 DEF RemoveSession, IInv, TypeOK
  <2>2. Kept /\ Tabled
    BY <1>6, KeptSame DEF RemoveSession, IInv, TypeOK, Tabled
  <2>. QED  BY <1>2, <2>1, <2>2
<1>7. CASE RemoveKey
  <2>1. Typed
    BY <1>7 DEF RemoveKey, IInv, TypeOK
  <2>2. Kept /\ Tabled
    BY <1>7, KeptSame DEF RemoveKey, IInv, TypeOK, Tabled
  <2>. QED  BY <1>2, <2>1, <2>2
<1>8. CASE RemoveSockets
  <2>1. Typed
    BY <1>8 DEF RemoveSockets, IInv, TypeOK
  <2>2. Kept /\ Tabled
    BY <1>8, KeptSame DEF RemoveSockets, Unbound, IInv, TypeOK, Tabled
  <2>. QED  BY <1>2, <2>1, <2>2
<1>9. CASE CloseRemoved
  <2>1. Typed
    BY <1>9 DEF CloseRemoved, IInv, TypeOK
  <2>2. cl.cur \in Session => Closed(ses[cl.cur]) \in Object /\ Keeps(ses[cl.cur], Closed(ses[cl.cur]))
    BY KeepsClosed DEF IInv, TypeOK, Object
  <2>3. Kept
    BY <1>9, <2>2, KeptOne DEF CloseRemoved, IInv
  <2>4. Tabled
    BY <1>9 DEF CloseRemoved, IInv, TypeOK, Tabled, tables
  <2>. QED  BY <1>2, <2>1, <2>3, <2>4
<1>. QED  BY <1>3, <1>4, <1>5, <1>6, <1>7, <1>8, <1>9 DEF Outside, Remove

-----------------------------------------------------------------------------
(* The theorems *)

\* Every event, step and outside happening keeps the invariant, for any number of
\* threads, sockets, accounts and sessions (SSHManager and the /webssh events).
THEOREM SessionsInductive == Spec => []IInv
<1>1. IInv /\ [Next]_vars => IInv'
  <2>. SUFFICES ASSUME IInv, [Next]_vars
                PROVE  IInv'
    OBVIOUS
  <2>1. CASE UNCHANGED vars
    BY <2>1 DEF vars, IInv, TypeOK, LocalsInv, MadeInv, ClosingInv, Sessions, NoHalfMade,
                NobodyEscapesCleanup, NoPhantomTakeover, MayExpire, BeingMade
  <2>. QED  BY <2>1, OutsideInv, ThreadStepInv, EventInv DEF Next
<1>. QED  BY <1>1, InitInv, PTL DEF Spec

\* The tables, the session objects and every thread's locals keep their shape.
THEOREM SessionsType == Spec => []TypeOK
<1>1. IInv => TypeOK
  BY DEF IInv
<1>. QED  BY <1>1, SessionsInductive, PTL

\* A session without a connection is still being made: whatever refuses its creator, the
\* event goes on to take the session back (webssh_session_create).
THEOREM NothingHalfMade == Spec => []NoHalfMade
<1>1. IInv => NoHalfMade
  BY DEF IInv, Sessions
<1>. QED  BY <1>1, SessionsInductive, PTL

\* Every session of the table can expire, or its creator's event is still at work
\* (SSHManager._cleanup, unbind_owner, _on_close).
THEOREM EverySessionExpires == Spec => []NobodyEscapesCleanup
<1>1. IInv => NobodyEscapesCleanup
  BY DEF IInv, Sessions
<1>. QED  BY <1>1, SessionsInductive, PTL

\* No session stays taken over without a socket that holds it, unless the takeover is
\* still under way (takeover_session, unbind_takeover).
THEOREM TakeoversHaveHolders == Spec => []NoPhantomTakeover
<1>1. IInv => NoPhantomTakeover
  BY DEF IInv, Sessions
<1>. QED  BY <1>1, SessionsInductive, PTL

=============================================================================
