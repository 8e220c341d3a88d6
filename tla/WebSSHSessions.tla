---------------------------- MODULE WebSSHSessions ----------------------------
(***************************************************************************)
(* The terminal sessions of modules/ssh_terminal.py and the /webssh events *)
(* of app.py that act on them.  A session outlives the sockets it is shown *)
(* on: its owner's, a supervisor's who took it over, and viewers'.  Every  *)
(* event runs in a thread of its own.  The manager's tables change under   *)
(* its lock, the seats of a session outside it, so a binding is made and   *)
(* undone in several steps; an action is one lock section, or one stretch  *)
(* of unlocked code between two of them.                                   *)
(***************************************************************************)
EXTENDS Naturals, FiniteSets

CONSTANTS
  Thread,       \* threads that handle events, numbered
  Sid,          \* sockets, open at first and gone once
  User, Who,    \* accounts, and the account a socket logged in with
  Staff,        \* accounts that may observe the owners' sessions
  Revocable,    \* accounts that may lose their rights
  Cluster,      \* running clusters with a client machine
  Session,      \* session ids, one for each session ever created
  MaxSessions,  \* global_max
  MaxPerUser,   \* student_max
  MaxChunk,     \* chunks of a long input
  MaxEvents,    \* bound: events ever sent
  None

ASSUME WebSSHAssumption ==
  /\ Thread \subseteq Nat /\ Who \in [Sid -> User] /\ Staff \subseteq User /\ Revocable \subseteq User
  /\ MaxSessions \in Nat /\ MaxPerUser \in Nat /\ MaxChunk \in Nat \ {0}
  /\ MaxEvents \in Nat
  /\ None \notin Sid \cup User \cup Session

VARIABLES
  sock,    \* _webssh_sid_users: which sockets are open
  active,  \* accounts whose rights the database confirms
  live,    \* the ids in _sessions
  map,     \* _user_cluster_map: account and cluster -> session
  ws,      \* _ws_to_session and _ws_roles: socket -> session and role
  ses,     \* the session objects
  th,      \* the event threads
  cl,      \* the thread that cleans up
  sent     \* how many events were sent

vars == <<sock, active, live, map, ws, ses, th, cl, sent>>

Key  == User \X Cluster
Role == {"owner", "takeover", "viewer"}
NoWs == [ses |-> None, role |-> "none"]

\* "since" is whether disconnected_at is set.
Unused == [at |-> "unused", key |-> None, chan |-> "none", closed |-> FALSE,
           owner |-> None, taker |-> None, taken |-> FALSE, by |-> None, viewers |-> {},
           since |-> FALSE]

\* Where a thread is, and its locals.
Rest == [pc |-> "idle", op |-> "none", sid |-> None, ses |-> None,
         victim |-> None, from |-> None, then |-> "idle", by |-> None, left |-> 0]

PC == {"idle", "authorize", "switch", "displace", "enter", "seat", "link", "connect",
       "drop", "unbind", "unseat", "abort", "close", "undo", "forget", "send"}

TypeOK ==
  /\ sock \in [Sid -> {"open", "gone"}] /\ active \subseteq User
  /\ live \subseteq Session /\ map \in [Key -> Session \cup {None}]
  /\ ws \in [Sid -> [ses : Session, role : Role] \cup {NoWs}]
  /\ ses \in [Session ->
       [at : {"unused", "disconnected", "connected", "terminated"}, key : Key \cup {None},
        chan : {"none", "open", "closed"}, closed : BOOLEAN,
        owner : Sid \cup {None}, taker : Sid \cup {None}, taken : BOOLEAN,
        by : User \cup {None}, viewers : SUBSET Sid,
        since : BOOLEAN]]
  /\ th \in [Thread ->
       [pc : PC, op : {"none", "create", "reconnect", "takeover", "view", "stop", "leave",
                       "end", "deny", "write"},
        sid : Sid \cup {None}, ses : Session \cup {None}, victim : Sid \cup {None},
        from : Session \cup {None}, then : PC, by : User \cup {None}, left : 0..MaxChunk]]
  /\ cl \in [at : {"idle", "key", "ws", "close"}, todo : SUBSET Session,
             cur : Session \cup {None}]
  /\ sent \in 0..MaxEvents

Init ==
  /\ sock = [x \in Sid |-> "open"] /\ active = User
  /\ live = {} /\ map = [k \in Key |-> None] /\ ws = [x \in Sid |-> NoWs]
  /\ ses = [s \in Session |-> Unused] /\ th = [t \in Thread |-> Rest]
  /\ cl = [at |-> "idle", todo |-> {}, cur |-> None]
  /\ sent = 0

-----------------------------------------------------------------------------
(* Sessions and their seats *)

\* _webssh_binding_allowed: the socket's account and the owner's are both
\* confirmed again, whatever was bound before.
OwnerOf(s) == ses[s].key[1]
Allowed(x, s, role) ==
  /\ sock[x] = "open" /\ ses[s].at # "terminated"
  /\ {Who[x], OwnerOf(s)} \subseteq active
  /\ IF role = "owner" THEN Who[x] = OwnerOf(s) ELSE Who[x] \in Staff

\* _role_for
Seat(x, s) == CASE x = ses[s].owner -> "owner"
                [] x # ses[s].owner /\ x = ses[s].taker -> "takeover"
                [] x \notin {ses[s].owner, ses[s].taker} /\ x \in ses[s].viewers -> "viewer"
                [] OTHER -> "none"
MayUse(x, s) == Seat(x, s) # "none" /\ Allowed(x, s, Seat(x, s))

StaysTaken(r) == [r EXCEPT !.by = None, !.taker = None]  \* fault: takeover_active stays
Released(r) == [r EXCEPT !.taken = FALSE, !.by = None, !.taker = None]
LeftUntimed(r) == [r EXCEPT !.owner = None, !.at = "disconnected"]  \* fault: disconnected_at is not set
Left(r) == [r EXCEPT !.owner = None, !.at = "disconnected", !.since = TRUE]
Closed(r) == [r EXCEPT !.closed = TRUE, !.at = "terminated",
                       !.chan = IF @ = "open" THEN "closed" ELSE @]

\* bind_owner, bind_takeover, bind_viewer
StillGone(r, x) == [r EXCEPT !.owner = x, !.since = IF r.chan = "open" THEN FALSE ELSE @]  \* fault: status is left alone
OwnerSeated(r, x) == IF r.chan = "open"
                     THEN [r EXCEPT !.owner = x, !.at = "connected", !.since = FALSE]
                     ELSE [r EXCEPT !.owner = x]
Seated(r, x, role, by) ==
  CASE role = "owner"    -> OwnerSeated(r, x)
    [] role = "takeover" -> [r EXCEPT !.taker = x, !.taken = TRUE, !.by = by]
    [] role = "viewer"   -> [r EXCEPT !.viewers = @ \cup {x}]

\* unbind_owner, or unbind_takeover, or unbind_viewer
Unseated(r, x) == CASE r.owner = x -> Left(r)
                    [] r.owner # x /\ r.taker = x -> Released(r)
                    [] OTHER -> [r EXCEPT !.viewers = @ \ {x}]

Unbound(s) == [x \in Sid |-> IF ws[x].ses = s THEN NoWs ELSE ws[x]]

-----------------------------------------------------------------------------
(* Events *)

\* Idle threads are alike: the first of them takes an event.
First(t) == th[t] = Rest /\ \A u \in Thread : u < t => th[u] # Rest
Begin(t, r) == First(t) /\ th' = [th EXCEPT ![t] = r]
Task(op, x, s, pc) == [Rest EXCEPT !.op = op, !.sid = x, !.ses = s, !.pc = pc]
Losing(op, x, s, pc) == [Task(op, x, s, pc) EXCEPT !.victim = x, !.from = s]
At(t, pc) == th[t].pc = pc
\* A helper's locals end with it, an event's with the event.
Go(t, pc) == th' = [th EXCEPT ![t] =
  CASE pc = "idle"   -> Rest
    [] pc = "unseat" -> [@ EXCEPT !.pc = pc]
    [] OTHER -> [@ EXCEPT !.pc = pc, !.victim = None, !.from = None, !.then = "idle"]]

RoleOf(op) == CASE op = "takeover" -> "takeover" [] op = "view" -> "viewer" [] OTHER -> "owner"
tables == <<live, map, ws>>
world  == <<sock, active, cl>>

\* What a handler does when its binding or connection is refused.
Forgets(op) == "idle"  \* fault: the exception handlers are missing
Refused(op) == CASE op = "create" -> "abort" [] op = "takeover" -> "undo" [] OTHER -> "idle"

\* _revoke_ws(x, s), then going on at "then"; unbind_ws(x) likewise.
Drop(t, x, s, then) == th' = [th EXCEPT ![t] =
  [@ EXCEPT !.pc = "drop", !.victim = x, !.from = s, !.then = then]]
Unbind(t, x, then) == th' = [th EXCEPT ![t] =
  [@ EXCEPT !.pc = "unbind", !.victim = x, !.then = then]]

\* create_session: the whole of it under the lock.  An entry of the map whose
\* session is gone or ended is replaced.
CountUserSessions(u) == Cardinality({s \in live : OwnerOf(s) = u /\ ses[s].at # "terminated"})

Create(t, x, c) ==
  LET k == <<Who[x], c>>
      old == map[k]
      kept == live \ {old}
      rest == [s \in Session |-> IF s = old /\ s \in live THEN Closed(ses[s]) ELSE ses[s]]
      new == CHOOSE s \in Session : ses[s].at = "unused"
  IN
  /\ sock[x] = "open" /\ Who[x] \in active
  /\ old \in live => ses[old].at = "terminated"
  /\ IF Cardinality(kept) < MaxSessions /\ CountUserSessions(Who[x]) < MaxPerUser
     THEN /\ \E s \in Session : ses[s].at = "unused"
          /\ Begin(t, Task("create", x, new, "authorize"))
          /\ live' = kept \cup {new} /\ map' = [map EXCEPT ![k] = new]
          /\ ses' = [rest EXCEPT ![new] = [Unused EXCEPT !.at = "disconnected", !.key = k]]
     ELSE /\ First(t) /\ live' = kept /\ map' = [map EXCEPT ![k] = None]
          /\ ses' = rest /\ UNCHANGED th
  /\ UNCHANGED <<world, ws>>

Reconnect(t, x, c) ==
  LET s == map[<<Who[x], c>>] IN
  /\ sock[x] = "open" /\ Who[x] \in active
  /\ s \in live /\ ses[s].at # "terminated"
  /\ Begin(t, Task("reconnect", x, s, "authorize"))
  /\ UNCHANGED <<world, tables, ses>>

\* takeover_session up to its bind_ws.  Who may not take over loses the
\* socket's own binding to that session as well.
Takeover(t, x, s) ==
  /\ s \in live /\ ses[s].at # "terminated" /\ sock[x] = "open" /\ Who[x] \in active
  /\ IF Allowed(x, s, "takeover")
     THEN /\ ses[s].taken => ses[s].by = Who[x]
          /\ Begin(t, Task("takeover", x, s, "authorize"))
          /\ ses' = [ses EXCEPT ![s].taken = TRUE, ![s].by = Who[x]]
     ELSE Begin(t, Losing("deny", x, s, "drop")) /\ UNCHANGED ses
  /\ UNCHANGED <<world, tables>>

View(t, x, s) ==
  /\ s \in live /\ ses[s].at # "terminated" /\ sock[x] = "open" /\ Who[x] \in active
  /\ Begin(t, Task("view", x, s, "authorize"))
  /\ UNCHANGED <<world, tables, ses>>

\* takeover_stop, view_stop and an accepted reconnect_response
Stop(t, x) ==
  LET s == ws[x].ses IN
  /\ s \in live /\ ws[x].role \in {"takeover", "viewer"} /\ Allowed(x, s, ws[x].role)
  /\ Begin(t, Losing("stop", x, s, "unbind"))
  /\ UNCHANGED <<world, tables, ses>>

\* Any use of a binding, in any thread, that finds it no longer allowed: input,
\* resize, replay, or output of the terminal.
Deny(t, x) ==
  LET s == ws[x].ses IN
  /\ s \in live /\ ~Allowed(x, s, ws[x].role)
  /\ Begin(t, Losing("deny", x, s, "drop"))
  /\ UNCHANGED <<world, tables, ses>>

\* _webssh_event, when the account is no longer in good standing.
TurnAway(t, x) ==
  /\ sock[x] = "open" /\ Who[x] \notin active /\ ws[x] # NoWs
  /\ Begin(t, Losing("deny", x, None, "unbind"))
  /\ UNCHANGED <<world, tables, ses>>

Leave(t, x) ==
  /\ sock[x] = "open"
  /\ Begin(t, [Losing("leave", x, None, "unbind") EXCEPT !.then = "forget"])
  /\ UNCHANGED <<world, tables, ses>>

Forget(t) ==
  /\ At(t, "forget") /\ sock' = [sock EXCEPT ![th[t].sid] = "gone"] /\ Go(t, "idle")
  /\ UNCHANGED <<active, tables, ses, cl>>

-----------------------------------------------------------------------------
(* bind_ws, unbind_ws and _revoke_ws *)

Authorize(t) ==
  LET x == th[t].sid s == th[t].ses op == th[t].op IN
  /\ At(t, "authorize")
  /\ \/ s \notin live /\ Go(t, Refused(op))
     \/ s \in live /\ Allowed(x, s, RoleOf(op)) /\ Go(t, "switch")
     \/ s \in live /\ ~Allowed(x, s, RoleOf(op)) /\ Drop(t, x, s, Refused(op))
  /\ UNCHANGED <<world, tables, ses>>

\* The seat to be taken is read without the lock, right after the table showed
\* no other binding of the socket, or after that binding was undone.
Displaced(t) ==
  LET s == th[t].ses
      holder == [owner |-> ses[s].owner, takeover |-> ses[s].taker,
                 viewer |-> None][RoleOf(th[t].op)]
      seen == [th[t] EXCEPT !.by = IF th[t].op = "takeover" THEN ses[s].by ELSE None]
  IN
  th' = [th EXCEPT ![t] = IF holder \in {None, seen.sid}
          THEN [seen EXCEPT !.pc = "enter", !.victim = None, !.from = None, !.then = "idle"]
          ELSE [seen EXCEPT !.pc = "drop", !.victim = holder, !.from = s, !.then = "enter"]]

Switch(t) ==
  LET x == th[t].sid s == th[t].ses role == RoleOf(th[t].op) IN
  /\ At(t, "switch")
  /\ IF ws[x] \in {NoWs, [ses |-> s, role |-> role]}
     THEN Displaced(t) ELSE Unbind(t, x, "displace")
  /\ UNCHANGED <<world, tables, ses>>

Displace(t) ==
  /\ At(t, "displace") /\ Displaced(t)
  /\ UNCHANGED <<world, tables, ses>>

Enter(t) ==
  LET x == th[t].sid IN
  /\ At(t, "enter")
  /\ ws' = [ws EXCEPT ![x] = [ses |-> th[t].ses, role |-> RoleOf(th[t].op)]]
  /\ Go(t, "seat")
  /\ UNCHANGED <<world, live, map, ses>>

TakeSeat(t) ==
  LET x == th[t].sid op == th[t].op IN
  /\ At(t, "seat")
  /\ ses' = [ses EXCEPT ![th[t].ses] = Seated(@, x, RoleOf(op), th[t].by)]
  /\ Go(t, IF op \in {"create", "reconnect"} THEN "link" ELSE "idle")
  /\ UNCHANGED <<world, tables>>

\* The table's entry goes under the lock, the seat afterwards.  _revoke_ws
\* leaves a socket alone that was bound elsewhere meanwhile.
DropEntry(t) ==
  LET x == th[t].victim IN
  /\ At(t, "drop")
  /\ IF ws[x].ses = th[t].from
     THEN ws' = [ws EXCEPT ![x] = NoWs] /\ Go(t, "unseat")
     ELSE UNCHANGED ws /\ Go(t, th[t].then)
  /\ UNCHANGED <<world, live, map, ses>>

UnbindEntry(t) ==
  LET x == th[t].victim s == ws[x].ses IN
  /\ At(t, "unbind")
  /\ ws' = [ws EXCEPT ![x] = NoWs]
  /\ IF s \in live
     THEN th' = [th EXCEPT ![t] = [@ EXCEPT !.pc = "unseat", !.from = s]]
     ELSE Go(t, th[t].then)
  /\ UNCHANGED <<world, live, map, ses>>

Unseat(t) ==
  /\ At(t, "unseat")
  /\ ses' = [ses EXCEPT ![th[t].from] = Unseated(@, th[t].victim)]
  /\ Go(t, th[t].then)
  /\ UNCHANGED <<world, tables>>

\* takeover_session after a refused bind_ws
Undo(t) ==
  /\ At(t, "undo") /\ ses' = [ses EXCEPT ![th[t].ses] = Released(@)] /\ Go(t, "idle")
  /\ UNCHANGED <<world, tables>>

-----------------------------------------------------------------------------
(* The SSH connection *)

\* connect_session authorizes again; session_reconnect skips it for an open channel.
Link(t) ==
  LET x == th[t].sid s == th[t].ses op == th[t].op IN
  /\ At(t, "link")
  /\ \/ op = "reconnect" /\ ses[s].chan = "open" /\ Go(t, "idle")
     \/ /\ op = "create" \/ ses[s].chan # "open"
        /\ \/ (s \notin live \/ ws[x] # [ses |-> s, role |-> "owner"]) /\ Go(t, Refused(op))
           \/ /\ s \in live /\ ws[x] = [ses |-> s, role |-> "owner"]
              /\ IF Allowed(x, s, "owner") THEN Go(t, "connect") ELSE Drop(t, x, s, Refused(op))
  /\ UNCHANGED <<world, tables, ses>>

\* SSHSession.connect: it returns or raises after at most its time-outs, and
\* looks at nothing that happened to the session meanwhile.
Connect(t) ==
  /\ At(t, "connect")
  /\ \/ /\ ses' = [ses EXCEPT ![th[t].ses] = [@ EXCEPT !.chan = "open", !.at = "connected",
                                             !.since = FALSE]]
        /\ Go(t, "idle")
     \/ UNCHANGED ses /\ Go(t, Refused(th[t].op))
  /\ UNCHANGED <<world, tables>>

\* The reader thread at the end of the stream: _on_close.
RemoteCloses(s) ==
  LET gone == [ses[s] EXCEPT !.chan = "closed", !.at = "disconnected", !.since = TRUE] IN
  /\ ses[s].chan = "open" /\ ~ses[s].closed
  /\ ses' = [ses EXCEPT ![s] = IF gone.taken THEN Released(gone) ELSE gone]
  /\ UNCHANGED <<world, tables, th>>

\* SSHManager.write and SSHSession.write of a long input, which is sent in chunks
\* with a pause and a new authorization between them.
Write(t, x) ==
  LET s == ws[x].ses IN
  /\ s \in live /\ Allowed(x, s, ws[x].role) /\ MayUse(x, s)
  /\ ~ses[s].closed /\ ses[s].chan # "none"
  /\ x = IF ses[s].taken THEN ses[s].taker ELSE ses[s].owner
  /\ Begin(t, [Task("write", x, s, "send") EXCEPT !.left = MaxChunk])
  /\ UNCHANGED <<world, tables, ses>>

Send(t) ==
  LET x == th[t].sid s == th[t].ses IN
  /\ At(t, "send")
  /\ \/ th[t].left = 0 /\ Go(t, "idle")
     \/ /\ th[t].left > 0 /\ MayUse(x, s)
        /\ IF ses[s].chan = "open" THEN th' = [th EXCEPT ![t].left = @ - 1] ELSE Go(t, "idle")
     \/ /\ th[t].left > 0 /\ ~MayUse(x, s)
        /\ IF Seat(x, s) = "none" THEN Go(t, "idle") ELSE Drop(t, x, s, "idle")
  /\ UNCHANGED <<world, tables, ses>>

-----------------------------------------------------------------------------
(* The end of a session *)

\* terminate_session takes the session, its key and its sockets out of the
\* tables together, and closes it afterwards.
Popped(s) ==
  /\ live' = live \ {s}
  /\ IF s \in live THEN map' = [map EXCEPT ![ses[s].key] = None] /\ ws' = Unbound(s)
     ELSE UNCHANGED <<map, ws>>

Terminate(t, s) ==
  /\ s \in live
  /\ Begin(t, Task("end", None, s, "close")) /\ Popped(s)
  /\ UNCHANGED <<world, ses>>

Abort(t) ==
  LET s == th[t].ses IN
  /\ At(t, "abort")
  /\ Popped(s) /\ Go(t, IF s \in live THEN "close" ELSE "idle")
  /\ UNCHANGED <<world, ses>>

Close(t) ==
  /\ At(t, "close") /\ ses' = [ses EXCEPT ![th[t].ses] = Closed(@)] /\ Go(t, "idle")
  /\ UNCHANGED <<world, tables>>

\* _cleanup decides under the lock and removes outside it, a session at a time:
\* its id and its sockets in lock sections, its key in between without the lock.
\* Time is a choice: retention_time or idle_timeout may have passed.
MayExpire(s) == ses[s].at \in {"connected", "terminated"} \/ (ses[s].at = "disconnected" /\ ses[s].since)

Scan(expired) ==
  /\ cl.at = "idle" /\ cl.todo = {}
  /\ cl' = [cl EXCEPT !.todo = expired]
  /\ UNCHANGED <<sock, active, tables, ses, th>>

RemoveSession(s) ==
  /\ cl.at = "idle" /\ s \in cl.todo
  /\ live' = live \ {s}
  /\ cl' = IF s \in live THEN [cl EXCEPT !.at = "key", !.cur = s] ELSE [cl EXCEPT !.todo = @ \ {s}]
  /\ UNCHANGED <<sock, active, map, ws, ses, th>>

RemoveKey ==
  /\ cl.at = "key" /\ map' = [map EXCEPT ![ses[cl.cur].key] = None]
  /\ cl' = [cl EXCEPT !.at = "ws"]
  /\ UNCHANGED <<sock, active, live, ws, ses, th>>

RemoveSockets ==
  /\ cl.at = "ws" /\ ws' = Unbound(cl.cur) /\ cl' = [cl EXCEPT !.at = "close"]
  /\ UNCHANGED <<sock, active, live, map, ses, th>>

CloseRemoved ==
  /\ cl.at = "close" /\ ses' = [ses EXCEPT ![cl.cur] = Closed(@)]
  /\ cl' = [at |-> "idle", todo |-> cl.todo \ {cl.cur}, cur |-> None]
  /\ UNCHANGED <<sock, active, tables, th>>

ScanSome == \E expired \in SUBSET {s \in live : MayExpire(s)} : Scan(expired)
ScanAll  == Scan({s \in live : MayExpire(s)})
Remove   == (\E s \in Session : RemoveSession(s)) \/ RemoveKey \/ RemoveSockets \/ CloseRemoved

\* An account loses its rights.
RevokeAccount(u) ==
  /\ u \in Revocable \cap active
  /\ active' = active \ {u}
  /\ UNCHANGED <<sock, tables, ses, th, cl>>

ThreadStep(t) ==
  /\ \/ Authorize(t) \/ Switch(t) \/ Displace(t) \/ Enter(t) \/ TakeSeat(t)
     \/ DropEntry(t) \/ UnbindEntry(t) \/ Unseat(t) \/ Undo(t) \/ Forget(t)
     \/ Link(t) \/ Connect(t) \/ Send(t) \/ Abort(t) \/ Close(t)
  /\ UNCHANGED sent

Event(t) ==
  /\ \/ \E x \in Sid : Stop(t, x) \/ Deny(t, x) \/ TurnAway(t, x) \/ Leave(t, x) \/ Write(t, x)
     \/ \E x \in Sid, c \in Cluster : Create(t, x, c) \/ Reconnect(t, x, c)
     \/ \E x \in Sid, s \in Session : Takeover(t, x, s) \/ View(t, x, s)
     \/ \E s \in Session : Terminate(t, s)
  /\ sent < MaxEvents /\ sent' = sent + 1

Outside ==
  /\ \/ \E s \in Session : RemoteCloses(s)
     \/ \E u \in User : RevokeAccount(u)
     \/ ScanSome \/ Remove
  /\ UNCHANGED sent

Next == Outside \/ \E t \in Thread : ThreadStep(t) \/ Event(t)

\* A thread that handles an event goes on, since connecting has time-outs.  The
\* cleanup runs every 30 s, so one of its runs finds every session expired that
\* is left alone for good.  Nobody is obliged to send an event.
Fairness ==
  /\ \A t \in Thread : WF_vars(ThreadStep(t))
  /\ WF_vars(ScanAll /\ UNCHANGED sent) /\ WF_vars(Remove /\ UNCHANGED sent)

Spec == Init /\ [][Next]_vars /\ Fairness

-----------------------------------------------------------------------------
(* Properties *)

BeingMade(s) == \E t \in Thread : th[t].op = "create" /\ th[t].ses = s

\* A session that never got a connection is still being made by its creator's
\* event: whichever step refused it, webssh_session_create takes it back and it
\* does not use up a place of its owner's.
NoHalfMade == \A s \in live : ses[s].chan = "none" => BeingMade(s)

\* No session escapes the cleanup: whatever happened to it, one that was made is
\* in a state in which retention_time or idle_timeout ends it.
NobodyEscapesCleanup == \A s \in live : MayExpire(s) \/ BeingMade(s)

\* A session counts as taken over only while a socket holds it or is about to:
\* otherwise its owner could not type and nobody could hand it back.
NoPhantomTakeover == \A s \in live : ses[s].taken /\ ses[s].taker = None =>
  \E t \in Thread : th[t].op = "takeover" /\ th[t].ses = s

\* A session that no open socket holds and no event works on does not last: it is
\* removed, unless somebody comes back to it.
Abandoned(s) == /\ s \in live /\ \A t \in Thread : th[t].ses # s
                /\ \A x \in Sid : sock[x] = "open" => Seat(x, s) = "none"
AbandonedIsRemoved == \A s \in Session : []<>~Abandoned(s)

=============================================================================
