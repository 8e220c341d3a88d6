---------------------------- MODULE ShutdownVotes ----------------------------
(***************************************************************************)
(* The shutdown votes of app.py: a student's request to stop a VM or a     *)
(* whole cluster becomes a vote when two or more students of the group are *)
(* online, and is carried out at once otherwise.  The votes live in memory *)
(* and are changed by socket threads and timers; each action is one        *)
(* _vm_shutdown_lock section or one stretch of code between two of them.   *)
(***************************************************************************)
EXTENDS Integers, FiniteSets

CONSTANTS
  MaxVotes,   \* bound on the vote records that may be built
  Key,        \* what can be shut down: _shutdown_key
  Student, Teacher,
  Starter,    \* socket threads that handle an initiate event
  Handler,    \* socket threads that handle a vote or a cancel event
  Revocable,  \* accounts that may lose and regain access to the cluster
  Renewable,  \* keys whose cluster may be replaced
  MaxIdent,   \* bound on how often it is
  MaxOld,     \* bound on the votes that may grow older than 300 s
  None

ASSUME VotesAssumption ==
  /\ MaxVotes \in Nat
  /\ Student \cap Teacher = {}
  /\ Revocable \subseteq Student \cup Teacher /\ Renewable \subseteq Key
  /\ MaxIdent \in Nat /\ MaxOld \in Nat
  /\ None \notin Nat /\ None \notin Key /\ None \notin Student \cup Teacher

VARIABLES
  vote,      \* the vote records, by creation
  timer,     \* the 30 s timer of each vote
  votes,     \* _vm_shutdown_votes: vote id -> vote
  pending,   \* _vm_shutdown_pending_vms: key -> vote id
  seq,       \* _vm_shutdown_vote_seq
  start,     \* control state and locals of each starter
  hand,      \* control state and locals of each handler
  allowed,   \* users who may act on the clusters of the keys
  online,    \* students with a state socket
  ident,     \* _shutdown_identity of the cluster behind each key
  old,       \* votes started more than 300 s ago
  executed,  \* history: votes whose shutdown was carried out
  forced     \* history: votes decided by their timer

ledger == <<vote, timer, votes, pending, seq>>
world  == <<allowed, online, ident>>
vars   == <<ledger, start, hand, world, old, executed, forced>>

Vote == 1..MaxVotes
User == Student \cup Teacher

\* A vote is open until _emit_vote_result sets "completed"; then its result
\* is acted upon ("executing"), and stale votes are swept.
Phase == {"unused", "made", "open", "decided", "executing", "settled", "swept"}
Record == [phase : Phase, id : Nat, key : Key \cup {None}, by : User \cup {None},
           voters : SUBSET Student, voted : SUBSET Student, agreed : SUBSET Student,
           cancelled : BOOLEAN, ident : 0..MaxIdent]
Blank == [phase |-> "unused", id |-> 0, key |-> None, by |-> None, voters |-> {},
          voted |-> {}, agreed |-> {}, cancelled |-> FALSE, ident |-> 0]

StartPc == {"idle", "checked", "numbering", "numbered", "registered"}
Start == [pc : StartPc, user : User \cup {None}, key : Key \cup {None},
          vote : Vote \cup {None}, ident : 0..MaxIdent]
NotStarting == [pc |-> "idle", user |-> None, key |-> None, vote |-> None, ident |-> 0]

Hand == [pc : {"idle", "casting", "cancelling"}, user : User \cup {None},
         vote : Vote \cup {None}]
Free == [pc |-> "idle", user |-> None, vote |-> None]

TypeOK ==
  /\ vote    \in [Vote -> Record]
  /\ timer   \in [Vote -> {"off", "armed", "spent"}]
  /\ votes   \in [0..MaxVotes -> Vote \cup {None}]
  /\ pending \in [Key -> Nat \cup {None}]
  /\ seq \in Nat
  /\ start \in [Starter -> Start]
  /\ hand  \in [Handler -> Hand]
  /\ allowed \subseteq User /\ online \subseteq Student
  /\ ident \in [Key -> 0..MaxIdent]
  /\ \A v \in Vote : vote[v].agreed \subseteq vote[v].voted
                 /\ vote[v].voted \subseteq vote[v].voters
  /\ old \subseteq Vote /\ executed \subseteq Vote /\ forced \subseteq Vote

Init ==
  /\ vote    = [v \in Vote |-> Blank]
  /\ timer   = [v \in Vote |-> "off"]
  /\ votes   = [i \in 0..MaxVotes |-> None]
  /\ pending = [k \in Key |-> None]
  /\ seq = 0
  /\ start = [s \in Starter |-> NotStarting]
  /\ hand  = [h \in Handler |-> Free]
  /\ allowed = User /\ online = Student
  /\ ident = [k \in Key |-> 0]
  /\ old = {} /\ executed = {} /\ forced = {}

Open(v)      == vote[v].phase = "open"
Completed(v) == vote[v].phase \in {"decided", "executing", "settled", "swept"}
Unanimous(r) == r.voters \subseteq r.agreed
Unbuilt      == {v \in Vote : vote[v].phase = "unused"}
NextVote     == CHOOSE v \in Unbuilt : \A u \in Unbuilt : v <= u

\* _get_online_students_in_group, filtered by what each may do.
Electorate == online \cap allowed

-----------------------------------------------------------------------------
(* _initiate_shutdown and _create_vote.                                    *)

Initiate(s, u, k) ==
  /\ start[s].pc = "idle"
  /\ u \in allowed /\ pending[k] = None
  /\ start' = [start EXCEPT ![s] = [pc |-> "checked", user |-> u, key |-> k,
                                    vote |-> None, ident |-> ident[k]]]
  /\ UNCHANGED <<ledger, hand, world, old, executed, forced>>

NeedsVote(u) == u \in Student /\ Cardinality(Electorate) >= 2

\* With enough students online the request becomes a vote.  _gen_vote_id
\* counts up and then reads the counter, with no lock around the two.
BuildVote(s) ==
  LET l == start[s]
  IN /\ l.pc = "checked" /\ NeedsVote(l.user) /\ l.user \in Electorate
     /\ Unbuilt # {}
     /\ vote' = [vote EXCEPT ![NextVote] =
                   [Blank EXCEPT !.phase = "made", !.key = l.key, !.by = l.user,
                                 !.voters = Electorate, !.voted = {l.user},
                                 !.agreed = {l.user}, !.ident = l.ident]]
     /\ seq' = seq + 1
     /\ start' = [start EXCEPT ![s].pc = "numbering", ![s].vote = NextVote]
     /\ UNCHANGED <<timer, votes, pending, hand, world, old, executed, forced>>

ReadNumber(s) ==
  /\ start[s].pc = "numbering"
  /\ vote' = [vote EXCEPT ![start[s].vote].id = seq]
  /\ start' = [start EXCEPT ![s].pc = "numbered"]
  /\ UNCHANGED <<timer, votes, pending, seq, hand, world, old, executed, forced>>

BadKeyFree(k) == TRUE  \* fault: _create_vote relies on the earlier check
KeyFree(k)    == pending[k] = None

Register(s) ==
  LET v == start[s].vote
      k == start[s].key
  IN /\ start[s].pc = "numbered"
     /\ IF KeyFree(k)
        THEN /\ votes'   = [votes EXCEPT ![vote[v].id] = v]
             /\ pending' = [pending EXCEPT ![k] = vote[v].id]
             /\ vote'    = [vote EXCEPT ![v].phase = "open"]
             /\ start'   = [start EXCEPT ![s].pc = "registered"]
        ELSE /\ vote'    = [vote EXCEPT ![v].phase = "swept"]
             /\ start'   = [start EXCEPT ![s] = NotStarting]
             /\ UNCHANGED <<votes, pending>>
     /\ UNCHANGED <<timer, seq, hand, world, old, executed, forced>>

\* The timer starts after the request was broadcast: the last ballot may
\* already have been cast.
BadArmed(v) == "off"  \* fault: the timer is built and never started
Armed(v)    == "armed"

StartTimer(s) ==
  /\ start[s].pc = "registered"
  /\ timer' = [timer EXCEPT ![start[s].vote] = Armed(start[s].vote)]
  /\ start' = [start EXCEPT ![s] = NotStarting]
  /\ UNCHANGED <<vote, votes, pending, seq, hand, world, old, executed, forced>>

\* Nobody to ask, or the starter may no longer take part: the shutdown is
\* carried out, or refused, without a vote.
Direct(s) ==
  LET u == start[s].user
  IN /\ start[s].pc = "checked"
     /\ ~NeedsVote(u) \/ u \notin Electorate
     /\ start' = [start EXCEPT ![s] = NotStarting]
     /\ UNCHANGED <<ledger, hand, world, old, executed, forced>>

\* An error between the check and the vote ends the request.
StartFails(s) ==
  /\ start[s].pc = "checked"
  /\ start' = [start EXCEPT ![s] = NotStarting]
  /\ UNCHANGED <<ledger, hand, world, old, executed, forced>>

-----------------------------------------------------------------------------
(* Ballots, cancellation and the timer.                                    *)

\* _emit_vote_result, under the lock: complete the vote with its ballots and
\* release its key.  Timer.cancel does not stop a timer that already fired
\* and is waiting for the lock.
ReleaseKey(v)    == pending' = [pending EXCEPT ![vote[v].key] = None]

Decide(v, r, agree, next) ==
  /\ vote' = [vote EXCEPT ![v] = [r EXCEPT !.phase = next, !.cancelled = ~agree]]
  /\ \E t \in {timer[v], IF timer[v] = "armed" THEN "spent" ELSE timer[v]} :
       timer' = [timer EXCEPT ![v] = t]
  /\ ReleaseKey(v)

Reachable(v) == \E i \in DOMAIN votes : votes[i] = v
SameCluster(v) == ident[vote[v].key] = vote[v].ident

\* handle_vm_shutdown_vote, up to the lock.
OpenBallot(h, u, v) ==
  /\ hand[h].pc = "idle" /\ Reachable(v)
  /\ u \in allowed /\ SameCluster(v) /\ u \in vote[v].voters
  /\ hand' = [hand EXCEPT ![h] = [pc |-> "casting", user |-> u, vote |-> v]]
  /\ UNCHANGED <<ledger, start, world, old, executed, forced>>

BadAccepts(u, v) == u \notin vote[v].voted  \* fault: a late ballot counts
Accepts(u, v)    == Open(v) /\ u \notin vote[v].voted

Cast(h, agree) ==
  LET u == hand[h].user
      v == hand[h].vote
      r == [vote[v] EXCEPT !.voted = @ \cup {u},
                           !.agreed = IF agree THEN @ \cup {u} ELSE @]
  IN /\ hand[h].pc = "casting"
     /\ IF Accepts(u, v)
        THEN IF r.voters \subseteq r.voted
             THEN Decide(v, r, Unanimous(r), "decided")
             ELSE vote' = [vote EXCEPT ![v] = r] /\ UNCHANGED <<timer, pending>>
        ELSE UNCHANGED <<vote, timer, pending>>
     /\ hand' = [hand EXCEPT ![h] = Free]
     /\ UNCHANGED <<votes, seq, start, world, old, executed, forced>>

\* handle_vm_shutdown_cancel, up to the lock.
AskCancel(h, v) ==
  /\ hand[h].pc = "idle" /\ Reachable(v)
  /\ vote[v].by \in allowed /\ SameCluster(v)
  /\ hand' = [hand EXCEPT ![h] = [pc |-> "cancelling", user |-> vote[v].by, vote |-> v]]
  /\ UNCHANGED <<ledger, start, world, old, executed, forced>>

BadMayCancel(v) == vote[v].phase # "executing"  \* fault: "completed" is not asked
MayCancel(v)    == Open(v)

Cancel(h) ==
  LET v == hand[h].vote
  IN /\ hand[h].pc = "cancelling"
     /\ IF MayCancel(v) THEN Decide(v, vote[v], FALSE, "settled")
                        ELSE UNCHANGED <<vote, timer, pending>>
     /\ hand' = [hand EXCEPT ![h] = Free]
     /\ UNCHANGED <<votes, seq, start, world, old, executed, forced>>

\* _on_vote_timeout looks its vote up by id; who has not voted agrees.
SilenceAgrees(r) ==
  [r EXCEPT !.voted = r.voters, !.agreed = @ \cup (r.voters \ r.voted)]

TimerFires(t) ==
  LET v == votes[vote[t].id]
      r == SilenceAgrees(vote[v])
  IN /\ timer[t] = "armed"
     /\ IF v # None /\ Open(v)
        THEN /\ vote' = [vote EXCEPT ![v] = [r EXCEPT !.phase = "decided",
                                                      !.cancelled = ~Unanimous(r)]]
             /\ timer' = [timer EXCEPT ![t] = "spent"]
             /\ ReleaseKey(v)
             /\ forced' = forced \cup {v}
        ELSE /\ timer' = [timer EXCEPT ![t] = "spent"]
             /\ UNCHANGED <<vote, pending, forced>>
     /\ UNCHANGED <<votes, seq, start, hand, world, old, executed>>

-----------------------------------------------------------------------------
(* _complete_vote, by the thread that decided the vote.                    *)

BeginExecute(v) ==
  /\ vote[v].phase = "decided" /\ ~vote[v].cancelled
  /\ vote' = [vote EXCEPT ![v].phase = "executing"]
  /\ UNCHANGED <<timer, votes, pending, seq, start, hand, world, old, executed, forced>>

Refuse(v) ==
  /\ vote[v].phase = "decided" /\ vote[v].cancelled
  /\ vote' = [vote EXCEPT ![v].phase = "settled"]
  /\ UNCHANGED <<timer, votes, pending, seq, start, hand, world, old, executed, forced>>

\* The starter, every voter and the cluster are checked again; then the
\* hypervisor is called, which may fail.
MayExecute(v) == /\ SameCluster(v)
                 /\ vote[v].voters \cup {vote[v].by} \subseteq allowed

Execute(v) ==
  /\ vote[v].phase = "executing"
  /\ executed' = IF MayExecute(v) THEN executed \cup {v} ELSE executed
  /\ vote' = [vote EXCEPT ![v].phase = "settled"]
  /\ UNCHANGED <<timer, votes, pending, seq, start, hand, world, old, forced>>

ExecuteFails(v) ==
  /\ vote[v].phase = "executing"
  /\ vote' = [vote EXCEPT ![v].phase = "settled"]
  /\ UNCHANGED <<timer, votes, pending, seq, start, hand, world, old, executed, forced>>

\* _cleanup_stale_votes: old completed votes go, and so does whatever is
\* pending under their keys.
Stale == {i \in DOMAIN votes : votes[i] # None /\ Completed(votes[i]) /\ votes[i] \in old}

Sweep(v) ==
  /\ vote[v].phase = "settled"
  /\ vote' = [vote EXCEPT ![v].phase = "swept"]
  /\ votes' = [i \in DOMAIN votes |-> IF i \in Stale THEN None ELSE votes[i]]
  /\ pending' = [k \in Key |-> IF \E i \in Stale : vote[votes[i]].key = k
                               THEN None ELSE pending[k]]
  /\ UNCHANGED <<timer, seq, start, hand, world, old, executed, forced>>

-----------------------------------------------------------------------------
(* Time, accounts, sockets and clusters change.                            *)

\* Five minutes pass while the hypervisor is called, or after it all.
Grow(v) ==
  /\ vote[v].phase \in {"executing", "swept"} /\ v \notin old /\ v <= MaxOld
  /\ \A u \in 1..v-1 : u \in old
  /\ old' = old \cup {v}
  /\ UNCHANGED <<ledger, start, hand, world, executed, forced>>

ToggleAllowed(u) ==
  /\ allowed' = IF u \in allowed THEN allowed \ {u} ELSE allowed \cup {u}
  /\ UNCHANGED <<ledger, start, hand, online, ident, old, executed, forced>>

ToggleOnline(u) ==
  /\ online' = IF u \in online THEN online \ {u} ELSE online \cup {u}
  /\ UNCHANGED <<ledger, start, hand, allowed, ident, old, executed, forced>>

Renew(k) ==
  /\ ident[k] < MaxIdent
  /\ ident' = [ident EXCEPT ![k] = @ + 1]
  /\ UNCHANGED <<ledger, start, hand, allowed, online, old, executed, forced>>

-----------------------------------------------------------------------------
StarterStep(s) == \/ BuildVote(s) \/ ReadNumber(s) \/ Register(s) \/ StartTimer(s)
                  \/ Direct(s) \/ StartFails(s)
HandlerStep(h) == Cancel(h) \/ \E agree \in BOOLEAN : Cast(h, agree)
FinisherStep(v) == BeginExecute(v) \/ Refuse(v) \/ Execute(v) \/ ExecuteFails(v) \/ Sweep(v)

Event ==
  \/ \E s \in Starter, u \in User, k \in Key : Initiate(s, u, k)
  \/ \E h \in Handler, u \in Student, v \in Vote : OpenBallot(h, u, v)
  \/ \E h \in Handler, v \in Vote : AskCancel(h, v)

Environment ==
  \/ \E v \in Vote : Grow(v)
  \/ \E u \in Revocable : ToggleAllowed(u) \/ (u \in Student /\ ToggleOnline(u))
  \/ \E k \in Renewable : Renew(k)

Next ==
  \/ Event \/ Environment
  \/ \E s \in Starter : StarterStep(s)
  \/ \E h \in Handler : HandlerStep(h)
  \/ \E v \in Vote : TimerFires(v) \/ FinisherStep(v)

\* A thread that began goes on, and a started timer fires.
Fairness ==
  /\ \A s \in Starter : WF_vars(StarterStep(s))
  /\ \A h \in Handler : WF_vars(HandlerStep(h))
  /\ \A v \in Vote : WF_vars(TimerFires(v)) /\ WF_vars(FinisherStep(v))

Spec == Init /\ [][Next]_vars /\ Fairness
-----------------------------------------------------------------------------
(* Properties.                                                             *)

\* A voted shutdown is carried out only if every participant agreed, in
\* person or by silence until the timer fired; one refusal or a cancellation
\* that was accepted rules it out, however late the other threads are
\* (_execute_vote_action, _on_vote_timeout, handle_vm_shutdown_cancel).
ExecutionHasConsent ==
  \A v \in executed :
    /\ ~vote[v].cancelled
    /\ vote[v].voters \subseteq vote[v].agreed
    /\ v \in forced \/ vote[v].voters \subseteq vote[v].voted

\* The result of a vote is final: no late ballot, second timer or late
\* cancellation changes it (the "completed" checks under the lock).
DecisionIsFinal ==
  [][\A v \in Vote : Completed(v) =>
        /\ vote'[v].voted = vote[v].voted /\ vote'[v].agreed = vote[v].agreed
        /\ vote'[v].cancelled = vote[v].cancelled
        /\ vote'[v].phase # "decided" \/ vote[v].phase = "decided"]_vars

\* A pending key always leads to an open vote on it, which somebody can
\* still decide; otherwise nobody could ask for that shutdown again.
NoOrphanKey ==
  \A k \in Key : pending[k] # None =>
    LET v == votes[pending[k]] IN v # None /\ Open(v) /\ vote[v].key = k

\* While a shutdown is being voted on, no second vote on it is opened
\* (the "already pending" refusals of _initiate_shutdown and _create_vote).
OneOpenVotePerKey ==
  \A u, v \in Vote : Open(u) /\ Open(v) /\ vote[u].key = vote[v].key => u = v

\* The pending keys are those of the open votes, one vote each.
KeysMatchVotes == NoOrphanKey /\ OneOpenVotePerKey

\* A vote that was opened is decided (threading.Timer(30, _on_vote_timeout)).
VoteIsDecided == \A v \in Vote : Open(v) ~> Completed(v)
=============================================================================
