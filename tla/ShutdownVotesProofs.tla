------------------------- MODULE ShutdownVotesProofs -------------------------
(***************************************************************************)
(* Proofs about ShutdownVotes for any number of votes, students, socket    *)
(* threads and targets: a result never changes, and nothing is shut down   *)
(* by a vote without the consent of all its voters.                        *)
(***************************************************************************)
EXTENDS ShutdownVotes, TLAPS

-----------------------------------------------------------------------------
(* The inductive invariant *)

Fresh == {"unused", "made"}

\* What holds of a vote record by itself: only unanimous votes are carried out.
RecordOK(r) ==
  /\ r \in Record /\ r.id <= MaxVotes
  /\ r.agreed \subseteq r.voted /\ r.voted \subseteq r.voters
  /\ r.phase = "executing" => ~r.cancelled
  /\ r.phase \in {"decided", "executing"} /\ ~r.cancelled => r.voters \subseteq r.agreed

\* The counter is the number of votes built, which are built in order.
RecordsInv ==
  /\ vote = [v \in Vote |-> vote[v]] /\ \A v \in Vote : RecordOK(vote[v])
  /\ seq \in 0..MaxVotes
  /\ \A v \in Vote : vote[v].phase = "unused" <=> v > seq

\* Whoever finds a vote in the table finds it registered.
TableInv ==
  /\ votes \in [0..MaxVotes -> Vote \cup {None}]
  /\ \A i \in 0..MaxVotes : votes[i] # None => vote[votes[i]].phase \notin Fresh
  /\ pending \in [Key -> Nat \cup {None}]
  /\ timer \in [Vote -> {"off", "armed", "spent"}]

\* A vote that is not registered yet belongs to one starter.
Building == {"numbering", "numbered"}
StartersInv ==
  /\ start \in [Starter -> Start]
  /\ \A s \in Starter :
       /\ start[s].pc # "idle" => start[s].user \in User /\ start[s].key \in Key
       /\ start[s].pc \in Building => start[s].vote \in Vote /\ vote[start[s].vote].phase = "made"
       /\ start[s].pc = "registered" => start[s].vote \in Vote
  /\ \A s, t \in Starter : start[s].pc \in Building /\ start[t].pc \in Building
                           /\ start[s].vote = start[t].vote => s = t

HandlersInv ==
  /\ hand \in [Handler -> Hand]
  /\ \A h \in Handler :
       /\ hand[h].pc # "idle" => hand[h].vote \in Vote /\ vote[hand[h].vote].phase \notin Fresh
       /\ hand[h].pc = "casting" => hand[h].user \in vote[hand[h].vote].voters

\* The record of a vote that was carried out shows why.
ExecutedInv ==
  /\ executed \subseteq Vote /\ forced \subseteq Vote /\ old \subseteq Vote
  /\ \A v \in executed : /\ vote[v].phase \in {"settled", "swept"} /\ ~vote[v].cancelled
                         /\ vote[v].voters \subseteq vote[v].agreed

WorldInv == allowed \subseteq User /\ online \subseteq Student /\ ident \in [Key -> 0..MaxIdent]

IInv == /\ RecordsInv /\ TableInv /\ StartersInv /\ HandlersInv /\ ExecutedInv /\ WorldInv

LEMMA InitInv == Init => IInv
BY VotesAssumption
   DEF Init, IInv, RecordsInv, RecordOK, TableInv, StartersInv, HandlersInv, ExecutedInv, WorldInv,
       Record, Blank, Phase, Start, StartPc, NotStarting, Hand, Free, Vote, User, Building

-----------------------------------------------------------------------------
(* A registered vote is changed *)

LEMMA RegisteredVoteChanges ==
  ASSUME IInv, NEW v \in Vote, NEW r, RecordOK(r),
         vote[v].phase \notin Fresh, r.phase \notin Fresh, r.voters = vote[v].voters,
         v \in executed' => /\ r.phase \in {"settled", "swept"} /\ ~r.cancelled
                            /\ r.voters \subseteq r.agreed,
         vote' = [vote EXCEPT ![v] = r], UNCHANGED <<seq, start>>,
         executed' \subseteq executed \cup {v}, forced' \subseteq Vote, old' = old
  PROVE  /\ RecordsInv' /\ StartersInv' /\ ExecutedInv'
         /\ UNCHANGED <<votes, pending, timer>> => TableInv'
         /\ UNCHANGED hand => HandlersInv'
<1>1. RecordsInv'
  BY DEF IInv, RecordsInv, Fresh
<1>2. StartersInv'
  BY DEF IInv, RecordsInv, StartersInv, Fresh
<1>3. ExecutedInv'
  BY DEF IInv, RecordsInv, ExecutedInv
<1>4. \A w \in Vote : /\ vote[w].phase \notin Fresh => vote'[w].phase \notin Fresh
                      /\ vote'[w].voters = vote[w].voters
  BY DEF IInv, RecordsInv
<1>5. UNCHANGED <<votes, pending, timer>> => TableInv'
  BY <1>4 DEF IInv, TableInv
<1>6. UNCHANGED hand => HandlersInv'
  BY <1>4 DEF IInv, HandlersInv
<1>. QED  BY <1>1, <1>2, <1>3, <1>5, <1>6

\* _emit_vote_result settles the ballots of an open vote.
LEMMA DecideInv ==
  ASSUME IInv, NEW v \in Vote, NEW r, NEW agree \in BOOLEAN, NEW next \in {"decided", "settled"},
         Open(v), RecordOK(r), r.voters = vote[v].voters, agree => r.voters \subseteq r.agreed,
         Decide(v, r, agree, next), UNCHANGED <<votes, seq, start, world, old, executed, forced>>
  PROVE  RecordsInv' /\ StartersInv' /\ ExecutedInv' /\ TableInv'
         /\ (UNCHANGED hand => HandlersInv') /\ WorldInv'
         /\ \A w \in Vote : /\ vote[w].phase \notin Fresh => vote'[w].phase \notin Fresh
                            /\ vote'[w].voters = vote[w].voters
<1>. DEFINE q == [r EXCEPT !.phase = next, !.cancelled = ~agree]
<1>1. RecordOK(q) /\ q.voters = vote[v].voters /\ q.phase \notin Fresh
  BY DEF RecordOK, Record, Phase, Fresh
<1>2. vote[v].phase = "open" /\ v \notin executed
  BY DEF Open, IInv, ExecutedInv
<1>3. vote' = [vote EXCEPT ![v] = q]
  BY DEF Decide
<1>. HIDE DEF q
<1>4. \A w \in Vote : /\ vote[w].phase \notin Fresh => vote'[w].phase \notin Fresh
                      /\ vote'[w].voters = vote[w].voters
  BY <1>1, <1>3 DEF IInv, RecordsInv
<1>5. RecordsInv' /\ StartersInv' /\ ExecutedInv' /\ (UNCHANGED hand => HandlersInv')
  BY <1>1, <1>2, <1>3, RegisteredVoteChanges DEF Fresh, IInv, ExecutedInv
<1>6. TableInv'
  <2>1. timer' \in [Vote -> {"off", "armed", "spent"}]
    BY DEF IInv, TableInv, Decide
  <2>2. pending' \in [Key -> Nat \cup {None}]
    BY DEF IInv, TableInv, Decide, ReleaseKey
  <2>. QED  BY <1>4, <2>1, <2>2 DEF IInv, TableInv
<1>7. WorldInv'
  BY DEF IInv, WorldInv, world
<1>. QED  BY <1>4, <1>5, <1>6, <1>7

LEMMA HandlerFreed ==
  ASSUME IInv, NEW h \in Handler, hand' = [hand EXCEPT ![h] = Free],
         \A w \in Vote : /\ vote[w].phase \notin Fresh => vote'[w].phase \notin Fresh
                         /\ vote'[w].voters = vote[w].voters
  PROVE  HandlersInv'
BY DEF IInv, HandlersInv, Hand, Free

LEMMA CastInv ==
  ASSUME IInv, NEW h \in Handler, NEW agree \in BOOLEAN, Cast(h, agree)
  PROVE  IInv'
<1>. DEFINE u == hand[h].user
            v == hand[h].vote
            r == [vote[v] EXCEPT !.voted = vote[v].voted \cup {u},
                                 !.agreed = IF agree THEN vote[v].agreed \cup {u}
                                                     ELSE vote[v].agreed]
<1>1. v \in Vote /\ u \in vote[v].voters /\ RecordOK(vote[v])
  BY DEF Cast, IInv, HandlersInv, RecordsInv
<1>2. Open(v) => RecordOK(r) /\ r.voters = vote[v].voters /\ r.phase = "open"
  BY <1>1 DEF RecordOK, Record, Open
<1>3. CASE Accepts(u, v) /\ r.voters \subseteq r.voted
  <2>1. Open(v) /\ Decide(v, r, Unanimous(r), "decided") /\ Unanimous(r) \in BOOLEAN
    BY <1>3 DEF Cast, Accepts, Unanimous
  <2>2. Unanimous(r) => r.voters \subseteq r.agreed
    BY DEF Unanimous
  <2>3. UNCHANGED <<votes, seq, start, world, old, executed, forced>>
        /\ hand' = [hand EXCEPT ![h] = Free]
    BY DEF Cast
  <2>. HIDE DEF r
  <2>. QED  BY <1>1, <1>2, <2>1, <2>2, <2>3, DecideInv, HandlerFreed DEF IInv
<1>4. CASE Accepts(u, v) /\ ~(r.voters \subseteq r.voted)
  <2>1. vote' = [vote EXCEPT ![v] = r] /\ vote[v].phase = "open" /\ v \notin executed
    BY <1>4 DEF Cast, Accepts, Open, IInv, ExecutedInv
  <2>2. UNCHANGED <<votes, seq, start, world, old, executed, forced, timer, pending>>
        /\ hand' = [hand EXCEPT ![h] = Free]
    BY <1>4 DEF Cast
  <2>3. RecordOK(r) /\ r.voters = vote[v].voters /\ r.phase = "open"
    BY <1>2, <2>1 DEF Open
  <2>. HIDE DEF r
  <2>4. RecordsInv' /\ StartersInv' /\ ExecutedInv' /\ TableInv'
    BY <1>1, <2>1, <2>2, <2>3, RegisteredVoteChanges DEF Fresh, IInv, ExecutedInv
  <2>5. HandlersInv'
    BY <1>1, <2>1, <2>2, <2>3, HandlerFreed DEF Fresh, IInv, RecordsInv
  <2>6. WorldInv'
    BY <2>2 DEF IInv, WorldInv, world
  <2>. QED  BY <2>4, <2>5, <2>6 DEF IInv
<1>5. CASE ~Accepts(u, v)
  <2>1. UNCHANGED <<vote, timer, pending, votes, seq, start, world, old, executed, forced>>
        /\ hand' = [hand EXCEPT ![h] = Free]
    BY <1>5 DEF Cast
  <2>. QED  BY <2>1, HandlerFreed
            DEF IInv, RecordsInv, TableInv, StartersInv, ExecutedInv, WorldInv, world
<1>. QED  BY <1>3, <1>4, <1>5

LEMMA CancelInv ==
  ASSUME IInv, NEW h \in Handler, Cancel(h)
  PROVE  IInv'
<1>. DEFINE v == hand[h].vote
<1>1. v \in Vote /\ RecordOK(vote[v])
  BY DEF Cancel, IInv, HandlersInv, RecordsInv
<1>2. UNCHANGED <<votes, seq, start, world, old, executed, forced>>
      /\ hand' = [hand EXCEPT ![h] = Free]
  BY DEF Cancel
<1>3. CASE Open(v)
  <2>1. Decide(v, vote[v], FALSE, "settled")
    BY <1>3 DEF Cancel, MayCancel
  <2>. QED  BY <1>1, <1>2, <1>3, <2>1, DecideInv, HandlerFreed DEF IInv
<1>4. CASE ~Open(v)
  <2>1. UNCHANGED <<vote, timer, pending>>
    BY <1>4 DEF Cancel, MayCancel
  <2>. QED  BY <1>2, <2>1, HandlerFreed
            DEF IInv, RecordsInv, TableInv, StartersInv, ExecutedInv, WorldInv, world
<1>. QED  BY <1>3, <1>4

\* _on_vote_timeout completes whatever vote its number leads to.
LEMMA TimerFiresInv ==
  ASSUME IInv, NEW t \in Vote, TimerFires(t)
  PROVE  IInv'
<1>. DEFINE v == votes[vote[t].id]
            q == [SilenceAgrees(vote[v]) EXCEPT !.phase = "decided",
                                  !.cancelled = ~Unanimous(SilenceAgrees(vote[v]))]
<1>1. vote[t].id \in 0..MaxVotes /\ v \in Vote \cup {None}
  BY DEF IInv, RecordsInv, RecordOK, Record, TableInv
<1>2. UNCHANGED <<votes, seq, start, hand, world, old, executed>>
      /\ timer' = [timer EXCEPT ![t] = "spent"]
  BY DEF TimerFires
<1>3. timer' \in [Vote -> {"off", "armed", "spent"}]
  BY <1>2 DEF IInv, TableInv
<1>4. CASE v # None /\ Open(v)
  <2>1. v \in Vote /\ RecordOK(vote[v]) /\ vote[v].phase = "open" /\ v \notin executed
    BY <1>1, <1>4 DEF Open, IInv, RecordsInv, ExecutedInv
  <2>2. RecordOK(q) /\ q.phase = "decided" /\ q.voters = vote[v].voters
    BY <2>1 DEF RecordOK, Record, Phase, SilenceAgrees, Unanimous
  <2>3. vote' = [vote EXCEPT ![v] = q] /\ ReleaseKey(v) /\ forced' = forced \cup {v}
    BY <1>4 DEF TimerFires
  <2>. HIDE DEF q
  <2>4. RecordsInv' /\ StartersInv' /\ ExecutedInv' /\ HandlersInv'
    BY <1>2, <2>1, <2>2, <2>3, RegisteredVoteChanges DEF Fresh, IInv, ExecutedInv
  <2>5. TableInv'
    <3>1. pending' \in [Key -> Nat \cup {None}]
      BY <2>3 DEF ReleaseKey, IInv, TableInv
    <3>. QED  BY <1>2, <1>3, <2>1, <2>2, <2>3, <3>1 DEF IInv, TableInv, RecordsInv, Fresh
  <2>6. WorldInv'
    BY <1>2 DEF IInv, WorldInv, world
  <2>. QED  BY <2>4, <2>5, <2>6 DEF IInv
<1>5. CASE ~(v # None /\ Open(v))
  <2>1. UNCHANGED <<vote, pending, forced>>
    BY <1>5 DEF TimerFires
  <2>. QED  BY <1>2, <1>3, <2>1
            DEF IInv, RecordsInv, TableInv, StartersInv, HandlersInv, ExecutedInv, WorldInv, world
<1>. QED  BY <1>4, <1>5

-----------------------------------------------------------------------------
(* A vote is carried out *)

\* _complete_vote and the return of the hypervisor's call change the phase.
LEMMA PhaseChanges ==
  ASSUME IInv, NEW v \in Vote, NEW to \in {"executing", "settled"},
         vote[v].phase \in {"decided", "executing"}, v \notin executed,
         to = "executing" => ~vote[v].cancelled,
         v \in executed' => /\ to = "settled" /\ ~vote[v].cancelled
                            /\ vote[v].voters \subseteq vote[v].agreed,
         executed' \subseteq executed \cup {v},
         vote' = [vote EXCEPT ![v].phase = to],
         UNCHANGED <<timer, votes, pending, seq, start, hand, world, old, forced>>
  PROVE  IInv'
<1>. DEFINE q == [vote[v] EXCEPT !.phase = to]
<1>1. RecordOK(vote[v])
  BY DEF IInv, RecordsInv
<1>2. RecordOK(q) /\ q.phase = to /\ q.voters = vote[v].voters /\ q.cancelled = vote[v].cancelled
      /\ q.agreed = vote[v].agreed
  BY <1>1 DEF RecordOK, Record, Phase
<1>3. vote' = [vote EXCEPT ![v] = q]
  OBVIOUS
<1>. HIDE DEF q
<1>4. RecordsInv' /\ StartersInv' /\ ExecutedInv' /\ HandlersInv' /\ TableInv'
  BY <1>2, <1>3, RegisteredVoteChanges DEF Fresh, IInv, ExecutedInv
<1>5. WorldInv'
  BY DEF IInv, WorldInv, world
<1>. QED  BY <1>4, <1>5 DEF IInv

LEMMA FinisherInv ==
  ASSUME IInv, NEW v \in Vote, FinisherStep(v)
  PROVE  IInv'
<1>1. RecordOK(vote[v])
  BY DEF IInv, RecordsInv
<1>2. vote[v].phase \in {"decided", "executing"} => v \notin executed
  BY DEF IInv, ExecutedInv
<1>3. CASE BeginExecute(v)
  BY <1>2, <1>3, PhaseChanges DEF BeginExecute
<1>4. CASE Refuse(v)
  BY <1>2, <1>4, PhaseChanges DEF Refuse
<1>5. CASE Execute(v)
  BY <1>1, <1>2, <1>5, PhaseChanges DEF Execute, RecordOK
<1>6. CASE ExecuteFails(v)
  BY <1>2, <1>6, PhaseChanges DEF ExecuteFails
<1>7. CASE Sweep(v)
  <2>. DEFINE q == [vote[v] EXCEPT !.phase = "swept"]
  <2>1. RecordOK(q) /\ q.phase = "swept" /\ q.voters = vote[v].voters
        /\ q.cancelled = vote[v].cancelled /\ q.agreed = vote[v].agreed
    BY <1>1, <1>7 DEF RecordOK, Record, Phase, Sweep
  <2>2. vote' = [vote EXCEPT ![v] = q] /\ vote[v].phase = "settled"
        /\ UNCHANGED <<timer, seq, start, hand, world, old, executed, forced>>
    BY <1>7 DEF Sweep
  <2>. HIDE DEF q
  <2>3. RecordsInv' /\ StartersInv' /\ ExecutedInv' /\ HandlersInv'
    BY <2>1, <2>2, RegisteredVoteChanges DEF Fresh, IInv, ExecutedInv
  <2>4. TableInv'
    <3>1. votes' = [i \in 0..MaxVotes |-> IF i \in Stale THEN None ELSE votes[i]]
          /\ pending' \in [Key -> Nat \cup {None}]
      BY <1>7 DEF Sweep, IInv, TableInv
    <3>2. \A w \in Vote : vote[w].phase \notin Fresh => vote'[w].phase \notin Fresh
      BY <2>1, <2>2 DEF IInv, RecordsInv, Fresh
    <3>. QED  BY <2>2, <3>1, <3>2 DEF IInv, TableInv
  <2>5. WorldInv'
    BY <2>2 DEF IInv, WorldInv, world
  <2>. QED  BY <2>3, <2>4, <2>5 DEF IInv
<1>. QED  BY <1>3, <1>4, <1>5, <1>6, <1>7 DEF FinisherStep

-----------------------------------------------------------------------------
(* A vote is built and registered *)

LEMMA NextVoteValue ==
  ASSUME IInv, Unbuilt # {}
  PROVE  NextVote = seq + 1 /\ seq + 1 \in Vote
<1>1. Unbuilt = {v \in Vote : v > seq} /\ seq \in 0..MaxVotes /\ MaxVotes \in Nat
  BY VotesAssumption DEF IInv, RecordsInv, Unbuilt
<1>2. seq + 1 \in Unbuilt /\ \A u \in Unbuilt : seq + 1 <= u
  BY <1>1 DEF Vote
<1>3. NextVote \in Unbuilt /\ \A u \in Unbuilt : NextVote <= u
  BY <1>2 DEF NextVote
<1>. QED  BY <1>1, <1>2, <1>3 DEF Vote

LEMMA BuildVoteInv ==
  ASSUME IInv, NEW s \in Starter, BuildVote(s)
  PROVE  IInv'
<1>. DEFINE l == start[s]
            n == seq + 1
            q == [Blank EXCEPT !.phase = "made", !.key = l.key, !.by = l.user,
                               !.voters = Electorate, !.voted = {l.user},
                               !.agreed = {l.user}, !.ident = l.ident]
<1>1. NextVote = n /\ n \in Vote /\ vote[n].phase = "unused"
  BY NextVoteValue DEF BuildVote, IInv, RecordsInv, Vote
<1>2. l \in Start /\ l.user \in User /\ l.key \in Key /\ l.user \in Electorate /\ l.pc = "checked"
  BY DEF BuildVote, IInv, StartersInv
<1>3. Electorate \subseteq Student
  BY DEF Electorate, IInv, WorldInv
<1>4. RecordOK(q) /\ q.phase = "made"
  <2>1. l.ident \in 0..MaxIdent
    BY <1>2 DEF Start
  <2>2. /\ q.phase = "made" /\ q.id = 0 /\ q.voters = Electorate /\ q.cancelled = FALSE
        /\ q.voted = {l.user} /\ q.agreed = {l.user}
    BY DEF Blank
  <2>3. q \in Record
    <3>1. {l.user} \in SUBSET Student
      BY <1>2, <1>3
    <3>. HIDE DEF l
    <3>. QED  BY <1>2, <1>3, <2>1, <3>1, VotesAssumption DEF Blank, Record, Phase
  <2>. HIDE DEF q
  <2>. QED  BY <1>2, <2>2, <2>3, VotesAssumption DEF RecordOK
<1>5. /\ vote' = [vote EXCEPT ![n] = q] /\ seq' = n
      /\ start' = [start EXCEPT ![s].pc = "numbering", ![s].vote = n]
      /\ UNCHANGED <<timer, votes, pending, hand, world, old, executed, forced>>
  BY <1>1 DEF BuildVote
<1>. HIDE DEF q
<1>6. RecordsInv'
  <2>1. \A w \in Vote : vote'[w] = IF w = n THEN q ELSE vote[w]
    BY <1>5 DEF IInv, RecordsInv
  <2>2. vote' = [w \in Vote |-> vote'[w]] /\ \A w \in Vote : RecordOK(vote'[w])
    BY <1>4, <1>5, <2>1 DEF IInv, RecordsInv
  <2>3. n \in 0..MaxVotes /\ \A w \in Vote : vote'[w].phase = "unused" <=> w > n
    BY <1>1, <1>4, <2>1, VotesAssumption DEF IInv, RecordsInv, Vote
  <2>. QED  BY <1>5, <2>2, <2>3 DEF RecordsInv
<1>7. \A w \in Vote : vote[w].phase # "unused" => w # n /\ vote'[w] = vote[w]
  BY <1>1, <1>5 DEF IInv, RecordsInv
<1>8. TableInv'
  BY <1>5, <1>7 DEF IInv, TableInv, Fresh
<1>9. StartersInv'
  <2>1. start' = [start EXCEPT ![s] = [l EXCEPT !.pc = "numbering", !.vote = n]]
    BY <1>5 DEF IInv, StartersInv
  <2>2. [l EXCEPT !.pc = "numbering", !.vote = n] \in Start
    BY <1>1, <1>2 DEF Start, StartPc
  <2>3. start' \in [Starter -> Start]
    BY <2>1, <2>2 DEF IInv, StartersInv
  <2>4. vote'[n].phase = "made"
    BY <1>1, <1>4, <1>5 DEF IInv, RecordsInv
  <2>5. \A t \in Starter \ {s} : start'[t] = start[t]
    BY <2>1 DEF IInv, StartersInv
  <2>6. /\ start'[s].pc = "numbering" /\ start'[s].vote = n
        /\ start'[s].user = l.user /\ start'[s].key = l.key
    BY <2>1, <1>2 DEF IInv, StartersInv, Start
  <2>7. \A t \in Starter \ {s} : start[t].pc \in Building => start[t].vote # n
    BY <1>1 DEF IInv, StartersInv
  <2>8. \A t \in Starter :
          /\ start'[t].pc # "idle" => start'[t].user \in User /\ start'[t].key \in Key
          /\ start'[t].pc \in Building =>
               start'[t].vote \in Vote /\ vote'[start'[t].vote].phase = "made"
          /\ start'[t].pc = "registered" => start'[t].vote \in Vote
    BY <1>1, <1>2, <1>7, <2>4, <2>5, <2>6 DEF IInv, StartersInv, Building
  <2>9. \A t, w \in Starter : start'[t].pc \in Building /\ start'[w].pc \in Building
                              /\ start'[t].vote = start'[w].vote => t = w
    BY <2>5, <2>6, <2>7 DEF IInv, StartersInv
  <2>. QED  BY <2>3, <2>8, <2>9 DEF StartersInv
<1>10. HandlersInv'
  BY <1>5, <1>7 DEF IInv, HandlersInv, Fresh
<1>11. ExecutedInv'
  BY <1>5, <1>7 DEF IInv, ExecutedInv
<1>12. WorldInv'
  BY <1>5 DEF IInv, WorldInv, world
<1>. QED  BY <1>6, <1>8, <1>9, <1>10, <1>11, <1>12 DEF IInv

\* The vote a starter is building changes: nobody else has seen it.
LEMMA MadeVoteChanges ==
  ASSUME IInv, NEW s \in Starter, start[s].pc \in Building,
         NEW r, RecordOK(r), r.phase # "unused",
         vote' = [vote EXCEPT ![start[s].vote] = r],
         UNCHANGED <<seq, hand, world, old, executed, forced>>
  PROVE  LET v == start[s].vote
         IN /\ RecordsInv' /\ HandlersInv' /\ ExecutedInv' /\ WorldInv'
            /\ \A w \in Vote \ {v} : vote'[w] = vote[w]
            /\ vote'[v] = r
            /\ \A t \in Starter \ {s} : start[t].pc \in Building => start[t].vote # v
<1>. DEFINE v == start[s].vote
<1>1. v \in Vote /\ vote[v].phase = "made"
      /\ \A t \in Starter \ {s} : start[t].pc \in Building => start[t].vote # v
  BY DEF IInv, StartersInv
<1>2. /\ \A w \in Vote \ {v} : vote'[w] = vote[w]
      /\ vote'[v] = r
  BY <1>1 DEF IInv, RecordsInv
<1>3. RecordsInv'
  BY <1>1, <1>2 DEF IInv, RecordsInv
<1>4. HandlersInv'
  BY <1>1, <1>2 DEF IInv, HandlersInv, Fresh
<1>5. ExecutedInv'
  BY <1>1, <1>2 DEF IInv, ExecutedInv
<1>6. WorldInv'
  BY DEF IInv, WorldInv, world
<1>. QED  BY <1>1, <1>2, <1>3, <1>4, <1>5, <1>6

LEMMA ReadNumberInv ==
  ASSUME IInv, NEW s \in Starter, ReadNumber(s)
  PROVE  IInv'
<1>. DEFINE v == start[s].vote
            q == [vote[v] EXCEPT !.id = seq]
<1>1. start[s].pc = "numbering" /\ start[s].pc \in Building /\ start[s] \in Start
  BY DEF ReadNumber, Building, IInv, StartersInv
<1>2. v \in Vote /\ vote[v].phase = "made" /\ RecordOK(vote[v]) /\ seq \in 0..MaxVotes
  BY <1>1 DEF IInv, StartersInv, RecordsInv
<1>3. RecordOK(q) /\ q.phase = "made"
  BY <1>2, VotesAssumption DEF RecordOK, Record
<1>4. /\ vote' = [vote EXCEPT ![v] = q] /\ start' = [start EXCEPT ![s].pc = "numbered"]
      /\ UNCHANGED <<timer, votes, pending, seq, hand, world, old, executed, forced>>
  BY DEF ReadNumber
<1>. HIDE DEF q
<1>5. /\ RecordsInv' /\ HandlersInv' /\ ExecutedInv' /\ WorldInv'
      /\ \A w \in Vote \ {v} : vote'[w] = vote[w]
      /\ vote'[v] = q
  BY <1>1, <1>2, <1>3, <1>4, MadeVoteChanges
<1>6. TableInv'
  BY <1>2, <1>4, <1>5 DEF IInv, TableInv, Fresh
<1>7. StartersInv'
  <2>1. start' = [start EXCEPT ![s] = [start[s] EXCEPT !.pc = "numbered"]]
        /\ [start[s] EXCEPT !.pc = "numbered"] \in Start
    BY <1>1, <1>4 DEF IInv, StartersInv, Start, StartPc
  <2>2. \A w \in Vote : vote'[w].phase = vote[w].phase
    BY <1>2, <1>3, <1>5
  <2>. QED  BY <1>1, <2>1, <2>2 DEF IInv, StartersInv, Start, Building
<1>. QED  BY <1>5, <1>6, <1>7 DEF IInv

LEMMA RegisterInv ==
  ASSUME IInv, NEW s \in Starter, Register(s)
  PROVE  IInv'
<1>. DEFINE v == start[s].vote
            k == start[s].key
            q(p) == [vote[v] EXCEPT !.phase = p]
<1>1. start[s].pc = "numbered" /\ start[s].pc \in Building /\ start[s] \in Start /\ k \in Key
  BY DEF Register, Building, IInv, StartersInv
<1>2. v \in Vote /\ vote[v].phase = "made" /\ RecordOK(vote[v])
  BY <1>1 DEF IInv, StartersInv, RecordsInv
<1>3. \A p \in {"open", "swept"} : RecordOK(q(p)) /\ q(p).phase = p
  BY <1>2 DEF RecordOK, Record, Phase
<1>4. UNCHANGED <<timer, seq, hand, world, old, executed, forced>>
  BY DEF Register
<1>5. CASE KeyFree(k)
  <2>1. /\ votes' = [votes EXCEPT ![vote[v].id] = v]
        /\ pending' = [pending EXCEPT ![k] = vote[v].id]
        /\ vote' = [vote EXCEPT ![v] = q("open")]
        /\ start' = [start EXCEPT ![s].pc = "registered"]
    BY <1>5 DEF Register
  <2>. HIDE DEF q
  <2>2. /\ RecordsInv' /\ HandlersInv' /\ ExecutedInv' /\ WorldInv'
        /\ \A w \in Vote \ {v} : vote'[w] = vote[w]
        /\ vote'[v] = q("open")
        /\ \A t \in Starter \ {s} : start[t].pc \in Building => start[t].vote # v
    BY <1>1, <1>2, <1>3, <1>4, <2>1, MadeVoteChanges
  <2>3. TableInv'
    <3>1. vote[v].id \in Nat
      BY <1>2 DEF RecordOK, Record
    <3>2. votes' \in [0..MaxVotes -> Vote \cup {None}] /\ pending' \in [Key -> Nat \cup {None}]
      BY <1>2, <2>1, <3>1 DEF IInv, TableInv
    <3>3. vote'[v].phase = "open"
      BY <1>3, <2>2
    <3>4. ASSUME NEW i \in 0..MaxVotes, votes'[i] # None
          PROVE  vote'[votes'[i]].phase \notin Fresh
      <4>1. CASE votes'[i] = v
        BY <3>3, <4>1 DEF Fresh
      <4>2. CASE votes'[i] # v
        <5>1. votes'[i] = votes[i] /\ votes[i] \in Vote
          BY <2>1, <3>4, <4>2 DEF IInv, TableInv
        <5>2. vote'[votes[i]] = vote[votes[i]] /\ vote[votes[i]].phase \notin Fresh
          BY <2>2, <3>4, <4>2, <5>1 DEF IInv, TableInv
        <5>. QED  BY <5>1, <5>2
      <4>. QED  BY <4>1, <4>2
    <3>. QED  BY <1>4, <3>2, <3>4 DEF IInv, TableInv
  <2>4. StartersInv'
    <3>1. start' = [start EXCEPT ![s] = [start[s] EXCEPT !.pc = "registered"]]
          /\ [start[s] EXCEPT !.pc = "registered"] \in Start
      BY <1>1, <2>1 DEF IInv, StartersInv, Start, StartPc
    <3>2. /\ start'[s].pc = "registered" /\ start'[s].vote = v
          /\ start'[s].user = start[s].user /\ start'[s].key = k
          /\ \A t \in Starter \ {s} : start'[t] = start[t]
      BY <1>1, <3>1 DEF IInv, StartersInv, Start
    <3>. QED  BY <1>1, <1>2, <2>2, <3>1, <3>2 DEF IInv, StartersInv, Building
  <2>. QED  BY <2>2, <2>3, <2>4 DEF IInv
<1>6. CASE ~KeyFree(k)
  <2>1. /\ vote' = [vote EXCEPT ![v] = q("swept")]
        /\ start' = [start EXCEPT ![s] = NotStarting]
        /\ UNCHANGED <<votes, pending>>
    BY <1>6 DEF Register
  <2>. HIDE DEF q
  <2>2. /\ RecordsInv' /\ HandlersInv' /\ ExecutedInv' /\ WorldInv'
        /\ \A w \in Vote \ {v} : vote'[w] = vote[w]
        /\ vote'[v] = q("swept")
        /\ \A t \in Starter \ {s} : start[t].pc \in Building => start[t].vote # v
    BY <1>1, <1>2, <1>3, <1>4, <2>1, MadeVoteChanges
  <2>3. TableInv'
    BY <1>2, <1>3, <1>4, <2>1, <2>2 DEF IInv, TableInv, Fresh
  <2>4. StartersInv'
    <3>1. NotStarting \in Start /\ NotStarting.pc = "idle"
      BY VotesAssumption DEF NotStarting, Start, StartPc
    <3>. QED  BY <2>1, <2>2, <3>1 DEF IInv, StartersInv, Building
  <2>. QED  BY <2>2, <2>3, <2>4 DEF IInv
<1>. QED  BY <1>5, <1>6

\* Initiate, Direct, StartFails and the start of a timer touch no record.
LEMMA StarterMoves ==
  ASSUME IInv, NEW s \in Starter, NEW l \in Start, start' = [start EXCEPT ![s] = l],
         l.pc \in {"idle", "checked"},
         l.pc = "checked" => l.user \in User /\ l.key \in Key,
         timer' \in [Vote -> {"off", "armed", "spent"}],
         UNCHANGED <<vote, votes, pending, seq, hand, world, old, executed, forced>>
  PROVE  IInv'
<1>1. StartersInv'
  BY DEF IInv, StartersInv, Building
<1>2. RecordsInv' /\ TableInv' /\ HandlersInv' /\ ExecutedInv'
  BY DEF IInv, RecordsInv, TableInv, HandlersInv, ExecutedInv
<1>3. WorldInv'
  BY DEF IInv, WorldInv, world
<1>. QED  BY <1>1, <1>2, <1>3 DEF IInv

LEMMA StarterInv ==
  ASSUME IInv, NEW s \in Starter, StarterStep(s)
  PROVE  IInv'
<1>1. timer \in [Vote -> {"off", "armed", "spent"}]
  BY DEF IInv, TableInv
<1>2. NotStarting \in Start /\ NotStarting.pc = "idle"
  BY VotesAssumption DEF NotStarting, Start, StartPc
<1>3. CASE BuildVote(s)
  BY <1>3, BuildVoteInv
<1>4. CASE ReadNumber(s)
  BY <1>4, ReadNumberInv
<1>5. CASE Register(s)
  BY <1>5, RegisterInv
<1>6. CASE StartTimer(s)
  BY <1>1, <1>2, <1>6, StarterMoves DEF StartTimer, Armed
<1>7. CASE Direct(s)
  BY <1>1, <1>2, <1>7, StarterMoves DEF Direct, ledger
<1>8. CASE StartFails(s)
  BY <1>1, <1>2, <1>8, StarterMoves DEF StartFails, ledger
<1>. QED  BY <1>3, <1>4, <1>5, <1>6, <1>7, <1>8 DEF StarterStep

-----------------------------------------------------------------------------
(* Requests arrive and the world changes *)

LEMMA EventInv ==
  ASSUME IInv, Event
  PROVE  IInv'
<1>1. timer \in [Vote -> {"off", "armed", "spent"}]
  BY DEF IInv, TableInv
<1>2. ASSUME NEW s \in Starter, NEW u \in User, NEW k \in Key, Initiate(s, u, k)
      PROVE  IInv'
  <2>. DEFINE l == [pc |-> "checked", user |-> u, key |-> k, vote |-> None, ident |-> ident[k]]
  <2>1. l \in Start /\ l.pc = "checked" /\ l.user = u /\ l.key = k
    BY DEF IInv, WorldInv, Start, StartPc
  <2>2. start' = [start EXCEPT ![s] = l]
        /\ UNCHANGED <<timer, vote, votes, pending, seq, hand, world, old, executed, forced>>
    BY <1>2 DEF Initiate, ledger
  <2>. HIDE DEF l
  <2>. QED  BY <1>1, <2>1, <2>2, StarterMoves
<1>3. ASSUME NEW h \in Handler, NEW l \in Hand, NEW v \in Vote, NEW i \in 0..MaxVotes,
             votes[i] = v, l.vote = v, l.pc = "casting" => l.user \in vote[v].voters,
             hand' = [hand EXCEPT ![h] = l],
             UNCHANGED <<ledger, start, world, old, executed, forced>>
      PROVE  IInv'
  <2>1. vote[v].phase \notin Fresh
    BY <1>3, VotesAssumption DEF IInv, TableInv, Vote
  <2>2. HandlersInv'
    BY <1>3, <2>1 DEF IInv, HandlersInv, ledger
  <2>. QED  BY <1>3, <2>2 DEF IInv, RecordsInv, TableInv, StartersInv, ExecutedInv, WorldInv,
                              ledger, world
<1>4. ASSUME NEW v \in Vote, Reachable(v) PROVE \E i \in 0..MaxVotes : votes[i] = v
  BY <1>4 DEF Reachable, IInv, TableInv
<1>5. ASSUME NEW h \in Handler, NEW u \in Student, NEW v \in Vote, OpenBallot(h, u, v)
      PROVE  IInv'
  <2>1. [pc |-> "casting", user |-> u, vote |-> v] \in Hand
    BY DEF Hand, User
  <2>2. PICK i \in 0..MaxVotes : votes[i] = v
    BY <1>4, <1>5 DEF OpenBallot
  <2>. QED  BY <1>3, <1>5, <2>1, <2>2 DEF OpenBallot
<1>6. ASSUME NEW h \in Handler, NEW v \in Vote, AskCancel(h, v)
      PROVE  IInv'
  <2>1. [pc |-> "cancelling", user |-> vote[v].by, vote |-> v] \in Hand
    BY <1>6 DEF AskCancel, Hand, IInv, WorldInv
  <2>2. PICK i \in 0..MaxVotes : votes[i] = v
    BY <1>4, <1>6 DEF AskCancel
  <2>. QED  BY <1>3, <1>6, <2>1, <2>2 DEF AskCancel
<1>. QED  BY <1>2, <1>5, <1>6 DEF Event

LEMMA EnvironmentInv ==
  ASSUME IInv, Environment
  PROVE  IInv'
<1>1. UNCHANGED <<ledger, start, hand, executed, forced>>
  BY DEF Environment, Grow, ToggleAllowed, ToggleOnline, Renew
<1>2. RecordsInv' /\ TableInv' /\ StartersInv' /\ HandlersInv'
  BY <1>1 DEF IInv, RecordsInv, TableInv, StartersInv, HandlersInv, ledger
<1>3. ExecutedInv'
  <2>1. old' \subseteq Vote
    BY DEF Environment, Grow, ToggleAllowed, ToggleOnline, Renew, IInv, ExecutedInv
  <2>. QED  BY <1>1, <2>1 DEF IInv, ExecutedInv, ledger
<1>4. WorldInv'
  <2>1. CASE \E v \in Vote : Grow(v)
    BY <2>1 DEF Grow, IInv, WorldInv, world
  <2>2. CASE \E u \in Revocable : ToggleAllowed(u)
    BY <2>2, VotesAssumption DEF ToggleAllowed, IInv, WorldInv, User
  <2>3. CASE \E u \in Revocable : u \in Student /\ ToggleOnline(u)
    BY <2>3 DEF ToggleOnline, IInv, WorldInv
  <2>4. CASE \E k \in Renewable : Renew(k)
    BY <2>4, VotesAssumption DEF Renew, IInv, WorldInv
  <2>. QED  BY <2>1, <2>2, <2>3, <2>4 DEF Environment
<1>. QED  BY <1>2, <1>3, <1>4 DEF IInv

-----------------------------------------------------------------------------
(* The theorems *)

LEMMA NextInv == IInv /\ [Next]_vars => IInv'
<1>. SUFFICES ASSUME IInv, [Next]_vars
              PROVE  IInv'
  OBVIOUS
<1>1. CASE Event
  BY <1>1, EventInv
<1>2. CASE Environment
  BY <1>2, EnvironmentInv
<1>3. CASE \E s \in Starter : StarterStep(s)
  BY <1>3, StarterInv
<1>4. CASE \E h \in Handler : HandlerStep(h)
  BY <1>4, CancelInv, CastInv DEF HandlerStep
<1>5. CASE \E v \in Vote : TimerFires(v) \/ FinisherStep(v)
  BY <1>5, TimerFiresInv, FinisherInv
<1>6. CASE UNCHANGED vars
  BY <1>6 DEF vars, ledger, world, IInv, RecordsInv, TableInv, StartersInv, HandlersInv,
              ExecutedInv, WorldInv
<1>. QED  BY <1>1, <1>2, <1>3, <1>4, <1>5, <1>6 DEF Next

\* In every reachable state the counter counts the votes built, a vote found
\* in _vm_shutdown_votes was registered, every starter builds a vote of its
\* own, and only a unanimous vote is on its way to being carried out.
THEOREM VotesInductive == Spec => []IInv
<1>1. Init => IInv
  BY InitInv
<1>2. IInv /\ [Next]_vars => IInv'
  BY NextInv
<1>. QED  BY <1>1, <1>2, PTL DEF Spec

\* The variables have their types, and nobody agrees without having voted or
\* votes without being asked (the checks of handle_vm_shutdown_vote).
THEOREM VotesType == Spec => []TypeOK
<1>1. IInv => TypeOK
  BY DEF IInv, RecordsInv, RecordOK, TableInv, StartersInv, HandlersInv, ExecutedInv, WorldInv,
         TypeOK
<1>. QED  BY <1>1, VotesInductive, PTL

\* A voted shutdown is carried out only with the consent of every voter, in
\* person or by silence until the timer fired; after one refusal, or an
\* accepted cancellation, it never is (_emit_vote_result, _complete_vote,
\* _execute_vote_action).
THEOREM Consent == Spec => []ExecutionHasConsent
<1>1. IInv => ExecutionHasConsent
  BY DEF IInv, RecordsInv, RecordOK, ExecutedInv, ExecutionHasConsent
<1>. QED  BY <1>1, VotesInductive, PTL

Final == \A v \in Vote : Completed(v) =>
            /\ vote'[v].voted = vote[v].voted /\ vote'[v].agreed = vote[v].agreed
            /\ vote'[v].cancelled = vote[v].cancelled
            /\ vote'[v].phase # "decided" \/ vote[v].phase = "decided"

\* The record of a vote is replaced by one with the same ballots and result.
LEMMA OnlyThisVote ==
  ASSUME IInv, NEW w \in Vote, NEW r, vote' = [vote EXCEPT ![w] = r],
         Completed(w) => /\ r.voted = vote[w].voted /\ r.agreed = vote[w].agreed
                         /\ r.cancelled = vote[w].cancelled /\ r.phase # "decided"
  PROVE  Final
BY DEF IInv, RecordsInv, Final

LEMMA StarterKeepsResults ==
  ASSUME IInv, NEW s \in Starter, StarterStep(s)
  PROVE  Final
<1>1. CASE BuildVote(s)
  <2>1. NextVote \in Vote /\ vote[NextVote].phase = "unused"
    BY <1>1, NextVoteValue DEF BuildVote, IInv, RecordsInv, Vote
  <2>. QED  BY <1>1, <2>1, OnlyThisVote DEF BuildVote, Completed
<1>2. CASE ReadNumber(s) \/ Register(s)
  <2>1. start[s].vote \in Vote /\ vote[start[s].vote].phase = "made"
    BY <1>2 DEF ReadNumber, Register, Building, IInv, StartersInv
  <2>2. ~Completed(start[s].vote)
    BY <2>1 DEF Completed
  <2>3. PICK r : vote' = [vote EXCEPT ![start[s].vote] = r]
    BY <1>2 DEF ReadNumber, Register
  <2>. QED  BY <2>1, <2>2, <2>3, OnlyThisVote
<1>3. CASE StartTimer(s) \/ Direct(s) \/ StartFails(s)
  BY <1>3 DEF StartTimer, Direct, StartFails, ledger, Final
<1>. QED  BY <1>1, <1>2, <1>3 DEF StarterStep

LEMMA HandlerKeepsResults ==
  ASSUME IInv, NEW h \in Handler, HandlerStep(h)
  PROVE  Final
<1>. DEFINE v == hand[h].vote
<1>1. v \in Vote
  BY DEF HandlerStep, Cast, Cancel, IInv, HandlersInv
<1>2. vote' = vote \/ (~Completed(v) /\ \E r : vote' = [vote EXCEPT ![v] = r])
  <2>1. CASE Cancel(h)
    BY <2>1 DEF Cancel, MayCancel, Decide, Open, Completed
  <2>2. CASE \E agree \in BOOLEAN : Cast(h, agree)
    BY <2>2 DEF Cast, Accepts, Decide, Open, Completed
  <2>. QED  BY <2>1, <2>2 DEF HandlerStep
<1>. QED  BY <1>1, <1>2, OnlyThisVote DEF Final

LEMMA TimerKeepsResults ==
  ASSUME IInv, NEW t \in Vote, TimerFires(t)
  PROVE  Final
<1>. DEFINE v == votes[vote[t].id]
<1>1. v \in Vote \cup {None}
  BY DEF IInv, RecordsInv, RecordOK, Record, TableInv
<1>2. vote' = vote \/ (v # None /\ ~Completed(v) /\ \E r : vote' = [vote EXCEPT ![v] = r])
  BY DEF TimerFires, Open, Completed
<1>. QED  BY <1>1, <1>2, OnlyThisVote DEF Final

LEMMA FinisherKeepsResults ==
  ASSUME IInv, NEW v \in Vote, FinisherStep(v)
  PROVE  Final
<1>1. PICK to \in {"executing", "settled", "swept"} : vote' = [vote EXCEPT ![v].phase = to]
  BY DEF FinisherStep, BeginExecute, Refuse, Execute, ExecuteFails, Sweep
<1>2. RecordOK(vote[v])
  BY DEF IInv, RecordsInv
<1>. DEFINE r == [vote[v] EXCEPT !.phase = to]
<1>3. r.phase = to /\ r.voted = vote[v].voted /\ r.agreed = vote[v].agreed
      /\ r.cancelled = vote[v].cancelled
  BY <1>2 DEF RecordOK, Record
<1>4. vote' = [vote EXCEPT ![v] = r]
  BY <1>1
<1>. HIDE DEF r
<1>. QED  BY <1>3, <1>4, OnlyThisVote

\* The result of a vote is final: no late ballot, second timer, late
\* cancellation or sweep changes it (the "completed" checks under
\* _vm_shutdown_lock).
THEOREM ResultsAreFinal == Spec => DecisionIsFinal
<1>1. IInv /\ [Next]_vars => [Final]_vars
  <2>. SUFFICES ASSUME IInv, Next
                PROVE  Final
    OBVIOUS
  <2>1. CASE Event \/ Environment
    <3>1. vote' = vote
      BY <2>1 DEF Event, Initiate, OpenBallot, AskCancel, Environment, Grow, ToggleAllowed,
                  ToggleOnline, Renew, ledger
    <3>. QED  BY <3>1 DEF Final
  <2>2. CASE \E s \in Starter : StarterStep(s)
    BY <2>2, StarterKeepsResults
  <2>3. CASE \E h \in Handler : HandlerStep(h)
    BY <2>3, HandlerKeepsResults
  <2>4. CASE \E v \in Vote : TimerFires(v) \/ FinisherStep(v)
    BY <2>4, TimerKeepsResults, FinisherKeepsResults
  <2>. QED  BY <2>1, <2>2, <2>3, <2>4 DEF Next
<1>. QED  BY <1>1, VotesInductive, PTL DEF Spec, DecisionIsFinal, Final

-----------------------------------------------------------------------------
(* One open vote on each key *)

\* Only starters' own records and the ledger of open votes matter here; the ledger
\* changes when a vote is opened and when it is decided.
OthersStay(v) ==
  \A w \in Vote \ {v} : /\ Open(w)' <=> Open(w)
                        /\ Open(w) => vote'[w].id = vote[w].id
                        /\ vote[w].phase # "unused" => vote'[w].key = vote[w].key
Quiet == UNCHANGED <<votes, pending>> /\ OthersStay(None)
Closes(v) ==
  /\ Open(v) /\ ~Open(v)' /\ OthersStay(v) /\ vote'[v].key = vote[v].key
  /\ UNCHANGED votes /\ pending' = [pending EXCEPT ![vote[v].key] = None]
Opens(v) ==
  /\ ~Open(v) /\ Open(v)' /\ OthersStay(v)
  /\ vote'[v].key = vote[v].key /\ vote'[v].id = vote[v].id
  /\ vote[v].key \in Key /\ vote[v].id \in 0..MaxVotes
  /\ pending[vote[v].key] = None
  /\ votes' = [votes EXCEPT ![vote[v].id] = v]
  /\ pending' = [pending EXCEPT ![vote[v].key] = vote[v].id]

\* A record is built for the key that its starter asked for; a key stays pending as
\* long as a vote on it is open; no vote has grown old.
KeysInv == \A s \in Starter : start[s].pc \in Building => vote[start[s].vote].key = start[s].key
PendingInv ==
  /\ KeysInv /\ old = {}
  /\ \A v \in Vote : Open(v) => vote[v].key \in Key /\ pending[vote[v].key] # None
  /\ OneOpenVotePerKey

LEMMA DecideCloses ==
  ASSUME IInv, NEW v \in Vote, NEW r, NEW agree \in BOOLEAN, NEW next \in {"decided", "settled"},
         Open(v), r \in Record, r.key = vote[v].key, Decide(v, r, agree, next), UNCHANGED votes
  PROVE  Closes(v)
<1>1. \A w \in Vote \ {v} : vote'[w] = vote[w]
  BY DEF Decide, IInv, RecordsInv
<1>2. vote'[v].phase = next /\ vote'[v].key = vote[v].key
  BY DEF Decide, IInv, RecordsInv, Record
<1>. QED  BY <1>1, <1>2 DEF Closes, OthersStay, Open, Decide, ReleaseKey

LEMMA HandlerLedger ==
  ASSUME IInv, NEW h \in Handler, HandlerStep(h)
  PROVE  Quiet \/ \E v \in Vote : Closes(v)
<1>. DEFINE v == hand[h].vote
<1>1. CASE Cancel(h)
  <2>1. v \in Vote /\ vote[v] \in Record
    BY <1>1 DEF Cancel, IInv, HandlersInv, RecordsInv, RecordOK
  <2>2. CASE MayCancel(v)
    BY <1>1, <2>1, <2>2, DecideCloses DEF Cancel, MayCancel
  <2>3. CASE ~MayCancel(v)
    BY <1>1, <2>3 DEF Cancel, Quiet, OthersStay, Open
  <2>. QED  BY <2>2, <2>3
<1>2. ASSUME NEW agree \in BOOLEAN, Cast(h, agree) PROVE Quiet \/ (Closes(v) /\ v \in Vote)
  <2>. DEFINE u == hand[h].user
              r == [vote[v] EXCEPT !.voted = vote[v].voted \cup {u},
                                   !.agreed = IF agree THEN vote[v].agreed \cup {u}
                                                       ELSE vote[v].agreed]
  <2>1. v \in Vote /\ vote[v] \in Record /\ u \in vote[v].voters
    BY <1>2 DEF Cast, IInv, HandlersInv, RecordsInv, RecordOK
  <2>2. r \in Record /\ r.phase = vote[v].phase /\ r.key = vote[v].key /\ r.id = vote[v].id
    BY <2>1 DEF Record
  <2>3. UNCHANGED votes
    BY <1>2 DEF Cast
  <2>4. CASE Accepts(u, v) /\ r.voters \subseteq r.voted
    <3>1. Open(v) /\ Decide(v, r, Unanimous(r), "decided") /\ Unanimous(r) \in BOOLEAN
      BY <1>2, <2>4 DEF Cast, Accepts, Unanimous
    <3>. HIDE DEF r
    <3>. QED  BY <2>1, <2>2, <2>3, <3>1, DecideCloses
  <2>5. CASE Accepts(u, v) /\ ~(r.voters \subseteq r.voted)
    <3>1. vote' = [vote EXCEPT ![v] = r] /\ UNCHANGED pending
      BY <1>2, <2>5 DEF Cast
    <3>. HIDE DEF r, v
    <3>2. vote'[v] = r /\ \A w \in Vote \ {v} : vote'[w] = vote[w]
      BY <2>1, <3>1 DEF IInv, RecordsInv
    <3>. QED  BY <2>1, <2>2, <2>3, <3>1, <3>2 DEF Quiet, OthersStay, Open
  <2>6. CASE ~Accepts(u, v)
    <3>1. vote' = vote /\ pending' = pending
      BY <1>2, <2>6 DEF Cast
    <3>. HIDE DEF r, u, v
    <3>. QED  BY <2>3, <3>1 DEF Quiet, OthersStay, Open
  <2>. HIDE DEF r, u, v
  <2>. QED  BY <2>1, <2>4, <2>5, <2>6
<1>. HIDE DEF v
<1>. QED  BY <1>1, <1>2 DEF HandlerStep

LEMMA TimerLedger ==
  ASSUME IInv, NEW t \in Vote, TimerFires(t)
  PROVE  Quiet \/ \E v \in Vote : Closes(v)
<1>. DEFINE v == votes[vote[t].id]
            q == [SilenceAgrees(vote[v]) EXCEPT !.phase = "decided",
                                  !.cancelled = ~Unanimous(SilenceAgrees(vote[v]))]
<1>1. v \in Vote \cup {None} /\ UNCHANGED votes
  BY DEF IInv, RecordsInv, RecordOK, Record, TableInv, TimerFires
<1>2. CASE v # None /\ Open(v)
  <2>1. v \in Vote /\ vote[v] \in Record
    BY <1>1, <1>2 DEF IInv, RecordsInv, RecordOK
  <2>2. q.phase = "decided" /\ q.key = vote[v].key
    BY <2>1 DEF Record, SilenceAgrees
  <2>3. vote' = [vote EXCEPT ![v] = q] /\ ReleaseKey(v)
    BY <1>2 DEF TimerFires
  <2>. HIDE DEF q
  <2>4. vote'[v] = q /\ \A w \in Vote \ {v} : vote'[w] = vote[w]
    BY <2>1, <2>3 DEF IInv, RecordsInv
  <2>. QED  BY <1>1, <1>2, <2>1, <2>2, <2>3, <2>4 DEF Closes, OthersStay, Open, ReleaseKey
<1>3. CASE ~(v # None /\ Open(v))
  BY <1>1, <1>3 DEF TimerFires, Quiet, OthersStay, Open
<1>. QED  BY <1>2, <1>3

\* Nothing is stale as long as no vote is old.
LEMMA FinisherLedger ==
  ASSUME IInv, old = {}, NEW v \in Vote, FinisherStep(v)
  PROVE  Quiet
<1>1. /\ vote[v].phase # "open" /\ \A w \in Vote \ {v} : vote'[w] = vote[w]
      /\ vote'[v].phase # "open" /\ vote'[v].key = vote[v].key
  BY DEF FinisherStep, BeginExecute, Refuse, Execute, ExecuteFails, Sweep, IInv, RecordsInv,
         RecordOK, Record
<1>2. UNCHANGED <<votes, pending>>
  <2>1. Stale = {}
    BY DEF Stale
  <2>. QED  BY <2>1 DEF FinisherStep, BeginExecute, Refuse, Execute, ExecuteFails, Sweep, IInv,
                        TableInv
<1>. QED  BY <1>1, <1>2 DEF Quiet, OthersStay, Open

LEMMA StarterLedger ==
  ASSUME IInv, KeysInv, NEW s \in Starter, StarterStep(s)
  PROVE  Quiet \/ \E v \in Vote : Opens(v)
<1>. DEFINE v == start[s].vote
            k == start[s].key
<1>1. CASE BuildVote(s)
  <2>1. NextVote \in Vote /\ vote[NextVote].phase = "unused"
    BY <1>1, NextVoteValue DEF BuildVote, IInv, RecordsInv, Vote
  <2>2. /\ UNCHANGED <<votes, pending>> /\ vote'[NextVote].phase = "made"
        /\ \A w \in Vote \ {NextVote} : vote'[w] = vote[w]
    BY <1>1, <2>1 DEF BuildVote, IInv, RecordsInv, Blank
  <2>. QED  BY <2>1, <2>2 DEF Quiet, OthersStay, Open
<1>2. CASE ReadNumber(s)
  <2>1. v \in Vote /\ vote[v].phase = "made" /\ vote[v] \in Record
    BY <1>2 DEF ReadNumber, IInv, StartersInv, Building, RecordsInv, RecordOK
  <2>2. /\ UNCHANGED <<votes, pending>> /\ vote'[v].phase = "made" /\ vote'[v].key = vote[v].key
        /\ \A w \in Vote \ {v} : vote'[w] = vote[w]
    BY <1>2, <2>1 DEF ReadNumber, IInv, RecordsInv, Record
  <2>. QED  BY <2>1, <2>2 DEF Quiet, OthersStay, Open
<1>3. CASE Register(s)
  <2>1. /\ v \in Vote /\ vote[v].phase = "made" /\ vote[v] \in Record /\ vote[v].id <= MaxVotes
        /\ k \in Key /\ vote[v].key = k
    BY <1>3 DEF Register, IInv, StartersInv, Building, RecordsInv, RecordOK, KeysInv
  <2>2. CASE KeyFree(k)
    <3>1. /\ votes' = [votes EXCEPT ![vote[v].id] = v]
          /\ pending' = [pending EXCEPT ![k] = vote[v].id]
          /\ vote' = [vote EXCEPT ![v].phase = "open"]
      BY <1>3, <2>2 DEF Register
    <3>2. /\ vote'[v].phase = "open" /\ vote'[v].key = k /\ vote'[v].id = vote[v].id
          /\ \A w \in Vote \ {v} : vote'[w] = vote[w]
      BY <2>1, <3>1 DEF IInv, RecordsInv, Record
    <3>3. vote[v].id \in 0..MaxVotes
      BY <2>1, VotesAssumption DEF Record
    <3>. QED  BY <2>1, <2>2, <3>1, <3>2, <3>3 DEF Opens, OthersStay, Open, KeyFree
  <2>3. CASE ~KeyFree(k)
    <3>1. /\ UNCHANGED <<votes, pending>> /\ vote'[v].phase = "swept" /\ vote'[v].key = k
          /\ \A w \in Vote \ {v} : vote'[w] = vote[w]
      BY <1>3, <2>1, <2>3 DEF Register, IInv, RecordsInv, Record
    <3>. QED  BY <2>1, <3>1 DEF Quiet, OthersStay, Open
  <2>. QED  BY <2>2, <2>3
<1>4. CASE StartTimer(s) \/ Direct(s) \/ StartFails(s)
  BY <1>4 DEF StartTimer, Direct, StartFails, ledger, Quiet, OthersStay, Open
<1>. QED  BY <1>1, <1>2, <1>3, <1>4 DEF StarterStep

LEMMA LedgerChanges ==
  ASSUME IInv, KeysInv, old = {}, [Next]_vars
  PROVE  Quiet \/ \E v \in Vote : Closes(v) \/ Opens(v)
<1>1. CASE Event \/ Environment \/ UNCHANGED vars
  BY <1>1 DEF Event, Initiate, OpenBallot, AskCancel, Environment, Grow, ToggleAllowed,
              ToggleOnline, Renew, vars, ledger, Quiet, OthersStay, Open
<1>2. CASE \E s \in Starter : StarterStep(s)
  BY <1>2, StarterLedger
<1>3. CASE \E h \in Handler : HandlerStep(h)
  BY <1>3, HandlerLedger
<1>4. CASE \E v \in Vote : TimerFires(v) \/ FinisherStep(v)
  BY <1>4, TimerLedger, FinisherLedger
<1>. QED  BY <1>1, <1>2, <1>3, <1>4 DEF Next

\* Whoever builds a vote has just begun to, or goes on with the same one.
LEMMA StartersGoOn ==
  ASSUME IInv, [Next]_vars, NEW s \in Starter, start'[s].pc \in Building
  PROVE  \/ start'[s].vote = start[s].vote /\ start'[s].key = start[s].key
            /\ start[s].pc \in Building
         \/ /\ vote'[start'[s].vote].key = start'[s].key
            /\ BuildVote(s)
<1>1. CASE Event
  BY <1>1 DEF Event, Initiate, OpenBallot, AskCancel, Building, IInv, StartersInv
<1>2. CASE Environment \/ UNCHANGED vars
  BY <1>2 DEF Environment, Grow, ToggleAllowed, ToggleOnline, Renew, vars
<1>3. CASE \E h \in Handler : HandlerStep(h)
  BY <1>3 DEF HandlerStep, Cancel, Cast
<1>4. CASE \E v \in Vote : TimerFires(v) \/ FinisherStep(v)
  BY <1>4 DEF TimerFires, FinisherStep, BeginExecute, Refuse, Execute, ExecuteFails, Sweep
<1>5. ASSUME NEW t \in Starter, StarterStep(t), t # s
      PROVE  start'[s] = start[s]
  BY <1>5 DEF StarterStep, BuildVote, ReadNumber, Register, StartTimer, Direct, StartFails,
              IInv, StartersInv
<1>6. CASE BuildVote(s)
  <2>1. NextVote \in Vote
    BY <1>6, NextVoteValue DEF BuildVote
  <2>. QED  BY <1>6, <2>1 DEF BuildVote, IInv, StartersInv, RecordsInv, Blank, Start
<1>7. CASE ReadNumber(s) \/ Register(s)
  BY <1>7 DEF ReadNumber, Register, Building, IInv, StartersInv, NotStarting, Start
<1>8. CASE StartTimer(s) \/ Direct(s) \/ StartFails(s)
  BY <1>8 DEF StartTimer, Direct, StartFails, Building, IInv, StartersInv, NotStarting
<1>. QED  BY <1>1, <1>2, <1>3, <1>4, <1>5, <1>6, <1>7, <1>8 DEF Next, StarterStep

LEMMA NothingGrowsOld ==
  ASSUME MaxOld = 0, old = {}, [Next]_vars
  PROVE  old' = {}
<1>1. CASE Environment
  <2>1. ASSUME NEW v \in Vote, Grow(v) PROVE FALSE
    BY <2>1 DEF Grow, Vote
  <2>. QED  BY <1>1, <2>1 DEF Environment, ToggleAllowed, ToggleOnline, Renew
<1>2. CASE Event \/ UNCHANGED vars
  BY <1>2 DEF Event, Initiate, OpenBallot, AskCancel, vars
<1>3. CASE \E s \in Starter : StarterStep(s)
  BY <1>3 DEF StarterStep, BuildVote, ReadNumber, Register, StartTimer, Direct, StartFails
<1>4. CASE \E h \in Handler : HandlerStep(h)
  BY <1>4 DEF HandlerStep, Cancel, Cast
<1>5. CASE \E v \in Vote : TimerFires(v) \/ FinisherStep(v)
  BY <1>5 DEF TimerFires, FinisherStep, BeginExecute, Refuse, Execute, ExecuteFails, Sweep
<1>. QED  BY <1>1, <1>2, <1>3, <1>4, <1>5 DEF Next

LEMMA PendingKept ==
  ASSUME MaxOld = 0, IInv, PendingInv, [Next]_vars
  PROVE  PendingInv' /\ (Quiet \/ \E v \in Vote : Closes(v) \/ Opens(v))
<1>1. None \notin Vote
  BY VotesAssumption DEF Vote
<1>2. pending \in [Key -> Nat \cup {None}]
  BY DEF IInv, TableInv
<1>3. old' = {} /\ (Quiet \/ \E v \in Vote : Closes(v) \/ Opens(v))
  BY NothingGrowsOld, LedgerChanges DEF PendingInv
<1>4. KeysInv'
  <2>1. \A v \in Vote : vote[v].phase # "unused" => vote'[v].key = vote[v].key
    BY <1>1, <1>3 DEF Quiet, Closes, Opens, OthersStay
  <2>2. \A s \in Starter : start[s].pc \in Building =>
          start[s].vote \in Vote /\ vote[start[s].vote].phase # "unused"
    BY DEF IInv, StartersInv
  <2>. QED  BY <2>1, <2>2, StartersGoOn DEF PendingInv, KeysInv
<1>5. CASE Quiet
  <2>1. \A w \in Vote : Open(w)' => Open(w) /\ vote'[w].key = vote[w].key
    BY <1>1, <1>5 DEF Quiet, OthersStay, Open
  <2>. QED  BY <1>3, <1>4, <1>5, <2>1 DEF Quiet, PendingInv, OneOpenVotePerKey
<1>6. ASSUME NEW v \in Vote, Closes(v) PROVE PendingInv'
  <2>1. \A w \in Vote : Open(w)' => w # v /\ Open(w) /\ vote'[w].key = vote[w].key
    BY <1>6 DEF Closes, OthersStay, Open
  <2>2. \A w \in Vote : Open(w)' => vote[w].key # vote[v].key
    BY <1>6, <2>1 DEF Closes, PendingInv, OneOpenVotePerKey
  <2>3. \A w \in Vote : Open(w)' => vote'[w].key \in Key /\ pending'[vote'[w].key] # None
    BY <1>2, <1>6, <2>1, <2>2 DEF Closes, PendingInv
  <2>4. OneOpenVotePerKey'
    BY <2>1 DEF PendingInv, OneOpenVotePerKey
  <2>. QED  BY <1>3, <1>4, <2>3, <2>4 DEF PendingInv
<1>7. ASSUME NEW v \in Vote, Opens(v) PROVE PendingInv'
  <2>1. \A w \in Vote \ {v} : Open(w)' => Open(w) /\ vote'[w].key = vote[w].key
    BY <1>7 DEF Opens, OthersStay, Open
  <2>2. \A w \in Vote \ {v} : Open(w)' => vote[w].key # vote[v].key
    BY <1>7, <2>1 DEF Opens, PendingInv
  <2>3. vote[v].id # None
    BY <1>7, VotesAssumption DEF Opens
  <2>4. \A w \in Vote : Open(w)' => vote'[w].key \in Key /\ pending'[vote'[w].key] # None
    BY <1>2, <1>7, <2>1, <2>2, <2>3 DEF Opens, PendingInv
  <2>5. OneOpenVotePerKey'
    BY <1>7, <2>1, <2>2 DEF Opens, PendingInv, OneOpenVotePerKey
  <2>. QED  BY <1>3, <1>4, <2>4, <2>5 DEF PendingInv
<1>. QED  BY <1>3, <1>5, <1>6, <1>7

LEMMA PendingInit == Init => PendingInv
BY DEF Init, PendingInv, KeysInv, Building, NotStarting, OneOpenVotePerKey, Open, Blank

\* Where no vote outlives the 300 s of _cleanup_stale_votes, a shutdown is voted on
\* by one vote at a time, for any number of targets and starters.
THEOREM OneVoteAtATime ==
  ASSUME MaxOld = 0
  PROVE  Spec => []OneOpenVotePerKey
<1>1. IInv /\ PendingInv /\ [Next]_vars => PendingInv'
  BY PendingKept
<1>2. PendingInv => OneOpenVotePerKey
  BY DEF PendingInv
<1>. QED  BY <1>1, <1>2, PendingInit, VotesInductive, PTL DEF Spec

\* With one target besides, its number leads to the open vote, although two starters
\* may have read the same number (_gen_vote_id).
NumberInv ==
  /\ \A v \in Vote : Open(v) => pending[vote[v].key] = vote[v].id /\ votes[vote[v].id] = v
  /\ \A k \in Key : pending[k] # None => \E v \in Vote : Open(v) /\ vote[v].key = k

\* The pending keys are those of the open votes: no request to shut the target down is
\* refused for a vote that nobody can decide any more.
THEOREM KeysMatch ==
  ASSUME MaxOld = 0, \A j, k \in Key : j = k
  PROVE  Spec => []KeysMatchVotes
<1>1. Init => NumberInv
  BY DEF Init, NumberInv, Open, Blank
<1>2. ASSUME IInv, PendingInv, NumberInv, [Next]_vars PROVE NumberInv'
  <2>1. PendingInv' /\ (Quiet \/ \E v \in Vote : Closes(v) \/ Opens(v))
    BY <1>2, PendingKept
  <2>2. pending \in [Key -> Nat \cup {None}] /\ votes \in [0..MaxVotes -> Vote \cup {None}]
        /\ None \notin Vote
    BY <1>2, VotesAssumption DEF IInv, TableInv, Vote
  <2>3. CASE Quiet
    <3>1. \A v \in Vote : /\ Open(v)' <=> Open(v)
                          /\ Open(v) => vote'[v].key = vote[v].key /\ vote'[v].id = vote[v].id
      BY <2>2, <2>3 DEF Quiet, OthersStay, Open
    <3>. QED  BY <1>2, <2>3, <3>1 DEF Quiet, NumberInv
  <2>4. ASSUME NEW v \in Vote, Closes(v) PROVE NumberInv'
    <3>1. \A k \in Key : pending'[k] = None
      BY <1>2, <2>2, <2>4 DEF Closes, PendingInv
    <3>2. \A w \in Vote : ~Open(w)'
      BY <2>1, <3>1 DEF PendingInv
    <3>. QED  BY <3>1, <3>2 DEF NumberInv
  <2>5. ASSUME NEW v \in Vote, Opens(v) PROVE NumberInv'
    <3>1. votes'[vote[v].id] = v /\ \A k \in Key : pending'[k] = vote[v].id /\ k = vote[v].key
      BY <2>2, <2>5 DEF Opens
    <3>2. \A w \in Vote : Open(w)' => w = v
      BY <2>1, <2>5, <3>1 DEF PendingInv, OneOpenVotePerKey, Opens
    <3>. QED  BY <2>5, <3>1, <3>2 DEF Opens, NumberInv
  <2>. QED  BY <2>1, <2>3, <2>4, <2>5
<1>3. IInv /\ PendingInv /\ [Next]_vars => PendingInv'
  BY PendingKept
<1>4. PendingInv /\ NumberInv => KeysMatchVotes
  <2>. SUFFICES ASSUME PendingInv, NumberInv, NEW k \in Key, pending[k] # None
                PROVE  LET v == votes[pending[k]] IN v # None /\ Open(v) /\ vote[v].key = k
    BY DEF PendingInv, KeysMatchVotes, NoOrphanKey
  <2>1. PICK v \in Vote : Open(v) /\ vote[v].key = k
    BY DEF NumberInv
  <2>. QED  BY <2>1, VotesAssumption DEF NumberInv, Vote
<1>5. IInv /\ PendingInv /\ NumberInv /\ [Next]_vars => NumberInv'
  BY <1>2
<1>. QED  BY <1>1, <1>3, <1>4, <1>5, PendingInit, VotesInductive, PTL DEF Spec

=============================================================================
