----------------------------- MODULE StatusCache -----------------------------
(***************************************************************************)
(* The cached power states of modules/status_cache.py.  Every five minutes *)
(* one thread asks the hypervisors for every machine in the clusters table *)
(* and replaces the cache; routes and votes of app.py that start or stop a *)
(* machine write what they expect of it in between.  Users are shown what  *)
(* the cache says.                                                         *)
(***************************************************************************)
EXTENDS Integers, FiniteSets

CONSTANTS
  Machine,     \* keys of the cache: a node and a VM id
  Server,      \* rows of pve_servers
  Home,        \* the server of each machine
  Commander,   \* threads that start and stop machines
  MaxChange,   \* bound on what others do to machines, servers and rows
  MaxCommand,  \* bound on the commands
  None

ASSUME CacheAssumption ==
  /\ Home \in [Machine -> Server]
  /\ MaxChange \in Nat /\ MaxCommand \in Nat
  /\ None \notin Machine \cup {"running", "stopped", "absent"}

VARIABLES
  rows,      \* the machines of the clusters table
  known,     \* servers whose settings are there
  reached,   \* servers that answer
  power,     \* what the hypervisors would say of each machine
  pending,   \* the task a hypervisor has accepted for a machine
  cache,     \* _vm_cache
  refresh,   \* locals of _refresh_cache
  cmd,       \* locals of the commanders
  budget,    \* what is left of the bounds
  since,     \* history: what a machine was, or was said to become, since the
             \* refresh in the cache began
  sinceLoad  \* the same since the refresh under way began

world == <<rows, known, reached>>
ages  == <<since, sinceLoad>>
vars  == <<world, power, pending, cache, refresh, cmd, budget, ages>>

Status == {"running", "stopped"}
Power  == Status \cup {"absent"}
Task   == {"start", "shutdown"}  \* a forced stop is a shutdown that no guest ignores
Nothing == [m \in Machine |-> {}]
Unknown == [m \in Machine |-> None]

NoRefresh == [at |-> "asleep", todo |-> {}, new |-> Unknown]
NoCommand == [at |-> "idle", vm |-> None, task |-> None, heard |-> None]

TypeOK ==
  /\ rows \subseteq Machine /\ known \subseteq Server /\ reached \subseteq Server
  /\ power \in [Machine -> Power] /\ pending \in [Machine -> Task \cup {None}]
  /\ cache \in [Machine -> Status \cup {None}]
  /\ refresh \in [at : {"asleep", "loaded", "querying"}, todo : SUBSET Machine,
                  new : [Machine -> Status \cup {None}]]
  /\ cmd \in [Commander -> [at : {"idle", "asked", "posting", "telling"},
                            vm : Machine \cup {None}, task : Task \cup {None},
                            heard : Status \cup {None}]]
  /\ budget \in [change : 0..MaxChange, command : 0..MaxCommand]
  /\ since \in [Machine -> SUBSET Power] /\ sinceLoad \in [Machine -> SUBSET Power]

Init ==
  /\ rows = Machine /\ known = Server /\ reached = Server
  /\ power \in [Machine -> Status] /\ pending = [m \in Machine |-> None]
  /\ cache = Unknown
  /\ refresh = NoRefresh
  /\ cmd = [c \in Commander |-> NoCommand]
  /\ budget = [change |-> MaxChange, command |-> MaxCommand]
  /\ since = [m \in Machine |-> {power[m]}] /\ sinceLoad = Nothing

Noted(h, m, p) == [h EXCEPT ![m] = @ \cup {p}]
Note(m, p) ==
  /\ since' = Noted(since, m, p)
  /\ sinceLoad' = IF refresh.at = "asleep" THEN sinceLoad ELSE Noted(sinceLoad, m, p)

Answers(m) == Home[m] \in known \cap reached
Query(m)   == IF Answers(m) /\ power[m] # "absent" THEN power[m] ELSE None

-----------------------------------------------------------------------------
(* _refresh_cache *)

\* Without a machine there is nothing to do and the cache is left alone.
LoadClusters ==
  /\ refresh.at = "asleep" /\ rows # {}
  /\ refresh' = [at |-> "loaded", todo |-> rows, new |-> Unknown]
  /\ sinceLoad' = [m \in Machine |-> {power[m]}]
  /\ UNCHANGED <<world, power, pending, cache, cmd, budget, since>>

Servers(ms) == {Home[m] : m \in ms}

\* One server that is not configured or cannot be reached ends the refresh for
\* the machines of all.
BuildClients ==
  /\ refresh.at = "loaded"
  /\ IF Servers(refresh.todo) \subseteq known \cap reached
     THEN refresh' = [refresh EXCEPT !.at = "querying"] /\ UNCHANGED sinceLoad
     ELSE refresh' = NoRefresh /\ sinceLoad' = Nothing
  /\ UNCHANGED <<world, power, pending, cache, cmd, budget, since>>

\* _query_single_vm, one of ten threads; a machine whose query fails is left out.
QuerySingleVm(m) ==
  /\ refresh.at = "querying" /\ m \in refresh.todo
  /\ refresh' = [refresh EXCEPT !.todo = @ \ {m}, !.new[m] = Query(m)]
  /\ UNCHANGED <<world, power, pending, cache, cmd, budget, ages>>

MergedCache(new) ==  \* fault: no clear before the update
  [m \in Machine |-> IF new[m] = None THEN cache[m] ELSE new[m]]
NewCache(new) == new

ReplaceCache ==
  /\ refresh.at = "querying" /\ refresh.todo = {}
  /\ cache' = NewCache(refresh.new)
  /\ refresh' = NoRefresh
  /\ since' = sinceLoad /\ sinceLoad' = Nothing
  /\ UNCHANGED <<world, power, pending, cmd, budget>>

RefreshStep ==
  LoadClusters \/ BuildClients \/ ReplaceCache \/ \E m \in Machine : QuerySingleVm(m)

-----------------------------------------------------------------------------
(* Commands: start_vm or stop_vm, then update_vm_status *)

Ask(c, m, task) ==
  /\ cmd[c].at = "idle" /\ m \in rows /\ budget.command > 0
  /\ cmd' = [cmd EXCEPT ![c] = [NoCommand EXCEPT !.at = "asked", !.vm = m, !.task = task]]
  /\ budget' = [budget EXCEPT !.command = @ - 1]
  /\ UNCHANGED <<world, power, pending, cache, refresh, ages>>

Goal(task) == IF task = "start" THEN "running" ELSE "stopped"

\* Nobody is told of a command that raised.
FailedTold(r) == [r EXCEPT !.at = "telling"]  \* fault: the cache is written all the same
Failed(r) == NoCommand

\* The machine is read first; nothing is asked of one that is as desired.
ReadStatus(c) ==
  LET r == cmd[c] IN
  /\ r.at = "asked"
  /\ cmd' = [cmd EXCEPT ![c] = CASE Query(r.vm) = None -> Failed(r)
                                 [] Query(r.vm) = Goal(r.task) ->
                                      [r EXCEPT !.at = "telling", !.heard = Goal(r.task)]
                                 [] OTHER -> [r EXCEPT !.at = "posting"]]
  /\ UNCHANGED <<world, power, pending, cache, refresh, budget, ages>>

\* The hypervisor answers when it has accepted the task, not when it has done
\* it; of two tasks for one machine either may be refused.
Post(c) ==
  LET r == cmd[c] IN
  /\ r.at = "posting"
  /\ IF Query(r.vm) = None
     THEN cmd' = [cmd EXCEPT ![c] = Failed(r)] /\ UNCHANGED pending
     ELSE /\ cmd' = [cmd EXCEPT ![c].at = "telling", ![c].heard = Goal(r.task)]
          /\ \E p \in {r.task, pending[r.vm]} \ {None} : pending' = [pending EXCEPT ![r.vm] = p]
  /\ UNCHANGED <<world, power, cache, refresh, budget, ages>>

UpdateVmStatus(c) ==
  LET r == cmd[c] IN
  /\ r.at = "telling"
  /\ cache' = [cache EXCEPT ![r.vm] = Goal(r.task)]
  /\ cmd' = [cmd EXCEPT ![c] = NoCommand]
  /\ IF r.heard # None THEN Note(r.vm, r.heard) ELSE UNCHANGED ages
  /\ UNCHANGED <<world, power, pending, refresh, budget>>

CommandStep(c) == ReadStatus(c) \/ Post(c) \/ UpdateVmStatus(c)

-----------------------------------------------------------------------------
(* The hypervisors and everybody else *)

Becomes(m, p) == power' = [power EXCEPT ![m] = p] /\ Note(m, p)

\* A guest may ignore a shutdown.
EndTask(m) ==
  /\ pending[m] # None
  /\ pending' = [pending EXCEPT ![m] = None]
  /\ \/ power[m] # "absent" /\ Becomes(m, Goal(pending[m]))
     \/ (power[m] = "absent" \/ pending[m] = "shutdown") /\ UNCHANGED <<power, ages>>
  /\ UNCHANGED <<world, cache, refresh, cmd, budget>>

Change == budget.change > 0 /\ budget' = [budget EXCEPT !.change = @ - 1]

\* Machines are made, removed, started and stopped by other code and by hand.
ChangePower(m, p) ==
  /\ Change /\ p # power[m] /\ Becomes(m, p)
  /\ UNCHANGED <<world, pending, cache, refresh, cmd>>

\* A creation saves its machines; a deletion takes its row away.
ChangeRows(m) ==
  /\ Change /\ rows' = IF m \in rows THEN rows \ {m} ELSE rows \cup {m}
  /\ UNCHANGED <<known, reached, power, pending, cache, refresh, cmd, ages>>

ChangeServer(s) ==
  /\ Change
  /\ \/ known' = (IF s \in known THEN known \ {s} ELSE known \cup {s}) /\ UNCHANGED reached
     \/ reached' = (IF s \in reached THEN reached \ {s} ELSE reached \cup {s}) /\ UNCHANGED known
  /\ UNCHANGED <<rows, power, pending, cache, refresh, cmd, ages>>

Next ==
  \/ RefreshStep
  \/ \E c \in Commander : CommandStep(c) \/ \E m \in Machine, t \in Task : Ask(c, m, t)
  \/ \E m \in Machine : EndTask(m) \/ ChangeRows(m) \/ \E p \in Power : ChangePower(m, p)
  \/ \E s \in Server : ChangeServer(s)

\* _cache_worker loops for ever, its queries and a command's calls have
\* timeouts, and the hypervisor ends what it accepted.
Fairness ==
  /\ WF_vars(RefreshStep)
  /\ \A c \in Commander : WF_vars(CommandStep(c))
  /\ \A m \in Machine : WF_vars(EndTask(m))

Spec == Init /\ [][Next]_vars /\ Fairness

-----------------------------------------------------------------------------
(* Properties *)

\* What a user is shown was true, or was accepted by the hypervisor as about to
\* become true, at some moment since the refresh in the cache began to read:
\* neither a failed query, a failed command nor a machine that left the table
\* leaves an older status behind.
StalenessIsBounded == \A m \in Machine : cache[m] # None => cache[m] \in since[m]

\* Every machine of the table can be asked for.
Healthy == rows # {} /\ Servers(rows) \subseteq known \cap reached
Agrees == \A m \in Machine :
  cache[m] = IF m \in rows /\ power[m] # "absent" THEN power[m] ELSE None

\* Whatever was overtaken or lost on the way, once the servers answer and
\* nobody changes anything any more (the bounds see to that), the cache comes
\* to agree with the hypervisors and stays so.  It needs a machine in the table:
\* without one a refresh leaves the old entries.
CacheConverges == <>[]Healthy => <>[]Agrees
===============================================================================
