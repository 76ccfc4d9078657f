---------------------------- MODULE AgentIdentity ----------------------------
(***************************************************************************)
(* The agent's process with its identity: registration, the state file,    *)
(* the token all its requests carry, heartbeats, crashes and restarts, the *)
(* rows of the registry and the administrators who approve, disable,       *)
(* reject and delete them.  The goroutines are those of AgentWorkers.      *)
(*                                                                         *)
(* A token is the number of its row.  The state file is written beside and *)
(* renamed, so it holds an old identity or a new one.  SetToken races with *)
(* the other goroutines' reads, which get the old token or the new.        *)
(***************************************************************************)
EXTENDS AgentWorkers

CONSTANTS
  MaxIds,   \* bound: registrations
  Worlds    \* bounds, of which one is chosen at the start: the tasks there
            \* are, what administrators do, mishaps and restarts

Ids == 1..MaxIds

ASSUME IdentityAssumption ==
  /\ MaxIds \in Nat
  /\ Worlds \subseteq [jobs : SUBSET Job, admin : Nat, mishaps : Nat, starts : Nat]

VARIABLES
  row,      \* row[i]: the status of agent i
  patch,    \* PATCH requests between load and commit
  disk,     \* the state file: an identity, or 0
  token,    \* the client's token, 0 before the first
  step,     \* where registration or the heartbeat loop stands
  fresh,    \* the identity just answered and not yet saved
  booted,   \* the loops have been started
  asked,    \* the token of the poll that is out
  owner,    \* history: the identity each task was handed to
  mishaps,  \* history: lost answers, crashes, failed saves and loads
  left      \* what is left of the world's bounds

workVars  == vars
selfVars  == <<disk, token, step, fresh, booted, asked, owner>>
adminVars == <<row, patch>>
processVars == <<workVars, selfVars, adminVars, mishaps, left>>

Exists(i) == row[i] \notin {"unborn", "deleted"}
Born      == Cardinality({i \in Ids : row[i] # "unborn"})

ProcessInit ==
  /\ Init
  /\ row = [i \in Ids |-> "unborn"]
  /\ patch = {}
  /\ disk = 0
  /\ token = 0
  /\ step = "registering"
  /\ fresh = 0
  /\ booted = FALSE
  /\ asked = 0
  /\ owner = [j \in Job |-> 0]
  /\ mishaps = 0
  /\ left \in Worlds

Mishap ==
  /\ left.mishaps > 0
  /\ left' = [left EXCEPT !.mishaps = @ - 1]
  /\ mishaps' = mishaps + 1

-----------------------------------------------------------------------------
(* Registration and heartbeats.                                            *)

\* The server commits a pending row; its answer may be lost, and the agent
\* asks again.
Register(answered) ==
  /\ Up /\ step = "registering"
  /\ Born < MaxIds
  /\ row' = [row EXCEPT ![Born + 1] = "pending"]
  /\ \/ /\ answered /\ ~ cancelled
        /\ step' = "saving"
        /\ fresh' = Born + 1
        /\ UNCHANGED <<mishaps, left>>
     \/ /\ ~ answered
        /\ Mishap
        /\ UNCHANGED <<step, fresh>>
  /\ UNCHANGED <<workVars, patch, disk, token, booted, asked, owner>>

\* mutant: the token is set and not saved
SetTokenOnly ==
  /\ Up /\ step = "saving"
  /\ token' = fresh
  /\ fresh' = 0
  /\ step' = "steady"
  /\ booted' = TRUE
  /\ UNCHANGED <<workVars, adminVars, disk, asked, owner, mishaps, left>>

\* store.Save, then SetToken.
Save ==
  /\ Up /\ step = "saving"
  /\ disk' = fresh
  /\ token' = fresh
  /\ fresh' = 0
  /\ step' = "steady"
  /\ booted' = TRUE
  /\ UNCHANGED <<workVars, adminVars, asked, owner, mishaps, left>>

\* The heartbeat loop, or run() before it, returns.
GiveUp ==
  /\ step' = "ended"
  /\ fresh' = 0
  /\ IF booted THEN loops' = loops \ {"heartbeat"} /\ UNCHANGED main
               ELSE main' = "exited" /\ UNCHANGED loops
  /\ UNCHANGED <<poll, slots, gates, job, holds, cancelled>>
  /\ UNCHANGED <<adminVars, disk, token, booted, asked, owner>>

SaveFails ==
  /\ Up /\ step = "saving"
  /\ Mishap
  /\ GiveUp

Cancelled ==
  /\ Up /\ cancelled
  /\ step \in {"registering", "steady"}
  /\ GiveUp
  /\ UNCHANGED <<mishaps, left>>

\* mutant: every refusal is taken for a lost identity
Refused(i) == row[i] \in {"deleted", "rejected"}

\* mutant: a 401 is an error like any other
NeverRefused(i) == FALSE

\* 401; a rejected agent gets 403, which is only an error.
Unauthorized(i) == row[i] = "deleted"

\* beat clears the file, whose removal may fail unnoticed, and registers.
Beat ==
  /\ Up /\ step = "steady" /\ ~ cancelled
  /\ Unauthorized(token)
  /\ step' = "registering"
  /\ disk' \in {0, disk}
  /\ UNCHANGED <<workVars, adminVars, token, fresh, booted, asked, owner, mishaps, left>>

Killed == [j \in Job |-> IF job[j] \in Busy THEN "killed" ELSE job[j]]

Crash ==
  /\ Up
  /\ Mishap
  /\ main' = "exited"
  /\ job' = Killed
  /\ UNCHANGED <<poll, slots, gates, holds, cancelled, loops, selfVars, adminVars>>

\* A new process: Load finds an identity, none, or a file it cannot read.
Restart ==
  /\ ~ Up
  /\ left.starts > 0
  /\ poll' = "waiting" /\ slots' = 0 /\ gates' = [t \in Capped |-> 0] /\ holds' = {}
  /\ cancelled' = FALSE /\ loops' = Loop /\ main' = "running"
  /\ fresh' = 0
  /\ \/ /\ disk # 0
        /\ token' = disk /\ step' = "steady" /\ booted' = TRUE
        /\ left' = [left EXCEPT !.starts = @ - 1]
        /\ UNCHANGED mishaps
     \/ /\ disk = 0 \/ left.mishaps > 0
        /\ token' = 0 /\ step' = "registering" /\ booted' = FALSE
        /\ IF disk = 0
           THEN /\ left' = [left EXCEPT !.starts = @ - 1]
                /\ UNCHANGED mishaps
           ELSE /\ left' = [left EXCEPT !.starts = @ - 1, !.mishaps = @ - 1]
                /\ mishaps' = mishaps + 1
  /\ UNCHANGED <<job, disk, asked, owner, adminVars>>

-----------------------------------------------------------------------------
(* The registry's handlers.                                                *)

Admin ==
  /\ left.admin > 0
  /\ left' = [left EXCEPT !.admin = @ - 1]
  /\ UNCHANGED <<workVars, selfVars, mishaps>>

Approve(i) == Exists(i) /\ row' = [row EXCEPT ![i] = "active"] /\ UNCHANGED patch

Reject(i) == Exists(i) /\ row' = [row EXCEPT ![i] = "rejected"] /\ UNCHANGED patch

Delete(i) == Exists(i) /\ row' = [row EXCEPT ![i] = "deleted"] /\ UNCHANGED patch

\* Only between active and disabled, as loaded.
LoadPatch(i, s) ==
  /\ row[i] \in {"active", "disabled"} \ {s}
  /\ patch' = patch \union {[id |-> i, to |-> s]}
  /\ UNCHANGED row

\* Writes what changed; the row of a deleted agent is not found.
CommitPatch(p) ==
  /\ row' = IF Exists(p.id) THEN [row EXCEPT ![p.id] = p.to] ELSE row
  /\ patch' = patch \ {p}
  /\ UNCHANGED <<workVars, selfVars, mishaps, left>>

-----------------------------------------------------------------------------
(* The goroutines with the token they use.                                 *)

\* submit_result wants the agent the task was handed to; the tasks of a
\* deleted agent are deleted with it.
MayAnswer(j) == token = owner[j] /\ Exists(token) /\ row[token] # "rejected"

Quiet == UNCHANGED <<selfVars, adminVars, mishaps, left>>

PollAsks ==
  /\ TakeSlot
  /\ asked' = token
  /\ UNCHANGED <<disk, token, step, fresh, booted, owner, adminVars, mishaps, left>>

\* poll_next serves active agents.  A task here is one for whatever identity
\* the agent has when it asks.
Served(j) == j \in left.jobs /\ row[asked] = "active"

PollGets(j) ==
  /\ PollTask(j)
  /\ Served(j)
  /\ owner' = [owner EXCEPT ![j] = asked]
  /\ UNCHANGED <<disk, token, step, fresh, booted, asked, adminVars, mishaps, left>>

PollEnds ==
  /\ PollFails
  /\ \A j \in Job : job'[j] # job[j] => Served(j)
  /\ Quiet

\* Ended by the last step of main: what was answered and not saved is lost.
Exit ==
  /\ Run
  /\ mishaps' = IF main' = "exited" /\ step = "saving" THEN mishaps + 1 ELSE mishaps
  /\ UNCHANGED <<selfVars, adminVars, left>>

Answer(j) ==
  /\ \E sent \in BOOLEAN : Submit(j, sent) /\ (sent => MayAnswer(j))
  /\ Quiet

PollSteps == booted /\ (((PollTick \/ StopPolling) /\ Quiet)
                        \/ PollAsks \/ PollEnds \/ \E j \in Job : PollGets(j))

TaskSteps(j) ==
  Answer(j) \/ ((Unsupported(j) \/ Acquire(j) \/ AcquireCancelled(j)) /\ Quiet)

AdminSteps ==
  \/ \E i \in Ids :
       /\ \/ Approve(i) \/ Reject(i) \/ Delete(i)
          \/ \E s \in {"active", "disabled"} : LoadPatch(i, s)
       /\ Admin
  \/ \E p \in patch : CommitPatch(p)

Identify == \E answered \in BOOLEAN : Register(answered)

ProcessNext ==
  \/ PollSteps
  \/ \E j \in Job : TaskSteps(j) \/ (RunEnds(j) /\ Quiet)
  \/ Signal /\ Quiet
  \/ booted /\ LoopEnds("metrics") /\ Quiet
  \/ booted /\ Exit
  \/ Identify \/ Save \/ SaveFails \/ Cancelled \/ Beat
  \/ Crash \/ Restart
  \/ AdminSteps

\* As in AgentWorkers; the server answers a registration in the end.
ProcessFairness ==
  /\ WF_processVars(PollSteps)
  /\ WF_processVars(booted /\ Exit)
  /\ \A j \in Job : WF_processVars(TaskSteps(j))
  /\ \A j \in Job \ Stuck : WF_processVars(RunEnds(j) /\ Quiet)
  /\ WF_processVars(Register(TRUE) \/ Save \/ Beat)

ProcessSpec == ProcessInit /\ [][ProcessNext]_processVars /\ ProcessFairness

-----------------------------------------------------------------------------
(* Properties.                                                             *)

(* What the process says of a task it was handed is said under the identity *)
(* the task was handed to, although the heartbeat loop may change the token *)
(* while tasks run, unless that agent has been deleted and its tasks with   *)
(* it (http.go:44-63, main.go:177-186, tasks.py:142).                       *)
WorkIsOwned ==
  \A j \in Job : Up /\ job[j] \in Busy /\ token # owner[j] => row[owner[j]] = "deleted"

(* Every agent in the registry that no process and no state file will ever  *)
(* be again is the trace of a lost answer, a crash, or a state file that    *)
(* could not be written or read, at most one of each (store.go:43-64,       *)
(* main.go:122-161).                                                        *)
Remembered == {disk} \union (IF Up THEN {token, fresh} ELSE {})
GhostsArePaid == Cardinality({i \in Ids \ Remembered : Exists(i)}) <= mishaps

(* A running agent whose row is deleted becomes an agent again by itself    *)
(* (main.go:182-192).                                                       *)
Deleted == token # 0 /\ row[token] = "deleted"
KnownAgain ==
  Up /\ booted /\ Deleted ~> ~ Deleted \/ cancelled \/ "heartbeat" \notin loops \/ ~ Up

=============================================================================
