--------------------------- MODULE TaskLifecycle ---------------------------
(***************************************************************************)
(* The life of a task row in the server's database, and everyone who       *)
(* writes it: the HTTP handlers of api/tasks.py, an agent's poll, the      *)
(* watchdog, and the administrator deleting an agent.                      *)
(*                                                                         *)
(* A handler loads the row, checks its status, awaits, and commits the     *)
(* columns it changed with UPDATE ... WHERE id = ... and no row lock, so   *)
(* a load and its commit are two steps here.  The poll and the watchdog    *)
(* take SELECT ... FOR UPDATE SKIP LOCKED and hold it to their commit, so  *)
(* each is one step.                                                       *)
(*                                                                         *)
(* Time is kept as the age of the two columns the watchdog compares with   *)
(* its cutoff: "recent" is within CLAIM_GRACE, "old" is past it.           *)
(***************************************************************************)
EXTENDS Integers, FiniteSets

CONSTANTS
  Task,           \* task ids
  Agent,          \* agent ids, all registered and approved at the start
  Request,        \* handlers the server may have in flight at once
  Owner,          \* Owner[t]: tasks.agent_id, fixed when the row is inserted
  Group,          \* Group[t]: tasks.group_id; numbered in created_at order
  Priority,       \* Priority[t]: tasks.priority
  Verdicts,       \* the final statuses agents report
  AdminSets,      \* the agent statuses an administrator sets
  WatchdogBatch,  \* LIMIT of the watchdog's query
  MaxClaims       \* bound: MaxClaims[t], how often t is handed out

ASSUME ConstantsAssumption ==
  /\ Owner \in [Task -> Agent]
  /\ Group \in [Task -> Nat]
  /\ Priority \in [Task -> Nat]
  /\ Verdicts \subseteq {"completed", "failed", "timeout"}
  /\ AdminSets \subseteq {"active", "disabled", "rejected"}
  /\ WatchdogBatch \in Nat \ {0}
  /\ MaxClaims \in [Task -> Nat]

\* task_router never picks an agent twice for one request.
ASSUME OneRowPerAgentInGroup ==
  \A t, u \in Task : Group[t] = Group[u] /\ Owner[t] = Owner[u] => t = u

VARIABLES
  row,          \* row[t]: the task's row, with the number of its results
  agentStatus,  \* agents.status, "gone" once the row is deleted
  online,       \* last_seen is within AGENT_OFFLINE_GRACE
  polling,      \* agents whose poll handler has passed its status check
  pending,      \* handlers that have loaded their row and not yet committed
  older,        \* pairs of expired rows, the older lease first
  runs,         \* executions of tasks on the agents
  claims,       \* history: how often the task was handed out
  requeues      \* history: how often the watchdog took it back

vars == <<row, older, agentStatus, online, polling, pending, runs, claims, requeues>>

-----------------------------------------------------------------------------
InProgress == {"claimed", "running"}
Live       == {"queued"} \union InProgress
Terminal   == {"completed", "failed", "timeout", "cancelled"}
Missing    == {"unborn", "gone"}    \* not inserted yet; deleted, or never to be
Stamp      == {"null", "recent", "old"}

Row == [status : Live \union Terminal \union Missing,
        claimed : Stamp, started : Stamp, finished : BOOLEAN, results : Nat]

NoRow(s)  == [status |-> s, claimed |-> "null", started |-> "null",
              finished |-> FALSE, results |-> 0]
\* mutant: the ORM re-inserts a row that was deleted meanwhile
ExistsForUpdate(t) == TRUE
Exists(t) == row[t].status \notin Missing

\* A claim of a task being executed; the Go agent holds nothing that tells
\* one claim of a task from another, the number is for the properties.
Run == [task : Task, claim : Nat]

\* A handler between its load and its commit: the rows it works on and, for
\* the handlers of a single task, the values its session loaded.
Handler == [id : Request, op : {"create", "run", "result", "cancel", "delete"},
            tasks : SUBSET Task, seen : Row,
            verdict : Verdicts \union {"none"}, claim : Nat]

Members(g) == {t \in Task : Group[t] = g}
Groups     == {Group[t] : t \in Task}

Init ==
  /\ row = [t \in Task |-> NoRow("unborn")]
  /\ older = {}
  /\ agentStatus = [a \in Agent |-> "active"]
  /\ online = [a \in Agent |-> TRUE]
  /\ polling = {}
  /\ pending = {}
  /\ runs = {}
  /\ claims = [t \in Task |-> 0]
  /\ requeues = [t \in Task |-> 0]

-----------------------------------------------------------------------------
(* The handlers of api/tasks.py: load and check, then commit.              *)

Load(id, op, ts, seen, verdict, claim) ==
  /\ \A p \in pending : p.id # id
  /\ pending' = pending \union
       {[id |-> id, op |-> op, tasks |-> ts, seen |-> seen,
         verdict |-> verdict, claim |-> claim]}

Rows == <<row, claims, requeues>>
Fleet == <<agentStatus, online, polling>>

\* POST /tasks: resolve_agents wants every chosen agent active.  created_at
\* is the transaction's start, so groups start in the order of their number.
LoadCreate(id, g) ==
  LET Begun(h) == \/ \E t \in Members(h) : row[t].status # "unborn"
                  \/ \E p \in pending : p.op = "create" /\ p.tasks = Members(h)
  IN  /\ ~ Begun(g)
      /\ \A h \in Groups : h < g => Begun(h)
      /\ \A t \in Members(g) : agentStatus[Owner[t]] = "active"
      /\ Load(id, "create", Members(g), NoRow("unborn"), "none", 0)
      /\ UNCHANGED <<Rows, Fleet, runs>>

\* The rows of a group are inserted by one commit; a foreign key to an agent
\* that is gone fails all of them.
CommitCreate(p) ==
  /\ p.op = "create"
  /\ LET ok == \A t \in p.tasks : agentStatus[Owner[t]] # "gone"
     IN  row' = [t \in Task |-> IF t \in p.tasks
                                THEN NoRow(IF ok THEN "queued" ELSE "gone")
                                ELSE row[t]]
  /\ pending' = pending \ {p}
  /\ UNCHANGED <<claims, requeues, Fleet, runs>>

\* get_current_agent: a deleted agent's token is unknown, a rejected one's
\* refused; a disabled agent may still report.
Admitted(a) == agentStatus[a] \notin {"gone", "rejected"}

\* POST /chunk and POST /start on a claimed row.  (On a running row neither
\* writes a column; on a queued one a chunk is only published.)
LoadRun(id, r) ==
  /\ r \in runs
  /\ Admitted(Owner[r.task])
  /\ row[r.task].status = "claimed"
  /\ Load(id, "run", {r.task}, row[r.task], "none", r.claim)
  /\ UNCHANGED <<Rows, Fleet, runs>>

\* The columns the handler changed; started_at = started_at or now.
StartedRow(r, p) ==
  [r EXCEPT !.status = "running",
            !.started = IF p.seen.started = "null" THEN "recent" ELSE @]

\* A row that is gone by now fails the UPDATE (StaleDataError).
CommitRun(p) ==
  /\ p.op = "run"
  /\ row' = [t \in Task |-> IF t \in p.tasks /\ Exists(t)
                            THEN StartedRow(row[t], p) ELSE row[t]]
  /\ pending' = pending \ {p}
  /\ UNCHANGED <<claims, requeues, Fleet, runs>>

\* mutant: the agent retries a submission it got no answer to
LoadResultRetried(id, r, v) ==
  /\ r \in runs
  /\ Admitted(Owner[r.task])
  /\ row[r.task].status \in Live
  /\ Load(id, "result", {r.task}, row[r.task], v, r.claim)
  /\ UNCHANGED <<Rows, Fleet, runs>>

\* POST /result.  The agent submits once and forgets the task.
LoadResult(id, r, v) ==
  /\ r \in runs
  /\ Admitted(Owner[r.task])
  /\ row[r.task].status \in Live
  /\ Load(id, "result", {r.task}, row[r.task], v, r.claim)
  /\ runs' = runs \ {r}
  /\ UNCHANGED <<Rows, Fleet>>

\* mutant: the Result row is not inserted
SettledRowNoResult(r, p) ==
  [r EXCEPT !.status = p.verdict, !.finished = TRUE]

\* started_at = started_at, else claimed_at, else now.
SettledRow(r, p) ==
  [r EXCEPT !.status = p.verdict, !.finished = TRUE, !.results = @ + 1,
            !.started = IF p.seen.started # "null" THEN @
                        ELSE IF p.seen.claimed # "null" THEN p.seen.claimed
                        ELSE "recent"]

\* The Result row is inserted by the same commit.
CommitResult(p) ==
  /\ p.op = "result"
  /\ row' = [t \in Task |-> IF t \in p.tasks /\ Exists(t)
                            THEN SettledRow(row[t], p) ELSE row[t]]
  /\ pending' = pending \ {p}
  /\ UNCHANGED <<claims, requeues, Fleet, runs>>

\* POST /cancel
LoadCancel(id, t) ==
  /\ row[t].status \in Live
  /\ Load(id, "cancel", {t}, row[t], "none", 0)
  /\ UNCHANGED <<Rows, Fleet, runs>>

CancelledRow(r) == [r EXCEPT !.status = "cancelled", !.finished = TRUE]

CommitCancel(p) ==
  /\ p.op = "cancel"
  /\ row' = [t \in Task |-> IF t \in p.tasks /\ Exists(t)
                            THEN CancelledRow(row[t]) ELSE row[t]]
  /\ pending' = pending \ {p}
  /\ UNCHANGED <<claims, requeues, Fleet, runs>>

\* DELETE /tasks/{id} and DELETE /tasks/groups/{group_id}: every row that was
\* found must be terminal.
LoadDelete(id, ts) ==
  /\ ts # {}
  /\ \A t \in ts : row[t].status \in Terminal
  /\ Load(id, "delete", ts, NoRow("unborn"), "none", 0)
  /\ UNCHANGED <<Rows, Fleet, runs>>

LoadDeleteGroup(id, g) == LoadDelete(id, {t \in Members(g) : Exists(t)})

CommitDelete(p) ==
  /\ p.op = "delete"
  /\ row' = [t \in Task |-> IF t \in p.tasks THEN NoRow("gone") ELSE row[t]]
  /\ pending' = pending \ {p}
  /\ UNCHANGED <<claims, requeues, Fleet, runs>>

Commit(p) ==
  \/ CommitCreate(p)
  \/ CommitRun(p)
  \/ CommitResult(p)
  \/ CommitCancel(p)
  \/ CommitDelete(p)

-----------------------------------------------------------------------------
(* GET /poll: the agent's status is read first, the claim comes after.     *)

\* mutant: a claimed task is handed out again, so that a lost response is
\* made good
QueuedOrClaimed(a) ==
  {t \in Task : Owner[t] = a /\ row[t].status \in {"queued", "claimed"}}

Queued(a) == {t \in Task : Owner[t] = a /\ row[t].status = "queued"}

\* ORDER BY priority DESC, created_at ASC
Precedes(t, u) ==
  \/ Priority[t] > Priority[u]
  \/ Priority[t] = Priority[u] /\ Group[t] < Group[u]

BeginPoll(a) ==
  /\ agentStatus[a] = "active"
  /\ a \notin polling
  /\ polling' = polling \union {a}
  /\ UNCHANGED <<Rows, agentStatus, online, pending, runs>>

\* mutant: claimed_at is not set
ClaimedRowUndated(r) == [r EXCEPT !.status = "claimed"]

ClaimedRow(r) == [r EXCEPT !.status = "claimed", !.claimed = "recent"]

\* The response reaches the agent, which starts a run, or is lost.
ClaimTask(a, t, delivered) ==
  /\ a \in polling
  /\ t \in Queued(a)
  /\ \A u \in Queued(a) : ~ Precedes(u, t)
  /\ claims[t] < MaxClaims[t]
  /\ row' = [row EXCEPT ![t] = ClaimedRow(@)]
  /\ claims' = [claims EXCEPT ![t] = @ + 1]
  /\ runs' = IF delivered
             THEN runs \union {[task |-> t, claim |-> claims[t] + 1]}
             ELSE runs
  /\ polling' = polling \ {a}
  /\ UNCHANGED <<requeues, agentStatus, online, pending>>

PollEmpty(a) ==
  /\ a \in polling
  /\ Queued(a) = {}
  /\ polling' = polling \ {a}
  /\ UNCHANGED <<Rows, agentStatus, online, pending, runs>>

-----------------------------------------------------------------------------
(* The watchdog.                                                           *)

\* mutant: the query compares claimed_at alone
LeaseStartOfClaim(r) == r.claimed

\* COALESCE(started_at, claimed_at)
LeaseStart(r) == IF r.started # "null" THEN r.started ELSE r.claimed

\* mutant: the query forgets the status
ExpiredAnyStatus == {t \in Task : LeaseStart(row[t]) = "old"}

Expired == {t \in Task : row[t].status \in InProgress
                         /\ LeaseStart(row[t]) = "old"}

Aged(s) == IF s = "recent" THEN "old" ELSE s

AgedRow(r) == [r EXCEPT !.claimed = Aged(@), !.started = Aged(@)]

GraceElapses(t) ==
  /\ row[t].status \in InProgress
  /\ LeaseStart(row[t]) = "recent"
  /\ row' = [row EXCEPT ![t] = AgedRow(@)]
  /\ older' = older \union (Expired \X {t})
  /\ UNCHANGED <<claims, requeues, Fleet, pending, runs>>

\* Any other step at most takes rows out of the order.
OrderKept == older' = older \intersect (Expired' \X Expired')

RequeuedRow(r) ==
  [r EXCEPT !.status = "queued", !.claimed = "null", !.started = "null"]
AbandonedRow(r) == [r EXCEPT !.status = "timeout", !.finished = TRUE]

\* mutant: any agent that is still approved counts as online
SeenNowIfApproved(a) == agentStatus[a] = "active"

SeenNow(a) == online[a]

\* mutant: the newest leases first
NewestFirst(S) == \A t \in S, u \in Expired \ S : <<t, u>> \notin older

\* ORDER BY COALESCE(started_at, claimed_at) ASC
OldestFirst(S) == \A t \in S, u \in Expired \ S : <<u, t>> \notin older

\* One tick: the expired rows, the WatchdogBatch oldest of them, go back to
\* the queue if their agent is online and are given up if it is not.
WatchdogTick ==
  \E S \in SUBSET Expired :
    /\ S # {}
    /\ S = Expired \/ Cardinality(S) = WatchdogBatch
    /\ Cardinality(S) <= WatchdogBatch
    /\ OldestFirst(S)
    /\ row' = [t \in Task |->
         IF t \notin S THEN row[t]
         ELSE IF SeenNow(Owner[t]) THEN RequeuedRow(row[t])
         ELSE AbandonedRow(row[t])]
    /\ requeues' = [t \in Task |-> IF t \in S /\ SeenNow(Owner[t])
                                   THEN requeues[t] + 1 ELSE requeues[t]]
    /\ OrderKept
    /\ UNCHANGED <<claims, Fleet, pending, runs>>

-----------------------------------------------------------------------------
(* The agents, the administrator and the server process.                   *)

Heartbeat(a) ==
  /\ Admitted(a)
  /\ online' = [online EXCEPT ![a] = TRUE]
  /\ UNCHANGED <<Rows, agentStatus, polling, pending, runs>>

\* AGENT_OFFLINE_GRACE passes without a heartbeat.
FallSilent(a) ==
  /\ online' = [online EXCEPT ![a] = FALSE]
  /\ UNCHANGED <<Rows, agentStatus, polling, pending, runs>>

\* A run ends without a result: the agent dies or restarts, the submission
\* fails (it is not retried) or the server refuses it.
LoseRun(r) ==
  /\ runs' = runs \ {r}
  /\ UNCHANGED <<Rows, Fleet, pending>>

\* Approve, reject, and PATCH status, whose check of the old status reads a
\* value another request may since have changed.
SetAgentStatus(a, s) ==
  /\ agentStatus[a] # "gone"
  /\ agentStatus' = [agentStatus EXCEPT ![a] = s]
  /\ UNCHANGED <<Rows, online, polling, pending, runs>>

\* ON DELETE CASCADE takes the agent's tasks and their results along.
DeleteAgent(a) ==
  /\ agentStatus[a] # "gone"
  /\ agentStatus' = [agentStatus EXCEPT ![a] = "gone"]
  /\ row' = [t \in Task |-> IF Owner[t] = a /\ Exists(t)
                            THEN NoRow("gone") ELSE row[t]]
  /\ UNCHANGED <<claims, requeues, online, polling, pending, runs>>

\* The process dies: handlers that had not committed are rolled back, and
\* the rows they would have inserted never come to be.
ServerRestart ==
  /\ row' = [t \in Task |->
       IF \E p \in pending : p.op = "create" /\ t \in p.tasks
       THEN NoRow("gone") ELSE row[t]]
  /\ pending' = {}
  /\ polling' = {}
  /\ UNCHANGED <<claims, requeues, agentStatus, online, runs>>

-----------------------------------------------------------------------------
UserRequest(id) ==
  \/ \E g \in Groups : LoadCreate(id, g) \/ LoadDeleteGroup(id, g)
  \/ \E t \in Task : LoadCancel(id, t) \/ LoadDelete(id, {t})

AgentRequest(id) ==
  \E r \in runs : LoadRun(id, r) \/ \E v \in Verdicts : LoadResult(id, r, v)

Poll(a) ==
  \/ BeginPoll(a)
  \/ \E t \in Task, delivered \in BOOLEAN : ClaimTask(a, t, delivered)
  \/ PollEmpty(a)

Environment ==
  \/ \E a \in Agent : \/ Heartbeat(a) \/ FallSilent(a) \/ DeleteAgent(a)
                      \/ \E s \in AdminSets : SetAgentStatus(a, s)
  \/ \E r \in runs : LoseRun(r)
  \/ ServerRestart

Next ==
  \/ /\ \/ \E id \in Request : UserRequest(id) \/ AgentRequest(id)
        \/ \E p \in pending : Commit(p)
        \/ \E a \in Agent : Poll(a)
        \/ Environment
     /\ OrderKept
  \/ \E t \in Task : GraceElapses(t)
  \/ WatchdogTick

Spec == Init /\ [][Next]_vars

\* asyncio runs watchdog_loop forever and the clock advances.
Fairness == WF_vars(WatchdogTick) /\ \A t \in Task : WF_vars(GraceElapses(t))

FairSpec == Spec /\ Fairness

-----------------------------------------------------------------------------
(* Properties.                                                             *)

(* Every variable has its type; a handler slot serves one handler. *)
TypeOK ==
  /\ row \in [Task -> Row]
  /\ older \in SUBSET (Task \X Task)
  /\ agentStatus \in [Agent -> {"active", "disabled", "rejected", "gone"}]
  /\ online \in [Agent -> BOOLEAN]
  /\ polling \in SUBSET Agent
  /\ pending \in SUBSET Handler
  /\ \A p \in pending : p.op = "result" => p.verdict \in Verdicts
  /\ runs \in SUBSET Run
  /\ claims \in [Task -> Nat]
  /\ requeues \in [Task -> Nat]

(* A row that is in progress always carries a time the watchdog's           *)
(* COALESCE(started_at, claimed_at) can compare, whatever stale handlers    *)
(* have written over it: with both NULL the comparison is never true and    *)
(* the watchdog would never see the row (watchdog.py:68-75).                *)
LeaseIsDated ==
  \A t \in Task : row[t].status \in InProgress => LeaseStart(row[t]) # "null"

\* The columns each status comes with, and what a late chunk relies on: its
\* snapshot, taken while the row was claimed, had no started_at.
Stamped(r) ==
  /\ r.status = "queued" => r.claimed = "null" /\ r.started = "null"
  /\ r.status = "claimed" => r.claimed # "null" /\ r.started = "null"
  /\ r.status = "running" => r.started # "null"

(* The inductive strengthening of LeaseIsDated.                             *)
RowsStamped ==
  /\ \A t \in Task : Stamped(row[t])
  /\ \A p \in pending : p.op = "run" => p.seen.status = "claimed"
                                       /\ p.seen.started = "null"

(* A row that says completed or failed has a Result to show: only           *)
(* submit_result writes these, in the commit that inserts the Result, and   *)
(* no other writer brings the status back (tasks.py:155-174).               *)
VerdictHasResult ==
  \A t \in Task : row[t].status \in {"completed", "failed"} => row[t].results > 0

(* A task is handed out again only after the watchdog took it back, so its  *)
(* results and the executions still under way never outnumber its requeues  *)
(* by more than one: without a requeue no task is executed twice and none   *)
(* gets a second Result, however the handlers interleave (tasks.py:53-75).  *)
OneResultPerHandOut ==
  \A t \in Task :
    LET running   == {r \in runs : r.task = t}
        reporting == {p \in pending : p.op = "result" /\ t \in p.tasks}
    IN  row[t].results + Cardinality(running) + Cardinality(reporting)
          <= requeues[t] + 1

(* A deleted task never comes back: a handler that loaded the row before    *)
(* the delete does not write it afterwards (tasks.py:505-507).              *)
GoneForGood ==
  [][\A t \in Task : row[t].status = "gone" => row'[t].status = "gone"]_vars

(* The one way out of a terminal status is a chunk or start handler that    *)
(* loaded the row while it was claimed; neither the poll nor the watchdog   *)
(* ever takes up a finished task again.                                     *)
RevivedOnlyByStaleRun ==
  [][\A t \in Task :
       row[t].status \in Terminal /\ row'[t].status \in Live =>
         /\ row'[t].status = "running"
         /\ \E p \in pending : /\ p.op = "run" /\ t \in p.tasks
                               /\ p.seen.status = "claimed"]_vars

(* The watchdog's purpose (watchdog.py:1-8): no row stays claimed or running *)
(* for ever, however many younger leases of other rows run out meanwhile.   *)
StuckRowsAreReleased ==
  \A t \in Task : row[t].status \in InProgress ~> row[t].status \notin InProgress

(* Once the agent is offline for good (no heartbeat: its polls and results  *)
(* may still arrive, they do not touch last_seen), its task is in the end   *)
(* out of progress for good: an online agent may claim a task and have it   *)
(* requeued without end, an offline one may not (watchdog.py:6-8).          *)
OfflineAgentKeepsNothing ==
  \A t \in Task : <>[](~ online[Owner[t]])
                    => <>[](row[t].status \notin InProgress)

-----------------------------------------------------------------------------
(* The contract these writers implement.                                   *)

PhaseOf(s) == IF s \in Terminal THEN "settled" ELSE s

Contract == INSTANCE TaskContract WITH
  phase    <- [t \in Task |-> PhaseOf(row[t].status)],
  handouts <- claims,
  results  <- [t \in Task |-> row[t].results]

(* Every step of the server, whoever races with whom, is a move of the      *)
(* contract or one of its two late moves: nothing but a late start and a    *)
(* late verdict can happen to a task beyond what is promised, and results   *)
(* never outnumber hand-outs.                                               *)
LateContract == Contract!Spec

=============================================================================
