------------------------ MODULE TaskLifecycleProofs ------------------------
(* What holds of TaskLifecycle for every number of tasks, agents and        *)
(* handlers in flight.                                                      *)
EXTENDS TaskLifecycle, FiniteSetTheorems, TLAPS

LEMMA NoRowTyped == \A s \in Missing \union {"queued"} : NoRow(s) \in Row
  BY DEF NoRow, Row, Missing, Live, InProgress, Stamp

(* What each writer makes of a row is a row.                                *)
LEMMA WritesTyped ==
  ASSUME NEW r \in Row
  PROVE  /\ CancelledRow(r) \in Row
         /\ ClaimedRow(r) \in Row
         /\ AgedRow(r) \in Row
         /\ RequeuedRow(r) \in Row
         /\ AbandonedRow(r) \in Row
         /\ \A p \in Handler : StartedRow(r, p) \in Row
         /\ \A p \in Handler : p.verdict \in Verdicts => SettledRow(r, p) \in Row
<1> USE DEF Row, Live, InProgress, Terminal, Stamp
<1>1. CancelledRow(r) \in Row
  BY DEF CancelledRow
<1>2. ClaimedRow(r) \in Row
  BY DEF ClaimedRow
<1>3. AgedRow(r) \in Row
  BY DEF AgedRow, Aged
<1>4. RequeuedRow(r) \in Row
  BY DEF RequeuedRow
<1>5. AbandonedRow(r) \in Row
  BY DEF AbandonedRow
<1>6. ASSUME NEW p \in Handler PROVE StartedRow(r, p) \in Row
  BY DEF StartedRow
<1>7. ASSUME NEW p \in Handler, p.verdict \in Verdicts
      PROVE  SettledRow(r, p) \in Row
  <2>1. p.seen.claimed \in Stamp
    BY DEF Handler
  <2>2. p.verdict \in Terminal
    BY <1>7, ConstantsAssumption
  <2>3. r.results + 1 \in Nat
    OBVIOUS
  <2>4. SettledRow(r, p).started \in Stamp
    BY <2>1 DEF SettledRow
  <2> QED BY <2>2, <2>3, <2>4 DEF SettledRow
<1> QED BY <1>1, <1>2, <1>3, <1>4, <1>5, <1>6, <1>7

(* Handlers in flight keep their type when one is loaded.                   *)
LEMMA LoadTyped ==
  ASSUME TypeOK, NEW id \in Request,
         NEW op \in {"create", "run", "result", "cancel", "delete"},
         NEW ts \in SUBSET Task, NEW seen \in Row,
         NEW verdict \in Verdicts \union {"none"}, NEW claim \in Nat,
         op = "result" => verdict \in Verdicts,
         Load(id, op, ts, seen, verdict, claim)
  PROVE  /\ pending' \in SUBSET Handler
         /\ \A p \in pending' : p.op = "result" => p.verdict \in Verdicts
<1> DEFINE h == [id |-> id, op |-> op, tasks |-> ts, seen |-> seen,
                 verdict |-> verdict, claim |-> claim]
<1>1. h \in Handler
  BY DEF Handler
<1>2. pending' = pending \union {h}
  BY DEF Load
<1> QED BY <1>1, <1>2 DEF TypeOK

(* A step of the server or its environment keeps every type.                *)
LEMMA TypeStep == TypeOK /\ [Next]_vars => TypeOK'
<1> SUFFICES ASSUME TypeOK, [Next]_vars PROVE TypeOK'
  OBVIOUS
<1>0. older' \in SUBSET (Task \X Task)
  <2>1. CASE OrderKept
    BY <2>1 DEF OrderKept, TypeOK
  <2>2. CASE \E t \in Task : GraceElapses(t)
    BY <2>2 DEF GraceElapses, Expired, TypeOK
  <2>3. CASE UNCHANGED vars
    BY <2>3 DEF vars, TypeOK
  <2> QED BY <2>1, <2>2, <2>3 DEF Next, WatchdogTick
<1>1. ASSUME NEW id \in Request, NEW g \in Groups, LoadCreate(id, g)
      PROVE  TypeOK'
  <2>1. Load(id, "create", Members(g), NoRow("unborn"), "none", 0)
    BY <1>1 DEF LoadCreate
  <2>2. NoRow("unborn") \in Row /\ Members(g) \in SUBSET Task
    BY NoRowTyped DEF Members, Missing
  <2> QED BY <1>0, <1>1, <2>1, <2>2, LoadTyped DEF LoadCreate, Rows, Fleet, TypeOK
<1>2. ASSUME NEW id \in Request, NEW ts \in SUBSET Task, LoadDelete(id, ts)
      PROVE  TypeOK'
  <2>1. Load(id, "delete", ts, NoRow("unborn"), "none", 0)
    BY <1>2 DEF LoadDelete
  <2>2. NoRow("unborn") \in Row
    BY NoRowTyped DEF Missing
  <2> QED BY <1>0, <1>2, <2>1, <2>2, LoadTyped DEF LoadDelete, Rows, Fleet, TypeOK
<1>3. ASSUME NEW id \in Request, NEW t \in Task, LoadCancel(id, t)
      PROVE  TypeOK'
  <2>1. Load(id, "cancel", {t}, row[t], "none", 0)
    BY <1>3 DEF LoadCancel
  <2>2. row[t] \in Row
    BY DEF TypeOK
  <2> QED BY <1>0, <1>3, <2>1, <2>2, LoadTyped DEF LoadCancel, Rows, Fleet, TypeOK
<1>4. ASSUME NEW id \in Request, NEW r \in runs, LoadRun(id, r)
      PROVE  TypeOK'
  <2>1. Load(id, "run", {r.task}, row[r.task], "none", r.claim)
    BY <1>4 DEF LoadRun
  <2>2. r.task \in Task /\ r.claim \in Nat /\ row[r.task] \in Row
    BY DEF TypeOK, Run
  <2> QED BY <1>0, <1>4, <2>1, <2>2, LoadTyped DEF LoadRun, Rows, Fleet, TypeOK
<1>5. ASSUME NEW id \in Request, NEW r \in runs, NEW v \in Verdicts,
             LoadResult(id, r, v)
      PROVE  TypeOK'
  <2>1. Load(id, "result", {r.task}, row[r.task], v, r.claim)
    BY <1>5 DEF LoadResult
  <2>2. r.task \in Task /\ r.claim \in Nat /\ row[r.task] \in Row
    BY DEF TypeOK, Run
  <2> QED BY <1>0, <1>5, <2>1, <2>2, LoadTyped DEF LoadResult, Rows, Fleet, TypeOK
<1>6. ASSUME NEW p \in pending, Commit(p) PROVE TypeOK'
  <2>1. row' \in [Task -> Row]
    <3>1. CASE CommitCreate(p)
      BY <3>1, NoRowTyped DEF CommitCreate, TypeOK, Missing
    <3>2. CASE CommitRun(p)
      BY <3>2, WritesTyped DEF CommitRun, TypeOK
    <3>3. CASE CommitResult(p)
      BY <3>3, WritesTyped DEF CommitResult, TypeOK
    <3>4. CASE CommitCancel(p)
      BY <3>4, WritesTyped DEF CommitCancel, TypeOK
    <3>5. CASE CommitDelete(p)
      BY <3>5, NoRowTyped DEF CommitDelete, TypeOK, Missing
    <3> QED BY <1>6, <3>1, <3>2, <3>3, <3>4, <3>5 DEF Commit
  <2>2. pending' = pending \ {p} /\ UNCHANGED <<claims, requeues, Fleet, runs>>
    BY <1>6 DEF Commit, CommitCreate, CommitRun, CommitResult, CommitCancel,
                CommitDelete
  <2> QED BY <1>0, <2>1, <2>2 DEF Fleet, TypeOK
<1>7. ASSUME NEW a \in Agent, NEW t \in Task, NEW d \in BOOLEAN,
             ClaimTask(a, t, d)
      PROVE  TypeOK'
  <2>1. row' \in [Task -> Row]
    BY <1>7, WritesTyped DEF ClaimTask, TypeOK
  <2>2. claims[t] + 1 \in Nat
    BY DEF TypeOK
  <2> QED BY <1>0, <1>7, <2>1, <2>2 DEF ClaimTask, TypeOK, Run
<1>8. ASSUME NEW a \in Agent, BeginPoll(a) \/ PollEmpty(a) PROVE TypeOK'
  BY <1>0, <1>8 DEF BeginPoll, PollEmpty, Rows, TypeOK
<1>9. ASSUME NEW t \in Task, GraceElapses(t) PROVE TypeOK'
  BY <1>0, <1>9, WritesTyped DEF GraceElapses, Fleet, TypeOK
<1>10. CASE WatchdogTick
  BY <1>0, <1>10, WritesTyped DEF WatchdogTick, Fleet, TypeOK
<1>11. CASE Environment
  <2>1. ASSUME NEW a \in Agent, DeleteAgent(a) PROVE TypeOK'
    BY <1>0, <2>1, NoRowTyped DEF DeleteAgent, TypeOK, Missing
  <2>2. CASE ServerRestart
    BY <1>0, <2>2, NoRowTyped DEF ServerRestart, TypeOK, Missing
  <2>3. ASSUME NEW a \in Agent, Heartbeat(a) \/ FallSilent(a) PROVE TypeOK'
    BY <1>0, <2>3 DEF Heartbeat, FallSilent, Rows, TypeOK
  <2>4. ASSUME NEW a \in Agent, NEW s \in AdminSets, SetAgentStatus(a, s)
        PROVE  TypeOK'
    BY <1>0, <2>4, ConstantsAssumption DEF SetAgentStatus, Rows, TypeOK
  <2>5. ASSUME NEW r \in runs, LoseRun(r) PROVE TypeOK'
    BY <1>0, <2>5 DEF LoseRun, Rows, Fleet, TypeOK
  <2> QED BY <1>11, <2>1, <2>2, <2>3, <2>4, <2>5 DEF Environment
<1>12. CASE UNCHANGED vars
  BY <1>0, <1>12 DEF vars, TypeOK
<1> QED
  BY <1>1, <1>2, <1>3, <1>4, <1>5, <1>6, <1>7, <1>8, <1>9, <1>10, <1>11, <1>12
  DEF Next, UserRequest, AgentRequest, Poll, LoadDeleteGroup, Members

(* TypeOK holds in every reachable state.                                   *)
THEOREM TypeCorrect == Spec => []TypeOK
<1>1. Init => TypeOK
  BY NoRowTyped DEF Init, TypeOK, Missing
<1> QED BY <1>1, TypeStep, PTL DEF Spec
-----------------------------------------------------------------------------
(* How the writers leave the columns of a row.                              *)
LEMMA WritesStamped ==
  ASSUME NEW r \in Row
  PROVE  /\ Stamped(CancelledRow(r))
         /\ Stamped(RequeuedRow(r))
         /\ Stamped(AbandonedRow(r))
         /\ \A s \in Missing \union {"queued"} : Stamped(NoRow(s))
         /\ Stamped(r) => Stamped(AgedRow(r))
         /\ Stamped(r) /\ r.status = "queued" => Stamped(ClaimedRow(r))
         /\ \A p \in Handler : p.seen.started = "null" => Stamped(StartedRow(r, p))
         /\ \A p \in Handler : p.verdict \in Verdicts => Stamped(SettledRow(r, p))
  BY ConstantsAssumption
  DEF Stamped, CancelledRow, RequeuedRow, AbandonedRow, NoRow, AgedRow, Aged,
      ClaimedRow, StartedRow, SettledRow, Row, Missing, Stamp

(* A handler loaded by a step is the only new one, so what holds of those   *)
(* in flight needs checking for it alone.                                   *)
LEMMA RowsStampedStep == TypeOK /\ RowsStamped /\ [Next]_vars => RowsStamped'
<1> SUFFICES ASSUME TypeOK, RowsStamped, [Next]_vars PROVE RowsStamped'
  OBVIOUS
<1>1. ASSUME NEW id \in Request, UserRequest(id) \/ AgentRequest(id)
      PROVE  RowsStamped'
  <2>1. row' = row
    BY <1>1 DEF UserRequest, AgentRequest, LoadCreate, LoadDeleteGroup,
                LoadCancel, LoadDelete, LoadRun, LoadResult, Rows
  <2>2. ASSUME NEW r \in runs, LoadRun(id, r)
        PROVE  RowsStamped'
    <3>1. r.task \in Task /\ row[r.task].status = "claimed"
      BY <2>2 DEF LoadRun, TypeOK, Run
    <3>2. row[r.task].started = "null"
      BY <3>1 DEF RowsStamped, Stamped
    <3> QED BY <2>1, <2>2, <3>1, <3>2 DEF LoadRun, Load, RowsStamped
  <2>3. ASSUME \A p \in pending' \ pending : p.op # "run"
        PROVE  RowsStamped'
    BY <2>1, <2>3 DEF RowsStamped
  <2> QED BY <1>1, <2>2, <2>3 DEF UserRequest, AgentRequest, LoadCreate,
             LoadDeleteGroup, LoadCancel, LoadDelete, LoadResult, Load
<1>2. ASSUME NEW p \in pending, Commit(p) PROVE RowsStamped'
  <2>1. ASSUME NEW t \in Task PROVE Stamped(row'[t])
    <3> p \in Handler /\ row[t] \in Row /\ Stamped(row[t])
      BY DEF TypeOK, RowsStamped
    <3>1. CASE CommitCreate(p)
      BY <3>1, WritesStamped DEF CommitCreate, Missing
    <3>2. CASE CommitRun(p)
      BY <3>2, WritesStamped DEF CommitRun, RowsStamped
    <3>3. CASE CommitResult(p)
      BY <3>3, WritesStamped DEF CommitResult, TypeOK
    <3>4. CASE CommitCancel(p)
      BY <3>4, WritesStamped DEF CommitCancel
    <3>5. CASE CommitDelete(p)
      BY <3>5, WritesStamped DEF CommitDelete, Missing
    <3> QED BY <1>2, <3>1, <3>2, <3>3, <3>4, <3>5 DEF Commit
  <2>2. pending' \subseteq pending
    BY <1>2 DEF Commit, CommitCreate, CommitRun, CommitResult, CommitCancel,
                CommitDelete
  <2> QED BY <2>1, <2>2 DEF RowsStamped
<1>3. ASSUME NEW a \in Agent, NEW t \in Task, NEW d \in BOOLEAN,
             ClaimTask(a, t, d)
      PROVE  RowsStamped'
  BY <1>3, WritesStamped DEF ClaimTask, Queued, RowsStamped, TypeOK
<1>4. ASSUME NEW t \in Task, GraceElapses(t) PROVE RowsStamped'
  BY <1>4, WritesStamped DEF GraceElapses, RowsStamped, TypeOK
<1>5. CASE WatchdogTick
  BY <1>5, WritesStamped DEF WatchdogTick, RowsStamped, TypeOK
<1>6. ASSUME NEW a \in Agent, DeleteAgent(a) PROVE RowsStamped'
  BY <1>6, WritesStamped DEF DeleteAgent, RowsStamped, TypeOK, Missing
<1>7. CASE ServerRestart
  BY <1>7, WritesStamped DEF ServerRestart, RowsStamped, TypeOK, Missing
<1>8. CASE UNCHANGED <<row, pending>>
  BY <1>8 DEF RowsStamped
<1> QED
  BY <1>1, <1>2, <1>3, <1>4, <1>5, <1>6, <1>7, <1>8
  DEF Next, Poll, BeginPoll, PollEmpty, Environment, Heartbeat, FallSilent,
      SetAgentStatus, LoseRun, Rows, vars

(* However the handlers interleave, the watchdog can date every row that is *)
(* in progress, so it can recover every one of them.                        *)
THEOREM LeaseAlwaysDated == Spec => []LeaseIsDated
<1>1. Init => RowsStamped
  BY DEF Init, RowsStamped, Stamped, NoRow
<1>2. TypeOK /\ RowsStamped => LeaseIsDated
  BY DEF TypeOK, RowsStamped, Stamped, LeaseIsDated, LeaseStart, InProgress
<1> QED BY <1>1, <1>2, TypeCorrect, RowsStampedStep, PTL DEF Spec

-----------------------------------------------------------------------------
(* No step but submit_result's commit writes completed or failed, and only  *)
(* a delete takes results away, with the row.                               *)
LEMMA VerdictStep == TypeOK /\ VerdictHasResult /\ [Next]_vars => VerdictHasResult'
<1> SUFFICES ASSUME TypeOK, VerdictHasResult, [Next]_vars,
                    NEW t \in Task, row'[t].status \in {"completed", "failed"}
             PROVE  row'[t].results > 0
  BY DEF VerdictHasResult
<1> row[t] \in Row /\ row[t].results \in Nat
  BY DEF TypeOK, Row
<1> DEFINE Backed(r) == r.status \in {"completed", "failed"} => r.results > 0
<1>1. Backed(row[t])
  BY DEF VerdictHasResult
<1>2. ASSUME NEW p \in pending, Commit(p) PROVE Backed(row'[t])
  <2> p \in Handler
    BY DEF TypeOK
  <2>1. CASE CommitCreate(p)
    BY <1>1, <2>1 DEF CommitCreate, NoRow
  <2>2. CASE CommitRun(p)
    BY <1>1, <2>2 DEF CommitRun, StartedRow, Row
  <2>3. CASE CommitResult(p)
    <3>1. SettledRow(row[t], p).results = row[t].results + 1
      BY DEF SettledRow, Row
    <3>2. row'[t] = row[t] \/ row'[t] = SettledRow(row[t], p)
      BY <2>3 DEF CommitResult
    <3> QED BY <1>1, <3>1, <3>2
  <2>4. CASE CommitCancel(p)
    BY <1>1, <2>4 DEF CommitCancel, CancelledRow, Row
  <2>5. CASE CommitDelete(p)
    BY <1>1, <2>5 DEF CommitDelete, NoRow
  <2> QED BY <1>2, <2>1, <2>2, <2>3, <2>4, <2>5 DEF Commit
<1>3. ASSUME NEW a \in Agent, NEW u \in Task, NEW d \in BOOLEAN,
             ClaimTask(a, u, d)
      PROVE  Backed(row'[t])
  BY <1>1, <1>3 DEF ClaimTask, ClaimedRow, TypeOK, Row
<1>4. ASSUME NEW u \in Task, GraceElapses(u) PROVE Backed(row'[t])
  BY <1>1, <1>4 DEF GraceElapses, AgedRow, TypeOK, Row
<1>5. CASE WatchdogTick
  <2>1. /\ RequeuedRow(row[t]).status = "queued"
        /\ AbandonedRow(row[t]).status = "timeout"
    BY DEF RequeuedRow, AbandonedRow, Row
  <2>2. row'[t] \in {row[t], RequeuedRow(row[t]), AbandonedRow(row[t])}
    BY <1>5 DEF WatchdogTick
  <2> QED BY <1>1, <2>1, <2>2
<1>6. ASSUME NEW a \in Agent, DeleteAgent(a) PROVE Backed(row'[t])
  BY <1>1, <1>6 DEF DeleteAgent, NoRow
<1>7. CASE ServerRestart
  BY <1>1, <1>7 DEF ServerRestart, NoRow
<1>8. CASE UNCHANGED row
  BY <1>1, <1>8
<1> QED
  BY <1>2, <1>3, <1>4, <1>5, <1>6, <1>7, <1>8
  DEF Next, UserRequest, AgentRequest, LoadCreate, LoadDeleteGroup, LoadCancel,
      LoadDelete, LoadRun, LoadResult, Poll, BeginPoll, PollEmpty, Environment,
      Heartbeat, FallSilent, SetAgentStatus, LoseRun, Rows, vars

(* A row that says completed or failed always has a Result to show.         *)
THEOREM VerdictBacked == Spec => []VerdictHasResult
<1>1. Init => VerdictHasResult
  BY DEF Init, VerdictHasResult, NoRow
<1> QED BY <1>1, TypeCorrect, VerdictStep, PTL DEF Spec
-----------------------------------------------------------------------------
(* What TaskLifecycle never does over many steps: bring a deleted task back, *)
(* take up a finished one again, or execute one without a hand-out.          *)

\* What the commit of handler p makes of the row of t.
Committed(p, t) ==
  \/ p.op = "create" /\ row'[t] \in {NoRow("queued"), NoRow("gone")}
  \/ p.op = "run"    /\ Exists(t) /\ row'[t] = StartedRow(row[t], p)
  \/ p.op = "result" /\ Exists(t) /\ row'[t] = SettledRow(row[t], p)
  \/ p.op = "cancel" /\ Exists(t) /\ row'[t] = CancelledRow(row[t])
  \/ p.op = "delete" /\ row'[t] = NoRow("gone")

\* Every way in which a step writes the row of t; only a claim counts as a
\* hand-out.
RowMove(t) ==
  \/ /\ row[t].status = "queued"
     /\ row'[t] = ClaimedRow(row[t])
     /\ claims'[t] = claims[t] + 1
  \/ /\ claims'[t] = claims[t]
     /\ \/ row'[t] = row[t]
        \/ \E p \in pending : /\ t \in p.tasks
                              /\ pending' = pending \ {p}
                              /\ Committed(p, t)
        \/ /\ row[t].status \in InProgress
           /\ row'[t] \in {AgedRow(row[t]), RequeuedRow(row[t]), AbandonedRow(row[t])}
        \/ Exists(t) /\ row'[t] = NoRow("gone")
        \/ /\ pending' = {}
           /\ row'[t] = NoRow("gone")
           /\ \E p \in pending : p.op = "create" /\ t \in p.tasks

(* Nobody else writes a row.                                                *)
LEMMA RowMoves ==
  ASSUME TypeOK, [Next]_vars, NEW t \in Task
  PROVE  RowMove(t)
<1>1. ASSUME NEW p \in pending, Commit(p) PROVE RowMove(t)
  <2>1. pending' = pending \ {p} /\ claims' = claims
    BY <1>1 DEF Commit, CommitCreate, CommitRun, CommitResult, CommitCancel,
                CommitDelete
  <2>2. row'[t] = row[t] \/ (t \in p.tasks /\ Committed(p, t))
    BY <1>1 DEF Commit, CommitCreate, CommitRun, CommitResult, CommitCancel,
                CommitDelete, Committed
  <2> QED BY <2>1, <2>2 DEF RowMove
<1>2. ASSUME NEW a \in Agent, NEW u \in Task, NEW d \in BOOLEAN,
             ClaimTask(a, u, d)
      PROVE  RowMove(t)
  BY <1>2 DEF ClaimTask, Queued, TypeOK, RowMove
<1>3. ASSUME NEW u \in Task, GraceElapses(u) PROVE RowMove(t)
  BY <1>3 DEF GraceElapses, TypeOK, RowMove
<1>4. CASE WatchdogTick
  BY <1>4 DEF WatchdogTick, Expired, RowMove
<1>5. ASSUME NEW a \in Agent, DeleteAgent(a) PROVE RowMove(t)
  BY <1>5 DEF DeleteAgent, RowMove
<1>6. CASE ServerRestart
  BY <1>6 DEF ServerRestart, RowMove
<1>7. CASE UNCHANGED <<row, claims>>
  BY <1>7 DEF RowMove
<1> QED
  BY <1>1, <1>2, <1>3, <1>4, <1>5, <1>6, <1>7
  DEF Next, UserRequest, AgentRequest, LoadCreate, LoadDeleteGroup, LoadCancel,
      LoadDelete, LoadRun, LoadResult, Poll, BeginPoll, PollEmpty, Environment,
      Heartbeat, FallSilent, SetAgentStatus, LoseRun, Rows, vars

(* The status and the number of results each writer leaves behind.          *)
LEMMA WritesCounted ==
  ASSUME NEW r \in Row
  PROVE  /\ \A s : NoRow(s).status = s /\ NoRow(s).results = 0
         /\ CancelledRow(r).status = "cancelled" /\ CancelledRow(r).results = r.results
         /\ ClaimedRow(r).status = "claimed" /\ ClaimedRow(r).results = r.results
         /\ AgedRow(r).status = r.status /\ AgedRow(r).results = r.results
         /\ RequeuedRow(r).status = "queued" /\ RequeuedRow(r).results = r.results
         /\ AbandonedRow(r).status = "timeout" /\ AbandonedRow(r).results = r.results
         /\ \A p \in Handler : /\ StartedRow(r, p).status = "running"
                              /\ StartedRow(r, p).results = r.results
         /\ \A p \in Handler : /\ SettledRow(r, p).status = p.verdict
                              /\ SettledRow(r, p).results = r.results + 1
  BY DEF NoRow, CancelledRow, ClaimedRow, AgedRow, RequeuedRow, AbandonedRow,
         StartedRow, SettledRow, Row

-----------------------------------------------------------------------------
\* A create handler in flight owns the rows of its group, which nobody has
\* inserted and no other create will; the others loaded rows that existed.
Births ==
  /\ \A p \in pending : p.op = "create" =>
       /\ \E g \in Groups : p.tasks = Members(g)
       /\ \A t \in p.tasks : row[t].status = "unborn"
  /\ \A p, q \in pending : p.op = "create" /\ q.op = "create" /\ p # q
                             => p.tasks \intersect q.tasks = {}
  /\ \A p \in pending : p.op # "create" =>
       \A t \in p.tasks : row[t].status # "unborn"
  /\ \A t \in Task : row[t].status = "unborn" => row[t].results = 0

(* A row is never unborn again.                                             *)
LEMMA BornOnce ==
  ASSUME TypeOK, [Next]_vars, NEW t \in Task, row'[t].status = "unborn"
  PROVE  row'[t] = row[t]
<1>1. RowMove(t) /\ row[t] \in Row
  BY RowMoves DEF TypeOK
<1>2. ASSUME NEW p \in pending, Committed(p, t) PROVE row'[t].status # "unborn"
  <2> p \in Handler /\ (p.op = "result" => p.verdict \in Verdicts)
    BY DEF TypeOK
  <2> QED BY <1>1, <1>2, WritesCounted, ConstantsAssumption DEF Committed
<1>3. row'[t] # NoRow("gone")
  BY WritesCounted, <1>1
<1> QED BY <1>1, <1>2, <1>3, WritesCounted DEF RowMove, InProgress

(* An unborn row is written by its own create handler alone.                *)
LEMMA UnbornKept ==
  ASSUME TypeOK, Births, [Next]_vars, NEW t \in Task,
         row[t].status = "unborn",
         NEW p \in pending', p \in pending, p.op = "create", t \in p.tasks
  PROVE  row'[t] = row[t]
<1>1. RowMove(t)
  BY RowMoves
<1>2. ASSUME NEW q \in pending, t \in q.tasks, pending' = pending \ {q}
      PROVE  FALSE
  <2>1. q.op = "create" /\ q # p
    BY <1>2 DEF Births
  <2> QED BY <1>2, <2>1 DEF Births
<1> QED BY <1>1, <1>2 DEF RowMove, InProgress, Exists, Missing

(* Births holds on: a new create finds its group untouched and unclaimed.   *)
LEMMA BirthsStep == TypeOK /\ Births /\ [Next]_vars => Births'
<1> SUFFICES ASSUME TypeOK, Births, [Next]_vars PROVE Births'
  OBVIOUS
<1>1. ASSUME NEW id \in Request, NEW g \in Groups, LoadCreate(id, g)
      PROVE  Births'
  <2> DEFINE h == [id |-> id, op |-> "create", tasks |-> Members(g),
                   seen |-> NoRow("unborn"), verdict |-> "none", claim |-> 0]
  <2>1. /\ pending' = pending \union {h}
        /\ h.op = "create" /\ h.tasks = Members(g)
    BY <1>1 DEF LoadCreate, Load
  <2> HIDE DEF h
  <2>2. row' = row
    BY <1>1 DEF LoadCreate, Rows
  <2>3. \A t \in Members(g) : row[t].status = "unborn"
    BY <1>1 DEF LoadCreate
  <2>4. ASSUME NEW q \in pending, q.op = "create"
        PROVE  q.tasks \intersect Members(g) = {}
    <3>1. PICK k \in Groups : q.tasks = Members(k)
      BY <2>4 DEF Births
    <3>2. k # g
      BY <1>1, <2>4, <3>1 DEF LoadCreate
    <3> QED BY <3>1, <3>2 DEF Members
  <2> QED BY <2>1, <2>2, <2>3, <2>4 DEF Births
<1>2. ASSUME NEW id, NEW op, NEW ts, NEW seen, NEW v, NEW c,
             Load(id, op, ts, seen, v, c), op # "create", row' = row,
             \A t \in ts : row[t].status # "unborn"
      PROVE  Births'
  <2> DEFINE h == [id |-> id, op |-> op, tasks |-> ts, seen |-> seen,
                   verdict |-> v, claim |-> c]
  <2>1. pending' = pending \union {h} /\ h.op = op /\ h.tasks = ts
    BY <1>2 DEF Load
  <2> HIDE DEF h
  <2> QED BY <1>2, <2>1 DEF Births
<1>3. CASE pending' \subseteq pending
  <2>1. ASSUME NEW p \in pending', p.op = "create", NEW t \in p.tasks
        PROVE  row'[t].status = "unborn"
    <3>1. p \in pending /\ t \in Task /\ row[t].status = "unborn"
      BY <1>3, <2>1 DEF Births, TypeOK, Handler
    <3> QED BY <2>1, <3>1, UnbornKept
  <2>2. ASSUME NEW p \in pending', p.op # "create", NEW t \in p.tasks
        PROVE  row'[t].status # "unborn"
    <3>1. p \in pending /\ t \in Task /\ row[t].status # "unborn"
      BY <1>3, <2>2 DEF Births, TypeOK, Handler
    <3> QED BY <3>1, BornOnce
  <2>3. ASSUME NEW t \in Task, row'[t].status = "unborn"
        PROVE  row'[t].results = 0
    BY <2>3, BornOnce DEF Births
  <2> QED BY <1>3, <2>1, <2>2, <2>3 DEF Births
<1>4. ASSUME NEW id \in Request, UserRequest(id) \/ AgentRequest(id)
      PROVE  Births'
  <2>1. ASSUME NEW ts \in SUBSET Task, LoadDelete(id, ts) PROVE Births'
    BY <1>2, <2>1 DEF LoadDelete, Rows, Terminal
  <2>2. ASSUME NEW t \in Task, LoadCancel(id, t) PROVE Births'
    BY <1>2, <2>2 DEF LoadCancel, Rows, Live, InProgress
  <2>3. ASSUME NEW r \in runs, LoadRun(id, r) PROVE Births'
    BY <1>2, <2>3 DEF LoadRun, Rows
  <2>4. ASSUME NEW r \in runs, NEW v \in Verdicts, LoadResult(id, r, v)
        PROVE  Births'
    BY <1>2, <2>4 DEF LoadResult, Rows, Live, InProgress
  <2> QED BY <1>1, <1>4, <2>1, <2>2, <2>3, <2>4
          DEF UserRequest, AgentRequest, LoadDeleteGroup, Members
<1> QED
  BY <1>3, <1>4
  DEF Next, Commit, CommitCreate, CommitRun, CommitResult, CommitCancel,
      CommitDelete, Poll, BeginPoll, ClaimTask, PollEmpty, GraceElapses,
      WatchdogTick, Environment, Heartbeat, FallSilent, SetAgentStatus,
      DeleteAgent, LoseRun, ServerRestart, vars

(* By induction over the steps, with the type invariant.                    *)
LEMMA BirthsAlways == Spec => []Births
<1>1. Init => Births
  BY DEF Init, Births, NoRow
<1> QED BY <1>1, TypeCorrect, BirthsStep, PTL DEF Spec

-----------------------------------------------------------------------------
(* A deleted task never comes back, whatever handlers still hold of it.     *)
THEOREM GoneStaysGone == Spec => GoneForGood
<1>1. ASSUME TypeOK, Births, [Next]_vars, NEW t \in Task, row[t].status = "gone"
      PROVE  row'[t].status = "gone"
  <2>1. RowMove(t) /\ ~ Exists(t)
    BY <1>1, RowMoves DEF Exists, Missing
  <2>2. ASSUME NEW p \in pending, t \in p.tasks PROVE p.op # "create"
    BY <1>1, <2>2 DEF Births
  <2>3. NoRow("gone").status = "gone"
    BY DEF NoRow
  <2> QED BY <1>1, <2>1, <2>2, <2>3 DEF RowMove, Committed, InProgress
<1>2. TypeOK /\ Births /\ [Next]_vars =>
        [\A t \in Task : row[t].status = "gone" => row'[t].status = "gone"]_vars
  BY <1>1
<1> QED BY <1>2, TypeCorrect, BirthsAlways, PTL DEF Spec, GoneForGood

(* A finished task is set live again by nothing but a chunk or a start that *)
(* loaded its row while that was claimed.                                   *)
THEOREM RevivedByStaleRunAlone == Spec => RevivedOnlyByStaleRun
<1>1. ASSUME TypeOK, RowsStamped, Births, [Next]_vars, NEW t \in Task,
             row[t].status \in Terminal, row'[t].status \in Live
      PROVE  /\ row'[t].status = "running"
             /\ \E p \in pending : /\ p.op = "run" /\ t \in p.tasks
                                   /\ p.seen.status = "claimed"
  <2> row[t] \in Row /\ RowMove(t)
    BY <1>1, RowMoves DEF TypeOK
  <2>1. NoRow("gone").status \notin Live /\ CancelledRow(row[t]).status \notin Live
    BY DEF NoRow, CancelledRow, Row, Live, InProgress
  <2>2. PICK p \in pending : t \in p.tasks /\ Committed(p, t)
    BY <1>1, <2>1 DEF RowMove, Terminal, Live, InProgress
  <2>3. p.op # "create"
    BY <1>1, <2>2 DEF Births, Terminal
  <2>4. p.op # "result"
    <3>1. p.op = "result" => SettledRow(row[t], p).status \in Terminal
      BY <1>1, ConstantsAssumption DEF TypeOK, SettledRow, Row, Terminal
    <3> QED BY <1>1, <2>2, <3>1 DEF Committed, Live, InProgress, Terminal
  <2>5. p.op = "run" /\ row'[t] = StartedRow(row[t], p)
    BY <1>1, <2>1, <2>2, <2>3, <2>4 DEF Committed
  <2>6. StartedRow(row[t], p).status = "running"
    BY DEF StartedRow, Row
  <2> QED BY <1>1, <2>2, <2>5, <2>6 DEF RowsStamped
<1>2. TypeOK /\ RowsStamped /\ Births /\ [Next]_vars =>
        [\A t \in Task :
           row[t].status \in Terminal /\ row'[t].status \in Live =>
             /\ row'[t].status = "running"
             /\ \E p \in pending : /\ p.op = "run" /\ t \in p.tasks
                                   /\ p.seen.status = "claimed"]_vars
  BY <1>1
<1>3. Init => RowsStamped
  BY DEF Init, RowsStamped, Stamped, NoRow
<1> QED BY <1>2, <1>3, TypeCorrect, RowsStampedStep, BirthsAlways, PTL
        DEF Spec, RevivedOnlyByStaleRun
-----------------------------------------------------------------------------
Running(t)   == {r \in runs : r.task = t}
Reporting(t) == {p \in pending : p.op = "result" /\ t \in p.tasks}
Waiting(t)   == IF row[t].status \in {"unborn", "queued"} THEN 1 ELSE 0

\* What became of the hand-outs of a task.
Spent(t) ==
  row[t].results + Cardinality(Running(t)) + Cardinality(Reporting(t))

\* The executions a task has had or has are covered by its hand-outs, and those
\* it is about to have as well by its first one and one for each requeue.
Ledger ==
  /\ IsFiniteSet(runs)
  /\ IsFiniteSet(pending)
  /\ \A t \in Task : /\ Spent(t) <= claims[t]
                     /\ Spent(t) + Waiting(t) <= requeues[t] + 1

(* One more element is at most one more.                                    *)
LEMMA AddAtMostOne ==
  ASSUME NEW S, IsFiniteSet(S), NEW x
  PROVE  Cardinality(S \union {x}) <= Cardinality(S) + 1
<1>1. Cardinality(S) \in Nat
  BY FS_CardinalityType
<1>2. Cardinality(S \union {x}) = IF x \in S THEN Cardinality(S) ELSE Cardinality(S) + 1
  BY FS_AddElement
<1>3. CASE x \in S
  BY <1>1, <1>2, <1>3
<1>4. CASE x \notin S
  BY <1>1, <1>2, <1>4
<1> QED BY <1>3, <1>4

(* The terms of the ledger are numbers.                                     *)
LEMMA LedgerTyped ==
  ASSUME TypeOK, IsFiniteSet(runs), IsFiniteSet(pending), NEW t \in Task
  PROVE  /\ row[t].results \in Nat /\ Waiting(t) \in 0..1
         /\ requeues[t] \in Nat /\ claims[t] \in Nat
         /\ IsFiniteSet(Running(t)) /\ Cardinality(Running(t)) \in Nat
         /\ IsFiniteSet(Reporting(t)) /\ Cardinality(Reporting(t)) \in Nat
<1>1. IsFiniteSet(Running(t)) /\ IsFiniteSet(Reporting(t))
  BY FS_Subset DEF Running, Reporting
<1> QED BY <1>1, FS_CardinalityType DEF TypeOK, Row, Waiting

(* Handlers and executions stay finitely many, and the sets that a step     *)
(* leaves out do not grow.                                                  *)
LEMMA FiniteStep ==
  ASSUME TypeOK, Ledger, [Next]_vars
  PROVE  IsFiniteSet(runs') /\ IsFiniteSet(pending')
<1>1. IsFiniteSet(runs')
  <2>1. ASSUME NEW a \in Agent, NEW t \in Task, NEW d \in BOOLEAN,
               ClaimTask(a, t, d)
        PROVE  IsFiniteSet(runs')
    BY <2>1, FS_AddElement DEF ClaimTask, Ledger
  <2>2. CASE runs' \subseteq runs
    BY <2>2, FS_Subset DEF Ledger
  <2> QED
    BY <2>1, <2>2
    DEF Next, UserRequest, AgentRequest, LoadCreate, LoadDeleteGroup, LoadCancel,
        LoadDelete, LoadRun, LoadResult, Commit, CommitCreate, CommitRun,
        CommitResult, CommitCancel, CommitDelete, Poll, BeginPoll, PollEmpty,
        GraceElapses, WatchdogTick, Environment, Heartbeat, FallSilent,
        SetAgentStatus, DeleteAgent, LoseRun, ServerRestart, vars
<1>2. IsFiniteSet(pending')
  <2>1. ASSUME NEW id, NEW op, NEW ts, NEW seen, NEW v, NEW c,
               Load(id, op, ts, seen, v, c)
        PROVE  IsFiniteSet(pending')
    BY <2>1, FS_AddElement DEF Load, Ledger
  <2>2. CASE pending' \subseteq pending
    BY <2>2, FS_Subset DEF Ledger
  <2> QED
    BY <2>1, <2>2
    DEF Next, UserRequest, AgentRequest, LoadCreate, LoadDeleteGroup, LoadCancel,
        LoadDelete, LoadRun, LoadResult, Commit, CommitCreate, CommitRun,
        CommitResult, CommitCancel, CommitDelete, Poll, BeginPoll, ClaimTask,
        PollEmpty, GraceElapses, WatchdogTick, Environment, Heartbeat,
        FallSilent, SetAgentStatus, DeleteAgent, LoseRun, ServerRestart, vars
<1> QED BY <1>1, <1>2

(* Every step keeps the ledger: a hand-out takes the task from waiting to    *)
(* running, a submission from running to reporting, its commit from          *)
(* reporting to the results, and only the watchdog makes it wait again.      *)
LEMMA LedgerStep == TypeOK /\ Births /\ Ledger /\ [Next]_vars => Ledger'
<1> DEFINE Kept(t) == /\ Spent(t)' <= claims'[t]
                      /\ Spent(t)' + Waiting(t)' <= requeues'[t] + 1
<1> SUFFICES ASSUME TypeOK, Births, Ledger, [Next]_vars, NEW t \in Task
             PROVE  Kept(t)
  BY FiniteStep DEF Ledger
<1> DEFINE Used == row[t].results
           Used1 == row'[t].results
           Owed == row[t].results + Waiting(t)
           Owed1 == row'[t].results + Waiting(t)'
<1>1. /\ row[t] \in Row /\ row[t].results \in Nat /\ Waiting(t) \in 0..1
      /\ requeues[t] \in Nat /\ claims[t] \in Nat
      /\ IsFiniteSet(Running(t)) /\ Cardinality(Running(t)) \in Nat
      /\ IsFiniteSet(Reporting(t)) /\ Cardinality(Reporting(t)) \in Nat
      /\ Used + Cardinality(Running(t)) + Cardinality(Reporting(t)) <= claims[t]
      /\ Owed + Cardinality(Running(t)) + Cardinality(Reporting(t))
           <= requeues[t] + 1
  <2>1. /\ row[t] \in Row /\ row[t].results \in Nat /\ Waiting(t) \in 0..1
        /\ requeues[t] \in Nat /\ claims[t] \in Nat
        /\ IsFiniteSet(Running(t)) /\ Cardinality(Running(t)) \in Nat
        /\ IsFiniteSet(Reporting(t)) /\ Cardinality(Reporting(t)) \in Nat
    BY LedgerTyped DEF Ledger, TypeOK
  <2>2. Spent(t) <= claims[t] /\ Spent(t) + Waiting(t) <= requeues[t] + 1
    BY DEF Ledger
  <2> QED BY <2>1, <2>2 DEF Spent
<1>2. TypeOK'
  BY TypeStep
<1>3. /\ row'[t].results \in Nat /\ Waiting(t)' \in 0..1
      /\ requeues'[t] \in Nat /\ claims'[t] \in Nat
      /\ Cardinality(Running(t)') \in Nat /\ Cardinality(Reporting(t)') \in Nat
  <2>1. /\ row'[t].results \in Nat /\ Waiting(t)' \in 0..1
        /\ requeues'[t] \in Nat /\ claims'[t] \in Nat
    BY <1>2 DEF TypeOK, Row, Waiting
  <2>2. IsFiniteSet(Running(t)') /\ IsFiniteSet(Reporting(t)')
    BY FiniteStep, FS_Subset DEF Running, Reporting
  <2> QED BY <2>1, <2>2, FS_CardinalityType
<1>4. ASSUME Running(t)' \subseteq Running(t), Reporting(t)' \subseteq Reporting(t)
      PROVE  /\ Cardinality(Running(t)') <= Cardinality(Running(t))
             /\ Cardinality(Reporting(t)') <= Cardinality(Reporting(t))
  BY <1>1, <1>4, FS_Subset
<1>5. ASSUME NEW id \in Request, UserRequest(id) \/ AgentRequest(id),
             \A r \in runs, v \in Verdicts : ~ LoadResult(id, r, v)
      PROVE  /\ UNCHANGED <<row, runs, claims, requeues>>
             /\ Reporting(t)' \subseteq Reporting(t)
  BY <1>5 DEF UserRequest, AgentRequest, LoadCreate, LoadDeleteGroup, LoadCancel,
              LoadDelete, LoadRun, Load, Rows, Reporting
<1>6. ASSUME NEW id \in Request, NEW r \in runs, NEW v \in Verdicts,
             LoadResult(id, r, v)
      PROVE  /\ UNCHANGED <<row, claims, requeues>>
             /\ Cardinality(Running(t)') + Cardinality(Reporting(t)')
                  <= Cardinality(Running(t)) + Cardinality(Reporting(t))
  <2> DEFINE h == [id |-> id, op |-> "result", tasks |-> {r.task},
                   seen |-> row[r.task], verdict |-> v, claim |-> r.claim]
  <2>1. /\ pending' = pending \union {h} /\ runs' = runs \ {r}
        /\ UNCHANGED <<row, claims, requeues>>
    BY <1>6 DEF LoadResult, Load, Rows
  <2>2. CASE r.task = t
    <3>1. Running(t)' = Running(t) \ {r} /\ r \in Running(t)
      BY <2>1, <2>2 DEF Running
    <3>2. Reporting(t)' = Reporting(t) \union {h}
      BY <2>1, <2>2 DEF Reporting
    <3>3. Cardinality(Running(t)') = Cardinality(Running(t)) - 1
      BY <1>1, <3>1, FS_RemoveElement
    <3>4. Cardinality(Reporting(t)') <= Cardinality(Reporting(t)) + 1
      BY <1>1, <3>2, AddAtMostOne
    <3> QED BY <1>1, <1>3, <2>1, <3>3, <3>4
  <2>3. CASE r.task # t
    <3>1. Running(t)' = Running(t) /\ Reporting(t)' = Reporting(t)
      BY <2>1, <2>3 DEF Running, Reporting
    <3> QED BY <1>1, <2>1, <3>1
  <2> QED BY <2>2, <2>3
<1>7. ASSUME NEW p \in pending, Commit(p)
      PROVE  /\ UNCHANGED <<runs, claims, requeues>>
             /\ Used1 + Cardinality(Reporting(t)') <= Used + Cardinality(Reporting(t))
             /\ Owed1 + Cardinality(Reporting(t)') <= Owed + Cardinality(Reporting(t))
  <2>1. UNCHANGED <<runs, claims, requeues>> /\ pending' = pending \ {p} /\ p \in Handler
    BY <1>7 DEF Commit, CommitCreate, CommitRun, CommitResult, CommitCancel,
                CommitDelete, TypeOK
  <2>2. CASE CommitResult(p) /\ t \in p.tasks
    <3>1. Reporting(t)' = Reporting(t) \ {p} /\ p \in Reporting(t)
      BY <2>1, <2>2 DEF Reporting, CommitResult
    <3>2. Cardinality(Reporting(t)') = Cardinality(Reporting(t)) - 1
      BY <1>1, <3>1, FS_RemoveElement
    <3>3. p.verdict \in {"completed", "failed", "timeout"}
      BY <2>2, ConstantsAssumption DEF CommitResult, TypeOK
    <3>4. row'[t] = row[t] \/ row'[t] = SettledRow(row[t], p)
      BY <2>2 DEF CommitResult
    <3>5. Used1 <= Used + 1 /\ Owed1 <= Owed + 1
      BY <1>1, <1>3, <2>1, <3>3, <3>4, WritesCounted DEF Waiting
    <3> QED BY <1>1, <1>3, <2>1, <3>2, <3>5
  <2>3. CASE ~ (CommitResult(p) /\ t \in p.tasks)
    <3>1. Reporting(t)' \subseteq Reporting(t)
      BY <2>1 DEF Reporting
    <3>2. Cardinality(Reporting(t)') <= Cardinality(Reporting(t))
      BY <1>1, <3>1, FS_Subset
    <3>3. Used1 <= Used /\ Owed1 <= Owed
      <4>1. CASE row'[t] = row[t]
        BY <1>1, <4>1 DEF Waiting
      <4>2. CASE CommitCreate(p) /\ t \in p.tasks
        <5>1. row[t].status = "unborn"
          BY <4>2 DEF Births, CommitCreate
        <5>2. row'[t] \in {NoRow("queued"), NoRow("gone")}
          BY <4>2 DEF CommitCreate
        <5> QED BY <1>1, <5>1, <5>2, WritesCounted DEF Waiting
      <4>3. CASE row'[t] \in {StartedRow(row[t], p), CancelledRow(row[t]),
                              NoRow("gone")}
        BY <1>1, <2>1, <4>3, WritesCounted DEF Waiting
      <4> QED BY <1>7, <2>3, <4>1, <4>2, <4>3
              DEF Commit, CommitCreate, CommitRun, CommitResult, CommitCancel,
                  CommitDelete
    <3> QED BY <1>1, <1>3, <2>1, <3>2, <3>3
  <2> QED BY <2>2, <2>3
<1>8. ASSUME NEW a \in Agent, NEW u \in Task, NEW d \in BOOLEAN,
             ClaimTask(a, u, d)
      PROVE  /\ UNCHANGED <<pending, requeues>>
             /\ Used1 + Cardinality(Running(t)') + claims[t]
                  <= Used + Cardinality(Running(t)) + claims'[t]
             /\ Owed1 + Cardinality(Running(t)') <= Owed + Cardinality(Running(t))
  <2> DEFINE x == [task |-> u, claim |-> claims[u] + 1]
  <2>1. /\ UNCHANGED <<pending, requeues>>
        /\ runs' = runs \/ runs' = runs \union {x}
        /\ row[u].status = "queued" /\ row' = [row EXCEPT ![u] = ClaimedRow(@)]
        /\ claims' = [claims EXCEPT ![u] = @ + 1]
    BY <1>8 DEF ClaimTask, Queued
  <2>2. CASE u = t
    <3>1. Running(t)' = Running(t) \/ Running(t)' = Running(t) \union {x}
      BY <2>1, <2>2 DEF Running
    <3>2. Cardinality(Running(t)') <= Cardinality(Running(t)) + 1
      <4>1. CASE Running(t)' = Running(t)
        <5>1. Cardinality(Running(t)') = Cardinality(Running(t))
          BY <4>1
        <5> QED BY <1>1, <5>1
      <4>2. CASE Running(t)' = Running(t) \union {x}
        BY <1>1, <4>2, AddAtMostOne
      <4> QED BY <3>1, <4>1, <4>2
    <3>3. row'[t] = ClaimedRow(row[t]) /\ claims'[t] = claims[t] + 1
      BY <2>1, <2>2 DEF TypeOK
    <3>4. Used1 = Used /\ Owed1 = Owed - 1
      BY <1>1, <2>1, <2>2, <3>3, WritesCounted DEF Waiting
    <3> QED BY <1>1, <1>3, <2>1, <3>2, <3>3, <3>4
  <2>3. CASE u # t
    <3>1. Running(t)' = Running(t) /\ row'[t] = row[t] /\ claims'[t] = claims[t]
      BY <2>1, <2>3 DEF Running, TypeOK
    <3> QED BY <1>1, <2>1, <3>1 DEF Waiting
  <2> QED BY <2>2, <2>3
<1>9. ASSUME WatchdogTick
      PROVE  /\ UNCHANGED <<runs, pending, claims>>
             /\ Used1 <= Used
             /\ Owed1 + requeues[t] <= Owed + requeues'[t]
  <2>1. UNCHANGED <<runs, pending, claims>>
    BY <1>9 DEF WatchdogTick
  <2>2. \/ row'[t] = row[t] /\ requeues'[t] = requeues[t]
        \/ /\ row[t].status \in InProgress
           /\ \/ row'[t] = RequeuedRow(row[t]) /\ requeues'[t] = requeues[t] + 1
              \/ row'[t] = AbandonedRow(row[t]) /\ requeues'[t] = requeues[t]
    BY <1>9 DEF WatchdogTick, Expired
  <2> QED BY <1>1, <1>3, <2>1, <2>2, WritesCounted DEF Waiting, InProgress
<1>10. ASSUME NEW u \in Task, GraceElapses(u)
       PROVE  UNCHANGED <<runs, pending, claims, requeues>> /\ Used1 = Used /\ Owed1 = Owed
  <2>1. row'[t] = row[t] \/ row'[t] = AgedRow(row[t])
    BY <1>10 DEF GraceElapses, TypeOK
  <2> QED BY <1>1, <1>10, <2>1, WritesCounted DEF GraceElapses, Waiting
<1>11. ASSUME NEW a \in Agent, DeleteAgent(a)
       PROVE  UNCHANGED <<runs, pending, claims, requeues>> /\ Used1 <= Used /\ Owed1 <= Owed
  <2>1. row'[t] = row[t] \/ row'[t] = NoRow("gone")
    BY <1>11 DEF DeleteAgent
  <2> QED BY <1>1, <1>11, <2>1, WritesCounted DEF DeleteAgent, Waiting
<1>12. ASSUME ServerRestart
       PROVE  /\ UNCHANGED <<runs, claims, requeues>> /\ pending' = {}
              /\ Used1 <= Used /\ Owed1 <= Owed
  <2>1. row'[t] = row[t] \/ row'[t] = NoRow("gone")
    BY <1>12 DEF ServerRestart
  <2> QED BY <1>1, <1>12, <2>1, WritesCounted DEF ServerRestart, Waiting
<1>13. ASSUME UNCHANGED <<row, pending, claims, requeues>>, runs' \subseteq runs
       PROVE  /\ Running(t)' \subseteq Running(t) /\ Reporting(t)' = Reporting(t)
              /\ Owed1 = Owed
  BY <1>13 DEF Running, Reporting, Waiting
<1>14. ASSUME /\ Used1 + Cardinality(Running(t)') + Cardinality(Reporting(t)')
                   <= claims'[t]
              /\ Owed1 + Cardinality(Running(t)') + Cardinality(Reporting(t)')
                   <= requeues'[t] + 1
       PROVE  Kept(t)
  BY <1>3, <1>14 DEF Spent
<1> HIDE DEF Kept
<1>15. CASE \E p \in pending : Commit(p)
  <2>1. Running(t)' = Running(t)
    BY <1>7, <1>15 DEF Running
  <2> QED BY <1>1, <1>3, <1>7, <1>14, <1>15, <2>1
<1>16. CASE \E a \in Agent, u \in Task, d \in BOOLEAN : ClaimTask(a, u, d)
  <2>1. Reporting(t)' = Reporting(t)
    BY <1>8, <1>16 DEF Reporting
  <2> QED BY <1>1, <1>3, <1>8, <1>14, <1>16, <2>1
<1>17. CASE /\ UNCHANGED <<runs, claims>> /\ pending' \subseteq pending
            /\ Used1 <= Used
            /\ Owed1 + requeues[t] <= Owed + requeues'[t]
  <2>1. Running(t)' = Running(t) /\ Reporting(t)' \subseteq Reporting(t)
    BY <1>17 DEF Running, Reporting
  <2> QED BY <1>1, <1>3, <1>4, <1>14, <1>17, <2>1
<1>18. ASSUME NEW id \in Request, UserRequest(id) \/ AgentRequest(id)
       PROVE  Kept(t)
  <2>1. CASE \A r \in runs, v \in Verdicts : ~ LoadResult(id, r, v)
    <3>1. /\ Running(t)' = Running(t) /\ Reporting(t)' \subseteq Reporting(t)
          /\ Owed1 = Owed /\ Used1 = Used
          /\ claims' = claims /\ requeues' = requeues
      BY <1>5, <1>18, <2>1 DEF Running, Waiting
    <3> QED BY <1>1, <1>3, <1>4, <1>14, <3>1
  <2>2. CASE \E r \in runs, v \in Verdicts : LoadResult(id, r, v)
    <3>1. Owed1 = Owed /\ Used1 = Used
      BY <1>6, <2>2 DEF Waiting
    <3> QED BY <1>1, <1>3, <1>6, <1>14, <2>2, <3>1
  <2> QED BY <2>1, <2>2
<1>19. CASE UNCHANGED <<row, pending, claims, requeues>> /\ runs' \subseteq runs
  BY <1>1, <1>3, <1>4, <1>13, <1>14, <1>19
<1>20. CASE WatchdogTick
  BY <1>9, <1>17, <1>20
<1>21. CASE \E u \in Task : GraceElapses(u)
  BY <1>1, <1>10, <1>17, <1>21
<1>22. CASE \E a \in Agent : DeleteAgent(a)
  BY <1>1, <1>3, <1>11, <1>17, <1>22
<1>23. CASE ServerRestart
  BY <1>1, <1>3, <1>12, <1>17, <1>23
<1> QED
  BY <1>15, <1>16, <1>18, <1>19, <1>20, <1>21, <1>22, <1>23
  DEF Next, Poll, BeginPoll, PollEmpty, Environment, Heartbeat, FallSilent,
      SetAgentStatus, LoseRun, Rows, vars

(* Nothing is owed at the start.                                            *)
LEMMA LedgerInit == Init => Ledger
<1>1. ASSUME Init, NEW t \in Task PROVE Running(t) = {} /\ Reporting(t) = {}
  BY <1>1 DEF Init, Running, Reporting
<1>2. IsFiniteSet({}) /\ Cardinality({}) = 0
  BY FS_EmptySet
<1>3. ASSUME Init, NEW t \in Task
      PROVE  /\ row[t].results = 0 /\ Waiting(t) = 1
             /\ requeues[t] = 0 /\ claims[t] = 0
             /\ Cardinality(Running(t)) = 0 /\ Cardinality(Reporting(t)) = 0
  BY <1>1, <1>2, <1>3 DEF Init, Waiting, NoRow
<1> SUFFICES ASSUME Init PROVE Ledger
  OBVIOUS
<1>4. IsFiniteSet(runs) /\ IsFiniteSet(pending)
  BY <1>2 DEF Init
<1>5. ASSUME NEW t \in Task
      PROVE  Spent(t) <= claims[t] /\ Spent(t) + Waiting(t) <= requeues[t] + 1
  BY <1>3 DEF Spent
<1> QED BY <1>4, <1>5 DEF Ledger

(* Without a requeue no task is executed twice and none gets a second       *)
(* Result, and each requeue allows one more of both, for any number of      *)
(* tasks, agents and handlers in flight.                                    *)
THEOREM ResultsFollowHandOuts == Spec => []OneResultPerHandOut
<1>1. Init => Ledger
  BY LedgerInit
<1>2. TypeOK /\ Ledger => OneResultPerHandOut
  <2> SUFFICES ASSUME TypeOK, Ledger, NEW t \in Task
               PROVE  Spent(t) <= requeues[t] + 1
    BY DEF OneResultPerHandOut, Spent, Running, Reporting
  <2>1. Spent(t) + Waiting(t) <= requeues[t] + 1
    BY DEF Ledger
  <2> QED BY <2>1, LedgerTyped DEF Ledger, Spent
<1> QED BY <1>1, <1>2, TypeCorrect, BirthsAlways, LedgerStep, PTL DEF Spec
-----------------------------------------------------------------------------
(* A handler that reports on a task stands for a hand-out no result has yet. *)
LEMMA ReportIsCovered ==
  ASSUME TypeOK, Ledger, NEW t \in Task,
         NEW p \in pending, p.op = "result", t \in p.tasks
  PROVE  row[t].results < claims[t]
<1>1. Reporting(t) # {}
  BY DEF Reporting
<1>2. Cardinality(Reporting(t)) # 0
  BY <1>1, LedgerTyped, FS_EmptySet DEF Ledger
<1>3. Spent(t) <= claims[t]
  BY DEF Ledger
<1>4. /\ row[t].results \in Nat /\ claims[t] \in Nat
      /\ Cardinality(Running(t)) \in Nat /\ Cardinality(Reporting(t)) \in Nat
  BY LedgerTyped DEF Ledger
<1> QED BY <1>2, <1>3, <1>4 DEF Spent

(* What a step does to one task, seen by the contract: if it neither keeps   *)
(* its promise nor moves late, it does nothing.                              *)
LEMMA TaskMoves ==
  ASSUME TypeOK, Births, Ledger, [Next]_vars, NEW t \in Task
  PROVE  Contract!Promised(t) \/ Contract!Late(t)
<1> DEFINE s == row[t].status
           s1 == row'[t].status
           n == row[t].results
           n1 == row'[t].results
<1>1. /\ row[t] \in Row /\ RowMove(t) /\ n \in Nat /\ claims[t] \in Nat
      /\ s \in Live \union Terminal \union Missing
  BY RowMoves DEF TypeOK, Row
<1> USE DEF Contract!Promised, Contract!Late, Contract!Keeps, Contract!Moves,
            Contract!Phase, PhaseOf
<1>2. CASE /\ s = "queued" /\ row'[t] = ClaimedRow(row[t])
           /\ claims'[t] = claims[t] + 1
  BY <1>1, <1>2, WritesCounted DEF Contract!HandedOut, Terminal
<1>3. ASSUME claims'[t] = claims[t], s1 = s, n1 = n
      PROVE  Contract!Promised(t)
  BY <1>3
<1>4. ASSUME claims'[t] = claims[t], s1 = "gone", n1 = 0
      PROVE  Contract!Promised(t)
  BY <1>1, <1>4 DEF Contract!Removed, Terminal, Live, InProgress, Missing
<1>5. ASSUME claims'[t] = claims[t], s \in Live, s1 \in Terminal,
             n1 = n \/ (n1 = n + 1 /\ n < claims[t])
      PROVE  Contract!Promised(t)
  BY <1>1, <1>5
  DEF Contract!Settled, Contract!SettledFrom, Terminal, Live, InProgress
<1>6. ASSUME claims'[t] = claims[t], s \in Terminal, s1 \in Terminal,
             n1 = n + 1, n < claims[t]
      PROVE  Contract!Late(t)
  BY <1>1, <1>6 DEF Contract!SettledFrom, Terminal
<1>10. ASSUME claims'[t] = claims[t], s = "unborn", n = 0, s1 = "queued", n1 = 0
       PROVE  Contract!Promised(t)
  BY <1>10 DEF Contract!Inserted, Terminal
<1>11. ASSUME claims'[t] = claims[t], s \in Terminal, s1 \in Terminal, n1 = n
       PROVE  Contract!Promised(t)
  BY <1>11
<1> HIDE DEF Contract!Promised, Contract!Late, Contract!Keeps, Contract!Moves,
             Contract!Phase, PhaseOf
<1>7. ASSUME NEW p \in pending, t \in p.tasks, Committed(p, t),
             claims'[t] = claims[t]
      PROVE  Contract!Promised(t) \/ Contract!Late(t)
  <2>1. p \in Handler
    BY DEF TypeOK
  <2>2. CASE p.op = "create"
    <3>1. s = "unborn" /\ n = 0
      BY <1>7, <2>2 DEF Births
    <3>2. row'[t] = NoRow("queued") \/ row'[t] = NoRow("gone")
      BY <1>7, <2>2 DEF Committed
    <3>3. CASE s1 = "queued" /\ n1 = 0
      BY <1>7, <1>10, <3>1, <3>3
    <3>4. CASE s1 = "gone" /\ n1 = 0
      BY <1>4, <1>7, <3>4
    <3> QED BY <3>2, <3>3, <3>4 DEF NoRow
  <2>3. CASE p.op = "run"
    <3>1. s1 = "running" /\ n1 = n /\ s \in Live \union Terminal
      BY <1>1, <1>7, <2>1, <2>3, WritesCounted DEF Committed, Exists
    <3> QED BY <1>3, <1>7, <3>1
            DEF Contract!Promised, Contract!Late, Contract!Started, Contract!Moves,
                Contract!Keeps, PhaseOf, Live, InProgress, Terminal
  <2>4. CASE p.op = "result"
    <3>1. s1 = p.verdict /\ n1 = n + 1 /\ s \in Live \union Terminal
      BY <1>1, <1>7, <2>1, <2>4, WritesCounted DEF Committed, Exists
    <3>2. s1 \in Terminal
      BY <2>4, <3>1, ConstantsAssumption DEF TypeOK, Terminal
    <3>3. n < claims[t]
      BY <1>7, <2>4, ReportIsCovered
    <3> QED BY <1>5, <1>6, <1>7, <3>1, <3>2, <3>3
  <2>5. CASE p.op = "cancel"
    <3>1. s1 = "cancelled" /\ n1 = n /\ s \in Live \union Terminal
      BY <1>1, <1>7, <2>5, WritesCounted DEF Committed, Exists
    <3>2. CASE s \in Live
      BY <1>5, <1>7, <3>1, <3>2 DEF Terminal
    <3>3. CASE s \in Terminal
      BY <1>7, <1>11, <3>1, <3>3 DEF Terminal
    <3> QED BY <3>1, <3>2, <3>3
  <2>6. CASE p.op = "delete"
    <3>1. s1 = "gone" /\ n1 = 0
      BY <1>7, <2>6 DEF Committed, NoRow
    <3> QED BY <1>4, <1>7, <3>1
  <2> QED BY <1>7, <2>2, <2>3, <2>4, <2>5, <2>6 DEF Committed
<1>8. ASSUME claims'[t] = claims[t], s \in InProgress,
             row'[t] \in {AgedRow(row[t]), RequeuedRow(row[t]), AbandonedRow(row[t])}
      PROVE  Contract!Promised(t)
  <2>1. CASE row'[t] = AgedRow(row[t])
    BY <1>1, <1>3, <1>8, <2>1, WritesCounted
  <2>2. CASE row'[t] = RequeuedRow(row[t])
    <3>1. s1 = "queued" /\ n1 = n
      BY <1>1, <2>2, WritesCounted
    <3> QED BY <1>8, <3>1
            DEF Contract!Promised, Contract!TakenBack, Contract!Moves,
                Contract!Keeps, PhaseOf, InProgress, Terminal
  <2>3. CASE row'[t] = AbandonedRow(row[t])
    <3>1. s1 = "timeout" /\ n1 = n
      BY <1>1, <2>3, WritesCounted
    <3> QED BY <1>5, <1>8, <3>1 DEF Live, Terminal
  <2> QED BY <1>8, <2>1, <2>2, <2>3
<1>9. CASE claims'[t] = claims[t] /\ row'[t] = NoRow("gone")
  <2>1. s1 = "gone" /\ n1 = 0
    BY <1>9 DEF NoRow
  <2> QED BY <1>4, <1>9, <2>1
<1> QED BY <1>1, <1>2, <1>3, <1>7, <1>8, <1>9 DEF RowMove

(* The refinement: every behaviour of the handlers, the poll, the watchdog,  *)
(* the administrator and the restarts is one of the contract.                *)
THEOREM ContractKept == Spec => LateContract
<1>1. Init => Contract!Init
  BY DEF Init, Contract!Init, NoRow, PhaseOf, Terminal
<1>2. Init => Ledger
  BY LedgerInit
<1>3. TypeOK /\ Births /\ Ledger /\ [Next]_vars => [Contract!Next]_(Contract!vars)
  <2> SUFFICES ASSUME TypeOK, Births, Ledger, [Next]_vars
               PROVE  Contract!Next
    OBVIOUS
  <2>1. TypeOK'
    BY TypeStep
  <2>2. Contract!WellFormed
    BY <2>1 DEF Contract!WellFormed, Contract!Phase, TypeOK, Row, PhaseOf, Live,
                InProgress, Terminal, Missing
  <2> QED BY <2>2, TaskMoves DEF Contract!Next
<1> QED
  BY <1>1, <1>2, <1>3, TypeCorrect, BirthsAlways, LedgerStep, PTL
  DEF Spec, LateContract, Contract!Spec
=============================================================================
