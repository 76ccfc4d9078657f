----------------------------- MODULE Scheduler -----------------------------
(***************************************************************************)
(* Recurring schedules: the background loop that fires the due ones, and   *)
(* the handlers that create, edit, delete and trigger them meanwhile.      *)
(*                                                                         *)
(* Nobody locks a row.  The loop and the handlers load it, await, and      *)
(* commit the columns that differ from what they loaded (UPDATE ... WHERE  *)
(* id = ...; no row found is a StaleDataError that rolls back everything   *)
(* the session did).                                                       *)
(***************************************************************************)
EXTENDS Integers, Sequences, FiniteSets, SequencesExt

CONSTANTS
  Schedule,     \* schedule ids
  Agent,        \* agent ids
  Tag,          \* tags
  Tagged,       \* Tagged[a]: agents.tags
  Able,         \* agents whose capabilities include the schedules' task type
  PerTag,       \* agents_per_tag
  Specs,        \* what create_schedule may be sent
  Patches,      \* what update_schedule may be sent: records of the fields set
  Request,      \* handlers the server may have in flight at once
  Batch,        \* LIMIT of the loop's query
  Worlds        \* bounds, of which one is chosen at the start: the agents
                \* there are, the requests that arrive (specs, patches), the
                \* schedules created, the clock's end (time), the groups a
                \* trigger inserts per schedule (manual), server restarts

Routing == [ids : SUBSET Agent, tags : SUBSET Tag]
Fields  == {"enabled", "target", "ids", "tags", "interval"}

ASSUME ScheduleAssumption ==
  /\ IsFiniteSet(Schedule)
  /\ Tagged \in [Agent -> SUBSET Tag]
  /\ Able \subseteq Agent
  /\ PerTag \in Nat \ {0} /\ Batch \in Nat \ {0}
  /\ Worlds \subseteq [agents : SUBSET Agent, schedules : SUBSET Schedule,
                       specs : SUBSET Specs, patches : SUBSET Patches,
                       time : Nat, manual : Nat, restarts : Nat]
  /\ Specs \subseteq [ids : SUBSET Agent, tags : SUBSET Tag, interval : Nat \ {0}]
  /\ \A spec \in Specs : (spec.ids = {}) # (spec.tags = {})
  /\ \A b \in Patches :
       /\ DOMAIN b \subseteq Fields
       /\ \A f \in DOMAIN b \intersect {"enabled", "target"} : b[f] \in BOOLEAN
       /\ "ids" \in DOMAIN b => b.ids \in SUBSET Agent
       /\ "tags" \in DOMAIN b => b.tags \in SUBSET Tag
       /\ "interval" \in DOMAIN b => b.interval \in Nat \ {0}

VARIABLES
  world,     \* the bounds chosen
  now,       \* the clock
  row,       \* row[s]: the schedule's row
  fleet,     \* fleet[a]: agents.status, "gone" once deleted
  worker,    \* scheduler_loop: where it stands and what its session loaded
  pending,   \* handlers between their load and their commit
  groups,    \* groups[s]: task groups the loop has inserted for s
  manual,    \* manual[s]: task groups triggers have inserted for s
  fired,     \* history: start and interval of the last run the row records
  late,      \* history: groups the loop inserted while s was disabled
  restarts   \* history: server restarts so far

vars == <<world, now, row, fleet, worker, pending, groups, manual, fired, late, restarts>>
history == <<fired, late, restarts>>

-----------------------------------------------------------------------------
\* target says whether the target passes validate_target; next, total and
\* failed are next_run_at, runs_total and runs_failed.
Row == [life : {"unborn", "live", "gone"}, enabled : BOOLEAN, target : BOOLEAN,
        ids : SUBSET Agent, tags : SUBSET Tag, interval : Nat, next : Nat,
        error : {"none", "no_agents", "raised"}, total : Nat, failed : Nat]

NoRow == [life |-> "unborn", enabled |-> FALSE, target |-> TRUE, ids |-> {},
          tags |-> {}, interval |-> 0, next |-> 0, error |-> "none",
          total |-> 0, failed |-> 0]

Worker == [at : {"idle", "ticking", "loaded", "routed", "raised", "marking"},
           due : Seq(Schedule), seen : Row, start : Nat, agents : SUBSET Agent]

Idle == [at |-> "idle", due |-> <<>>, seen |-> NoRow, start |-> 0, agents |-> {}]

Handler == [id : Request, op : {"patch", "delete", "trigger"}, sched : Schedule,
            seen : Row, body : Patches \union {<<>>}, agents : SUBSET Agent]

Init ==
  /\ world \in Worlds
  /\ now = 0
  /\ row = [s \in Schedule |-> NoRow]
  /\ fleet = [a \in Agent |-> IF a \in world.agents THEN "active" ELSE "gone"]
  /\ worker = Idle
  /\ pending = {}
  /\ groups = [s \in Schedule |-> 0]
  /\ manual = [s \in Schedule |-> 0]
  /\ fired = [s \in Schedule |-> [at |-> 0, interval |-> 0]]
  /\ late = [s \in Schedule |-> 0]
  /\ restarts = 0

-----------------------------------------------------------------------------
(* Routing.                                                                *)

Active == {a \in Agent : fleet[a] = "active"}

\* The PerTag most recently seen of a tag's active agents; who those are is
\* left open.
OfTag(t) ==
  LET C == {a \in Active : t \in Tagged[a]}
  IN  {S \in SUBSET C : Cardinality(S) = PerTag \/ (S = C /\ Cardinality(C) < PerTag)}

\* The sets of agents a fire may insert tasks for: agent_ids comes first, and
\* inactive or incapable agents are passed over in silence.  The queries of
\* the tags, one after another, are one step: which agents they find matters
\* to nothing here but whether there is one and whether it stays.
Resolved(r) ==
  IF r.ids # {} THEN {r.ids \intersect Active \intersect Able}
  ELSE {UNION {pick[t] : t \in r.tags} \intersect Able :
          pick \in {p \in [r.tags -> SUBSET Agent] : \A t \in r.tags : p[t] \in OfTag(t)}}

\* A task row references its agent: the insert fails if that is gone.
Insertable(S) == \A a \in S : fleet[a] # "gone"

-----------------------------------------------------------------------------
(* The loop.                                                               *)

\* mutant: disabled schedules are not left out
DueIfLive(r) == r.life = "live" /\ r.next <= now

Due(r) == r.life = "live" /\ r.enabled /\ r.next <= now

DueSet == {s \in Schedule : Due(row[s])}

\* The next schedule of the tick, or the end of it.
Rest(due) == IF due = <<>> THEN Idle ELSE [Idle EXCEPT !.at = "ticking", !.due = due]

\* ORDER BY next_run_at LIMIT Batch
SelectDue ==
  /\ worker.at = "idle"
  /\ \E S \in SUBSET DueSet :
       /\ S # {}
       /\ Cardinality(S) = Batch \/ (S = DueSet /\ Cardinality(S) < Batch)
       /\ \A s \in S, u \in DueSet \ S : row[s].next <= row[u].next
       /\ \E q \in SetToSeqs(S) :
            /\ \A i, j \in DOMAIN q : i < j => row[q[i]].next <= row[q[j]].next
            /\ worker' = Rest(q)
  /\ UNCHANGED <<now, row, fleet, pending, groups, manual, history>>

\* _fire_one loads the row again and leaves it alone unless it is still due.
LoadFire ==
  /\ worker.at = "ticking"
  /\ LET s == Head(worker.due)
     IN  worker' = IF Due(row[s])
                   THEN [worker EXCEPT !.at = "loaded", !.seen = row[s], !.start = now]
                   ELSE Rest(Tail(worker.due))
  /\ UNCHANGED <<now, row, fleet, pending, groups, manual, history>>

\* fire_schedule: a bad target raises; PATCH does not check targets.
Route ==
  /\ worker.at = "loaded"
  /\ \/ /\ ~ worker.seen.target
        /\ worker' = [worker EXCEPT !.at = "raised"]
     \/ /\ worker.seen.target
        /\ \E S \in Resolved(worker.seen) :
             worker' = [worker EXCEPT !.at = "routed", !.agents = S]
  /\ UNCHANGED <<now, row, fleet, pending, groups, manual, history>>

\* mutant: missed intervals are caught up on
NextAfterDue(r, t) == r.next + r.interval

NextAfter(r, t) == t + r.interval

\* mutant: a run without agents is not counted as failed
CountedEmptyRun(r, seen, S, t) ==
  [r EXCEPT !.total = seen.total + 1,
            !.error = IF S # {} THEN "none" ELSE "no_agents",
            !.next = NextAfter(seen, t)]

\* The columns _fire_one writes; last_run_error only if it differs from what
\* was loaded.
FiredRow(r, seen, S, t) ==
  LET error == IF S # {} THEN "none" ELSE "no_agents"
  IN  [r EXCEPT !.total = seen.total + 1,
                !.failed = IF S = {} THEN seen.failed + 1 ELSE @,
                !.error = IF error # seen.error THEN error ELSE @,
                !.next = NextAfter(seen, t)]

\* Tasks and columns in one commit.
CommitFire ==
  LET s == Head(worker.due)
      S == worker.agents
  IN  /\ worker.at = "routed"
      /\ \/ /\ row[s].life = "gone" \/ ~ Insertable(S)
            /\ worker' = [worker EXCEPT !.at = "raised"]
            /\ UNCHANGED <<row, groups, fired, late>>
         \/ /\ row[s].life = "live" /\ Insertable(S)
            /\ row' = [row EXCEPT ![s] = FiredRow(@, worker.seen, S, worker.start)]
            /\ groups' = [groups EXCEPT ![s] = IF S = {} THEN @ ELSE @ + 1]
            /\ fired' = [fired EXCEPT ![s] = [at |-> worker.start,
                                              interval |-> worker.seen.interval]]
            /\ late' = [late EXCEPT ![s] = IF row[s].enabled \/ S = {} THEN @ ELSE @ + 1]
            /\ worker' = Rest(Tail(worker.due))
      /\ UNCHANGED <<now, fleet, pending, manual, restarts>>

\* The error is put on the row in a session of its own.
LoadFailed ==
  /\ worker.at = "raised"
  /\ LET s == Head(worker.due)
     IN  worker' = IF row[s].life = "live"
                   THEN [worker EXCEPT !.at = "marking", !.seen = row[s], !.start = now]
                   ELSE Rest(Tail(worker.due))
  /\ UNCHANGED <<now, row, fleet, pending, groups, manual, history>>

\* mutant: only the error is recorded, the schedule stays due
FailedRowStaysDue(r, seen, t) == [r EXCEPT !.error = "raised"]

FailedRow(r, seen, t) ==
  [r EXCEPT !.error = IF seen.error # "raised" THEN "raised" ELSE @,
            !.failed = seen.failed + 1,
            !.total = seen.total + 1,
            !.next = NextAfter(seen, t)]

\* If the row is gone by now the exception ends the tick.
CommitFailed ==
  LET s == Head(worker.due)
  IN  /\ worker.at = "marking"
      /\ \/ /\ row[s].life = "gone"
            /\ worker' = Idle
            /\ UNCHANGED <<row, fired>>
         \/ /\ row[s].life = "live"
            /\ row' = [row EXCEPT ![s] = FailedRow(@, worker.seen, worker.start)]
            /\ fired' = [fired EXCEPT ![s] = [at |-> worker.start,
                                              interval |-> worker.seen.interval]]
            /\ worker' = Rest(Tail(worker.due))
      /\ UNCHANGED <<now, fleet, pending, groups, manual, late, restarts>>

-----------------------------------------------------------------------------
(* The handlers of api/schedules.py.                                       *)

CreateSchedule(s, spec, on) ==
  /\ row[s].life = "unborn"
  /\ row' = [row EXCEPT ![s] =
       [NoRow EXCEPT !.life = "live", !.enabled = on, !.ids = spec.ids,
                     !.tags = spec.tags, !.interval = spec.interval, !.next = now]]
  /\ UNCHANGED <<now, fleet, worker, pending, groups, manual, history>>

Load(id, op, s, body, S) ==
  /\ row[s].life = "live"
  /\ \A p \in pending : p.id # id
  /\ pending' = pending \union {[id |-> id, op |-> op, sched |-> s, seen |-> row[s],
                                 body |-> body, agents |-> S]}
  /\ UNCHANGED <<now, row, fleet, worker, groups, manual, history>>

LoadPatch(id, s, body) == Load(id, "patch", s, body, {})
LoadDelete(id, s)      == Load(id, "delete", s, <<>>, {})

\* A bad target is refused here.
LoadTrigger(id, s) ==
  /\ row[s].target
  /\ manual[s] + Cardinality({p \in pending : p.op = "trigger" /\ p.sched = s}) < world.manual
  /\ \E S \in Resolved(row[s]) : Load(id, "trigger", s, <<>>, S)

Changed(p) == {f \in DOMAIN p.body : p.body[f] # p.seen[f]}

\* The fields that differ from the loaded row, and the error of a schedule
\* that is disabled then.
PatchedRow(r, p) ==
  LET new(f, old) == IF f \in Changed(p) THEN p.body[f] ELSE old
  IN  [r EXCEPT !.enabled = new("enabled", @), !.target = new("target", @),
                !.ids = new("ids", @), !.tags = new("tags", @),
                !.interval = new("interval", @),
                !.error = IF ~ new("enabled", p.seen.enabled) /\ p.seen.error # "none"
                          THEN "none" ELSE @]

\* Nothing is committed when no field changed.
CommitPatch(p) ==
  /\ p.op = "patch"
  /\ row' = [row EXCEPT ![p.sched] = IF Changed(p) # {} /\ @.life = "live"
                                     THEN PatchedRow(@, p) ELSE @]
  /\ late' = [late EXCEPT ![p.sched] = IF row'[p.sched].enabled THEN 0 ELSE @]
  /\ pending' = pending \ {p}
  /\ UNCHANGED <<now, fleet, worker, groups, manual, fired, restarts>>

CommitDelete(p) ==
  /\ p.op = "delete"
  /\ row' = [row EXCEPT ![p.sched].life = "gone"]
  /\ pending' = pending \ {p}
  /\ UNCHANGED <<now, fleet, worker, groups, manual, history>>

\* The trigger writes nothing to the schedule's row, so it does not notice
\* that this is gone.
CommitTrigger(p) ==
  /\ p.op = "trigger"
  /\ manual' = [manual EXCEPT ![p.sched] =
                  IF p.agents # {} /\ Insertable(p.agents) THEN @ + 1 ELSE @]
  /\ pending' = pending \ {p}
  /\ UNCHANGED <<now, row, fleet, worker, groups, history>>

-----------------------------------------------------------------------------
(* The agents, the clock and the server process.                           *)

SetAgentStatus(a, status) ==
  /\ fleet[a] # "gone"
  /\ fleet' = [fleet EXCEPT ![a] = status]
  /\ UNCHANGED <<now, row, worker, pending, groups, manual, history>>

Tick ==
  /\ now < world.time
  /\ now' = now + 1
  /\ UNCHANGED <<row, fleet, worker, pending, groups, manual, history>>

ServerRestart ==
  /\ restarts < world.restarts
  /\ restarts' = restarts + 1
  /\ worker' = Idle
  /\ pending' = {}
  /\ UNCHANGED <<now, row, fleet, groups, manual, fired, late>>

-----------------------------------------------------------------------------
Loop ==
  \/ SelectDue \/ LoadFire \/ Route \/ CommitFire \/ LoadFailed \/ CommitFailed

Handlers ==
  \/ \E s \in world.schedules, spec \in world.specs, on \in BOOLEAN : CreateSchedule(s, spec, on)
  \/ \E id \in Request, s \in Schedule :
       \/ LoadDelete(id, s) \/ LoadTrigger(id, s)
       \/ \E body \in world.patches : LoadPatch(id, s, body)
  \/ \E p \in pending : CommitPatch(p) \/ CommitDelete(p) \/ CommitTrigger(p)

Environment ==
  \/ \E a \in Agent, status \in {"active", "disabled", "gone"} : SetAgentStatus(a, status)
  \/ Tick
  \/ ServerRestart

Next == (Loop \/ Handlers \/ Environment) /\ UNCHANGED world

Spec == Init /\ [][Next]_vars

\* asyncio runs scheduler_loop forever.
FairSpec == Spec /\ WF_vars(Loop /\ UNCHANGED world)

-----------------------------------------------------------------------------
(* Properties.                                                             *)

(* Every variable has its type; the loop stands at a schedule unless idle. *)
TypeOK ==
  /\ world \in Worlds
  /\ now \in Nat
  /\ row \in [Schedule -> Row]
  /\ fleet \in [Agent -> {"active", "disabled", "gone"}]
  /\ worker \in Worker
  /\ worker.at # "idle" => worker.due # <<>>
  /\ pending \subseteq Handler
  /\ groups \in [Schedule -> Nat]
  /\ manual \in [Schedule -> Nat]
  /\ fired \in [Schedule -> [at : Nat, interval : Nat]]
  /\ late \in [Schedule -> Nat]
  /\ restarts \in Nat

(* The row's counters tell the truth about the tasks: every run the loop    *)
(* counts either inserted a group or counts as failed, and no group is      *)
(* inserted that the row does not count, whatever edits, deletions of       *)
(* agents or of the schedule and restarts fall into a fire                  *)
(* (scheduler.py:98-106, 72-85).                                            *)
RunsAreCounted ==
  \A s \in Schedule : row[s].total = groups[s] + row[s].failed

(* Two recorded runs of a schedule start at least the interval apart that   *)
(* the first one read: no catch-up, and no double run after a restart or a  *)
(* failure (scheduler.py:11-12).                                            *)
RunsAreSpaced ==
  [][\A s \in Schedule : fired'[s] # fired[s]
       => fired'[s].at >= fired[s].at + fired[s].interval]_vars

(* After a schedule is disabled the loop inserts at most the one group that *)
(* was on its way (scheduler.py:90).                                        *)
AtMostOneLateRun == \A s \in Schedule : late[s] <= 1

(* A due schedule is run, or moved on with its error recorded, unless it is *)
(* disabled or deleted first: no failing, deleted or edited neighbour and   *)
(* no limit on the batch starves it (scheduler.py:54-85).                   *)
DueIsTried ==
  \A s \in Schedule : Due(row[s]) ~> ~ Due(row[s])

=============================================================================
