---------------------------- MODULE AgentWorkers ----------------------------
(***************************************************************************)
(* The agent's goroutines: the poll loop, one goroutine per task behind    *)
(* the worker semaphore and the per-type gate, the two other loops, and    *)
(* the main goroutine that waits for them and then for the tasks.          *)
(*                                                                         *)
(* A Go channel used as a semaphore is the number of its elements.  A      *)
(* select whose cases are several ready picks any, so an action that waits *)
(* for a slot may be taken with the context cancelled.                     *)
(***************************************************************************)
EXTENDS Integers, FiniteSets

CONSTANTS
  Job,             \* the tasks the server has for this agent, each once
  Type,            \* their types
  JobType,         \* JobType[j]
  Known,           \* types with a registered runner
  Caps,            \* ConcurrencyCaps, a function on the capped types
  MaxConcurrency,  \* AGENT_MAX_CONCURRENCY
  Stuck            \* jobs whose runner has no time limit: it may never return

ASSUME AgentAssumption ==
  /\ IsFiniteSet(Job)
  /\ JobType \in [Job -> Type]
  /\ Known \subseteq Type
  /\ DOMAIN Caps \subseteq Type
  /\ \A t \in DOMAIN Caps : Caps[t] \in Nat \ {0}
  /\ MaxConcurrency \in Nat \ {0}
  /\ Stuck \subseteq Job

VARIABLES
  poll,       \* where pollLoop stands
  slots,      \* len(workers)
  gates,      \* gates[t]: len of the gate's channel
  job,        \* job[j]: where its goroutine stands
  holds,      \* tasks whose release() gives back a slot of their gate
  cancelled,  \* the context: SIGTERM has arrived
  loops,      \* the loops that have not returned
  main        \* where run() stands

vars == <<poll, slots, gates, job, holds, cancelled, loops, main>>

Capped  == DOMAIN Caps
Loop    == {"heartbeat", "poll", "metrics"}
Busy    == {"started", "running", "submitting"}
Working == {j \in Job : job[j] \in Busy}    \* executeTask has not returned
Up      == main # "exited"

Init ==
  /\ poll = "waiting"
  /\ slots = 0
  /\ gates = [t \in Capped |-> 0]
  /\ job = [j \in Job |-> "queued"]
  /\ holds = {}
  /\ cancelled = FALSE
  /\ loops = Loop
  /\ main = "running"

-----------------------------------------------------------------------------
(* pollLoop.                                                               *)

PollTick ==
  /\ Up /\ poll = "waiting"
  /\ poll' = "acquiring"
  /\ UNCHANGED <<slots, gates, job, holds, cancelled, loops, main>>

TakeSlot ==
  /\ Up /\ poll = "acquiring"
  /\ slots < MaxConcurrency
  /\ slots' = slots + 1
  /\ poll' = "polling"
  /\ UNCHANGED <<gates, job, holds, cancelled, loops, main>>

StopPolling ==
  /\ Up /\ cancelled
  /\ poll \in {"waiting", "acquiring"}
  /\ poll' = "stopped"
  /\ loops' = loops \ {"poll"}
  /\ UNCHANGED <<slots, gates, job, holds, cancelled, main>>

\* The slot goes over to the task's goroutine.
PollTask(j) ==
  /\ Up /\ poll = "polling" /\ ~ cancelled
  /\ job[j] = "queued"
  /\ job' = [job EXCEPT ![j] = "started"]
  /\ poll' = "waiting"
  /\ UNCHANGED <<slots, gates, holds, cancelled, loops, main>>

\* mutant: an empty answer keeps the slot
PollFailsKeepingSlot ==
  /\ Up /\ poll = "polling"
  /\ poll' = "waiting"
  /\ UNCHANGED <<slots, gates, job, holds, cancelled, loops, main>>

\* No task, a refusal or an error; the server may have claimed a task whose
\* answer was lost.
PollFails ==
  /\ Up /\ poll = "polling"
  /\ poll' = "waiting"
  /\ slots' = slots - 1
  /\ \/ UNCHANGED job
     \/ \E j \in Job : job[j] = "queued" /\ job' = [job EXCEPT ![j] = "lost"]
  /\ UNCHANGED <<gates, holds, cancelled, loops, main>>

-----------------------------------------------------------------------------
(* executeTask.                                                            *)

\* No runner for the type: reported before the gate.
Unsupported(j) ==
  /\ Up /\ job[j] = "started"
  /\ JobType[j] \notin Known
  /\ job' = [job EXCEPT ![j] = "submitting"]
  /\ UNCHANGED <<poll, slots, gates, holds, cancelled, loops, main>>

HasRoom(t) == t \in Capped => gates[t] < Caps[t]

\* gate.Acquire; the task waits in "started" until its type has room.
Acquire(j) ==
  LET t == JobType[j]
  IN  /\ Up /\ job[j] = "started" /\ t \in Known
      /\ HasRoom(t)
      /\ gates' = [u \in Capped |-> IF u = t THEN gates[u] + 1 ELSE gates[u]]
      /\ holds' = IF t \in Capped THEN holds \union {j} ELSE holds
      /\ job' = [job EXCEPT ![j] = "running"]
      /\ UNCHANGED <<poll, slots, cancelled, loops, main>>

AcquireCancelled(j) ==
  /\ Up /\ cancelled
  /\ job[j] = "started" /\ JobType[j] \in Known \intersect Capped
  /\ job' = [job EXCEPT ![j] = "submitting"]
  /\ UNCHANGED <<poll, slots, gates, holds, cancelled, loops, main>>

RunEnds(j) ==
  /\ Up /\ job[j] = "running"
  /\ job' = [job EXCEPT ![j] = "submitting"]
  /\ UNCHANGED <<poll, slots, gates, holds, cancelled, loops, main>>

\* mutant: release() is called only once the result was accepted
ReleasedIfSent(j, sent) ==
  [t \in Capped |-> IF t = JobType[j] /\ j \in holds /\ sent THEN gates[t] - 1
                                                             ELSE gates[t]]

\* The deferred release(), run after the submission whatever came of it.
Released(j, sent) ==
  [t \in Capped |-> IF t = JobType[j] /\ j \in holds THEN gates[t] - 1 ELSE gates[t]]

\* SubmitResult uses the loops' context: once that is cancelled the request
\* fails at once.  It is not tried again.
Submit(j, sent) ==
  /\ Up /\ job[j] = "submitting"
  /\ sent => ~ cancelled
  /\ gates' = Released(j, sent)
  /\ holds' = holds \ {j}
  /\ slots' = slots - 1
  /\ job' = [job EXCEPT ![j] = "done"]
  /\ UNCHANGED <<poll, cancelled, loops, main>>

-----------------------------------------------------------------------------
(* main() and run().                                                       *)

Signal ==
  /\ Up /\ ~ cancelled
  /\ cancelled' = TRUE
  /\ UNCHANGED <<poll, slots, gates, job, holds, loops, main>>

\* The heartbeat loop fails when a new registration cannot be saved, the
\* metrics server when it cannot bind; both end with the context.
LoopEnds(l) ==
  /\ Up /\ l \in loops \intersect {"heartbeat", "metrics"}
  /\ loops' = loops \ {l}
  /\ UNCHANGED <<poll, slots, gates, job, holds, cancelled, main>>

\* err = <-errCh.  Nothing is cancelled if it is an error.
StartDraining ==
  /\ main = "running"
  /\ loops # Loop
  /\ main' = "draining"
  /\ UNCHANGED <<poll, slots, gates, job, holds, cancelled, loops>>

\* taskWG.Wait returned.
Drained ==
  /\ main = "draining"
  /\ Working = {}
  /\ main' = "exited"
  /\ UNCHANGED <<poll, slots, gates, job, holds, cancelled, loops>>

\* Fifteen seconds have passed; what is still going dies with the process.
GraceOver ==
  /\ main = "draining"
  /\ Working # {}
  /\ main' = "exited"
  /\ job' = [j \in Job |-> IF job[j] \in Busy THEN "killed" ELSE job[j]]
  /\ UNCHANGED <<poll, slots, gates, holds, cancelled, loops>>

-----------------------------------------------------------------------------
PollLoop == PollTick \/ TakeSlot \/ StopPolling \/ PollFails \/ \E j \in Job : PollTask(j)

Execute(j) ==
  \/ Unsupported(j) \/ Acquire(j) \/ AcquireCancelled(j)
  \/ \E sent \in BOOLEAN : Submit(j, sent)

Run == StartDraining \/ Drained \/ GraceOver

Next ==
  \/ PollLoop
  \/ \E j \in Job : Execute(j) \/ RunEnds(j)
  \/ \E l \in Loop : LoopEnds(l)
  \/ Signal
  \/ Run

Spec == Init /\ [][Next]_vars

\* Goroutines run on, requests end by the client's timeout, the grace period
\* passes, and a runner with a time limit returns.
Fairness ==
  /\ WF_vars(PollLoop)
  /\ WF_vars(Run)
  /\ \A j \in Job : WF_vars(Execute(j))
  /\ \A j \in Job \ Stuck : WF_vars(RunEnds(j))

FairSpec == Spec /\ Fairness

-----------------------------------------------------------------------------
(* Properties.                                                             *)

(* Every variable has its type. *)
TypeOK ==
  /\ poll \in {"waiting", "acquiring", "polling", "stopped"}
  /\ slots \in Nat
  /\ gates \in [Capped -> Nat]
  /\ job \in [Job -> {"queued", "lost", "done", "killed"} \union Busy]
  /\ holds \subseteq Job
  /\ cancelled \in BOOLEAN
  /\ loops \subseteq Loop
  /\ main \in {"running", "draining", "exited"}

(* While the agent is up the worker semaphore counts exactly the tasks      *)
(* under way and the poll that is out, so no slot leaks, whichever way a    *)
(* poll or a task ends, and no more than MaxConcurrency are claimed         *)
(* (main.go:222-256); a capped type never has more tasks at work than its   *)
(* cap, and its gate counts exactly those, also when waiters are cancelled  *)
(* (concurrency.go:41-56).                                                  *)
Inside(t) == {j \in Job : JobType[j] = t /\ job[j] = "running"}
Holders(t) == {j \in holds : JobType[j] = t}
SlotsAccountedFor ==
  /\ Up => slots = Cardinality(Working) + (IF poll = "polling" THEN 1 ELSE 0)
  /\ slots <= MaxConcurrency
  /\ \A t \in Capped :
       /\ Inside(t) \subseteq Holders(t)
       /\ gates[t] = Cardinality(Holders(t))
       /\ gates[t] <= Caps[t]

\* Every slot of the type's gate is held by a runner without a time limit.
Hung(t) ==
  /\ t \in Capped
  /\ Cardinality({k \in Stuck : k \in Holders(t) /\ job[k] = "running"}) = Caps[t]

\* So is every worker, or it waits at such a gate.
Clogged ==
  /\ slots = MaxConcurrency
  /\ \A j \in Working :
       \/ j \in Stuck /\ job[j] = "running"
       \/ job[j] = "started" /\ Hung(JobType[j])

(* Every task the agent takes on comes to its end, whatever goes on beside  *)
(* it, unless all the slots of its type's gate are held for good by runs    *)
(* that never return, or the process exits; and a poll that waits for a     *)
(* worker gets one, unless from some time on every worker is such a run or  *)
(* waits at such a gate: one hping3 that hangs is enough to fill the pool   *)
(* with the ones behind it (main.go:90-93, :226-232, :294).                 *)
TasksFinish ==
  /\ \A j \in Job \ Stuck :
       \/ (job[j] = "started") ~> (job[j] \in {"done", "killed"} \/ ~ Up)
       \/ <>[]Hung(JobType[j])
  /\ \/ (poll = "acquiring") ~> (poll # "acquiring" \/ ~ Up)
     \/ <>[]Clogged

=============================================================================
