-------------------------- MODULE SchedulerProofs --------------------------
(* What holds of Scheduler for every number of schedules, agents, handlers  *)
(* and patches.                                                             *)
EXTENDS Scheduler, FiniteSetTheorems, SequenceTheorems, TLAPS

\* Where the loop has a schedule's row in hand, and which one.
Holding == {"loaded", "routed", "marking"}
Current == Head(worker.due)

(* A row that does not exist yet has no history.                            *)
NoPast ==
  \A s \in Schedule : row[s].life = "unborn" =>
    groups[s] = 0 /\ late[s] = 0 /\ fired[s] = [at |-> 0, interval |-> 0]

(* A handler in flight has loaded a row that exists or did.                 *)
HandlersKnow == \A p \in pending : row[p.sched].life # "unborn"

(* Nobody but the loop writes the counters and the time of the next run: as *)
(* long as it has a row in hand, what it loaded of these is what is there.  *)
SeenIsTrue ==
  /\ worker.at \in Holding =>
       /\ row[Current].life # "unborn"
       /\ row[Current].total = worker.seen.total
       /\ row[Current].failed = worker.seen.failed
       /\ row[Current].next <= worker.start
       /\ worker.start <= now
  /\ worker.at = "raised" => row[Current].life # "unborn" /\ row[Current].next <= now

(* No run is late while a schedule is enabled, nor while a fire that found  *)
(* it enabled is on its way.                                                *)
LateAfterDisable ==
  /\ \A s \in Schedule : late[s] <= 1 /\ (row[s].enabled => late[s] = 0)
  /\ worker.at \in {"loaded", "routed"} => late[Current] = 0

(* The next run is not due before the interval of the last one has passed.  *)
NextIsSpaced ==
  \A s \in Schedule :
    row[s].life # "unborn" => fired[s].at + fired[s].interval <= row[s].next

IInv == /\ TypeOK /\ NoPast /\ HandlersKnow /\ RunsAreCounted /\ SeenIsTrue
        /\ LateAfterDisable /\ NextIsSpaced

-----------------------------------------------------------------------------
(* Types.                                                                   *)

LEMMA IdleTyped == NoRow \in Row /\ Idle \in Worker /\ Idle.at = "idle"
<1>1. NoRow \in Row
  BY DEF NoRow, Row
<1>2. <<>> \in Seq(Schedule)
  BY EmptySeq
<1> QED BY <1>1, <1>2 DEF Idle, Worker

LEMMA RestTyped ==
  ASSUME NEW due \in Seq(Schedule)
  PROVE  /\ Rest(due) \in Worker
         /\ Rest(due).at \in {"idle", "ticking"}
         /\ Rest(due).at # "idle" => Rest(due).due # <<>>
  BY IdleTyped DEF Rest, Idle, Worker

(* The schedule at hand, and the rest of the batch.                         *)
LEMMA CurrentTyped ==
  ASSUME TypeOK, worker.at # "idle"
  PROVE  /\ worker.due \in Seq(Schedule) /\ Current \in Schedule
         /\ Tail(worker.due) \in Seq(Schedule)
<1>1. worker.due \in Seq(Schedule) /\ worker.due # <<>>
  BY DEF TypeOK, Worker
<1> QED BY <1>1, HeadTailProperties DEF Current

LEMMA ResolvedTyped ==
  ASSUME NEW r, NEW S \in Resolved(r)
  PROVE  S \in SUBSET Agent
  BY ScheduleAssumption DEF Resolved

(* What the loop writes on a row is a row.                                  *)
LEMMA FiredTyped ==
  ASSUME NEW r \in Row, NEW seen \in Row, NEW S, NEW t \in Nat
  PROVE  /\ FiredRow(r, seen, S, t) \in Row
         /\ FiredRow(r, seen, S, t).life = r.life
         /\ FiredRow(r, seen, S, t).enabled = r.enabled
         /\ FiredRow(r, seen, S, t).total = seen.total + 1
         /\ FiredRow(r, seen, S, t).failed = IF S = {} THEN seen.failed + 1 ELSE r.failed
         /\ FiredRow(r, seen, S, t).next = t + seen.interval
<1> DEFINE error  == IF S # {} THEN "none" ELSE "no_agents"
           failed == IF S = {} THEN seen.failed + 1 ELSE r.failed
           shown  == IF error # seen.error THEN error ELSE r.error
           next   == t + seen.interval
<1>1. failed \in Nat /\ next \in Nat /\ seen.total + 1 \in Nat
  BY DEF Row
<1>2. shown \in {"none", "no_agents", "raised"}
  BY DEF Row
<1>3. FiredRow(r, seen, S, t) = [r EXCEPT !.total = seen.total + 1, !.failed = failed,
                                          !.error = shown, !.next = next]
  BY DEF FiredRow, NextAfter, Row
<1> HIDE DEF failed, shown, next
<1>4. [r EXCEPT !.total = seen.total + 1, !.failed = failed,
                !.error = shown, !.next = next] \in Row
  BY <1>1, <1>2 DEF Row
<1> QED BY <1>3, <1>4 DEF Row, failed, next

LEMMA FailedTyped ==
  ASSUME NEW r \in Row, NEW seen \in Row, NEW t \in Nat
  PROVE  /\ FailedRow(r, seen, t) \in Row
         /\ FailedRow(r, seen, t).life = r.life
         /\ FailedRow(r, seen, t).enabled = r.enabled
         /\ FailedRow(r, seen, t).total = seen.total + 1
         /\ FailedRow(r, seen, t).failed = seen.failed + 1
         /\ FailedRow(r, seen, t).next = t + seen.interval
<1> DEFINE shown == IF seen.error # "raised" THEN "raised" ELSE r.error
           next  == t + seen.interval
<1>1. next \in Nat /\ seen.total + 1 \in Nat /\ seen.failed + 1 \in Nat
  BY DEF Row
<1>2. shown \in {"none", "no_agents", "raised"}
  BY DEF Row
<1>3. FailedRow(r, seen, t) = [r EXCEPT !.error = shown, !.failed = seen.failed + 1,
                                        !.total = seen.total + 1, !.next = next]
  BY DEF FailedRow, NextAfter, Row
<1> HIDE DEF shown, next
<1>4. [r EXCEPT !.error = shown, !.failed = seen.failed + 1,
                !.total = seen.total + 1, !.next = next] \in Row
  BY <1>1, <1>2 DEF Row
<1> QED BY <1>3, <1>4 DEF Row, next

(* A patch touches neither the counters nor the time of the next run.       *)
LEMMA PatchedTyped ==
  ASSUME NEW r \in Row, NEW p \in Handler
  PROVE  /\ PatchedRow(r, p) \in Row
         /\ PatchedRow(r, p).life = r.life /\ PatchedRow(r, p).next = r.next
         /\ PatchedRow(r, p).total = r.total /\ PatchedRow(r, p).failed = r.failed
<1> DEFINE new(f, old) == IF f \in Changed(p) THEN p.body[f] ELSE old
<1>1. p.body \in Patches \/ p.body = <<>>
  BY DEF Handler
<1>2. Changed(p) \subseteq DOMAIN p.body
  BY DEF Changed
<1>3. /\ new("enabled", r.enabled) \in BOOLEAN /\ new("target", r.target) \in BOOLEAN
      /\ new("ids", r.ids) \in SUBSET Agent /\ new("tags", r.tags) \in SUBSET Tag
      /\ new("interval", r.interval) \in Nat
  <2>0. CASE p.body = <<>>
    BY <1>2, <2>0 DEF Row
  <2>1. CASE p.body \in Patches
    <3>1. new("enabled", r.enabled) \in BOOLEAN
      BY <1>2, <2>1, ScheduleAssumption DEF Row
    <3>2. new("target", r.target) \in BOOLEAN
      BY <1>2, <2>1, ScheduleAssumption DEF Row
    <3>3. new("ids", r.ids) \in SUBSET Agent /\ new("tags", r.tags) \in SUBSET Tag
      BY <1>2, <2>1, ScheduleAssumption DEF Row
    <3>4. new("interval", r.interval) \in Nat
      BY <1>2, <2>1, ScheduleAssumption DEF Row
    <3> QED BY <3>1, <3>2, <3>3, <3>4
  <2> QED BY <1>1, <2>0, <2>1
<1> DEFINE enabled  == new("enabled", r.enabled)
           target   == new("target", r.target)
           ids      == new("ids", r.ids)
           tags     == new("tags", r.tags)
           interval == new("interval", r.interval)
           error    == IF ~ new("enabled", p.seen.enabled) /\ p.seen.error # "none"
                       THEN "none" ELSE r.error
           patched  == [r EXCEPT !.enabled = enabled, !.target = target, !.ids = ids,
                                 !.tags = tags, !.interval = interval, !.error = error]
<1>4. error \in {"none", "no_agents", "raised"}
  BY DEF Row
<1>5. PatchedRow(r, p) = patched
  BY DEF PatchedRow
<1>6. /\ enabled \in BOOLEAN /\ target \in BOOLEAN /\ ids \in SUBSET Agent
      /\ tags \in SUBSET Tag /\ interval \in Nat
  BY <1>3
<1> HIDE DEF enabled, target, ids, tags, interval, error
<1>7. patched \in Row
  BY <1>4, <1>6 DEF Row
<1>8. /\ patched.life = r.life /\ patched.next = r.next
      /\ patched.total = r.total /\ patched.failed = r.failed
  BY DEF Row
<1> HIDE DEF patched
<1> QED BY <1>5, <1>7, <1>8

-----------------------------------------------------------------------------
(* Steps that leave what the loop writes alone.                             *)

LEMMA IInvInit == Init => IInv
<1> SUFFICES ASSUME Init PROVE IInv
  OBVIOUS
<1> USE DEF Init
<1>1. NoRow \in Row /\ Idle \in Worker /\ Idle.at = "idle" /\ NoRow.life = "unborn"
      /\ NoRow.enabled = FALSE /\ NoRow.total = 0 /\ NoRow.failed = 0
  BY IdleTyped DEF NoRow
<1>2. TypeOK
  BY <1>1 DEF TypeOK
<1>3. NoPast /\ HandlersKnow /\ RunsAreCounted /\ NextIsSpaced
  BY <1>1 DEF NoPast, HandlersKnow, RunsAreCounted, NextIsSpaced
<1>4. SeenIsTrue /\ LateAfterDisable
  BY <1>1 DEF SeenIsTrue, LateAfterDisable, Holding
<1> QED BY <1>2, <1>3, <1>4 DEF IInv

(* Handlers may create rows, edit and delete them, and end a late run.      *)
LEMMA HandlerStep ==
  ASSUME IInv, TypeOK', UNCHANGED <<worker, groups, fired>>, now <= now',
         \A p \in pending' : p \in pending \/ row[p.sched].life # "unborn",
         \A s \in Schedule :
           /\ row[s].life = "unborn" /\ row'[s].life # "unborn" =>
                row'[s].total = 0 /\ row'[s].failed = 0
           /\ row[s].life = "unborn" /\ row'[s].life = "unborn" => row'[s] = row[s]
           /\ row[s].life # "unborn" =>
                /\ row'[s].life # "unborn" /\ row'[s].total = row[s].total
                /\ row'[s].failed = row[s].failed /\ row'[s].next = row[s].next
           /\ late'[s] = late[s] \/ late'[s] = 0
           /\ row'[s].enabled => late'[s] = 0
  PROVE  IInv'
<1>0. TypeOK /\ NoPast /\ RunsAreCounted /\ SeenIsTrue /\ LateAfterDisable /\ NextIsSpaced
  BY DEF IInv
<1>1. NoPast' /\ HandlersKnow'
  <2>1. ASSUME NEW p \in pending' PROVE row'[p.sched].life # "unborn"
    BY DEF IInv, HandlersKnow, TypeOK, Handler
  <2> QED BY <1>0, <2>1 DEF NoPast, HandlersKnow
<1>2. RunsAreCounted'
  <2>1. ASSUME NEW s \in Schedule PROVE (row[s].total = groups[s] + row[s].failed)'
    <3>1. row[s].total = groups[s] + row[s].failed
      BY <1>0 DEF RunsAreCounted
    <3>2. CASE row[s].life # "unborn"
      BY <3>1, <3>2
    <3>3. CASE row[s].life = "unborn" /\ row'[s].life = "unborn"
      BY <3>1, <3>3
    <3>4. CASE row[s].life = "unborn" /\ row'[s].life # "unborn"
      BY <1>0, <3>4 DEF NoPast
    <3> QED BY <3>2, <3>3, <3>4
  <2> QED BY <2>1 DEF RunsAreCounted
<1>3. SeenIsTrue'
  <2>1. now \in Nat /\ now' \in Nat
    BY <1>0 DEF TypeOK
  <2>2. ASSUME worker.at \in Holding
        PROVE  /\ row'[Current].life # "unborn"
               /\ row'[Current].total = worker.seen.total
               /\ row'[Current].failed = worker.seen.failed
               /\ row'[Current].next <= worker.start /\ worker.start <= now'
    <3>1. Current \in Schedule /\ worker.start \in Nat
      BY <1>0, <2>2, CurrentTyped DEF Holding, TypeOK, Worker
    <3> QED BY <1>0, <2>1, <2>2, <3>1 DEF SeenIsTrue
  <2>3. ASSUME worker.at = "raised"
        PROVE  row'[Current].life # "unborn" /\ row'[Current].next <= now'
    <3>1. Current \in Schedule /\ row[Current].next \in Nat
      BY <1>0, <2>3, CurrentTyped DEF TypeOK, Row
    <3>2. row[Current].life # "unborn" /\ row[Current].next <= now
      BY <1>0, <2>3 DEF SeenIsTrue
    <3> QED BY <2>1, <3>1, <3>2
  <2> QED BY <2>2, <2>3 DEF SeenIsTrue, Current
<1>4. LateAfterDisable'
  <2>1. \A s \in Schedule : late'[s] <= 1 /\ (row'[s].enabled => late'[s] = 0)
    BY <1>0 DEF LateAfterDisable
  <2>2. ASSUME worker.at \in {"loaded", "routed"} PROVE late'[Current] = 0
    <3>1. Current \in Schedule
      BY <1>0, <2>2, CurrentTyped
    <3> QED BY <1>0, <2>2, <3>1 DEF LateAfterDisable
  <2> QED BY <2>1, <2>2 DEF LateAfterDisable, Current
<1>5. NextIsSpaced'
  <2>1. ASSUME NEW s \in Schedule, row'[s].life # "unborn"
        PROVE  fired[s].at + fired[s].interval <= row'[s].next
    <3>1. CASE row[s].life # "unborn"
      BY <1>0, <2>1, <3>1 DEF NextIsSpaced
    <3>2. CASE row[s].life = "unborn"
      <4>1. fired[s] = [at |-> 0, interval |-> 0]
        BY <1>0, <3>2 DEF NoPast
      <4>2. row'[s].next \in Nat
        BY DEF TypeOK, Row
      <4> QED BY <4>1, <4>2
    <3> QED BY <3>1, <3>2
  <2> QED BY <2>1 DEF NextIsSpaced
<1> QED BY <1>1, <1>2, <1>3, <1>4, <1>5 DEF IInv

(* The loop, as long as it commits nothing.                                 *)
LEMMA LoopStep ==
  ASSUME IInv, TypeOK', UNCHANGED <<now, row, pending, groups, fired, late>>,
         SeenIsTrue', worker'.at \in {"loaded", "routed"} => late[Current'] = 0
  PROVE  IInv'
<1>1. NoPast' /\ HandlersKnow' /\ RunsAreCounted' /\ NextIsSpaced'
  BY DEF IInv, NoPast, HandlersKnow, RunsAreCounted, NextIsSpaced
<1>2. LateAfterDisable'
  BY DEF IInv, LateAfterDisable
<1> QED BY <1>1, <1>2 DEF IInv

-----------------------------------------------------------------------------
(* The loop's actions.                                                      *)

(* The loop turns to the rest of a batch.                                   *)
LEMMA TurnsTo ==
  ASSUME IInv, NEW due \in Seq(Schedule), worker' = Rest(due),
         UNCHANGED <<world, now, row, fleet, pending, groups, manual, history>>
  PROVE  IInv'
<1>0. TypeOK
  BY DEF IInv
<1>1. worker' \in Worker /\ worker'.at \in {"idle", "ticking"}
      /\ (worker'.at # "idle" => worker'.due # <<>>)
  BY RestTyped
<1>2. TypeOK'
  BY <1>0, <1>1 DEF TypeOK, history
<1>3. SeenIsTrue'
  BY <1>1 DEF SeenIsTrue, Holding
<1> QED BY <1>1, <1>2, <1>3, LoopStep DEF history

LEMMA SelectStep == IInv /\ SelectDue /\ UNCHANGED world => IInv'
<1> SUFFICES ASSUME IInv, SelectDue, UNCHANGED world PROVE IInv'
  OBVIOUS
<1>1. PICK S \in SUBSET DueSet : \E q \in SetToSeqs(S) : worker' = Rest(q)
  BY DEF SelectDue
<1>2. PICK q \in SetToSeqs(S) : worker' = Rest(q)
  BY <1>1
<1>3. IsFiniteSet(S) /\ S \subseteq Schedule
  BY FS_Subset, ScheduleAssumption DEF DueSet
<1>4. Cardinality(S) \in Nat
  BY <1>3, FS_CardinalityType
<1>5. q \in [1..Cardinality(S) -> S]
  BY DEF SetToSeqs
<1>6. q \in Seq(Schedule)
  BY <1>3, <1>4, <1>5
<1> QED BY <1>2, <1>6, TurnsTo DEF SelectDue

LEMMA LoadFireStep == IInv /\ LoadFire /\ UNCHANGED world => IInv'
<1> SUFFICES ASSUME IInv, LoadFire, UNCHANGED world PROVE IInv'
  OBVIOUS
<1>0. TypeOK /\ LateAfterDisable
  BY DEF IInv
<1>1. /\ worker.due \in Seq(Schedule) /\ Current \in Schedule
      /\ Tail(worker.due) \in Seq(Schedule) /\ worker.at = "ticking" /\ worker.due # <<>>
  BY <1>0, CurrentTyped DEF LoadFire, TypeOK
<1>2. CASE ~ Due(row[Current])
  BY <1>1, <1>2, TurnsTo DEF LoadFire, Current
<1>3. CASE Due(row[Current])
  <2>1. worker' = [worker EXCEPT !.at = "loaded", !.seen = row[Current], !.start = now]
    BY <1>3 DEF LoadFire, Current
  <2>2. row[Current] \in Row /\ now \in Nat
    BY <1>0, <1>1 DEF TypeOK
  <2>3. /\ worker' \in Worker /\ worker'.due = worker.due /\ worker'.at = "loaded"
        /\ worker'.seen = row[Current] /\ worker'.start = now
    BY <1>0, <2>1, <2>2 DEF TypeOK, Worker
  <2>4. TypeOK'
    BY <1>0, <1>1, <2>3 DEF TypeOK, LoadFire, history
  <2>5. Current' = Current
    BY <2>3 DEF Current
  <2>6. SeenIsTrue'
    BY <1>3, <2>2, <2>3, <2>5 DEF SeenIsTrue, Due, LoadFire, Row
  <2>7. late[Current'] = 0
    BY <1>0, <1>1, <1>3, <2>5 DEF LateAfterDisable, Due
  <2> QED BY <2>4, <2>6, <2>7, LoopStep DEF LoadFire, history
<1> QED BY <1>2, <1>3

LEMMA RouteStep == IInv /\ Route /\ UNCHANGED world => IInv'
<1> SUFFICES ASSUME IInv, Route, UNCHANGED world PROVE IInv'
  OBVIOUS
<1>0. TypeOK /\ LateAfterDisable /\ SeenIsTrue /\ worker.at = "loaded" /\ worker \in Worker
  BY DEF IInv, Route, TypeOK
<1>1. Current \in Schedule /\ now \in Nat /\ worker.start \in Nat /\ row[Current].next \in Nat
  BY <1>0, CurrentTyped DEF TypeOK, Worker, Row
<1>2. CASE worker' = [worker EXCEPT !.at = "raised"]
  <2>1. worker' \in Worker /\ worker'.due = worker.due /\ worker'.at = "raised"
    BY <1>0, <1>2 DEF Worker
  <2>2. TypeOK'
    BY <1>0, <2>1 DEF TypeOK, Route, history
  <2>3. SeenIsTrue'
    <3>1. /\ row[Current].life # "unborn" /\ row[Current].next <= worker.start
          /\ worker.start <= now
      BY <1>0 DEF SeenIsTrue, Holding
    <3>2. row[Current].next <= now
      BY <1>1, <3>1
    <3> QED BY <2>1, <3>1, <3>2 DEF SeenIsTrue, Route, Holding, Current, history
  <2> QED BY <2>1, <2>2, <2>3, LoopStep DEF Route, history
<1>3. ASSUME NEW S \in Resolved(worker.seen),
             worker' = [worker EXCEPT !.at = "routed", !.agents = S]
      PROVE  IInv'
  <2>0. S \in SUBSET Agent
    BY ResolvedTyped
  <2>1. /\ worker' \in Worker /\ worker'.due = worker.due /\ worker'.at = "routed"
        /\ worker'.seen = worker.seen /\ worker'.start = worker.start
    BY <1>0, <1>3, <2>0 DEF Worker
  <2>2. TypeOK'
    BY <1>0, <2>1 DEF TypeOK, Route, history
  <2>3. SeenIsTrue'
    BY <1>0, <1>1, <2>1 DEF SeenIsTrue, Route, Holding, Current
  <2>4. late[Current'] = 0
    BY <1>0, <2>1 DEF LateAfterDisable, Current
  <2> QED BY <2>2, <2>3, <2>4, LoopStep DEF Route, history
<1> QED BY <1>2, <1>3 DEF Route

LEMMA LoadFailedStep == IInv /\ LoadFailed /\ UNCHANGED world => IInv'
<1> SUFFICES ASSUME IInv, LoadFailed, UNCHANGED world PROVE IInv'
  OBVIOUS
<1>0. TypeOK /\ SeenIsTrue /\ worker.at = "raised" /\ worker \in Worker
  BY DEF IInv, LoadFailed, TypeOK
<1>1. /\ Current \in Schedule /\ Tail(worker.due) \in Seq(Schedule)
      /\ now \in Nat /\ row[Current] \in Row
  BY <1>0, CurrentTyped DEF TypeOK
<1>2. CASE row[Current].life # "live"
  BY <1>1, <1>2, TurnsTo DEF LoadFailed, Current
<1>3. CASE row[Current].life = "live"
  <2>1. worker' = [worker EXCEPT !.at = "marking", !.seen = row[Current], !.start = now]
    BY <1>3 DEF LoadFailed, Current
  <2>2. /\ worker' \in Worker /\ worker'.due = worker.due /\ worker'.at = "marking"
        /\ worker'.seen = row[Current] /\ worker'.start = now
    BY <1>0, <1>1, <2>1 DEF Worker
  <2>3. TypeOK'
    BY <1>0, <2>2 DEF TypeOK, LoadFailed, history
  <2>4. SeenIsTrue'
    BY <1>0, <1>1, <1>3, <2>2 DEF SeenIsTrue, LoadFailed, Holding, Current
  <2> QED BY <2>2, <2>3, <2>4, LoopStep DEF LoadFailed, history
<1> QED BY <1>2, <1>3

(* A run of the schedule in hand is recorded: r is the row written, n the   *)
(* groups and m the late runs there are then.                               *)
LEMMA RunRecorded ==
  ASSUME IInv, worker.at \in Holding, NEW r \in Row, NEW n \in Nat, NEW m \in Nat,
         r.life = row[Current].life, r.enabled = row[Current].enabled,
         r.total = worker.seen.total + 1, r.total = n + r.failed,
         r.next = worker.start + worker.seen.interval,
         m <= 1, r.enabled => m = 0,
         row' = [row EXCEPT ![Current] = r],
         groups' = [groups EXCEPT ![Current] = n],
         late' = [late EXCEPT ![Current] = m],
         fired' = [fired EXCEPT ![Current] = [at |-> worker.start,
                                              interval |-> worker.seen.interval]],
         worker' = Rest(Tail(worker.due)),
         UNCHANGED <<world, now, fleet, pending, manual, restarts>>
  PROVE  /\ IInv'
         /\ fired[Current].at + fired[Current].interval <= worker.start
<1>0. TypeOK /\ NoPast /\ RunsAreCounted /\ SeenIsTrue /\ LateAfterDisable /\ NextIsSpaced
  BY DEF IInv
<1>1. /\ worker.due \in Seq(Schedule) /\ Current \in Schedule
      /\ Tail(worker.due) \in Seq(Schedule) /\ worker.at # "idle"
  BY <1>0, CurrentTyped DEF Holding
<1>2. worker' \in Worker /\ worker'.at \in {"idle", "ticking"}
      /\ (worker'.at # "idle" => worker'.due # <<>>)
  BY <1>1, RestTyped
<1>3. worker.start \in Nat /\ worker.seen.interval \in Nat
  BY <1>0 DEF TypeOK, Worker, Row
<1>4. TypeOK'
  <2>1. row' \in [Schedule -> Row] /\ groups' \in [Schedule -> Nat] /\ late' \in [Schedule -> Nat]
    BY <1>0, <1>1 DEF TypeOK
  <2>2. fired' \in [Schedule -> [at : Nat, interval : Nat]]
    BY <1>0, <1>1, <1>3 DEF TypeOK
  <2> QED BY <1>0, <1>2, <2>1, <2>2 DEF TypeOK
<1>5. row[Current].life # "unborn" /\ row[Current].next <= worker.start
  BY <1>0 DEF SeenIsTrue
<1>6. NoPast' /\ HandlersKnow'
  <2>1. \A s \in Schedule : row'[s].life = row[s].life
    BY <1>0, <1>1 DEF TypeOK
  <2>2. HandlersKnow'
    BY <2>1 DEF IInv, HandlersKnow, TypeOK, Handler
  <2> QED BY <1>0, <1>1, <1>5, <2>2 DEF NoPast, TypeOK
<1>7. RunsAreCounted'
  BY <1>0, <1>1 DEF RunsAreCounted, TypeOK
<1>8. SeenIsTrue'
  BY <1>2 DEF SeenIsTrue, Holding
<1>9. LateAfterDisable'
  <2>1. \A s \in Schedule : late'[s] <= 1 /\ (row'[s].enabled => late'[s] = 0)
    BY <1>0, <1>1 DEF LateAfterDisable, TypeOK
  <2> QED BY <1>2, <2>1 DEF LateAfterDisable
<1>10. NextIsSpaced'
  <2>1. ASSUME NEW s \in Schedule, row'[s].life # "unborn"
        PROVE  fired'[s].at + fired'[s].interval <= row'[s].next
    <3>1. CASE s = Current
      <4>1. fired'[s] = [at |-> worker.start, interval |-> worker.seen.interval]
        BY <1>0, <1>1, <3>1 DEF TypeOK
      <4>2. row'[s].next = worker.start + worker.seen.interval
        BY <1>0, <1>1, <3>1 DEF TypeOK
      <4> QED BY <1>3, <4>1, <4>2
    <3>2. CASE s # Current
      <4>1. row'[s] = row[s] /\ fired'[s] = fired[s]
        BY <1>0, <1>1, <3>2 DEF TypeOK
      <4> QED BY <1>0, <2>1, <4>1 DEF NextIsSpaced
    <3> QED BY <3>1, <3>2
  <2> QED BY <2>1 DEF NextIsSpaced
<1>11. fired[Current].at + fired[Current].interval <= worker.start
  <2>1. fired[Current].at + fired[Current].interval <= row[Current].next
    BY <1>0, <1>1, <1>5 DEF NextIsSpaced
  <2>2. row[Current].next \in Nat /\ fired[Current].at \in Nat /\ fired[Current].interval \in Nat
    BY <1>0, <1>1 DEF TypeOK, Row
  <2> QED BY <1>3, <1>5, <2>1, <2>2
<1> QED BY <1>4, <1>6, <1>7, <1>8, <1>9, <1>10, <1>11 DEF IInv

\* What RunsAreSpaced asks of a step.
Spaced == \A s \in Schedule : fired'[s] # fired[s]
            => fired'[s].at >= fired[s].at + fired[s].interval

LEMMA CommitFireStep == IInv /\ CommitFire /\ UNCHANGED world => IInv' /\ Spaced
<1> SUFFICES ASSUME IInv, CommitFire, UNCHANGED world PROVE IInv' /\ Spaced
  OBVIOUS
<1>0. /\ TypeOK /\ SeenIsTrue /\ RunsAreCounted /\ LateAfterDisable
      /\ worker.at = "routed" /\ worker \in Worker
  BY DEF IInv, CommitFire, TypeOK
<1>1. /\ Current \in Schedule /\ worker.start \in Nat /\ worker.seen \in Row
      /\ now \in Nat /\ row[Current] \in Row /\ late[Current] = 0
  BY <1>0, CurrentTyped DEF TypeOK, Worker, LateAfterDisable
<1>2. ASSUME worker' = [worker EXCEPT !.at = "raised"], UNCHANGED <<row, groups, fired, late>>
      PROVE  IInv' /\ Spaced
  <2>1. worker' \in Worker /\ worker'.due = worker.due /\ worker'.at = "raised"
    BY <1>0, <1>2 DEF Worker
  <2>2. TypeOK'
    BY <1>0, <1>2, <2>1 DEF TypeOK, CommitFire
  <2>3. SeenIsTrue'
    <3>1. /\ row[Current].life # "unborn" /\ row[Current].next <= worker.start
          /\ worker.start <= now /\ row[Current].next \in Nat
      BY <1>0, <1>1 DEF SeenIsTrue, Holding, Row
    <3>2. row[Current].next <= now
      BY <1>1, <3>1
    <3> QED BY <1>2, <2>1, <3>1, <3>2 DEF SeenIsTrue, CommitFire, Holding, Current
  <2>4. IInv'
    BY <1>2, <2>1, <2>2, <2>3, LoopStep DEF CommitFire
  <2> QED BY <1>2, <2>4 DEF Spaced
<1>3. ASSUME row[Current].life = "live", Insertable(worker.agents),
             row' = [row EXCEPT ![Current] =
                       FiredRow(@, worker.seen, worker.agents, worker.start)],
             groups' = [groups EXCEPT ![Current] = IF worker.agents = {} THEN @ ELSE @ + 1],
             fired' = [fired EXCEPT ![Current] = [at |-> worker.start,
                                                  interval |-> worker.seen.interval]],
             late' = [late EXCEPT ![Current] =
                        IF row[Current].enabled \/ worker.agents = {} THEN @ ELSE @ + 1],
             worker' = Rest(Tail(worker.due))
      PROVE  IInv' /\ Spaced
  <2> DEFINE r == FiredRow(row[Current], worker.seen, worker.agents, worker.start)
             n == IF worker.agents = {} THEN groups[Current] ELSE groups[Current] + 1
             m == IF row[Current].enabled \/ worker.agents = {} THEN 0 ELSE 1
  <2>1. /\ r \in Row /\ r.life = row[Current].life /\ r.enabled = row[Current].enabled
        /\ r.total = worker.seen.total + 1
        /\ r.failed = IF worker.agents = {} THEN worker.seen.failed + 1 ELSE row[Current].failed
        /\ r.next = worker.start + worker.seen.interval
    BY <1>1, FiredTyped
  <2>2. groups[Current] \in Nat /\ n \in Nat /\ m \in Nat /\ m <= 1 /\ (r.enabled => m = 0)
    BY <1>0, <1>1, <2>1 DEF TypeOK
  <2>3. r.total = n + r.failed
    <3>1. /\ row[Current].total = groups[Current] + row[Current].failed
          /\ row[Current].total = worker.seen.total
          /\ row[Current].failed = worker.seen.failed /\ row[Current].failed \in Nat
      BY <1>0, <1>1 DEF RunsAreCounted, SeenIsTrue, Holding, Row
    <3> QED BY <2>1, <2>2, <3>1
  <2>4. /\ row' = [row EXCEPT ![Current] = r] /\ groups' = [groups EXCEPT ![Current] = n]
        /\ late' = [late EXCEPT ![Current] = m]
    BY <1>0, <1>1, <1>3 DEF TypeOK
  <2> HIDE DEF r, n, m
  <2>5. IInv' /\ fired[Current].at + fired[Current].interval <= worker.start
    BY <1>0, <1>3, <2>1, <2>2, <2>3, <2>4, RunRecorded DEF CommitFire, Holding
  <2>6. Spaced
    BY <1>0, <1>1, <1>3, <2>5 DEF Spaced, TypeOK
  <2> QED BY <2>5, <2>6
<1> QED BY <1>2, <1>3 DEF CommitFire, Current

LEMMA CommitFailedStep == IInv /\ CommitFailed /\ UNCHANGED world => IInv' /\ Spaced
<1> SUFFICES ASSUME IInv, CommitFailed, UNCHANGED world PROVE IInv' /\ Spaced
  OBVIOUS
<1>0. /\ TypeOK /\ SeenIsTrue /\ RunsAreCounted /\ LateAfterDisable
      /\ worker.at = "marking" /\ worker \in Worker
  BY DEF IInv, CommitFailed, TypeOK
<1>1. /\ Current \in Schedule /\ worker.start \in Nat /\ worker.seen \in Row
      /\ row[Current] \in Row
  BY <1>0, CurrentTyped DEF TypeOK, Worker
<1>2. CASE row[Current].life = "gone"
  <2>1. worker' = Rest(<<>>) /\ UNCHANGED <<row, fired, groups, late>>
    BY <1>2 DEF CommitFailed, Current, Rest
  <2>2. <<>> \in Seq(Schedule)
    BY EmptySeq
  <2>3. IInv'
    BY <2>1, <2>2, TurnsTo DEF CommitFailed, history
  <2> QED BY <2>1, <2>3 DEF Spaced
<1>3. CASE row[Current].life = "live"
  <2> DEFINE r == FailedRow(row[Current], worker.seen, worker.start)
  <2>1. /\ r \in Row /\ r.life = row[Current].life /\ r.enabled = row[Current].enabled
        /\ r.total = worker.seen.total + 1 /\ r.failed = worker.seen.failed + 1
        /\ r.next = worker.start + worker.seen.interval
    BY <1>1, FailedTyped
  <2>2. /\ groups[Current] \in Nat /\ late[Current] \in Nat /\ late[Current] <= 1
        /\ (r.enabled => late[Current] = 0)
    BY <1>0, <1>1, <2>1 DEF TypeOK, LateAfterDisable
  <2>3. r.total = groups[Current] + r.failed
    <3>1. /\ row[Current].total = groups[Current] + row[Current].failed
          /\ row[Current].total = worker.seen.total
          /\ row[Current].failed = worker.seen.failed /\ row[Current].failed \in Nat
      BY <1>0, <1>1 DEF RunsAreCounted, SeenIsTrue, Holding, Row
    <3> QED BY <2>1, <2>2, <3>1
  <2>4. /\ row' = [row EXCEPT ![Current] = r]
        /\ groups' = [groups EXCEPT ![Current] = groups[Current]]
        /\ late' = [late EXCEPT ![Current] = late[Current]]
        /\ fired' = [fired EXCEPT ![Current] = [at |-> worker.start,
                                                interval |-> worker.seen.interval]]
        /\ worker' = Rest(Tail(worker.due))
    BY <1>0, <1>1, <1>3 DEF CommitFailed, Current, TypeOK
  <2> HIDE DEF r
  <2>5. IInv' /\ fired[Current].at + fired[Current].interval <= worker.start
    BY <1>0, <2>1, <2>2, <2>3, <2>4, RunRecorded DEF CommitFailed, Holding
  <2>6. Spaced
    BY <1>0, <1>1, <2>4, <2>5 DEF Spaced, TypeOK
  <2> QED BY <2>5, <2>6
<1> QED BY <1>2, <1>3 DEF CommitFailed, Current

-----------------------------------------------------------------------------
(* The handlers, the clock and the process.                                 *)

LEMMA CreateStep ==
  ASSUME IInv, NEW s \in world.schedules, NEW spec \in world.specs, NEW on \in BOOLEAN,
         CreateSchedule(s, spec, on), UNCHANGED world
  PROVE  IInv'
<1>0. TypeOK /\ NoPast /\ LateAfterDisable
  BY DEF IInv
<1>1. s \in Schedule /\ spec.ids \in SUBSET Agent /\ spec.tags \in SUBSET Tag
      /\ spec.interval \in Nat /\ now \in Nat
  BY <1>0, ScheduleAssumption DEF TypeOK
<1> DEFINE r == [NoRow EXCEPT !.life = "live", !.enabled = on, !.ids = spec.ids,
                              !.tags = spec.tags, !.interval = spec.interval, !.next = now]
<1>2. r \in Row /\ r.life = "live" /\ r.total = 0 /\ r.failed = 0
  <2>1. NoRow \in Row /\ NoRow.total = 0 /\ NoRow.failed = 0
    BY IdleTyped DEF NoRow
  <2> QED BY <1>1, <2>1 DEF Row
<1>3. row[s].life = "unborn" /\ row' = [row EXCEPT ![s] = r] /\ late[s] = 0
  BY <1>0, <1>1 DEF CreateSchedule, NoPast
<1> HIDE DEF r
<1>4. TypeOK'
  <2>1. row' \in [Schedule -> Row]
    BY <1>0, <1>2, <1>3 DEF TypeOK
  <2> QED BY <1>0, <2>1 DEF TypeOK, CreateSchedule, history
<1>5. ASSUME NEW u \in Schedule
      PROVE  /\ row[u].life = "unborn" /\ row'[u].life # "unborn" =>
                  row'[u].total = 0 /\ row'[u].failed = 0
             /\ row[u].life = "unborn" /\ row'[u].life = "unborn" => row'[u] = row[u]
             /\ row[u].life # "unborn" => row'[u] = row[u]
             /\ row'[u].enabled => late[u] = 0
  BY <1>0, <1>1, <1>2, <1>3 DEF TypeOK, LateAfterDisable
<1> QED BY <1>1, <1>4, <1>5, HandlerStep DEF CreateSchedule, history

(* A step of the handlers or the world that writes no row.                  *)
LEMMA RowsRest ==
  ASSUME IInv, TypeOK', UNCHANGED <<worker, groups, fired, row, late>>, now <= now',
         \A p \in pending' : p \in pending \/ row[p.sched].life # "unborn"
  PROVE  IInv'
<1>1. \A s \in Schedule : row[s].enabled => late[s] = 0
  BY DEF IInv, LateAfterDisable
<1> QED BY <1>1, HandlerStep

LEMMA LoadStep ==
  ASSUME IInv, NEW id \in Request, NEW op \in {"patch", "delete", "trigger"},
         NEW s \in Schedule, NEW body \in Patches \union {<<>>}, NEW S \in SUBSET Agent,
         Load(id, op, s, body, S), UNCHANGED world
  PROVE  IInv'
<1>0. TypeOK /\ now \in Nat /\ row[s] \in Row
  BY DEF IInv, TypeOK
<1>1. [id |-> id, op |-> op, sched |-> s, seen |-> row[s], body |-> body,
       agents |-> S] \in Handler
  BY <1>0 DEF Handler
<1>2. TypeOK'
  BY <1>0, <1>1 DEF TypeOK, Load, history
<1> QED BY <1>0, <1>2, RowsRest DEF Load, history

LEMMA CommitPatchStep ==
  ASSUME IInv, NEW p \in pending, CommitPatch(p), UNCHANGED world
  PROVE  IInv'
<1>0. /\ TypeOK /\ LateAfterDisable /\ p \in Handler /\ p.sched \in Schedule /\ now \in Nat
      /\ row[p.sched] \in Row /\ p.sched \in DOMAIN row /\ p.sched \in DOMAIN late
  BY DEF IInv, TypeOK, Handler
<1> DEFINE s == p.sched
           r == IF Changed(p) # {} /\ row[s].life = "live" THEN PatchedRow(row[s], p)
                ELSE row[s]
<1>1. /\ r \in Row /\ r.life = row[s].life /\ r.next = row[s].next
      /\ r.total = row[s].total /\ r.failed = row[s].failed
      /\ row[s].life = "unborn" => r = row[s]
  BY <1>0, PatchedTyped
<1>2. row' = [row EXCEPT ![s] = r] /\ row'[s] = r
  BY <1>0 DEF CommitPatch
<1>3. late' = [late EXCEPT ![s] = IF r.enabled THEN 0 ELSE late[s]]
  BY <1>0, <1>2 DEF CommitPatch
<1> HIDE DEF r
<1>4. TypeOK'
  <2>1. row' \in [Schedule -> Row] /\ late' \in [Schedule -> Nat]
    BY <1>0, <1>1, <1>2, <1>3 DEF TypeOK
  <2>2. pending' \subseteq Handler
    BY <1>0 DEF TypeOK, CommitPatch
  <2> QED BY <1>0, <2>1, <2>2 DEF TypeOK, CommitPatch
<1>5. ASSUME NEW u \in Schedule
      PROVE  /\ row'[u].life = row[u].life /\ row'[u].next = row[u].next
             /\ row'[u].total = row[u].total /\ row'[u].failed = row[u].failed
             /\ row[u].life = "unborn" => row'[u] = row[u]
             /\ late'[u] = late[u] \/ late'[u] = 0
             /\ row'[u].enabled => late'[u] = 0
  <2>1. CASE u = s
    BY <1>0, <1>1, <1>2, <1>3, <2>1 DEF TypeOK
  <2>2. CASE u # s
    BY <1>0, <1>2, <1>3, <2>2 DEF TypeOK, LateAfterDisable
  <2> QED BY <2>1, <2>2
<1> QED BY <1>0, <1>4, <1>5, HandlerStep DEF CommitPatch

LEMMA CommitDeleteStep ==
  ASSUME IInv, NEW p \in pending, CommitDelete(p), UNCHANGED world
  PROVE  IInv'
<1>0. /\ TypeOK /\ LateAfterDisable /\ p \in Handler /\ p.sched \in Schedule /\ now \in Nat
      /\ row[p.sched] \in Row /\ row[p.sched].life # "unborn"
  BY DEF IInv, TypeOK, Handler, HandlersKnow
<1> DEFINE s == p.sched
           r == [row[s] EXCEPT !.life = "gone"]
<1>1. /\ r \in Row /\ r.life = "gone" /\ r.next = row[s].next /\ r.enabled = row[s].enabled
      /\ r.total = row[s].total /\ r.failed = row[s].failed
  BY <1>0 DEF Row
<1>2. row' = [row EXCEPT ![s] = r] /\ UNCHANGED late
  BY DEF CommitDelete, history
<1> HIDE DEF r
<1>4. TypeOK'
  <2>1. row' \in [Schedule -> Row]
    BY <1>0, <1>1, <1>2 DEF TypeOK
  <2>2. pending' \subseteq Handler
    BY <1>0 DEF TypeOK, CommitDelete
  <2> QED BY <1>0, <2>1, <2>2 DEF TypeOK, CommitDelete, history
<1>5. ASSUME NEW u \in Schedule
      PROVE  /\ row[u].life = "unborn" => row'[u] = row[u] /\ u # s
             /\ row[u].life # "unborn" => row'[u].life # "unborn"
             /\ row'[u].next = row[u].next
             /\ row'[u].total = row[u].total /\ row'[u].failed = row[u].failed
             /\ row'[u].enabled => late[u] = 0
  BY <1>0, <1>1, <1>2 DEF TypeOK, LateAfterDisable
<1> QED BY <1>0, <1>2, <1>4, <1>5, HandlerStep DEF CommitDelete, history

LEMMA CommitTriggerStep ==
  ASSUME IInv, NEW p \in pending, CommitTrigger(p), UNCHANGED world
  PROVE  IInv'
<1>0. TypeOK /\ now \in Nat
  BY DEF IInv, TypeOK
<1>1. manual' \in [Schedule -> Nat]
  <2>1. manual \in [Schedule -> Nat] /\ p.sched \in Schedule
    BY <1>0 DEF TypeOK, Handler
  <2> QED BY <2>1 DEF CommitTrigger
<1>2. TypeOK'
  BY <1>0, <1>1 DEF TypeOK, CommitTrigger, history
<1> QED BY <1>0, <1>2, RowsRest DEF CommitTrigger, history

LEMMA EnvironmentStep == IInv /\ Environment /\ UNCHANGED world => IInv'
<1> SUFFICES ASSUME IInv, Environment, UNCHANGED world PROVE IInv'
  OBVIOUS
<1>0. TypeOK /\ now \in Nat /\ world.time \in Nat
  BY ScheduleAssumption DEF IInv, TypeOK
<1>1. ASSUME NEW a \in Agent, NEW status \in {"active", "disabled", "gone"},
             SetAgentStatus(a, status)
      PROVE  IInv'
  <2>1. TypeOK'
    BY <1>0, <1>1 DEF TypeOK, SetAgentStatus, history
  <2> QED BY <1>0, <1>1, <2>1, RowsRest DEF SetAgentStatus, history
<1>2. ASSUME Tick PROVE IInv'
  <2>1. TypeOK'
    BY <1>0, <1>2 DEF TypeOK, Tick, history
  <2> QED BY <1>0, <1>2, <2>1, RowsRest DEF Tick, history
<1>3. ASSUME ServerRestart PROVE IInv'
  <2>1. worker' \in Worker /\ worker'.at = "idle" /\ pending' = {}
    BY <1>3, IdleTyped DEF ServerRestart
  <2>2. TypeOK'
    BY <1>0, <1>3, <2>1 DEF TypeOK, ServerRestart
  <2>3. NoPast' /\ HandlersKnow' /\ RunsAreCounted' /\ NextIsSpaced'
    BY <1>3, <2>1 DEF ServerRestart, IInv, NoPast, HandlersKnow, RunsAreCounted, NextIsSpaced
  <2>4. SeenIsTrue' /\ LateAfterDisable'
    BY <1>3, <2>1 DEF ServerRestart, IInv, SeenIsTrue, LateAfterDisable, Holding
  <2> QED BY <2>2, <2>3, <2>4 DEF IInv
<1> QED BY <1>1, <1>2, <1>3 DEF Environment

LEMMA HandlersStep == IInv /\ Handlers /\ UNCHANGED world => IInv'
<1> SUFFICES ASSUME IInv, Handlers, UNCHANGED world PROVE IInv'
  OBVIOUS
<1>0. TypeOK /\ world.patches \subseteq Patches
  BY ScheduleAssumption DEF IInv, TypeOK
<1>1. ASSUME NEW id \in Request, NEW s \in Schedule,
             \/ LoadDelete(id, s) \/ LoadTrigger(id, s)
             \/ \E body \in world.patches : LoadPatch(id, s, body)
      PROVE  IInv'
  <2>1. CASE LoadDelete(id, s)
    BY <2>1, LoadStep DEF LoadDelete
  <2>2. CASE LoadTrigger(id, s)
    BY <2>2, LoadStep, ResolvedTyped DEF LoadTrigger
  <2>3. ASSUME NEW body \in world.patches, LoadPatch(id, s, body) PROVE IInv'
    BY <1>0, <2>3, LoadStep DEF LoadPatch
  <2> QED BY <1>1, <2>1, <2>2, <2>3
<1> QED
  BY <1>1, CreateStep, CommitPatchStep, CommitDeleteStep, CommitTriggerStep DEF Handlers

LEMMA IInvStep == IInv /\ [Next]_vars => IInv'
<1> SUFFICES ASSUME IInv, [Next]_vars PROVE IInv'
  OBVIOUS
<1>1. CASE Loop /\ UNCHANGED world
  BY <1>1, SelectStep, LoadFireStep, RouteStep, CommitFireStep, LoadFailedStep,
     CommitFailedStep DEF Loop
<1>2. CASE Handlers /\ UNCHANGED world
  BY <1>2, HandlersStep
<1>3. CASE Environment /\ UNCHANGED world
  BY <1>3, EnvironmentStep
<1>4. CASE UNCHANGED vars
  <2>1. TypeOK'
    BY <1>4 DEF vars, IInv, TypeOK
  <2>2. now <= now'
    BY <1>4 DEF vars, IInv, TypeOK
  <2> QED BY <1>4, <2>1, <2>2, RowsRest DEF vars
<1> QED BY <1>1, <1>2, <1>3, <1>4 DEF Next

(* The invariant holds in every reachable state.                            *)
THEOREM Invariance == Spec => []IInv
<1> QED BY IInvInit, IInvStep, PTL DEF Spec

(* Every variable keeps its type, for any schedules, agents and patches.    *)
THEOREM TypeCorrect == Spec => []TypeOK
<1>1. IInv => TypeOK
  BY DEF IInv
<1> QED BY <1>1, Invariance, PTL

(* The row's counters tell the truth about the groups inserted, whatever    *)
(* falls into a fire (scheduler.py:98-106, 72-85).                          *)
THEOREM Counted == Spec => []RunsAreCounted
<1>1. IInv => RunsAreCounted
  BY DEF IInv
<1> QED BY <1>1, Invariance, PTL

(* A schedule that is disabled gets at most the one run that was on its way *)
(* (scheduler.py:90).                                                       *)
THEOREM OneLateRun == Spec => []AtMostOneLateRun
<1>1. IInv => AtMostOneLateRun
  BY DEF IInv, LateAfterDisable, AtMostOneLateRun
<1> QED BY <1>1, Invariance, PTL

(* Recorded runs start the interval apart, however often the server is      *)
(* restarted and however the schedule is edited (scheduler.py:11-12).       *)
THEOREM RunsSpaced == Spec => RunsAreSpaced
<1>1. ASSUME IInv, Next PROVE Spaced
  <2>1. CASE CommitFire /\ UNCHANGED world
    BY <1>1, <2>1, CommitFireStep
  <2>2. CASE CommitFailed /\ UNCHANGED world
    BY <1>1, <2>2, CommitFailedStep
  <2>3. CASE UNCHANGED fired
    BY <2>3 DEF Spaced
  <2>4. Loop => CommitFire \/ CommitFailed \/ UNCHANGED fired
    BY DEF Loop, SelectDue, LoadFire, Route, LoadFailed, history
  <2>5. Handlers => UNCHANGED fired
    BY DEF Handlers, CreateSchedule, LoadDelete, LoadTrigger, LoadPatch, Load,
           CommitPatch, CommitDelete, CommitTrigger, history
  <2>6. Environment => UNCHANGED fired
    BY DEF Environment, SetAgentStatus, Tick, ServerRestart, history
  <2> QED BY <1>1, <2>1, <2>2, <2>3, <2>4, <2>5, <2>6 DEF Next
<1>2. IInv /\ [Next]_vars => [Spaced]_vars
  BY <1>1
<1> QED BY <1>2, Invariance, PTL DEF Spec, RunsAreSpaced, Spaced
=============================================================================
