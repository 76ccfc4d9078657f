------------------------ MODULE AgentWorkersProofs ------------------------
(* What holds of AgentWorkers for every set of tasks, types and caps, and   *)
(* every number of workers; and of AgentIdentity, for every number of       *)
(* registrations and all worlds.                                            *)
EXTENDS AgentIdentity, FiniteSetTheorems, TLAPS

Tasks == [Job -> {"queued", "lost", "done", "killed"} \union Busy]

(* Only a task between its gate and its release holds a slot of the gate,   *)
(* and one that is at work does.                                            *)
HoldersAtWork ==
  /\ \A j \in holds : job[j] \in {"running", "submitting", "killed"}
  /\ \A t \in Capped : Inside(t) \subseteq Holders(t)

(* The semaphore, while the process lives.                                  *)
Claimed == Cardinality(Working) + (IF poll = "polling" THEN 1 ELSE 0)
SlotsCounted == Up => slots = Claimed

(* The gates.                                                               *)
GatesCounted ==
  \A t \in Capped : gates[t] = Cardinality(Holders(t)) /\ gates[t] <= Caps[t]

IInv == TypeOK /\ HoldersAtWork /\ SlotsCounted /\ slots <= MaxConcurrency /\ GatesCounted

LEMMA SetsFinite ==
  /\ IsFiniteSet(Working) /\ Cardinality(Working) \in Nat
  /\ \A t : IsFiniteSet(Inside(t))
  /\ holds \subseteq Job =>
       \A t : IsFiniteSet(Holders(t)) /\ Cardinality(Holders(t)) \in Nat
<1>1. IsFiniteSet(Working)
  BY FS_Subset, AgentAssumption DEF Working
<1>2. ASSUME NEW t PROVE IsFiniteSet(Inside(t))
  BY FS_Subset, AgentAssumption DEF Inside
<1>3. ASSUME NEW t, holds \subseteq Job PROVE IsFiniteSet(Holders(t))
  <2>1. Holders(t) \subseteq Job
    BY <1>3 DEF Holders
  <2> QED BY <2>1, FS_Subset, AgentAssumption
<1> QED BY <1>1, <1>2, <1>3, FS_CardinalityType

(* A task's goroutine starts: one more is at work.                          *)
LEMMA Joins ==
  ASSUME TypeOK, NEW j \in Job, NEW s \in Busy, job[j] \notin Busy,
         job' = [job EXCEPT ![j] = s]
  PROVE  Cardinality(Working') = Cardinality(Working) + 1
<1>1. Working' = Working \union {j} /\ j \notin Working
  BY DEF TypeOK, Working
<1> QED BY <1>1, SetsFinite, FS_AddElement

(* It goes on.                                                              *)
LEMMA Stays ==
  ASSUME TypeOK, NEW j \in Job, NEW s \in Busy, job[j] \in Busy,
         job' = [job EXCEPT ![j] = s]
  PROVE  Working' = Working
  BY DEF TypeOK, Working

(* It ends: one less is, and there was one.                                 *)
LEMMA Leaves ==
  ASSUME TypeOK, NEW j \in Job, job[j] \in Busy, job' = [job EXCEPT ![j] = "done"]
  PROVE  /\ Cardinality(Working') = Cardinality(Working) - 1
         /\ Cardinality(Working) \in Nat \ {0}
<1>1. Working' = Working \ {j} /\ j \in Working
  BY DEF TypeOK, Working, Busy
<1>2. Cardinality(Working') = Cardinality(Working) - 1
  BY <1>1, SetsFinite, FS_RemoveElement
<1>3. Cardinality(Working) # 0
  BY <1>1, SetsFinite, FS_EmptySet
<1> QED BY <1>2, <1>3, SetsFinite

(* The gates, when no task takes or gives back a slot.                      *)
LEMMA GatesRest ==
  ASSUME GatesCounted, UNCHANGED <<gates, holds>>
  PROVE  GatesCounted'
  BY DEF GatesCounted, Holders

(* A task passes the gate of its type.                                      *)
LEMMA GateTaken ==
  ASSUME IInv, NEW j \in Job, Acquire(j)
  PROVE  /\ gates' \in [Capped -> Nat] /\ holds' \subseteq Job
         /\ HoldersAtWork' /\ GatesCounted'
<1> DEFINE t == JobType[j]
<1>1. TypeOK /\ HoldersAtWork /\ GatesCounted
  BY DEF IInv
<1>2. /\ job[j] = "started" /\ job' = [job EXCEPT ![j] = "running"]
      /\ holds' = IF t \in Capped THEN holds \union {j} ELSE holds
      /\ gates' = [u \in Capped |-> IF u = t THEN gates[u] + 1 ELSE gates[u]]
      /\ t \in Capped => gates[t] < Caps[t]
  BY DEF Acquire, HasRoom
<1>3. gates \in [Capped -> Nat] /\ holds \subseteq Job /\ job \in Tasks
  BY <1>1 DEF TypeOK, Tasks
<1>4. j \notin holds
  BY <1>1, <1>2 DEF HoldersAtWork
<1>5. gates' \in [Capped -> Nat] /\ holds' \subseteq Job
  BY <1>2, <1>3
<1>6. HoldersAtWork'
  <2>1. \A i \in holds' : job'[i] \in {"running", "submitting", "killed"}
    BY <1>1, <1>2, <1>3 DEF HoldersAtWork, Tasks
  <2>2. ASSUME NEW u \in Capped, NEW i \in Inside(u)' PROVE i \in Holders(u)'
    BY <1>1, <1>2, <1>3, <2>2 DEF HoldersAtWork, Inside, Holders, Tasks
  <2> QED BY <2>1, <2>2 DEF HoldersAtWork
<1>7. ASSUME NEW u \in Capped
      PROVE  gates'[u] = Cardinality(Holders(u)') /\ gates'[u] <= Caps[u]
  <2>1. gates[u] = Cardinality(Holders(u)) /\ gates[u] <= Caps[u]
    BY <1>1 DEF GatesCounted
  <2>2. IsFiniteSet(Holders(u))
    BY <1>3, SetsFinite
  <2>3. Caps[u] \in Nat /\ gates[u] \in Nat
    BY <1>3, AgentAssumption DEF Capped
  <2>4. CASE u = t
    <3>1. Holders(u)' = Holders(u) \union {j} /\ j \notin Holders(u)
      BY <1>2, <1>4, <2>4 DEF Holders
    <3>2. Cardinality(Holders(u)') = Cardinality(Holders(u)) + 1
      BY <2>2, <3>1, FS_AddElement
    <3>3. gates'[u] = gates[u] + 1 /\ gates[u] < Caps[u]
      BY <1>2, <2>4
    <3> QED BY <2>1, <2>3, <3>2, <3>3
  <2>5. CASE u # t
    <3>1. Holders(u)' = Holders(u)
      BY <1>2, <2>5 DEF Holders
    <3> QED BY <1>2, <2>1, <2>5, <3>1
  <2> QED BY <2>4, <2>5
<1>8. GatesCounted'
  BY <1>7 DEF GatesCounted
<1> QED BY <1>5, <1>6, <1>8

(* It gives its slot back, if it has one.                                   *)
LEMMA GateReleased ==
  ASSUME IInv, NEW j \in Job, NEW sent, Submit(j, sent)
  PROVE  /\ gates' \in [Capped -> Nat] /\ holds' \subseteq Job
         /\ HoldersAtWork' /\ GatesCounted'
<1> DEFINE t == JobType[j]
<1>1. TypeOK /\ HoldersAtWork /\ GatesCounted
  BY DEF IInv
<1>2. /\ job[j] = "submitting" /\ job' = [job EXCEPT ![j] = "done"]
      /\ holds' = holds \ {j}
      /\ gates' = [u \in Capped |-> IF u = t /\ j \in holds THEN gates[u] - 1 ELSE gates[u]]
  BY DEF Submit, Released
<1>3. gates \in [Capped -> Nat] /\ holds \subseteq Job /\ job \in Tasks
  BY <1>1 DEF TypeOK, Tasks
<1>4. HoldersAtWork'
  <2>1. \A i \in holds' : job'[i] \in {"running", "submitting", "killed"}
    BY <1>1, <1>2, <1>3 DEF HoldersAtWork, Tasks
  <2>2. ASSUME NEW u \in Capped, NEW i \in Inside(u)' PROVE i \in Holders(u)'
    <3>1. i \in Job /\ JobType[i] = u /\ job'[i] = "running"
      BY <2>2 DEF Inside
    <3>2. i # j /\ job[i] = "running"
      BY <1>2, <1>3, <3>1 DEF Tasks
    <3>3. i \in Holders(u)
      BY <1>1, <3>1, <3>2 DEF HoldersAtWork, Inside
    <3> QED BY <1>2, <3>2, <3>3 DEF Holders
  <2> QED BY <2>1, <2>2 DEF HoldersAtWork
<1>5. ASSUME NEW u \in Capped
      PROVE  /\ gates'[u] = Cardinality(Holders(u)') /\ gates'[u] <= Caps[u]
             /\ gates'[u] \in Nat
  <2>1. gates[u] = Cardinality(Holders(u)) /\ gates[u] <= Caps[u]
    BY <1>1 DEF GatesCounted
  <2>2. IsFiniteSet(Holders(u))
    BY <1>3, SetsFinite
  <2>3. Caps[u] \in Nat /\ gates[u] \in Nat
    BY <1>3, AgentAssumption DEF Capped
  <2>4. CASE u = t /\ j \in holds
    <3>1. Holders(u)' = Holders(u) \ {j} /\ j \in Holders(u)
      BY <1>2, <2>4 DEF Holders
    <3>2. Cardinality(Holders(u)') = Cardinality(Holders(u)) - 1
      BY <2>2, <3>1, FS_RemoveElement
    <3>3. Cardinality(Holders(u)) # 0
      BY <2>2, <3>1, FS_EmptySet
    <3>4. gates'[u] = gates[u] - 1
      BY <1>2, <2>4
    <3> QED BY <2>1, <2>3, <3>2, <3>3, <3>4
  <2>5. CASE ~ (u = t /\ j \in holds)
    <3>1. Holders(u)' = Holders(u)
      BY <1>2, <2>5 DEF Holders
    <3> QED BY <1>2, <2>1, <2>3, <2>5, <3>1
  <2> QED BY <2>4, <2>5
<1>6. gates' \in [Capped -> Nat]
  BY <1>2, <1>5
<1>7. GatesCounted'
  BY <1>5 DEF GatesCounted
<1> QED BY <1>2, <1>3, <1>4, <1>6, <1>7

LEMMA IInvInit == Init => IInv
<1> SUFFICES ASSUME Init PROVE IInv
  OBVIOUS
<1> USE AgentAssumption DEF Init
<1>1. TypeOK
  BY DEF TypeOK, Busy, Loop
<1>2. Working = {} /\ \A t : Holders(t) = {} /\ Inside(t) = {}
  BY DEF Working, Busy, Holders, Inside
<1>3. HoldersAtWork
  BY <1>2 DEF HoldersAtWork
<1>4. SlotsCounted /\ GatesCounted
  BY <1>2, FS_EmptySet DEF SlotsCounted, Claimed, GatesCounted, Capped
<1> QED BY <1>1, <1>3, <1>4 DEF IInv

(* A step that leaves the tasks, the gates and the process as they are.     *)
LEMMA Elsewhere ==
  ASSUME IInv, TypeOK', UNCHANGED <<gates, holds, job, slots>>, Up' => Up,
         poll = "polling" <=> poll' = "polling"
  PROVE  IInv'
<1>1. HoldersAtWork'
  BY DEF IInv, HoldersAtWork, Inside, Holders
<1>2. Working' = Working
  BY DEF Working
<1>3. SlotsCounted'
  BY <1>2 DEF IInv, SlotsCounted, Claimed
<1>4. GatesCounted'
  BY GatesRest DEF IInv
<1> QED BY <1>1, <1>3, <1>4 DEF IInv

(* Task j comes to its submission without taking or giving back a slot.     *)
LEMMA Onwards ==
  ASSUME IInv, NEW j \in Job, job[j] \in {"started", "running"},
         job' = [job EXCEPT ![j] = "submitting"],
         UNCHANGED <<poll, slots, gates, holds, cancelled, loops, main>>
  PROVE  IInv'
<1>0. TypeOK /\ HoldersAtWork
  BY DEF IInv
<1>1. TypeOK'
  BY <1>0 DEF TypeOK, Busy
<1>2. HoldersAtWork'
  BY <1>0 DEF HoldersAtWork, Inside, Holders, TypeOK
<1>3. Working' = Working
  BY <1>0, Stays DEF Busy
<1>4. SlotsCounted'
  BY <1>3 DEF IInv, SlotsCounted, Claimed, Up
<1>5. GatesCounted'
  BY GatesRest DEF IInv
<1> QED BY <1>1, <1>2, <1>4, <1>5 DEF IInv

LEMMA IInvStep == IInv /\ [Next]_vars => IInv'
<1> SUFFICES ASSUME IInv, [Next]_vars PROVE IInv'
  OBVIOUS
<1>0. /\ TypeOK /\ HoldersAtWork /\ SlotsCounted /\ GatesCounted
      /\ slots \in Nat /\ MaxConcurrency \in Nat /\ slots <= MaxConcurrency
  BY AgentAssumption DEF IInv, TypeOK
<1>c. Cardinality(Working) \in Nat
  BY SetsFinite
<1>1. ASSUME PollTick PROVE IInv'
  <2>1. TypeOK'
    BY <1>0, <1>1 DEF PollTick, TypeOK
  <2> QED BY <1>1, <2>1, Elsewhere DEF PollTick, Up
<1>2. ASSUME TakeSlot PROVE IInv'
  <2>1. TypeOK'
    BY <1>0, <1>2 DEF TakeSlot, TypeOK
  <2>2. HoldersAtWork'
    BY <1>0, <1>2 DEF TakeSlot, HoldersAtWork, Inside, Holders
  <2>3. SlotsCounted'
    <3>1. Working' = Working
      BY <1>2 DEF TakeSlot, Working
    <3> QED BY <1>0, <1>c, <1>2, <3>1 DEF TakeSlot, SlotsCounted, Claimed, Up
  <2>4. slots' <= MaxConcurrency
    BY <1>0, <1>2 DEF TakeSlot
  <2>5. GatesCounted'
    BY <1>0, <1>2, GatesRest DEF TakeSlot
  <2> QED BY <2>1, <2>2, <2>3, <2>4, <2>5 DEF IInv
<1>3. ASSUME StopPolling PROVE IInv'
  <2>1. TypeOK'
    BY <1>0, <1>3 DEF StopPolling, TypeOK
  <2> QED BY <1>3, <2>1, Elsewhere DEF StopPolling, Up
<1>4. ASSUME NEW j \in Job, PollTask(j) PROVE IInv'
  <2>1. TypeOK'
    BY <1>0, <1>4 DEF PollTask, TypeOK, Busy
  <2>2. HoldersAtWork'
    BY <1>0, <1>4 DEF PollTask, HoldersAtWork, Inside, Holders, TypeOK
  <2>3. SlotsCounted'
    <3>1. Cardinality(Working') = Cardinality(Working) + 1
      BY <1>0, <1>4, Joins DEF PollTask, Busy
    <3> QED BY <1>0, <1>c, <1>4, <3>1 DEF PollTask, SlotsCounted, Claimed, Up
  <2>4. slots' <= MaxConcurrency
    BY <1>0, <1>4 DEF PollTask
  <2>5. GatesCounted'
    BY <1>0, <1>4, GatesRest DEF PollTask
  <2> QED BY <2>1, <2>2, <2>3, <2>4, <2>5 DEF IInv
<1>5. ASSUME PollFails PROVE IInv'
  <2>0. /\ slots \in Nat \ {0} /\ slots = Cardinality(Working) + 1
        /\ slots' = slots - 1 /\ poll' = "waiting"
    BY <1>0, <1>c, <1>5 DEF PollFails, SlotsCounted, Claimed
  <2>s. Working' = Working
    BY <1>0, <1>5 DEF PollFails, Working, Busy, TypeOK
  <2>1. TypeOK'
    BY <1>0, <1>5, <2>0 DEF PollFails, TypeOK
  <2>2. HoldersAtWork'
    BY <1>0, <1>5 DEF PollFails, HoldersAtWork, Inside, Holders, TypeOK
  <2>3. SlotsCounted'
    BY <1>c, <2>0, <2>s DEF SlotsCounted, Claimed
  <2>4. slots' <= MaxConcurrency
    BY <1>0, <2>0
  <2>5. GatesCounted'
    BY <1>0, <1>5, GatesRest DEF PollFails
  <2> QED BY <2>1, <2>2, <2>3, <2>4, <2>5 DEF IInv
<1>6. ASSUME NEW j \in Job, Unsupported(j) \/ AcquireCancelled(j) \/ RunEnds(j) PROVE IInv'
  BY <1>6, Onwards DEF Unsupported, AcquireCancelled, RunEnds
<1>7. ASSUME NEW j \in Job, Acquire(j) PROVE IInv'
  <2>0. gates' \in [Capped -> Nat] /\ holds' \subseteq Job /\ HoldersAtWork' /\ GatesCounted'
    BY <1>7, GateTaken
  <2>1. TypeOK'
    BY <1>0, <1>7, <2>0 DEF Acquire, TypeOK, Busy
  <2>2. HoldersAtWork'
    BY <2>0
  <2>3. SlotsCounted'
    <3>1. Working' = Working
      BY <1>0, <1>7, Stays DEF Acquire, Busy
    <3> QED BY <1>0, <1>7, <3>1 DEF Acquire, SlotsCounted, Claimed, Up
  <2>4. slots' <= MaxConcurrency
    BY <1>0, <1>7 DEF Acquire
  <2>5. GatesCounted'
    BY <2>0
  <2> QED BY <2>1, <2>2, <2>3, <2>4, <2>5 DEF IInv
<1>8. ASSUME NEW j \in Job, NEW sent \in BOOLEAN, Submit(j, sent) PROVE IInv'
  <2>0. gates' \in [Capped -> Nat] /\ holds' \subseteq Job /\ HoldersAtWork' /\ GatesCounted'
    BY <1>8, GateReleased
  <2>a. /\ Cardinality(Working') = Cardinality(Working) - 1
        /\ Cardinality(Working) \in Nat \ {0}
    BY <1>0, <1>8, Leaves DEF Submit, Busy
  <2>b. /\ slots = Claimed /\ slots' = slots - 1 /\ poll' = poll
    BY <1>0, <1>8 DEF Submit, SlotsCounted
  <2>c. slots' \in Nat
    BY <2>a, <2>b DEF Claimed
  <2>1. TypeOK'
    BY <1>0, <1>8, <2>0, <2>c DEF Submit, TypeOK
  <2>2. HoldersAtWork'
    BY <2>0
  <2>3. SlotsCounted'
    BY <2>a, <2>b DEF SlotsCounted, Claimed
  <2>4. slots' <= MaxConcurrency
    BY <1>0, <2>b
  <2>5. GatesCounted'
    BY <2>0
  <2> QED BY <2>1, <2>2, <2>3, <2>4, <2>5 DEF IInv
<1>9. ASSUME Signal \/ (\E l \in Loop : LoopEnds(l)) \/ StartDraining \/ Drained PROVE IInv'
  <2>1. TypeOK'
    BY <1>0, <1>9 DEF Signal, LoopEnds, StartDraining, Drained, TypeOK
  <2> QED BY <1>9, <2>1, Elsewhere DEF Signal, LoopEnds, StartDraining, Drained, Up
<1>10. ASSUME GraceOver PROVE IInv'
  <2>1. TypeOK'
    BY <1>0, <1>10 DEF GraceOver, TypeOK
  <2>2. HoldersAtWork'
    BY <1>0, <1>10 DEF GraceOver, HoldersAtWork, Inside, Holders, TypeOK, Busy
  <2>3. SlotsCounted'
    BY <1>10 DEF GraceOver, SlotsCounted, Up
  <2>4. slots' <= MaxConcurrency
    BY <1>0, <1>10 DEF GraceOver
  <2>5. GatesCounted'
    BY <1>0, <1>10, GatesRest DEF GraceOver
  <2> QED BY <2>1, <2>2, <2>3, <2>4, <2>5 DEF IInv
<1>11. ASSUME UNCHANGED vars PROVE IInv'
  <2>1. TypeOK'
    BY <1>0, <1>11 DEF vars, TypeOK
  <2> QED BY <1>11, <2>1, Elsewhere DEF vars, Up
<1> QED
  BY <1>1, <1>2, <1>3, <1>4, <1>5, <1>6, <1>7, <1>8, <1>9, <1>10, <1>11
     DEF Next, PollLoop, Execute, Run

(* The invariant holds in every reachable state.                            *)
THEOREM Invariance == Spec => []IInv
<1> QED BY IInvInit, IInvStep, PTL DEF Spec

(* Every variable keeps its type, however many tasks and workers there are. *)
THEOREM TypeCorrect == Spec => []TypeOK
<1>1. IInv => TypeOK
  BY DEF IInv
<1> QED BY <1>1, Invariance, PTL

(* The worker semaphore counts exactly the tasks under way and the poll     *)
(* that is out, and each gate exactly the tasks that hold it, for every     *)
(* number of tasks, types, caps and workers (main.go:222-256,               *)
(* concurrency.go:41-56).                                                   *)
THEOREM SlotsAccounted == Spec => []SlotsAccountedFor
<1>1. IInv => SlotsAccountedFor
  BY DEF IInv, SlotsCounted, Claimed, GatesCounted, HoldersAtWork, SlotsAccountedFor
<1> QED BY <1>1, Invariance, PTL

-----------------------------------------------------------------------------
(* The process with its identity.                                           *)

Statuses == {"unborn", "pending", "active", "disabled", "rejected", "deleted"}

ProcessTyped ==
  /\ row \in [Ids -> Statuses]
  /\ patch \subseteq [id : Ids, to : {"active", "disabled"}]
  /\ disk \in Ids \union {0} /\ token \in Ids \union {0}
  /\ fresh \in Ids \union {0} /\ asked \in Ids \union {0}
  /\ step \in {"registering", "saving", "steady", "ended"}
  /\ booted \in BOOLEAN
  /\ owner \in [Job -> Ids \union {0}]
  /\ mishaps \in Nat
  /\ left \in [jobs : SUBSET Job, admin : Nat, mishaps : Nat, starts : Nat]

(* Rows are born one after the other.                                       *)
BornInOrder == \A i \in Ids : row[i] # "unborn" <=> i <= Born

(* What the token and the state file are at each stage of the process.      *)
Seeking == step \in {"registering", "saving"}
Held == IF step = "saving" THEN fresh \in Ids ELSE fresh = 0
Stages ==
  /\ Held
  /\ Up => /\ booted => token \in Ids
           /\ ~ booted => token = 0 /\ Seeking
           /\ step = "steady" => booted /\ disk = token
           /\ step = "ended" => token = disk \/ row[token] = "deleted"
           /\ booted /\ Seeking => row[token] = "deleted"

(* No work before the loops have started, nor after the process has ended.  *)
Idle == ~ Up \/ ~ booted => Working = {}

(* The poll that is out carries the token, or that of a deleted agent.      *)
Asking ==
  Up /\ poll = "polling" =>
    booted /\ asked \in Ids /\ (asked = token \/ row[asked] = "deleted")

OwnersKnown == \A j \in Working : owner[j] \in Ids

(* The agents in the registry that the process can still save, or load.     *)
Mine == IF ~ Up THEN {disk} ELSE IF Seeking THEN {token, fresh} ELSE {disk, token}
Lost == {i \in Ids \ Mine : Exists(i)}
Paid == Cardinality(Lost) <= mishaps

PInv ==
  /\ ProcessTyped /\ BornInOrder /\ Stages /\ Idle
  /\ Asking /\ OwnersKnown /\ WorkIsOwned /\ Paid

LEMMA IdsFinite ==
  /\ MaxIds \in Nat /\ IsFiniteSet(Ids)
  /\ \A S \in SUBSET Ids : IsFiniteSet(S) /\ Cardinality(S) \in Nat
<1>1. MaxIds \in Nat
  BY IdentityAssumption
<1>2. IsFiniteSet(Ids)
  BY <1>1, FS_Interval DEF Ids
<1> QED BY <1>1, <1>2, FS_Subset, FS_CardinalityType

(* Nothing new is lost.                                                     *)
LEMMA PaidStill ==
  ASSUME Paid, mishaps \in Nat, mishaps' \in Nat, mishaps' >= mishaps,
         Lost' \subseteq Lost
  PROVE  Paid'
<1>1. Lost \subseteq Ids
  BY DEF Lost
<1>2. Cardinality(Lost') <= Cardinality(Lost)
  BY <1>1, IdsFinite, FS_Subset
<1>3. Cardinality(Lost) \in Nat /\ Cardinality(Lost') \in Nat
  BY <1>1, IdsFinite
<1> QED BY <1>2, <1>3 DEF Paid

(* A mishap loses one agent at most.                                        *)
LEMMA PaidOnce ==
  ASSUME Paid, mishaps \in Nat, mishaps' = mishaps + 1, NEW x,
         Lost' \subseteq Lost \union {x}
  PROVE  Paid'
<1>1. Lost \subseteq Ids
  BY DEF Lost
<1>2. IsFiniteSet(Lost) /\ Cardinality(Lost) \in Nat
  BY <1>1, IdsFinite
<1>3. /\ IsFiniteSet(Lost \union {x})
      /\ Cardinality(Lost \union {x}) <= Cardinality(Lost) + 1
      /\ Cardinality(Lost \union {x}) \in Nat
  <2>1. IsFiniteSet(Lost \union {x})
    BY <1>2, FS_AddElement
  <2>2. CASE x \in Lost
    <3>1. Lost \union {x} = Lost
      BY <2>2
    <3>2. Cardinality(Lost \union {x}) = Cardinality(Lost)
      BY <3>1
    <3> QED BY <1>2, <2>1, <3>2
  <2>3. CASE x \notin Lost
    BY <1>2, <2>1, <2>3, FS_AddElement
  <2> QED BY <2>2, <2>3
<1>4. Cardinality(Lost') <= Cardinality(Lost \union {x}) /\ Cardinality(Lost') \in Nat
  BY <1>3, FS_Subset, FS_CardinalityType
<1> QED BY <1>2, <1>3, <1>4 DEF Paid

(* A step of the goroutines that neither starts work nor ends the process.  *)
LEMMA WorkGoesOn ==
  ASSUME PInv, UNCHANGED <<selfVars, adminVars, mishaps, left, main>>,
         Working' \subseteq Working, poll' = "polling" => poll = "polling"
  PROVE  PInv'
<1> USE DEF selfVars, adminVars, Up
<1>1. ProcessTyped'
  BY DEF PInv, ProcessTyped
<1>2. BornInOrder'
  BY DEF PInv, BornInOrder, Born
<1>3. Stages'
  BY DEF PInv, Stages, Held, Seeking
<1>4. Idle'
  BY DEF PInv, Idle
<1>5. Asking'
  BY DEF PInv, Asking
<1>6. OwnersKnown'
  BY DEF PInv, OwnersKnown
<1>7. WorkIsOwned'
  BY DEF PInv, WorkIsOwned, Working
<1>8. Paid'
  BY DEF PInv, Paid, Lost, Mine, Seeking, Exists
<1> QED BY <1>1, <1>2, <1>3, <1>4, <1>5, <1>6, <1>7, <1>8 DEF PInv

(* The registry changes the status of agents that are there.                *)
LEMMA RegistryMoves ==
  ASSUME PInv, UNCHANGED <<workVars, selfVars, mishaps>>, ProcessTyped',
         \A i \in Ids : row'[i] # row[i] => Exists(i) /\ row'[i] # "unborn"
  PROVE  PInv'
<1> USE DEF workVars, vars, selfVars, Up
<1>0. /\ \A i \in Ids : row[i] = "deleted" => row'[i] = "deleted"
      /\ \A i \in Ids : row'[i] = "unborn" <=> row[i] = "unborn"
  BY DEF Exists
<1>2. BornInOrder'
  <2>1. Born' = Born
    BY <1>0 DEF Born
  <2> QED BY <1>0, <2>1 DEF PInv, BornInOrder
<1>3. Stages'
  <2>1. token \in Ids \union {0}
    BY DEF PInv, ProcessTyped
  <2>2. token = 0 \/ (row[token] = "deleted" => row'[token] = "deleted")
    BY <1>0, <2>1
  <2>3. Up /\ step = "ended" => booted
    BY DEF PInv, Stages, Held, Seeking
  <2>4. booted /\ Up => token \in Ids
    BY DEF PInv, Stages
  <2> QED BY <1>0, <2>1, <2>2, <2>3, <2>4 DEF PInv, Stages, Held, Seeking
<1>4. Idle'
  BY DEF PInv, Idle, Working
<1>5. Asking'
  BY <1>0 DEF PInv, Asking
<1>6. OwnersKnown'
  BY DEF PInv, OwnersKnown, Working
<1>7. WorkIsOwned'
  BY <1>0 DEF PInv, WorkIsOwned, OwnersKnown, Working
<1>8. Paid'
  <2>1. Lost' \subseteq Lost
    BY DEF Lost, Mine, Seeking, Exists
  <2> QED BY <2>1, PaidStill DEF PInv, ProcessTyped
<1> QED BY <1>2, <1>3, <1>4, <1>5, <1>6, <1>7, <1>8 DEF PInv

(* The process ends; what it had not saved is lost.                         *)
LEMMA ProcessEnds ==
  ASSUME PInv, Up, ~ Up', Working' = {}, UNCHANGED <<adminVars, disk, owner>>,
         ProcessTyped', Held',
         mishaps' = mishaps \/ mishaps' = mishaps + 1,
         step = "saving" => mishaps' = mishaps + 1
  PROVE  PInv'
<1> USE DEF adminVars
<1>2. BornInOrder'
  BY DEF PInv, BornInOrder, Born
<1>3. Stages'
  BY DEF Stages
<1>4. Idle'
  BY DEF Idle
<1>5. Asking'
  BY DEF Asking
<1>6. OwnersKnown'
  BY DEF OwnersKnown
<1>7. WorkIsOwned'
  BY DEF WorkIsOwned
<1>8. Paid'
  <2>0. /\ Paid /\ mishaps \in Nat /\ Stages
        /\ token \in Ids \union {0} /\ fresh \in Ids \union {0}
        /\ step \in {"registering", "saving", "steady", "ended"}
    BY DEF PInv, ProcessTyped
  <2>1. CASE step = "saving"
    <3>1. token = 0 \/ row[token] = "deleted"
      BY <2>0, <2>1 DEF Stages, Held, Seeking
    <3>2. Lost' \subseteq Lost \union {fresh}
      BY <2>0, <2>1, <3>1 DEF Lost, Mine, Seeking, Exists, Ids
    <3> QED BY <2>0, <2>1, <3>2, PaidOnce
  <2>2. CASE step # "saving"
    <3>1. fresh = 0 /\ (token = 0 \/ token = disk \/ row[token] = "deleted")
      BY <2>0, <2>2 DEF Stages, Held, Seeking
    <3>2. Lost' \subseteq Lost
      BY <2>0, <2>2, <3>1 DEF Lost, Mine, Seeking, Exists, Ids
    <3> QED BY <2>0, <3>2, PaidStill
  <2> QED BY <2>1, <2>2
<1> QED BY <1>2, <1>3, <1>4, <1>5, <1>6, <1>7, <1>8 DEF PInv

LEMMA ProcessInitial == ProcessInit => IInv /\ PInv
<1> SUFFICES ASSUME ProcessInit PROVE IInv /\ PInv
  OBVIOUS
<1> USE DEF ProcessInit
<1>1. IInv
  BY IInvInit
<1>2. Working = {} /\ main = "running" /\ poll = "waiting"
  BY DEF Init, Working, Busy
<1>3. ProcessTyped
  BY IdentityAssumption DEF ProcessTyped, Statuses
<1>4. Cardinality({}) = 0
  BY FS_EmptySet
<1>5. BornInOrder
  <2>1. {i \in Ids : row[i] # "unborn"} = {}
    OBVIOUS
  <2>2. Born = 0
    BY <1>4, <2>1 DEF Born
  <2>3. \A i \in Ids : i \in Nat /\ i > 0
    BY IdsFinite DEF Ids
  <2> QED BY <2>2, <2>3 DEF BornInOrder
<1>6. Stages /\ Idle /\ Asking /\ OwnersKnown
  BY <1>2 DEF Stages, Held, Seeking, Idle, Asking, OwnersKnown
<1>7. WorkIsOwned
  BY <1>2 DEF WorkIsOwned, Working
<1>8. Paid
  <2>1. Lost = {}
    BY DEF Lost, Exists
  <2> QED BY <1>4, <2>1 DEF Paid
<1> QED BY <1>1, <1>3, <1>5, <1>6, <1>7, <1>8 DEF PInv

(* The next row is free, and takes its place in the order.                  *)
LEMMA NextRow ==
  ASSUME PInv, Born < MaxIds, row' = [row EXCEPT ![Born + 1] = "pending"]
  PROVE  /\ Born + 1 \in Ids /\ row[Born + 1] = "unborn"
         /\ row' \in [Ids -> Statuses]
         /\ BornInOrder'
<1> DEFINE B == {i \in Ids : row[i] # "unborn"}
<1>1. Born = Cardinality(B) /\ IsFiniteSet(B) /\ Born \in Nat
  BY IdsFinite DEF Born
<1>2. Born + 1 \in Ids
  BY <1>1, IdsFinite DEF Ids
<1>3. row[Born + 1] = "unborn"
  <2>1. row[Born + 1] # "unborn" <=> Born + 1 <= Born
    BY <1>2 DEF PInv, BornInOrder
  <2> QED BY <1>1, <2>1
<1>4. row \in [Ids -> Statuses]
  BY DEF PInv, ProcessTyped
<1>5. row' \in [Ids -> Statuses]
  BY <1>4 DEF Statuses
<1>6. {i \in Ids : row'[i] # "unborn"} = B \union {Born + 1} /\ Born + 1 \notin B
  BY <1>2, <1>3, <1>4
<1>7. Born' = Born + 1
  <2>1. Cardinality(B \union {Born + 1}) = Cardinality(B) + 1
    BY <1>1, <1>6, FS_AddElement
  <2> QED BY <1>1, <1>6, <2>1 DEF Born
<1>8. BornInOrder'
  <2>1. ASSUME NEW i \in Ids PROVE row'[i] # "unborn" <=> i <= Born + 1
    <3>1. i \in Nat /\ (row[i] # "unborn" <=> i <= Born)
      BY IdsFinite DEF Ids, PInv, BornInOrder
    <3>2. i <= Born + 1 <=> i <= Born \/ i = Born + 1
      BY <1>1, <3>1
    <3> QED BY <1>2, <1>4, <3>1, <3>2
  <2> QED BY <1>7, <2>1 DEF BornInOrder
<1> QED BY <1>2, <1>3, <1>5, <1>8

(* Registration adds a row, answered or not.                                *)
LEMMA Registers ==
  ASSUME PInv, NEW answered \in BOOLEAN, Register(answered)
  PROVE  PInv'
<1> DEFINE i == Born + 1
<1>0. /\ ProcessTyped /\ Stages /\ Paid /\ WorkIsOwned /\ OwnersKnown /\ Asking /\ Idle
      /\ mishaps \in Nat
  BY DEF PInv, ProcessTyped
<1>1. /\ Up /\ step = "registering" /\ fresh = 0
      /\ row' = [row EXCEPT ![i] = "pending"]
      /\ UNCHANGED <<workVars, patch, disk, token, booted, asked, owner>>
      /\ Born < MaxIds
  BY <1>0 DEF Register, Stages, Held
<1>2. i \in Ids /\ row[i] = "unborn" /\ row' \in [Ids -> Statuses] /\ BornInOrder'
  BY <1>1, NextRow
<1>3. /\ row \in [Ids -> Statuses] /\ Up' = Up /\ Working' = Working
      /\ poll' = poll /\ job' = job
  BY <1>0, <1>1 DEF ProcessTyped, workVars, vars, Up, Working
<1>4. /\ \A k \in Ids : k # i => row'[k] = row[k]
      /\ row'[i] = "pending"
      /\ \A k \in Ids : row[k] = "deleted" => row'[k] = "deleted"
  BY <1>1, <1>2, <1>3
<1> HIDE DEF i
<1>5. \/ answered /\ step' = "saving" /\ fresh' = i /\ UNCHANGED <<mishaps, left>>
      \/ UNCHANGED <<step, fresh>> /\ Mishap
  BY DEF Register, i
<1>6. ProcessTyped'
  <2>1. /\ mishaps' \in Nat
        /\ left' \in [jobs : SUBSET Job, admin : Nat, mishaps : Nat, starts : Nat]
    BY <1>0, <1>5 DEF Mishap, ProcessTyped
  <2> QED BY <1>0, <1>1, <1>2, <1>5, <2>1 DEF ProcessTyped
<1>7. Stages'
  BY <1>0, <1>1, <1>2, <1>3, <1>4, <1>5 DEF Stages, Held, Seeking
<1>8. Idle' /\ Asking' /\ OwnersKnown'
  BY <1>0, <1>1, <1>3, <1>4 DEF Idle, Asking, OwnersKnown
<1>9. WorkIsOwned'
  BY <1>0, <1>1, <1>3, <1>4 DEF WorkIsOwned, OwnersKnown, Working
<1>10. Paid'
  <2>1. CASE step' = "saving" /\ fresh' = i /\ mishaps' = mishaps
    <3>1. Lost' \subseteq Lost
      BY <1>1, <1>3, <1>4, <2>1 DEF Lost, Mine, Seeking, Exists, Ids
    <3> QED BY <1>0, <2>1, <3>1, PaidStill
  <2>2. CASE UNCHANGED <<step, fresh>> /\ Mishap
    <3>1. Lost' \subseteq Lost \union {i}
      BY <1>1, <1>3, <1>4, <2>2 DEF Lost, Mine, Seeking, Exists
    <3> QED BY <1>0, <2>2, <3>1, PaidOnce DEF Mishap
  <2> QED BY <1>5, <2>1, <2>2
<1> QED BY <1>2, <1>6, <1>7, <1>8, <1>9, <1>10 DEF PInv

(* The new identity is saved, then used.                                    *)
LEMMA Saves ==
  ASSUME PInv, Save
  PROVE  PInv'
<1> USE DEF adminVars, workVars, vars, Up
<1>0. /\ ProcessTyped /\ Stages /\ Idle /\ Asking /\ OwnersKnown /\ WorkIsOwned /\ Paid
      /\ mishaps \in Nat
  BY DEF PInv, ProcessTyped
<1>t. token = 0 \/ row[token] = "deleted"
  BY <1>0 DEF Save, Stages, Held, Seeking
<1>1. ProcessTyped'
  BY <1>0 DEF Save, ProcessTyped
<1>2. BornInOrder'
  BY DEF Save, PInv, BornInOrder, Born
<1>3. Stages'
  BY <1>0 DEF Save, Stages, Held, Seeking
<1>4. Idle'
  BY <1>0 DEF Save, Idle, Working
<1>5. Asking'
  BY <1>0, <1>t DEF Save, Asking, Ids
<1>6. OwnersKnown'
  BY <1>0 DEF Save, OwnersKnown, Working
<1>7. WorkIsOwned'
  <2>1. ASSUME Working # {} PROVE row[token] = "deleted"
    BY <1>0, <2>1 DEF Save, Idle, Stages, Seeking
  <2> QED BY <1>0, <2>1 DEF Save, WorkIsOwned, Working
<1>8. Paid'
  <2>1. Lost' \subseteq Lost
    BY <1>0, <1>t DEF Save, Lost, Mine, Seeking, Exists, Ids
  <2> QED BY <1>0, <2>1, PaidStill DEF Save
<1> QED BY <1>1, <1>2, <1>3, <1>4, <1>5, <1>6, <1>7, <1>8 DEF PInv

(* The heartbeat loop returns, or the process ends before there is one; a   *)
(* registration that was not saved is a mishap.                             *)
LEMMA GivesUp ==
  ASSUME PInv, TypeOK, SaveFails \/ Cancelled
  PROVE  PInv'
<1> USE DEF adminVars
<1>0. /\ ProcessTyped /\ Stages /\ Idle /\ Asking /\ OwnersKnown /\ WorkIsOwned /\ Paid
      /\ mishaps \in Nat
  BY DEF PInv, ProcessTyped
<1>1. /\ Up /\ step' = "ended" /\ fresh' = 0
      /\ IF booted THEN UNCHANGED main ELSE main' = "exited"
      /\ UNCHANGED <<poll, job, adminVars, disk, token, booted, asked, owner>>
      /\ mishaps' = mishaps \/ mishaps' = mishaps + 1
      /\ step = "saving" => mishaps' = mishaps + 1
      /\ step \in {"registering", "saving", "steady"}
      /\ left' = left \/ Mishap
  BY DEF SaveFails, Cancelled, GiveUp, Mishap
<1>2. ProcessTyped'
  <2>1. left' \in [jobs : SUBSET Job, admin : Nat, mishaps : Nat, starts : Nat]
    BY <1>0, <1>1 DEF Mishap, ProcessTyped
  <2> QED BY <1>0, <1>1, <2>1 DEF ProcessTyped
<1>3. Working' = Working
  BY <1>1 DEF Working
<1>4. CASE ~ booted
  <2>1. ~ Up' /\ Working' = {} /\ Held'
    BY <1>0, <1>1, <1>3, <1>4 DEF Up, Idle, Held
  <2> QED BY <1>1, <1>2, <2>1, ProcessEnds
<1>5. CASE booted
  <2>0. Up' /\ Up
    BY <1>1, <1>5 DEF Up
  <2>1. BornInOrder'
    BY <1>1 DEF PInv, BornInOrder, Born
  <2>2. Stages'
    BY <1>0, <1>1, <1>5, <2>0 DEF Stages, Held, Seeking
  <2>3. Idle' /\ Asking' /\ OwnersKnown'
    BY <1>0, <1>1, <1>3, <1>5, <2>0 DEF Idle, Asking, OwnersKnown
  <2>4. WorkIsOwned'
    BY <1>0, <1>1, <1>3, <2>0 DEF WorkIsOwned, Working
  <2>5. Paid'
    <3>1. CASE step = "saving"
      <4>1. Lost' \subseteq Lost \union {fresh}
        BY <1>1, <2>0, <3>1 DEF Lost, Mine, Seeking, Exists
      <4> QED BY <1>0, <1>1, <3>1, <4>1, PaidOnce
    <3>2. CASE step # "saving"
      <4>1. fresh = 0 /\ (step = "steady" => disk = token)
        BY <1>0, <2>0, <3>2 DEF Stages, Held
      <4>2. Lost' \subseteq Lost
        BY <1>1, <2>0, <3>2, <4>1 DEF Lost, Mine, Seeking, Exists, Ids
      <4> QED BY <1>0, <1>1, <4>2, PaidStill
    <3> QED BY <3>1, <3>2
  <2> QED BY <1>2, <2>1, <2>2, <2>3, <2>4, <2>5 DEF PInv
<1> QED BY <1>4, <1>5

(* The heartbeat is refused: the agent is deleted, and looks for a new row. *)
LEMMA Beats ==
  ASSUME PInv, Beat
  PROVE  PInv'
<1> USE DEF adminVars, workVars, vars, Up
<1>0. /\ ProcessTyped /\ Stages /\ Idle /\ Asking /\ OwnersKnown /\ WorkIsOwned /\ Paid
      /\ mishaps \in Nat
  BY DEF PInv, ProcessTyped
<1>1. /\ Up /\ step = "steady" /\ step' = "registering" /\ row[token] = "deleted"
      /\ disk' \in {0, disk}
      /\ UNCHANGED <<workVars, adminVars, token, fresh, booted, asked, owner, mishaps, left>>
  BY DEF Beat, Unauthorized
<1>2. ProcessTyped'
  BY <1>0, <1>1 DEF ProcessTyped
<1>3. BornInOrder'
  BY <1>1 DEF PInv, BornInOrder, Born
<1>4. Stages'
  BY <1>0, <1>1 DEF Stages, Held, Seeking
<1>5. Idle' /\ Asking' /\ OwnersKnown'
  BY <1>0, <1>1 DEF Idle, Asking, OwnersKnown, Working
<1>6. WorkIsOwned'
  BY <1>0, <1>1 DEF WorkIsOwned
<1>7. Paid'
  <2>1. disk = token
    BY <1>0, <1>1 DEF Stages
  <2>2. Lost' \subseteq Lost
    BY <1>1, <2>1 DEF Lost, Mine, Seeking, Exists
  <2> QED BY <1>0, <1>1, <2>2, PaidStill
<1> QED BY <1>2, <1>3, <1>4, <1>5, <1>6, <1>7 DEF PInv

(* The process dies.                                                        *)
LEMMA Crashes ==
  ASSUME IInv, PInv, Crash
  PROVE  IInv' /\ PInv'
<1>0. TypeOK /\ HoldersAtWork /\ GatesCounted /\ slots <= MaxConcurrency
  BY DEF IInv
<1>1. /\ Up /\ main' = "exited"
      /\ job' = [j \in Job |-> IF job[j] \in Busy THEN "killed" ELSE job[j]]
      /\ UNCHANGED <<poll, slots, gates, holds, cancelled, loops>>
      /\ UNCHANGED <<disk, token, step, fresh, booted, asked, owner, row, patch>>
      /\ Mishap
  BY DEF Crash, Killed, selfVars, adminVars
<1>2. IInv'
  <2>1. TypeOK'
    BY <1>0, <1>1 DEF TypeOK
  <2>2. HoldersAtWork'
    BY <1>0, <1>1 DEF HoldersAtWork, Inside, Holders, TypeOK, Busy
  <2>3. SlotsCounted'
    BY <1>1 DEF SlotsCounted, Up
  <2>4. GatesCounted'
    BY <1>0, <1>1, GatesRest
  <2> QED BY <1>0, <1>1, <2>1, <2>2, <2>3, <2>4 DEF IInv
<1>3. ~ Up' /\ Working' = {}
  BY <1>1 DEF Up, Working, Busy
<1>4. ProcessTyped' /\ Held'
  BY <1>1 DEF PInv, ProcessTyped, Mishap, Stages, Held
<1>5. PInv'
  BY <1>1, <1>3, <1>4, ProcessEnds DEF Mishap, adminVars
<1> QED BY <1>2, <1>5

(* It starts again, with the identity its file holds or without one.        *)
LEMMA Restarts ==
  ASSUME IInv, PInv, Restart
  PROVE  IInv' /\ PInv'
<1>0. /\ ProcessTyped /\ Stages /\ Idle /\ Asking /\ OwnersKnown /\ WorkIsOwned /\ Paid
      /\ mishaps \in Nat /\ TypeOK
  BY DEF PInv, ProcessTyped, IInv
<1>1. /\ ~ Up /\ Up' /\ poll' = "waiting" /\ slots' = 0 /\ holds' = {}
      /\ gates' = [t \in Capped |-> 0]
      /\ cancelled' = FALSE /\ loops' = Loop /\ main' = "running"
      /\ fresh' = 0
      /\ UNCHANGED <<job, disk, asked, owner, row, patch>>
      /\ left.starts > 0
  BY DEF Restart, adminVars, Up
<1>2. Working' = {}
  BY <1>0, <1>1 DEF Idle, Working
<1>3. IInv'
  <2>1. TypeOK'
    BY <1>0, <1>1 DEF TypeOK, Loop
  <2>2. /\ \A t : Holders(t)' = {}
        /\ \A t : Inside(t)' = {}
    BY <1>1, <1>2 DEF Holders, Inside, Working, Busy
  <2>3. HoldersAtWork'
    BY <1>1, <2>2 DEF HoldersAtWork
  <2>4. SlotsCounted' /\ GatesCounted' /\ (slots <= MaxConcurrency)'
    BY <1>1, <1>2, <2>2, FS_EmptySet, AgentAssumption DEF SlotsCounted, Claimed, GatesCounted, Capped
  <2> QED BY <2>1, <2>3, <2>4 DEF IInv
<1>4. BornInOrder'
  BY <1>1 DEF PInv, BornInOrder, Born
<1>5. Idle' /\ Asking' /\ OwnersKnown'
  BY <1>1, <1>2 DEF Idle, Asking, OwnersKnown
<1>6. WorkIsOwned'
  BY <1>2 DEF WorkIsOwned, Working
<1>7. CASE /\ disk # 0 /\ token' = disk /\ step' = "steady" /\ booted' = TRUE
           /\ left' = [left EXCEPT !.starts = @ - 1] /\ UNCHANGED mishaps
  <2>1. ProcessTyped'
    BY <1>0, <1>1, <1>7 DEF ProcessTyped
  <2>2. Stages'
    BY <1>0, <1>1, <1>7 DEF Stages, Held, Seeking, ProcessTyped
  <2>3. Lost' \subseteq Lost
    BY <1>1, <1>7 DEF Lost, Mine, Seeking, Exists
  <2> QED BY <1>0, <1>3, <1>4, <1>5, <1>6, <1>7, <2>1, <2>2, <2>3, PaidStill DEF PInv
<1>8. CASE /\ disk = 0 \/ left.mishaps > 0
           /\ token' = 0 /\ step' = "registering" /\ booted' = FALSE
           /\ IF disk = 0
              THEN left' = [left EXCEPT !.starts = @ - 1] /\ UNCHANGED mishaps
              ELSE /\ left' = [left EXCEPT !.starts = @ - 1, !.mishaps = @ - 1]
                   /\ mishaps' = mishaps + 1
  <2>1. ProcessTyped'
    <3>1. /\ left.mishaps \in Nat /\ left.starts \in Nat /\ left.starts - 1 \in Nat
          /\ disk # 0 => left.mishaps - 1 \in Nat
      BY <1>0, <1>1, <1>8 DEF ProcessTyped
    <3>2. left' \in [jobs : SUBSET Job, admin : Nat, mishaps : Nat, starts : Nat]
      BY <1>0, <1>8, <3>1 DEF ProcessTyped
    <3>3. mishaps' \in Nat
      BY <1>0, <1>8
    <3>4. token' \in Ids \union {0} /\ fresh' \in Ids \union {0} /\ booted' \in BOOLEAN
      BY <1>1, <1>8
    <3>5. step' \in {"registering", "saving", "steady", "ended"}
      BY <1>8
    <3> QED BY <1>0, <1>1, <3>2, <3>3, <3>4, <3>5 DEF ProcessTyped
  <2>2. Stages'
    BY <1>0, <1>1, <1>8 DEF Stages, Held, Seeking
  <2>3. Paid'
    <3>1. CASE disk = 0
      <4>1. Lost' \subseteq Lost
        BY <1>1, <1>8, <3>1 DEF Lost, Mine, Seeking, Exists
      <4> QED BY <1>0, <1>8, <3>1, <4>1, PaidStill
    <3>2. CASE disk # 0
      <4>1. Lost' \subseteq Lost \union {disk}
        BY <1>1, <1>8 DEF Lost, Mine, Seeking, Exists
      <4> QED BY <1>0, <1>8, <3>2, <4>1, PaidOnce
    <3> QED BY <3>1, <3>2
  <2> QED BY <1>3, <1>4, <1>5, <1>6, <2>1, <2>2, <2>3 DEF PInv
<1> QED BY <1>7, <1>8 DEF Restart


(* An administrator, and a handler that commits.                            *)
LEMMA Administration ==
  ASSUME IInv, PInv, AdminSteps
  PROVE  IInv' /\ PInv'
<1>0. ProcessTyped /\ row \in [Ids -> Statuses]
  BY DEF PInv, ProcessTyped
<1>1. UNCHANGED <<workVars, selfVars, mishaps>>
  BY DEF AdminSteps, Admin, CommitPatch
<1>2. IInv'
  BY <1>1, IInvStep DEF workVars
<1>3. left' \in [jobs : SUBSET Job, admin : Nat, mishaps : Nat, starts : Nat]
  BY <1>0 DEF AdminSteps, Admin, CommitPatch, ProcessTyped
<1>4. CASE \E i \in Ids : Approve(i) \/ Reject(i) \/ Delete(i)
  <2>1. row' \in [Ids -> Statuses] /\ patch' = patch
    BY <1>0, <1>4 DEF Approve, Reject, Delete, Statuses
  <2>2. \A i \in Ids : row'[i] # row[i] => Exists(i) /\ row'[i] # "unborn"
    BY <1>0, <1>4 DEF Approve, Reject, Delete
  <2>3. ProcessTyped'
    BY <1>0, <1>1, <1>3, <2>1 DEF ProcessTyped, selfVars
  <2> QED BY <1>1, <1>2, <2>2, <2>3, RegistryMoves
<1>5. CASE \E i \in Ids, s \in {"active", "disabled"} : LoadPatch(i, s)
  <2>1. row' = row /\ patch' \subseteq [id : Ids, to : {"active", "disabled"}]
    BY <1>0, <1>5 DEF LoadPatch, ProcessTyped
  <2>2. ProcessTyped'
    BY <1>0, <1>1, <1>3, <2>1 DEF ProcessTyped, selfVars
  <2> QED BY <1>1, <1>2, <2>1, <2>2, RegistryMoves
<1>6. ASSUME NEW p \in patch, CommitPatch(p) PROVE IInv' /\ PInv'
  <2>0. p.id \in Ids /\ p.to \in {"active", "disabled"}
    BY <1>0 DEF ProcessTyped
  <2>1. row' \in [Ids -> Statuses] /\ patch' \subseteq [id : Ids, to : {"active", "disabled"}]
    BY <1>0, <1>6, <2>0 DEF CommitPatch, ProcessTyped, Statuses
  <2>2. \A i \in Ids : row'[i] # row[i] => Exists(i) /\ row'[i] # "unborn"
    BY <1>0, <1>6, <2>0 DEF CommitPatch
  <2>3. ProcessTyped'
    BY <1>0, <1>1, <1>3, <2>1 DEF ProcessTyped, selfVars
  <2> QED BY <1>1, <1>2, <2>2, <2>3, RegistryMoves
<1> QED BY <1>4, <1>5, <1>6 DEF AdminSteps

(* A step of one goroutine that takes on no work.                           *)
LEMMA Quietly ==
  ASSUME IInv, PInv, Quiet, UNCHANGED main,
         \/ PollTick \/ StopPolling \/ PollFails \/ Signal \/ LoopEnds("metrics")
         \/ \E j \in Job : Execute(j) \/ RunEnds(j)
  PROVE  IInv' /\ PInv'
<1>1. IInv'
  BY IInvStep DEF Next, PollLoop, Loop
<1>2. TypeOK
  BY DEF IInv
<1>3. poll' = "polling" => poll = "polling"
  BY DEF PollTick, StopPolling, PollFails, Signal, LoopEnds, Execute, Unsupported,
         Acquire, AcquireCancelled, Submit, RunEnds
<1>4. Working' \subseteq Working
  <2>1. CASE PollTick \/ StopPolling \/ Signal \/ LoopEnds("metrics")
    BY <2>1 DEF PollTick, StopPolling, Signal, LoopEnds, Working
  <2>2. CASE PollFails
    BY <1>2, <2>2 DEF PollFails, Working, Busy, TypeOK
  <2>3. ASSUME NEW j \in Job, Execute(j) \/ RunEnds(j) PROVE Working' \subseteq Working
    BY <1>2, <2>3 DEF Execute, Unsupported, Acquire, AcquireCancelled, Submit, RunEnds,
                      Working, Busy, TypeOK
  <2> QED BY <2>1, <2>2, <2>3
<1>5. PInv'
  BY <1>3, <1>4, WorkGoesOn DEF Quiet
<1> QED BY <1>1, <1>5

(* A poll takes the token along.                                            *)
LEMMA PollLeaves ==
  ASSUME IInv, PInv, booted, PollAsks
  PROVE  IInv' /\ PInv'
<1> USE DEF adminVars, Up
<1>0. /\ ProcessTyped /\ Stages /\ Idle /\ OwnersKnown /\ WorkIsOwned /\ Paid
  BY DEF PInv
<1>1. /\ Up /\ asked' = token /\ poll' = "polling" /\ UNCHANGED <<job, main>>
      /\ UNCHANGED <<disk, token, step, fresh, booted, owner, adminVars, mishaps, left>>
  BY DEF PollAsks, TakeSlot
<1>2. IInv'
  BY IInvStep DEF PollAsks, Next, PollLoop
<1>3. ProcessTyped'
  BY <1>0, <1>1 DEF ProcessTyped
<1>4. BornInOrder' /\ Stages' /\ Idle' /\ OwnersKnown'
  BY <1>0, <1>1 DEF PInv, BornInOrder, Born, Stages, Held, Seeking, Idle, OwnersKnown, Working
<1>5. Asking'
  BY <1>0, <1>1 DEF Asking, Stages
<1>6. WorkIsOwned' /\ Paid'
  BY <1>0, <1>1 DEF WorkIsOwned, Paid, Lost, Mine, Seeking, Exists
<1> QED BY <1>2, <1>3, <1>4, <1>5, <1>6 DEF PInv

(* A task is handed to the identity that asked, which is the present one:   *)
(* a deleted agent is given nothing.                                        *)
LEMMA PollReturns ==
  ASSUME IInv, PInv, NEW j \in Job, PollGets(j)
  PROVE  IInv' /\ PInv'
<1> USE DEF adminVars, Up
<1>0. /\ ProcessTyped /\ Stages /\ Idle /\ Asking /\ OwnersKnown /\ WorkIsOwned /\ Paid
      /\ TypeOK /\ owner \in [Job -> Ids \union {0}]
  BY DEF PInv, ProcessTyped, IInv
<1>1. /\ Up /\ poll = "polling" /\ poll' = "waiting" /\ UNCHANGED main
      /\ job' = [job EXCEPT ![j] = "started"]
      /\ owner' = [owner EXCEPT ![j] = asked]
      /\ row[asked] = "active"
      /\ UNCHANGED <<disk, token, step, fresh, booted, asked, adminVars, mishaps, left>>
  BY DEF PollGets, PollTask, Served
<1>2. IInv'
  BY IInvStep DEF PollGets, Next, PollLoop
<1>3. booted /\ asked \in Ids /\ asked = token
  BY <1>0, <1>1 DEF Asking
<1>4. Working' = Working \union {j}
  BY <1>0, <1>1 DEF Working, Busy, TypeOK
<1>5. owner'[j] = asked /\ \A i \in Job : i # j => owner'[i] = owner[i]
  BY <1>0, <1>1
<1>6. ProcessTyped'
  BY <1>0, <1>1 DEF ProcessTyped
<1>7. BornInOrder' /\ Stages' /\ Idle' /\ Asking'
  BY <1>0, <1>1, <1>3 DEF PInv, BornInOrder, Born, Stages, Held, Seeking, Idle, Asking
<1>8. OwnersKnown'
  BY <1>0, <1>3, <1>4, <1>5 DEF OwnersKnown, Working
<1>9. WorkIsOwned'
  <2>1. ASSUME NEW i \in Working', token' # owner'[i] PROVE row'[owner'[i]] = "deleted"
    <3>1. i # j /\ i \in Working
      BY <1>1, <1>3, <1>4, <1>5, <2>1
    <3> QED BY <1>0, <1>1, <1>5, <2>1, <3>1 DEF WorkIsOwned, Working
  <2> QED BY <2>1 DEF WorkIsOwned, Working
<1>10. Paid'
  BY <1>0, <1>1 DEF Paid, Lost, Mine, Seeking, Exists
<1> QED BY <1>2, <1>6, <1>7, <1>8, <1>9, <1>10 DEF PInv

(* main() waits for its goroutines and ends.                                *)
LEMMA Exits ==
  ASSUME IInv, PInv, booted, Exit
  PROVE  IInv' /\ PInv'
<1> USE DEF selfVars, adminVars
<1>0. TypeOK /\ ProcessTyped /\ Held
  BY DEF IInv, PInv, Stages
<1>1. /\ UNCHANGED <<selfVars, adminVars, left>>
      /\ mishaps' = IF main' = "exited" /\ step = "saving" THEN mishaps + 1 ELSE mishaps
      /\ StartDraining \/ Drained \/ GraceOver
  BY DEF Exit, Run
<1>2. IInv'
  BY <1>1, IInvStep DEF Next, Run
<1>3. ProcessTyped' /\ Held'
  BY <1>0, <1>1 DEF ProcessTyped, Held
<1>4. CASE StartDraining
  <2>1. Up /\ Up' /\ UNCHANGED <<poll, job>> /\ main' = "draining" /\ main = "running"
    BY <1>4 DEF StartDraining, Up
  <2>2. mishaps' = mishaps /\ Working' = Working
    BY <1>1, <2>1 DEF Working
  <2>3. BornInOrder' /\ Stages' /\ Idle' /\ Asking' /\ OwnersKnown'
    BY <1>1, <2>1, <2>2, <1>3
       DEF PInv, BornInOrder, Born, Stages, Seeking, Idle, Asking, OwnersKnown
  <2>4. WorkIsOwned' /\ Paid'
    BY <1>1, <2>1, <2>2 DEF PInv, WorkIsOwned, Paid, Lost, Mine, Seeking, Exists
  <2> QED BY <1>2, <1>3, <2>3, <2>4 DEF PInv
<1>5. CASE Drained \/ GraceOver
  <2>1. Up /\ ~ Up' /\ main' = "exited"
    BY <1>5 DEF Drained, GraceOver, Up
  <2>2. Working' = {}
    BY <1>5 DEF Drained, GraceOver, Working, Busy
  <2>3. PInv'
    BY <1>1, <1>3, <2>1, <2>2, ProcessEnds
  <2> QED BY <1>2, <2>3
<1> QED BY <1>1, <1>4, <1>5

LEMMA ProcessStep == IInv /\ PInv /\ [ProcessNext]_processVars => IInv' /\ PInv'
<1> SUFFICES ASSUME IInv, PInv, [ProcessNext]_processVars PROVE IInv' /\ PInv'
  OBVIOUS
<1>0. TypeOK
  BY DEF IInv
<1>1. CASE PollSteps
  <2>1. CASE (PollTick \/ StopPolling) /\ Quiet
    BY <2>1, Quietly DEF PollTick, StopPolling
  <2>2. CASE PollEnds
    BY <2>2, Quietly DEF PollEnds, PollFails
  <2> QED BY <1>1, <2>1, <2>2, PollLeaves, PollReturns DEF PollSteps
<1>2. ASSUME NEW j \in Job, TaskSteps(j) \/ (RunEnds(j) /\ Quiet) PROVE IInv' /\ PInv'
  <2>1. Quiet /\ (Execute(j) \/ RunEnds(j))
    BY <1>2 DEF TaskSteps, Answer, Execute
  <2>2. main' = main
    BY <2>1 DEF Execute, Unsupported, Acquire, AcquireCancelled, Submit, RunEnds
  <2> QED BY <2>1, <2>2, Quietly
<1>3. CASE (Signal \/ LoopEnds("metrics")) /\ Quiet
  BY <1>3, Quietly DEF Signal, LoopEnds
<1>4. CASE booted /\ Exit
  BY <1>4, Exits
<1>5. CASE Identify \/ Save \/ Beat
  <2>1. UNCHANGED workVars
    BY <1>5 DEF Identify, Register, Save, Beat
  <2>2. IInv'
    BY <2>1, IInvStep DEF workVars
  <2> QED BY <1>5, <2>2, Registers, Saves, Beats DEF Identify
<1>6. CASE SaveFails \/ Cancelled
  <2>1. /\ UNCHANGED <<poll, slots, gates, job, holds, cancelled>>
        /\ Up /\ loops' \subseteq loops /\ main' \in {main, "exited"}
    BY <1>6 DEF SaveFails, Cancelled, GiveUp
  <2>2. TypeOK' /\ (Up' => Up)
    BY <1>0, <2>1 DEF TypeOK, Up
  <2>3. IInv'
    BY <2>1, <2>2, Elsewhere
  <2> QED BY <1>0, <1>6, <2>3, GivesUp
<1>7. CASE Crash \/ Restart
  BY <1>7, Crashes, Restarts
<1>8. CASE AdminSteps
  BY <1>8, Administration
<1>9. CASE UNCHANGED processVars
  <2>1. UNCHANGED <<workVars, selfVars, adminVars, mishaps, left>>
    BY <1>9 DEF processVars
  <2>2. IInv'
    BY <2>1, IInvStep DEF workVars
  <2>3. PInv'
    BY <2>1, WorkGoesOn DEF workVars, vars, Working
  <2> QED BY <2>2, <2>3
<1> QED BY <1>1, <1>2, <1>3, <1>4, <1>5, <1>6, <1>7, <1>8, <1>9 DEF ProcessNext

(* The invariants of the goroutines and of the identity hold throughout.    *)
THEOREM ProcessInvariance == ProcessSpec => [](IInv /\ PInv)
<1> QED BY ProcessInitial, ProcessStep, PTL DEF ProcessSpec

(* The slots are accounted for across crashes and restarts as well          *)
(* (main.go:70-120).                                                        *)
THEOREM SlotsAccountedThroughout == ProcessSpec => []SlotsAccountedFor
<1>1. IInv => SlotsAccountedFor
  BY DEF IInv, SlotsCounted, Claimed, GatesCounted, HoldersAtWork, SlotsAccountedFor
<1> QED BY <1>1, ProcessInvariance, PTL

(* An agent answers for its tasks under the identity they were handed to,   *)
(* unless that one has been deleted, for any number of tasks and            *)
(* registrations (http.go:44-63, main.go:177-186, tasks.py:142).            *)
THEOREM WorkOwned == ProcessSpec => []WorkIsOwned
<1>1. PInv => WorkIsOwned
  BY DEF PInv
<1> QED BY <1>1, ProcessInvariance, PTL

(* Each agent that no process and no file will be again has been paid for   *)
(* by a mishap of its own (store.go:43-64, main.go:122-161).                *)
THEOREM GhostsPaid == ProcessSpec => []GhostsArePaid
<1>1. ASSUME PInv PROVE GhostsArePaid
  <2> DEFINE G == {i \in Ids \ Remembered : Exists(i)}
  <2>1. G \subseteq Lost
    BY <1>1 DEF Remembered, Lost, Mine, PInv, Stages
  <2>2. Lost \in SUBSET Ids /\ G \in SUBSET Ids
    BY DEF Lost
  <2>3. IsFiniteSet(Lost) /\ Cardinality(Lost) \in Nat /\ Cardinality(G) \in Nat
    BY <2>2, IdsFinite
  <2>4. Cardinality(G) <= Cardinality(Lost)
    BY <2>1, <2>3, FS_Subset
  <2> QED BY <1>1, <2>3, <2>4 DEF PInv, ProcessTyped, Paid, GhostsArePaid
<1> QED BY <1>1, ProcessInvariance, PTL
=============================================================================
