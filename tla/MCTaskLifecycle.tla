-------------------------- MODULE MCTaskLifecycle --------------------------
(* Instances of TaskLifecycle for TLC. *)
EXTENDS TaskLifecycle, TLC

CONSTANTS a1, t1

\* One task of one agent.
OneOwner    == [t \in Task |-> a1]
OneGroup    == [t \in Task |-> 0]
OnePriority == [t \in Task |-> 0]

\* Two requests, of which the first is handed out again.
TwoGroups      == [t \in Task |-> IF t = t1 THEN 0 ELSE 1]
OnceEach       == [t \in Task |-> 1]
TwiceEach      == [t \in Task |-> 2]

RequestSymmetry == Permutations(Request)

\* The bound on hand-outs would end every claim-and-requeue loop by itself.
\* Only the history properties read the counts and the claim numbers, so a
\* task that is not in progress forgets them: the loop goes on without end in
\* finitely many states.  Executions and handlers of earlier hand-outs stay.
Spent(t) == row[t].status \notin InProgress /\ claims[t] + requeues[t] > 0

Forget ==
  /\ claims' = [t \in Task |-> IF Spent(t) THEN 0 ELSE claims[t]]
  /\ requeues' = [t \in Task |-> IF Spent(t) THEN 0 ELSE requeues[t]]
  /\ UNCHANGED <<row, older, Fleet, pending, runs>>

\* Forgetting comes before any other step.
NextForgetting ==
  IF \E t \in Task : Spent(t) THEN Forget ELSE Next

EndlessSpec == Init /\ [][NextForgetting]_vars /\ Fairness
=============================================================================
