---------------------------- MODULE TaskContract ----------------------------
(***************************************************************************)
(* What the task API promises about each task, with the database, the      *)
(* handlers and the agents left out: a task is inserted, handed out, run,  *)
(* perhaps taken back and handed out again, settled with at most one       *)
(* result per hand-out, and removed.                                       *)
(*                                                                         *)
(* Promised is what the documentation says: a settled task stays settled.  *)
(* Late is what the implementation adds: the two moves that handlers can   *)
(* make that commit over a row they loaded earlier, and nothing else.      *)
(***************************************************************************)
EXTENDS Integers

CONSTANT Task

VARIABLES
  phase,     \* what a client sees of the task
  handouts,  \* how often a poll returned it
  results    \* how many results are stored for it

vars == <<phase, handouts, results>>

Phase == {"unborn", "queued", "claimed", "running", "settled", "gone"}

Init ==
  /\ phase = [t \in Task |-> "unborn"]
  /\ handouts = [t \in Task |-> 0]
  /\ results = [t \in Task |-> 0]

Keeps(t)       == handouts'[t] = handouts[t] /\ results'[t] = results[t]
Moves(t, S, s) == phase[t] \in S /\ phase'[t] = s

Inserted(t) == Moves(t, {"unborn"}, "queued") /\ Keeps(t)

HandedOut(t) ==
  /\ Moves(t, {"queued"}, "claimed")
  /\ handouts'[t] = handouts[t] + 1
  /\ results'[t] = results[t]

Started(t) == Moves(t, {"claimed"}, "running") /\ Keeps(t)

TakenBack(t) == Moves(t, {"claimed", "running"}, "queued") /\ Keeps(t)

SettledFrom(t, S) ==
  /\ Moves(t, S, "settled")
  /\ handouts'[t] = handouts[t]
  /\ \/ results'[t] = results[t]
     \/ results'[t] = results[t] + 1 /\ results[t] < handouts[t]

Settled(t) == SettledFrom(t, {"queued", "claimed", "running"})

\* With its agent a task may go at any time; it takes its results along.
Removed(t) ==
  /\ Moves(t, Phase, "gone")
  /\ handouts'[t] = handouts[t]
  /\ results'[t] = 0

Promised(t) ==
  \/ phase'[t] = phase[t] /\ Keeps(t)
  \/ Inserted(t) \/ HandedOut(t) \/ Started(t) \/ TakenBack(t) \/ Settled(t)
  \/ Removed(t)

\* A stale writer reports progress on a task that was taken back or settled,
\* or settles a settled one again.
Late(t) ==
  \/ Moves(t, {"queued", "running", "settled"}, "running") /\ Keeps(t)
  \/ SettledFrom(t, {"settled"})

WellFormed ==
  /\ phase' \in [Task -> Phase]
  /\ handouts' \in [Task -> Nat]
  /\ results' \in [Task -> Nat]

\* Several tasks may move at once: a group is inserted and removed whole, and
\* a watchdog tick takes back a batch.
Next == WellFormed /\ \A t \in Task : Promised(t) \/ Late(t)

Spec == Init /\ [][Next]_vars

=============================================================================
