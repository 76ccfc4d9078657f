---------------------------- MODULE MCScheduler ----------------------------
(* Instances of Scheduler for TLC. *)
EXTENDS Scheduler

CONSTANTS a1, a2

\* Two agents share the only tag; one of them cannot run the task type.
BothTagged == [a \in Agent |-> Tag]
OneAble    == {a1}

ById(i)  == [ids |-> {a1}, tags |-> {}, interval |-> i]
ByTag(i) == [ids |-> {}, tags |-> Tag, interval |-> i]
IdOrTag  == {ById(1), ByTag(2)}

Broken == [target |-> FALSE]
Edits  == {[enabled |-> TRUE], [enabled |-> FALSE], Broken, [ids |-> {a1}, interval |-> 1]}

World(who, scheds, sent, edits, end, triggers, stops) ==
  [agents |-> who, schedules |-> scheds, specs |-> sent, patches |-> edits,
   time |-> end, manual |-> triggers, restarts |-> stops]

\* One schedule whose handler edits, triggers or deletes it; the same with a
\* restart; one routed by tag to agents that come and go; two whose targets
\* break, taken in batches of one.
EditsAndFaults ==
  {World({a1}, {1}, {ById(1)}, Edits, 1, 1, 0),
   World({a1}, {1}, {ById(1)}, Edits, 2, 0, 1),
   World(Agent, {1}, {ByTag(2)}, Edits, 2, 0, 0),
   World({a1}, {1, 2}, {ById(1)}, {Broken}, 1, 0, 0)}
=============================================================================
