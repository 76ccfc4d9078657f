------------------------------ MODULE TasksPage ------------------------------
(* pages/Tasks.tsx: the list of tasks, grouped, with undoable deletes.      *)
EXTENDS OptimisticList

CONSTANT GroupOf   \* each task's group

CanDelete == role \in {"operator", "admin"}
Members(g) == {i \in Ids : GroupOf[i] = g}
TaskGroups == {GroupOf[i] : i \in Ids}

\* The rows of a group that pass the filters; two or more get a group row.
Group(g) == Members(g) \intersect Visible
Terminal(i) == cache[i].status = "done"

DeleteTask(s, i) == Click(Undoable(s, "undo", {i}, {{i}}, FALSE), selected)

\* One request that names the group, members the filters hide included.
DeleteGroup(s, g) ==
  Click(Undoable(s, "undo", Members(g), {Members(g)}, FALSE), selected)

DeleteSelectedTasks(s) ==
  /\ CanDelete
  /\ selected # {}
  /\ Click(Undoable(s, "undoAll", selected, Each(selected), FALSE), {})

OnDeleteGroup(s, g) == (\A i \in Group(g) : Terminal(i)) /\ DeleteGroup(s, g)

ToggleSelected(i) == Select((selected \ {i}) \union ({i} \ selected))
ToggleSelectGroup(g) ==
  Select(IF Group(g) \subseteq selected THEN selected \ Group(g)
         ELSE selected \union Group(g))

\* A task that stands alone, and a task in an unfolded group: the same
\* controls.  The cross is disabled while the task is live.
SingleRow(i) ==
  /\ CanDelete
  /\ i \in Visible
  /\ \/ ToggleSelected(i)
     \/ Terminal(i) /\ \E s \in Slots : DeleteTask(s, i)

GroupRows(g) ==
  /\ CanDelete
  /\ Cardinality(Group(g)) > 1
  /\ ToggleSelectGroup(g) \/ \E s \in Slots : OnDeleteGroup(s, g)

TasksUser ==
  \/ CanDelete /\ (SelectAll \/ ClearSelection)
  \/ \E s \in Slots : DeleteSelectedTasks(s)
  \/ \E i \in Ids : SingleRow(i)
  \/ \E g \in TaskGroups : GroupRows(g)

\* Agents finish tasks; others create and delete them.
TasksOutside ==
  \E i \in Ids :
    \/ rows[i] # None /\ rows[i].status = "live" /\ OutsideWrites(i, Row("done", {}))
    \/ rows[i] # None /\ rows[i].status = "done" /\ OutsideWrites(i, None)
    \/ Unused(i) /\ OutsideWrites(i, Row("live", {}))
=============================================================================
