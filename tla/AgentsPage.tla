----------------------------- MODULE AgentsPage -----------------------------
(* pages/Agents.tsx: the list of agents, edited row by row and in bulk.     *)
EXTENDS OptimisticList

IsAdmin == role = "admin"
StatusOf(i) == cache[i].status

\* The tag editor tidies what is typed; the rows may hold other tags.
TidyTags == {t \in Tags : Tidy[t] = t}

-----------------------------------------------------------------------------
(* Bulk operations on the ticked rows: each sends one request per row.      *)

BulkPatch(op, ids, tg) ==
  /\ ids # {}
  /\ \E s \in Slots : Click(Optimistic(s, "bulk", op, ids, tg), {})

\* The request carries no tags, whatever the preview keeps.
BulkApprove ==
  BulkPatch("approve", {i \in selected : StatusOf(i) = "pending"}, NoTags)

\* The tags sent are those shown, with the new ones.
BulkAddTags(add) ==
  BulkPatch("tag", selected,
            [i \in Ids |-> IF i \in selected THEN cache[i].tags \union add ELSE {}])

BulkDisable(status) ==
  BulkPatch(status, {i \in selected : StatusOf(i) \notin {"pending", "rejected"}}, NoTags)

BulkDelete ==
  /\ selected # {}
  /\ \E s \in Slots : Click(Undoable(s, "undoAll", selected, Each(selected), TRUE), {})

\* The popover of tags: "save" is disabled while none is picked.
BulkTagButton == \E tags \in (SUBSET TidyTags) \ {{}} : BulkAddTags(tags)

BulkBar ==
  \/ SelectAll
  \/ ClearSelection
  \/ BulkApprove
  \/ BulkTagButton
  \/ \E st \in {"active", "disabled"} : BulkDisable(st)
  \/ BulkDelete

-----------------------------------------------------------------------------
(* One row.                                                                 *)

ToggleRow(i) == Select((selected \ {i}) \union ({i} \ selected))

Mutate(op, i, tg) ==
  /\ ~ Busy(op, i)
  /\ \E s \in Slots :
       Click(Optimistic(s, "mutation", op, {i}, [NoTags EXCEPT ![i] = tg]), selected)

Approve(i) == \E tg \in SUBSET TidyTags : Mutate("approve", i, tg)
Reject(i)  == Mutate("reject", i, {})
ToggleStatus(i) ==
  Mutate(IF StatusOf(i) = "active" THEN "disabled" ELSE "active", i, {})

PendingActions(i) == StatusOf(i) = "pending" /\ (Approve(i) \/ Reject(i))

\* The form is loaded from the row as it is now, and saved as a whole.
StartEdit(i)  == Act /\ SetDraft(i, cache[i].tags)
Save(i)       == Mutate("save", i, draft[i])
GeoDetect(i)  == \E s \in Slots : Click(Plain(s, "geo", i, {}), selected)

\* The tags, one at a time; look up the location; cancel; save.
EditPanel(i) ==
  \/ /\ UNCHANGED budget
     /\ \/ \E t \in draft[i] : SetDraft(i, draft[i] \ {t})
        \/ \E t \in TidyTags \ draft[i] : SetDraft(i, draft[i] \union {t})
        \/ SetDraft(i, None)
  \/ GeoDetect(i)
  \/ Save(i)

AgentRow(i) ==
  /\ IsAdmin
  /\ i \in Visible
  /\ \/ ToggleRow(i)
     \/ draft[i] # None /\ EditPanel(i)
     \/ draft[i] = None /\ PendingActions(i)
     \/ /\ draft[i] = None
        /\ StatusOf(i) # "pending"
        /\ \/ StartEdit(i)
           \/ StatusOf(i) \in {"active", "disabled"} /\ ToggleStatus(i)
           \/ ~ Busy("delete", i) /\ Question(i)

AgentsUser == (IsAdmin /\ BulkBar) \/ \E i \in Ids : AgentRow(i)

\* Agents register; another administrator, or a script, decides about them.
AgentsOutside ==
  \E i \in Ids :
    \/ Unused(i) /\ OutsideWrites(i, Row("pending", {}))
    \/ /\ rows[i] # None
       /\ \/ OutsideWrites(i, Served("reject", {}, rows[i]))
          \/ \E tags \in {{}, Tags} : OutsideWrites(i, Served("approve", tags, rows[i]))
          \/ OutsideWrites(i, Served("tag", Tags, rows[i]))
          \/ OutsideWrites(i, None)
=============================================================================
