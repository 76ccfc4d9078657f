---------------------------- MODULE TargetsPage ----------------------------
(* pages/PublicTargetsAdmin.tsx: the targets of the public status page.     *)
(* The order of the list is left out.                                       *)
EXTENDS OptimisticList

\* The label is sent as the form has it, changed or not.
SaveTarget(i) ==
  /\ ~ Busy("save", i)
  /\ \E s \in Slots : Click(Plain(s, "save", i, draft[i]), selected)

PublicTargetRow(i) ==
  \/ UNCHANGED budget /\ \E l \in Labels : SetDraft(i, {l})
  \/ SaveTarget(i)
  \/ ~ Busy("delete", i) /\ Question(i)

\* The button is disabled while a target is being added.
AddTarget(i) ==
  /\ Unused(i)
  /\ ~ \E j \in Ids : Busy("create", j)
  /\ \E s \in Slots, l \in Labels : Click(Plain(s, "create", i, {l}), selected)

TargetsUser ==
  \/ \E i \in Visible : PublicTargetRow(i)
  \/ \E i \in Ids : AddTarget(i)

TargetsOutside ==
  \E i \in Ids :
    \/ Unused(i) /\ \E l \in Labels : OutsideWrites(i, Row("enabled", {l}))
    \/ /\ rows[i] # None
       /\ \/ \E l \in Labels : OutsideWrites(i, Served("save", {l}, rows[i]))
          \/ OutsideWrites(i, None)
=============================================================================
