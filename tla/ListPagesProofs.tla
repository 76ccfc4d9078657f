--------------------------- MODULE ListPagesProofs ---------------------------
(* What holds of the five list pages for any rows, filters, tags, number of *)
(* changes under way and events.                                            *)
EXTENDS ListPages, TLAPS

Kinds == Soft \union {"mutation", "bulk", "plain"}

-----------------------------------------------------------------------------
(* The inductive invariant.                                                *)

\* The requests of a change name its rows, each once; a row is created by one
\* request; what is not previewed is a plain request.
WellMade ==
  \A s \in Slots : job[s] # None =>
    /\ UNION job[s].todo \subseteq job[s].ids
    /\ \A R, Q \in job[s].todo : R # Q => R \intersect Q = {}
    /\ job[s].op = "create" => page # "tasks" /\ job[s].todo \subseteq {job[s].ids}
    /\ job[s].kind # "plain" => job[s].op \in Previewed

\* On the pages whose rows hold their form at all times.
FormsAreFilled ==
  page \notin Polled => \A i \in Visible : draft[i] \in Forms

Typed == TypeOK /\ WellMade /\ FormsAreFilled

\* What PreviewIsHonest says of one row.
Kept(j, i) ==
  \/ rows[i] = j.promise[i]
  \/ /\ j.op \in {"save", "tag"}
     /\ rows[i] = [j.promise[i] EXCEPT !.tags = Tidied(@)]
  \/ /\ j.op = "approve"
     /\ j.tags[i] \subseteq j.promise[i].tags
     /\ rows[i] = [j.promise[i] EXCEPT !.tags = j.tags[i]]

\* What the page shows of row i since the click.
Promised(j, i) ==
  j.promise[i] = IF j.prev[i] # None THEN Patched(j.op, j.tags[i], j.prev[i])
                 ELSE j.prev[i]

\* A change that nobody disturbed finds the rows it still asks about as the
\* page showed them at its click, and has made the others what it promised.
ForeseenAt(s) ==
  /\ job[s] # None
  /\ job[s].kind # "plain"
  /\ job[s].clean
  /\ job[s].step \in {"grace", "sent"}
  => \A i \in job[s].ids :
       /\ Promised(job[s], i)
       /\ i \in UNION job[s].todo => rows[i] = job[s].prev[i]
       /\ i \notin UNION job[s].todo /\ ~ job[s].failed => Kept(job[s], i)

Foreseen == \A s \in Slots : ForeseenAt(s)

\* A delete that was not refused has removed what it no longer asks about.
Deleting ==
  \A s \in Slots :
    /\ job[s] # None
    /\ job[s].op = "delete" /\ job[s].step \in {"grace", "sent"} /\ ~ job[s].failed
    => \A i \in job[s].ids : i \in UNION job[s].todo \/ rows[i] = None

\* Nobody has seen row i yet.
Unborn(i) ==
  /\ rows[i] = None /\ cache[i] = None /\ fetch.rows[i] = None
  /\ i \notin told /\ i # ask
  /\ \A s \in Slots : job[s] # None => job[s].prev[i] = None

\* Until it is created nobody knows a new row but the change that creates it.
Creating ==
  \A s \in Slots :
    job[s] # None /\ job[s].op = "create" /\ job[s].todo # {}
    => \A i \in job[s].ids :
         /\ Unborn(i)
         /\ \A u \in Slots : job[u] # None /\ u # s => i \notin job[u].ids

ToldIsGone ==
  \A i \in told : rows[i] = None /\ (fetch.step = "read" => fetch.rows[i] = None)

Gone == Deleting /\ Creating /\ ToldIsGone

-----------------------------------------------------------------------------
(* The kinds of step a page takes.                                         *)

\* The tasks of a group that shows at least two, all of them finished.
WholeGroup(ids) ==
  \E g \in TaskGroups :
    /\ page = "tasks"
    /\ ids = Members(g)
    /\ Cardinality(Members(g) \intersect Visible) > 1
    /\ \A i \in Members(g) \intersect Visible : cache[i].status = "done"

\* A change as a click makes one.
Sound(kind, op, ids, tg, todo) ==
  /\ kind \in Kinds /\ op \in Operations
  /\ ids \subseteq Ids /\ tg \in [Ids -> Forms]
  /\ UNION todo = ids
  /\ \A R, Q \in todo : R # Q => R \intersect Q = {}
  /\ kind \in {"bulk"} \union Soft => ids \subseteq Visible \/ WholeGroup(ids)
  /\ kind # "plain" => op \in Previewed
  /\ op = "create" => /\ page # "tasks"
                      /\ todo \subseteq {ids}
                      /\ \A i \in ids : Unused(i)
  /\ op # "create" => page = "tasks" \/ ids \subseteq Visible \union {ask}

BeginsWith(s, kind, op, ids, tg, todo, cancels) ==
  /\ Sound(kind, op, ids, tg, todo)
  /\ Begin(s, kind, op, ids, tg, todo, cancels)
  /\ \E sel : Render(sel, draft)
  /\ ask' \in {ask, None}

Begins ==
  \E s \in Slots, cancels \in BOOLEAN : \E kind, op, ids, tg, todo :
    BeginsWith(s, kind, op, ids, tg, todo, cancels)

\* What the user sees, ticks or types, and nothing that is under way.
Looks ==
  /\ UNCHANGED <<role, rows, cache, fetch, job, told>>
  /\ mounted' \in BOOLEAN /\ filter' \in Filters /\ budget' \in Nat
  /\ ask' \in {ask, None} \union Visible
  /\ \/ \E sel : Render(sel, draft)
     \/ /\ UNCHANGED <<mounted, filter, selected>>
        /\ \/ UNCHANGED draft
           \/ \E i \in Visible, d \in Forms \union {None} :
                draft' = [draft EXCEPT ![i] = d] /\ (page \notin Polled => d \in Forms)

\* Someone else writes a row there is, or a new one.
Intrudes ==
  \E i \in Ids, r \in RowOrNone :
    OutsideWrites(i, r) /\ (rows[i] # None \/ Unused(i))

-----------------------------------------------------------------------------
(* Rows, previews and the requests of a change.                            *)

LEMMA TidiedTyped ==
  ASSUME NEW tg \in Forms
  PROVE  Tidied(tg) \in Forms
<1>1. \A t \in Tags : Tidy[t] \in Tags \union {None}
  BY ListAssumption
<1> QED BY <1>1 DEF Tidied, Forms

LEMMA ServedTyped ==
  ASSUME NEW op \in Operations, NEW tg \in Forms, NEW r \in RowOrNone,
         r # None \/ op = "create"
  PROVE  Served(op, tg, r) \in RowOrNone
<1>1. Tidied(tg) \in Forms
  BY TidiedTyped
<1> QED BY <1>1 DEF Served, Forms, RowOrNone, Operations, Previewed, Statuses, Row

LEMMA PatchedTyped ==
  ASSUME NEW op \in Previewed, NEW tg \in Forms, NEW r \in RowOrNone, r # None
  PROVE  Patched(op, tg, r) \in RowOrNone
  BY DEF Patched, Forms, RowOrNone, Previewed, Statuses

LEMMA EmptyTyped == Empty \in Table /\ \A i \in Ids : Empty[i] = None
  BY DEF Empty, Table, RowOrNone

\* One request per row asks for each row once.
LEMMA EachOnce ==
  ASSUME NEW ids
  PROVE  /\ UNION Each(ids) = ids
         /\ \A R, Q \in Each(ids) : R # Q => R \intersect Q = {}
  BY DEF Each

LEMMA VisibleRows ==
  ASSUME TypeOK
  PROVE  /\ Visible \subseteq Ids
         /\ \A i \in Visible : cache[i] # None /\ cache[i].tags \in Forms
                               /\ cache[i].status \in Statuses
  BY DEF TypeOK, Visible, Shown, Table, RowOrNone

\* A render ticks and fills what is shown.
LEMMA Rendered ==
  ASSUME TypeOK, NEW sel, NEW dr \in [Ids -> Forms \union {None}],
         cache' \in Table, mounted' \in BOOLEAN, page' = page, Render(sel, dr)
  PROVE  /\ selected' \subseteq Visible'
         /\ draft' \in [Ids -> Forms \union {None}]
         /\ \A i \in Ids : i \in Visible' \/ draft'[i] = None
         /\ FormsAreFilled'
<1> DEFINE on == IF mounted' THEN Shown(cache', filter') ELSE {}
<1>1. on = Visible'
  BY DEF Visible, Shown, Passes
<1>2. \A i \in on : i \in Ids /\ cache'[i].tags \in Forms
  BY DEF Shown, Table, RowOrNone
<1>3. selected' \subseteq on
  BY DEF Render
<1>4. draft' = [i \in Ids |-> IF i \notin on THEN None
                              ELSE IF dr[i] = None /\ page \notin Polled
                                   THEN cache'[i].tags ELSE dr[i]]
  BY DEF Render
<1> HIDE DEF on
<1>5. draft' \in [Ids -> Forms \union {None}]
  BY <1>2, <1>4
<1>6. \A i \in Ids : i \in on \/ draft'[i] = None
  BY <1>4
<1>7. ASSUME page \notin Polled PROVE \A i \in on : draft'[i] \in Forms
  BY <1>2, <1>4, <1>7
<1> QED BY <1>1, <1>3, <1>5, <1>6, <1>7 DEF FormsAreFilled

-----------------------------------------------------------------------------
(* The user's clicks, page by page.                                        *)

LEMMA ClickBegins ==
  ASSUME NEW s \in Slots, NEW kind, NEW op, NEW ids, NEW tg, NEW todo,
         NEW cancels \in BOOLEAN, NEW sel,
         Sound(kind, op, ids, tg, todo),
         Click(Begin(s, kind, op, ids, tg, todo, cancels), sel)
  PROVE  Begins
<1>1. BeginsWith(s, kind, op, ids, tg, todo, cancels)
  BY DEF Click, BeginsWith
<1> QED BY <1>1 DEF Begins

LEMMA NoTagsTyped ==
  /\ NoTags \in [Ids -> Forms]
  /\ \A i \in Ids, tg \in Forms : [NoTags EXCEPT ![i] = tg] \in [Ids -> Forms]
  BY DEF NoTags, Forms

\* Changes of rows that are shown.
LEMMA OptimisticBegins ==
  ASSUME TypeOK, NEW s \in Slots, NEW kind \in {"mutation", "bulk"},
         NEW op \in Previewed, NEW ids \in SUBSET Visible,
         NEW tg \in [Ids -> Forms], NEW sel,
         Click(Optimistic(s, kind, op, ids, tg), sel)
  PROVE  Begins
<1>1. Sound(kind, op, ids, tg, Each(ids))
  BY EachOnce, VisibleRows DEF Sound, Kinds, Operations, Previewed
<1>2. Click(Begin(s, kind, op, ids, tg, Each(ids), TRUE), sel)
  BY DEF Optimistic
<1> QED BY <1>1, <1>2, ClickBegins

LEMMA PlainBegins ==
  ASSUME TypeOK, NEW s \in Slots, NEW op \in Operations, NEW i \in Ids,
         NEW tg \in Forms, NEW sel,
         IF op = "create" THEN page # "tasks" /\ Unused(i) ELSE i \in Visible,
         Click(Plain(s, op, i, tg), sel)
  PROVE  Begins
<1> DEFINE tags == [NoTags EXCEPT ![i] = tg]
<1>1. Sound("plain", op, {i}, tags, {{i}})
  BY NoTagsTyped DEF Sound, Kinds, Soft
<1>2. Click(Begin(s, "plain", op, {i}, tags, {{i}}, FALSE), sel)
  BY DEF Plain
<1> HIDE DEF tags
<1> QED BY <1>1, <1>2, ClickBegins

LEMMA UndoableBegins ==
  ASSUME TypeOK, NEW s \in Slots, NEW kind \in Soft, NEW ids \in SUBSET Ids,
         NEW todo, UNION todo = ids,
         \A R, Q \in todo : R # Q => R \intersect Q = {},
         WholeGroup(ids) \/ ids \subseteq Visible,
         NEW cancels \in BOOLEAN, NEW sel,
         Click(Undoable(s, kind, ids, todo, cancels), sel)
  PROVE  Begins
<1>1. Sound(kind, "delete", ids, NoTags, todo)
  BY NoTagsTyped DEF Sound, Kinds, Operations, Previewed, Soft, WholeGroup
<1>2. Click(Begin(s, kind, "delete", ids, NoTags, todo, cancels), sel)
  BY DEF Undoable
<1> QED BY <1>1, <1>2, ClickBegins

LEMMA SelectLooks ==
  ASSUME TypeOK, NEW ids, Select(ids)
  PROVE  Looks
  BY DEF Select, Clickable, Looks, TypeOK

LEMMA QuestionLooks ==
  ASSUME TypeOK, NEW i \in Visible, Question(i)
  PROVE  Looks
  BY DEF Question, Clickable, Looks, TypeOK

LEMMA DraftLooks ==
  ASSUME TypeOK, NEW i \in Visible, NEW d \in Forms \union {None},
         page \notin Polled => d \in Forms,
         SetDraft(i, d), budget' = budget \/ Act
  PROVE  Looks
<1>1. budget' \in Nat
  BY DEF TypeOK, Act
<1> QED BY <1>1 DEF SetDraft, Clickable, Looks, TypeOK

LEMMA TasksMoves ==
  ASSUME TypeOK, page = "tasks", TasksUser
  PROVE  Begins \/ Looks
<1>1. selected \subseteq Visible /\ Visible \subseteq Ids
  BY VisibleRows DEF TypeOK
<1>2. ASSUME NEW ids, Select(ids) PROVE Looks
  BY <1>2, SelectLooks
<1>3. CASE SelectAll \/ ClearSelection
  BY <1>2, <1>3 DEF SelectAll, ClearSelection
<1>4. ASSUME NEW s \in Slots, DeleteSelectedTasks(s) PROVE Begins
  <2>1. Click(Undoable(s, "undoAll", selected, Each(selected), FALSE), {})
    BY <1>4 DEF DeleteSelectedTasks
  <2> QED BY <1>1, <2>1, EachOnce, UndoableBegins DEF Soft
<1>5. ASSUME NEW i \in Ids, SingleRow(i) PROVE Begins \/ Looks
  <2>1. CASE ToggleSelected(i)
    BY <1>2, <2>1 DEF ToggleSelected
  <2>2. ASSUME NEW s \in Slots, DeleteTask(s, i) PROVE Begins
    <3>1. Click(Undoable(s, "undo", {i}, {{i}}, FALSE), selected)
      BY <2>2 DEF DeleteTask
    <3>2. {i} \subseteq Visible
      BY <1>5 DEF SingleRow
    <3> QED BY <1>1, <3>1, <3>2, UndoableBegins DEF Soft
  <2> QED BY <1>5, <2>1, <2>2 DEF SingleRow
<1>6. ASSUME NEW g \in TaskGroups, GroupRows(g) PROVE Begins \/ Looks
  <2>1. CASE ToggleSelectGroup(g)
    BY <1>2, <2>1 DEF ToggleSelectGroup
  <2>2. ASSUME NEW s \in Slots, OnDeleteGroup(s, g), Cardinality(Group(g)) > 1
        PROVE  Begins
    <3>1. Click(Undoable(s, "undo", Members(g), {Members(g)}, FALSE), selected)
      BY <2>2 DEF OnDeleteGroup, DeleteGroup
    <3>2. Members(g) \subseteq Ids /\ UNION {Members(g)} = Members(g)
      BY DEF Members
    <3>3. \A R, Q \in {Members(g)} : R # Q => R \intersect Q = {}
      OBVIOUS
    <3>4. WholeGroup(Members(g))
      BY <2>2 DEF WholeGroup, OnDeleteGroup, Group, Terminal
    <3> QED BY <3>1, <3>2, <3>3, <3>4, UndoableBegins DEF Soft
  <2> QED BY <1>6, <2>1, <2>2 DEF GroupRows
<1> QED BY <1>3, <1>4, <1>5, <1>6 DEF TasksUser

LEMMA BulkBegins ==
  ASSUME TypeOK, NEW op \in Previewed, NEW ids \in SUBSET Visible,
         NEW tg \in [Ids -> Forms], BulkPatch(op, ids, tg)
  PROVE  Begins
<1>1. PICK s \in Slots : Click(Optimistic(s, "bulk", op, ids, tg), {})
  BY DEF BulkPatch
<1> QED BY <1>1, OptimisticBegins

LEMMA MutateBegins ==
  ASSUME TypeOK, NEW op \in Previewed, NEW i \in Visible,
         NEW tg \in Forms, Mutate(op, i, tg)
  PROVE  Begins
<1> DEFINE tags == [NoTags EXCEPT ![i] = tg]
<1>1. i \in Ids /\ {i} \in SUBSET Visible
  BY VisibleRows
<1>2. tags \in [Ids -> Forms]
  BY <1>1, NoTagsTyped
<1>3. PICK s \in Slots : Click(Optimistic(s, "mutation", op, {i}, tags), selected)
  BY DEF Mutate
<1> HIDE DEF tags
<1> QED BY <1>1, <1>2, <1>3, OptimisticBegins

LEMMA BulkBarMoves ==
  ASSUME TypeOK, BulkBar
  PROVE  Begins \/ Looks
<1>1. selected \subseteq Visible /\ Visible \subseteq Ids
  BY VisibleRows DEF TypeOK
<1>2. CASE SelectAll \/ ClearSelection
  BY <1>2, SelectLooks DEF SelectAll, ClearSelection
<1>3. CASE BulkApprove
  BY <1>1, <1>3, NoTagsTyped, BulkBegins DEF BulkApprove, Operations, Previewed
<1>4. ASSUME NEW tags \in SUBSET Tags, BulkAddTags(tags) PROVE Begins
  <2> DEFINE tg == [i \in Ids |-> IF i \in selected THEN cache[i].tags \union tags
                                  ELSE {}]
  <2>1. tg \in [Ids -> Forms]
    BY <1>1, VisibleRows DEF Forms
  <2>2. BulkPatch("tag", selected, tg)
    BY <1>4 DEF BulkAddTags
  <2> HIDE DEF tg
  <2> QED BY <1>1, <2>1, <2>2, BulkBegins DEF Operations, Previewed
<1>5. ASSUME NEW st \in {"active", "disabled"}, BulkDisable(st) PROVE Begins
  BY <1>1, <1>5, NoTagsTyped, BulkBegins DEF BulkDisable, Operations, Previewed
<1>6. CASE BulkDelete
  <2>1. PICK s \in Slots :
          Click(Undoable(s, "undoAll", selected, Each(selected), TRUE), {})
    BY <1>6 DEF BulkDelete
  <2>2. selected \in SUBSET Ids /\ "undoAll" \in Soft
    BY <1>1 DEF Soft
  <2>3. /\ UNION Each(selected) = selected
        /\ \A R, Q \in Each(selected) : R # Q => R \intersect Q = {}
    BY EachOnce
  <2> QED BY <1>1, <2>1, <2>2, <2>3, UndoableBegins, Zenon
<1>7. (SUBSET TidyTags) \ {{}} \subseteq SUBSET Tags
  BY DEF TidyTags
<1>8. CASE BulkTagButton
  BY <1>4, <1>7, <1>8 DEF BulkTagButton
<1> QED BY <1>2, <1>3, <1>5, <1>6, <1>8 DEF BulkBar

LEMMA AgentsMoves ==
  ASSUME TypeOK, page = "agents", AgentsUser
  PROVE  Begins \/ Looks
<1>1. Visible \subseteq Ids
  BY VisibleRows
<1>2. ASSUME NEW i \in Ids, AgentRow(i) PROVE Begins \/ Looks
  <2>1. i \in Visible /\ page \in Polled
    BY <1>2 DEF AgentRow, Polled
  <2>2. CASE ToggleRow(i)
    BY <2>2, SelectLooks DEF ToggleRow
  <2>3. CASE draft[i] # None /\ EditPanel(i)
    <3>1. draft[i] \in Forms
      BY <1>2, <2>3 DEF TypeOK
    <3>2. ASSUME NEW d \in Forms, UNCHANGED budget, SetDraft(i, d) PROVE Looks
      BY <2>1, <3>2, DraftLooks
    <3>6. \A t \in draft[i] : draft[i] \ {t} \in Forms
      BY <3>1 DEF Forms
    <3>7. \A t \in TidyTags \ draft[i] : draft[i] \union {t} \in Forms
      BY <3>1 DEF Forms, TidyTags
    <3>3. CASE UNCHANGED budget /\ SetDraft(i, None)
      BY <2>1, <3>3, DraftLooks
    <3>4. CASE GeoDetect(i)
      <4>1. PICK s \in Slots : Click(Plain(s, "geo", i, {}), selected)
        BY <3>4 DEF GeoDetect
      <4> QED BY <2>1, <4>1, PlainBegins DEF Operations, Previewed, Forms
    <3>5. CASE Save(i)
      BY <2>1, <3>1, <3>5, MutateBegins DEF Save, Operations, Previewed
    <3> QED BY <2>3, <3>2, <3>3, <3>4, <3>5, <3>6, <3>7 DEF EditPanel
  <2>4. CASE PendingActions(i)
    <3>1. ASSUME NEW tg \in SUBSET TidyTags, Mutate("approve", i, tg) PROVE Begins
      <4>1. tg \in Forms /\ "approve" \in Previewed
        BY DEF Forms, TidyTags, Previewed
      <4> QED BY <2>1, <3>1, <4>1, MutateBegins
    <3>2. CASE Reject(i)
      BY <2>1, <3>2, MutateBegins DEF Reject, Operations, Previewed, Forms
    <3> QED BY <2>4, <3>1, <3>2 DEF PendingActions, Approve
  <2>5. CASE StartEdit(i)
    <3>1. cache[i].tags \in Forms
      BY <2>1, VisibleRows
    <3>2. SetDraft(i, cache[i].tags) /\ Act
      BY <2>5 DEF StartEdit
    <3> QED BY <2>1, <3>1, <3>2, DraftLooks
  <2>6. CASE ToggleStatus(i)
    BY <2>1, <2>6, MutateBegins DEF ToggleStatus, Operations, Previewed, Forms
  <2>7. CASE Question(i)
    BY <2>1, <2>7, QuestionLooks
  <2> QED BY <1>2, <2>2, <2>3, <2>4, <2>5, <2>6, <2>7 DEF AgentRow
<1> QED BY <1>2, BulkBarMoves DEF AgentsUser

LEMMA SchedulesMoves ==
  ASSUME TypeOK, page = "schedules", SchedulesUser
  PROVE  Begins \/ Looks
<1>1. Visible \subseteq Ids
  BY VisibleRows
<1>2. ASSUME NEW i \in Ids, CreateSchedule(i) PROVE Begins
  <2>1. PICK s \in Slots : Click(Plain(s, "create", i, {}), selected)
    BY <1>2 DEF CreateSchedule
  <2>2. Unused(i)
    BY <1>2 DEF CreateSchedule
  <2> QED BY <2>1, <2>2, PlainBegins DEF Operations, Previewed, Forms
<1>3. ASSUME NEW i \in Visible, ScheduleRow(i) PROVE Begins \/ Looks
  <2>1. CASE ToggleMut(i)
    <3> DEFINE op == IF cache[i].status = "enabled" THEN "paused" ELSE "enabled"
    <3>1. PICK s \in Slots :
            Click(Optimistic(s, "mutation", op, {i}, NoTags), selected)
      BY <2>1 DEF ToggleMut
    <3>2. op \in Previewed
      BY DEF Previewed
    <3> HIDE DEF op
    <3> QED BY <3>1, <3>2, NoTagsTyped, OptimisticBegins
  <2>2. CASE TriggerMut(i)
    <3>1. PICK s \in Slots : Click(Plain(s, "trigger", i, {}), selected)
      BY <2>2 DEF TriggerMut
    <3> QED BY <1>1, <3>1, PlainBegins DEF Operations, Previewed, Forms
  <2>3. CASE Question(i)
    BY <2>3, QuestionLooks
  <2> QED BY <1>3, <2>1, <2>2, <2>3 DEF ScheduleRow
<1> QED BY <1>2, <1>3 DEF SchedulesUser

LEMMA UsersMoves ==
  ASSUME TypeOK, FormsAreFilled, page = "users", UsersUser
  PROVE  Begins \/ Looks
<1>1. Visible \subseteq Ids /\ page \notin Polled
  BY VisibleRows DEF Polled
<1>2. ASSUME NEW i \in Ids, CreateUserDialog(i) PROVE Begins
  <2>1. PICK s \in Slots, r \in Labels : Click(Plain(s, "create", i, {r}), selected)
    BY <1>2 DEF CreateUserDialog
  <2>2. Unused(i) /\ {r} \in Forms
    BY <1>2 DEF CreateUserDialog, Forms
  <2> QED BY <2>1, <2>2, PlainBegins DEF Operations, Previewed
<1>3. ASSUME NEW i \in Visible, UserRow(i) PROVE Begins \/ Looks
  <2>1. ASSUME NEW r \in Labels, UNCHANGED budget, SetDraft(i, {r}) PROVE Looks
    <3>1. {r} \in Forms
      BY DEF Forms
    <3> QED BY <2>1, <3>1, DraftLooks
  <2>2. CASE SaveUser(i)
    <3>1. PICK s \in Slots : Click(Plain(s, "save", i, draft[i]), selected)
      BY <2>2 DEF SaveUser
    <3>2. draft[i] \in Forms
      BY <1>1 DEF FormsAreFilled
    <3> QED BY <1>1, <3>1, <3>2, PlainBegins DEF Operations, Previewed
  <2>3. CASE Question(i)
    BY <2>3, QuestionLooks
  <2> QED BY <1>3, <2>1, <2>2, <2>3 DEF UserRow
<1> QED BY <1>2, <1>3 DEF UsersUser

LEMMA TargetsMoves ==
  ASSUME TypeOK, FormsAreFilled, page = "targets", TargetsUser
  PROVE  Begins \/ Looks
<1>1. Visible \subseteq Ids /\ page \notin Polled
  BY VisibleRows DEF Polled
<1>2. ASSUME NEW i \in Ids, AddTarget(i) PROVE Begins
  <2>1. PICK s \in Slots, l \in Labels : Click(Plain(s, "create", i, {l}), selected)
    BY <1>2 DEF AddTarget
  <2>2. Unused(i) /\ {l} \in Forms
    BY <1>2 DEF AddTarget, Forms
  <2> QED BY <2>1, <2>2, PlainBegins DEF Operations, Previewed
<1>3. ASSUME NEW i \in Visible, PublicTargetRow(i) PROVE Begins \/ Looks
  <2>1. ASSUME NEW l \in Labels, UNCHANGED budget, SetDraft(i, {l}) PROVE Looks
    <3>1. {l} \in Forms
      BY DEF Forms
    <3> QED BY <2>1, <3>1, DraftLooks
  <2>2. CASE SaveTarget(i)
    <3>1. PICK s \in Slots : Click(Plain(s, "save", i, draft[i]), selected)
      BY <2>2 DEF SaveTarget
    <3>2. draft[i] \in Forms
      BY <1>1 DEF FormsAreFilled
    <3> QED BY <1>1, <3>1, <3>2, PlainBegins DEF Operations, Previewed
  <2>3. CASE Question(i)
    BY <2>3, QuestionLooks
  <2> QED BY <1>3, <2>1, <2>2, <2>3 DEF PublicTargetRow
<1> QED BY <1>2, <1>3 DEF TargetsUser

LEMMA ConfirmedBegins ==
  ASSUME TypeOK, NEW s \in Slots, Confirmed(s)
  PROVE  Begins
<1>1. ask \in Ids
  BY DEF Confirmed, TypeOK
<1>2. CASE page \in Polled
  <2>1. Sound("mutation", "delete", {ask}, NoTags, Each({ask}))
    BY <1>1, EachOnce, NoTagsTyped DEF Sound, Kinds, Operations, Previewed, Soft
  <2>2. BeginsWith(s, "mutation", "delete", {ask}, NoTags, Each({ask}), TRUE)
    BY <1>2, <2>1 DEF BeginsWith, Confirmed, Optimistic
  <2> QED BY <2>2 DEF Begins
<1>3. CASE page \notin Polled
  <2> DEFINE tags == [NoTags EXCEPT ![ask] = {}]
  <2>1. {} \in Forms
    BY DEF Forms
  <2>2. Sound("plain", "delete", {ask}, tags, {{ask}})
    BY <1>1, <2>1, NoTagsTyped DEF Sound, Kinds, Operations, Previewed, Soft
  <2>3. BeginsWith(s, "plain", "delete", {ask}, tags, {{ask}}, FALSE)
    BY <1>3, <2>2 DEF BeginsWith, Confirmed, Plain
  <2> HIDE DEF tags
  <2> QED BY <2>3 DEF Begins
<1> QED BY <1>2, <1>3

LEMMA OutsideIntrudes ==
  ASSUME TypeOK, Outside
  PROVE  Intrudes
<1>1. \A i \in Ids : rows[i] \in RowOrNone /\ (rows[i] # None => rows[i].status \in Statuses)
  BY DEF TypeOK, Table, RowOrNone
<1>2. \A op \in Operations, tg \in Forms, i \in Ids :
        rows[i] # None => Served(op, tg, rows[i]) \in RowOrNone
  BY <1>1, ServedTyped
<1>3. \A st \in Statuses, tg \in Forms : Row(st, tg) \in RowOrNone
  BY DEF Row, RowOrNone
<1>4. {} \in Forms /\ Tags \in Forms /\ \A l \in Labels : {l} \in Forms
  BY DEF Forms
<1>5. None \in RowOrNone
  BY DEF RowOrNone
<1>6. CASE TasksOutside
  BY <1>3, <1>4, <1>5, <1>6 DEF TasksOutside, Intrudes, Statuses
<1>7. CASE AgentsOutside
  <2>1. \A i \in Ids, op \in {"reject", "approve"}, tags \in {{}, Tags} :
          rows[i] # None => Served(op, tags, rows[i]) \in RowOrNone
    BY <1>2, <1>4 DEF Operations, Previewed
  <2>2. \A i \in Ids : rows[i] # None => Served("tag", Tags, rows[i]) \in RowOrNone
    BY <1>2, <1>4 DEF Operations, Previewed
  <2>3. Row("pending", {}) \in RowOrNone
    BY <1>3, <1>4 DEF Statuses
  <2>4. ASSUME NEW i \in Ids, NEW r \in RowOrNone, OutsideWrites(i, r),
               rows[i] # None \/ Unused(i)
        PROVE  Intrudes
    BY <2>4 DEF Intrudes
  <2>5. PICK i \in Ids :
          \/ Unused(i) /\ OutsideWrites(i, Row("pending", {}))
          \/ /\ rows[i] # None
             /\ \/ OutsideWrites(i, Served("reject", {}, rows[i]))
                \/ \E tags \in {{}, Tags} :
                     OutsideWrites(i, Served("approve", tags, rows[i]))
                \/ OutsideWrites(i, Served("tag", Tags, rows[i]))
                \/ OutsideWrites(i, None)
    BY <1>7, Zenon DEF AgentsOutside
  <2>6. CASE Unused(i) /\ OutsideWrites(i, Row("pending", {}))
    BY <2>3, <2>4, <2>6
  <2>7. CASE rows[i] # None /\ OutsideWrites(i, Served("reject", {}, rows[i]))
    BY <2>1, <2>4, <2>7
  <2>8. ASSUME rows[i] # None, NEW tags \in {{}, Tags},
               OutsideWrites(i, Served("approve", tags, rows[i]))
        PROVE  Intrudes
    BY <2>1, <2>4, <2>8
  <2>9. CASE rows[i] # None /\ OutsideWrites(i, Served("tag", Tags, rows[i]))
    BY <2>2, <2>4, <2>9
  <2>10. CASE rows[i] # None /\ OutsideWrites(i, None)
    BY <1>5, <2>4, <2>10
  <2> QED BY <2>5, <2>6, <2>7, <2>8, <2>9, <2>10, Zenon
<1>8. CASE SchedulesOutside
  <2>1. \A i \in Ids : rows[i] # None =>
          Served(IF rows[i].status = "enabled" THEN "paused" ELSE "enabled", {}, rows[i])
            \in RowOrNone
    BY <1>2, <1>4 DEF Operations, Previewed
  <2> QED BY <1>5, <1>8, <2>1 DEF SchedulesOutside, Intrudes
<1>9. \A i \in Ids, l \in Labels :
        /\ Row("enabled", {l}) \in RowOrNone
        /\ rows[i] # None => Served("save", {l}, rows[i]) \in RowOrNone
  BY <1>2, <1>3, <1>4 DEF Operations, Previewed, Statuses
<1>10. CASE UsersOutside
  BY <1>5, <1>9, <1>10 DEF UsersOutside, Intrudes
<1>11. CASE TargetsOutside
  BY <1>5, <1>9, <1>11 DEF TargetsOutside, Intrudes
<1> QED BY <1>6, <1>7, <1>8, <1>10, <1>11 DEF Outside

LEMMA UserMoves ==
  ASSUME TypeOK, FormsAreFilled, User
  PROVE  Begins \/ Looks \/ ReturnToPage \/ \E s \in Slots : ClickUndo(s)
<1>1. CASE ChangeFilter
  BY <1>1 DEF ChangeFilter, Clickable, Act, Looks, TypeOK
<1>2. CASE Declined
  BY <1>2 DEF Declined, Looks, TypeOK
<1>3. CASE LeavePage
  <2>1. mounted' \in BOOLEAN
    BY <1>3 DEF LeavePage
  <2>2. budget' \in Nat
    BY <1>3 DEF LeavePage, Act, TypeOK
  <2> QED BY <1>3, <2>1, <2>2 DEF LeavePage, Looks, TypeOK
<1> QED BY <1>1, <1>2, <1>3, TasksMoves, AgentsMoves, SchedulesMoves, UsersMoves,
           TargetsMoves, ConfirmedBegins DEF User

\* What a job's requests, timers and toast do to it.
Advances(s) ==
  \/ \E R \in Requests(s) : Handle(s, R) \/ RequestFails(s, R)
  \/ Settles(s)
  \/ GraceEnds(s)
  \/ ToastGoes(s)
  \/ ClickUndo(s)

Fetches == Poll \/ ReadRows \/ FetchAnswers \/ FetchFails \/ ReturnToPage

(* Every step is of one of these kinds.                                     *)
LEMMA NextMoves ==
  ASSUME TypeOK, FormsAreFilled, Next
  PROVE  /\ page' = page
         /\ \/ Begins
            \/ Looks
            \/ Intrudes
            \/ Fetches
            \/ \E s \in Slots : Advances(s)
  BY UserMoves, OutsideIntrudes DEF Next, Fetching, Fetches, Progress, Advances

-----------------------------------------------------------------------------
(* Types.                                                                  *)

LEMMA RefetchedJobs ==
  ASSUME TypeOK
  PROVE  /\ Refetched \in [Slots -> Job \union {None}]
         /\ \A s \in Slots : Refetched[s] \in {job[s], None}
         /\ \A s \in Slots : job[s] # None /\ job[s].step # "refetching"
                             => Refetched[s] = job[s]
  BY DEF Refetched, TypeOK

\* The preview a change writes to the cache.
Promise(kind, op, ids, tg) ==
  [i \in Ids |-> IF kind # "plain" /\ i \in ids /\ cache[i] # None
                 THEN Patched(op, tg[i], cache[i]) ELSE cache[i]]

LEMMA PromiseTyped ==
  ASSUME TypeOK, NEW kind, NEW op, NEW ids, NEW tg \in [Ids -> Forms],
         kind # "plain" => op \in Previewed
  PROVE  Promise(kind, op, ids, tg) \in Table
<1>1. \A i \in Ids : cache[i] \in RowOrNone
  BY DEF TypeOK, Table
<1>2. ASSUME NEW i \in Ids, cache[i] # None, kind # "plain"
      PROVE  Patched(op, tg[i], cache[i]) \in RowOrNone
  BY <1>1, <1>2, PatchedTyped
<1> QED BY <1>1, <1>2 DEF Promise, Table

LEMMA NewJobTyped ==
  ASSUME TypeOK, NEW kind, NEW op, NEW ids, NEW tg, NEW todo,
         Sound(kind, op, ids, tg, todo)
  PROVE  NewJob(kind, op, ids, tg, Promise(kind, op, ids, tg), todo) \in Job
<1>1. Promise(kind, op, ids, tg) \in Table /\ cache \in Table
  BY PromiseTyped DEF Sound, TypeOK
<1>2. todo \in SUBSET SUBSET Ids
  BY DEF Sound
<1>3. (IF kind \in Soft THEN "grace" ELSE "sent") \in {"grace", "sent", "late", "refetching"}
  OBVIOUS
<1>4. (kind \in Soft) \in BOOLEAN /\ (\A i \in ids : cache[i] = rows[i]) \in BOOLEAN
  OBVIOUS
<1> QED BY <1>1, <1>2, <1>3, <1>4 DEF NewJob, Job, Sound, Kinds

(* What Begin does, said with the operators above.                          *)
LEMMA BeginWrites ==
  ASSUME TypeOK, NEW s \in Slots, NEW kind, NEW op, NEW ids, NEW tg, NEW todo,
         NEW cancels \in BOOLEAN, BeginsWith(s, kind, op, ids, tg, todo, cancels)
  PROVE  LET new == NewJob(kind, op, ids, tg, Promise(kind, op, ids, tg), todo)
         IN /\ new \in Job
            /\ job[s] = None /\ job'[s] = new
            /\ \A u \in Slots \ {s} : job'[u] \in {job[u], None}
            /\ job' \in [Slots -> Job \union {None}]
            /\ cache' \in {cache, Promise(kind, op, ids, tg)}
            /\ fetch' \in {fetch, NoFetch}
            /\ rows' = rows /\ told' = told /\ mounted' = mounted
            /\ filter' = filter /\ role' = role /\ budget' \in Nat
<1> DEFINE promise == Promise(kind, op, ids, tg)
           new == NewJob(kind, op, ids, tg, promise, todo)
           jobs == IF cancels THEN Refetched ELSE job
<1>1. new \in Job
  BY NewJobTyped DEF BeginsWith
<1>2. /\ jobs \in [Slots -> Job \union {None}]
      /\ \A u \in Slots : jobs[u] \in {job[u], None}
  BY RefetchedJobs DEF TypeOK
<1>3. /\ cache' = promise
      /\ job' = [jobs EXCEPT ![s] = new]
      /\ fetch' = IF cancels THEN NoFetch ELSE fetch
      /\ job[s] = None
      /\ UNCHANGED <<role, mounted, filter, rows, told>>
      /\ budget' \in Nat
  BY DEF BeginsWith, Begin, Promise, FreeSlot, Act, TypeOK
<1> HIDE DEF promise, new, jobs
<1>4. job' \in [Slots -> Job \union {None}] /\ job'[s] = new
  BY <1>1, <1>2, <1>3
<1>5. \A u \in Slots \ {s} : job'[u] \in {job[u], None}
  BY <1>2, <1>3
<1>6. cache' \in {cache, promise} /\ fetch' \in {fetch, NoFetch}
  BY <1>3
<1>7. /\ job[s] = None
      /\ rows' = rows /\ told' = told /\ mounted' = mounted
      /\ filter' = filter /\ role' = role /\ budget' \in Nat
  BY <1>3
<1> QED BY <1>1, <1>4, <1>5, <1>6, <1>7 DEF promise, new

\* What a step other than a click leaves of change u.
Ages(u) ==
  job'[u] # None =>
    /\ job[u] # None
    /\ job'[u].kind = job[u].kind /\ job'[u].op = job[u].op
    /\ job'[u].ids = job[u].ids /\ job'[u].tags = job[u].tags
    /\ job'[u].promise = job[u].promise /\ job'[u].prev = job[u].prev
    /\ job'[u].todo \subseteq job[u].todo
    /\ job'[u].clean => job[u].clean

JobsAge == job' \in [Slots -> Job \union {None}] /\ \A u \in Slots : Ages(u)

\* Rows R were written by change s, or by nobody of this page.
Disturbs(R, s) ==
  \A u \in Slots : u # s =>
    job'[u] = IF job[u] # None /\ job[u].ids \intersect R # {}
              THEN [job[u] EXCEPT !.clean = FALSE] ELSE job[u]

LEMMA CleanedTyped ==
  ASSUME NEW j \in Job
  PROVE  /\ [j EXCEPT !.clean = FALSE] \in Job
         /\ [j EXCEPT !.clean = FALSE].clean = FALSE
         /\ [j EXCEPT !.clean = FALSE].undone = j.undone
         /\ [j EXCEPT !.clean = FALSE].step = j.step
         /\ [j EXCEPT !.clean = FALSE].kind = j.kind
         /\ [j EXCEPT !.clean = FALSE].op = j.op
         /\ [j EXCEPT !.clean = FALSE].ids = j.ids
         /\ [j EXCEPT !.clean = FALSE].tags = j.tags
         /\ [j EXCEPT !.clean = FALSE].promise = j.promise
         /\ [j EXCEPT !.clean = FALSE].prev = j.prev
         /\ [j EXCEPT !.clean = FALSE].todo = j.todo
         /\ [j EXCEPT !.clean = FALSE].failed = j.failed
  BY DEF Job

(* Disturb changes no change but those that share a row, and not s.         *)
LEMMA DisturbWrites ==
  ASSUME TypeOK, NEW R, NEW s, NEW x \in Job \union {None},
         job' = Disturb([job EXCEPT ![s] = x], R, s)
  PROVE  /\ job' \in [Slots -> Job \union {None}]
         /\ s \in Slots => job'[s] = x
         /\ Disturbs(R, s)
<1> DEFINE jobs == [job EXCEPT ![s] = x]
<1>1. jobs \in [Slots -> Job \union {None}] /\ job \in [Slots -> Job \union {None}]
  BY DEF TypeOK
<1>2. s \in Slots => jobs[s] = x
  BY <1>1
<1>3. \A u \in Slots : u # s => jobs[u] = job[u]
  BY <1>1
<1> HIDE DEF jobs
<1>4. job' = [u \in Slots |-> IF jobs[u] # None /\ u # s /\ jobs[u].ids \intersect R # {}
                              THEN [jobs[u] EXCEPT !.clean = FALSE] ELSE jobs[u]]
  BY DEF Disturb, jobs
<1>5. \A u \in Slots : jobs[u] # None => [jobs[u] EXCEPT !.clean = FALSE] \in Job
  BY <1>1, CleanedTyped
<1>6. job' \in [Slots -> Job \union {None}]
  BY <1>1, <1>4, <1>5
<1>7. s \in Slots => job'[s] = x
  BY <1>2, <1>4
<1>8. Disturbs(R, s)
  BY <1>3, <1>4 DEF Disturbs
<1> QED BY <1>6, <1>7, <1>8

LEMMA DisturbedAge ==
  ASSUME TypeOK, NEW R, NEW s, Disturbs(R, s), NEW u \in Slots, u # s
  PROVE  Ages(u)
<1>1. job[u] \in Job \union {None}
  BY DEF TypeOK
<1>2. CASE job[u] # None /\ job[u].ids \intersect R # {}
  <2>1. job'[u] = [job[u] EXCEPT !.clean = FALSE] /\ job[u] \in Job
    BY <1>1, <1>2 DEF Disturbs
  <2> QED BY <1>2, <2>1, CleanedTyped DEF Ages
<1>3. CASE ~ (job[u] # None /\ job[u].ids \intersect R # {})
  BY <1>3 DEF Disturbs, Ages
<1> QED BY <1>2, <1>3

LEMMA HandledTyped ==
  ASSUME TypeOK, NEW j \in Job, NEW R \in SUBSET Ids
  PROVE  /\ Handled(j, R) \in Table
         /\ \A i \in Ids : i \notin R => Handled(j, R)[i] = rows[i]
         /\ \A i \in R : Handled(j, R)[i] = IF rows[i] # None \/ j.op = "create"
                                           THEN Served(j.op, j.tags[i], rows[i])
                                           ELSE rows[i]
<1>1. \A i \in Ids : rows[i] \in RowOrNone /\ j.tags[i] \in Forms /\ j.op \in Operations
  BY DEF TypeOK, Table, Job
<1>2. Found(j, R) = {i \in R : rows[i] # None \/ j.op = "create"}
  BY DEF Found
<1>3. \A i \in Found(j, R) : Served(j.op, j.tags[i], rows[i]) \in RowOrNone
  BY <1>1, <1>2, ServedTyped
<1>4. Handled(j, R) = [i \in Ids |-> IF i \in Found(j, R)
                                      THEN Served(j.op, j.tags[i], rows[i]) ELSE rows[i]]
  BY DEF Handled
<1>5. Handled(j, R) \in Table
  BY <1>1, <1>3, <1>4 DEF Table
<1> QED BY <1>2, <1>4, <1>5

\* Change s once its request for the rows R is answered.
Answered(s, R, bad) ==
  [job[s] EXCEPT !.todo = job[s].todo \ {R}, !.failed = job[s].failed \/ bad]

LEMMA AnsweredTyped ==
  ASSUME TypeOK, NEW s \in Slots, job[s] # None, NEW R, NEW bad \in BOOLEAN
  PROVE  LET j == Answered(s, R, bad)
         IN /\ j \in Job
            /\ j.todo = job[s].todo \ {R} /\ j.failed = (job[s].failed \/ bad)
            /\ j.kind = job[s].kind /\ j.op = job[s].op /\ j.ids = job[s].ids
            /\ j.tags = job[s].tags /\ j.promise = job[s].promise
            /\ j.prev = job[s].prev /\ j.step = job[s].step
            /\ j.undone = job[s].undone /\ j.clean = job[s].clean
<1> DEFINE td == job[s].todo \ {R}
           fl == job[s].failed \/ bad
<1>1. job[s] \in Job
  BY DEF TypeOK
<1>2. td \in SUBSET SUBSET Ids
  BY <1>1 DEF Job
<1>3. job[s].failed \in BOOLEAN
  BY <1>1 DEF Job
<1>4. fl \in BOOLEAN
  OBVIOUS
<1>5. Answered(s, R, bad) = [job[s] EXCEPT !.todo = td, !.failed = fl]
  BY DEF Answered
<1> HIDE DEF td, fl
<1>6. Answered(s, R, bad) \in Job
  BY <1>1, <1>2, <1>4, <1>5 DEF Job
<1>7. /\ Answered(s, R, bad).todo = td
      /\ Answered(s, R, bad).kind = job[s].kind /\ Answered(s, R, bad).op = job[s].op
      /\ Answered(s, R, bad).ids = job[s].ids /\ Answered(s, R, bad).tags = job[s].tags
      /\ Answered(s, R, bad).promise = job[s].promise
      /\ Answered(s, R, bad).prev = job[s].prev
      /\ Answered(s, R, bad).step = job[s].step
  BY <1>1, <1>5 DEF Job
<1>8. /\ Answered(s, R, bad).failed = fl
      /\ Answered(s, R, bad).undone = job[s].undone
      /\ Answered(s, R, bad).clean = job[s].clean
  BY <1>1, <1>5 DEF Job
<1> QED BY <1>6, <1>7, <1>8 DEF td, fl

(* A request is answered: its rows are as the handler makes them, or it is  *)
(* refused.                                                                 *)
LEMMA HandleWrites ==
  ASSUME TypeOK, NEW s \in Slots, NEW R \in Requests(s), Handle(s, R)
  PROVE  LET bad == Refused(job[s], R)
             j   == Answered(s, R, bad)
         IN /\ job[s] # None /\ job[s] \in Job /\ R \in job[s].todo /\ R \in SUBSET Ids
            /\ job[s].step \in {"sent", "late"}
            /\ job'[s] \in {j, None} /\ Disturbs(R, s)
            /\ bad \in BOOLEAN
            /\ job' \in [Slots -> Job \union {None}]
            /\ rows' = IF bad THEN rows ELSE Handled(job[s], R)
            /\ rows' \in Table
            /\ UNCHANGED <<role, mounted, filter, cache, fetch, selected, draft, ask,
                           told, budget>>
<1> DEFINE bad == Refused(job[s], R)
           j   == [job[s] EXCEPT !.todo = job[s].todo \ {R},
                                 !.failed = job[s].failed \/ bad]
           x   == IF j.step = "late" /\ j.todo = {} THEN None ELSE j
<1>1. job[s] # None /\ R \in job[s].todo /\ job[s].step \in {"sent", "late"}
  BY DEF Handle
<1>2. job[s] \in Job
  BY <1>1 DEF TypeOK
<1>3. R \in SUBSET Ids
  BY <1>1, <1>2 DEF Job
<1>4. bad \in BOOLEAN
  BY DEF Refused
<1>5. /\ rows' = IF bad THEN rows ELSE Handled(job[s], R)
      /\ job' = Disturb([job EXCEPT ![s] = x], R, s)
      /\ UNCHANGED <<role, mounted, filter, cache, fetch, selected, draft, ask,
                     told, budget>>
  BY DEF Handle
<1>6. j = Answered(s, R, bad)
  BY DEF Answered
<1>7. rows' \in Table
  BY <1>2, <1>3, <1>5, HandledTyped DEF TypeOK
<1> HIDE DEF bad, j
<1>8. j \in Job
  BY <1>1, <1>4, <1>6, AnsweredTyped
<1>9. x \in Job \union {None} /\ x \in {j, None}
  BY <1>8
<1> HIDE DEF x
<1>10. /\ job' \in [Slots -> Job \union {None}]
       /\ job'[s] = x
       /\ Disturbs(R, s)
  BY <1>5, <1>9, DisturbWrites
<1> QED BY <1>1, <1>2, <1>3, <1>4, <1>5, <1>6, <1>7, <1>9, <1>10 DEF bad

(* A request without an answer may have been served or not.                 *)
LEMMA FailWrites ==
  ASSUME TypeOK, NEW s \in Slots, NEW R \in Requests(s), RequestFails(s, R)
  PROVE  /\ job[s] # None /\ job[s] \in Job /\ R \in job[s].todo /\ R \in SUBSET Ids
         /\ job[s].step = "sent"
         /\ job'[s] = Answered(s, R, TRUE) /\ Disturbs(R, s)
         /\ job' \in [Slots -> Job \union {None}]
         /\ rows' \in {rows, Handled(job[s], R)}
         /\ rows' \in Table
         /\ UNCHANGED <<role, mounted, filter, cache, fetch, selected, draft, ask,
                        told>>
         /\ budget' \in Nat
<1>1. job[s] # None /\ R \in job[s].todo /\ job[s].step = "sent"
  BY DEF RequestFails
<1>2. job[s] \in Job /\ job \in [Slots -> Job \union {None}]
  BY <1>1 DEF TypeOK
<1>3. R \in SUBSET Ids
  BY <1>1, <1>2 DEF Job
<1>4. Answered(s, R, TRUE) \in Job
  BY <1>1, AnsweredTyped
<1>5. [job EXCEPT ![s].todo = @ \ {R}, ![s].failed = TRUE]
        = [job EXCEPT ![s] = Answered(s, R, TRUE)]
  BY <1>2 DEF Answered
<1>6. /\ job' = Disturb([job EXCEPT ![s] = Answered(s, R, TRUE)], R, s)
      /\ rows' \in {rows, Handled(job[s], R)}
      /\ UNCHANGED <<role, mounted, filter, cache, fetch, selected, draft, ask, told>>
      /\ budget' \in Nat
  BY <1>5 DEF RequestFails, Act, TypeOK
<1>7. rows' \in Table
  BY <1>2, <1>3, <1>6, HandledTyped DEF TypeOK
<1>8. /\ job' \in [Slots -> Job \union {None}]
      /\ job'[s] = Answered(s, R, TRUE)
      /\ Disturbs(R, s)
  BY <1>4, <1>6, DisturbWrites
<1> QED BY <1>1, <1>2, <1>3, <1>6, <1>7, <1>8

LEMMA IntrudeWrites ==
  ASSUME TypeOK, NEW i \in Ids, NEW r \in RowOrNone, OutsideWrites(i, r)
  PROVE  /\ rows' = [rows EXCEPT ![i] = r] /\ rows' \in Table
         /\ Disturbs({i}, None)
         /\ job' \in [Slots -> Job \union {None}]
         /\ UNCHANGED <<role, mounted, filter, cache, fetch, selected, draft, ask, told>>
         /\ budget' \in Nat
<1>1. job \in [Slots -> Job \union {None}] /\ None \notin Slots
  BY ListAssumption DEF TypeOK
<1>2. [job EXCEPT ![None] = None] = job
  BY <1>1
<1>3. job' = Disturb([job EXCEPT ![None] = None], {i}, None)
  BY <1>2 DEF OutsideWrites
<1>4. job' \in [Slots -> Job \union {None}] /\ Disturbs({i}, None)
  BY <1>3, DisturbWrites
<1>5. rows' \in Table
  BY DEF OutsideWrites, TypeOK, Table
<1> QED BY <1>4, <1>5 DEF OutsideWrites, Act, TypeOK

\* Only change s is written.
Alone(s) == \A u \in Slots : u # s => job'[u] = job[u]

(* The page has its answers: the change is over, or ends late or with the   *)
(* refetch.                                                                 *)
LEMMA SettleWrites ==
  ASSUME TypeOK, NEW s \in Slots, Settles(s)
  PROVE  /\ job[s] # None /\ job[s] \in Job /\ job[s].step = "sent"
         /\ job'[s] \in {None, [job[s] EXCEPT !.step = "late"],
                               [job[s] EXCEPT !.step = "refetching"]}
         /\ job' \in [Slots -> Job \union {None}] /\ Alone(s)
         /\ cache' \in {cache, job[s].prev}
         /\ fetch' \in {fetch, Asked}
         /\ told' = told \/ (/\ job[s].op = "delete" /\ ~ job[s].failed
                             /\ job[s].todo = {}
                             /\ fetch' = Asked
                             /\ told' = told \union job[s].ids)
         /\ UNCHANGED <<role, mounted, filter, rows, ask, budget>>
         /\ \E dr \in [Ids -> Forms \union {None}] : Render(selected, dr)
<1> DEFINE j == job[s]
           refetch == /\ mounted
                      /\ \/ ~ j.failed
                         \/ IF j.kind = "plain" THEN j.op = "trigger" ELSE j.kind # "undo"
           x == IF j.todo # {} THEN [j EXCEPT !.step = "late"]
                ELSE IF refetch /\ j.kind = "mutation" THEN [j EXCEPT !.step = "refetching"]
                ELSE None
           dr == IF j.kind = "mutation" /\ j.op = "save" /\ ~ j.failed
                 THEN [i \in Ids |-> IF i \in j.ids THEN None ELSE draft[i]]
                 ELSE draft
<1>1. job[s] # None /\ job[s].step = "sent"
  BY DEF Settles
<1>2. j \in Job /\ job \in [Slots -> Job \union {None}]
  BY <1>1 DEF TypeOK
<1>3. /\ j.todo = {} \/ (j.kind = "bulk" /\ j.failed)
      /\ cache' = IF j.failed /\ j.kind # "plain" THEN j.prev ELSE cache
      /\ told' = told \union IF mounted /\ j.op = "delete" /\ ~ j.failed THEN j.ids ELSE {}
      /\ fetch' = IF refetch THEN Asked ELSE fetch
      /\ job' = [job EXCEPT ![s] = x]
      /\ UNCHANGED <<role, mounted, filter, rows, ask, budget>>
      /\ Render(selected, dr)
  BY DEF Settles
<1>4. dr \in [Ids -> Forms \union {None}]
  BY DEF TypeOK
<1>5. told' = told \/ (/\ j.op = "delete" /\ ~ j.failed /\ j.todo = {}
                      /\ fetch' = Asked /\ told' = told \union j.ids)
  BY <1>3
<1>6. /\ cache' \in {cache, j.prev} /\ fetch' \in {fetch, Asked}
      /\ UNCHANGED <<role, mounted, filter, rows, ask, budget>>
  BY <1>3
<1>7. x \in {None, [j EXCEPT !.step = "late"], [j EXCEPT !.step = "refetching"]}
  OBVIOUS
<1>8. /\ [j EXCEPT !.step = "late"] \in Job
      /\ [j EXCEPT !.step = "refetching"] \in Job
  BY <1>2 DEF Job
<1>9. job' = [job EXCEPT ![s] = x] /\ Render(selected, dr)
  BY <1>3
<1> HIDE DEF refetch, x, dr
<1>10. /\ job' \in [Slots -> Job \union {None}] /\ Alone(s)
       /\ job'[s] \in {None, [j EXCEPT !.step = "late"], [j EXCEPT !.step = "refetching"]}
  BY <1>2, <1>7, <1>8, <1>9 DEF Alone
<1>11. \E d \in [Ids -> Forms \union {None}] : Render(selected, d)
  BY <1>4, <1>9
<1> QED BY <1>1, <1>2, <1>5, <1>6, <1>10, <1>11

\* The timer and the toast of an undoable delete.
LEMMA GraceWrites ==
  ASSUME TypeOK, NEW s \in Slots, GraceEnds(s)
  PROVE  /\ job[s] # None /\ job[s] \in Job /\ job[s].step = "grace"
         /\ IF job[s].undone THEN job'[s] = None
            ELSE job'[s] = [job[s] EXCEPT !.step = "sent"]
         /\ job' \in [Slots -> Job \union {None}] /\ Alone(s)
         /\ UNCHANGED <<role, mounted, filter, rows, cache, fetch, selected, draft,
                        ask, told, budget>>
<1>1. job[s] # None /\ job[s].step = "grace" /\ job[s] \in Job
  BY DEF GraceEnds, TypeOK
<1>2. [job[s] EXCEPT !.step = "sent"] \in Job
  BY <1>1 DEF Job
<1>3. job' = [job EXCEPT ![s] = IF job[s].undone THEN None
                                ELSE [job[s] EXCEPT !.step = "sent"]]
  BY DEF GraceEnds, TypeOK
<1> QED BY <1>1, <1>2, <1>3 DEF GraceEnds, TypeOK, Alone

LEMMA UndoWrites ==
  ASSUME TypeOK, NEW s \in Slots, ClickUndo(s)
  PROVE  /\ job[s] # None /\ job[s] \in Job /\ job[s].toast = TRUE
         /\ job'[s] = [job[s] EXCEPT !.toast = FALSE,
                                     !.undone = job[s].step = "grace"]
         /\ job' \in [Slots -> Job \union {None}] /\ Alone(s)
         /\ cache' = job[s].prev
         /\ UNCHANGED <<role, mounted, filter, rows, fetch, ask, told, budget>>
         /\ Render(selected, draft)
<1> DEFINE x == [job[s] EXCEPT !.toast = FALSE, !.undone = job[s].step = "grace"]
<1>1. job[s] # None /\ job[s] \in Job /\ job[s].toast = TRUE
  BY DEF ClickUndo, TypeOK, Job
<1>2. (job[s].step = "grace") \in BOOLEAN
  OBVIOUS
<1>3. x \in Job
  BY <1>1, <1>2 DEF Job
<1>4. job' = [job EXCEPT ![s] = x]
  BY DEF ClickUndo
<1> HIDE DEF x
<1>5. job' \in [Slots -> Job \union {None}] /\ Alone(s) /\ job'[s] = x
  BY <1>3, <1>4 DEF TypeOK, Alone
<1> QED BY <1>1, <1>5 DEF ClickUndo, x

LEMMA ToastWrites ==
  ASSUME TypeOK, NEW s \in Slots, ToastGoes(s)
  PROVE  /\ job[s] # None /\ job[s] \in Job
         /\ job'[s] = [job[s] EXCEPT !.toast = FALSE]
         /\ job' \in [Slots -> Job \union {None}] /\ Alone(s)
         /\ UNCHANGED <<role, mounted, filter, rows, cache, fetch, selected, draft,
                        ask, told, budget>>
<1>1. job[s] # None /\ job[s] \in Job
  BY DEF ToastGoes, TypeOK
<1>2. [job[s] EXCEPT !.toast = FALSE] \in Job
  BY <1>1 DEF Job
<1>3. job' = [job EXCEPT ![s] = [job[s] EXCEPT !.toast = FALSE]]
  BY DEF ToastGoes, TypeOK
<1> QED BY <1>1, <1>2, <1>3 DEF ToastGoes, TypeOK, Alone

LEMMA SameAges == \A u \in Slots : job'[u] \in {job[u], None} => Ages(u)
  BY DEF Ages

LEMMA FetchesAge ==
  ASSUME TypeOK, Fetches
  PROVE  JobsAge
<1>1. job' \in {job, Refetched}
  BY DEF Fetches, Poll, ReadRows, FetchAnswers, FetchFails, ReturnToPage
<1> QED BY <1>1, RefetchedJobs, SameAges DEF JobsAge, TypeOK

LEMMA AdvancesAge ==
  ASSUME TypeOK, NEW s \in Slots, Advances(s)
  PROVE  JobsAge
<1>1. ASSUME Alone(s) PROVE \A u \in Slots \ {s} : Ages(u)
  BY <1>1, SameAges DEF Alone
<1>2. ASSUME NEW R, Disturbs(R, s) PROVE \A u \in Slots \ {s} : Ages(u)
  BY <1>2, DisturbedAge
<1>3. ASSUME NEW R \in Requests(s), Handle(s, R) PROVE JobsAge
  <2> DEFINE j == Answered(s, R, Refused(job[s], R))
  <2>1. /\ job[s] # None /\ job'[s] \in {j, None} /\ Disturbs(R, s)
        /\ Refused(job[s], R) \in BOOLEAN
        /\ job' \in [Slots -> Job \union {None}]
    BY <1>3, HandleWrites
  <2>2. /\ j.todo = job[s].todo \ {R}
        /\ j.kind = job[s].kind /\ j.op = job[s].op /\ j.ids = job[s].ids
        /\ j.tags = job[s].tags /\ j.promise = job[s].promise
        /\ j.prev = job[s].prev /\ j.clean = job[s].clean
    BY <2>1, AnsweredTyped
  <2> HIDE DEF j
  <2>3. Ages(s)
    BY <2>1, <2>2 DEF Ages
  <2> QED BY <1>2, <2>1, <2>3 DEF JobsAge
<1>4. ASSUME NEW R \in Requests(s), RequestFails(s, R) PROVE JobsAge
  <2> DEFINE j == Answered(s, R, TRUE)
  <2>1. /\ job[s] # None /\ job[s] \in Job /\ job'[s] = j /\ Disturbs(R, s)
        /\ job' \in [Slots -> Job \union {None}]
    BY <1>4, FailWrites
  <2>2. /\ j.todo = job[s].todo \ {R}
        /\ j.kind = job[s].kind /\ j.op = job[s].op /\ j.ids = job[s].ids
        /\ j.tags = job[s].tags /\ j.promise = job[s].promise
        /\ j.prev = job[s].prev /\ j.clean = job[s].clean
    BY <2>1 DEF Answered, Job
  <2> HIDE DEF j
  <2>3. Ages(s)
    BY <2>1, <2>2 DEF Ages
  <2> QED BY <1>2, <2>1, <2>3 DEF JobsAge
<1>5. CASE Settles(s)
  <2>1. /\ job[s] # None /\ job[s] \in Job
        /\ job'[s] \in {None, [job[s] EXCEPT !.step = "late"],
                              [job[s] EXCEPT !.step = "refetching"]}
        /\ job' \in [Slots -> Job \union {None}] /\ Alone(s)
    BY <1>5, SettleWrites
  <2>2. Ages(s)
    BY <2>1 DEF Ages, Job
  <2> QED BY <1>1, <2>1, <2>2 DEF JobsAge
<1>6. CASE GraceEnds(s)
  <2>1. /\ job[s] # None /\ job[s] \in Job
        /\ job'[s] \in {None, [job[s] EXCEPT !.step = "sent"]}
        /\ job' \in [Slots -> Job \union {None}] /\ Alone(s)
    BY <1>6, GraceWrites
  <2>2. Ages(s)
    BY <2>1 DEF Ages, Job
  <2> QED BY <1>1, <2>1, <2>2 DEF JobsAge
<1>7. CASE ToastGoes(s)
  <2>1. /\ job[s] # None /\ job[s] \in Job
        /\ job'[s] = [job[s] EXCEPT !.toast = FALSE]
        /\ job' \in [Slots -> Job \union {None}] /\ Alone(s)
    BY <1>7, ToastWrites
  <2>2. Ages(s)
    BY <2>1 DEF Ages, Job
  <2> QED BY <1>1, <2>1, <2>2 DEF JobsAge
<1>8. CASE ClickUndo(s)
  <2>1. /\ job[s] # None /\ job[s] \in Job
        /\ job'[s] = [job[s] EXCEPT !.toast = FALSE, !.undone = job[s].step = "grace"]
        /\ job' \in [Slots -> Job \union {None}] /\ Alone(s)
    BY <1>8, UndoWrites
  <2>2. Ages(s)
    BY <2>1 DEF Ages, Job
  <2> QED BY <1>1, <2>1, <2>2 DEF JobsAge
<1> QED BY <1>3, <1>4, <1>5, <1>6, <1>7, <1>8 DEF Advances

(* Only a click starts a change.                                            *)
LEMMA OthersAge ==
  ASSUME TypeOK, Looks \/ Intrudes \/ Fetches \/ \E s \in Slots : Advances(s)
  PROVE  JobsAge
<1>1. CASE Looks
  BY <1>1, SameAges DEF Looks, JobsAge, TypeOK
<1>2. CASE Intrudes
  <2>1. PICK i \in Ids, r \in RowOrNone : OutsideWrites(i, r)
    BY <1>2 DEF Intrudes
  <2>2. job' \in [Slots -> Job \union {None}] /\ Disturbs({i}, None)
    BY <2>1, IntrudeWrites
  <2>3. \A u \in Slots : u # None
    BY ListAssumption
  <2> QED BY <2>2, <2>3, DisturbedAge DEF JobsAge
<1> QED BY <1>1, <1>2, FetchesAge, AdvancesAge

\* What the user sees has its type.
View ==
  /\ selected \subseteq Visible
  /\ draft \in [Ids -> Forms \union {None}]
  /\ \A i \in Ids : i \in Visible \/ draft[i] = None
  /\ FormsAreFilled

LEMMA ViewStep ==
  ASSUME Typed, page' = page, cache' \in Table, mounted' \in BOOLEAN,
         \/ \E sel : \E dr \in [Ids -> Forms \union {None}] : Render(sel, dr)
         \/ UNCHANGED <<mounted, filter, cache, selected, draft>>
  PROVE  View'
<1>1. CASE \E sel : \E dr \in [Ids -> Forms \union {None}] : Render(sel, dr)
  BY <1>1, Rendered DEF Typed, View
<1>2. CASE UNCHANGED <<mounted, filter, cache, selected, draft>>
  BY <1>2 DEF Typed, TypeOK, View, FormsAreFilled, Visible, Shown, Passes
<1> QED BY <1>1, <1>2

LEMMA LooksView ==
  ASSUME Typed, page' = page, Looks
  PROVE  View'
<1>1. cache' = cache /\ cache \in Table /\ mounted' \in BOOLEAN
      /\ draft \in [Ids -> Forms \union {None}]
  BY DEF Looks, Typed, TypeOK
<1>2. CASE \E sel : Render(sel, draft)
  BY <1>1, <1>2, ViewStep
<1>3. CASE UNCHANGED <<mounted, filter, selected, draft>>
  BY <1>1, <1>3, ViewStep
<1>4. ASSUME UNCHANGED <<mounted, filter, selected>>, NEW i \in Visible,
             NEW d \in Forms \union {None}, draft' = [draft EXCEPT ![i] = d],
             page \notin Polled => d \in Forms
      PROVE  View'
  <2>1. Visible' = Visible /\ Visible \subseteq Ids
    BY <1>1, <1>4, VisibleRows DEF Typed, Visible, Shown, Passes
  <2> QED BY <1>1, <1>4, <2>1 DEF Typed, TypeOK, View, FormsAreFilled
<1> QED BY <1>2, <1>3, <1>4 DEF Looks

\* What does not hang on what is shown.
Rest ==
  /\ role \in {"viewer", "operator", "admin"}
  /\ mounted \in BOOLEAN
  /\ filter \in Filters
  /\ rows \in Table /\ cache \in Table
  /\ fetch \in [step : {"none", "asked", "read"}, rows : Table]
  /\ ask \in Ids \union {None}
  /\ job \in [Slots -> Job \union {None}]
  /\ told \subseteq Ids
  /\ budget \in Nat

LEMMA FetchTyped ==
  /\ NoFetch \in [step : {"none", "asked", "read"}, rows : Table]
  /\ Asked \in [step : {"none", "asked", "read"}, rows : Table]
  BY EmptyTyped DEF NoFetch, Asked

\* A change that ages stays well made; one that begins is.
LEMMA AgesWellMade ==
  ASSUME WellMade, page' = page, JobsAge
  PROVE  WellMade'
<1> SUFFICES ASSUME NEW s \in Slots, job'[s] # None
             PROVE  /\ UNION job'[s].todo \subseteq job'[s].ids
                    /\ \A R, Q \in job'[s].todo : R # Q => R \intersect Q = {}
                    /\ job'[s].op = "create" => page' # "tasks" /\ job'[s].todo \subseteq {job'[s].ids}
                    /\ job'[s].kind # "plain" => job'[s].op \in Previewed
  BY DEF WellMade
<1>1. /\ job[s] # None /\ job'[s].op = job[s].op /\ job'[s].ids = job[s].ids
      /\ job'[s].kind = job[s].kind
      /\ job'[s].todo \subseteq job[s].todo
  BY DEF JobsAge, Ages
<1> QED BY <1>1 DEF WellMade

LEMMA BeginsTyped ==
  ASSUME Typed, page' = page, Begins
  PROVE  Typed'
<1>1. PICK s \in Slots, cancels \in BOOLEAN : \E kind, op, ids, tg, todo :
        BeginsWith(s, kind, op, ids, tg, todo, cancels)
  BY DEF Begins
<1>2. PICK kind, op, ids, tg, todo : BeginsWith(s, kind, op, ids, tg, todo, cancels)
  BY <1>1
<1> DEFINE new == NewJob(kind, op, ids, tg, Promise(kind, op, ids, tg), todo)
<1>3. /\ job'[s] = new
      /\ \A u \in Slots \ {s} : job'[u] \in {job[u], None}
      /\ job' \in [Slots -> Job \union {None}]
      /\ cache' \in {cache, Promise(kind, op, ids, tg)}
      /\ fetch' \in {fetch, NoFetch}
      /\ rows' = rows /\ told' = told /\ mounted' = mounted
      /\ filter' = filter /\ role' = role /\ budget' \in Nat
  BY <1>2, BeginWrites DEF Typed
<1>4. /\ Sound(kind, op, ids, tg, todo) /\ ask' \in {ask, None}
      /\ \E sel : Render(sel, draft)
  BY <1>2 DEF BeginsWith
<1>5. cache' \in Table
  BY <1>3, <1>4, PromiseTyped DEF Typed, TypeOK, Sound
<1>6. Rest'
  BY <1>3, <1>4, <1>5, FetchTyped DEF Typed, TypeOK, Rest
<1>7. View'
  BY <1>3, <1>4, <1>5, ViewStep DEF Typed, TypeOK
<1>8. new.todo = todo /\ new.ids = ids /\ new.op = op /\ new.kind = kind
  BY DEF NewJob
<1> HIDE DEF new
<1>9. WellMade'
  <2> SUFFICES ASSUME NEW u \in Slots, job'[u] # None
               PROVE  /\ UNION job'[u].todo \subseteq job'[u].ids
                      /\ \A R, Q \in job'[u].todo : R # Q => R \intersect Q = {}
                      /\ job'[u].op = "create" =>
                           page' # "tasks" /\ job'[u].todo \subseteq {job'[u].ids}
                      /\ job'[u].kind # "plain" => job'[u].op \in Previewed
    BY DEF WellMade
  <2>1. CASE u = s
    BY <1>3, <1>4, <1>8, <2>1 DEF Sound
  <2>2. CASE u # s
    BY <1>3, <2>2 DEF Typed, WellMade
  <2> QED BY <2>1, <2>2
<1> QED BY <1>6, <1>7, <1>9 DEF Rest, View, Typed, TypeOK

LEMMA FetchesTyped ==
  ASSUME Typed, page' = page, Fetches
  PROVE  Rest' /\ View'
<1> USE DEF Typed
<1>1. job' \in [Slots -> Job \union {None}]
  BY FetchesAge DEF JobsAge
<1>2. /\ UNCHANGED <<role, rows, told>> /\ budget' \in Nat
      /\ ask' = ask /\ mounted' \in BOOLEAN /\ filter' \in Filters
  <2>1. CASE ReturnToPage
    <3>1. "all" \in Filters /\ TRUE \in BOOLEAN
      BY DEF Filters
    <3> QED BY <2>1, <3>1 DEF ReturnToPage, TypeOK
  <2>2. CASE FetchFails
    <3>1. budget' \in Nat
      BY <2>2 DEF FetchFails, Act, TypeOK
    <3> QED BY <2>2, <3>1 DEF FetchFails, TypeOK
  <2>3. CASE Poll \/ ReadRows \/ FetchAnswers
    BY <2>3 DEF Poll, ReadRows, FetchAnswers, TypeOK
  <2> QED BY <2>1, <2>2, <2>3 DEF Fetches
<1>3. cache' \in Table
  BY DEF Fetches, Poll, ReadRows, FetchAnswers, FetchFails, ReturnToPage, TypeOK
<1>4. fetch' \in [step : {"none", "asked", "read"}, rows : Table]
  <2>1. CASE ReadRows
    BY <2>1 DEF ReadRows, TypeOK
  <2> QED BY <2>1, FetchTyped
          DEF Fetches, Poll, FetchAnswers, FetchFails, ReturnToPage, TypeOK
<1>5. View'
  <2>1. Empty \in [Ids -> Forms \union {None}] /\ draft \in [Ids -> Forms \union {None}]
    BY DEF Empty, TypeOK
  <2>2. CASE FetchAnswers
    BY <1>2, <1>3, <2>1, <2>2, ViewStep DEF FetchAnswers
  <2>3. CASE ReturnToPage
    BY <1>2, <1>3, <2>1, <2>3, ViewStep DEF ReturnToPage
  <2>4. CASE Poll \/ ReadRows \/ FetchFails
    BY <1>2, <1>3, <2>4, ViewStep DEF Poll, ReadRows, FetchFails
  <2> QED BY <2>2, <2>3, <2>4 DEF Fetches
<1> QED BY <1>1, <1>2, <1>3, <1>4, <1>5 DEF Rest, TypeOK

LEMMA AdvancesTyped ==
  ASSUME Typed, page' = page, NEW s \in Slots, Advances(s)
  PROVE  Rest' /\ View'
<1> USE DEF Typed
<1>1. ASSUME NEW R \in Requests(s), Handle(s, R) \/ RequestFails(s, R)
      PROVE  Rest' /\ View'
  <2>1. /\ rows' \in Table /\ job' \in [Slots -> Job \union {None}] /\ budget' \in Nat
        /\ UNCHANGED <<role, mounted, filter, cache, fetch, selected, draft, ask, told>>
    BY <1>1, HandleWrites, FailWrites DEF TypeOK
  <2> QED BY <2>1, ViewStep DEF Rest, TypeOK
<1>2. CASE Settles(s)
  <2>1. /\ job[s] \in Job
        /\ job' \in [Slots -> Job \union {None}]
        /\ cache' \in {cache, job[s].prev}
        /\ fetch' \in {fetch, Asked}
        /\ told' = told \/ told' = told \union job[s].ids
        /\ UNCHANGED <<role, mounted, filter, rows, ask, budget>>
        /\ \E dr \in [Ids -> Forms \union {None}] : Render(selected, dr)
    BY <1>2, SettleWrites
  <2>2. cache' \in Table /\ told' \subseteq Ids
    BY <2>1 DEF TypeOK, Job
  <2> QED BY <2>1, <2>2, FetchTyped, ViewStep DEF Rest, TypeOK
<1>3. CASE GraceEnds(s) \/ ToastGoes(s)
  <2>1. /\ job' \in [Slots -> Job \union {None}]
        /\ UNCHANGED <<role, mounted, filter, rows, cache, fetch, selected, draft,
                       ask, told, budget>>
    BY <1>3, GraceWrites, ToastWrites
  <2> QED BY <2>1, ViewStep DEF Rest, TypeOK
<1>4. CASE ClickUndo(s)
  <2>1. /\ job[s] \in Job
        /\ job' \in [Slots -> Job \union {None}]
        /\ cache' = job[s].prev
        /\ UNCHANGED <<role, mounted, filter, rows, fetch, ask, told, budget>>
        /\ Render(selected, draft)
    BY <1>4, UndoWrites
  <2>2. cache' \in Table
    BY <2>1 DEF Job
  <2> QED BY <2>1, <2>2, ViewStep DEF Rest, TypeOK
<1> QED BY <1>1, <1>2, <1>3, <1>4 DEF Advances

LEMMA TypedStep ==
  ASSUME Typed, [Next]_vars
  PROVE  Typed'
<1>1. CASE UNCHANGED vars
  BY <1>1 DEF vars, Typed, TypeOK, WellMade, FormsAreFilled, Visible, Shown, Passes
<1>2. ASSUME Next PROVE Typed'
  <2>1. page' = page /\ (Begins \/ Looks \/ Intrudes \/ Fetches \/ \E s \in Slots : Advances(s))
    BY <1>2, NextMoves DEF Typed
  <2>2. ASSUME Looks \/ Intrudes \/ Fetches \/ \E s \in Slots : Advances(s), Rest', View'
        PROVE  Typed'
    <3>1. WellMade'
      BY <2>1, <2>2, OthersAge, AgesWellMade DEF Typed
    <3> QED BY <2>1, <2>2, <3>1 DEF Typed, TypeOK, Rest, View
  <2>3. CASE Looks
    <3>1. Visible \subseteq Ids
      BY VisibleRows DEF Typed
    <3>2. Rest'
      BY <2>3, <3>1 DEF Looks, Rest, Typed, TypeOK
    <3> QED BY <2>1, <2>2, <2>3, <3>2, LooksView
  <2>4. CASE Intrudes
    <3>1. PICK i \in Ids, r \in RowOrNone : OutsideWrites(i, r)
      BY <2>4 DEF Intrudes
    <3>2. /\ rows' \in Table
          /\ job' \in [Slots -> Job \union {None}]
          /\ UNCHANGED <<role, mounted, filter, cache, fetch, selected, draft, ask, told>>
          /\ budget' \in Nat
      BY <3>1, IntrudeWrites DEF Typed
    <3>3. Rest' /\ View'
      BY <2>1, <3>2, ViewStep DEF Rest, Typed, TypeOK
    <3> QED BY <2>2, <2>4, <3>3
  <2>5. CASE Fetches
    BY <2>1, <2>2, <2>5, FetchesTyped
  <2>6. CASE \E s \in Slots : Advances(s)
    BY <2>1, <2>2, <2>6, AdvancesTyped
  <2> QED BY <2>1, <2>3, <2>4, <2>5, <2>6, BeginsTyped
<1> QED BY <1>1, <1>2

LEMMA InitTyped == Init => Typed
<1> SUFFICES ASSUME Init PROVE Typed
  OBVIOUS
<1>1. /\ page \in Polled \union {"users", "targets"}
      /\ role \in {"viewer", "operator", "admin"}
      /\ rows \in Table /\ cache = rows /\ budget \in Nat
  BY PagesAssumption, ListAssumption DEF Init
<1>2. \A i \in Ids : rows[i] # None => rows[i].tags \in Forms
  BY <1>1 DEF Table, RowOrNone
<1>3. draft = IF page \in Polled THEN Empty
              ELSE [i \in Ids |-> IF rows[i] = None THEN None ELSE rows[i].tags]
  BY DEF Init
<1>4. draft \in [Ids -> Forms \union {None}]
  BY <1>2, <1>3 DEF Empty
<1>5. mounted = TRUE /\ filter = "all"
  BY DEF Init
<1>6. Visible = {i \in Ids : rows[i] # None}
  BY <1>1, <1>5 DEF Visible, Shown, Passes
<1>7. \A i \in Ids : i \in Visible \/ draft[i] = None
  BY <1>3, <1>6 DEF Empty
<1>8. FormsAreFilled
  BY <1>2, <1>3, <1>6 DEF FormsAreFilled
<1>9. /\ job = [s \in Slots |-> None] /\ fetch = NoFetch /\ told = {}
      /\ ask = None /\ selected = {}
  BY DEF Init
<1>10. WellMade
  BY <1>9 DEF WellMade
<1>11. TypeOK
  BY <1>1, <1>4, <1>5, <1>7, <1>9, FetchTyped DEF TypeOK, Filters
<1> QED BY <1>8, <1>10, <1>11 DEF Typed

LEMMA TypedAlways == Spec => []Typed
  BY InitTyped, TypedStep, PTL DEF Spec

(* Whatever clicks, requests, refetches and other users do, every variable  *)
(* of the list pages has its type, and ticks and forms are of rows shown.   *)
THEOREM TypeCorrect == Spec => []TypeOK
<1>1. Typed => TypeOK
  BY DEF Typed
<1> QED BY <1>1, TypedAlways, PTL

-----------------------------------------------------------------------------
(* Bulk changes and undone deletes.                                        *)

(* A bulk change or an undoable delete touches only rows that are shown when*)
(* it is clicked, or the whole of a group of tasks whose shown members are  *)
(* two or more and all finished: a change begins by a click alone, and the  *)
(* ticks it takes its rows from are of rows shown, however the list has     *)
(* moved under them.                                                        *)
THEOREM BulkShown == Spec => BulkTouchesWhatIsShown
<1> DEFINE Step == \A s \in Slots :
              job[s] = None /\ job'[s] # None /\ job'[s].kind \in {"bulk"} \union Soft
                => \/ job'[s].ids \subseteq Visible
                   \/ WholeGroup(job'[s].ids)
<1>1. Typed /\ [Next]_vars => [Step]_vars
  <2> SUFFICES ASSUME Typed, Next PROVE Step
    OBVIOUS
  <2>1. CASE JobsAge
    BY <2>1 DEF JobsAge, Ages
  <2>2. CASE Begins
    <3>1. PICK s \in Slots, cancels \in BOOLEAN : \E kind, op, ids, tg, todo :
            BeginsWith(s, kind, op, ids, tg, todo, cancels)
      BY <2>2 DEF Begins
    <3>2. PICK kind, op, ids, tg, todo : BeginsWith(s, kind, op, ids, tg, todo, cancels)
      BY <3>1
    <3>3. /\ job'[s] = NewJob(kind, op, ids, tg, Promise(kind, op, ids, tg), todo)
          /\ \A u \in Slots \ {s} : job'[u] \in {job[u], None}
      BY <3>2, BeginWrites DEF Typed
    <3>4. job'[s].kind = kind /\ job'[s].ids = ids
      BY <3>3 DEF NewJob
    <3>5. kind \in {"bulk"} \union Soft => ids \subseteq Visible \/ WholeGroup(ids)
      BY <3>2 DEF BeginsWith, Sound
    <3> QED BY <3>3, <3>4, <3>5
  <2> QED BY <2>1, <2>2, NextMoves, OthersAge DEF Typed
<1> HIDE DEF Step
<1>2. Spec => [][Step]_vars
  BY <1>1, TypedAlways, PTL DEF Spec
<1>3. [][Step]_vars <=> BulkTouchesWhatIsShown
  BY DEF Step, WholeGroup, BulkTouchesWhatIsShown
<1> QED BY <1>2, <1>3

LEMMA UndoneStep ==
  ASSUME Typed, UndoneIsKept, [Next]_vars
  PROVE  UndoneIsKept'
<1> SUFFICES ASSUME Next, NEW s \in Slots, job'[s] # None, job'[s].undone
             PROVE  job'[s].step = "grace"
  BY DEF UndoneIsKept, vars
<1>1. ASSUME job'[s] = job[s] PROVE job'[s].step = "grace"
  BY <1>1 DEF UndoneIsKept
<1>2. \A u \in Slots : job[u] # None => job[u] \in Job
  BY DEF Typed, TypeOK
<1>3. ASSUME NEW R, NEW u, Disturbs(R, u), s # u PROVE job'[s].step = "grace"
  <2>1. CASE job[s] # None /\ job[s].ids \intersect R # {}
    <3>1. job'[s] = [job[s] EXCEPT !.clean = FALSE]
      BY <1>3, <2>1 DEF Disturbs
    <3>2. job[s] \in Job
      BY <1>2, <2>1
    <3>3. job'[s].undone = job[s].undone /\ job'[s].step = job[s].step
      BY <3>1, <3>2 DEF Job
    <3> QED BY <2>1, <3>3 DEF UndoneIsKept
  <2>2. CASE ~ (job[s] # None /\ job[s].ids \intersect R # {})
    BY <1>1, <1>3, <2>2 DEF Disturbs
  <2> QED BY <2>1, <2>2
<1>4. CASE Begins
  <2>1. PICK u \in Slots, cancels \in BOOLEAN : \E kind, op, ids, tg, todo :
          BeginsWith(u, kind, op, ids, tg, todo, cancels)
    BY <1>4 DEF Begins
  <2>2. PICK kind, op, ids, tg, todo : BeginsWith(u, kind, op, ids, tg, todo, cancels)
    BY <2>1
  <2>3. /\ job'[u] = NewJob(kind, op, ids, tg, Promise(kind, op, ids, tg), todo)
        /\ s # u => job'[s] \in {job[s], None}
    BY <2>2, BeginWrites DEF Typed
  <2>4. ~ job'[u].undone
    BY <2>3 DEF NewJob
  <2> QED BY <1>1, <2>3, <2>4
<1>5. CASE Looks
  BY <1>1, <1>5 DEF Looks
<1>6. CASE Intrudes
  <2>1. PICK i \in Ids, r \in RowOrNone : OutsideWrites(i, r)
    BY <1>6 DEF Intrudes
  <2>2. Disturbs({i}, None) /\ s # None
    BY <2>1, IntrudeWrites, ListAssumption DEF Typed
  <2> QED BY <1>3, <2>2
<1>7. CASE Fetches
  <2>1. job' \in {job, Refetched}
    BY <1>7 DEF Fetches, Poll, ReadRows, FetchAnswers, FetchFails, ReturnToPage
  <2> QED BY <1>1, <2>1, RefetchedJobs DEF Typed
<1>8. ASSUME NEW u \in Slots, Advances(u) PROVE job'[s].step = "grace"
  <2>1. ASSUME Alone(u), u # s PROVE job'[s].step = "grace"
    BY <1>1, <2>1 DEF Alone
  <2>2. ASSUME NEW R \in Requests(u), Handle(u, R) PROVE job'[s].step = "grace"
    <3>1. /\ job[u] # None /\ job[u].step # "grace" /\ Disturbs(R, u)
          /\ Refused(job[u], R) \in BOOLEAN
          /\ job'[u] \in {Answered(u, R, Refused(job[u], R)), None}
      BY <2>2, HandleWrites DEF Typed
    <3>2. Answered(u, R, Refused(job[u], R)).undone = job[u].undone
      BY <3>1, AnsweredTyped DEF Typed
    <3> QED BY <1>3, <3>1, <3>2 DEF UndoneIsKept
  <2>3. ASSUME NEW R \in Requests(u), RequestFails(u, R) PROVE job'[s].step = "grace"
    <3>1. /\ job[u] # None /\ job[u].step # "grace" /\ Disturbs(R, u)
          /\ job'[u] = Answered(u, R, TRUE)
      BY <2>3, FailWrites DEF Typed
    <3>2. job[u] \in Job
      BY <1>2, <3>1
    <3>3. Answered(u, R, TRUE).undone = job[u].undone
      BY <3>2 DEF Answered, Job
    <3> QED BY <1>3, <3>1, <3>3 DEF UndoneIsKept
  <2>4. CASE Settles(u)
    <3>1. /\ job[u] # None /\ job[u] \in Job /\ job[u].step = "sent" /\ Alone(u)
          /\ job'[u] \in {None, [job[u] EXCEPT !.step = "late"],
                                [job[u] EXCEPT !.step = "refetching"]}
      BY <2>4, SettleWrites DEF Typed
    <3>2. job'[u] # None => job'[u].undone = job[u].undone
      BY <3>1 DEF Job
    <3>3. ~ job[u].undone
      BY <3>1 DEF UndoneIsKept
    <3> QED BY <2>1, <3>1, <3>2, <3>3
  <2>5. CASE GraceEnds(u)
    <3>1. /\ job[u] # None /\ job[u] \in Job /\ Alone(u)
          /\ IF job[u].undone THEN job'[u] = None
             ELSE job'[u] = [job[u] EXCEPT !.step = "sent"]
      BY <2>5, GraceWrites DEF Typed
    <3>2. job'[u] # None => job'[u].undone = job[u].undone /\ ~ job[u].undone
      BY <3>1 DEF Job
    <3> QED BY <2>1, <3>1, <3>2
  <2>6. CASE ToastGoes(u)
    <3>1. /\ job[u] # None /\ job[u] \in Job /\ Alone(u)
          /\ job'[u] = [job[u] EXCEPT !.toast = FALSE]
      BY <2>6, ToastWrites DEF Typed
    <3>2. job'[u].undone = job[u].undone /\ job'[u].step = job[u].step
      BY <3>1 DEF Job
    <3> QED BY <2>1, <3>1, <3>2 DEF UndoneIsKept
  <2>7. CASE ClickUndo(u)
    <3>1. /\ job[u] # None /\ job[u] \in Job /\ Alone(u)
          /\ job'[u] = [job[u] EXCEPT !.toast = FALSE, !.undone = job[u].step = "grace"]
      BY <2>7, UndoWrites DEF Typed
    <3>2. job'[u].undone = (job[u].step = "grace") /\ job'[u].step = job[u].step
      BY <3>1 DEF Job
    <3> QED BY <2>1, <3>1, <3>2
  <2> QED BY <1>8, <2>2, <2>3, <2>4, <2>5, <2>6, <2>7 DEF Advances
<1> QED BY <1>4, <1>5, <1>6, <1>7, <1>8, NextMoves DEF Typed

(* A delete undone in time is never sent: not by its timer, not by an answer*)
(* to another change, not after the user has left the page.                 *)
THEOREM UndoKept == Spec => []UndoneIsKept
<1>1. Init => UndoneIsKept
  BY DEF Init, UndoneIsKept
<1> QED BY <1>1, TypedAlways, UndoneStep, PTL DEF Spec

-----------------------------------------------------------------------------
(* Previews.                                                               *)

LEMMA PreviewedIsNotCreate == "create" \notin Previewed
  BY DEF Previewed

\* Change s, if it is still clean and unanswered, and its rows are as before.
Stays(s) ==
  job'[s] # None /\ job'[s].clean /\ job'[s].step \in {"grace", "sent"} =>
    /\ job[s] # None /\ job[s].clean /\ job[s].step \in {"grace", "sent"}
    /\ job'[s].op = job[s].op /\ job'[s].ids = job[s].ids
    /\ job'[s].tags = job[s].tags /\ job'[s].promise = job[s].promise
    /\ job'[s].prev = job[s].prev /\ job'[s].todo = job[s].todo
    /\ job'[s].failed = job[s].failed /\ job'[s].kind = job[s].kind
    /\ \A i \in job[s].ids : rows'[i] = rows[i]

LEMMA StaysForeseen ==
  ASSUME NEW s \in Slots, ForeseenAt(s), Stays(s)
  PROVE  ForeseenAt(s)'
<1> SUFFICES ASSUME job'[s] # None, job'[s].clean, job'[s].kind # "plain",
                    job'[s].step \in {"grace", "sent"}, NEW i \in job'[s].ids
             PROVE  /\ Promised(job[s], i)'
                    /\ i \in UNION job'[s].todo => rows'[i] = job'[s].prev[i]
                    /\ i \notin UNION job'[s].todo /\ ~ job'[s].failed => Kept(job[s], i)'
  BY DEF ForeseenAt, Promised, Kept
<1>1. /\ job[s] # None /\ job[s].clean /\ job[s].step \in {"grace", "sent"}
      /\ job[s].kind # "plain" /\ job'[s].op = job[s].op /\ i \in job[s].ids
      /\ job'[s].tags = job[s].tags /\ job'[s].promise = job[s].promise
      /\ job'[s].prev = job[s].prev /\ job'[s].todo = job[s].todo
      /\ job'[s].failed = job[s].failed /\ rows'[i] = rows[i]
  BY DEF Stays
<1>2. /\ Promised(job[s], i)
      /\ i \in UNION job[s].todo => rows[i] = job[s].prev[i]
      /\ i \notin UNION job[s].todo /\ ~ job[s].failed => Kept(job[s], i)
  BY <1>1 DEF ForeseenAt
<1>3. Promised(job[s], i)' <=> Promised(job[s], i)
  BY <1>1 DEF Promised
<1>4. Kept(job[s], i)' <=> Kept(job[s], i)
  BY <1>1 DEF Kept
<1> QED BY <1>1, <1>2, <1>3, <1>4

\* A writer of rows R leaves a clean change alone.
LEMMA DisturbedStays ==
  ASSUME TypeOK, NEW R, NEW u, NEW s \in Slots, u # s, Disturbs(R, u),
         \A i \in Ids : i \notin R => rows'[i] = rows[i]
  PROVE  Stays(s)
<1>1. job[s] # None => job[s] \in Job /\ job[s].ids \subseteq Ids
  BY DEF TypeOK, Job
<1>2. CASE job[s] # None /\ job[s].ids \intersect R # {}
  <2>1. job'[s] = [job[s] EXCEPT !.clean = FALSE]
    BY <1>2 DEF Disturbs
  <2>2. ~ job'[s].clean
    BY <1>1, <1>2, <2>1 DEF Job
  <2> QED BY <2>2 DEF Stays
<1>3. CASE ~ (job[s] # None /\ job[s].ids \intersect R # {})
  <2>1. job'[s] = job[s]
    BY <1>3 DEF Disturbs
  <2> QED BY <1>1, <1>3, <2>1 DEF Stays
<1> QED BY <1>2, <1>3

LEMMA SameStays ==
  ASSUME NEW s, job'[s] \in {job[s], None}, rows' = rows
  PROVE  Stays(s)
  BY DEF Stays

\* A change of the page's own that has just begun.
LEMMA BeginsForeseen ==
  ASSUME Typed, Foreseen, Begins, NEW s \in Slots
  PROVE  ForeseenAt(s)'
<1>1. PICK u \in Slots, cancels \in BOOLEAN : \E kind, op, ids, tg, todo :
        BeginsWith(u, kind, op, ids, tg, todo, cancels)
  BY DEF Begins
<1>2. PICK kind, op, ids, tg, todo : BeginsWith(u, kind, op, ids, tg, todo, cancels)
  BY <1>1
<1> DEFINE new == NewJob(kind, op, ids, tg, Promise(kind, op, ids, tg), todo)
<1>3. /\ job'[u] = new
      /\ s # u => job'[s] \in {job[s], None}
      /\ rows' = rows
  BY <1>2, BeginWrites DEF Typed
<1>4. CASE s # u
  BY <1>3, <1>4, SameStays, StaysForeseen DEF Foreseen
<1>5. CASE s = u
  <2>1. /\ new.op = op /\ new.ids = ids /\ new.tags = tg /\ new.prev = cache
        /\ new.kind = kind
        /\ new.promise = Promise(kind, op, ids, tg) /\ new.todo = todo
        /\ new.clean = (\A i \in ids : cache[i] = rows[i])
    BY DEF NewJob
  <2>2. UNION todo = ids /\ ids \subseteq Ids
    BY <1>2 DEF BeginsWith, Sound
  <2>3. kind # "plain" => \A i \in ids : Promise(kind, op, ids, tg)[i] =
          IF cache[i] # None THEN Patched(op, tg[i], cache[i]) ELSE cache[i]
    BY <2>2 DEF Promise
  <2> HIDE DEF new
  <2>4. job'[s] = new
    BY <1>3, <1>5
  <2> SUFFICES ASSUME job'[s].clean, job'[s].kind # "plain", NEW i \in job'[s].ids
               PROVE  /\ Promised(job[s], i)'
                      /\ rows'[i] = job'[s].prev[i]
                      /\ i \in UNION job'[s].todo
    BY DEF ForeseenAt, Promised
  <2>5. i \in ids /\ cache[i] = rows[i] /\ rows'[i] = rows[i]
    BY <1>3, <2>1, <2>4
  <2>6. new.promise[i] = IF cache[i] # None THEN Patched(op, tg[i], cache[i]) ELSE cache[i]
    BY <2>1, <2>3, <2>4, <2>5
  <2> QED BY <2>1, <2>2, <2>4, <2>5, <2>6 DEF Promised
<1> QED BY <1>4, <1>5

(* What the server makes of a row is what the page had promised of it.      *)
LEMMA ServedIsKept ==
  ASSUME NEW op \in Previewed, NEW tg \in Forms, NEW r \in RowOrNone, r # None
  PROVE  LET shown == Patched(op, tg, r)
             made  == Served(op, tg, r)
         IN \/ made = shown
            \/ op \in {"save", "tag"} /\ made = [shown EXCEPT !.tags = Tidied(@)]
            \/ /\ op = "approve" /\ tg \subseteq shown.tags
               /\ made = [shown EXCEPT !.tags = tg]
<1>1. r \in [status : Statuses, tags : Forms]
  BY DEF RowOrNone
<1>2. CASE op = "approve"
  <2>1. Patched(op, tg, r) = [r EXCEPT !.status = "active", !.tags = @ \union tg]
    BY <1>2 DEF Patched
  <2>2. Served(op, tg, r) = Row("active", tg)
    BY <1>2 DEF Served
  <2> DEFINE shown == [status |-> "active", tags |-> r.tags \union tg]
  <2>3. Patched(op, tg, r) = shown
    BY <1>1, <2>1
  <2>4. Served(op, tg, r) = [shown EXCEPT !.tags = tg]
    BY <2>2 DEF Row
  <2>5. tg \subseteq shown.tags
    OBVIOUS
  <2> HIDE DEF shown
  <2> QED BY <1>2, <2>3, <2>4, <2>5
<1>3. CASE op \in {"save", "tag"}
  <2>1. Patched(op, tg, r) = [r EXCEPT !.tags = tg]
    BY <1>3 DEF Patched
  <2>2. Served(op, tg, r) = [r EXCEPT !.tags = Tidied(tg)]
    BY <1>3 DEF Served
  <2> QED BY <1>1, <1>3, <2>1, <2>2
<1>4. CASE op \in {"delete", "reject", "active", "disabled", "enabled", "paused"}
  BY <1>4 DEF Patched, Served
<1> QED BY <1>2, <1>3, <1>4 DEF Previewed

(* A request served: what it asked about is as promised, the rest as before.*)
LEMMA HandleForeseen ==
  ASSUME Typed, Foreseen, NEW s \in Slots, NEW R \in Requests(s), Handle(s, R)
  PROVE  ForeseenAt(s)'
<1> DEFINE bad == Refused(job[s], R)
           j   == Answered(s, R, bad)
<1>1. /\ job[s] # None /\ job[s] \in Job /\ R \in job[s].todo /\ R \in SUBSET Ids
      /\ job[s].step \in {"sent", "late"} /\ bad \in BOOLEAN
      /\ job'[s] \in {j, None}
      /\ rows' = IF bad THEN rows ELSE Handled(job[s], R)
  BY HandleWrites DEF Typed
<1>2. /\ j.todo = job[s].todo \ {R} /\ j.failed = (job[s].failed \/ bad)
      /\ j.op = job[s].op /\ j.ids = job[s].ids /\ j.kind = job[s].kind
      /\ j.tags = job[s].tags /\ j.promise = job[s].promise
      /\ j.prev = job[s].prev /\ j.step = job[s].step
      /\ j.clean = job[s].clean
  BY <1>1, AnsweredTyped DEF Typed
<1> HIDE DEF j, bad
<1> SUFFICES ASSUME job'[s] # None, job'[s].clean, job'[s].kind # "plain",
                    job'[s].step \in {"grace", "sent"}, NEW i \in job'[s].ids
             PROVE  /\ Promised(job[s], i)'
                    /\ i \in UNION job'[s].todo => rows'[i] = job'[s].prev[i]
                    /\ i \notin UNION job'[s].todo /\ ~ job'[s].failed => Kept(job[s], i)'
  BY DEF ForeseenAt, Promised, Kept
<1>3. /\ job'[s].todo = job[s].todo \ {R} /\ job'[s].op = job[s].op
      /\ job'[s].tags = job[s].tags /\ job'[s].prev = job[s].prev
      /\ job'[s].promise = job[s].promise
      /\ job'[s].failed = (job[s].failed \/ bad)
      /\ job[s].clean /\ job[s].kind # "plain" /\ job[s].step = "sent"
      /\ i \in job[s].ids
  BY <1>1, <1>2
<1>4. /\ Promised(job[s], i)
      /\ i \in UNION job[s].todo => rows[i] = job[s].prev[i]
      /\ i \notin UNION job[s].todo /\ ~ job[s].failed => Kept(job[s], i)
  BY <1>1, <1>3 DEF Foreseen, ForeseenAt
<1>5. Promised(job[s], i)'
  BY <1>3, <1>4 DEF Promised
<1>6. \A Q \in job[s].todo : Q # R => Q \intersect R = {}
  BY <1>1 DEF Typed, WellMade
<1>7. i \in Ids /\ (i \in R => i \in UNION job[s].todo)
  BY <1>1, <1>3 DEF Job
<1>8. i \in UNION (job[s].todo \ {R}) <=> i \in UNION job[s].todo /\ i \notin R
  BY <1>1, <1>6
<1>9. CASE bad \/ i \notin R
  <2>1. rows'[i] = rows[i]
    BY <1>1, <1>7, <1>9, HandledTyped DEF Typed
  <2>2. Kept(job[s], i) => Kept(job[s], i)'
    BY <1>3, <2>1 DEF Kept
  <2> QED BY <1>3, <1>4, <1>5, <1>8, <1>9, <2>1, <2>2
<1>10. CASE ~ bad /\ i \in R
  <2>1. rows[i] = job[s].prev[i]
    BY <1>4, <1>7, <1>10
  <2>2. rows'[i] = IF rows[i] # None THEN Served(job[s].op, job[s].tags[i], rows[i])
                   ELSE rows[i]
    BY <1>1, <1>3, <1>10, HandledTyped, PreviewedIsNotCreate DEF Typed, WellMade
  <2>3. job[s].op \in Previewed /\ job[s].tags[i] \in Forms /\ rows[i] \in RowOrNone
    BY <1>1, <1>3, <1>7 DEF WellMade, Job, Typed, TypeOK, Table
  <2>4. CASE rows[i] = None
    BY <1>3, <1>4, <1>5, <1>8, <1>10, <2>1, <2>2, <2>4 DEF Promised, Kept
  <2>5. CASE rows[i] # None
    <3>1. job'[s].promise[i] = Patched(job[s].op, job[s].tags[i], rows[i])
      BY <1>3, <1>4, <2>1, <2>5 DEF Promised
    <3>2. Kept(job[s], i)'
      BY <1>3, <2>2, <2>3, <2>5, <3>1, ServedIsKept DEF Kept
    <3> QED BY <1>3, <1>5, <1>8, <1>10, <3>2
  <2> QED BY <2>4, <2>5
<1> QED BY <1>9, <1>10

(* A request without an answer leaves those still to come as they were.     *)
LEMMA FailForeseen ==
  ASSUME Typed, Foreseen, NEW s \in Slots, NEW R \in Requests(s), RequestFails(s, R)
  PROVE  ForeseenAt(s)'
<1> DEFINE j == Answered(s, R, TRUE)
<1>1. /\ job[s] # None /\ job[s] \in Job /\ R \in job[s].todo /\ R \in SUBSET Ids
      /\ job[s].step = "sent" /\ job'[s] = j
      /\ rows' \in {rows, Handled(job[s], R)}
  BY FailWrites DEF Typed
<1>2. /\ j.todo = job[s].todo \ {R} /\ j.failed /\ j.kind = job[s].kind
      /\ j.op = job[s].op /\ j.ids = job[s].ids
      /\ j.tags = job[s].tags /\ j.promise = job[s].promise
      /\ j.prev = job[s].prev /\ j.clean = job[s].clean
  BY <1>1 DEF Answered, Job
<1> HIDE DEF j
<1> SUFFICES ASSUME job'[s].clean, job'[s].kind # "plain", NEW i \in job'[s].ids
             PROVE  /\ Promised(job[s], i)'
                    /\ i \in UNION job'[s].todo => rows'[i] = job'[s].prev[i]
                    /\ job'[s].failed
  BY DEF ForeseenAt, Promised
<1>3. /\ Promised(job[s], i)
      /\ i \in UNION job[s].todo => rows[i] = job[s].prev[i]
  BY <1>1, <1>2 DEF Foreseen, ForeseenAt
<1>4. \A Q \in job[s].todo : Q # R => Q \intersect R = {}
  BY <1>1 DEF Typed, WellMade
<1>5. i \in UNION (job[s].todo \ {R}) => i \in UNION job[s].todo /\ i \notin R
  BY <1>1, <1>4
<1>6. i \notin R => rows'[i] = rows[i]
  BY <1>1, <1>2, HandledTyped DEF Typed, Job
<1>7. Promised(job[s], i)'
  BY <1>1, <1>2, <1>3 DEF Promised
<1> QED BY <1>1, <1>2, <1>3, <1>5, <1>6, <1>7

LEMMA AdvancesForeseen ==
  ASSUME Typed, Foreseen, NEW u \in Slots, Advances(u), NEW s \in Slots
  PROVE  ForeseenAt(s)'
<1>1. ForeseenAt(s)
  BY DEF Foreseen
<1>2. ASSUME Alone(u), UNCHANGED rows, u # s PROVE ForeseenAt(s)'
  BY <1>1, <1>2, SameStays, StaysForeseen DEF Alone
<1>3. ASSUME NEW R, Disturbs(R, u), u # s, \A i \in Ids : i \notin R => rows'[i] = rows[i]
      PROVE  ForeseenAt(s)'
  BY <1>1, <1>3, DisturbedStays, StaysForeseen DEF Typed
<1>4. ASSUME NEW R \in Requests(u), Handle(u, R) PROVE ForeseenAt(s)'
  <2>1. /\ Disturbs(R, u) /\ R \in SUBSET Ids /\ job[u] \in Job
        /\ rows' \in {rows, Handled(job[u], R)}
    BY <1>4, HandleWrites DEF Typed
  <2>2. \A i \in Ids : i \notin R => rows'[i] = rows[i]
    BY <2>1, HandledTyped DEF Typed
  <2> QED BY <1>3, <1>4, <2>1, <2>2, HandleForeseen
<1>5. ASSUME NEW R \in Requests(u), RequestFails(u, R) PROVE ForeseenAt(s)'
  <2>1. /\ Disturbs(R, u) /\ R \in SUBSET Ids /\ job[u] \in Job
        /\ rows' \in {rows, Handled(job[u], R)}
    BY <1>5, FailWrites DEF Typed
  <2>2. \A i \in Ids : i \notin R => rows'[i] = rows[i]
    BY <2>1, HandledTyped DEF Typed
  <2> QED BY <1>3, <1>5, <2>1, <2>2, FailForeseen
<1>6. CASE Settles(u)
  <2>1. /\ job[u] \in Job /\ Alone(u) /\ UNCHANGED rows
        /\ job'[u] \in {None, [job[u] EXCEPT !.step = "late"],
                              [job[u] EXCEPT !.step = "refetching"]}
    BY <1>6, SettleWrites DEF Typed
  <2>2. Stays(u)
    BY <2>1 DEF Stays, Job
  <2> QED BY <1>1, <1>2, <2>1, <2>2, StaysForeseen
<1>7. CASE GraceEnds(u)
  <2>1. /\ job[u] # None /\ job[u] \in Job /\ Alone(u) /\ UNCHANGED rows
        /\ job[u].step = "grace"
        /\ job'[u] \in {None, [job[u] EXCEPT !.step = "sent"]}
    BY <1>7, GraceWrites DEF Typed
  <2>2. Stays(u)
    BY <2>1 DEF Stays, Job
  <2> QED BY <1>1, <1>2, <2>1, <2>2, StaysForeseen
<1>8. CASE ToastGoes(u)
  <2>1. /\ job[u] # None /\ job[u] \in Job /\ Alone(u) /\ UNCHANGED rows
        /\ job'[u] = [job[u] EXCEPT !.toast = FALSE]
    BY <1>8, ToastWrites DEF Typed
  <2>2. Stays(u)
    BY <2>1 DEF Stays, Job
  <2> QED BY <1>1, <1>2, <2>1, <2>2, StaysForeseen
<1>9. CASE ClickUndo(u)
  <2>1. /\ job[u] # None /\ job[u] \in Job /\ Alone(u) /\ UNCHANGED rows
        /\ job'[u] = [job[u] EXCEPT !.toast = FALSE, !.undone = job[u].step = "grace"]
    BY <1>9, UndoWrites DEF Typed
  <2>2. Stays(u)
    BY <2>1 DEF Stays, Job
  <2> QED BY <1>1, <1>2, <2>1, <2>2, StaysForeseen
<1> QED BY <1>4, <1>5, <1>6, <1>7, <1>8, <1>9 DEF Advances

LEMMA ForeseenStep ==
  ASSUME Typed, Foreseen, [Next]_vars
  PROVE  Foreseen'
<1> SUFFICES ASSUME NEW s \in Slots PROVE ForeseenAt(s)'
  BY DEF Foreseen
<1>1. ForeseenAt(s)
  BY DEF Foreseen
<1>2. ASSUME job'[s] \in {job[s], None}, UNCHANGED rows PROVE ForeseenAt(s)'
  BY <1>1, <1>2, SameStays, StaysForeseen
<1>3. CASE UNCHANGED vars
  BY <1>2, <1>3 DEF vars
<1>4. CASE Looks
  BY <1>2, <1>4 DEF Looks
<1>5. CASE Intrudes
  <2>1. PICK i \in Ids, r \in RowOrNone : OutsideWrites(i, r)
    BY <1>5 DEF Intrudes
  <2>2. /\ Disturbs({i}, None) /\ s # None
        /\ rows' = [rows EXCEPT ![i] = r] /\ rows \in Table
    BY <2>1, IntrudeWrites, ListAssumption DEF Typed, TypeOK
  <2>3. \A k \in Ids : k \notin {i} => rows'[k] = rows[k]
    BY <2>2 DEF Table
  <2> QED BY <1>1, <2>2, <2>3, DisturbedStays, StaysForeseen DEF Typed
<1>6. CASE Fetches
  <2>1. job' \in {job, Refetched} /\ rows' = rows
    BY <1>6 DEF Fetches, Poll, ReadRows, FetchAnswers, FetchFails, ReturnToPage
  <2> QED BY <1>2, <2>1, RefetchedJobs DEF Typed
<1> QED BY <1>3, <1>4, <1>5, <1>6, BeginsForeseen, AdvancesForeseen, NextMoves DEF Typed

(* What a click shows at once is what the server makes of it, on every page *)
(* and for every change that nobody disturbs, but for tags: those of an edit*)
(* end up as the server tidies them, those of an approval as it was sent.   *)
THEOREM PreviewHonest == Spec => []PreviewIsHonest
<1>1. Init => Foreseen
  BY DEF Init, Foreseen, ForeseenAt
<1>2. Spec => []Foreseen
  BY <1>1, TypedAlways, ForeseenStep, PTL DEF Spec
<1>3. Foreseen => PreviewIsHonest
  BY DEF Foreseen, ForeseenAt, Kept, PreviewIsHonest
<1> QED BY <1>2, <1>3, PTL

-----------------------------------------------------------------------------
(* What is gone stays hidden.                                              *)

\* The request of change u that creates row i.
Creates(u, i) ==
  /\ job[u] # None /\ job[u].op = "create" /\ i \in job[u].ids
  /\ job[u].todo # {} /\ (job'[u] # None => job'[u].todo = {})

\* Rows come from new identifiers, or from the creations under way.
RowsMove ==
  \A i \in Ids : rows[i] = None =>
    rows'[i] = None \/ Unused(i) \/ \E u \in Slots : Creates(u, i)

\* Hidden rows come back with an answer or with a cache that is restored.
CacheMoves ==
  \A i \in Ids : cache[i] = None =>
    \/ cache'[i] = None
    \/ fetch.step = "read" /\ cache' = fetch.rows
    \/ \E s \in Slots : job[s] # None /\ job'[s] # job[s] /\ cache' = job[s].prev

FetchMoves ==
  \/ fetch' \in {fetch, NoFetch, Asked}
  \/ fetch'.rows = rows /\ rows' = rows

\* The page is told of the deletes that have been answered.
ToldMoves ==
  \/ told' = told
  \/ \E u \in Slots :
       /\ job[u] # None /\ job[u].op = "delete" /\ job[u].step = "sent"
       /\ ~ job[u].failed /\ job[u].todo = {}
       /\ told' = told \union job[u].ids
       /\ fetch' = Asked /\ rows' = rows

AskMoves == ask' \in {ask, None} \union Visible

Moves == RowsMove /\ CacheMoves /\ FetchMoves /\ ToldMoves /\ AskMoves

LEMMA RequestMoves ==
  ASSUME Typed, NEW u \in Slots, NEW R \in Requests(u),
         Handle(u, R) \/ RequestFails(u, R)
  PROVE  Moves
<1>1. /\ job[u] # None /\ job[u] \in Job /\ R \in job[u].todo /\ R \in SUBSET Ids
      /\ rows' \in {rows, Handled(job[u], R)}
      /\ job'[u] = None \/ \E bad \in BOOLEAN : job'[u] = Answered(u, R, bad)
      /\ UNCHANGED <<role, mounted, filter, cache, fetch, selected, draft, ask, told>>
  <2>1. CASE Handle(u, R)
    BY <2>1, HandleWrites DEF Typed
  <2>2. CASE RequestFails(u, R)
    <3>1. TRUE \in BOOLEAN
      OBVIOUS
    <3> QED BY <2>2, <3>1, FailWrites DEF Typed
  <2> QED BY <2>1, <2>2
<1>2. job'[u] # None => job'[u].todo = job[u].todo \ {R}
  BY <1>1, AnsweredTyped DEF Typed
<1>3. RowsMove
  <2> SUFFICES ASSUME NEW i \in Ids, rows[i] = None, rows'[i] # None
               PROVE  Creates(u, i)
    BY DEF RowsMove
  <2>1. i \in R /\ job[u].op = "create"
    BY <1>1, HandledTyped DEF Typed
  <2>2. job[u].todo \subseteq {job[u].ids} /\ UNION job[u].todo \subseteq job[u].ids
    BY <1>1, <2>1 DEF Typed, WellMade
  <2> QED BY <1>1, <1>2, <2>1, <2>2 DEF Creates
<1> QED BY <1>1, <1>3 DEF Moves, CacheMoves, FetchMoves, ToldMoves, AskMoves

LEMMA AdvancesMoves ==
  ASSUME Typed, NEW u \in Slots, Advances(u)
  PROVE  Moves
<1>1. CASE Settles(u)
  <2>1. /\ job[u] # None /\ job[u] \in Job /\ job[u].step = "sent"
        /\ job'[u] \in {None, [job[u] EXCEPT !.step = "late"],
                              [job[u] EXCEPT !.step = "refetching"]}
        /\ cache' \in {cache, job[u].prev}
        /\ fetch' \in {fetch, Asked}
        /\ told' = told \/ (/\ job[u].op = "delete" /\ ~ job[u].failed
                            /\ job[u].todo = {}
                            /\ fetch' = Asked
                            /\ told' = told \union job[u].ids)
        /\ UNCHANGED <<rows, ask>>
    BY <1>1, SettleWrites DEF Typed
  <2>2. job'[u] # job[u]
    BY <2>1 DEF Job
  <2>3. CacheMoves
    BY <2>1, <2>2 DEF CacheMoves
  <2>4. ToldMoves
    BY <2>1 DEF ToldMoves
  <2> QED BY <2>1, <2>3, <2>4 DEF Moves, RowsMove, FetchMoves, AskMoves
<1>2. CASE GraceEnds(u) \/ ToastGoes(u)
  <2>1. UNCHANGED <<rows, cache, fetch, ask, told>>
    BY <1>2, GraceWrites, ToastWrites DEF Typed
  <2> QED BY <2>1 DEF Moves, RowsMove, CacheMoves, FetchMoves, ToldMoves, AskMoves
<1>3. CASE ClickUndo(u)
  <2>1. /\ job[u] # None /\ job[u] \in Job /\ job[u].toast = TRUE
        /\ job'[u] = [job[u] EXCEPT !.toast = FALSE, !.undone = job[u].step = "grace"]
        /\ cache' = job[u].prev
        /\ UNCHANGED <<rows, fetch, ask, told>>
    BY <1>3, UndoWrites DEF Typed
  <2>2. job'[u].toast = FALSE
    BY <2>1 DEF Job
  <2>3. job'[u] # job[u]
    BY <2>1, <2>2
  <2> QED BY <2>1, <2>3 DEF Moves, RowsMove, CacheMoves, FetchMoves, ToldMoves, AskMoves
<1> QED BY <1>1, <1>2, <1>3, RequestMoves DEF Advances

LEMMA BeginsMoves ==
  ASSUME Typed, Begins
  PROVE  Moves
<1>1. PICK s \in Slots, cancels \in BOOLEAN : \E kind, op, ids, tg, todo :
        BeginsWith(s, kind, op, ids, tg, todo, cancels)
  BY DEF Begins
<1>2. PICK kind, op, ids, tg, todo : BeginsWith(s, kind, op, ids, tg, todo, cancels)
  BY <1>1
<1>3. /\ cache' \in {cache, Promise(kind, op, ids, tg)}
      /\ fetch' \in {fetch, NoFetch} /\ rows' = rows /\ told' = told
  BY <1>2, BeginWrites DEF Typed
<1>4. ask' \in {ask, None}
  BY <1>2 DEF BeginsWith
<1>5. \A i \in Ids : cache[i] = None => Promise(kind, op, ids, tg)[i] = None
  BY DEF Promise
<1> QED BY <1>3, <1>4, <1>5 DEF Moves, RowsMove, CacheMoves, FetchMoves, ToldMoves, AskMoves

LEMMA AllMoves ==
  ASSUME Typed, Next
  PROVE  Moves
<1> USE DEF Moves, RowsMove, CacheMoves, FetchMoves, ToldMoves, AskMoves
<1>1. CASE Looks
  BY <1>1 DEF Looks
<1>2. CASE Intrudes
  <2>1. PICK k \in Ids, r \in RowOrNone :
          OutsideWrites(k, r) /\ (rows[k] # None \/ Unused(k))
    BY <1>2 DEF Intrudes
  <2>2. /\ rows' = [rows EXCEPT ![k] = r] /\ rows \in Table
        /\ UNCHANGED <<cache, fetch, ask, told>>
    BY <2>1, IntrudeWrites DEF Typed, TypeOK
  <2>3. \A i \in Ids : i # k => rows'[i] = rows[i]
    BY <2>2 DEF Table
  <2> QED BY <2>1, <2>2, <2>3
<1>3. CASE Poll \/ FetchFails \/ ReturnToPage
  BY <1>3 DEF Poll, FetchFails, ReturnToPage
<1>4. CASE ReadRows
  <2>1. fetch'.rows = rows /\ UNCHANGED <<rows, cache, told, ask>>
    BY <1>4 DEF ReadRows, Typed, TypeOK
  <2> QED BY <2>1
<1>5. CASE FetchAnswers
  BY <1>5 DEF FetchAnswers
<1> QED BY <1>1, <1>2, <1>3, <1>4, <1>5, BeginsMoves, AdvancesMoves, NextMoves
        DEF Fetches, Typed

\* Nobody who has seen row i sees it appear anew.
LEMMA NoReturn ==
  ASSUME Gone, Moves, NEW i \in Ids, rows[i] = None, rows'[i] # None
  PROVE  /\ i \notin told
         /\ \A s \in Slots : job[s] # None /\ job'[s] # None /\ i \in job[s].ids
                            => job[s].op = "create" /\ job'[s].todo = {}
<1>1. CASE Unused(i)
  BY <1>1 DEF Unused
<1>2. ASSUME NEW u \in Slots, Creates(u, i)
      PROVE  /\ i \notin told
             /\ \A s \in Slots : job[s] # None /\ job'[s] # None /\ i \in job[s].ids
                                => job[s].op = "create" /\ job'[s].todo = {}
  BY <1>2 DEF Creates, Gone, Creating, Unborn
<1> QED BY <1>1, <1>2 DEF Moves, RowsMove

LEMMA ToldStep ==
  ASSUME Typed, Gone, Moves
  PROVE  ToldIsGone'
<1> SUFFICES ASSUME NEW i \in told'
             PROVE  rows'[i] = None /\ (fetch'.step = "read" => fetch'.rows[i] = None)
  BY DEF ToldIsGone
<1>1. NoFetch.step = "none" /\ Asked.step = "asked"
  BY DEF NoFetch, Asked
<1>2. CASE i \in told
  <2>1. i \in Ids /\ rows[i] = None /\ (fetch.step = "read" => fetch.rows[i] = None)
    BY <1>2 DEF Typed, TypeOK, Gone, ToldIsGone
  <2>2. rows'[i] = None
    BY <1>2, <2>1, NoReturn
  <2> QED BY <1>1, <2>1, <2>2 DEF Moves, FetchMoves
<1>3. CASE i \notin told
  <2>1. PICK u \in Slots :
          /\ job[u] # None /\ job[u].op = "delete" /\ job[u].step = "sent"
          /\ ~ job[u].failed /\ job[u].todo = {}
          /\ told' = told \union job[u].ids
          /\ fetch' = Asked /\ rows' = rows
    BY <1>3 DEF Moves, ToldMoves
  <2>2. rows[i] = None
    BY <1>3, <2>1 DEF Gone, Deleting
  <2> QED BY <1>1, <2>1, <2>2
<1> QED BY <1>2, <1>3

LEMMA CreatingStep ==
  ASSUME Typed, Gone, Next
  PROVE  Creating'
<1> SUFFICES ASSUME NEW s \in Slots, job'[s] # None, job'[s].op = "create",
                    job'[s].todo # {}, NEW i \in job'[s].ids
             PROVE  /\ Unborn(i)'
                    /\ \A u \in Slots : job'[u] # None /\ u # s => i \notin job'[u].ids
  BY DEF Creating
<1>1. Moves /\ page' = page
  BY AllMoves, NextMoves DEF Typed
<1>2. Empty[i] = None \/ i \notin Ids
  BY EmptyTyped
<1>3. NoFetch.rows = Empty /\ Asked.rows = Empty
  BY DEF NoFetch, Asked
<1>4. ASSUME job[s] # None, job'[s].op = job[s].op, job'[s].ids = job[s].ids,
             job'[s].todo \subseteq job[s].todo
      PROVE  /\ i \in Ids /\ Unborn(i) /\ job[s].op = "create"
             /\ \A u \in Slots : job[u] # None /\ u # s => i \notin job[u].ids
             /\ rows'[i] = None /\ cache'[i] = None /\ fetch'.rows[i] = None
             /\ i \notin told' /\ i # ask'
  <2>1. /\ i \in Ids /\ Unborn(i) /\ job[s].op = "create"
        /\ \A u \in Slots : job[u] # None /\ u # s => i \notin job[u].ids
    BY <1>4 DEF Gone, Creating, Typed, TypeOK, Job
  <2>2. rows'[i] = None
    BY <1>1, <1>4, <2>1, NoReturn DEF Unborn
  <2>3. cache'[i] = None
    BY <1>1, <2>1 DEF Unborn, Moves, CacheMoves
  <2>4. fetch'.rows[i] = None
    BY <1>1, <1>2, <1>3, <2>1 DEF Unborn, Moves, FetchMoves
  <2>5. i \notin told'
    BY <1>1, <2>1 DEF Unborn, Moves, ToldMoves
  <2>6. i # ask'
    BY <1>1, <2>1, VisibleRows, ListAssumption DEF Unborn, Moves, AskMoves, Typed
  <2> QED BY <2>1, <2>2, <2>3, <2>4, <2>5, <2>6
<1>5. CASE JobsAge
  <2>1. Ages(s)
    BY <1>5 DEF JobsAge
  <2>2. /\ Unborn(i)
        /\ \A u \in Slots : job[u] # None /\ u # s => i \notin job[u].ids
        /\ rows'[i] = None /\ cache'[i] = None /\ fetch'.rows[i] = None
        /\ i \notin told' /\ i # ask'
    BY <1>4, <2>1 DEF Ages
  <2>3. \A u \in Slots : job'[u] # None => job'[u].prev[i] = None
    BY <1>5, <2>2 DEF JobsAge, Ages, Unborn
  <2>4. \A u \in Slots : job'[u] # None /\ u # s => i \notin job'[u].ids
    BY <1>5, <2>2 DEF JobsAge, Ages
  <2> QED BY <2>2, <2>3, <2>4 DEF Unborn
<1>6. CASE Begins
  <2>1. PICK v \in Slots, cancels \in BOOLEAN : \E kind, op, ids, tg, todo :
          BeginsWith(v, kind, op, ids, tg, todo, cancels)
    BY <1>6 DEF Begins
  <2>2. PICK kind, op, ids, tg, todo : BeginsWith(v, kind, op, ids, tg, todo, cancels)
    BY <2>1
  <2> DEFINE new == NewJob(kind, op, ids, tg, Promise(kind, op, ids, tg), todo)
  <2>3. /\ job'[v] = new
        /\ \A u \in Slots \ {v} : job'[u] \in {job[u], None}
        /\ cache' \in {cache, Promise(kind, op, ids, tg)}
        /\ fetch' \in {fetch, NoFetch}
        /\ rows' = rows /\ told' = told
    BY <2>2, BeginWrites DEF Typed
  <2>4. new.ids = ids /\ new.op = op /\ new.prev = cache
    BY DEF NewJob
  <2> HIDE DEF new
  <2>5. Sound(kind, op, ids, tg, todo) /\ ask' \in {ask, None}
    BY <2>2 DEF BeginsWith
  <2>6. CASE s # v
    <3>1. job'[s] = job[s]
      BY <2>3, <2>6
    <3>2. /\ i \in Ids /\ Unborn(i) /\ job[s].op = "create" /\ i \in job[s].ids
          /\ \A u \in Slots : job[u] # None /\ u # s => i \notin job[u].ids
          /\ rows'[i] = None /\ cache'[i] = None /\ fetch'.rows[i] = None
          /\ i \notin told' /\ i # ask'
      BY <1>4, <3>1
    <3>3. page # "tasks"
      BY <3>1, <3>2 DEF Typed, WellMade
    <3>4. i \notin ids
      <4>1. CASE op = "create"
        BY <2>5, <3>1, <3>2, <4>1 DEF Sound, Unused
      <4>2. CASE op # "create"
        <5>1. ids \subseteq Visible \union {ask}
          BY <2>5, <3>3, <4>2 DEF Sound
        <5>2. i \notin Visible /\ i # ask
          BY <3>2, VisibleRows DEF Unborn, Typed
        <5> QED BY <5>1, <5>2
      <4> QED BY <4>1, <4>2
    <3>5. \A u \in Slots : job'[u] # None => job'[u].prev[i] = None
      BY <2>3, <2>4, <3>2 DEF Unborn
    <3>6. \A u \in Slots : job'[u] # None /\ u # s => i \notin job'[u].ids
      BY <2>3, <2>4, <3>2, <3>4
    <3> QED BY <3>2, <3>5, <3>6 DEF Unborn
  <2>7. CASE s = v
    <3>1. op = "create" /\ i \in ids
      BY <2>3, <2>4, <2>7
    <3>2. Unused(i) /\ i \in Ids
      BY <2>5, <3>1 DEF Sound
    <3>3. Promise(kind, op, ids, tg)[i] = None
      BY <3>2 DEF Promise, Unused
    <3>4. rows'[i] = None /\ cache'[i] = None /\ fetch'.rows[i] = None
      BY <1>2, <1>3, <2>3, <3>2, <3>3 DEF Unused
    <3>5. i \notin told' /\ i # ask'
      BY <2>3, <2>5, <3>2, ListAssumption DEF Unused
    <3>6. \A u \in Slots : job'[u] # None => job'[u].prev[i] = None
      BY <2>3, <2>4, <3>2 DEF Unused
    <3>7. \A u \in Slots : job'[u] # None /\ u # s => i \notin job'[u].ids
      BY <2>3, <2>7, <3>2 DEF Unused
    <3> QED BY <3>4, <3>5, <3>6, <3>7 DEF Unborn
  <2> QED BY <2>6, <2>7
<1> QED BY <1>5, <1>6, NextMoves, OthersAge DEF Typed

\* A delete served has removed its rows.
LEMMA HandleDeletes ==
  ASSUME Typed, Gone, NEW s \in Slots, NEW R \in Requests(s), Handle(s, R),
         job'[s] # None, job'[s].op = "delete", ~ job'[s].failed,
         job'[s].step \in {"grace", "sent"}, NEW i \in job'[s].ids
  PROVE  i \in UNION job'[s].todo \/ rows'[i] = None
<1> DEFINE bad == Refused(job[s], R)
           j   == Answered(s, R, bad)
<1>1. /\ job[s] # None /\ job[s] \in Job /\ R \in job[s].todo /\ R \in SUBSET Ids
      /\ job[s].step \in {"sent", "late"} /\ bad \in BOOLEAN
      /\ job'[s] \in {j, None}
      /\ rows' = IF bad THEN rows ELSE Handled(job[s], R)
  BY HandleWrites DEF Typed
<1>2. /\ j.todo = job[s].todo \ {R} /\ j.failed = (job[s].failed \/ bad)
      /\ j.op = job[s].op /\ j.ids = job[s].ids /\ j.step = job[s].step
  BY <1>1, AnsweredTyped DEF Typed
<1> HIDE DEF j, bad
<1>3. job'[s] = j
  BY <1>1
<1>4. ~ (job[s].failed \/ bad)
  BY <1>2, <1>3
<1>5. /\ job'[s].todo = job[s].todo \ {R} /\ job[s].op = "delete"
      /\ i \in job[s].ids /\ job[s].step = "sent"
  BY <1>1, <1>2, <1>3
<1>6. i \in UNION job[s].todo \/ rows[i] = None
  BY <1>1, <1>4, <1>5 DEF Gone, Deleting
<1>7. i \in Ids /\ rows' = Handled(job[s], R)
  BY <1>1, <1>4, <1>5 DEF Job
<1>8. CASE i \in R
  <2>1. rows'[i] = IF rows[i] # None THEN Served("delete", job[s].tags[i], rows[i])
                   ELSE rows[i]
    BY <1>1, <1>5, <1>7, <1>8, HandledTyped DEF Typed
  <2> QED BY <2>1 DEF Served
<1>9. CASE i \notin R
  <2>1. rows'[i] = rows[i]
    BY <1>1, <1>7, <1>9, HandledTyped DEF Typed
  <2> QED BY <1>5, <1>6, <1>9, <2>1
<1> QED BY <1>8, <1>9

\* The step, failures and requests of a change that nobody answers.
Waits(s) ==
  job'[s] # None /\ job'[s].step \in {"grace", "sent"} /\ ~ job'[s].failed =>
    /\ job[s] # None /\ job[s].step \in {"grace", "sent"} /\ ~ job[s].failed
    /\ job'[s].op = job[s].op /\ job'[s].ids = job[s].ids /\ job'[s].todo = job[s].todo

LEMMA WaitsDeleting ==
  ASSUME Typed, Gone, Moves, NEW s \in Slots, Waits(s),
         job'[s] # None, job'[s].op = "delete", ~ job'[s].failed,
         job'[s].step \in {"grace", "sent"}, NEW i \in job'[s].ids
  PROVE  i \in UNION job'[s].todo \/ rows'[i] = None
<1>1. /\ job[s] # None /\ job[s].step \in {"grace", "sent"} /\ ~ job[s].failed
      /\ job[s].op = "delete" /\ i \in job[s].ids /\ job'[s].todo = job[s].todo
  BY DEF Waits
<1>2. i \in UNION job[s].todo \/ rows[i] = None
  BY <1>1 DEF Gone, Deleting
<1>3. i \in Ids
  BY <1>1 DEF Typed, TypeOK, Job
<1>4. rows[i] = None => rows'[i] = None
  BY <1>1, <1>3, NoReturn
<1> QED BY <1>1, <1>2, <1>4

LEMMA SameWaits ==
  ASSUME NEW s, job'[s] \in {job[s], None}
  PROVE  Waits(s)
  BY DEF Waits

LEMMA DisturbedWaits ==
  ASSUME TypeOK, NEW R, NEW u, Disturbs(R, u), NEW s \in Slots, u # s
  PROVE  Waits(s)
<1>1. CASE job[s] # None /\ job[s].ids \intersect R # {}
  <2>1. job'[s] = [job[s] EXCEPT !.clean = FALSE] /\ job[s] \in Job
    BY <1>1 DEF Disturbs, TypeOK
  <2> QED BY <1>1, <2>1 DEF Waits, Job
<1>2. CASE ~ (job[s] # None /\ job[s].ids \intersect R # {})
  <2>1. job'[s] = job[s]
    BY <1>2 DEF Disturbs
  <2> QED BY <2>1, SameWaits
<1> QED BY <1>1, <1>2

LEMMA DeletingStep ==
  ASSUME Typed, Gone, Next
  PROVE  Deleting'
<1> SUFFICES ASSUME NEW s \in Slots, job'[s] # None, job'[s].op = "delete",
                    job'[s].step \in {"grace", "sent"}, ~ job'[s].failed,
                    NEW i \in job'[s].ids
             PROVE  i \in UNION job'[s].todo \/ rows'[i] = None
  BY DEF Deleting
<1>1. ASSUME Waits(s) PROVE i \in UNION job'[s].todo \/ rows'[i] = None
  BY <1>1, AllMoves, WaitsDeleting
<1>2. CASE Begins
  <2>1. PICK v \in Slots, cancels \in BOOLEAN : \E kind, op, ids, tg, todo :
          BeginsWith(v, kind, op, ids, tg, todo, cancels)
    BY <1>2 DEF Begins
  <2>2. PICK kind, op, ids, tg, todo : BeginsWith(v, kind, op, ids, tg, todo, cancels)
    BY <2>1
  <2>3. /\ job'[v] = NewJob(kind, op, ids, tg, Promise(kind, op, ids, tg), todo)
        /\ s # v => job'[s] \in {job[s], None}
    BY <2>2, BeginWrites DEF Typed
  <2>4. job'[v].ids = ids /\ job'[v].todo = todo
    BY <2>3 DEF NewJob
  <2>5. UNION todo = ids
    BY <2>2 DEF BeginsWith, Sound
  <2> QED BY <1>1, <2>3, <2>4, <2>5, SameWaits
<1>3. CASE Looks
  BY <1>1, <1>3, SameWaits DEF Looks
<1>4. CASE Intrudes
  <2>1. PICK k \in Ids, r \in RowOrNone : OutsideWrites(k, r)
    BY <1>4 DEF Intrudes
  <2>2. Disturbs({k}, None) /\ s # None
    BY <2>1, IntrudeWrites, ListAssumption DEF Typed
  <2> QED BY <1>1, <2>2, DisturbedWaits DEF Typed
<1>5. CASE Fetches
  <2>1. job' \in {job, Refetched}
    BY <1>5 DEF Fetches, Poll, ReadRows, FetchAnswers, FetchFails, ReturnToPage
  <2> QED BY <1>1, <2>1, RefetchedJobs, SameWaits DEF Typed
<1>6. ASSUME NEW u \in Slots, Advances(u)
      PROVE  i \in UNION job'[s].todo \/ rows'[i] = None
  <2>1. ASSUME Alone(u), u # s PROVE Waits(s)
    BY <2>1, SameWaits DEF Alone
  <2>2. ASSUME NEW R \in Requests(u), Handle(u, R)
        PROVE  i \in UNION job'[s].todo \/ rows'[i] = None
    <3>1. Disturbs(R, u)
      BY <2>2, HandleWrites DEF Typed
    <3> QED BY <1>1, <2>2, <3>1, HandleDeletes, DisturbedWaits DEF Typed
  <2>3. ASSUME NEW R \in Requests(u), RequestFails(u, R) PROVE Waits(s)
    <3>1. Disturbs(R, u) /\ job'[u] = Answered(u, R, TRUE) /\ job[u] \in Job
      BY <2>3, FailWrites DEF Typed
    <3>2. job'[u].failed
      BY <3>1 DEF Answered, Job
    <3> QED BY <3>1, <3>2, DisturbedWaits DEF Typed
  <2>4. CASE Settles(u)
    <3>1. /\ job[u] \in Job /\ Alone(u)
          /\ job'[u] \in {None, [job[u] EXCEPT !.step = "late"],
                                [job[u] EXCEPT !.step = "refetching"]}
      BY <2>4, SettleWrites DEF Typed
    <3>2. Waits(u)
      BY <3>1 DEF Waits, Job
    <3> QED BY <1>1, <2>1, <3>1, <3>2
  <2>5. CASE GraceEnds(u)
    <3>1. /\ job[u] # None /\ job[u] \in Job /\ Alone(u) /\ job[u].step = "grace"
          /\ job'[u] \in {None, [job[u] EXCEPT !.step = "sent"]}
      BY <2>5, GraceWrites DEF Typed
    <3>2. Waits(u)
      BY <3>1 DEF Waits, Job
    <3> QED BY <1>1, <2>1, <3>1, <3>2
  <2>6. CASE ToastGoes(u)
    <3>1. /\ job[u] # None /\ job[u] \in Job /\ Alone(u)
          /\ job'[u] = [job[u] EXCEPT !.toast = FALSE]
      BY <2>6, ToastWrites DEF Typed
    <3>2. Waits(u)
      BY <3>1 DEF Waits, Job
    <3> QED BY <1>1, <2>1, <3>1, <3>2
  <2>7. CASE ClickUndo(u)
    <3>1. /\ job[u] # None /\ job[u] \in Job /\ Alone(u)
          /\ job'[u] = [job[u] EXCEPT !.toast = FALSE, !.undone = job[u].step = "grace"]
      BY <2>7, UndoWrites DEF Typed
    <3>2. Waits(u)
      BY <3>1 DEF Waits, Job
    <3> QED BY <1>1, <2>1, <3>1, <3>2
  <2> QED BY <1>1, <1>6, <2>2, <2>3, <2>4, <2>5, <2>6, <2>7 DEF Advances
<1> QED BY <1>2, <1>3, <1>4, <1>5, <1>6, NextMoves DEF Typed

LEMMA GoneStep ==
  ASSUME Typed, Gone, [Next]_vars
  PROVE  Gone'
<1>1. CASE UNCHANGED vars
  BY <1>1 DEF vars, Gone, Deleting, Creating, Unborn, ToldIsGone
<1> QED BY <1>1, AllMoves, DeletingStep, CreatingStep, ToldStep DEF Gone

LEMMA GoneAlways == Spec => []Gone
<1>1. Init => Gone
  BY DEF Init, Gone, Deleting, Creating, ToldIsGone
<1> QED BY <1>1, TypedAlways, GoneStep, PTL DEF Spec

(* What the page was told is deleted is shown again by nothing but a cache  *)
(* that an undo or a failure restores: the fetches that had read the table  *)
(* before are replaced, and no request brings the row back.                 *)
THEOREM GoneHidden == Spec => GoneStaysHidden
<1> DEFINE Step == \A i \in told :
              cache[i] = None /\ cache'[i] # None
                => \E s \in Slots : job[s] # None /\ job'[s] # job[s] /\ cache' = job[s].prev
<1>1. Typed /\ Gone /\ [Next]_vars => [Step]_vars
  <2> SUFFICES ASSUME Typed, Gone, Next, NEW i \in told, cache[i] = None, cache'[i] # None
               PROVE  \E s \in Slots :
                        job[s] # None /\ job'[s] # job[s] /\ cache' = job[s].prev
    OBVIOUS
  <2>1. i \in Ids /\ (fetch.step = "read" => fetch.rows[i] = None)
    BY DEF Typed, TypeOK, Gone, ToldIsGone
  <2> QED BY <2>1, AllMoves DEF Moves, CacheMoves
<1> HIDE DEF Step
<1>2. Spec => [][Step]_vars
  BY <1>1, TypedAlways, GoneAlways, PTL DEF Spec
<1>3. [][Step]_vars <=> GoneStaysHidden
  BY DEF Step, GoneStaysHidden
<1> QED BY <1>2, <1>3
=============================================================================
