--------------------------- MODULE OptimisticList ---------------------------
(***************************************************************************)
(* A page that lists rows of the server and changes them, most of them     *)
(* optimistically: what pages/Tasks.tsx, Agents.tsx, Schedules.tsx,        *)
(* Users.tsx and PublicTargetsAdmin.tsx share.                             *)
(*                                                                         *)
(* The list is a query of TanStack Query: a cache, at most one fetch under *)
(* way, an interval that refetches.  A click changes the cache at once and *)
(* sends its requests, or, for an undoable delete, starts a grace timer    *)
(* first; when the answers are in, the page keeps the change or restores   *)
(* the cache it remembered, and refetches.  Requests of several clicks,    *)
(* fetches and the work of others interleave.                              *)
(***************************************************************************)
EXTENDS Integers, FiniteSets

CONSTANTS
  None,        \* no row, no job, no draft, no question
  Ids,         \* rows that may ever exist
  Hits,        \* rows that match the search text
  Tags,        \* tags an agent may carry
  Tidy,        \* Tidy[t]: tag t trimmed and in lower case; None if it is
               \* empty or longer than 32
  Labels,      \* roles of users, labels of public targets
  Me,          \* the row of the signed-in user, among users
  Chips,       \* statuses the toolbar filters by
  Fresh,       \* bound, per page: the rows that may still be created
  Slots,       \* bound: changes of the page under way at a time
  Budget       \* bound, per page: changes, filters and departures of the user,
               \* writes by anyone else, requests that get no answer

ASSUME ListAssumption ==
  /\ Hits \subseteq Ids
  /\ Slots \subseteq Nat
  /\ None \notin Ids \union Slots
  /\ Tidy \in [Tags -> Tags \union {None}]
  /\ \A p \in DOMAIN Budget : Budget[p] \in Nat

VARIABLES
  page,      \* which page it is
  role,      \* the signed-in user's role
  mounted,   \* the page is on screen
  filter,    \* which rows the toolbar lets through
  rows,      \* the server's table
  cache,     \* the query's data
  fetch,     \* the query's fetch under way
  selected,  \* ticked rows
  draft,     \* what a row's edit form holds: tags, a role, a label
  ask,       \* the question of the confirm dialog
  job,       \* the page's changes under way
  told,      \* history: rows whose deletion was confirmed while on screen
  budget     \* what is left of Budget

vars == <<page, role, mounted, filter, rows, cache, fetch, selected, draft, ask, job,
          told, budget>>

Statuses == {"live", "done", "pending", "active", "disabled", "rejected",
             "enabled", "paused"}
\* The pages with a toolbar and an interval.
Polled == {"tasks", "agents", "schedules"}

\* tags: what the row's form edits.
Row(st, tg) == [status |-> st, tags |-> tg]
Empty    == [i \in Ids |-> None]
NoFetch  == [step |-> "none", rows |-> Empty]
Asked    == [step |-> "asked", rows |-> Empty]
Filters  == {"all", "search"} \union Chips

Passes(f, i, r) == f = "all" \/ (f = "search" /\ i \in Hits) \/ f = r.status
Shown(c, f)     == {i \in Ids : c[i] # None /\ Passes(f, i, c[i])}
Visible         == IF mounted THEN Shown(cache, filter) ELSE {}

\* mutant: ticks outlive the rows they were set on
KeepTicks(sel, dr) ==
  /\ selected' = sel
  /\ draft' = [i \in Ids |-> IF mounted' /\ i \in Shown(cache', filter')
                             THEN dr[i] ELSE None]

\* A render drops ticks of rows that are no longer shown; a row that leaves
\* the screen takes its edit form along.  The rows of users and targets fill
\* their form when they appear, and never again.
Render(sel, dr) ==
  LET on == IF mounted' THEN Shown(cache', filter') ELSE {}
  IN /\ selected' = sel \intersect on
     /\ draft' = [i \in Ids |-> IF i \notin on THEN None
                                ELSE IF dr[i] = None /\ page \notin Polled
                                     THEN cache'[i].tags
                                ELSE dr[i]]

\* One of the bounded events.
Act == budget > 0 /\ budget' = budget - 1

-----------------------------------------------------------------------------
(* The query: TanStack Query as the pages use it.                          *)

\* A mutation whose onSettled waits for the refetch ends with it.
Refetched == [s \in Slots |-> IF job[s] # None /\ job[s].step = "refetching"
                              THEN None ELSE job[s]]

\* mutant: the interval runs only while a change of the page is under way
PollWhenBusy ==
  /\ mounted
  /\ fetch.step = "none"
  /\ \E s \in Slots : job[s] # None
  /\ fetch' = Asked
  /\ UNCHANGED <<role, mounted, filter, rows, cache, selected, draft, ask, job,
                 told, budget>>

\* The interval.
Poll ==
  /\ page \in Polled
  /\ mounted
  /\ fetch.step = "none"
  /\ fetch' = Asked
  /\ UNCHANGED <<role, mounted, filter, rows, cache, selected, draft, ask, job,
                 told, budget>>

\* The server reads the table.
ReadRows ==
  /\ fetch.step = "asked"
  /\ fetch' = [fetch EXCEPT !.step = "read", !.rows = rows]
  /\ UNCHANGED <<role, mounted, filter, rows, cache, selected, draft, ask, job,
                 told, budget>>

\* An answer replaces the cache, whatever a click has written there since.
FetchAnswers ==
  /\ fetch.step = "read"
  /\ cache' = fetch.rows
  /\ fetch' = NoFetch
  /\ job' = Refetched
  /\ UNCHANGED <<role, mounted, filter, rows, ask, told, budget>>
  /\ Render(selected, draft)

FetchFails ==
  /\ Act
  /\ fetch.step # "none"
  /\ fetch' = NoFetch
  /\ job' = Refetched
  /\ UNCHANGED <<role, mounted, filter, rows, cache, selected, draft, ask, told>>

-----------------------------------------------------------------------------
(* The server's handlers.                                                  *)

Refuses(j, i) ==
  \/ j.op = "delete" /\ rows[i].status = "live"
  \/ j.op \in {"active", "disabled"} /\ rows[i].status \in {"pending", "rejected"}
  \/ page = "users" /\ i = Me /\ j.op = "save" /\ "admin" \notin j.tags[i]

\* AgentUpdateRequest tidies the tags it is sent; other requests do not.
Tidied(tg) == (tg \ Tags) \union ({Tidy[t] : t \in tg \intersect Tags} \ {None})

Served(op, tg, r) ==
  CASE op = "delete"  -> None
    [] op = "create"  -> Row("enabled", tg)
    [] op = "approve" -> Row("active", tg)
    [] op = "reject"  -> [r EXCEPT !.status = "rejected"]
    [] op \in {"active", "disabled", "enabled", "paused"} -> [r EXCEPT !.status = op]
    [] op \in {"save", "tag"} -> [r EXCEPT !.tags = Tidied(tg)]
    [] op \in {"trigger", "geo"} -> r

\* What the request for the rows R finds and does; one request may name a
\* whole group, which is refused when any of its tasks is live.
Found(j, R)   == {i \in R : rows[i] # None \/ j.op = "create"}
Refused(j, R) == Found(j, R) = {} \/ \E i \in Found(j, R) : Refuses(j, i)
Handled(j, R) == [i \in Ids |-> IF i \in Found(j, R)
                                THEN Served(j.op, j.tags[i], rows[i]) ELSE rows[i]]

\* Someone else has written these rows: what a click foretold is void.
Disturb(jobs, R, s) ==
  [u \in Slots |-> IF jobs[u] # None /\ u # s /\ jobs[u].ids \intersect R # {}
                   THEN [jobs[u] EXCEPT !.clean = FALSE] ELSE jobs[u]]

\* A request of job s is answered.
Handle(s, R) ==
  /\ job[s] # None
  /\ job[s].step \in {"sent", "late"}
  /\ R \in job[s].todo
  /\ LET bad == Refused(job[s], R)
         j   == [job[s] EXCEPT !.todo = @ \ {R}, !.failed = @ \/ bad]
     IN /\ rows' = IF bad THEN rows ELSE Handled(job[s], R)
        /\ job' = Disturb([job EXCEPT ![s] = IF j.step = "late" /\ j.todo = {}
                                             THEN None ELSE j], R, s)
  /\ UNCHANGED <<role, mounted, filter, cache, fetch, selected, draft, ask, told,
                 budget>>

\* A request gets no answer; the server may have done what it asked.
RequestFails(s, R) ==
  /\ Act
  /\ job[s] # None
  /\ job[s].step = "sent"
  /\ R \in job[s].todo
  /\ job' = Disturb([job EXCEPT ![s].todo = @ \ {R}, ![s].failed = TRUE], R, s)
  /\ rows' \in {rows} \union IF Refused(job[s], R) THEN {} ELSE {Handled(job[s], R)}
  /\ UNCHANGED <<role, mounted, filter, cache, fetch, selected, draft, ask, told>>

-----------------------------------------------------------------------------
(* Clicks.                                                                 *)

\* The user may click: nothing covers the page, and there is a change to come.
Clickable == mounted /\ ask = None /\ budget > 0
Busy(op, i) == \E s \in Slots : job[s] # None /\ job[s].kind \in {"mutation", "plain"}
                                /\ job[s].op = op /\ i \in job[s].ids

FreeSlot(s) == job[s] = None /\ \A u \in Slots : job[u] = None => s <= u
Soft == {"undo", "undoAll"}
NoTags == [i \in Ids |-> {}]
Each(ids) == {{i} : i \in ids}

NewJob(kind, op, ids, tg, promise, todo) ==
  [kind |-> kind, op |-> op, ids |-> ids, tags |-> tg, promise |-> promise,
   prev |-> cache, step |-> IF kind \in Soft THEN "grace" ELSE "sent",
   todo |-> todo, failed |-> FALSE, toast |-> kind \in Soft, undone |-> FALSE,
   clean |-> \A i \in ids : cache[i] = rows[i]]

\* mutant: the preview of an edit keeps the tags taken away
PatchedMerges(op, tg, r) ==
  CASE op = "delete"  -> None
    [] op = "reject"  -> [r EXCEPT !.status = "rejected"]
    [] op = "approve" -> [r EXCEPT !.status = "active", !.tags = @ \union tg]
    [] op \in {"save", "tag"} -> [r EXCEPT !.tags = @ \union tg]
    [] OTHER          -> [r EXCEPT !.status = op]

\* The row as the page shows it before the server has answered: the updaters
\* that the pages hand to setQueryData.
Patched(op, tg, r) ==
  CASE op = "delete"  -> None
    [] op = "reject"  -> [r EXCEPT !.status = "rejected"]
    [] op = "approve" -> [r EXCEPT !.status = "active", !.tags = @ \union tg]
    [] op \in {"save", "tag"} -> [r EXCEPT !.tags = tg]
    [] OTHER          -> [r EXCEPT !.status = op]

\* A change begins: its preview is written to the cache, and the fetch under
\* way is cancelled or not.  The bulk changes await cancelQueries first, but
\* that ends before the event loop turns again: nothing comes in between.
Begin(s, kind, op, ids, tg, todo, cancels) ==
  LET promise == [i \in Ids |-> IF kind # "plain" /\ i \in ids /\ cache[i] # None
                                THEN Patched(op, tg[i], cache[i]) ELSE cache[i]]
  IN /\ FreeSlot(s)
     /\ Act
     /\ cache' = promise
     /\ job' = [(IF cancels THEN Refetched ELSE job) EXCEPT
                  ![s] = NewJob(kind, op, ids, tg, promise, todo)]
     /\ fetch' = IF cancels THEN NoFetch ELSE fetch
     /\ UNCHANGED <<role, mounted, filter, rows, told>>

\* cancelQueries, setQueryData, and the requests are sent.
Optimistic(s, kind, op, ids, tg) == Begin(s, kind, op, ids, tg, Each(ids), TRUE)

\* A request without a preview.
Plain(s, op, i, tg) ==
  Begin(s, "plain", op, {i}, [NoTags EXCEPT ![i] = tg], {{i}}, FALSE)

\* A click on the page that begins a change, and the render after it.
Click(change, sel) ==
  /\ Clickable
  /\ change
  /\ UNCHANGED ask
  /\ Render(sel, draft)

\* mutant: nothing is refetched
SettlesNoRefetch(s) ==
  /\ job[s] # None
  /\ job[s].step = "sent"
  /\ job[s].todo = {} \/ (job[s].kind = "bulk" /\ job[s].failed)
  /\ ~ job[s].toast
  /\ cache' = IF job[s].failed /\ job[s].kind # "plain" THEN job[s].prev ELSE cache
  /\ told' = told \union IF job[s].op = "delete" /\ ~ job[s].failed
                         THEN job[s].ids ELSE {}
  /\ job' = [job EXCEPT ![s] = IF job[s].todo = {} THEN None
                               ELSE [@ EXCEPT !.step = "late"]]
  /\ UNCHANGED <<role, mounted, filter, rows, fetch, ask, budget>>
  /\ Render(selected, draft)

\* The page has its answers.  Promise.all rejects with the first refusal, the
\* other requests still under way.  A failure restores the remembered cache
\* as a whole.  The refetch is forced, except after some failures; a page that
\* is gone does not fetch.
Settles(s) ==
  /\ job[s] # None
  /\ job[s].step = "sent"
  /\ job[s].todo = {} \/ (job[s].kind = "bulk" /\ job[s].failed)
  /\ ~ job[s].toast
  /\ UNCHANGED <<role, mounted, filter, rows, ask, budget>>
  /\ LET j == job[s]
         refetch == /\ mounted
                    /\ \/ ~ j.failed
                       \/ IF j.kind = "plain" THEN j.op = "trigger" ELSE j.kind # "undo"
     IN /\ cache' = IF j.failed /\ j.kind # "plain" THEN j.prev ELSE cache
        /\ told' = told \union IF mounted /\ j.op = "delete" /\ ~ j.failed THEN j.ids ELSE {}
        /\ fetch' = IF refetch THEN Asked ELSE fetch
        /\ job' = [job EXCEPT ![s] =
                     IF j.todo # {} THEN [j EXCEPT !.step = "late"]
                     ELSE IF refetch /\ j.kind = "mutation"
                          THEN [j EXCEPT !.step = "refetching"]
                     ELSE None]
        /\ Render(selected, IF j.kind = "mutation" /\ j.op = "save" /\ ~ j.failed
                            THEN [i \in Ids |-> IF i \in j.ids THEN None ELSE draft[i]]
                            ELSE draft)

-----------------------------------------------------------------------------
(* Undoable deletes: hooks/useUndoable.ts and the toast that offers Undo.  *)

\* The preview hides the rows; nothing is sent before the grace is over.  One
\* request per row, all of which are awaited, or one request alone.
Undoable(s, kind, ids, todo, cancels) ==
  Begin(s, kind, "delete", ids, NoTags, todo, cancels)

\* mutant: the timer sends what was undone
GraceEndsAnyway(s) ==
  /\ job[s] # None
  /\ job[s].step = "grace"
  /\ job' = [job EXCEPT ![s].step = "sent"]
  /\ UNCHANGED <<role, mounted, filter, rows, cache, fetch, selected, draft, ask,
                 told, budget>>

\* The timer's callback does nothing for a change that was undone.
GraceEnds(s) ==
  /\ job[s] # None
  /\ job[s].step = "grace"
  /\ job' = [job EXCEPT ![s] = IF @.undone THEN None ELSE [@ EXCEPT !.step = "sent"]]
  /\ UNCHANGED <<role, mounted, filter, rows, cache, fetch, selected, draft, ask,
                 told, budget>>

\* Undo restores the remembered cache and marks the delete as cancelled, which
\* is too late when its timer has just fired, a render before the toast's own.
ClickUndo(s) ==
  /\ job[s] # None
  /\ job[s].toast
  /\ cache' = job[s].prev
  /\ job' = [job EXCEPT ![s] = [job[s] EXCEPT
                  !.toast = FALSE, !.undone = job[s].step = "grace"]]
  /\ UNCHANGED <<role, mounted, filter, rows, fetch, ask, told, budget>>
  /\ Render(selected, draft)

\* The toast is dismissed by its cross or its timer.
ToastGoes(s) ==
  /\ job[s] # None
  /\ job[s].toast
  /\ job' = [job EXCEPT ![s].toast = FALSE]
  /\ UNCHANGED <<role, mounted, filter, rows, cache, fetch, selected, draft, ask,
                 told, budget>>

-----------------------------------------------------------------------------
(* The toolbar, the selection, the confirm dialog, the router.             *)

\* Search box, chips, a saved view, "clear filters".
ChangeFilter ==
  /\ page \in Polled
  /\ Clickable
  /\ Act
  /\ filter' \in Filters
  /\ UNCHANGED <<role, mounted, rows, cache, fetch, ask, job, told>>
  /\ Render(selected, draft)

Select(ids) ==
  /\ Clickable
  /\ UNCHANGED <<role, mounted, filter, rows, cache, fetch, ask, job, told, budget>>
  /\ Render(ids, draft)

\* Typing into the edit form of a row.
SetDraft(i, d) ==
  /\ Clickable
  /\ draft' = [draft EXCEPT ![i] = d]
  /\ UNCHANGED <<role, mounted, filter, rows, cache, fetch, selected, ask, job,
                 told>>

\* BulkActionBar: select all rows shown, or none.
SelectAll == selected # {} /\ selected # Visible /\ Select(Visible)
ClearSelection == selected # {} /\ Select({})

\* The promise of confirm(): the dialog covers the page until it is answered.
Question(i) ==
  /\ Clickable
  /\ ask' = i
  /\ UNCHANGED <<role, mounted, filter, rows, cache, fetch, selected, draft, job,
                 told, budget>>

\* The button or Enter; then the change the question was about.
Confirmed(s) ==
  /\ ask # None
  /\ ask' = None
  /\ IF page \in Polled THEN Optimistic(s, "mutation", "delete", {ask}, NoTags)
     ELSE Plain(s, "delete", ask, {})
  /\ Render(selected, draft)

\* Cancel, Escape or a click beside the dialog.
Declined ==
  /\ ask # None
  /\ ask' = None
  /\ UNCHANGED <<role, mounted, filter, rows, cache, fetch, selected, draft, job,
                 told, budget>>

\* Another route; timers, requests and the cache live on.
LeavePage ==
  /\ mounted
  /\ Act
  /\ mounted' = FALSE
  /\ UNCHANGED <<role, filter, rows, cache, fetch, ask, job, told>>
  /\ Render(selected, draft)

\* The filters are in the address: "back" brings them back, a link does not.
ReturnToPage ==
  /\ ~ mounted
  /\ mounted' = TRUE
  /\ filter' \in {filter, "all"}
  /\ fetch' = IF fetch.step = "none" THEN Asked ELSE fetch
  /\ UNCHANGED <<role, rows, cache, ask, job, told, budget>>
  /\ Render({}, Empty)

\* An identifier nothing knows: they are random and never given out twice.
Unused(i) ==
  /\ i \in Fresh[page]
  /\ rows[i] = None /\ cache[i] = None /\ fetch.rows[i] = None
  /\ i \notin told /\ i # ask
  /\ \A s \in Slots : job[s] # None => i \notin job[s].ids /\ job[s].prev[i] = None

\* Anyone else writes row i.
OutsideWrites(i, r) ==
  /\ Act
  /\ rows' = [rows EXCEPT ![i] = r]
  /\ job' = Disturb(job, {i}, None)
  /\ UNCHANGED <<role, mounted, filter, cache, fetch, selected, draft, ask, told>>
=============================================================================
