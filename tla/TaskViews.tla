------------------------------ MODULE TaskViews ------------------------------
(***************************************************************************)
(* The pages that follow tasks: pages/TaskDetail.tsx shows one task of a   *)
(* group, pages/TaskGroup.tsx the whole group.  Each polls its query until *)
(* everything it shows has ended, cancels and deletes, and goes to the     *)
(* list when what it shows is deleted.  A page in a hidden tab does not    *)
(* poll.  Other users and the agents change the same tasks.                *)
(***************************************************************************)
EXTENDS Integers, Sequences, FiniteSets, SequencesExt

CONSTANTS
  None,      \* no row, no data, no request, no question
  Tasks,     \* the tasks of one group
  Details,   \* those whose page is visited
  Slots      \* bound: requests of the pages under way at a time

ASSUME ViewsAssumption ==
  /\ Details \subseteq Tasks
  /\ Slots \subseteq Nat
  /\ None \notin {"live", "completed", "failed", "cancelled"}

VARIABLES
  role,      \* the user's role
  task,      \* the server's rows: a status, or None
  failed,    \* failed tasks in the order they finished
  visible,   \* the tab is in front
  route,     \* the page on screen
  data,      \* each page's query data
  fetch,     \* each page's fetch under way
  wrong,     \* each page's query is in error
  ask,       \* the page the confirm dialog asks about
  call,      \* requests of the pages
  budget     \* bounds, per kind: clicks on the pages, requests that get no
             \* answer, deeds of other users, changes of tab, of the settings
             \* and of the agents

viewVars == <<role, task, failed, visible, route, data, fetch, wrong, ask, call,
              budget>>

Statuses == {"live", "completed", "failed", "cancelled"}
Terminal == Statuses \ {"live"}
Kinds    == {"clicks", "lost", "others", "tab", "bell", "agents", "looks"}
Views    == {"group"} \union Details
Routes   == Views \union {"list", "dashboard"}
Shows(p) == IF p = "group" THEN Tasks ELSE {p}
NoFetch  == [step |-> "none", rows |-> None]
Asked    == [step |-> "asked", rows |-> None]

\* One of the bounded events.
Act(kind) == budget[kind] > 0 /\ budget' = [budget EXCEPT ![kind] = @ - 1]

ViewsInit ==
  /\ failed = <<>>
  /\ visible = TRUE
  /\ data = [p \in Views |-> None]
  /\ fetch = [p \in Views |-> NoFetch]
  /\ wrong = [p \in Views |-> FALSE]
  /\ ask = None
  /\ call = [s \in Slots |-> None]

-----------------------------------------------------------------------------
(* The rows.                                                               *)

Finish(t, st) ==
  /\ task[t] = "live"
  /\ task' = [task EXCEPT ![t] = st]
  /\ failed' = IF st = "failed" THEN <<t>> \o failed ELSE failed

\* The agent reports, or the watchdog gives up.
Settle(t) ==
  /\ \E st \in {"completed", "failed"} : Finish(t, st)
  /\ UNCHANGED <<role, visible, route, data, fetch, wrong, ask, call, budget>>

\* Another user cancels a task, or deletes one that has ended.
Others(t) ==
  /\ Act("others")
  /\ \/ Finish(t, "cancelled")
     \/ /\ task[t] \in Terminal
        /\ task' = [task EXCEPT ![t] = None]
        /\ UNCHANGED failed
  /\ UNCHANGED <<role, visible, route, data, fetch, wrong, ask, call>>

\* The handlers of a cancel and of the two deletes.
Existing(c) == {t \in c.ids : task[t] # None}
Verdict(c) ==
  CASE role = "viewer"                                   -> "role"
    [] role # "viewer" /\ Existing(c) = {}               -> "gone"
    [] role # "viewer" /\ Existing(c) # {}               ->
         IF c.op = "cancel"
         THEN IF \A t \in c.ids : task[t] = "live" THEN "ok" ELSE "ended"
         ELSE IF \E t \in Existing(c) : task[t] = "live" THEN "live" ELSE "ok"

Applied(c) ==
  [t \in Tasks |-> IF t \notin Existing(c) THEN task[t]
                   ELSE IF c.op = "cancel" THEN "cancelled" ELSE None]

Handle(s) ==
  /\ call[s] # None
  /\ call[s].answer = None
  /\ LET v == Verdict(call[s])
     IN /\ call' = [call EXCEPT ![s].answer = v]
        /\ task' = IF v = "ok" THEN Applied(call[s]) ELSE task
  /\ UNCHANGED <<role, failed, visible, route, data, fetch, wrong, ask, budget>>

\* No answer; the server may have done what was asked.
CallFails(s) ==
  /\ Act("lost")
  /\ call[s] # None
  /\ call[s].answer \in {None, "ok"}
  /\ call' = [call EXCEPT ![s].answer = "lost"]
  /\ UNCHANGED <<role, task, failed, visible, route, data, fetch, wrong, ask>>

-----------------------------------------------------------------------------
(* A page's query.                                                         *)

ShownLive(p) == {t \in Shows(p) : data[p] # None /\ data[p][t] = "live"}
ShownOver(p) == data[p] # None /\ ShownLive(p) = {}

\* mutant: a group's page polls until one of its tasks has ended
WantsUntilOne(p) == data[p] = None \/ ShownLive(p) = Shows(p)

\* refetchInterval
Wants(p) == data[p] = None \/ ShownLive(p) # {}

\* The interval fires, in a tab that is in front.
Poll(p) ==
  /\ route = p
  /\ visible
  /\ fetch[p].step = "none"
  /\ Wants(p)
  /\ fetch' = [fetch EXCEPT ![p] = Asked]
  /\ UNCHANGED <<role, task, failed, visible, route, data, wrong, ask, call, budget>>

ReadTasks(p) ==
  /\ fetch[p].step = "asked"
  /\ fetch' = [fetch EXCEPT ![p] = [step |-> "read", rows |-> [t \in Shows(p) |-> task[t]]]]
  /\ UNCHANGED <<role, task, failed, visible, route, data, wrong, ask, call, budget>>

\* Nothing left to show is a 404, which leaves the data as it was.
FetchAnswers(p) ==
  /\ fetch[p].step = "read"
  /\ fetch' = [fetch EXCEPT ![p] = NoFetch]
  /\ LET found == \E t \in Shows(p) : fetch[p].rows[t] # None
     IN /\ data' = IF found THEN [data EXCEPT ![p] = fetch[p].rows] ELSE data
        /\ wrong' = [wrong EXCEPT ![p] = ~ found]
  /\ UNCHANGED <<role, task, failed, visible, route, ask, call, budget>>

FetchFails(p) ==
  /\ Act("lost")
  /\ fetch[p].step # "none"
  /\ fetch' = [fetch EXCEPT ![p] = NoFetch]
  /\ wrong' = [wrong EXCEPT ![p] = TRUE]
  /\ UNCHANGED <<role, task, failed, visible, route, data, ask, call>>

-----------------------------------------------------------------------------
(* Clicks and answers.                                                     *)

\* A page that is left forgets which of its requests are under way, not the
\* requests; a page that opens shows what is cached and fetches.
GoTo(r, calls, f) ==
  /\ route' = r
  /\ call' = [s \in Slots |-> IF calls[s] = None THEN None
                              ELSE [calls[s] EXCEPT !.here = FALSE]]
  /\ fetch' = IF r \in Views /\ f[r].step = "none" THEN [f EXCEPT ![r] = Asked] ELSE f

Navigate(r) ==
  /\ Act("clicks")
  /\ r # route
  /\ GoTo(r, call, fetch)
  /\ UNCHANGED <<role, task, failed, visible, data, wrong, ask>>

Pending(op) == \E s \in Slots : call[s] # None /\ call[s].here /\ call[s].op = op
Operator    == role \in {"operator", "admin"}

Send(s, op, p, ids) ==
  /\ call[s] = None
  /\ \A u \in Slots : call[u] = None => s <= u
  /\ call' = [call EXCEPT ![s] = [op |-> op, page |-> p, ids |-> ids,
                                  here |-> route = p, answer |-> None]]
  /\ UNCHANGED <<role, task, failed, visible, route, data, fetch, wrong>>

\* The page of a task disables the button while the request is under way, a
\* row of the group does not.
Cancel(t) ==
  /\ ask = None
  /\ route \in Views
  /\ t \in ShownLive(route)
  /\ route # "group" => ~ Pending("cancel")
  /\ Act("clicks")
  /\ \E s \in Slots : Send(s, "cancel", route, {t})
  /\ UNCHANGED ask

\* mutant: the group may be deleted once one of its tasks has ended
OnDeleteSomeEnded ==
  /\ ask = None
  /\ route \in Views
  /\ route = "group" => Operator
  /\ data[route] # None
  /\ \E t \in Shows(route) : data[route][t] \in Terminal
  /\ ~ Pending("delete")
  /\ ask' = route
  /\ UNCHANGED <<role, task, failed, visible, route, data, fetch, wrong, call, budget>>

\* onDeleteClick, onDeleteGroup: the question, when all that is shown is over.
OnDelete ==
  /\ ask = None
  /\ route \in Views
  /\ route = "group" => Operator
  /\ ShownOver(route)
  /\ ~ Pending("delete")
  /\ ask' = route
  /\ UNCHANGED <<role, task, failed, visible, route, data, fetch, wrong, call, budget>>

\* The dialog outlives the page it was asked from.
Confirmed ==
  /\ ask # None
  /\ ask' = None
  /\ Act("clicks")
  /\ \E s \in Slots : Send(s, "delete", ask, Shows(ask))

Declined ==
  /\ ask # None
  /\ ask' = None
  /\ UNCHANGED <<role, task, failed, visible, route, data, fetch, wrong, call, budget>>

\* mutant: a cancel that succeeded is written to the cache at once
AnswerWritten(s) ==
  /\ call[s] # None
  /\ call[s].answer # None
  /\ LET c    == call[s]
         rest == [call EXCEPT ![s] = None]
     IN IF c.answer # "ok"
        THEN call' = rest /\ UNCHANGED <<route, fetch, data>>
        ELSE IF c.op = "delete" THEN GoTo("list", rest, fetch) /\ UNCHANGED data
        ELSE /\ call' = rest
             /\ data' = IF data[c.page] = None THEN data
                        ELSE [data EXCEPT ![c.page] =
                                [t \in DOMAIN @ |-> IF t \in c.ids THEN "cancelled" ELSE @[t]]]
             /\ UNCHANGED <<route, fetch>>
  /\ UNCHANGED <<role, task, failed, visible, wrong, ask, budget>>

\* A cancelled task's page is fetched anew, whatever was under way; a delete
\* leads to the list, from wherever the user is by now.  A refusal is a toast.
Answer(s) ==
  /\ call[s] # None
  /\ call[s].answer # None
  /\ LET c    == call[s]
         rest == [call EXCEPT ![s] = None]
     IN IF c.answer # "ok" THEN call' = rest /\ UNCHANGED <<route, fetch>>
        ELSE IF c.op = "delete" THEN GoTo("list", rest, fetch)
        ELSE /\ call' = rest
             /\ fetch' = IF route = c.page THEN [fetch EXCEPT ![c.page] = Asked] ELSE fetch
             /\ UNCHANGED route
  /\ UNCHANGED <<role, task, failed, visible, data, wrong, ask, budget>>

\* The tab goes to the back or comes to the front.
SwitchTab ==
  /\ Act("tab")
  /\ visible' = ~ visible
  /\ UNCHANGED <<role, task, failed, route, data, fetch, wrong, ask, call>>

-----------------------------------------------------------------------------
\* Requests and fetches, which are answered or time out.
Fetching(p)  == ReadTasks(p) \/ FetchAnswers(p)
Answering(s) == Handle(s) \/ Answer(s)

\* Everything but what leads to another page.
ViewsStep ==
  \/ \E t \in Tasks : Settle(t) \/ Others(t) \/ Cancel(t)
  \/ \E p \in Views : Poll(p) \/ Fetching(p) \/ FetchFails(p)
  \/ OnDelete \/ Confirmed \/ Declined
  \/ \E s \in Slots : CallFails(s)

-----------------------------------------------------------------------------
(* Properties.                                                             *)

RowsOf(p) == [Shows(p) -> Statuses \union {None}]
CallType ==
  [op : {"cancel", "delete"}, page : Views, ids : SUBSET Tasks, here : BOOLEAN,
   answer : {None, "ok", "role", "gone", "ended", "live", "lost"}]

(* Every variable of the pages has its type; only the page on screen knows  *)
(* of requests of its own.                                                  *)
PagesTyped ==
  /\ role \in {"viewer", "operator", "admin"}
  /\ task \in [Tasks -> Statuses \union {None}]
  /\ failed \in Seq(Tasks)
  /\ visible \in BOOLEAN
  /\ route \in Routes /\ ask \in Views \union {None}
  /\ DOMAIN data = Views /\ \A p \in Views : data[p] \in RowsOf(p) \union {None}
  /\ DOMAIN fetch = Views
  /\ \A p \in Views : \/ fetch[p] \in {NoFetch, Asked}
                       \/ fetch[p] \in [step : {"read"}, rows : RowsOf(p)]
  /\ wrong \in [Views -> BOOLEAN]
  /\ call \in [Slots -> CallType \union {None}]
  /\ \A s \in Slots : call[s] # None /\ call[s].here => call[s].page = route
  /\ budget \in [Kinds -> Nat]

(* A page that stays in front ends up showing how its tasks ended, or an    *)
(* error: it does not stop polling too early, whatever was cancelled,       *)
(* deleted or lost meanwhile (TaskDetail.tsx:44-48, TaskGroup.tsx:40-45).   *)
EndIsShown ==
  \A p \in Views :
    <>[](route = p /\ visible) =>
      <>[](wrong[p] \/ (data[p] # None /\ \A t \in Shows(p) : task[t] \in {None, data[p][t]}))

(* No page shows a task as live that it has shown as ended: answers are not *)
(* overtaken, with cancels, remounts and polls in any order                 *)
(* (TaskDetail.tsx:51-58, TaskGroup.tsx:204-207).                           *)
EndIsFinal ==
  [][\A p \in Views, t \in Tasks :
       data[p] # None /\ t \in Shows(p) /\ data[p][t] \in Terminal
         => data'[p][t] # "live"]_viewVars

(* The pages offer to delete only what the server lets go: no confirmed     *)
(* delete is refused because something is still live, however long the      *)
(* dialog was open and however old the data (TaskGroup.tsx:64-77 and        *)
(* server/app/api/tasks.py:540).                                            *)
DeleteIsNotRefused ==
  \A s \in Slots : call[s] # None /\ call[s].op = "delete" => call[s].answer # "live"
=============================================================================
