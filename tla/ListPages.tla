------------------------------ MODULE ListPages ------------------------------
(***************************************************************************)
(* The five list pages at work.   The router mounts one page at a time, so *)
(* one is chosen at the start; what the pages have in common is said of    *)
(* all of them.                                                            *)
(***************************************************************************)
EXTENDS TasksPage, AgentsPage, SchedulesPage, UsersPage, TargetsPage

CONSTANTS Pages, Roles,
  Opening   \* what each page's table may hold when it opens

Forms     == SUBSET (Tags \union Labels)
RowOrNone == [status : Statuses, tags : Forms] \union {None}
Table     == [Ids -> RowOrNone]

ASSUME PagesAssumption ==
  /\ Pages \subseteq Polled \union {"users", "targets"}
  /\ Roles \subseteq {"viewer", "operator", "admin"}
  /\ \A p \in Pages : /\ p \in DOMAIN Budget
                      /\ p \in DOMAIN Opening
                      /\ Opening[p] \subseteq Table

Init ==
  /\ page \in Pages
  /\ role \in Roles
  /\ mounted = TRUE
  /\ filter = "all"
  /\ rows \in Opening[page]
  /\ cache = rows
  /\ fetch = NoFetch
  /\ selected = {}
  /\ draft = IF page \in Polled THEN Empty
             ELSE [i \in Ids |-> IF rows[i] = None THEN None ELSE rows[i].tags]
  /\ ask = None
  /\ job = [s \in Slots |-> None]
  /\ told = {}
  /\ budget = Budget[page]

User ==
  \/ page = "tasks" /\ TasksUser
  \/ page = "agents" /\ AgentsUser
  \/ page = "schedules" /\ SchedulesUser
  \/ page = "users" /\ UsersUser
  \/ page = "targets" /\ TargetsUser
  \/ ChangeFilter
  \/ \E s \in Slots : Confirmed(s) \/ ClickUndo(s)
  \/ Declined
  \/ LeavePage
  \/ ReturnToPage

Outside ==
  \/ page = "tasks" /\ TasksOutside
  \/ page = "agents" /\ AgentsOutside
  \/ page = "schedules" /\ SchedulesOutside
  \/ page = "users" /\ UsersOutside
  \/ page = "targets" /\ TargetsOutside

Requests(s) == IF job[s] = None THEN {} ELSE job[s].todo

Progress(s) ==
  \/ \E R \in Requests(s) : Handle(s, R)
  \/ Settles(s)
  \/ GraceEnds(s)
  \/ ToastGoes(s)

Fetching == ReadRows \/ FetchAnswers

Next ==
  /\ \/ User
     \/ Outside
     \/ Poll
     \/ Fetching
     \/ FetchFails
     \/ \E s \in Slots : Progress(s) \/ \E R \in Requests(s) : RequestFails(s, R)
  /\ UNCHANGED page

Spec == Init /\ [][Next]_vars

\* Timers fire and requests are answered or fail.
FairSpec ==
  /\ Spec
  /\ WF_vars(Poll /\ UNCHANGED page)
  /\ WF_vars(Fetching /\ UNCHANGED page)
  /\ \A s \in Slots : WF_vars(Progress(s) /\ UNCHANGED page)

-----------------------------------------------------------------------------
(* Properties.                                                             *)

\* The operations the pages preview, and the others.
Previewed == {"delete", "approve", "reject", "active", "disabled", "enabled",
              "paused", "save", "tag"}
Operations == Previewed \union {"create", "trigger", "geo"}

Job == [kind : Soft \union {"mutation", "bulk", "plain"}, op : Operations,
        ids : SUBSET Ids, tags : [Ids -> Forms], promise : Table, prev : Table,
        step : {"grace", "sent", "late", "refetching"}, todo : SUBSET SUBSET Ids,
        failed : BOOLEAN, toast : BOOLEAN, undone : BOOLEAN, clean : BOOLEAN]

(* Every variable has its type; ticks and open forms are of rows shown.     *)
TypeOK ==
  /\ page \in Polled \union {"users", "targets"}
  /\ role \in {"viewer", "operator", "admin"}
  /\ mounted \in BOOLEAN
  /\ filter \in Filters
  /\ rows \in Table /\ cache \in Table
  /\ fetch \in [step : {"none", "asked", "read"}, rows : Table]
  /\ selected \subseteq Visible
  /\ draft \in [Ids -> Forms \union {None}]
  /\ \A i \in Ids : i \in Visible \/ draft[i] = None
  /\ ask \in Ids \union {None}
  /\ job \in [Slots -> Job \union {None}]
  /\ told \subseteq Ids
  /\ budget \in Nat

(* A change of several rows, and every undoable delete, only ever touches   *)
(* rows that were on screen when it was clicked, however the list moved     *)
(* under the ticks: another fetch, a filter, rows deleted meanwhile         *)
(* (Tasks.tsx:291-306, Agents.tsx:191-201).  The delete of a group of tasks *)
(* is the one that reaches further: of a group it takes at least two shown  *)
(* tasks to delete, all of them finished, the members that the filter hides *)
(* are deleted too (Tasks.tsx:137-173, :196-214, :252-259).                 *)
BulkTouchesWhatIsShown ==
  [][\A s \in Slots :
       job[s] = None /\ job'[s] # None /\ job'[s].kind \in {"bulk"} \union Soft
         => \/ job'[s].ids \subseteq Visible
            \/ \E g \in TaskGroups :
                 /\ page = "tasks"
                 /\ job'[s].ids = Members(g)
                 /\ Cardinality(Members(g) \intersect Visible) > 1
                 /\ \A i \in Members(g) \intersect Visible :
                      cache[i].status = "done"]_vars

(* A delete that was undone before its grace ended is never sent            *)
(* (useUndoable.ts:56-60).                                                  *)
UndoneIsKept == \A s \in Slots : job[s] # None /\ job[s].undone => job[s].step = "grace"

(* Once the page has been told that a row is deleted, nothing but a         *)
(* restored older cache shows it again: no late answer to an earlier fetch  *)
(* does (Tasks.tsx:189, :234, Agents.tsx:321, Schedules.tsx:165).           *)
GoneStaysHidden ==
  [][\A i \in told :
       cache[i] = None /\ cache'[i] # None
         => \E s \in Slots : job[s] # None /\ job'[s] # job[s] /\ cache' = job[s].prev]_vars

(* What the page showed at the click is what the server has when it has     *)
(* done it, provided nobody else wrote the row and the page was up to date  *)
(* (Agents.tsx:590-709, Schedules.tsx:119-166, Tasks.tsx:176-245), but for  *)
(* the tags: an edit shows tags of before that the server tidies            *)
(* (schemas/agent.py:81-97), and an approval shows the earlier tags, which  *)
(* the server replaces (Agents.tsx:237, :618, agents.py:92).                *)
PreviewIsHonest ==
  \A s \in Slots :
    /\ job[s] # None
    /\ job[s].kind # "plain"
    /\ job[s].step = "sent" /\ job[s].todo = {} /\ ~ job[s].failed
    /\ job[s].clean
    => \A i \in job[s].ids :
         LET shown == job[s].promise[i]
         IN \/ rows[i] = shown
            \/ /\ job[s].op \in {"save", "tag"}
               /\ rows[i] = [shown EXCEPT !.tags = Tidied(@)]
            \/ /\ job[s].op = "approve"
               /\ job[s].tags[i] \subseteq shown.tags
               /\ rows[i] = [shown EXCEPT !.tags = job[s].tags[i]]

(* Whatever previews, failures, undos and overlapping fetches did to it, a  *)
(* page that stays on screen ends up showing the server's rows, if it polls *)
(* (Tasks.tsx:86-90, Agents.tsx:42-46, Schedules.tsx:56-65).                *)
ListConverges == page \in Polled /\ <>[]mounted => <>[](cache = rows)
=============================================================================
