# Looking Glass: the verification project

Looking Glass runs network diagnostics (ping, mtr, traceroute, scans, HTTP and
TLS checks) from agents around the world. A FastAPI server keeps tasks in
PostgreSQL and live output in Redis; Go agents poll it for tasks; a React
front end creates tasks and watches them. This directory holds TLA+ models of
its control logic, the TLC configurations that check them, and proofs that
TLAPS checks. `PROJECT.json` maps every definition to the lines it models.

Contents: [1 The system](#1-the-system) · [2 Modules](#2-modules) ·
[3 Runs](#3-runs) · [4 Disagreements found](#4-disagreements-found) ·
[5 Proofs](#5-proofs) · [6 What is not modelled](#6-what-is-not-modelled) ·
[7 Plan](#7-plan) · [8 Running it](#8-running-it)

## 1 The system

    browser ──HTTP──► server handlers ──► PostgreSQL ◄── scheduler loop
       ▲                   │    ▲              ▲     ◄── watchdog loop
       │ WebSocket         ▼    │ poll, chunk, │
       └──── task_live ◄─ Redis │ result,      │
                                │ heartbeat    │
                              agents ──────────┘ (rows owned by an agent)

One server process runs every handler and both loops as coroutines of one
event loop; they interleave at each `await` and share nothing but the
database and Redis. Handlers take no row locks: a handler loads a row, checks
it, awaits, and commits the columns it changed. Only the poll and the watchdog
use `SELECT … FOR UPDATE SKIP LOCKED`.

| Component | State | Operations | What makes it hard | Correct when |
|---|---|---|---|---|
| Task rows (`api/tasks.py`, `models/task.py`) | `tasks`, `results` | create (fan-out), poll, start, chunk, result, cancel, delete, group delete | load/check/await/commit without a lock; lost poll responses | a row in progress can always be recovered; results follow hand-outs; a deleted task stays deleted; a finished one is revived by nothing but a stale chunk |
| Watchdog (`services/watchdog.py`) | none | tick: requeue or time out expired rows | requeues a task that may still run; NULL time stamps | no row is stuck for ever |
| Live stream (`core/pubsub.py`, `ws/task_live.py`, chunk sender of the agent) | Redis channel and list, socket | post, publish, announce the end, replay, subscribe, forward | two goroutines and one counter; replay before subscribe; late posts; restarts | no line twice, lines in order, the end is heard and is true |
| Browser stream hook (`useTaskStream.ts`, `wsRegistry.ts`) | refs, timers, sockets, slots | connect, retry, back off, clean up, report | close events that come after the next effect | one attempt at a time, rests at the end, heals, the dot is true |
| Scheduler (`services/scheduler.py`, `api/schedules.py`) | `schedules` | tick, fire, record an error; create, edit, delete, trigger | a fire commits over a row edited or deleted meanwhile; error path in a second session | counters agree with the tasks inserted, runs are spaced, due schedules run |
| Agent process (`main.go`, `concurrency.go`) | worker semaphore, gate, loops | poll, execute, submit, shut down | slots returned on every path; waiting at a gate with a slot; SIGTERM | no slot leaks, caps hold, tasks end |
| List pages (`Tasks`, `Agents`, `Schedules`, `Users`, `PublicTargetsAdmin`; `useUndoable.ts`, `Toast`, `ConfirmDialog`) | query cache, ticks, drafts, grace timers, requests under way | optimistic changes one by one and in bulk, undoable deletes, edits, filters, leaving and coming back | the cache is patched before the answer and rolled back to an older one; polls, refetches and other users interleave | bulk changes touch what is shown, undo undoes, what is gone stays hidden, the page converges on the server's rows |
| API client and session (`client.ts`, `useAuth.tsx`, `RequireAuth`, `Login`) | tokens in localStorage, a tab's user, its calls and shared refresh | sign in, call, refresh, resume, sign out, reload | several calls meet one expiry; two tabs replace each other's tokens; refreshes fail or come late | one refresh for all, expiry unseen, signed out is out, nobody waits for ever |
| Create form (`CreateTaskDialog*`, `commandPreview.ts`, `targetValidator.ts`, `taskTemplates.ts`), router and validators of the server | form, templates, recent targets | edit, change type, template, submit; validate, route | defaults written down in three places; hidden fields; agents that change | what runs is what was shown; templates reproduce; what is offered is accepted |
| Task and group pages (`TaskDetail.tsx`, `TaskGroup.tsx`) | query data, confirm dialog | poll, cancel, delete, navigate | polling that stops; answers in any order; a dialog over data that ages | the end is shown, stays shown, and deletes are not refused |
| Notifications (`useTaskNotifications.ts`, `notifications.ts`, the bell) | what was seen, settings in localStorage | look at failures and agents, announce, switch | first look or later look; a window of ten; hidden tabs; two bells | news is told once, old news never |
| Agent identity (`main.go`, `state/store.go`, `api/agents.py`) | token in memory and on disk, `agents` | register, heartbeat, approve, disable, reject, delete | lost registration answers, crashes between commit and rename, a file that cannot be written or read, a token that changes while tasks run, an edit over a reject | a deleted agent comes back as one agent, work is reported by whom it was given to, a ghost row has a mishap behind it |
| Users on the server | `users` | create, demote, delete | two administrators at once | an administrator is left |
| Rate limits | Redis counters | count, expire | check before count; expiry renewed | documented windows |
| Public status and cache | Redis snapshot, `public_targets` | read, edit, invalidate, look up | set after invalidate | snapshots age out |
| Availability, presets, trends | presets' counters | run, verdicts, buckets | lost updates; boundary arithmetic | verdict algorithm |
| Runners and parsers (agent) | none | run tools, parse text | timeouts, odd output | status decided correctly |
| Other pages, translations, deployment | – | rendering, configuration | – | – |

`PROJECT.json` lists the hazards of this code line by line with the
properties that watch them.

## 2 Modules

| Module | Models | State and actions |
|---|---|---|
| `TaskLifecycle` | every writer of a task row | `row` is the database row; `pending` the handlers between load and commit, each with the row its session `seen`; `Load*` is a handler up to its first commit (checks included), `Commit*` its commit, which writes the columns SQLAlchemy would find changed. `ClaimTask` and `WatchdogTick` hold row locks and are one step. `runs` are executions on agents; `claims`, `requeues` are history. Time is the age of the two columns the watchdog compares: null, recent, old. |
| `TaskContract` | what the task API promises | `Promised` holds the documented moves of a task, `Late` the two further ones that unlocked handlers can make, and nothing else is allowed. `TaskLifecycle` maps its rows to it with `INSTANCE … WITH` (`LateContract`). |
| `TaskLifecycleProofs` | – | the theorems of section 5: what holds in every state, and what no sequence of steps does |
| `LiveStream` | output from pipe to screen | `reader`, `seq`: the goroutines of one run and their counter, whose increment is a load and a store, and which the payload reads again; `posts`: chunk requests at the server, before and after their status check; `buffer`, `socket`, `wire`, `viewer`: the Redis list, the WebSocket handler's progress, what is in flight, and the browser with its `lastSeqRef`. The task's status is only settled or not. `plan` says how many lines the pipes have and how often the task is handed out; it is chosen at the start. `gap`, `disorder` and `raced` are history: what the properties make an exception of. |
| `Inbox` | what live output promises a viewer | lines are written, a task ends, a screen shows lines that were written and is told of the end; `Show` says which line may come next. `LiveStream` maps its readers, row and page to it (`ImplementsInbox`). |
| `StreamHook` | `useTaskStream` as React runs it | `ws` is the current socket, `stale` the closed ones whose close event is still to come, `intentional` the shared `intentionalCloseRef`, `late` a "done" whose state updater React has not run yet, `overtook` that a close was handled before it, `attempts` and `timer` the backoff, `lostTimers` timers no reference holds, `shown` the state on screen, and the registry's slots; one action per effect, handler, timer and button |
| `Scheduler` | the loop and the schedule handlers | `worker` is `scheduler_loop`: the tick's list, what `_fire_one` loaded, the agents routed to; `pending` as above; `groups` counts the task groups really inserted, against which the row's counters are judged. An edit commits only the fields that differ from what was loaded. `world`, chosen at the start, bounds the clock, the agents, the edits, triggers and restarts. |
| `AgentWorkers` | the agent's goroutines | `slots` and `gates` are the lengths of the Go channels; `job` where each `executeTask` stands; `cancelled` the context; `main`, `loops` the shutdown |
| `AgentIdentity` | the whole agent process and the registry, over `AgentWorkers` | `row` is the status of each agent the server knows; `token` the client's, `disk` the state file's, `fresh` one just answered; `step` is where `register` or the heartbeat loop stands; `asked`, `owner` say under which token a poll went out and a task came in; `patch` are edits between load and commit. `Crash` and `Restart` are the process's, `Admin` steps the registry's handlers |
| `OptimisticList` | what the five list pages share | `rows` is the server's table, with the tags as its validator tidies them (`Tidied`), `cache` the query's data, `fetch` the one fetch under way, `job` the changes under way: their grace timer, the requests still `todo`, the cache to restore (`prev`), the step. `Render` is every re-render: it prunes ticks and drafts of rows that are gone, as the pages' effects do. `Handle` is the server, `Settles` the end of a change with its rollback and refetch, `OutsideWrites` other users |
| `TasksPage`, `AgentsPage`, `SchedulesPage`, `UsersPage`, `TargetsPage` | one page each | the clicks a page offers, each with its guard (role, status, pending request) and the operation of `OptimisticList` it starts |
| `ListPages` | the five pages | one page is chosen at the start, as the router mounts one at a time; properties are stated here |
| `Session` | tokens, calls, refresh, sign-in | `store` is localStorage, shared by the tabs; `call` the API calls with the token they were sent with; `signedOut` and `racing` are history: the tab that signed out last, and the refreshes that were out then; each tab has its `user`, `path`, login `form` and the refresh it shares (`inFlight`), whose requests are `posts`. A token is its age: the server takes those younger than `expired` |
| `TaskOptions` | the options of the eleven task types | functions from type to fields: as the form shows them, as the preview reads them, as the server takes them, with the limits of length and number that only the server has (`Beyond`) and the options no field shows; kinds of targets as the two validators tell them apart, and what the server makes of them |
| `CreateTask` | the dialog, its templates, the server's `create_task` and router | `page` says what may prefill the form; `form` is the dialog's state, `menu` its copy of the `templates` in the storage, which other tabs change, `pending` the request, `group` the answer: tasks, or why it was refused (rate limit, target, options, agents) or lost; agents change in between (`active` on the server, `known` on the page) |
| `TaskViews` | the pages of a task and of a group | `task` is the server's rows, `data` and `fetch` each page's query, `ask` the confirm dialog, `call` the requests, which outlive the page; `visible` the tab |
| `Notifications` | the hook and the bell, over `TaskViews` | `stats`, `agents` are its queries' data; `ready`, `seen`, `last` its refs; `Render` runs both effects; `settings` is localStorage and `panel` the bell's copy |
| `LiveStreamProofs`, `SessionProofs`, `AgentWorkersProofs`, `SchedulerProofs`, `NotificationsProofs`, `ListPagesProofs` | – | theorems of section 5 |
| `BrowserProofs` | – | theorems about `StreamHook` and about `CreateTask`, two parts of the browser that share no state; those of the dialog are stated of its `DialogSpec` |
| `MC…` | – | constants for TLC: one module per specification |

Components meet where the code makes them meet: `AgentIdentity` EXTENDS
`AgentWorkers` and lets its goroutines start when registration has succeeded,
die with the process and use the token the heartbeat loop sets; a run in
`TaskLifecycle` is a job of `AgentWorkers`; its result and chunks are the posts
of `LiveStream`; a socket of `LiveStream` is opened and reopened by
`StreamHook`; a group of `Scheduler` is a group of `TaskLifecycle`, which
re-checks nothing. Each module
leaves the others' parts as open as their own models allow: `LiveStream` lets
any run end at any line, `TaskLifecycle` lets any run be lost. In the browser,
`Notifications` EXTENDS `TaskViews` because a navigation renders the hook and
both read the same tasks; `ListPages` composes the five pages over one query
client; the rows those modules call `rows` and `task` are the tables that the
server's modules describe in detail, seen through requests only, and a call of
any of them is one of `Session`'s.

Abstractions common to all: text is left out, a validation is its verdict,
identifiers are model values, a PostgreSQL or Redis transaction is one step,
and an UPDATE of a row that is gone fails its whole session
(`StaleDataError`), as a foreign key to a deleted agent does.

## 3 Runs

Unless named here, a bound is in the cfg's first line. Deadlock is not checked
in models that may really stop (a finished stream, an exited agent, a clock at
its end).

| Run | Question | Bounds and why they are enough |
|---|---|---|
| `task_races` | every order of two handlers, poll, watchdog, administrator and restart on one task | two handlers in flight are what a lost update needs; two hand-outs what a double execution needs. That the tasks of a group do not disturb each other is left to the proofs and to `task_release` |
| `task_release` | are stuck rows released | two tasks of one agent and a watchdog batch of one, so that the limit and the order of the queue (oldest first) bind. Hand-outs are without end: `EndlessSpec` lets a task that is not in progress forget how often it was handed out (`Forget`), which nothing but history reads, so that claim and requeue may go round for ever in finitely many states; only an agent that stays offline ends it. `Verdicts` is empty: a result only takes a row out of progress. Fairness: the watchdog's tick and the clock only; nothing is assumed of agents or users |
| `live` | is what a viewer sees of two pipes that race for the counter, or of a task handed out twice, what `Inbox` promises; what may be missing; does the end reach the viewer | lines 2+1 in one run, or 2 and 1, or 1 and 2, in each of two; two faults, so the hook never gives up (it does after twelve); a buffer of 3 for up to four lines and a done, so it overflows. Fairness: the server's announcement, the socket handler and the browser go on |
| `hook_reconnect` | is the hook sound while nothing closes a live socket | three failures before it gives up instead of twelve; fairness: timers fire, close events arrive, a connection attempt ends |
| `schedules` | one handler at work during a fire, agents, targets and restarts; is every due schedule tried | four worlds: a handler of each kind over one schedule; the same with a restart and a clock to 2, for three runs and a late one; routing by tag over agents that come and go; two schedules with a batch of one. The clock ends after a tick or two, so that `DueIsTried` is about schedules that are due together and fail, not about neighbours that fall due again and again. Fairness: the loop, as `scheduler_loop` never stops |
| `agent` | slots, caps, does every task end, does a hanging task leave the rest alone; whose work is it, which agents are forgotten, does a deleted one come back | two workers, a type capped at one with two tasks, of which one hangs, one uncapped, one unsupported; five registrations, so many that none is ever refused by the bound. `FourWorlds`: all tasks for an agent that is approved; one task and three acts of administrators; one task, a mishap and a restart; no task, two acts, a mishap and a restart. Fairness: goroutines are scheduled, requests end by the client's 30 s timeout, runners that do not hang return, the server answers a registration in the end |
| `lists` | can overlapping changes, faults, undo and other users confuse a list page | three rows of one group, of which two pass the filter; tags as they should be and as a script may have given them; two changes under way, which is what an overlap needs; two or three events. Fairness: the interval fires while the page is mounted, requests are answered or fail. Users and targets have no interval, so `ListConverges` is about the other three |
| `session` | does anybody notice an expiry, a second tab, a failed refresh | two tabs, two calls, two users, two expiries and one mishap: a shared refresh needs two calls, a token replaced by another tab needs two tabs. Signing out and reloading count as mishaps too, but not a reload after a sign-out: that tab may start again after whatever came late. Fairness: requests end, as browsers time them out |
| `create` | does a task run with what its form showed | all eleven types; each numeric option at the ends of its range and its default, each text and list of ports also one past what the server takes; two targets typed, one that the server rewrites and one it refuses (the other kinds are left to the proofs); two edits and two other events on three pages: a form that starts empty or with an agent, and two that run a task again with an option no field shows (`SOA`, `size_bytes`); one template kept and two recent targets, so that both lists are cut; two agents, one of which only pings |
| `views` | do the pages and the hook tell the truth | five users: one at work on the pages, one who may only look, one waiting for failures, one for agents, one trying the bell; two tasks and a list of one failure, so that failures slide out of the list and in again. Fairness: a page in front polls, requests are answered or fail. A tab in the back polls nothing, as TanStack Query suspends intervals there |

Every property has a mutant: a named alternative of one definition, written
beside it and marked `mutant`, under which the property fails. Mutants are used
by nothing else.

The properties worth reading first: `LeaseIsDated` (a row in progress always
has a time the watchdog can compare, although four handlers write these columns
in any order), `OneResultPerHandOut`, `RevivedOnlyByStaleRun`, `LateContract`,
`ImplementsInbox`, `ResultReachesViewer`, `NothingElseIsMissed`, `RunsAreCounted`,
`SlotsAccountedFor`, `GhostsArePaid`, `WorkIsOwned`, `ExpiryIsInvisible`, `GoneStaysHidden`, `PreviewIsHonest`,
`RunsWhatWasShown`, `EndIsFinal`, `AnnouncedOnce`.

Type invariants are proved and not run again, as is every safety property of
these runs: the proofs of section 5 hold for all values of the constants, the
runs show on small ones that the model moves at all. Properties of liveness
(`StuckRowsAreReleased`, `OfflineAgentKeepsNothing`, `ResultReachesViewer`, `HealsUndisturbed`,
`DueIsTried`, `TasksFinish`, `KnownAgain`, `ListConverges`, `NobodyWaits`, `EndIsShown`) are
about the code's loops: each states what must end and under whose fairness.

## 4 Disagreements found

Two have a run that expects a violation; the finding in `PROJECT.json` quotes
the source.

| Run | What the source says | What the code does |
|---|---|---|
| `live_gap` | backfill first, then live chunks | what is published between replay and subscription is lost |
| `hook_flaps` | a clean-up's close is told from an unexpected one | the flag is reset before the close event arrives, and the hook reconnects for ever (`Heals`; `HealsUndisturbed` is the part that holds) |

The models show these as well; they follow from what the runs above check and
have no run of their own. On the server and the agent:

- `models/task.py:37` says of terminal states "task is done, no more updates
  expected"; a chunk that loaded the row before a cancel or a result sets the
  task running again (`RevivedOnlyByStaleRun` is what does hold).
- `tasks.py:505` says delete refuses live tasks; a delete that found the task
  finished removes it after a late chunk has revived it (`Late` allows the one,
  `Removed` the other).
- `watchdog.py:109` says a superseded run is refused its submission; the
  requeued task goes back to the same agent, and nothing tells its runs apart.
  A task executed twice may so get two results, on which `scalar_one_or_none`
  (`public.py:472`) raises; `OneResultPerHandOut` is the bound that does hold.
- `pubsub.py:8` says a done is published when a task ends; cancel and the
  watchdog publish none (`SettleSilently`).
- `schemas/task.py:124` says seq is monotonic per task; two goroutines race on
  it, and a second run starts it again. The race does not only give one number
  to two lines, it can wind the counter back by several; if the posts of the
  lines in between are then lost or late, a viewer may be shown a later line of
  a pipe before an earlier one. `Inbox` says that nothing else does this.
- `models/schedule.py:36` says exactly one of agent_ids and tags is populated;
  `PATCH` sets either without looking at the other.
- A poll reads the agent's status before it claims (`tasks.py:51`); an agent
  that is disabled in between still gets the task. Delete awaits between its
  check and the removal (`tasks.py:511`). No document promises more, so the
  contract allows both and no property forbids them.
- `schedules.py:127` says disabling resets the error; a fire under way writes
  it back.
- `main.go:90` says a stuck task cannot starve the poll loop; tasks that wait at
  its type's gate hold a worker each. The runner of hping3 has no timeout, so
  one that hangs keeps the gate, those behind it fill the pool, and the agent
  polls no more. `TasksFinish` says that nothing else does this: it excuses a
  task only when its gate is held for good (`Hung`), and a poll only when every
  worker hangs or waits behind what hangs (`Clogged`).
- `main.go:104` gives in-flight tasks a grace period "to submit their results";
  the submissions use the context that SIGTERM has cancelled (`main.go:329`)
  and fail at once.
- `ARCHITECTURE.md:81` says that setting `rejected` revokes an agent's token. A
  `PATCH` that loaded the agent as active or disabled writes the other of the
  two over a reject that commits in between (`agents.py:147-154`), and the
  token is good again (`CommitPatch`).
- A registration whose answer is lost, or whose identity is not saved, leaves
  a pending row behind that nobody will ever use; nothing removes it.
  `GhostsArePaid` says that there are no more of these than mishaps.

In the browser:

- `useTaskStream.ts:124` says that a close is intentional when the task has
  reached its end. The "done" sets `intentionalCloseRef` inside a state updater
  (`:108`), which React may run at the next render; the server closes right behind the message
  (`task_live.py:79-82`). A close that is handled first finds the flag unset and
  schedules a retry, which replays the finished task. `FinishedStreamRests`
  excludes this order by name (`overtook`).
- `commandPreview.ts:5` promises to make "what am I about to send?" obvious. A
  port scan whose ports nobody touched shows 80, 443, 22, 8080 and 8443 in the
  form and 80, 443, 22 in the preview, and sends none: the server refuses it
  ("ports must be a non-empty list of integers"). `RunsWhatWasShown` speaks of
  tasks that run, `OfferedIsAccepted` excuses this case by name.
- The form lets through what the server always refuses: a resolver of more than
  128 characters and an SNI name of more than 255 (`validators/task_params.py:169`,
  `:201`), more than 1024 or, for the packet generator, 256 ports (`:136`,
  `:221`; the fields only name the bound), a target of blanks, one in reserved
  ranges (for DNS also private ones and names with an underscore), a URL that is
  too long. `Beyond` and `LetThrough` list these; `OfferedIsAccepted` says that
  nothing else that is offered is refused.
- A task that is run again brings options that no field shows: the size of a
  ping's packet, the timeout of a packet generator, IPv6 of a SYN scan, headers
  of an HTTP check. They are sent, and the preview names none of them.
  Two menus lack an entry that a task run again may bring (`SOA` for DNS,
  `PATCH` for HTTP): the browser shows their first entry while the other is
  sent; the preview names the right one. `RunsWhatWasShown` allows both for a
  task run again and for nothing else.
- `validators/targets.py:130` lower-cases a URL as a whole, its path included,
  though the comment at `:132` says that it is returned as it is: what runs is
  not the URL typed.
- A lost request, or one that the rate limit answers with 429, leaves the
  dialog open with its error; when the answer was lost the task has been
  created all the same, and a second submit creates it twice.
- `translations.ts:665` promises alerts "even while the tab is in the
  background"; the queries that find the news poll only in front
  (`useTaskNotifications.ts:25`, no `refetchIntervalInBackground`), and
  `notify` is silent in front. A failure is announced only when it is found by
  a fetch that was under way when the tab went to the back. `AnnouncedOnce`
  speaks of what is announced.
- An agent list that nobody polls ages: an effect that runs for another reason
  compares old heartbeats with the clock, and announces agents as gone that are
  not; after the next answer they are "back". `news` allows it.
- A bulk approve sends no tags and so clears those the agent registered with
  (`Agents.tsx:242`, `agents.py:91`), while the page keeps showing them until
  it refetches. And `PATCH` tidies tags (`schemas/agent.py:81-97`: trimmed, in
  small letters, no two alike), which approval and the tags of a script do not
  pass, so the first edit that sends old tags back changes what it seemed to
  leave alone. `PreviewIsHonest` names these two differences.
- A group in the list of tasks counts and shows the members the filter lets
  through, and its delete (`Tasks.tsx:196-214`, `:252-259`) names the group: members the
  filter hides go too, with nothing on screen that says so. The server refuses
  the group while one of them is live (`tasks.py:543`).
  `BulkTouchesWhatIsShown` allows this one change that reaches further, and says
  what must be on screen for it.
- A refresh that is under way at a sign-out stores its tokens when it ends
  (`client.ts:98`): the tab stays on the login page, but the next reload finds
  them and shows the user's pages, with nobody having signed in
  (`useAuth.tsx:31-35`). `SignedOutIsOut` holds until then and names the race.
- `ARCHITECTURE.md:82` promises fifteen minutes of access and a week of
  refresh. `me()` is a call under `/api/auth/`, which `api()` never refreshes
  (`client.ts:119`), so a tab opened or reloaded after the access token has
  expired gets a 401 and clears the tokens (`useAuth.tsx:36-40`): everybody is
  signed out, in the other tabs too, though the refresh token was good.
  `ExpiryIsInvisible` speaks of tabs that are not reloaded: it counts the
  reload as a mishap.
- A row of `Users.tsx` takes its role into state when it mounts (`:79`); a form
  opened later saves that one over what others have set since.
- A failed change restores the whole list as it was at its click, and with it
  rows that other changes have removed meanwhile, until the refetch:
  `GoneStaysHidden` excludes exactly this.
- `TaskDetail.tsx` offers Cancel and Delete to viewers, whom the server
  refuses; its delete leads to the list even if the user has moved on.
- The bar of `TaskGroup.tsx:387` subtracts cancelled tasks twice, since they
  count as done.

Wording only: `pollLoop`'s comment says it polls again at once after a task,
but it always waits for the ticker; `_fire_one`'s comment says a manual trigger
may have advanced `next_run_at`, which a trigger never does; `fire_schedule`'s
comment says invalid parameters are persisted, but they raise.

## 5 Proofs

`TaskLifecycleProofs` proves, for any tasks, agents, owners, groups, batch
size, number of handlers in flight and hand-outs:

- `TypeCorrect`: `Spec => []TypeOK`;
- `LeaseAlwaysDated`: `Spec => []LeaseIsDated`;
- `VerdictBacked`: `Spec => []VerdictHasResult`;
- `GoneStaysGone`: `Spec => GoneForGood`;
- `RevivedByStaleRunAlone`: `Spec => RevivedOnlyByStaleRun`;
- `ResultsFollowHandOuts`: `Spec => []OneResultPerHandOut`;
- `ContractKept`: `Spec => LateContract`, the refinement of `TaskContract`.

They assume `ConstantsAssumption` of `TaskLifecycle`, which TLC evaluates on
every run. `LeaseIsDated` is not inductive: a chunk handler writes
`started_at = started_at or now` from the row it *loaded*, so if it had loaded
a `started_at` it would set the status to running and leave a column that the
watchdog has since cleared. The strengthening `RowsStamped` says which columns
come with which status and, of every chunk handler in flight, that it loaded a
claimed row without `started_at`; then its write always dates the row. The
proof has one step per action; the lemmas about `StartedRow`, `SettledRow`,
`RequeuedRow` and the like say what one write preserves. `VerdictHasResult` is
inductive together with the type invariant, because the only other writers of
a row set a status that is not a verdict or clear the row.

The history theorems rest on `RowMoves`, which says once what any step can do
to one row, and on two more inductive invariants. `Births`: a create handler in
flight owns its group's rows, which are unborn and which no other handler has
loaded; without it a second create could insert a deleted row again. `Ledger`:
for each task, results + executions + submissions in flight, + 1 while it waits
to be handed out, is at most its requeues + 1, and without the waiting at most
its hand-outs. The property alone is not inductive, since a poll adds an
execution: the unit that execution costs is the one the waiting task held. An
execution passes it to the submission, the submission to the Result row, and
only a requeue adds one. The proof moves a unit per step, with the cardinality
lemmas of `FiniteSetTheorems`. `ContractKept` needs both: `Births` for the row
an insert finds, and `Ledger` for the contract's clause that a result is stored
only while hand-outs are ahead. `TaskMoves` gives, per kind of write, the move
of the contract it is.

The other proof modules follow one pattern: an invariant `IInv` of named
parts, `Invariance` with one lemma per group of actions, and the properties
from it.

- `AgentWorkersProofs`: `TypeCorrect`, `SlotsAccounted`
  (`Spec => []SlotsAccountedFor`), for any tasks, types, caps and workers. A
  channel's length must equal the number of goroutines between its send and its
  receive; `HoldersAtWork` says that who holds a gate is running or about to
  return it, `SlotsCounted` and `GatesCounted` that the lengths are those
  cardinalities. Each step adds or removes one element of a finite set. Over
  `AgentIdentity`, with crashes, restarts and any number of registrations:
  `SlotsAccountedThroughout`, `WorkOwned` (`[]WorkIsOwned`) and `GhostsPaid`
  (`[]GhostsArePaid`). `Stages` says what the token and the file can be at each
  stage: while the process looks for a new identity its token is nobody's or a
  deleted agent's, while it has one the file holds it; `Idle` that no task is
  at work before the loops start or after the process ends; `Lost` counts an
  agent from the moment a step gives it up, so that a ghost is paid for by the
  mishap that made it and not by the step that shows it.
- `SchedulerProofs`: `TypeCorrect`, `Counted` (`[]RunsAreCounted`),
  `OneLateRun` (`[]AtMostOneLateRun`), `RunsSpaced` (`Spec => RunsAreSpaced`),
  for any schedules, agents, patches and worlds. `NextIsSpaced` says that
  `next_run_at` lies an interval after the last run whatever was edited,
  `SeenIsTrue` and `HandlersKnow` what a session's copy of a row still tells
  about the row when it commits, `LateAfterDisable` that only the fire under
  way at the disabling can be late.
- `LiveStreamProofs`: `TypeCorrect`, `LinesOrdered` (`[]LinesInOrder`),
  `NothingElseMissed` (`[]NothingElseIsMissed`), `InboxKept`
  (`Spec => ImplementsInbox`), for any pipes, runs, lines, faults and size of
  the buffer. `Numbers` says of every chunk between the
  agent and the screen that its run, pipe and line determine it (`Lines`) and,
  while the readers have not raced, that the counter is above what was sent and
  below what is still to be sent (`Upward`) and numbers rise with lines
  (`Ascending`); `Rising` that
  `lastSeqRef` covers what is shown; `Delivery` that a buffered chunk has been
  shown, or is newer than anything shown and on the wire or still to be
  replayed. All but one action only lose or move chunks (`NumbersKept`).
  The refinement takes a step of `StoreCount` to `Write`, `CommitResult` and
  `SettleSilently` to `End`, `Receive` to `Show`, `Tell` or nothing, and every
  other step to nothing. That a shown line was written is `Numbers`; that it is
  new and next in its pipe is `LinesInOrder` of the state it leads to; that the
  end is not told early needs `EndIsTrue`: a done, on the wire, in the buffer
  or still owed, is about a task that has ended, and so is a socket that
  remembers the row as ended. `LinesInOrder` has no run of its own, as a
  screen that grows by `Show` alone is in order.
- `BrowserProofs`, of the stream hook: `TypeCorrect`, `OneAttempt`,
  `FinishedRests`, `IndicatorTrue`. `InStep` relates the flags, the timer and the socket at each
  stage of the effect; `Calm` says that no old socket can still schedule a
  retry, which the first clean-up of a live socket ends (section 4), and that
  after a "done" the flag which keeps the close from retrying is set, or a
  render that sets it is still to come and the socket still open, unless the
  close has overtaken it.
- `BrowserProofs`, of the create dialog: `DialogTypeCorrect`,
  `TemplatesFaithful` (`[]TemplatesReproduce`), `ShownIsRun`
  (`[]RunsWhatWasShown`), `OfferAccepted` (`[]OfferedIsAccepted`), for any
  agents, capabilities, tags, names, openings and bounds. The invariant is
  `DialogTypeOK`, which says among other things that whatever a form, a
  template or a request holds is something the server's rules know
  (`OptionsFit`), with statements about history: `TemplatesAsk`, that a
  template's data say what its form asked for; `Kept`, that a form holds options
  no field shows only at their defaults or from a task run again; `PendingIsHonest`,
  that the request under way is the one its fields showed; `OfferStands`, that
  agents which were on offer are active and capable as long as nobody touched
  them; `TargetChecked`, that the target of a request has passed the browser's
  check, so that what the server may still refuse is listed kind by kind.
  What the form, the preview and the server write down apart is compared type
  by type, all eleven of them: `FormAgrees`, `PreviewAgrees`, `ServerSound`,
  `PortsAgree`, `MenusAgree`. The two menus that are longer on the server
  (`SOA`, `PATCH`), the ports without a default there and the limits of `Beyond`
  are the differences.
- `SessionProofs`: `TypeCorrect`, `OneRefresh`, `SignedOut`, `ExpiryInvisible`,
  for any tabs, calls, users and expiries. `Out` says that after a sign-out nothing is stored
  and no refresh is out that was not out then, `Starting` that a tab that loads
  has sent nothing, so that only a race named in `racing` signs anybody in;
  `CallsInOrder` says which token a call carries at each step; `Calm` that without a mishap a waiting call always
  has a refresh that will serve it.
- `NotificationsProofs`, over `TaskViews` and `Notifications`: `TypeCorrect`,
  `EndsAreFinal` (`Spec => EndIsFinal`), `DeletesAreTaken`
  (`[]DeleteIsNotRefused`), `Announced` (`[]AnnouncedOnce`), for any tasks,
  pages, requests, agents and events. `EndsInOrder` says that what a page shows
  or an answer under way brings as ended has ended, and that the answer is not
  older than the page; `DeletesAreOver` that a delete in question is about
  ended tasks, which never live again; `NewsInOrder` that what was there at the
  first look is not told and that an agent seen online is not known as gone.
- `ListPagesProofs`, over `OptimisticList` and the five pages: `TypeCorrect`,
  `BulkShown` (`Spec => BulkTouchesWhatIsShown`), `UndoKept`
  (`[]UndoneIsKept`), `PreviewHonest` (`[]PreviewIsHonest`), `GoneHidden`
  (`Spec => GoneStaysHidden`), for any rows, values, filters, changes under way
  and other users. `NextMoves` sorts the pages' many actions once into a change
  that begins, a look, an intrusion, a fetch and a change that advances; every
  proof is by these five cases. `Typed` adds to the types that a change under
  way is one its page offers (`WellMade`) and that a form was filled from a row
  on the page (`FormsAreFilled`). `Foreseen` follows a change that nobody
  disturbs from its click to its answer: what the page shows of its rows is
  what the server will have made of them once the requests still to do are
  done, up to tags it tidies or replaces. `Gone` (`Deleting`, `Creating`, `ToldIsGone`) says which fetches and
  which saved caches can still hold a row that the page was told is gone;
  identifiers are never used again (`Unused`).

They assume only the named assumption on the constants of each module
(`None` is none of the values, a budget is a number, what may be opened or
patched is well formed), which TLC evaluates on every run.

Model-checked only: the properties of liveness, which need ENABLED, out of the
prover's reach here. Two models were put differently so that they could be
reasoned about: the option tables of `TaskOptions` are spelled out as records
and joined by `Over`, and the definitions of `CreateTask` that other modules
have too carry the dialog's name.

## 6 What is not modelled

`PROJECT.json` gives the reason for each component. Left for a later extension
are those of the plan below. Left out for good are pages that only poll and
draw, translations, deployment, metrics, audit rows, statistics, text parsing:
they hold no state another step depends on. Within the modelled components:
result payloads, chunk texts, passwords, sort orders, pins and the columns
shown; several server processes (the deployment runs one); PostgreSQL isolation
beyond READ COMMITTED row updates; Redis failing; the moment between 30 s
timeouts and their reports is not measured, any order is allowed. TanStack
Query, React and the browser are external: they are modelled from how the pages
use them (a mutation outlives its page, an interval rests in a hidden tab, a
cancelled query drops its answer).

`LiveStream` treats a settled task as settled for good; that `TaskLifecycle`
lets a stale chunk revive it is shown there, and so is what may come between the result handler's
check and its commit, which are one step here. `TaskViews` treats ends as final
too: with revived tasks no page could keep its word. `Scheduler` reads a
schedule's agents at once (`Resolved`), though the code asks tag by tag: which
agents are found is left open there in any case. A page that awaits
`cancelQueries` before it patches does both in one step of `OptimisticList`:
that await ends before the browser takes up another event. `BufferMax` and `GiveUpAfter` are
small so that both limits are reached.

## 7 Plan

Done, in this order because a task's row is what everything else reports on:
`TaskLifecycle` with its contract and proofs, `StreamHook`, `LiveStream`,
`Scheduler`, `AgentWorkers`, `AgentIdentity`, `Inbox`; the browser, where most of the
code is: `OptimisticList` and its pages, `Session`, `TaskOptions` and
`CreateTask`, `TaskViews`, `Notifications`; and the proofs of section 5. What
could come next:

1. `UserAdmin` (two administrators), `RateLimit`, `StatusCache`, `PresetRuns`:
   small concurrent components of the server.
2. `Availability`, `Trends` as operators, checked against reference definitions
   over bounded inputs; the scans' worker pools.
3. An abstract specification for the agent: a counting semaphore that
   `AgentWorkers` implements, for the workers and for each gate.
4. Theorems: the refinement of 3; the safety facts that the properties of
   liveness rest on, such as that a call that waits has a refresh under way and
   that a task that waits at a gate waits for one that waits for nothing.

## 8 Running it

    tlc -workers 2 -config task_races.cfg MCTaskLifecycle.tla
    tlc -workers 2 -config views.cfg MCTaskViews.tla
    tlapm TaskLifecycleProofs.tla
    tlapm ListPagesProofs.tla

A cfg's run and module are listed in `PROJECT.json`; the longest take about
two minutes.
