---------------------------- MODULE Notifications ----------------------------
(***************************************************************************)
(* Browser notifications: hooks/useTaskNotifications.ts watches the list   *)
(* of recent failures and the agents, lib/notifications.ts tells the user  *)
(* while the tab is in the back, the bell of the navigation bar keeps the  *)
(* settings in localStorage, which another tab may change too.             *)
(***************************************************************************)
EXTENDS TaskViews

CONSTANTS
  Agents,    \* agents that are approved
  Recent,    \* how many failures the statistics list: 10
  Openings   \* how a tab may be opened: the user's role, the settings stored,
             \* the permission, the page, the tasks, and the events to come

Switches == {"enabled", "taskFailures", "agentOffline", "agentRecovered"}

ASSUME NotificationsAssumption ==
  /\ Recent \in Nat \ {0}
  /\ None \notin {"offline", "recovered", "twice"}
  /\ \A o \in Openings :
       /\ o.role \in {"viewer", "operator", "admin"} /\ o.granted \in BOOLEAN
       /\ o.settings \subseteq Switches
       /\ o.route \in Routes /\ o.tasks \in Statuses /\ o.budget \in [Kinds -> Nat]

VARIABLES
  settings,   \* localStorage: the switches that are on
  panel,      \* the bell's copy
  granted,    \* the browser's permission
  up,         \* agents that send heartbeats
  stats,      \* query: the failures listed
  statsFetch,
  agents,     \* query: the agents that are online
  agentsFetch,
  used,       \* settings at the hook's last render
  ready,      \* what the hook has looked at for the first time
  seen,       \* failures it has seen
  last,       \* agents it has seen online at its last look
  told,       \* history: failures announced
  history,    \* history: failures listed at the first look
  news,       \* history: each agent's last announcement
  again       \* history: failures announced twice

hookVars == <<used, ready, seen, last, told, history, news, again>>
bellVars == <<settings, panel, granted>>
pollVars == <<stats, statsFetch, agents, agentsFetch>>
vars     == <<viewVars, hookVars, bellVars, pollVars, up>>

ViewsButBudget ==
  <<role, task, failed, visible, route, data, fetch, wrong, ask, call>>

AgentSwitches == {"agentOffline", "agentRecovered"}
NothingAsked == [step |-> "none", got |-> {}]

Init ==
  /\ ViewsInit
  /\ \E o \in Openings :
       /\ role = o.role /\ settings = o.settings /\ granted = o.granted
       /\ route = o.route /\ task = [t \in Tasks |-> o.tasks] /\ budget = o.budget
  /\ panel = settings
  /\ up = Agents
  /\ stats = None
  /\ statsFetch = NothingAsked
  /\ agents = None
  /\ agentsFetch = NothingAsked
  /\ used = settings
  /\ ready = {}
  /\ seen = {}
  /\ last = {}
  /\ told = {}
  /\ history = {}
  /\ news = [a \in Agents |-> None]
  /\ again = {}

-----------------------------------------------------------------------------
(* The hook.                                                               *)

\* notify(): nothing in a tab that is in front, or without permission.
Announces == granted /\ ~ visible

\* Read from localStorage by every render.
LoadSettings == settings

WatchesFailures(on) == {"enabled", "taskFailures"} \subseteq on
WatchesAgents(on)   == "enabled" \in on /\ on \intersect AgentSwitches # {}

Look(fresh, listed, remembered) ==
  LET loud == IF Announces THEN fresh ELSE {}
  IN /\ seen' = remembered
     /\ history' = IF "failures" \in ready THEN history ELSE listed
     /\ told' = told \union loud
     /\ again' = again \union (loud \intersect told)

\* mutant: only the failures of the last look are remembered
RemembersLast(listed) ==
  Look(IF "failures" \in ready THEN listed \ seen ELSE {}, listed, listed)

\* The first look only remembers; later looks announce what is new.
LookAtFailures(listed) ==
  Look(IF "failures" \in ready THEN listed \ seen ELSE {}, listed, seen \union listed)

News(gone, back, online) ==
  news' = [a \in Agents |->
    IF Announces /\ a \in gone THEN (IF news[a] \in {"offline", "twice"} THEN "twice" ELSE "offline")
    ELSE IF Announces /\ a \in back THEN "recovered"
    ELSE IF a \in online THEN None ELSE news[a]]

\* Online or not as of the last look, announced or not.
LookAtAgents(on, online) ==
  LET look == "agents" \in ready
  IN /\ last' = online
     /\ News(IF look /\ "agentOffline" \in on THEN last \ online ELSE {},
             IF look /\ "agentRecovered" \in on THEN online \ last ELSE {}, online)

\* A render.  An effect runs when its data is new or its switches changed; an
\* agent's heartbeat is compared with the clock then, so that a list nobody
\* polls any more may be read as everyone being offline.
Render(newStats, newAgents) ==
  LET on == LoadSettings
      failures == /\ stats' # None /\ WatchesFailures(on)
                  /\ newStats \/ ~ WatchesFailures(used)
      states   == /\ agents' # None /\ WatchesAgents(on)
                  /\ newAgents \/ on \ {"taskFailures"} # used \ {"taskFailures"}
  IN /\ used' = on
     /\ IF failures THEN LookAtFailures(stats') ELSE UNCHANGED <<seen, history, told, again>>
     /\ IF states
        THEN \E online \in IF newAgents \/ (visible /\ WatchesAgents(used))
                           THEN {agents'} ELSE SUBSET agents' : LookAtAgents(on, online)
        ELSE UNCHANGED <<last, news>>
     /\ ready' = ready \union (IF failures THEN {"failures"} ELSE {})
                       \union (IF states THEN {"agents"} ELSE {})

-----------------------------------------------------------------------------
(* Its two queries, which other pages share.                               *)

StatsEnabled  == WatchesFailures(used)
AgentsEnabled == WatchesAgents(used)

\* The interval, in a tab that is in front; the dashboard and the
\* page of agents poll the same keys.
AskStats ==
  /\ statsFetch.step = "none"
  /\ visible
  /\ \/ StatsEnabled /\ UNCHANGED budget
     \/ ~ StatsEnabled /\ route = "dashboard" /\ Act("looks")
  /\ statsFetch' = [step |-> "asked", got |-> {}]
  /\ UNCHANGED <<ViewsButBudget, hookVars, bellVars, up, stats, agents, agentsFetch>>

AskAgents ==
  /\ agentsFetch.step = "none"
  /\ visible
  /\ \/ AgentsEnabled /\ UNCHANGED budget
     \/ ~ AgentsEnabled /\ route = "dashboard" /\ Act("looks")
  /\ agentsFetch' = [step |-> "asked", got |-> {}]
  /\ UNCHANGED <<ViewsButBudget, hookVars, bellVars, up, stats, agents, statsFetch>>

\* Those that finished last, of those that are still there.
RecentFailures ==
  LET there(i) == task[failed[i]] # None
      recent   == {i \in DOMAIN failed : there(i) /\ Cardinality({j \in 1..i : there(j)}) <= Recent}
  IN {failed[i] : i \in recent}

ReadStats ==
  /\ statsFetch.step = "asked"
  /\ statsFetch' = [step |-> "read", got |-> RecentFailures]
  /\ UNCHANGED <<viewVars, hookVars, bellVars, up, stats, agents, agentsFetch>>

ReadAgents ==
  /\ agentsFetch.step = "asked"
  /\ agentsFetch' = [step |-> "read", got |-> up]
  /\ UNCHANGED <<viewVars, hookVars, bellVars, up, stats, agents, statsFetch>>

\* New data renders the hook; its effects look at it then.
StatsAnswer ==
  /\ statsFetch.step = "read"
  /\ stats' = statsFetch.got
  /\ statsFetch' = NothingAsked
  /\ UNCHANGED <<viewVars, bellVars, up, agents, agentsFetch>>
  /\ Render(TRUE, FALSE)

AgentsAnswer ==
  /\ agentsFetch.step = "read"
  /\ agents' = agentsFetch.got
  /\ agentsFetch' = NothingAsked
  /\ UNCHANGED <<viewVars, bellVars, up, stats, statsFetch>>
  /\ Render(FALSE, TRUE)

\* A query is not answered; it keeps its data.
NoAnswer ==
  /\ Act("lost")
  /\ \/ statsFetch.step # "none" /\ statsFetch' = NothingAsked /\ UNCHANGED agentsFetch
     \/ agentsFetch.step # "none" /\ agentsFetch' = NothingAsked /\ UNCHANGED statsFetch
  /\ UNCHANGED <<ViewsButBudget, hookVars, bellVars, up, stats, agents>>

\* An agent falls silent, or is heard of again.
Flap(a) ==
  /\ Act("agents")
  /\ up' = IF a \in up THEN up \ {a} ELSE up \union {a}
  /\ UNCHANGED <<ViewsButBudget, hookVars, bellVars, pollVars>>

-----------------------------------------------------------------------------
(* The bell.                                                               *)

\* patch() writes the bell's copy over what is stored.
Patch(next) == panel' = next /\ settings' = next

Rest == <<ViewsButBudget, hookVars, pollVars, up>>

\* The browser asks; the answer is kept for good.
OnEnable ==
  /\ visible /\ ~ granted
  /\ Act("bell")
  /\ granted' = TRUE
  /\ Patch(panel \union {"enabled"})
  /\ UNCHANGED Rest

Toggle(w) ==
  /\ visible /\ granted
  /\ Act("bell")
  /\ w # "enabled" => "enabled" \in panel
  /\ Patch((panel \ {w}) \union ({w} \ panel))
  /\ UNCHANGED <<Rest, granted>>

\* The bell of another tab, which writes its own copy.
OtherTab(w) ==
  /\ Act("bell")
  /\ settings' = (settings \ {w}) \union ({w} \ settings)
  /\ UNCHANGED <<Rest, granted, panel>>

\* The router renders the hook with the page, whose bell is a new one.
Routed ==
  /\ UNCHANGED <<settings, granted, pollVars, up>>
  /\ panel' = settings
  /\ Render(FALSE, FALSE)

Visit(r) == Navigate(r) /\ Routed

\* A delete that was answered leads to the list.
Answered(s) ==
  /\ Answering(s)
  /\ IF route' # route THEN Routed
     ELSE UNCHANGED <<hookVars, bellVars, pollVars, up>>

-----------------------------------------------------------------------------
PagesOnly(step) == step /\ UNCHANGED <<hookVars, bellVars, pollVars, up>>

Next ==
  \/ PagesOnly(ViewsStep)
  \/ PagesOnly(SwitchTab)
  \/ \E s \in Slots : Answered(s)
  \/ \E r \in Routes : Visit(r)
  \/ AskStats \/ ReadStats \/ StatsAnswer
  \/ AskAgents \/ ReadAgents \/ AgentsAnswer
  \/ NoAnswer
  \/ \E a \in Agents : Flap(a)
  \/ OnEnable
  \/ \E w \in Switches : Toggle(w) \/ OtherTab(w)

Spec == Init /\ [][Next]_vars

\* Intervals fire in a tab that is in front; requests are answered or fail.
FairSpec ==
  /\ Spec
  /\ \A p \in Views : WF_vars(PagesOnly(Poll(p))) /\ WF_vars(PagesOnly(Fetching(p)))
  /\ \A s \in Slots : WF_vars(Answered(s))
  /\ WF_vars(AskStats) /\ WF_vars(ReadStats \/ StatsAnswer)
  /\ WF_vars(AskAgents) /\ WF_vars(ReadAgents \/ AgentsAnswer)

-----------------------------------------------------------------------------
(* Properties.                                                             *)

(* Every variable has its type, and nothing is announced that is not        *)
(* remembered.                                                              *)
TypeOK ==
  /\ PagesTyped
  /\ settings \subseteq Switches /\ panel \subseteq Switches /\ used \subseteq Switches
  /\ granted \in BOOLEAN
  /\ stats \in (SUBSET Tasks) \union {None} /\ agents \in (SUBSET Agents) \union {None}
  /\ statsFetch \in [step : {"none", "asked", "read"}, got : SUBSET Tasks]
  /\ agentsFetch \in [step : {"none", "asked", "read"}, got : SUBSET Agents]
  /\ ready \subseteq {"failures", "agents"}
  /\ seen \subseteq Tasks /\ told \subseteq seen /\ history \subseteq seen
  /\ again \subseteq Tasks
  /\ last \subseteq Agents /\ up \subseteq Agents
  /\ news \in [Agents -> {None, "offline", "recovered", "twice"}]

(* What is announced is news.  A failure is announced once, however often   *)
(* the list of the ten latest drops it and takes it up again as others fail *)
(* or are deleted, and never if it was listed when the hook first looked,   *)
(* whatever the switches did since; an agent that has been seen offline is  *)
(* not announced as gone once more before an answer of the server has shown *)
(* it online (useTaskNotifications.ts:35-50, :77-82).                       *)
AnnouncedOnce ==
  /\ again = {}
  /\ told \intersect history = {}
  /\ \A a \in Agents : news[a] # "twice"
=============================================================================
