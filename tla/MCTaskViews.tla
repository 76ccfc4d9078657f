----------------------------- MODULE MCTaskViews -----------------------------
(* Notifications and TaskViews for TLC: a group of two tasks, one agent; a  *)
(* user at work on the pages, one who may only look, one who waits to be     *)
(* told of failures, one who waits for agents, and one who tries the bell.  *)
EXTENDS Notifications

CONSTANTS t, u, a

Group == {t, u}
One   == {t}
Alone == {a}

Events(clicks, lost, others, tab, bell, flaps, looks) ==
  [clicks |-> clicks, lost |-> lost, others |-> others, tab |-> tab, bell |-> bell,
   agents |-> flaps, looks |-> looks]

AtWork ==
  [role |-> "operator", settings |-> {}, granted |-> FALSE, route |-> "group",
   tasks |-> "live", budget |-> Events(2, 1, 1, 0, 0, 0, 0)]
Reader ==
  [role |-> "viewer", settings |-> {}, granted |-> FALSE, route |-> t,
   tasks |-> "live", budget |-> Events(1, 0, 1, 1, 0, 0, 0)]
Waiting ==
  [role |-> "operator", settings |-> {"enabled", "taskFailures"}, granted |-> TRUE, route |-> "list",
   tasks |-> "live", budget |-> Events(0, 0, 1, 3, 1, 0, 0)]
OnCall ==
  [role |-> "operator", settings |-> {"enabled", "agentOffline", "agentRecovered"}, granted |-> TRUE, route |-> "dashboard",
   tasks |-> "completed", budget |-> Events(0, 1, 0, 3, 1, 2, 1)]
Curious ==
  [role |-> "operator", settings |-> {}, granted |-> FALSE, route |-> "dashboard",
   tasks |-> "completed", budget |-> Events(1, 0, 0, 1, 2, 1, 1)]
Users == {AtWork, Reader, Waiting, OnCall, Curious}
=============================================================================
