---------------------------- MODULE SchedulesPage ----------------------------
(* pages/Schedules.tsx: the list of schedules.                              *)
EXTENDS OptimisticList

CanEdit == role \in {"operator", "admin"}

\* Pause or resume.  No button waits for the request before.
ToggleMut(i) ==
  \E s \in Slots :
    Click(Optimistic(s, "mutation", IF cache[i].status = "enabled" THEN "paused"
                                    ELSE "enabled", {i}, NoTags), selected)
TriggerMut(i) == \E s \in Slots : Click(Plain(s, "trigger", i, {}), selected)

\* The create form: a new row, shown when the refetch brings it.
CreateSchedule(i) ==
  /\ Unused(i)
  /\ \E s \in Slots : Click(Plain(s, "create", i, {}), selected)

ScheduleRow(i) == ToggleMut(i) \/ TriggerMut(i) \/ Question(i)

SchedulesUser ==
  /\ CanEdit
  /\ \E i \in Ids : CreateSchedule(i) \/ (i \in Visible /\ ScheduleRow(i))

SchedulesOutside ==
  \E i \in Ids :
    /\ rows[i] # None
    /\ \/ OutsideWrites(i, Served(IF rows[i].status = "enabled" THEN "paused"
                                  ELSE "enabled", {}, rows[i]))
       \/ OutsideWrites(i, None)
=============================================================================
