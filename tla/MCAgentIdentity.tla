--------------------------- MODULE MCAgentIdentity ---------------------------
(* Instances of AgentIdentity for TLC: packet generators run one at a time,  *)
(* pings are not capped, a "new" type has no runner here.                    *)
EXTENDS AgentIdentity

CONSTANTS j1, j2, j3

HpingCap == [t \in {"hping3"} |-> 1]

\* Two packet generators, a ping and a type of a newer server.
Mixed == [j \in Job |-> IF j \in {j1, j2} THEN "hping3"
                        ELSE IF j = j3 THEN "ping" ELSE "new"]

\* All the tasks for an agent that is approved and left alone; one task for an
\* agent that loses its identity; one for an agent that crashes; no task for an
\* agent that loses its identity, or an answer, and is restarted.
FourWorlds ==
  {[jobs |-> Job, admin |-> 1, mishaps |-> 0, starts |-> 0],
   [jobs |-> {j1}, admin |-> 3, mishaps |-> 0, starts |-> 0],
   [jobs |-> {j1}, admin |-> 1, mishaps |-> 1, starts |-> 1],
   [jobs |-> {}, admin |-> 2, mishaps |-> 1, starts |-> 1]}
=============================================================================
