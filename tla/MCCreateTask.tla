----------------------------- MODULE MCCreateTask -----------------------------
(* CreateTask for TLC: an agent that runs anything and one that only pings. *)
EXTENDS CreateTask

CONSTANTS a, p

TwoAgents  == {a, p}
Caps       == a :> {} @@ p :> {"ping"}
AgentsTags == a :> {"eu"} @@ p :> {"eu"}

\* A page that opens the form as it is, one that runs on an agent, two that run a
\* task again, with an option that no field shows.
SomePages == {{<<>>}, {[mode |-> "agents", ids |-> {a}]},
              {[type |-> "dns", target |-> "host", opts |-> [record_type |-> "SOA"],
                mode |-> "agents", ids |-> {a}]},
              {[type |-> "ping", target |-> "host", opts |-> [size_bytes |-> 8],
                mode |-> "agents", ids |-> {a, p}]}}
=============================================================================
