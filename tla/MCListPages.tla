----------------------------- MODULE MCListPages -----------------------------
(* ListPages for TLC: three rows, which make one group of tasks.            *)
EXTENDS ListPages, TLC

CONSTANTS a, b, c, g

OneGroup == [i \in Ids |-> g]
AllIds   == {a, b, c}
TwoHits  == {a, b}
\* One tag as it should be, and as a script may have given it.
LowerCase == [t \in Tags |-> "eu"]
Tables == [tasks     |-> {(a :> Row("done", {}) @@ b :> Row("done", {}) @@ c :> Row("live", {}))},
           agents    |-> {(a :> Row("pending", {}) @@ b :> Row("active", {"EU"}) @@ c :> None)},
           schedules |-> {(a :> Row("enabled", {}) @@ b :> None @@ c :> None)},
           users     |-> {(a :> Row("enabled", {"admin"}) @@ b :> Row("enabled", {"operator"}) @@ c :> None)},
           targets   |-> {(a :> Row("enabled", {"operator"}) @@ b :> None @@ c :> None)}]
NewRows == [tasks |-> {}, agents |-> {c}, schedules |-> {b}, users |-> {c}, targets |-> {b}]
FewEvents == [tasks |-> 2, agents |-> 2, schedules |-> 3, users |-> 3, targets |-> 3]
=============================================================================
