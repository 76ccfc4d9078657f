---------------------------- MODULE MCLiveStream ----------------------------
(* LiveStream for TLC.  The buffer of 5000 lines is cut to a few, so that it *)
(* overflows.                                                               *)
EXTENDS LiveStream

Pipes == {"stdout", "stderr"}
Plan(lines) ==
  [lines |-> [r \in 1..MaxRuns |-> [s \in Stream |->
                IF r > Len(lines) THEN 0
                ELSE IF s = "stdout" THEN lines[r].out ELSE lines[r].err]],
   runs |-> Len(lines)]
Lines(out, err) == [out |-> out, err |-> err]

\* Both pipes of one run, or one pipe of a task that is handed out twice.
PipesOrRerun == {Plan(<<Lines(2, 1)>>),
                 Plan(<<Lines(2, 0), Lines(1, 0)>>),
                 Plan(<<Lines(1, 0), Lines(2, 0)>>)}
=============================================================================
