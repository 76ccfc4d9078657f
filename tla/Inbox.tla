-------------------------------- MODULE Inbox --------------------------------
(***************************************************************************)
(* What live output promises a viewer, with the agent's counter, the       *)
(* server, Redis and the sockets left out: a screen to which lines are     *)
(* added and from which none is taken, each a line that a process of this  *)
(* task wrote, each at most once, those of a pipe in the order they were   *)
(* written in, and an end that is shown only when the task has ended.      *)
(***************************************************************************)
EXTENDS Integers, Sequences

CONSTANTS Run, Stream   \* executions of the task, and the pipes of each

VARIABLES
  written,  \* written[r][s]: lines run r has written to pipe s
  mixed,    \* the two readers of a run have disturbed each other's count
  ended,    \* the task has ended
  screen,   \* the lines shown
  done      \* the viewer has been told of the end

vars == <<written, mixed, ended, screen, done>>

Init ==
  /\ written = [r \in Run |-> [s \in Stream |-> 0]]
  /\ mixed = FALSE
  /\ ended = FALSE
  /\ screen = <<>>
  /\ done = FALSE

\* A process writes a line.  What is mixed up stays so.
Write(r, s) ==
  /\ written' = [written EXCEPT ![r][s] = @ + 1]
  /\ mixed => mixed'
  /\ mixed' \in BOOLEAN
  /\ UNCHANGED <<ended, screen, done>>

End ==
  /\ ~ ended
  /\ ended' = TRUE
  /\ UNCHANGED <<written, mixed, screen, done>>

\* A line may be left out, but then it is not shown later, unless the count was
\* disturbed.
Show(r, s, n) ==
  /\ n <= written[r][s]
  /\ \A i \in DOMAIN screen :
       screen[i].run = r /\ screen[i].stream = s =>
         screen[i].line # n /\ (~ mixed => screen[i].line < n)
  /\ screen' = Append(screen, [run |-> r, stream |-> s, line |-> n])
  /\ UNCHANGED <<written, mixed, ended, done>>

Tell ==
  /\ ended
  /\ done' = TRUE
  /\ UNCHANGED <<written, mixed, ended, screen>>

Next ==
  \/ \E r \in Run, s \in Stream : Write(r, s)
  \/ End
  \/ \E r \in Run, s \in Stream : \E n \in 1..written[r][s] : Show(r, s, n)
  \/ Tell

Spec == Init /\ [][Next]_vars

=============================================================================
