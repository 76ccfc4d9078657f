---------------------------- MODULE MCStreamHook ----------------------------
(* StreamHook for TLC.  GIVE_UP_AFTER is 12 in the source; three failures in *)
(* a row already take every path through the close handler.                 *)
EXTENDS StreamHook

FewFailures == 3
=============================================================================
