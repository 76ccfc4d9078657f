----------------------------- MODULE StreamHook -----------------------------
(***************************************************************************)
(* How the browser keeps a live stream open: the reconnect logic of        *)
(* hooks/useTaskStream.ts, and what it tells lib/wsRegistry.ts.            *)
(*                                                                         *)
(* The hook owns one WebSocket at a time, but a socket its clean-up closes *)
(* fires its close event later, when the effect may already have opened    *)
(* the next one.  All sockets share one set of refs: intentionalCloseRef,  *)
(* attemptsRef, retryTimerRef; each has a slot of its own in the registry, *)
(* which its clean-up removes.                                             *)
(***************************************************************************)
EXTENDS Integers

CONSTANTS
  GiveUpAfter,  \* GIVE_UP_AFTER
  Strict,       \* the page is mounted under StrictMode in a development build
  MaxActs       \* bound: enable and token flips, task changes, clicks on "retry now"

ASSUME HookAssumption ==
  GiveUpAfter \in Nat \ {0} /\ Strict \in BOOLEAN /\ MaxActs \in Nat

VARIABLES
  enabled,       \* the hook's argument
  ws,            \* the socket of the current effect
  stale,         \* sockets closed by a clean-up, their close event to come
  intentional,   \* intentionalCloseRef
  late,          \* the updater of a "done" message waits for the next render
  attempts,      \* attemptsRef
  timer,         \* retryTimerRef names a timer that will fire
  lostTimers,    \* timers that will fire though retryTimerRef no longer names them
  slot,          \* what the registry says of the current effect, or "none"
  shown,         \* the fields of LiveState, all queued updates applied
  token,         \* the browser holds an access token
  acts,          \* history: what the user did
  disturbed,     \* history: a clean-up has closed a live socket
  overtook       \* history: a close was handled before the "done" it followed

vars == <<enabled, ws, stale, intentional, late, attempts, timer, lostTimers,
          slot, shown, token, acts, disturbed, overtook>>

Live   == {"connecting", "open"}
Shown  == [connected : BOOLEAN, reconnecting : BOOLEAN, error : BOOLEAN,
           done : BOOLEAN]
Fresh  == [connected |-> FALSE, reconnecting |-> FALSE, error |-> FALSE,
           done |-> FALSE]
One(b) == IF b THEN 1 ELSE 0

\* The page has just been mounted; StrictMode runs effect, clean-up, effect.
Init ==
  /\ enabled = TRUE
  /\ ws = "connecting"
  /\ stale = One(Strict)
  /\ intentional = FALSE
  /\ late = FALSE
  /\ attempts = 0
  /\ timer = FALSE
  /\ lostTimers = 0
  /\ slot = "connecting"
  /\ shown = Fresh
  /\ token = TRUE
  /\ acts = 0
  /\ disturbed = Strict
  /\ overtook = FALSE

-----------------------------------------------------------------------------
\* The effect's clean-up: close the socket, drop the timer.
CleanUp ==
  /\ stale' = stale + One(ws \in Live)
  /\ disturbed' = (disturbed \/ ws \in Live)
  /\ timer' = FALSE

\* The effect's body: a new socket, or nothing for a user who is signed out.
OpenSocket ==
  /\ ws' = IF token THEN "connecting" ELSE "none"
  /\ slot' = ws'
  /\ intentional' = ~ token

\* The effect runs again: the render before it applies what is queued, then
\* come the clean-up and the body.
Reopen ==
  /\ CleanUp
  /\ late' = FALSE
  /\ OpenSocket

\* mutant: the close of a finished stream is retried as well
OnCloseAlways(e) ==
  /\ attempts' = attempts + 1
  /\ shown' = [shown EXCEPT !.connected = FALSE, !.error = @ \/ e,
                            !.reconnecting = attempts < GiveUpAfter]
  /\ IF attempts >= GiveUpAfter THEN UNCHANGED <<timer, lostTimers>>
     ELSE timer' = TRUE /\ lostTimers' = lostTimers + One(timer)

\* What onclose tells the registry of its own socket's slot.
UpdateWS == slot' = IF intentional THEN "closed"
                    ELSE IF attempts >= GiveUpAfter THEN "error" ELSE "reconnecting"

\* The onclose handler; e: onerror ran before it.
OnClose(e) ==
  IF intentional
  THEN /\ shown' = [shown EXCEPT !.connected = FALSE, !.reconnecting = FALSE,
                                 !.error = @ \/ e]
       /\ UNCHANGED <<attempts, timer, lostTimers>>
  ELSE /\ attempts' = attempts + 1
       /\ IF attempts >= GiveUpAfter
          THEN /\ shown' = [shown EXCEPT !.connected = FALSE, !.error = TRUE,
                                         !.reconnecting = FALSE]
               /\ UNCHANGED <<timer, lostTimers>>
          ELSE /\ shown' = [shown EXCEPT !.connected = FALSE, !.error = @ \/ e,
                                         !.reconnecting = TRUE]
               /\ timer' = TRUE
               /\ lostTimers' = lostTimers + One(timer)

-----------------------------------------------------------------------------
Opens ==
  /\ ws = "connecting"
  /\ ws' = "open"
  /\ attempts' = 0
  /\ shown' = [shown EXCEPT !.connected = TRUE, !.reconnecting = FALSE,
                            !.error = FALSE]
  /\ slot' = "open"
  /\ UNCHANGED <<enabled, stale, intentional, late, timer, lostTimers, token, acts,
                 disturbed, overtook>>

\* The task is finished; the server closes the socket right after.  The ref is
\* set by the state's updater, which runs at once when no other update waits
\* for a render, and at the next render otherwise.
DoneArrives ==
  /\ ws = "open"
  /\ shown' = [shown EXCEPT !.done = TRUE, !.reconnecting = FALSE]
  /\ \/ intentional' = TRUE /\ overtook' = FALSE /\ UNCHANGED late
     \/ late' = TRUE /\ UNCHANGED <<intentional, overtook>>
  /\ UNCHANGED <<enabled, ws, stale, attempts, timer, lostTimers, slot, token, acts,
                 disturbed>>

\* The render that runs a waiting updater.
Render ==
  /\ late
  /\ late' = FALSE
  /\ intentional' = TRUE
  /\ overtook' = (overtook /\ ws # "open")
  /\ UNCHANGED <<enabled, ws, stale, attempts, timer, lostTimers, slot, shown, token,
                 acts, disturbed>>

\* mutant: the reconnect is scheduled by onerror, before the socket is closed
ClosesOnError(e) ==
  /\ ws \in Live
  /\ OnClose(e)
  /\ UpdateWS
  /\ UNCHANGED <<enabled, ws, stale, intentional, late, token, acts, disturbed, overtook>>

\* The current socket closes under the hook.
Closes(e) ==
  /\ ws \in Live
  /\ ws' = "closed"
  /\ OnClose(e)
  /\ UpdateWS
  /\ overtook' = (overtook \/ (late /\ ~ intentional))
  /\ UNCHANGED <<enabled, stale, intentional, late, token, acts, disturbed>>

\* mutant: the close handler updates whichever slot is the hook's by then
StaleUpdatesSlot(e) ==
  /\ stale > 0
  /\ stale' = stale - 1
  /\ OnClose(e)
  /\ UpdateWS
  /\ UNCHANGED <<enabled, ws, intentional, late, token, acts, disturbed, overtook>>

\* A socket that a clean-up closed fires its close event; its slot is gone.
StaleCloses(e) ==
  /\ stale > 0
  /\ stale' = stale - 1
  /\ OnClose(e)
  /\ UNCHANGED <<enabled, ws, intentional, late, slot, token, acts, disturbed, overtook>>

\* A timer's callback sets retryTimerRef to null, whichever timer it was, and
\* asks for the effect, which does nothing while the hook is disabled.
TimerFires ==
  /\ timer \/ lostTimers > 0
  /\ \/ timer /\ UNCHANGED lostTimers
     \/ lostTimers > 0 /\ lostTimers' = lostTimers - 1 + One(timer)
  /\ IF enabled THEN Reopen
     ELSE timer' = FALSE /\ UNCHANGED <<stale, disturbed, ws, intentional, late, slot>>
  /\ UNCHANGED <<enabled, attempts, shown, token, acts, overtook>>

\* mutant: "retry now" clears the timer and forgets to ask for the effect
RetryNowOnlyResets ==
  /\ acts < MaxActs
  /\ enabled /\ ~ late
  /\ shown.reconnecting \/ (shown.error /\ ~ shown.done)
  /\ acts' = acts + 1
  /\ attempts' = 0
  /\ timer' = FALSE
  /\ UNCHANGED <<enabled, ws, stale, intentional, late, lostTimers, slot, shown, token,
                 disturbed, overtook>>

\* "Retry now" is on the page while a reconnect is pending or the stream lost.
RetryNow ==
  /\ acts < MaxActs
  /\ enabled /\ ~ late
  /\ shown.reconnecting \/ (shown.error /\ ~ shown.done)
  /\ acts' = acts + 1
  /\ attempts' = 0
  /\ Reopen
  /\ UNCHANGED <<enabled, lostTimers, shown, token, overtook>>

\* The page turns to another task: the effect runs again and the state is reset.
SwitchTask ==
  /\ acts < MaxActs
  /\ enabled
  /\ acts' = acts + 1
  /\ Reopen
  /\ attempts' = 0
  /\ shown' = Fresh
  /\ overtook' = FALSE
  /\ UNCHANGED <<enabled, lostTimers, token>>

Disable ==
  /\ enabled
  /\ enabled' = FALSE
  /\ CleanUp
  /\ ws' = "none"
  /\ slot' = "none"
  /\ intentional' = TRUE
  /\ late' = FALSE
  /\ attempts' = 0
  /\ shown' = Fresh
  /\ overtook' = FALSE
  /\ UNCHANGED <<lostTimers, token, acts>>

Enable ==
  /\ acts < MaxActs
  /\ ~ enabled
  /\ acts' = acts + 1
  /\ enabled' = TRUE
  /\ OpenSocket
  /\ attempts' = 0
  /\ shown' = Fresh
  /\ UNCHANGED <<stale, late, timer, lostTimers, token, disturbed, overtook>>

\* The tokens of the browser are dropped, or another tab signs in again.
TokenFlips ==
  /\ acts < MaxActs
  /\ acts' = acts + 1
  /\ token' = ~ token
  /\ UNCHANGED <<enabled, ws, stale, intentional, late, attempts, timer, lostTimers,
                 slot, shown, disturbed, overtook>>

Network == DoneArrives \/ \E e \in BOOLEAN : Closes(e)
User    == RetryNow \/ SwitchTask \/ Disable \/ Enable \/ TokenFlips
Stale   == \E e \in BOOLEAN : StaleCloses(e)

Next == Opens \/ Network \/ Render \/ Stale \/ TimerFires \/ User

Spec == Init /\ [][Next]_vars

\* React renders, timers fire, close events are delivered and a connection
\* attempt ends.
Fairness ==
  /\ WF_vars(Render)
  /\ WF_vars(TimerFires)
  /\ WF_vars(Stale)
  /\ WF_vars(Opens \/ \E e \in BOOLEAN : ws = "connecting" /\ Closes(e))

FairSpec == Spec /\ Fairness

-----------------------------------------------------------------------------
(* Properties.                                                             *)

Timers == One(timer) + lostTimers

(* Every variable has its type. *)
TypeOK ==
  /\ enabled \in BOOLEAN
  /\ ws \in {"none", "closed"} \union Live
  /\ stale \in Nat
  /\ intentional \in BOOLEAN
  /\ late \in BOOLEAN
  /\ attempts \in Nat
  /\ timer \in BOOLEAN
  /\ lostTimers \in Nat
  /\ slot \in {"none", "closed", "error", "reconnecting"} \union Live
  /\ shown \in Shown
  /\ token \in BOOLEAN
  /\ acts \in Nat
  /\ disturbed \in BOOLEAN
  /\ overtook \in BOOLEAN

(* Until a clean-up closes a live socket there is one attempt at a time: a  *)
(* socket or a timer, never both and never two, through any failures,       *)
(* retries and flips of enabled (useTaskStream.ts:123-160).                 *)
OneAttemptAtATime == ~ disturbed => One(ws \in Live) + Timers <= 1

(* A stream the server has finished is not retried, unless the socket's    *)
(* close, which the server sends right behind the "done", is handled before *)
(* React has rendered the "done"; and when the page says the stream is lost *)
(* nothing is still trying, so "retry now" is the only way on              *)
(* (useTaskStream.ts:98-112, :126-143, task_live.py:79-82).                 *)
FinishedStreamRests ==
  ~ disturbed =>
    /\ shown.done /\ ~ overtook => Timers = 0
    /\ attempts > GiveUpAfter => ws \notin Live /\ Timers = 0

(* The dot of the navigation bar tells the truth whatever sockets of the    *)
(* past still report: it is green while the hook's socket is open and then  *)
(* only, amber while something is going to try again, and until a clean-up  *)
(* closes a live socket it agrees with the page, red when the page has      *)
(* given up (wsRegistry.ts:27-31, LiveIndicator.tsx:65-92).                 *)
IndicatorIsTrue ==
  /\ slot = "none" <=> ws = "none"
  /\ ~ enabled => slot = "none"
  /\ slot = "open" <=> ws = "open"
  /\ slot = "reconnecting" => Timers > 0
  /\ ~ disturbed =>
       /\ slot = "open" <=> shown.connected
       /\ slot = "error" <=> attempts > GiveUpAfter

Settled == ws \in {"open", "none"} \/ shown.done \/ attempts > GiveUpAfter

(* The stream heals: if from some time on the network lets connections open *)
(* and stay open, and no clean-up has ever closed a live socket, the hook   *)
(* ends with an open socket for good unless the task is finished, the hook  *)
(* is off or without a token, or it has given up (useTaskStream.ts:33-36).  *)
HealsUndisturbed ==
  [](~ disturbed) /\ <>[][~ \E e \in BOOLEAN : Closes(e)]_vars => <>[]Settled

(* useTaskStream.ts:58-59: only an unexpected close triggers the reconnect  *)
(* logic, so a clean-up would change nothing of the above.                  *)
Heals == <>[][~ \E e \in BOOLEAN : Closes(e)]_vars => <>[]Settled

=============================================================================
