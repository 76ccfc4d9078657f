---------------------------- MODULE BrowserProofs -----------------------------
(***************************************************************************)
(* Proofs about two parts of the browser that share no state: the hook     *)
(* that follows a task's stream (StreamHook), for every GiveUpAfter and    *)
(* any number of user actions, and the dialog that creates tasks           *)
(* (CreateTask), for any agents, capabilities, tags, openings and bounds.  *)
(***************************************************************************)
EXTENDS StreamHook, CreateTask, SequenceTheorems, TLAPS

-----------------------------------------------------------------------------
(* The stream hook.                                                        *)

(* The socket, the registry's slot and the hook's argument agree whatever   *)
(* has happened.                                                            *)
InStep ==
  /\ slot = "none" <=> ws = "none"
  /\ ~ enabled => ws = "none"
  /\ ws \in Live => slot = ws
  /\ slot \in Live => ws = slot
  /\ slot = "reconnecting" => timer \/ lostTimers > 0

(* Until a clean-up has closed a live socket, no socket of the past is left *)
(* to speak, every timer is named, and the page agrees with the socket; the *)
(* end of a stream keeps its close from being retried, or will have by the  *)
(* next render, unless the close came first.                                *)
Calm ==
  /\ stale = 0 /\ lostTimers = 0
  /\ timer <=> slot = "reconnecting"
  /\ timer => ws = "closed"
  /\ shown.connected <=> ws = "open"
  /\ ws = "open" => ~ shown.reconnecting
  /\ shown.done /\ ~ overtook =>
       /\ intentional \/ (late /\ ws = "open")
       /\ ~ shown.reconnecting /\ ws \in {"open", "closed"} /\ ~ timer
  /\ attempts > GiveUpAfter <=> slot = "error"

IInv == TypeOK /\ InStep /\ (~ disturbed => Calm)

LEMMA CleanUpFacts ==
  ASSUME TypeOK, CleanUp
  PROVE  /\ stale' \in Nat /\ timer' = FALSE /\ disturbed' \in BOOLEAN
         /\ ~ disturbed' => ~ disturbed /\ ws \notin Live /\ stale' = stale
<1>1. disturbed' \in BOOLEAN
  BY Zenon DEF CleanUp
<1>2. stale' \in Nat /\ timer' = FALSE
  BY DEF CleanUp, TypeOK, One
<1>3. ASSUME ~ disturbed' PROVE ~ disturbed /\ ws \notin Live
  BY <1>3, Zenon DEF CleanUp
<1>4. ASSUME ~ disturbed' PROVE stale' = stale
  BY <1>3, <1>4 DEF CleanUp, One, TypeOK
<1> QED BY <1>1, <1>2, <1>3, <1>4

(* The close handler's three ways out.                                      *)
LEMMA OnCloseFacts ==
  ASSUME TypeOK, NEW e \in BOOLEAN, OnClose(e)
  PROVE  /\ shown' \in Shown /\ attempts' \in Nat /\ timer' \in BOOLEAN /\ lostTimers' \in Nat
         /\ shown'.connected = FALSE /\ shown'.done = shown.done
         /\ intentional => /\ shown'.reconnecting = FALSE
                           /\ attempts' = attempts /\ timer' = timer /\ lostTimers' = lostTimers
         /\ ~ intentional =>
              /\ attempts' = attempts + 1
              /\ attempts >= GiveUpAfter => timer' = timer /\ lostTimers' = lostTimers
              /\ ~ (attempts >= GiveUpAfter) => timer' = TRUE /\ lostTimers' = lostTimers + One(timer)
<1>0. (shown.error \/ e) \in BOOLEAN
  BY Zenon
<1>1. CASE intentional
  <2>1. shown' = [shown EXCEPT !.connected = FALSE, !.reconnecting = FALSE, !.error = @ \/ e]
    BY <1>1 DEF OnClose
  <2>2. shown' \in Shown /\ shown'.connected = FALSE /\ shown'.reconnecting = FALSE
        /\ shown'.done = shown.done
    BY <1>0, <2>1 DEF Shown, TypeOK
  <2>3. UNCHANGED <<attempts, timer, lostTimers>>
    BY <1>1 DEF OnClose
  <2> QED BY <1>1, <2>2, <2>3 DEF TypeOK
<1>2. CASE ~ intentional /\ attempts >= GiveUpAfter
  <2>1. shown' = [shown EXCEPT !.connected = FALSE, !.error = TRUE, !.reconnecting = FALSE]
    BY <1>2 DEF OnClose
  <2>2. shown' \in Shown /\ shown'.connected = FALSE /\ shown'.done = shown.done
    BY <2>1 DEF Shown, TypeOK
  <2>3. attempts' = attempts + 1 /\ UNCHANGED <<timer, lostTimers>>
    BY <1>2 DEF OnClose
  <2> QED BY <1>2, <2>2, <2>3 DEF TypeOK
<1>3. CASE ~ intentional /\ ~ (attempts >= GiveUpAfter)
  <2>1. shown' = [shown EXCEPT !.connected = FALSE, !.error = @ \/ e, !.reconnecting = TRUE]
    BY <1>3 DEF OnClose
  <2>2. shown' \in Shown /\ shown'.connected = FALSE /\ shown'.done = shown.done
    BY <1>0, <2>1 DEF Shown, TypeOK
  <2>3. attempts' = attempts + 1 /\ timer' = TRUE /\ lostTimers' = lostTimers + One(timer)
    BY <1>3 DEF OnClose
  <2>4. attempts' \in Nat /\ timer' \in BOOLEAN /\ lostTimers' \in Nat
    BY <2>3 DEF TypeOK, One
  <2> QED BY <1>3, <2>2, <2>3, <2>4
<1> QED BY <1>1, <1>2, <1>3

-----------------------------------------------------------------------------
LEMMA IInvInit == Init => IInv
<1> USE HookAssumption
<1> SUFFICES ASSUME Init PROVE IInv
  OBVIOUS
<1>1. TypeOK
  BY DEF Init, TypeOK, Live, Shown, Fresh, One
<1>2. InStep
  BY DEF Init, InStep, Live
<1>3. ~ disturbed => Calm
  BY DEF Init, Calm, Fresh, One
<1> QED BY <1>1, <1>2, <1>3 DEF IInv

LEMMA IInvStep == IInv /\ [Next]_vars => IInv'
<1> USE HookAssumption
<1> SUFFICES ASSUME IInv, [Next]_vars PROVE IInv'
  OBVIOUS
<1>0. TypeOK /\ InStep /\ (~ disturbed => Calm)
  BY DEF IInv
<1>1. ASSUME Opens PROVE IInv'
  <2>1. TypeOK'
    <3>1. shown' \in Shown
      BY <1>0, <1>1 DEF Opens, TypeOK, Shown, Fresh
    <3>2. /\ enabled' \in BOOLEAN /\ intentional' \in BOOLEAN /\ late' \in BOOLEAN
          /\ token' \in BOOLEAN /\ overtook' \in BOOLEAN
          /\ timer' \in BOOLEAN /\ disturbed' \in BOOLEAN
      BY <1>0, <1>1 DEF Opens, TypeOK
    <3>3. stale' \in Nat /\ attempts' \in Nat /\ lostTimers' \in Nat /\ acts' \in Nat
      BY <1>0, <1>1 DEF Opens, TypeOK, One
    <3>4. /\ ws' \in {"none", "closed"} \union Live
          /\ slot' \in {"none", "closed", "error", "reconnecting"} \union Live
      BY <1>0, <1>1 DEF Opens, TypeOK, Live
    <3> QED BY <3>1, <3>2, <3>3, <3>4 DEF TypeOK
  <2>2. InStep'
    BY <1>0, <1>1 DEF Opens, InStep, TypeOK, Live, One
  <2>3. ASSUME ~ disturbed' PROVE Calm'
    <3>1. Calm
      BY <1>0, <1>1, <2>3 DEF Opens, TypeOK
    <3>2. /\ stale' = 0 /\ lostTimers' = 0
          /\ timer' <=> slot' = "reconnecting"
          /\ timer' => ws' = "closed"
      BY <1>0, <1>1, <2>3, <3>1 DEF Opens, InStep, Calm, TypeOK, Live, One
    <3>3. (shown'.connected <=> ws' = "open") /\ (ws' = "open" => ~ shown'.reconnecting)
      BY <1>0, <1>1, <2>3, <3>1 DEF Opens, InStep, Calm, TypeOK, Shown, Live, Fresh
    <3>4. shown'.done /\ ~ overtook' =>
            /\ intentional' \/ (late' /\ ws' = "open")
            /\ ~ shown'.reconnecting /\ ws' \in {"open", "closed"} /\ ~ timer'
      BY <1>0, <1>1, <2>3, <3>1 DEF Opens, InStep, Calm, TypeOK, Shown, Live, Fresh
    <3>5. attempts' > GiveUpAfter <=> slot' = "error"
      BY <1>0, <1>1, <2>3, <3>1 DEF Opens, InStep, Calm, TypeOK, Live
    <3> QED BY <3>2, <3>3, <3>4, <3>5 DEF Calm
  <2> QED BY <2>1, <2>2, <2>3 DEF IInv
<1>2. ASSUME DoneArrives PROVE IInv'
  <2>1. TypeOK'
    <3>1. shown' \in Shown
      BY <1>0, <1>2 DEF DoneArrives, TypeOK, Shown, Fresh
    <3>2. /\ enabled' \in BOOLEAN /\ intentional' \in BOOLEAN /\ late' \in BOOLEAN
          /\ token' \in BOOLEAN /\ overtook' \in BOOLEAN
          /\ timer' \in BOOLEAN /\ disturbed' \in BOOLEAN
      BY <1>0, <1>2 DEF DoneArrives, TypeOK
    <3>3. stale' \in Nat /\ attempts' \in Nat /\ lostTimers' \in Nat /\ acts' \in Nat
      BY <1>0, <1>2 DEF DoneArrives, TypeOK, One
    <3>4. /\ ws' \in {"none", "closed"} \union Live
          /\ slot' \in {"none", "closed", "error", "reconnecting"} \union Live
      BY <1>0, <1>2 DEF DoneArrives, TypeOK, Live
    <3> QED BY <3>1, <3>2, <3>3, <3>4 DEF TypeOK
  <2>2. InStep'
    BY <1>0, <1>2 DEF DoneArrives, InStep, TypeOK, Live, One
  <2>3. ASSUME ~ disturbed' PROVE Calm'
    <3>1. Calm
      BY <1>0, <1>2, <2>3 DEF DoneArrives, TypeOK
    <3>2. /\ stale' = 0 /\ lostTimers' = 0
          /\ timer' <=> slot' = "reconnecting"
          /\ timer' => ws' = "closed"
      BY <1>0, <1>2, <2>3, <3>1 DEF DoneArrives, InStep, Calm, TypeOK, Live, One
    <3>3. (shown'.connected <=> ws' = "open") /\ (ws' = "open" => ~ shown'.reconnecting)
      BY <1>0, <1>2, <2>3, <3>1 DEF DoneArrives, InStep, Calm, TypeOK, Shown, Live, Fresh
    <3>4. shown'.done /\ ~ overtook' =>
            /\ intentional' \/ (late' /\ ws' = "open")
            /\ ~ shown'.reconnecting /\ ws' \in {"open", "closed"} /\ ~ timer'
      BY <1>0, <1>2, <2>3, <3>1 DEF DoneArrives, InStep, Calm, TypeOK, Shown, Live, Fresh
    <3>5. attempts' > GiveUpAfter <=> slot' = "error"
      BY <1>0, <1>2, <2>3, <3>1 DEF DoneArrives, InStep, Calm, TypeOK, Live
    <3> QED BY <3>2, <3>3, <3>4, <3>5 DEF Calm
  <2> QED BY <2>1, <2>2, <2>3 DEF IInv
<1>3. ASSUME NEW e \in BOOLEAN, Closes(e) PROVE IInv'
  <2>0. OnClose(e)
    BY <1>3 DEF Closes
  <2>f. /\ shown' \in Shown /\ attempts' \in Nat /\ timer' \in BOOLEAN /\ lostTimers' \in Nat
        /\ shown'.connected = FALSE /\ shown'.done = shown.done
        /\ intentional => /\ shown'.reconnecting = FALSE
                          /\ attempts' = attempts /\ timer' = timer /\ lostTimers' = lostTimers
        /\ ~ intentional =>
             /\ attempts' = attempts + 1
             /\ attempts >= GiveUpAfter => timer' = timer /\ lostTimers' = lostTimers
             /\ ~ (attempts >= GiveUpAfter) => timer' = TRUE /\ lostTimers' = lostTimers + One(timer)
    BY <1>0, <2>0, OnCloseFacts
  <2>1. TypeOK'
    <3>1. shown' \in Shown
      BY <1>0, <1>3, <2>f DEF Closes, UpdateWS, TypeOK, Shown, Fresh
    <3>2. /\ enabled' \in BOOLEAN /\ intentional' \in BOOLEAN /\ late' \in BOOLEAN
          /\ token' \in BOOLEAN /\ overtook' \in BOOLEAN
          /\ timer' \in BOOLEAN /\ disturbed' \in BOOLEAN
      BY <1>0, <1>3, <2>f DEF Closes, UpdateWS, TypeOK
    <3>3. stale' \in Nat /\ attempts' \in Nat /\ lostTimers' \in Nat /\ acts' \in Nat
      BY <1>0, <1>3, <2>f DEF Closes, UpdateWS, TypeOK, One
    <3>4. /\ ws' \in {"none", "closed"} \union Live
          /\ slot' \in {"none", "closed", "error", "reconnecting"} \union Live
      BY <1>0, <1>3, <2>f DEF Closes, UpdateWS, TypeOK, Live
    <3> QED BY <3>1, <3>2, <3>3, <3>4 DEF TypeOK
  <2>2. InStep'
    BY <1>0, <1>3, <2>f DEF Closes, UpdateWS, InStep, TypeOK, Live, One
  <2>3. ASSUME ~ disturbed' PROVE Calm'
    <3>1. Calm
      BY <1>0, <1>3, <2>f, <2>3 DEF Closes, UpdateWS, TypeOK
    <3>2. /\ stale' = 0 /\ lostTimers' = 0
          /\ timer' <=> slot' = "reconnecting"
          /\ timer' => ws' = "closed"
      BY <1>0, <1>3, <2>f, <2>3, <3>1 DEF Closes, UpdateWS, InStep, Calm, TypeOK, Live, One
    <3>3. (shown'.connected <=> ws' = "open") /\ (ws' = "open" => ~ shown'.reconnecting)
      BY <1>0, <1>3, <2>f, <2>3, <3>1 DEF Closes, UpdateWS, InStep, Calm, TypeOK, Shown, Live, Fresh
    <3>4. shown'.done /\ ~ overtook' =>
            /\ intentional' \/ (late' /\ ws' = "open")
            /\ ~ shown'.reconnecting /\ ws' \in {"open", "closed"} /\ ~ timer'
      BY <1>0, <1>3, <2>f, <2>3, <3>1 DEF Closes, UpdateWS, InStep, Calm, TypeOK, Shown, Live, Fresh
    <3>5. attempts' > GiveUpAfter <=> slot' = "error"
      BY <1>0, <1>3, <2>f, <2>3, <3>1 DEF Closes, UpdateWS, InStep, Calm, TypeOK, Live
    <3> QED BY <3>2, <3>3, <3>4, <3>5 DEF Calm
  <2> QED BY <2>1, <2>2, <2>3 DEF IInv
<1>4. ASSUME NEW e \in BOOLEAN, StaleCloses(e) PROVE IInv'
  <2>0. OnClose(e)
    BY <1>4 DEF StaleCloses
  <2>f. /\ shown' \in Shown /\ attempts' \in Nat /\ timer' \in BOOLEAN /\ lostTimers' \in Nat
        /\ shown'.connected = FALSE /\ shown'.done = shown.done
        /\ intentional => /\ shown'.reconnecting = FALSE
                          /\ attempts' = attempts /\ timer' = timer /\ lostTimers' = lostTimers
        /\ ~ intentional =>
             /\ attempts' = attempts + 1
             /\ attempts >= GiveUpAfter => timer' = timer /\ lostTimers' = lostTimers
             /\ ~ (attempts >= GiveUpAfter) => timer' = TRUE /\ lostTimers' = lostTimers + One(timer)
    BY <1>0, <2>0, OnCloseFacts
  <2>1. TypeOK'
    <3>1. shown' \in Shown
      BY <1>0, <1>4, <2>f DEF StaleCloses, TypeOK, Shown, Fresh
    <3>2. /\ enabled' \in BOOLEAN /\ intentional' \in BOOLEAN /\ late' \in BOOLEAN
          /\ token' \in BOOLEAN /\ overtook' \in BOOLEAN
          /\ timer' \in BOOLEAN /\ disturbed' \in BOOLEAN
      BY <1>0, <1>4, <2>f DEF StaleCloses, TypeOK
    <3>3. stale' \in Nat /\ attempts' \in Nat /\ lostTimers' \in Nat /\ acts' \in Nat
      BY <1>0, <1>4, <2>f DEF StaleCloses, TypeOK, One
    <3>4. /\ ws' \in {"none", "closed"} \union Live
          /\ slot' \in {"none", "closed", "error", "reconnecting"} \union Live
      BY <1>0, <1>4, <2>f DEF StaleCloses, TypeOK, Live
    <3> QED BY <3>1, <3>2, <3>3, <3>4 DEF TypeOK
  <2>2. InStep'
    BY <1>0, <1>4, <2>f DEF StaleCloses, InStep, TypeOK, Live, One
  <2>3. ASSUME ~ disturbed' PROVE Calm'
    <3>1. Calm
      BY <1>0, <1>4, <2>f, <2>3 DEF StaleCloses, TypeOK
    <3>2. /\ stale' = 0 /\ lostTimers' = 0
          /\ timer' <=> slot' = "reconnecting"
          /\ timer' => ws' = "closed"
      BY <1>0, <1>4, <2>f, <2>3, <3>1 DEF StaleCloses, InStep, Calm, TypeOK, Live, One
    <3>3. (shown'.connected <=> ws' = "open") /\ (ws' = "open" => ~ shown'.reconnecting)
      BY <1>0, <1>4, <2>f, <2>3, <3>1 DEF StaleCloses, InStep, Calm, TypeOK, Shown, Live, Fresh
    <3>4. shown'.done /\ ~ overtook' =>
            /\ intentional' \/ (late' /\ ws' = "open")
            /\ ~ shown'.reconnecting /\ ws' \in {"open", "closed"} /\ ~ timer'
      BY <1>0, <1>4, <2>f, <2>3, <3>1 DEF StaleCloses, InStep, Calm, TypeOK, Shown, Live, Fresh
    <3>5. attempts' > GiveUpAfter <=> slot' = "error"
      BY <1>0, <1>4, <2>f, <2>3, <3>1 DEF StaleCloses, InStep, Calm, TypeOK, Live
    <3> QED BY <3>2, <3>3, <3>4, <3>5 DEF Calm
  <2> QED BY <2>1, <2>2, <2>3 DEF IInv
<1>5. ASSUME TimerFires PROVE IInv'
  <2>1. CASE enabled
    <3>0. CleanUp
      BY <1>5, <2>1 DEF TimerFires, Reopen
    <3>f. /\ stale' \in Nat /\ timer' = FALSE /\ disturbed' \in BOOLEAN
          /\ ~ disturbed' => ~ disturbed /\ ws \notin Live /\ stale' = stale
      BY <1>0, <3>0, CleanUpFacts
    <3>1. TypeOK'
      <4>1. shown' \in Shown
        BY <1>0, <1>5, <2>1, <3>f DEF TimerFires, Reopen, OpenSocket, TypeOK, Shown, Fresh
      <4>2. /\ enabled' \in BOOLEAN /\ intentional' \in BOOLEAN /\ late' \in BOOLEAN
            /\ token' \in BOOLEAN /\ overtook' \in BOOLEAN
            /\ timer' \in BOOLEAN /\ disturbed' \in BOOLEAN
        BY <1>0, <1>5, <2>1, <3>f DEF TimerFires, Reopen, OpenSocket, TypeOK
      <4>3. stale' \in Nat /\ attempts' \in Nat /\ lostTimers' \in Nat /\ acts' \in Nat
        BY <1>0, <1>5, <2>1, <3>f DEF TimerFires, Reopen, OpenSocket, TypeOK, One
      <4>4. /\ ws' \in {"none", "closed"} \union Live
            /\ slot' \in {"none", "closed", "error", "reconnecting"} \union Live
        BY <1>0, <1>5, <2>1, <3>f DEF TimerFires, Reopen, OpenSocket, TypeOK, Live
      <4> QED BY <4>1, <4>2, <4>3, <4>4 DEF TypeOK
    <3>2. InStep'
      BY <1>0, <1>5, <2>1, <3>f DEF TimerFires, Reopen, OpenSocket, InStep, TypeOK, Live, One
    <3>3. ASSUME ~ disturbed' PROVE Calm'
      <4>1. Calm
        BY <1>0, <1>5, <2>1, <3>f, <3>3 DEF TimerFires, Reopen, OpenSocket, TypeOK
      <4>2. /\ stale' = 0 /\ lostTimers' = 0
            /\ timer' <=> slot' = "reconnecting"
            /\ timer' => ws' = "closed"
        BY <1>0, <1>5, <2>1, <3>f, <3>3, <4>1 DEF TimerFires, Reopen, OpenSocket, InStep, Calm, TypeOK, Live, One
      <4>3. (shown'.connected <=> ws' = "open") /\ (ws' = "open" => ~ shown'.reconnecting)
        BY <1>0, <1>5, <2>1, <3>f, <3>3, <4>1 DEF TimerFires, Reopen, OpenSocket, InStep, Calm, TypeOK, Shown, Live, Fresh
      <4>4. shown'.done /\ ~ overtook' =>
              /\ intentional' \/ (late' /\ ws' = "open")
              /\ ~ shown'.reconnecting /\ ws' \in {"open", "closed"} /\ ~ timer'
        BY <1>0, <1>5, <2>1, <3>f, <3>3, <4>1 DEF TimerFires, Reopen, OpenSocket, InStep, Calm, TypeOK, Shown, Live, Fresh
      <4>5. attempts' > GiveUpAfter <=> slot' = "error"
        BY <1>0, <1>5, <2>1, <3>f, <3>3, <4>1 DEF TimerFires, Reopen, OpenSocket, InStep, Calm, TypeOK, Live
      <4> QED BY <4>2, <4>3, <4>4, <4>5 DEF Calm
    <3> QED BY <3>1, <3>2, <3>3 DEF IInv
  <2>2. CASE ~ enabled
    <3>1. TypeOK'
      <4>1. shown' \in Shown
        BY <1>0, <1>5, <2>2 DEF TimerFires, TypeOK, Shown, Fresh
      <4>2. /\ enabled' \in BOOLEAN /\ intentional' \in BOOLEAN /\ late' \in BOOLEAN
            /\ token' \in BOOLEAN /\ overtook' \in BOOLEAN
            /\ timer' \in BOOLEAN /\ disturbed' \in BOOLEAN
        BY <1>0, <1>5, <2>2 DEF TimerFires, TypeOK
      <4>3. stale' \in Nat /\ attempts' \in Nat /\ lostTimers' \in Nat /\ acts' \in Nat
        BY <1>0, <1>5, <2>2 DEF TimerFires, TypeOK, One
      <4>4. /\ ws' \in {"none", "closed"} \union Live
            /\ slot' \in {"none", "closed", "error", "reconnecting"} \union Live
        BY <1>0, <1>5, <2>2 DEF TimerFires, TypeOK, Live
      <4> QED BY <4>1, <4>2, <4>3, <4>4 DEF TypeOK
    <3>2. InStep'
      BY <1>0, <1>5, <2>2 DEF TimerFires, InStep, TypeOK, Live, One
    <3>3. ASSUME ~ disturbed' PROVE Calm'
      <4>1. Calm
        BY <1>0, <1>5, <2>2, <3>3 DEF TimerFires, TypeOK
      <4>2. /\ stale' = 0 /\ lostTimers' = 0
            /\ timer' <=> slot' = "reconnecting"
            /\ timer' => ws' = "closed"
        BY <1>0, <1>5, <2>2, <3>3, <4>1 DEF TimerFires, InStep, Calm, TypeOK, Live, One
      <4>3. (shown'.connected <=> ws' = "open") /\ (ws' = "open" => ~ shown'.reconnecting)
        BY <1>0, <1>5, <2>2, <3>3, <4>1 DEF TimerFires, InStep, Calm, TypeOK, Shown, Live, Fresh
      <4>4. shown'.done /\ ~ overtook' =>
              /\ intentional' \/ (late' /\ ws' = "open")
              /\ ~ shown'.reconnecting /\ ws' \in {"open", "closed"} /\ ~ timer'
        BY <1>0, <1>5, <2>2, <3>3, <4>1 DEF TimerFires, InStep, Calm, TypeOK, Shown, Live, Fresh
      <4>5. attempts' > GiveUpAfter <=> slot' = "error"
        BY <1>0, <1>5, <2>2, <3>3, <4>1 DEF TimerFires, InStep, Calm, TypeOK, Live
      <4> QED BY <4>2, <4>3, <4>4, <4>5 DEF Calm
    <3> QED BY <3>1, <3>2, <3>3 DEF IInv
  <2> QED BY <2>1, <2>2
<1>6. ASSUME RetryNow PROVE IInv'
  <2>0. CleanUp
    BY <1>6 DEF RetryNow, Reopen
  <2>f. /\ stale' \in Nat /\ timer' = FALSE /\ disturbed' \in BOOLEAN
        /\ ~ disturbed' => ~ disturbed /\ ws \notin Live /\ stale' = stale
    BY <1>0, <2>0, CleanUpFacts
  <2>1. TypeOK'
    <3>1. shown' \in Shown
      BY <1>0, <1>6, <2>f DEF RetryNow, Reopen, OpenSocket, TypeOK, Shown, Fresh
    <3>2. /\ enabled' \in BOOLEAN /\ intentional' \in BOOLEAN /\ late' \in BOOLEAN
          /\ token' \in BOOLEAN /\ overtook' \in BOOLEAN
          /\ timer' \in BOOLEAN /\ disturbed' \in BOOLEAN
      BY <1>0, <1>6, <2>f DEF RetryNow, Reopen, OpenSocket, TypeOK
    <3>3. stale' \in Nat /\ attempts' \in Nat /\ lostTimers' \in Nat /\ acts' \in Nat
      BY <1>0, <1>6, <2>f DEF RetryNow, Reopen, OpenSocket, TypeOK, One
    <3>4. /\ ws' \in {"none", "closed"} \union Live
          /\ slot' \in {"none", "closed", "error", "reconnecting"} \union Live
      BY <1>0, <1>6, <2>f DEF RetryNow, Reopen, OpenSocket, TypeOK, Live
    <3> QED BY <3>1, <3>2, <3>3, <3>4 DEF TypeOK
  <2>2. InStep'
    BY <1>0, <1>6, <2>f DEF RetryNow, Reopen, OpenSocket, InStep, TypeOK, Live, One
  <2>3. ASSUME ~ disturbed' PROVE Calm'
    <3>1. Calm
      BY <1>0, <1>6, <2>f, <2>3 DEF RetryNow, Reopen, OpenSocket, TypeOK
    <3>2. /\ stale' = 0 /\ lostTimers' = 0
          /\ timer' <=> slot' = "reconnecting"
          /\ timer' => ws' = "closed"
      BY <1>0, <1>6, <2>f, <2>3, <3>1 DEF RetryNow, Reopen, OpenSocket, InStep, Calm, TypeOK, Live, One
    <3>3. (shown'.connected <=> ws' = "open") /\ (ws' = "open" => ~ shown'.reconnecting)
      BY <1>0, <1>6, <2>f, <2>3, <3>1 DEF RetryNow, Reopen, OpenSocket, InStep, Calm, TypeOK, Shown, Live, Fresh
    <3>4. shown'.done /\ ~ overtook' =>
            /\ intentional' \/ (late' /\ ws' = "open")
            /\ ~ shown'.reconnecting /\ ws' \in {"open", "closed"} /\ ~ timer'
      BY <1>0, <1>6, <2>f, <2>3, <3>1 DEF RetryNow, Reopen, OpenSocket, InStep, Calm, TypeOK, Shown, Live, Fresh
    <3>5. attempts' > GiveUpAfter <=> slot' = "error"
      BY <1>0, <1>6, <2>f, <2>3, <3>1 DEF RetryNow, Reopen, OpenSocket, InStep, Calm, TypeOK, Live
    <3> QED BY <3>2, <3>3, <3>4, <3>5 DEF Calm
  <2> QED BY <2>1, <2>2, <2>3 DEF IInv
<1>7. ASSUME SwitchTask PROVE IInv'
  <2>0. CleanUp
    BY <1>7 DEF SwitchTask, Reopen
  <2>f. /\ stale' \in Nat /\ timer' = FALSE /\ disturbed' \in BOOLEAN
        /\ ~ disturbed' => ~ disturbed /\ ws \notin Live /\ stale' = stale
    BY <1>0, <2>0, CleanUpFacts
  <2>1. TypeOK'
    <3>1. shown' \in Shown
      BY <1>0, <1>7, <2>f DEF SwitchTask, Reopen, OpenSocket, TypeOK, Shown, Fresh
    <3>2. /\ enabled' \in BOOLEAN /\ intentional' \in BOOLEAN /\ late' \in BOOLEAN
          /\ token' \in BOOLEAN /\ overtook' \in BOOLEAN
          /\ timer' \in BOOLEAN /\ disturbed' \in BOOLEAN
      BY <1>0, <1>7, <2>f DEF SwitchTask, Reopen, OpenSocket, TypeOK
    <3>3. stale' \in Nat /\ attempts' \in Nat /\ lostTimers' \in Nat /\ acts' \in Nat
      BY <1>0, <1>7, <2>f DEF SwitchTask, Reopen, OpenSocket, TypeOK, One
    <3>4. /\ ws' \in {"none", "closed"} \union Live
          /\ slot' \in {"none", "closed", "error", "reconnecting"} \union Live
      BY <1>0, <1>7, <2>f DEF SwitchTask, Reopen, OpenSocket, TypeOK, Live
    <3> QED BY <3>1, <3>2, <3>3, <3>4 DEF TypeOK
  <2>2. InStep'
    BY <1>0, <1>7, <2>f DEF SwitchTask, Reopen, OpenSocket, InStep, TypeOK, Live, One
  <2>3. ASSUME ~ disturbed' PROVE Calm'
    <3>1. Calm
      BY <1>0, <1>7, <2>f, <2>3 DEF SwitchTask, Reopen, OpenSocket, TypeOK
    <3>2. /\ stale' = 0 /\ lostTimers' = 0
          /\ timer' <=> slot' = "reconnecting"
          /\ timer' => ws' = "closed"
      BY <1>0, <1>7, <2>f, <2>3, <3>1 DEF SwitchTask, Reopen, OpenSocket, InStep, Calm, TypeOK, Live, One
    <3>3. (shown'.connected <=> ws' = "open") /\ (ws' = "open" => ~ shown'.reconnecting)
      BY <1>0, <1>7, <2>f, <2>3, <3>1 DEF SwitchTask, Reopen, OpenSocket, InStep, Calm, TypeOK, Shown, Live, Fresh
    <3>4. shown'.done /\ ~ overtook' =>
            /\ intentional' \/ (late' /\ ws' = "open")
            /\ ~ shown'.reconnecting /\ ws' \in {"open", "closed"} /\ ~ timer'
      BY <1>0, <1>7, <2>f, <2>3, <3>1 DEF SwitchTask, Reopen, OpenSocket, InStep, Calm, TypeOK, Shown, Live, Fresh
    <3>5. attempts' > GiveUpAfter <=> slot' = "error"
      BY <1>0, <1>7, <2>f, <2>3, <3>1 DEF SwitchTask, Reopen, OpenSocket, InStep, Calm, TypeOK, Live
    <3> QED BY <3>2, <3>3, <3>4, <3>5 DEF Calm
  <2> QED BY <2>1, <2>2, <2>3 DEF IInv
<1>8. ASSUME Disable PROVE IInv'
  <2>0. CleanUp
    BY <1>8 DEF Disable
  <2>f. /\ stale' \in Nat /\ timer' = FALSE /\ disturbed' \in BOOLEAN
        /\ ~ disturbed' => ~ disturbed /\ ws \notin Live /\ stale' = stale
    BY <1>0, <2>0, CleanUpFacts
  <2>1. TypeOK'
    <3>1. shown' \in Shown
      BY <1>0, <1>8, <2>f DEF Disable, TypeOK, Shown, Fresh
    <3>2. /\ enabled' \in BOOLEAN /\ intentional' \in BOOLEAN /\ late' \in BOOLEAN
          /\ token' \in BOOLEAN /\ overtook' \in BOOLEAN
          /\ timer' \in BOOLEAN /\ disturbed' \in BOOLEAN
      BY <1>0, <1>8, <2>f DEF Disable, TypeOK
    <3>3. stale' \in Nat /\ attempts' \in Nat /\ lostTimers' \in Nat /\ acts' \in Nat
      BY <1>0, <1>8, <2>f DEF Disable, TypeOK, One
    <3>4. /\ ws' \in {"none", "closed"} \union Live
          /\ slot' \in {"none", "closed", "error", "reconnecting"} \union Live
      BY <1>0, <1>8, <2>f DEF Disable, TypeOK, Live
    <3> QED BY <3>1, <3>2, <3>3, <3>4 DEF TypeOK
  <2>2. InStep'
    BY <1>0, <1>8, <2>f DEF Disable, InStep, TypeOK, Live, One
  <2>3. ASSUME ~ disturbed' PROVE Calm'
    <3>1. Calm
      BY <1>0, <1>8, <2>f, <2>3 DEF Disable, TypeOK
    <3>2. /\ stale' = 0 /\ lostTimers' = 0
          /\ timer' <=> slot' = "reconnecting"
          /\ timer' => ws' = "closed"
      BY <1>0, <1>8, <2>f, <2>3, <3>1 DEF Disable, InStep, Calm, TypeOK, Live, One
    <3>3. (shown'.connected <=> ws' = "open") /\ (ws' = "open" => ~ shown'.reconnecting)
      BY <1>0, <1>8, <2>f, <2>3, <3>1 DEF Disable, InStep, Calm, TypeOK, Shown, Live, Fresh
    <3>4. shown'.done /\ ~ overtook' =>
            /\ intentional' \/ (late' /\ ws' = "open")
            /\ ~ shown'.reconnecting /\ ws' \in {"open", "closed"} /\ ~ timer'
      BY <1>0, <1>8, <2>f, <2>3, <3>1 DEF Disable, InStep, Calm, TypeOK, Shown, Live, Fresh
    <3>5. attempts' > GiveUpAfter <=> slot' = "error"
      BY <1>0, <1>8, <2>f, <2>3, <3>1 DEF Disable, InStep, Calm, TypeOK, Live
    <3> QED BY <3>2, <3>3, <3>4, <3>5 DEF Calm
  <2> QED BY <2>1, <2>2, <2>3 DEF IInv
<1>9. ASSUME Enable PROVE IInv'
  <2>1. TypeOK'
    <3>1. shown' \in Shown
      BY <1>0, <1>9 DEF Enable, OpenSocket, TypeOK, Shown, Fresh
    <3>2. /\ enabled' \in BOOLEAN /\ intentional' \in BOOLEAN /\ late' \in BOOLEAN
          /\ token' \in BOOLEAN /\ overtook' \in BOOLEAN
          /\ timer' \in BOOLEAN /\ disturbed' \in BOOLEAN
      BY <1>0, <1>9 DEF Enable, OpenSocket, TypeOK
    <3>3. stale' \in Nat /\ attempts' \in Nat /\ lostTimers' \in Nat /\ acts' \in Nat
      BY <1>0, <1>9 DEF Enable, OpenSocket, TypeOK, One
    <3>4. /\ ws' \in {"none", "closed"} \union Live
          /\ slot' \in {"none", "closed", "error", "reconnecting"} \union Live
      BY <1>0, <1>9 DEF Enable, OpenSocket, TypeOK, Live
    <3> QED BY <3>1, <3>2, <3>3, <3>4 DEF TypeOK
  <2>2. InStep'
    BY <1>0, <1>9 DEF Enable, OpenSocket, InStep, TypeOK, Live, One
  <2>3. ASSUME ~ disturbed' PROVE Calm'
    <3>1. Calm
      BY <1>0, <1>9, <2>3 DEF Enable, OpenSocket, TypeOK
    <3>2. /\ stale' = 0 /\ lostTimers' = 0
          /\ timer' <=> slot' = "reconnecting"
          /\ timer' => ws' = "closed"
      BY <1>0, <1>9, <2>3, <3>1 DEF Enable, OpenSocket, InStep, Calm, TypeOK, Live, One
    <3>3. (shown'.connected <=> ws' = "open") /\ (ws' = "open" => ~ shown'.reconnecting)
      BY <1>0, <1>9, <2>3, <3>1 DEF Enable, OpenSocket, InStep, Calm, TypeOK, Shown, Live, Fresh
    <3>4. shown'.done /\ ~ overtook' =>
            /\ intentional' \/ (late' /\ ws' = "open")
            /\ ~ shown'.reconnecting /\ ws' \in {"open", "closed"} /\ ~ timer'
      BY <1>0, <1>9, <2>3, <3>1 DEF Enable, OpenSocket, InStep, Calm, TypeOK, Shown, Live, Fresh
    <3>5. attempts' > GiveUpAfter <=> slot' = "error"
      BY <1>0, <1>9, <2>3, <3>1 DEF Enable, OpenSocket, InStep, Calm, TypeOK, Live
    <3> QED BY <3>2, <3>3, <3>4, <3>5 DEF Calm
  <2> QED BY <2>1, <2>2, <2>3 DEF IInv
<1>10. ASSUME Render PROVE IInv'
  <2>1. TypeOK'
    <3>1. shown' \in Shown
      BY <1>0, <1>10 DEF Render, TypeOK, Shown, Fresh
    <3>2. /\ enabled' \in BOOLEAN /\ intentional' \in BOOLEAN /\ late' \in BOOLEAN
          /\ token' \in BOOLEAN /\ overtook' \in BOOLEAN
          /\ timer' \in BOOLEAN /\ disturbed' \in BOOLEAN
      BY <1>0, <1>10 DEF Render, TypeOK
    <3>3. stale' \in Nat /\ attempts' \in Nat /\ lostTimers' \in Nat /\ acts' \in Nat
      BY <1>0, <1>10 DEF Render, TypeOK, One
    <3>4. /\ ws' \in {"none", "closed"} \union Live
          /\ slot' \in {"none", "closed", "error", "reconnecting"} \union Live
      BY <1>0, <1>10 DEF Render, TypeOK, Live
    <3> QED BY <3>1, <3>2, <3>3, <3>4 DEF TypeOK
  <2>2. InStep'
    BY <1>0, <1>10 DEF Render, InStep, TypeOK, Live, One
  <2>3. ASSUME ~ disturbed' PROVE Calm'
    <3>1. Calm
      BY <1>0, <1>10, <2>3 DEF Render, TypeOK
    <3>2. /\ stale' = 0 /\ lostTimers' = 0
          /\ timer' <=> slot' = "reconnecting"
          /\ timer' => ws' = "closed"
      BY <1>0, <1>10, <2>3, <3>1 DEF Render, InStep, Calm, TypeOK, Live, One
    <3>3. (shown'.connected <=> ws' = "open") /\ (ws' = "open" => ~ shown'.reconnecting)
      BY <1>0, <1>10, <2>3, <3>1 DEF Render, InStep, Calm, TypeOK, Shown, Live, Fresh
    <3>4. shown'.done /\ ~ overtook' =>
            /\ intentional' \/ (late' /\ ws' = "open")
            /\ ~ shown'.reconnecting /\ ws' \in {"open", "closed"} /\ ~ timer'
      BY <1>0, <1>10, <2>3, <3>1 DEF Render, InStep, Calm, TypeOK, Shown, Live, Fresh
    <3>5. attempts' > GiveUpAfter <=> slot' = "error"
      BY <1>0, <1>10, <2>3, <3>1 DEF Render, InStep, Calm, TypeOK, Live
    <3> QED BY <3>2, <3>3, <3>4, <3>5 DEF Calm
  <2> QED BY <2>1, <2>2, <2>3 DEF IInv
<1>11. ASSUME TokenFlips PROVE IInv'
  <2>1. TypeOK'
    <3>1. shown' \in Shown
      BY <1>0, <1>11 DEF TokenFlips, TypeOK, Shown, Fresh
    <3>2. /\ enabled' \in BOOLEAN /\ intentional' \in BOOLEAN /\ late' \in BOOLEAN
          /\ token' \in BOOLEAN /\ overtook' \in BOOLEAN
          /\ timer' \in BOOLEAN /\ disturbed' \in BOOLEAN
      BY <1>0, <1>11 DEF TokenFlips, TypeOK
    <3>3. stale' \in Nat /\ attempts' \in Nat /\ lostTimers' \in Nat /\ acts' \in Nat
      BY <1>0, <1>11 DEF TokenFlips, TypeOK, One
    <3>4. /\ ws' \in {"none", "closed"} \union Live
          /\ slot' \in {"none", "closed", "error", "reconnecting"} \union Live
      BY <1>0, <1>11 DEF TokenFlips, TypeOK, Live
    <3> QED BY <3>1, <3>2, <3>3, <3>4 DEF TypeOK
  <2>2. InStep'
    BY <1>0, <1>11 DEF TokenFlips, InStep, TypeOK, Live, One
  <2>3. ASSUME ~ disturbed' PROVE Calm'
    <3>1. Calm
      BY <1>0, <1>11, <2>3 DEF TokenFlips, TypeOK
    <3>2. /\ stale' = 0 /\ lostTimers' = 0
          /\ timer' <=> slot' = "reconnecting"
          /\ timer' => ws' = "closed"
      BY <1>0, <1>11, <2>3, <3>1 DEF TokenFlips, InStep, Calm, TypeOK, Live, One
    <3>3. (shown'.connected <=> ws' = "open") /\ (ws' = "open" => ~ shown'.reconnecting)
      BY <1>0, <1>11, <2>3, <3>1 DEF TokenFlips, InStep, Calm, TypeOK, Shown, Live, Fresh
    <3>4. shown'.done /\ ~ overtook' =>
            /\ intentional' \/ (late' /\ ws' = "open")
            /\ ~ shown'.reconnecting /\ ws' \in {"open", "closed"} /\ ~ timer'
      BY <1>0, <1>11, <2>3, <3>1 DEF TokenFlips, InStep, Calm, TypeOK, Shown, Live, Fresh
    <3>5. attempts' > GiveUpAfter <=> slot' = "error"
      BY <1>0, <1>11, <2>3, <3>1 DEF TokenFlips, InStep, Calm, TypeOK, Live
    <3> QED BY <3>2, <3>3, <3>4, <3>5 DEF Calm
  <2> QED BY <2>1, <2>2, <2>3 DEF IInv
<1>12. ASSUME UNCHANGED vars PROVE IInv'
  BY <1>0, <1>12 DEF IInv, vars, TypeOK, InStep, Calm
<1> QED
  BY <1>1, <1>2, <1>3, <1>4, <1>5, <1>6, <1>7, <1>8, <1>9, <1>10, <1>11, <1>12
  DEF Next, Network, User, Stale

(* The invariant holds in every reachable state of the hook                *)
(* (useTaskStream.ts:41-205).                                               *)
THEOREM Invariance == Spec => []IInv
  BY IInvInit, IInvStep, PTL DEF Spec

-----------------------------------------------------------------------------
(* In every state every variable has its type.                              *)
THEOREM TypeCorrect == Spec => []TypeOK
<1>1. IInv => TypeOK
  BY DEF IInv
<1> QED BY <1>1, Invariance, PTL

(* Until a clean-up closes a live socket the hook makes one attempt at a    *)
(* time (useTaskStream.ts:123-160).                                         *)
THEOREM OneAttempt == Spec => []OneAttemptAtATime
<1>1. IInv => OneAttemptAtATime
  BY HookAssumption DEF IInv, TypeOK, Calm, OneAttemptAtATime, Timers, One, Live
<1> QED BY <1>1, Invariance, PTL

(* A finished stream is not retried unless its close was handled before     *)
(* React had rendered its end, and nothing goes on behind a stream that was *)
(* given up (useTaskStream.ts:98-112, :126-143).                            *)
THEOREM FinishedRests == Spec => []FinishedStreamRests
<1>1. IInv => FinishedStreamRests
  BY HookAssumption DEF IInv, TypeOK, InStep, Calm, FinishedStreamRests, Timers, One, Live
<1> QED BY <1>1, Invariance, PTL

(* The registry's slot tells the truth about the hook's socket, whichever   *)
(* sockets of the past still report (wsRegistry.ts:27-31).                  *)
THEOREM IndicatorTrue == Spec => []IndicatorIsTrue
<1>1. IInv => IndicatorIsTrue
  BY HookAssumption DEF IInv, TypeOK, InStep, Calm, IndicatorIsTrue, Timers, One, Live
<1> QED BY <1>1, Invariance, PTL

-----------------------------------------------------------------------------
(* The create dialog.                                                      *)

(* The history kept with the request under way tells what its form showed.  *)
PendingIsHonest ==
  pending # None =>
    /\ pending.shown = Displayed(pending.ask.type, pending.ask.opts)
    /\ pending.previewed = Previewed(pending.ask.type, pending.ask.opts)

(* While the page is known to have had the agents as they are, those that   *)
(* were on offer are active and support the type.                           *)
OfferStands ==
  pending # None /\ pending.sure /\ pending.offered =>
    /\ "ids" \in DOMAIN pending.ask
    /\ Routable(pending.ask, pending.ask.ids)

(* An option is one of the type's fields, with an entry of its menu where   *)
(* it has one, or comes from a task run again.                              *)
Rooted(type, opts) ==
  \A k \in DOMAIN opts :
    \/ /\ \/ k \in DOMAIN TypeFields[type]
          \/ type = "tcp_connect" /\ k \in DOMAIN BannerFields
       /\ k \in Menus => opts[k] \in TypeFields[type][k].vals
    \/ Rerun(type, k, opts[k])

(* What a template asks for is what its data say.                           *)
GoodEntry(e) == /\ e.name \in Names /\ IsData(e.data)
                /\ e.asked = Request(e.data)
                /\ Rooted(e.data.type, e.data.opts)
GoodList(list) ==
  /\ list \in Seq(ToSet(list)) /\ Len(list) <= MaxTemplates
  /\ \A i \in DOMAIN list : GoodEntry(list[i])
  /\ \A i, j \in DOMAIN list : list[i].name = list[j].name => i = j

Kept ==
  /\ GoodList(templates) /\ GoodList(menu)
  /\ Rooted(form.type, form.opts)
  /\ pending # None => Rooted(pending.ask.type, pending.ask.opts)

(* The browser has checked the target of a request.                         *)
TargetChecked ==
  pending # None => /\ ValidateTargetFor(pending.ask.type, pending.ask.target)
                    /\ pending.ask.target # "nothing"

-----------------------------------------------------------------------------
(* The lists of options.                                                   *)

(* The server takes its default and whatever the form lets one enter.       *)
Sound(f) == f.def \in f.vals /\ f.try \subseteq f.vals

LEMMA NumSound ==
  \A lo, hi \in Nat : \A d \in lo..hi : Sound(Num(d, lo, hi)) /\ Num(d, lo, hi).def = d
BY DEF Sound, Num

LEMMA PickSound == \A S : \A d \in S : Sound(Pick(d, S)) /\ Pick(d, S).def = d
BY DEF Sound, Pick

LEMMA FlagSound == Sound(Flag) /\ Flag.def = Off
BY PickSound DEF Flag, Off

LEMMA TextsSound ==
  /\ Sound(Text) /\ Sound(TextTo128) /\ Sound(TextTo255)
  /\ Text.def = Empty /\ TextTo128.def = Empty /\ TextTo255.def = Empty
BY PickSound DEF Text, TextTo128, TextTo255

LEMMA HeadersSound == Sound(Headers)
BY PickSound DEF Headers

(* What the field for ports offers, one of the lists the server takes or    *)
(* beyond them.                                                             *)
LEMMA PortsTaken ==
  ASSUME NEW d \in SUBSET {22, 80, 443, 8080, 8443}, 80 \in d,
         NEW lists, FewPorts \subseteq lists
  PROVE  AnyPorts(d).try \subseteq SomePorts(lists).vals \union Beyond("ports")
<1>1. d \in FewPorts /\ {443} \in FewPorts
  BY DEF FewPorts
<1>2. /\ AnyPorts(d).try = {d, {443}, {}, Hundreds, Thousands}
      /\ SomePorts(lists).vals = lists
      /\ Beyond("ports") = {{}, Hundreds, Thousands}
  BY DEF AnyPorts, Pick, SomePorts, Beyond
<1> QED  BY <1>1, <1>2

LEMMA TypesListed ==
  TaskTypes = {"ping", "traceroute", "mtr", "mtr_tcp", "tcp_connect", "tcp_scan",
               "syn_scan", "hping3", "dns", "http_check", "tls_check"}
BY DEF TaskTypes, TypeFields

(* Two menus are longer on the server, two texts shorter, ports have no     *)
(* default there; all the other options of a type are the same in the form. *)
FormAgrees(t) ==
  \A k \in DOMAIN TypeFields[t] :
    /\ k \in DOMAIN ServerParams[t]
    /\ k \notin {"ports", "record_type", "method", "resolver", "sni"} =>
         TypeFields[t][k] = ServerParams[t][k]

LEMMA FormAgreesOfAll == \A t \in TaskTypes : FormAgrees(t)
<1> USE DEF FormAgrees, TypeFields, ServerParams
<1>1. FormAgrees("ping")  BY SMT
<1>2. FormAgrees("traceroute")  BY SMT
<1>3. FormAgrees("mtr")  BY SMT DEF Mtr
<1>4. FormAgrees("mtr_tcp")  BY SMT DEF MtrTcp
<1>5. FormAgrees("tcp_connect")  BY SMT
<1>6. FormAgrees("tcp_scan")  BY SMT
<1>7. FormAgrees("syn_scan")  BY SMT
<1>8. FormAgrees("hping3")  BY SMT
<1>9. FormAgrees("dns")  BY SMT
<1>10. FormAgrees("http_check")  BY SMT
<1>11. FormAgrees("tls_check")  BY SMT
<1> HIDE DEF FormAgrees, TypeFields, ServerParams
<1> QED  BY <1>1, <1>2, <1>3, <1>4, <1>5, <1>6, <1>7, <1>8, <1>9, <1>10, <1>11, TypesListed

PreviewAgrees(t) ==
  \A k \in DOMAIN PreviewDefaults[t] :
    /\ k \in DOMAIN ServerParams[t]
    /\ k # "ports" => PreviewDefaults[t][k] = ServerParams[t][k].def

LEMMA PreviewAgreesOfPing == PreviewAgrees("ping")
<1>1. PreviewDefaults["ping"] =
        [count |-> 5, timeout_sec |-> 5, interval_ms |-> 1000, ipv6 |-> Off]
  BY DEF PreviewDefaults
<1>2. ServerParams["ping"] =
        [count |-> Num(5, 1, 100), interval_ms |-> Num(1000, 250, 5000),
         size_bytes |-> Num(56, 8, 65500), timeout_sec |-> Secs(5, 30), ipv6 |-> Flag]
  BY DEF ServerParams
<1>3. /\ Num(5, 1, 100).def = 5 /\ Num(1000, 250, 5000).def = 1000
      /\ Secs(5, 30).def = 5 /\ Flag.def = Off
  BY FlagSound DEF Num, Secs
<1>4. DOMAIN PreviewDefaults["ping"] = {"count", "timeout_sec", "interval_ms", "ipv6"}
  BY <1>1
<1>5. /\ PreviewDefaults["ping"].count = 5 /\ PreviewDefaults["ping"].timeout_sec = 5
      /\ PreviewDefaults["ping"].interval_ms = 1000 /\ PreviewDefaults["ping"].ipv6 = Off
  BY <1>1
<1>6. /\ DOMAIN ServerParams["ping"]
           = {"count", "interval_ms", "size_bytes", "timeout_sec", "ipv6"}
      /\ ServerParams["ping"].count.def = 5 /\ ServerParams["ping"].timeout_sec.def = 5
      /\ ServerParams["ping"].interval_ms.def = 1000 /\ ServerParams["ping"].ipv6.def = Off
  BY <1>2, <1>3
<1> QED  BY <1>4, <1>5, <1>6 DEF PreviewAgrees

LEMMA PreviewAgreesOfAll == \A t \in TaskTypes : PreviewAgrees(t)
<1> USE NumSound, PickSound, FlagSound, TextsSound DEF PreviewAgrees, PreviewDefaults, ServerParams, Port, Secs
<1>2. PreviewAgrees("traceroute")  BY SMT DEF Hops
<1>3. PreviewAgrees("mtr")  BY SMT DEF Mtr, Cycles, Hops
<1>4. PreviewAgrees("mtr_tcp")  BY SMT DEF MtrTcp, Cycles, Hops
<1>5. PreviewAgrees("tcp_connect")  BY SMT
<1>6. PreviewAgrees("tcp_scan")  BY SMT
<1>7. PreviewAgrees("syn_scan")  BY SMTT(30)
<1>8. PreviewAgrees("hping3")  BY SMT DEF Modes
<1>9. PreviewAgrees("dns")  BY SMT
<1>10. PreviewAgrees("http_check")  BY SMT
<1>11. PreviewAgrees("tls_check")  BY SMT
<1> HIDE DEF PreviewAgrees, PreviewDefaults, ServerParams, Port, Secs
<1> QED  BY PreviewAgreesOfPing, <1>2, <1>3, <1>4, <1>5, <1>6, <1>7, <1>8, <1>9, <1>10, <1>11, TypesListed

ServerSound(t) ==
  \A k \in DOMAIN ServerParams[t] : k # "ports" => Sound(ServerParams[t][k])

LEMMA ServerSoundOfAll == \A t \in TaskTypes : ServerSound(t)
<1> USE NumSound, PickSound, FlagSound, TextsSound, HeadersSound DEF ServerSound, ServerParams, Port, Secs
<1>1. ServerSound("ping")  BY SMTT(30)
<1>2. ServerSound("traceroute")  BY SMT DEF Hops
<1>3. ServerSound("mtr")  BY SMT DEF Mtr, Cycles, Hops
<1>4. ServerSound("mtr_tcp")  BY SMT DEF MtrTcp, Cycles, Hops
<1>5. ServerSound("tcp_connect")  BY SMT
<1>6. ServerSound("tcp_scan")  BY SMT
<1>7. ServerSound("syn_scan")  BY SMT
<1>8. ServerSound("hping3")  BY SMT DEF Modes
<1>9. ServerSound("dns")  BY SMT
<1>10. ServerSound("http_check")  BY SMT
<1>11. ServerSound("tls_check")  BY SMT
<1> HIDE DEF ServerSound, ServerParams, Port, Secs
<1> QED  BY <1>1, <1>2, <1>3, <1>4, <1>5, <1>6, <1>7, <1>8, <1>9, <1>10, <1>11, TypesListed

PortsAgree(t) ==
  "ports" \in DOMAIN ServerParams[t] =>
    /\ ServerParams[t].ports.def = Missing /\ Missing \notin ServerParams[t].ports.vals
    /\ "ports" \in DOMAIN TypeFields[t]
    /\ TypeFields[t].ports.try \subseteq ServerParams[t].ports.vals \union Beyond("ports")

LEMMA MissingRefused == Missing \notin FewPorts \union {Hundreds}
<1>1. 0 \in Missing /\ 0 \notin Hundreds /\ 0 \notin {22, 80, 443, 8080, 8443}
  BY DEF Missing, Hundreds
<1> QED  BY <1>1 DEF FewPorts

LEMMA PortsAgreeOfScans == PortsAgree("tcp_scan") /\ PortsAgree("syn_scan")
<1> DEFINE all  == FewPorts \union {Hundreds}
           some == FewPorts
<1>1. /\ ServerParams["tcp_scan"].ports = SomePorts(all)
      /\ ServerParams["syn_scan"].ports = SomePorts(some)
  BY DEF ServerParams
<1>2. /\ "ports" \in DOMAIN TypeFields["tcp_scan"] /\ "ports" \in DOMAIN TypeFields["syn_scan"]
      /\ TypeFields["tcp_scan"].ports = AnyPorts({80, 443, 22, 8080, 8443})
      /\ TypeFields["syn_scan"].ports = AnyPorts({22, 80, 443})
  BY DEF TypeFields
<1>3. /\ SomePorts(all).def = Missing /\ SomePorts(all).vals = all
      /\ SomePorts(some).def = Missing /\ SomePorts(some).vals = some
  BY DEF SomePorts
<1>4. Missing \notin all /\ Missing \notin some
  BY MissingRefused
<1>5. some \subseteq all /\ some \subseteq some
  OBVIOUS
<1> HIDE DEF all, some
<1>6. AnyPorts({80, 443, 22, 8080, 8443}).try \subseteq SomePorts(all).vals \union Beyond("ports")
  <2>1. FewPorts \subseteq all
    BY <1>5 DEF some
  <2> QED  BY <2>1, PortsTaken
<1>7. AnyPorts({22, 80, 443}).try \subseteq SomePorts(some).vals \union Beyond("ports")
  <2>1. FewPorts \subseteq some
    BY <1>5 DEF some
  <2> QED  BY <2>1, PortsTaken
<1> QED  BY <1>1, <1>2, <1>3, <1>4, <1>6, <1>7 DEF PortsAgree

LEMMA PortsAgreeOfAll == \A t \in TaskTypes : PortsAgree(t)
<1> USE DEF PortsAgree, TypeFields, ServerParams
<1>1. PortsAgree("ping")  BY SMT
<1>2. PortsAgree("traceroute")  BY SMT
<1>3. PortsAgree("mtr")  BY SMT DEF Mtr
<1>4. PortsAgree("mtr_tcp")  BY SMTT(30) DEF MtrTcp
<1>5. PortsAgree("tcp_connect")  BY SMTT(30)
<1>6. PortsAgree("tcp_scan")  BY PortsAgreeOfScans
<1>7. PortsAgree("syn_scan")  BY PortsAgreeOfScans
<1>8. PortsAgree("hping3")  BY SMT
<1>9. PortsAgree("dns")  BY SMT
<1>10. PortsAgree("http_check")  BY SMT
<1>11. PortsAgree("tls_check")  BY SMT
<1> HIDE DEF PortsAgree, TypeFields, ServerParams
<1> QED  BY <1>1, <1>2, <1>3, <1>4, <1>5, <1>6, <1>7, <1>8, <1>9, <1>10, <1>11, TypesListed

MenusAgree(t) ==
  \A k \in DOMAIN TypeFields[t] \intersect {"record_type", "method", "resolver", "sni"} :
    /\ TypeFields[t][k].def = ServerParams[t][k].def
    /\ TypeFields[t][k].try \subseteq ServerParams[t][k].vals \union Beyond(k)

LEMMA MenusAgreeOfAll == \A t \in TaskTypes : MenusAgree(t)
<1> USE DEF MenusAgree, TypeFields, ServerParams
<1>1. MenusAgree("ping")  BY SMT
<1>2. MenusAgree("traceroute")  BY SMT
<1>3. MenusAgree("mtr")  BY SMT DEF Mtr
<1>4. MenusAgree("mtr_tcp")  BY SMT DEF MtrTcp
<1>5. MenusAgree("tcp_connect")  BY SMT
<1>6. MenusAgree("tcp_scan")  BY SMT
<1>7. MenusAgree("syn_scan")  BY SMT
<1>8. MenusAgree("hping3")  BY SMT
<1>9. MenusAgree("dns")  BY SMT DEF Pick, Text, TextTo128, Beyond
<1>10. MenusAgree("http_check")  BY SMT DEF Pick
<1>11. MenusAgree("tls_check")  BY SMT DEF Pick, Text, TextTo255, Beyond
<1> HIDE DEF MenusAgree, TypeFields, ServerParams
<1> QED  BY <1>1, <1>2, <1>3, <1>4, <1>5, <1>6, <1>7, <1>8, <1>9, <1>10, <1>11, TypesListed

-----------------------------------------------------------------------------
(* What the lists say of a set of options.                                  *)

LEMMA BannerSound ==
  \A k \in DOMAIN BannerFields : k # "ports" /\ Sound(BannerFields[k])
BY NumSound DEF BannerFields

(* With the banner's two fields, or without.                                *)
Extra(t, opts) == IF Grabs(t, opts) THEN DOMAIN BannerFields ELSE {}

LEMMA OverBanner ==
  \A f : (\A k \in DOMAIN BannerFields : k \notin DOMAIN f) =>
    /\ DOMAIN Over(f, BannerFields) = DOMAIN f \union DOMAIN BannerFields
    /\ \A k \in DOMAIN f : Over(f, BannerFields)[k] = f[k]
    /\ \A k \in DOMAIN BannerFields : Over(f, BannerFields)[k] = BannerFields[k]
BY DEF Over

LEMMA BannerApart ==
  \A k \in DOMAIN BannerFields :
    k \notin DOMAIN TypeFields["tcp_connect"] /\ k \notin DOMAIN ServerParams["tcp_connect"]
BY DEF TypeFields, ServerParams, BannerFields

LEMMA FieldsIs ==
  \A t, opts :
    /\ \A k : k \in DOMAIN Fields(t, opts) <=> k \in DOMAIN TypeFields[t] \/ k \in Extra(t, opts)
    /\ \A k \in DOMAIN TypeFields[t] : Fields(t, opts)[k] = TypeFields[t][k]
    /\ \A k \in Extra(t, opts) : Fields(t, opts)[k] = BannerFields[k]
<1> TAKE t, opts
<1>1. CASE Grabs(t, opts)
  <2>1. t = "tcp_connect"
    BY <1>1 DEF Grabs
  <2>2. \A k \in DOMAIN BannerFields : k \notin DOMAIN TypeFields[t]
    BY <2>1, BannerApart
  <2>3. Fields(t, opts) = Over(TypeFields[t], BannerFields)
    BY <1>1 DEF Fields
  <2>4. Extra(t, opts) = DOMAIN BannerFields
    BY <1>1 DEF Extra
  <2>5. /\ DOMAIN Fields(t, opts) = DOMAIN TypeFields[t] \union DOMAIN BannerFields
        /\ \A k \in DOMAIN TypeFields[t] : Fields(t, opts)[k] = TypeFields[t][k]
        /\ \A k \in DOMAIN BannerFields : Fields(t, opts)[k] = BannerFields[k]
    BY <2>2, <2>3, OverBanner, ZenonT(30)
  <2> QED  BY <2>4, <2>5
<1>2. CASE ~ Grabs(t, opts)
  BY <1>2 DEF Fields, Extra
<1> QED  BY <1>1, <1>2

LEMMA ParamsIs ==
  \A t, opts :
    /\ \A k : k \in DOMAIN Params(t, opts) <=> k \in DOMAIN ServerParams[t] \/ k \in Extra(t, opts)
    /\ \A k \in DOMAIN ServerParams[t] : Params(t, opts)[k] = ServerParams[t][k]
    /\ \A k \in Extra(t, opts) : Params(t, opts)[k] = BannerFields[k]
    /\ \A k \in DOMAIN Params(t, opts) :
         k \in DOMAIN AllParams(t) /\ AllParams(t)[k] = Params(t, opts)[k]
<1> TAKE t, opts
<1>1. CASE Grabs(t, opts)
  <2>1. t = "tcp_connect"
    BY <1>1 DEF Grabs
  <2>2. \A k \in DOMAIN BannerFields : k \notin DOMAIN ServerParams[t]
    BY <2>1, BannerApart
  <2>3. /\ Params(t, opts) = Over(ServerParams[t], BannerFields)
        /\ AllParams(t) = Over(ServerParams[t], BannerFields)
    BY <1>1, <2>1 DEF Params, AllParams
  <2>4. Extra(t, opts) = DOMAIN BannerFields
    BY <1>1 DEF Extra
  <2>5. /\ DOMAIN Params(t, opts) = DOMAIN ServerParams[t] \union DOMAIN BannerFields
        /\ \A k \in DOMAIN ServerParams[t] : Params(t, opts)[k] = ServerParams[t][k]
        /\ \A k \in DOMAIN BannerFields : Params(t, opts)[k] = BannerFields[k]
    BY <2>2, <2>3, OverBanner, ZenonT(30)
  <2>6. AllParams(t) = Params(t, opts)
    BY <2>3
  <2> QED  BY <2>4, <2>5, <2>6
<1>2. CASE ~ Grabs(t, opts)
  <2>1. Params(t, opts) = ServerParams[t] /\ Extra(t, opts) = {}
    BY <1>2 DEF Params, Extra
  <2>2. CASE t = "tcp_connect"
    <3>1. \A k \in DOMAIN BannerFields : k \notin DOMAIN ServerParams[t]
      BY <2>2, BannerApart
    <3>2. AllParams(t) = Over(ServerParams[t], BannerFields)
      BY <2>2 DEF AllParams
    <3>3. /\ DOMAIN AllParams(t) = DOMAIN ServerParams[t] \union DOMAIN BannerFields
          /\ \A k \in DOMAIN ServerParams[t] : AllParams(t)[k] = ServerParams[t][k]
      BY <3>1, <3>2, OverBanner
    <3> QED  BY <2>1, <3>3
  <2>3. CASE t # "tcp_connect"
    BY <2>1, <2>3 DEF AllParams
  <2> QED  BY <2>2, <2>3
<1> QED  BY <1>1, <1>2

(* A field on screen is an option the server has, with the same default,    *)
(* and it takes what the field offers, but for what is beyond it.           *)
LEMMA FieldsMeetParams ==
  \A t \in TaskTypes : \A opts : \A k \in DOMAIN Fields(t, opts) :
    /\ k \in DOMAIN Params(t, opts)
    /\ k # "ports" => Fields(t, opts)[k].def = Params(t, opts)[k].def
    /\ Fields(t, opts)[k].try \subseteq Params(t, opts)[k].vals \union Beyond(k)
<1> TAKE t \in TaskTypes
<1> TAKE opts
<1> TAKE k \in DOMAIN Fields(t, opts)
<1>1. FormAgrees(t) /\ PortsAgree(t) /\ MenusAgree(t) /\ ServerSound(t)
  BY FormAgreesOfAll, PortsAgreeOfAll, MenusAgreeOfAll, ServerSoundOfAll
<1>2. CASE k \in DOMAIN TypeFields[t]
  <2>1. /\ k \in DOMAIN ServerParams[t]
        /\ k # "ports" => TypeFields[t][k].def = ServerParams[t][k].def
        /\ TypeFields[t][k].try \subseteq ServerParams[t][k].vals \union Beyond(k)
    BY <1>1, <1>2 DEF FormAgrees, PortsAgree, MenusAgree, ServerSound, Sound
  <2>2. Fields(t, opts)[k] = TypeFields[t][k]
    BY <1>2, FieldsIs
  <2>3. k \in DOMAIN Params(t, opts)
    BY <2>1, ParamsIs
  <2>4. Params(t, opts)[k] = ServerParams[t][k]
    BY <2>1, ParamsIs
  <2> QED  BY <2>1, <2>2, <2>3, <2>4
<1>3. CASE k \notin DOMAIN TypeFields[t]
  <2>1. k \in Extra(t, opts) /\ k \in DOMAIN BannerFields
    BY <1>3, FieldsIs DEF Extra
  <2>2. Fields(t, opts)[k] = BannerFields[k]
    BY <2>1, FieldsIs
  <2>3. k \in DOMAIN Params(t, opts)
    BY <2>1, ParamsIs
  <2>4. Params(t, opts)[k] = BannerFields[k]
    BY <2>1, ParamsIs
  <2> QED  BY <2>1, <2>2, <2>3, <2>4, BannerSound DEF Sound
<1> QED  BY <1>2, <1>3

(* The server takes its own defaults, but for ports, which the form offers. *)
LEMMA ParamsSound ==
  \A t \in TaskTypes : \A opts : \A k \in DOMAIN Params(t, opts) :
    IF k = "ports" THEN /\ Params(t, opts)[k].def = Missing
                        /\ Missing \notin Params(t, opts)[k].vals
                        /\ k \in DOMAIN TypeFields[t]
    ELSE Params(t, opts)[k].def \in Params(t, opts)[k].vals
<1> TAKE t \in TaskTypes
<1> TAKE opts
<1> TAKE k \in DOMAIN Params(t, opts)
<1>1. CASE k \in DOMAIN ServerParams[t]
  BY <1>1, ParamsIs, PortsAgreeOfAll, ServerSoundOfAll DEF PortsAgree, ServerSound, Sound
<1>2. CASE k \notin DOMAIN ServerParams[t]
  <2>1. k \in Extra(t, opts)
    BY <1>2, ParamsIs
  <2>2. k \in DOMAIN BannerFields
    BY <2>1 DEF Extra
  <2>3. Params(t, opts)[k] = BannerFields[k]
    BY <2>1, ParamsIs
  <2> QED  BY <2>2, <2>3, BannerSound DEF Sound
<1> QED  BY <1>1, <1>2

(* A menu of the form offers its entries.                                   *)
LEMMA MenusOffer ==
  \A t \in TaskTypes : \A k \in DOMAIN TypeFields[t] \intersect Menus :
    TypeFields[t][k].try = TypeFields[t][k].vals
<1>1. \A t \in TaskTypes \ {"hping3", "dns", "http_check"} :
        DOMAIN TypeFields[t] \intersect Menus = {}
  <2> USE DEF TypeFields, Menus
  <2>1. DOMAIN TypeFields["ping"] \intersect Menus = {}  BY SMT
  <2>2. DOMAIN TypeFields["traceroute"] \intersect Menus = {}  BY SMT
  <2>3. DOMAIN TypeFields["mtr"] \intersect Menus = {}  BY SMT DEF Mtr
  <2>4. DOMAIN TypeFields["mtr_tcp"] \intersect Menus = {}  BY SMT DEF MtrTcp
  <2>5. DOMAIN TypeFields["tcp_connect"] \intersect Menus = {}  BY SMT
  <2>6. DOMAIN TypeFields["tcp_scan"] \intersect Menus = {}  BY SMT
  <2>7. DOMAIN TypeFields["syn_scan"] \intersect Menus = {}  BY SMT
  <2>8. DOMAIN TypeFields["tls_check"] \intersect Menus = {}  BY SMT
  <2> HIDE DEF TypeFields, Menus
  <2> QED  BY <2>1, <2>2, <2>3, <2>4, <2>5, <2>6, <2>7, <2>8, TypesListed
<1>2. /\ DOMAIN TypeFields["hping3"] \intersect Menus = {"mode"}
      /\ TypeFields["hping3"].mode.try = TypeFields["hping3"].mode.vals
  BY SMT DEF TypeFields, Menus, Pick
<1>3. /\ DOMAIN TypeFields["dns"] \intersect Menus = {"record_type"}
      /\ TypeFields["dns"].record_type.try = TypeFields["dns"].record_type.vals
  BY SMT DEF TypeFields, Menus, Pick
<1>4. /\ DOMAIN TypeFields["http_check"] \intersect Menus = {"method"}
      /\ TypeFields["http_check"].method.try = TypeFields["http_check"].method.vals
  BY SMT DEF TypeFields, Menus, Pick
<1> QED  BY <1>1, <1>2, <1>3, <1>4

LEMMA NoMenuInBanner == \A k \in DOMAIN BannerFields : k \notin Menus
BY DEF BannerFields, Menus

(* What the server adds where an option is left out is what the form shows  *)
(* and the preview names; what they do not show was not asked for here.     *)
LEMMA TakenAsShown ==
  ASSUME NEW t \in TaskTypes, NEW opts, OptionsOk(t, opts), Rooted(t, opts)
  PROVE  /\ \A k \in DOMAIN Displayed(t, opts) :
              \/ Taken(t, opts)[k] = Displayed(t, opts)[k]
              \/ /\ k \in Menus /\ Taken(t, opts)[k] \notin TypeFields[t][k].vals
                 /\ Rerun(t, k, Taken(t, opts)[k])
         /\ \A k \in DOMAIN Previewed(t, opts) : Taken(t, opts)[k] = Previewed(t, opts)[k]
         /\ \A k \in DOMAIN Taken(t, opts) \ DOMAIN Displayed(t, opts) :
              \/ Taken(t, opts)[k] = Params(t, opts)[k].def
              \/ Rerun(t, k, Taken(t, opts)[k])
<1>0. /\ DOMAIN Displayed(t, opts) = DOMAIN Fields(t, opts)
      /\ DOMAIN Taken(t, opts) = DOMAIN Params(t, opts)
      /\ \A k \in DOMAIN Params(t, opts) :
           /\ k \in DOMAIN opts => Taken(t, opts)[k] = opts[k]
           /\ k \notin DOMAIN opts => Taken(t, opts)[k] = Params(t, opts)[k].def
  BY DEF Displayed, Taken
<1>1. ASSUME NEW k \in DOMAIN Params(t, opts), k = "ports"
      PROVE  k \in DOMAIN opts
  BY <1>0, <1>1, ParamsSound DEF OptionsOk
<1>2. ASSUME NEW k \in DOMAIN Fields(t, opts)
      PROVE  \/ Taken(t, opts)[k] = Displayed(t, opts)[k]
             \/ /\ k \in Menus /\ Taken(t, opts)[k] \notin TypeFields[t][k].vals
                /\ Rerun(t, k, Taken(t, opts)[k])
  <2>1. /\ k \in DOMAIN Params(t, opts)
        /\ k # "ports" => Fields(t, opts)[k].def = Params(t, opts)[k].def
    BY FieldsMeetParams
  <2>2. Displayed(t, opts)[k] =
          IF k \in DOMAIN opts /\ (k \in Menus => opts[k] \in Fields(t, opts)[k].vals)
          THEN opts[k] ELSE Fields(t, opts)[k].def
    BY DEF Displayed
  <2>3. CASE k \notin DOMAIN opts \/ k \notin Menus
    BY <1>0, <1>1, <2>1, <2>2, <2>3
  <2>4. CASE k \in DOMAIN opts /\ k \in Menus
    <3>1. k \in DOMAIN TypeFields[t]
      BY <2>4, FieldsIs, NoMenuInBanner DEF Extra
    <3>2. Fields(t, opts)[k] = TypeFields[t][k]
      BY <3>1, FieldsIs
    <3>3. opts[k] \in TypeFields[t][k].vals \/ Rerun(t, k, opts[k])
      BY <2>4 DEF Rooted
    <3> QED  BY <1>0, <2>1, <2>2, <2>4, <3>2, <3>3
  <2> QED  BY <2>3, <2>4
<1>3. ASSUME NEW k \in DOMAIN Previewed(t, opts)
      PROVE  Taken(t, opts)[k] = Previewed(t, opts)[k]
  <2>1. k \in DOMAIN PreviewDefaults[t]
    BY DEF Previewed
  <2>2. k \in DOMAIN ServerParams[t]
        /\ (k # "ports" => PreviewDefaults[t][k] = ServerParams[t][k].def)
    BY <2>1, PreviewAgreesOfAll DEF PreviewAgrees
  <2>3. k \in DOMAIN Params(t, opts)
    BY <2>2, ParamsIs
  <2>4. Params(t, opts)[k] = ServerParams[t][k]
    BY <2>2, ParamsIs
  <2> QED  BY <2>1, <2>2, <2>3, <2>4, <1>1 DEF Taken, Previewed
<1>4. ASSUME NEW k \in DOMAIN Params(t, opts), k \notin DOMAIN Fields(t, opts)
      PROVE  Taken(t, opts)[k] = Params(t, opts)[k].def \/ Rerun(t, k, Taken(t, opts)[k])
  <2>1. CASE k \notin DOMAIN opts
    BY <1>0, <2>1
  <2>2. CASE k \in DOMAIN opts
    <3>1. k \notin DOMAIN TypeFields[t] /\ k \notin Extra(t, opts)
      BY <1>4, FieldsIs
    <3>2. k \in DOMAIN ServerParams[t]
      BY <3>1, ParamsIs
    <3>3. ~ (t = "tcp_connect" /\ k \in DOMAIN BannerFields)
      BY <3>2, BannerApart
    <3>4. Rerun(t, k, opts[k])
      BY <2>2, <3>1, <3>3 DEF Rooted
    <3> QED  BY <1>0, <2>2, <3>4
  <2> QED  BY <2>1, <2>2
<1> QED  BY <1>0, <1>2, <1>3, <1>4

(* Of options that fit the server refuses only what is beyond them.         *)
LEMMA BadIsBeyond ==
  ASSUME NEW t \in TaskTypes, NEW opts, OptionsFit(t, opts),
         NEW k \in DOMAIN Params(t, opts)
  PROVE  \/ Taken(t, opts)[k] \in Params(t, opts)[k].vals \union Beyond(k)
         \/ k = "ports" /\ k \notin DOMAIN opts
<1>1. CASE k \in DOMAIN opts
  <2>1. opts[k] \in AllParams(t)[k].vals \union Beyond(k)
    BY <1>1 DEF OptionsFit
  <2>2. AllParams(t)[k] = Params(t, opts)[k]
    BY ParamsIs
  <2> QED  BY <1>1, <2>1, <2>2 DEF Taken
<1>2. CASE k \notin DOMAIN opts
  BY <1>2, ParamsSound DEF Taken
<1> QED  BY <1>1, <1>2

(* What a field offers fits and is the field's.                             *)
LEMMA FieldFits ==
  ASSUME NEW t \in TaskTypes, NEW opts, OptionsFit(t, opts), Rooted(t, opts),
         NEW k \in DOMAIN Fields(t, opts), NEW v \in Fields(t, opts)[k].try
  PROVE  /\ OptionsFit(t, Over([x \in {k} |-> v], opts))
         /\ Rooted(t, Over([x \in {k} |-> v], opts))
<1>1. k \in DOMAIN Params(t, opts) /\ v \in Params(t, opts)[k].vals \union Beyond(k)
  BY FieldsMeetParams
<1>2. k \in DOMAIN AllParams(t) /\ AllParams(t)[k] = Params(t, opts)[k]
  BY <1>1, ParamsIs
<1> DEFINE new == Over([x \in {k} |-> v], opts)
<1>3. /\ DOMAIN new = {k} \union DOMAIN opts /\ new[k] = v
      /\ \A x \in DOMAIN opts \ {k} : new[x] = opts[x]
  BY DEF Over
<1> HIDE DEF new
<1>4. OptionsFit(t, new)
  BY <1>1, <1>2, <1>3 DEF OptionsFit
<1>5. /\ \/ k \in DOMAIN TypeFields[t]
         \/ t = "tcp_connect" /\ k \in DOMAIN BannerFields
      /\ k \in Menus => v \in TypeFields[t][k].vals
  <2>1. CASE k \in DOMAIN TypeFields[t]
    <3>1. Fields(t, opts)[k] = TypeFields[t][k]
      BY <2>1, FieldsIs
    <3> QED  BY <2>1, <3>1, MenusOffer
  <2>2. CASE k \notin DOMAIN TypeFields[t]
    <3>1. k \in Extra(t, opts)
      BY <2>2, FieldsIs
    <3>2. k \in DOMAIN BannerFields /\ t = "tcp_connect"
      BY <3>1 DEF Extra, Grabs
    <3> QED  BY <3>2, NoMenuInBanner
  <2> QED  BY <2>1, <2>2
<1>6. Rooted(t, new)
  BY <1>3, <1>5 DEF Rooted
<1> QED  BY <1>4, <1>6 DEF new

LEMMA CutIs ==
  ASSUME NEW S, NEW s \in Seq(S), NEW n \in Nat
  PROVE  /\ Cut(s, n) \in Seq(S) /\ Len(Cut(s, n)) <= n /\ Len(Cut(s, n)) <= Len(s)
         /\ \A i \in 1..Len(Cut(s, n)) : Cut(s, n)[i] = s[i]
<1> DEFINE m == IF Len(s) < n THEN Len(s) ELSE n
<1>1. Len(s) \in Nat
  OBVIOUS
<1>2. m \in 0..Len(s) /\ m <= n
  BY <1>1
<1> QED  BY <1>1, <1>2, SubSeqProperties DEF Cut

LEMMA RemoveAtIs ==
  ASSUME NEW S, NEW s \in Seq(S), NEW i \in 1..Len(s)
  PROVE  /\ RemoveAt(s, i) \in Seq(S) /\ Len(RemoveAt(s, i)) = Len(s) - 1
         /\ \A j \in 1..(Len(s) - 1) : RemoveAt(s, i)[j] = s[IF j < i THEN j ELSE j + 1]
<1> DEFINE front == SubSeq(s, 1, i - 1)
           back  == SubSeq(s, i + 1, Len(s))
<1>1. Len(s) \in Nat
  OBVIOUS
<1>2. /\ front \in Seq(S) /\ Len(front) = i - 1
      /\ \A j \in 1..(i - 1) : front[j] = s[j]
  BY <1>1, SubSeqProperties
<1>3. /\ back \in Seq(S) /\ Len(back) = Len(s) - i
      /\ \A j \in 1..(Len(s) - i) : back[j] = s[i + j]
  BY <1>1, SubSeqProperties
<1> HIDE DEF front, back
<1>4. RemoveAt(s, i) = front \o back
  BY DEF RemoveAt, front, back
<1>5. /\ front \o back \in Seq(S) /\ Len(front \o back) = Len(s) - 1
      /\ \A j \in 1..(Len(s) - 1) :
           (front \o back)[j] = IF j <= i - 1 THEN front[j] ELSE back[j - (i - 1)]
  <2>1. /\ front \o back \in Seq(S) /\ Len(front \o back) = Len(front) + Len(back)
        /\ \A j \in 1..(Len(front) + Len(back)) : (front \o back)[j] =
             IF j <= Len(front) THEN front[j] ELSE back[j - Len(front)]
    BY <1>2, <1>3, ConcatProperties
  <2>2. Len(front) + Len(back) = Len(s) - 1
    BY <1>1, <1>2, <1>3
  <2> QED  BY <1>2, <2>1, <2>2
<1>6. ASSUME NEW j \in 1..(Len(s) - 1)
      PROVE  RemoveAt(s, i)[j] = s[IF j < i THEN j ELSE j + 1]
  <2>1. CASE j < i
    BY <1>1, <1>2, <1>4, <1>5, <2>1
  <2>2. CASE ~ j < i
    <3>1. j - (i - 1) \in 1..(Len(s) - i) /\ i + (j - (i - 1)) = j + 1
      BY <1>1, <2>2
    <3>2. back[j - (i - 1)] = s[j + 1]
      BY <1>3, <3>1
    <3> QED  BY <1>1, <1>4, <1>5, <2>2, <3>2
  <2> QED  BY <2>1, <2>2
<1> QED  BY <1>4, <1>5, <1>6

LEMMA SeqIs == \A S : \A s \in Seq(S) : Len(s) \in Nat /\ DOMAIN s = 1..Len(s)
OBVIOUS

LEMMA OwnRange == ASSUME NEW S, NEW s \in Seq(S) PROVE s \in Seq(ToSet(s))
BY DEF ToSet
-----------------------------------------------------------------------------
(* Forms, their data and requests.                                          *)

FormFields == {"type", "target", "opts", "mode", "ids", "tags", "perTag"}

LEMMA BlankForm == ASSUME NEW S \in SUBSET Agents PROVE IsForm(Blank(S))
<1>1. Blank(S).opts = <<>> /\ DOMAIN <<>> = {}
  BY DEF Blank
<1>2. OptionsFit(Blank(S).type, Blank(S).opts)
  BY <1>1 DEF OptionsFit
<1> QED  BY <1>2, TypesListed DEF IsForm, Asks, Blank, TargetKinds

(* A form stays one under what replaces some of its fields.                 *)
LEMMA OverForm ==
  ASSUME NEW f, IsForm(f), NEW d, DOMAIN d \subseteq DOMAIN f,
         "type" \in DOMAIN d <=> "opts" \in DOMAIN d,
         "type" \in DOMAIN d => d.type \in TaskTypes /\ OptionsFit(d.type, d.opts),
         "target" \in DOMAIN d => d.target \in TargetKinds,
         "mode" \in DOMAIN d => d.mode \in {"agents", "tags"},
         "ids" \in DOMAIN d => d.ids \in SUBSET Agents,
         "tags" \in DOMAIN d => d.tags \in SUBSET Tags,
         "perTag" \in DOMAIN d => d.perTag \in 1..20
  PROVE  IsForm(Over(d, f))
<1> DEFINE g == Over(d, f)
<1>1. /\ DOMAIN g = FormFields
      /\ \A k \in FormFields : g[k] = IF k \in DOMAIN d THEN d[k] ELSE f[k]
  BY DEF IsForm, Over, FormFields
<1> HIDE DEF g
<1>2. g.type \in TaskTypes /\ OptionsFit(g.type, g.opts)
  BY <1>1 DEF IsForm, Asks, FormFields
<1>3. g.target \in TargetKinds /\ g.mode \in {"agents", "tags"}
  BY <1>1 DEF IsForm, Asks, FormFields
<1>4. g.ids \in SUBSET Agents /\ g.tags \in SUBSET Tags /\ g.perTag \in 1..20
  BY <1>1 DEF IsForm, FormFields
<1>5. IsForm(g)
  BY <1>1, <1>2, <1>3, <1>4 DEF IsForm, Asks, FormFields
<1> QED  BY <1>5 DEF g

LEMMA HydratedForm ==
  ASSUME NEW f, IsForm(f), NEW initial \in Openings
  PROVE  /\ IsForm(Hydrated(f, initial))
         /\ Rooted(f.type, f.opts) =>
              Rooted(Hydrated(f, initial).type, Hydrated(f, initial).opts)
<1> DEFINE g == IF "mode" \in DOMAIN initial /\ initial.mode = "agents"
                THEN [f EXCEPT !.tags = {}] ELSE f
<1>1. IsForm(g)
  BY DEF IsForm, Asks
<1>2. DOMAIN g = FormFields
  BY DEF IsForm, FormFields
<1>3. Hydrated(f, initial) = Over(initial, g)
  BY DEF Hydrated
<1> HIDE DEF g
<1>4. /\ DOMAIN initial \in {{}, {"mode", "ids"}, {"type", "target", "opts", "mode", "ids"}}
      /\ "mode" \in DOMAIN initial => initial.mode = "agents" /\ initial.ids \in SUBSET Agents
      /\ "type" \in DOMAIN initial =>
           /\ initial.type \in TaskTypes /\ initial.target \in TargetKinds
           /\ OptionsFit(initial.type, initial.opts)
  BY OpeningsAssumption
<1>5. /\ DOMAIN initial \subseteq FormFields
      /\ "tags" \notin DOMAIN initial /\ "perTag" \notin DOMAIN initial
      /\ "type" \in DOMAIN initial <=> "opts" \in DOMAIN initial
      /\ "type" \in DOMAIN initial <=> "target" \in DOMAIN initial
      /\ "mode" \in DOMAIN initial <=> "ids" \in DOMAIN initial
  BY <1>4 DEF FormFields
<1>6. IsForm(Over(initial, g))
  BY <1>1, <1>2, <1>4, <1>5, OverForm
<1>7. g.type = f.type /\ g.opts = f.opts
  BY DEF g, IsForm
<1> DEFINE h == Over(initial, g)
<1>8. \A k \in {"type", "opts"} : h[k] = IF k \in DOMAIN initial THEN initial[k] ELSE g[k]
  BY <1>2 DEF Over, FormFields
<1> HIDE DEF h
<1>9. CASE "type" \in DOMAIN initial
  <2>1. h.type = initial.type /\ h.opts = initial.opts
    BY <1>5, <1>8, <1>9
  <2>2. Rooted(initial.type, initial.opts)
    BY <1>9 DEF Rooted, Rerun
  <2> QED  BY <1>3, <1>6, <2>1, <2>2 DEF h
<1>10. CASE "type" \notin DOMAIN initial
  <2>1. h.type = f.type /\ h.opts = f.opts
    BY <1>5, <1>7, <1>8, <1>10
  <2> QED  BY <1>3, <1>6, <2>1 DEF h
<1> QED  BY <1>9, <1>10

LEMMA AppliedForm ==
  ASSUME NEW f, IsForm(f), NEW d, IsData(d)
  PROVE  /\ IsForm(Applied(f, d))
         /\ Applied(f, d).type = d.type /\ Applied(f, d).opts = d.opts
<1>1. DOMAIN f = FormFields
  BY DEF IsForm, FormFields
<1>2. /\ DOMAIN d \subseteq FormFields /\ {"type", "opts", "target", "mode"} \subseteq DOMAIN d
      /\ "ids" \in DOMAIN d => d.mode = "agents"
      /\ "tags" \in DOMAIN d => d.mode # "agents"
      /\ "perTag" \in DOMAIN d => d.mode # "agents"
  BY DEF IsData, FormFields
<1>3. IsForm(Over(d, f))
  BY <1>1, <1>2, OverForm DEF IsData, Asks, Routed
<1>4. Over(d, f).type = d.type /\ Over(d, f).opts = d.opts
  BY <1>2 DEF Over
<1> QED  BY <1>3, <1>4 DEF Applied

(* Data are made of a form so that they ask what the form asks, over any    *)
(* other form.                                                              *)
LEMMA DataOfForm ==
  ASSUME NEW f, IsForm(f)
  PROVE  /\ IsData(Data(f)) /\ Request(Data(f)) = Request(f)
         /\ Data(f).type = f.type /\ Data(f).opts = f.opts
<1>1. CASE f.mode = "agents"
  BY <1>1 DEF IsForm, IsData, Asks, Routed, Data, Request
<1>2. CASE f.mode # "agents"
  BY <1>2 DEF IsForm, IsData, Asks, Routed, Data, Request
<1> QED  BY <1>1, <1>2

LEMMA DataReproduce ==
  ASSUME NEW f, IsForm(f), NEW d, IsData(d)
  PROVE  Request(Applied(f, d)) = Request(d)
<1> DEFINE g == Applied(f, d)
<1>1. \A k \in DOMAIN d : g[k] = d[k]
  BY DEF Applied, Over
<1>2. {"type", "target", "opts", "mode"} \subseteq DOMAIN d
      /\ (d.mode = "agents" => "ids" \in DOMAIN d)
      /\ (d.mode # "agents" => "tags" \in DOMAIN d /\ "perTag" \in DOMAIN d)
  BY DEF IsData
<1> HIDE DEF g
<1>3. g.type = d.type /\ g.target = d.target /\ g.opts = d.opts /\ g.mode = d.mode
  BY <1>1, <1>2
<1>4. CASE d.mode = "agents"
  <2>1. g.ids = d.ids
    BY <1>1, <1>2, <1>4
  <2>2. Request(g) = Request(d)
    BY <1>3, <1>4, <2>1 DEF Request
  <2> QED  BY <2>2 DEF g
<1>5. CASE d.mode # "agents"
  <2>1. g.tags = d.tags /\ g.perTag = d.perTag
    BY <1>1, <1>2, <1>5
  <2>2. Request(g) = Request(d)
    BY <1>3, <1>5, <2>1 DEF Request
  <2> QED  BY <2>2 DEF g
<1> QED  BY <1>4, <1>5

LEMMA RequestAsks == ASSUME NEW f, IsForm(f) PROVE Asks(Request(f))
BY DEF IsForm, Asks, Request

LEMMA TargetForKinds ==
  \A t, x : x \in TargetKinds => TargetFor(t, x) \in TargetKinds
BY DEF TargetFor, TargetKinds

-----------------------------------------------------------------------------
(* The steps.                                                               *)

LEMMA TypeInit == DialogInit => DialogTypeOK
<1> SUFFICES ASSUME DialogInit PROVE DialogTypeOK
  OBVIOUS
<1>1. IsForm(form)
  BY BlankForm DEF DialogInit
<1>2. /\ <<>> \in Seq(ToSet(<<>>)) /\ <<>> \in Seq(TargetKinds)
      /\ Len(<<>>) = 0 /\ DOMAIN <<>> = {}
  OBVIOUS
<1>6. page \in Pages
  BY DEF DialogInit
<1>3. active \subseteq Agents /\ known \subseteq Agents /\ opened \in BOOLEAN /\ pending = None
  BY DEF DialogInit
<1>4. edits \in 0..MaxEdits /\ events \in 0..MaxEvents
  BY CreateAssumption DEF DialogInit
<1>5. templates = <<>> /\ menu = <<>> /\ recents = <<>> /\ 0 <= MaxTemplates /\ 0 <= MaxRecents
  BY CreateAssumption DEF DialogInit
<1>7. IsList(<<>>)
  BY <1>2, <1>5 DEF IsList
<1> QED  BY <1>1, <1>2, <1>3, <1>4, <1>5, <1>6, <1>7 DEF DialogTypeOK

GoodForm(f) == IsForm(f) /\ Rooted(f.type, f.opts)

LEMMA FormStep == DialogTypeOK /\ Kept /\ [DialogNext]_dialogVars => GoodForm(form')
<1> SUFFICES ASSUME DialogTypeOK, Kept, [DialogNext]_dialogVars PROVE GoodForm(form')
  OBVIOUS
<1>0. IsForm(form) /\ DOMAIN form = FormFields /\ Rooted(form.type, form.opts)
  BY DEF DialogTypeOK, IsForm, FormFields, Kept
<1> DEFINE Same == form'.type = form.type /\ form'.opts = form.opts
<1>r. IsForm(form') /\ Same => GoodForm(form')
  BY <1>0 DEF GoodForm
<1>1. CASE form' = form
  BY <1>0, <1>1 DEF GoodForm
<1>2. ASSUME NEW initial \in page, Open(initial) PROVE GoodForm(form')
  <2>1. initial \in Openings
    BY DEF DialogTypeOK, Openings
  <2> QED  BY <1>0, <1>2, <2>1, HydratedForm DEF Open, GoodForm
<1>3. ASSUME NEW t \in Types, OnChangeType(t) PROVE GoodForm(form')
  <2> DEFINE f == [form EXCEPT !.type = t, !.opts = <<>>, !.target = TargetFor(t, @)]
  <2>1. form' = f
    BY <1>3 DEF OnChangeType, Change
  <2>2. /\ f.type = t /\ f.opts = <<>> /\ f.target = TargetFor(t, form.target)
        /\ f.mode = form.mode /\ f.ids = form.ids /\ f.tags = form.tags
        /\ f.perTag = form.perTag /\ DOMAIN f = FormFields
    BY <1>0 DEF FormFields
  <2>3. t \in TaskTypes /\ DOMAIN <<>> = {}
    BY CreateAssumption
  <2>4. TargetFor(t, form.target) \in TargetKinds
    BY <1>0, TargetForKinds DEF IsForm, Asks
  <2> HIDE DEF f
  <2>5. IsForm(f)
    BY <1>0, <2>2, <2>3, <2>4 DEF IsForm, Asks, OptionsFit, FormFields
  <2>6. Rooted(f.type, f.opts)
    BY <2>2, <2>3 DEF Rooted
  <2> QED  BY <2>1, <2>5, <2>6 DEF GoodForm
<1>4. ASSUME NEW t \in Targets, SetTarget(t) PROVE GoodForm(form')
  <2>1. IsForm(form') /\ Same
    BY <1>0, <1>4, CreateAssumption DEF SetTarget, Change, IsForm, Asks, FormFields
  <2> QED  BY <1>r, <2>1
<1>5. ASSUME NEW k \in DOMAIN Fields(form.type, form.opts), NEW v \in FieldValues(k),
             SetOption(k, v)
      PROVE  GoodForm(form')
  <2> DEFINE new == Over([x \in {k} |-> v], form.opts)
  <2>1. OptionsFit(form.type, new) /\ Rooted(form.type, new)
    BY <1>0, FieldFits DEF FieldValues, IsForm, Asks
  <2>2. form' = [form EXCEPT !.opts = new]
    BY <1>5 DEF SetOption, Change
  <2> HIDE DEF new
  <2>3. form'.type = form.type /\ form'.opts = new
    BY <1>0, <2>2 DEF FormFields
  <2>4. IsForm(form')
    BY <1>0, <2>1, <2>2 DEF IsForm, Asks, FormFields
  <2> QED  BY <2>1, <2>3, <2>4 DEF GoodForm
<1>6. ASSUME NEW a \in Agents, ToggleAgent(a) PROVE GoodForm(form')
  <2>1. IsForm(form') /\ Same
    BY <1>0, <1>6 DEF ToggleAgent, Change, IsForm, Asks, FormFields
  <2> QED  BY <1>r, <2>1
<1>7. ASSUME NEW mode \in {"agents", "tags"}, SetMode(mode) PROVE GoodForm(form')
  <2>1. IsForm(form') /\ Same
    BY <1>0, <1>7 DEF SetMode, Change, IsForm, Asks, FormFields
  <2> QED  BY <1>r, <2>1
<1>8. ASSUME NEW g \in Tags, ToggleTag(g) PROVE GoodForm(form')
  <2>1. IsForm(form') /\ Same
    BY <1>0, <1>8 DEF ToggleTag, Change, IsForm, Asks, FormFields
  <2> QED  BY <1>r, <2>1
<1>9. ASSUME NEW n \in 1..2, SetAgentsPerTag(n) PROVE GoodForm(form')
  <2>1. IsForm(form') /\ Same
    BY <1>0, <1>9 DEF SetAgentsPerTag, Change, IsForm, Asks, FormFields
  <2> QED  BY <1>r, <2>1
<1>10. ASSUME NEW i \in Listed, ApplyTemplate(i) PROVE GoodForm(form')
  <2>1. i \in DOMAIN menu /\ IsData(menu[i].data)
        /\ Rooted(menu[i].data.type, menu[i].data.opts)
    BY DEF Listed, Kept, GoodList, GoodEntry
  <2>2. form' = Applied(form, menu[i].data)
    BY <1>10 DEF ApplyTemplate, Change
  <2> QED  BY <1>0, <2>1, <2>2, AppliedForm DEF GoodForm
<1>11. CASE EditForm
  BY <1>3, <1>4, <1>5, <1>6, <1>7, <1>8, <1>9, <1>11 DEF EditForm
<1> QED  BY <1>1, <1>2, <1>10, <1>11
         DEF DialogNext, dialogVars, Close, OnSaveTemplate, OnDeleteTemplate, SavedElsewhere,
             DeletedElsewhere, OnSubmit, Created, RefusedTask, AgentChanges, AgentsFetched

(* What is kept in order: templates by name, recent targets.                *)
LEMMA SavedIs ==
  ASSUME NEW list, GoodList(list), NEW name \in Names, NEW f, GoodForm(f)
  PROVE  GoodList(Saved(list, name, f))
<1> DEFINE at == {i \in DOMAIN list : list[i].name = name}
           entry == [id |-> IF at = {} THEN events ELSE list[CHOOSE i \in at : TRUE].id,
                     name |-> name, data |-> Data(f), asked |-> Request(f)]
           all == IF at # {} THEN [i \in DOMAIN list |-> IF i \in at THEN entry ELSE list[i]]
                  ELSE <<entry>> \o list
           T == ToSet(list) \union {entry}
<1>1. /\ list \in Seq(ToSet(list)) /\ DOMAIN list = 1..Len(list)
      /\ Len(list) \in Nat
      /\ \A i, j \in DOMAIN list : list[i].name = list[j].name => i = j
      /\ \A i \in DOMAIN list : list[i] \in T
  BY DEF GoodList, ToSet
<1>2. entry.name = name /\ entry.data = Data(f) /\ entry.asked = Request(f)
  OBVIOUS
<1>3. list \in Seq(T) /\ entry \in T
  BY <1>1
<1>4. \A i \in DOMAIN list : GoodEntry(list[i])
  BY DEF GoodList
<1> HIDE DEF T, entry
<1>5. GoodEntry(entry)
  BY <1>2, DataOfForm DEF GoodEntry, GoodForm
<1>6. /\ all \in Seq(T)
      /\ \A i \in 1..Len(all) : GoodEntry(all[i])
      /\ \A i, j \in 1..Len(all) : all[i].name = all[j].name => i = j
  <2>1. CASE at # {}
    <3>1. all = [i \in 1..Len(list) |-> IF i \in at THEN entry ELSE list[i]]
      BY <1>1, <2>1
    <3>2. \A i \in 1..Len(list) : list[i] \in T
      BY <1>1
    <3>a. all \in [1..Len(list) -> T]
      BY <1>3, <3>1, <3>2
    <3> HIDE DEF all
    <3>b. all \in Seq(T) /\ Len(all) = Len(list)
      BY <1>1, <3>a
    <3>3. \A i \in 1..Len(list) : all[i] = IF i \in at THEN entry ELSE list[i]
      BY <3>1
    <3>4. \A i \in at : list[i].name = entry.name
      BY <1>2
    <3>5. \A i \in 1..Len(list) : all[i].name = list[i].name
      BY <3>3, <3>4
    <3> QED  BY <1>1, <1>4, <1>5, <3>b, <3>3, <3>5
  <2>2. CASE at = {}
    <3>1. <<entry>> \in Seq(T) /\ Len(<<entry>>) = 1 /\ <<entry>>[1] = entry
      BY <1>3
    <3>2. all = <<entry>> \o list
      BY <2>2
    <3>3. all \in Seq(T) /\ Len(all) = 1 + Len(list)
          /\ \A i \in 1..(1 + Len(list)) :
               all[i] = IF i <= 1 THEN <<entry>>[i] ELSE list[i - 1]
      BY <1>3, <3>1, <3>2, ConcatProperties
    <3>4. all[1] = entry /\ \A i \in 2..Len(all) : i - 1 \in DOMAIN list /\ all[i] = list[i - 1]
      BY <1>1, <3>1, <3>3
    <3>5. \A i \in DOMAIN list : list[i].name # entry.name
      BY <1>2, <2>2
    <3>6. ASSUME NEW i \in 1..Len(all) PROVE GoodEntry(all[i])
      <4>1. CASE i = 1
        BY <1>5, <3>4, <4>1
      <4>2. CASE i # 1
        <5>1. i \in 2..Len(all)
          BY <1>1, <3>3, <4>2
        <5> QED  BY <1>4, <3>4, <5>1
      <4> QED  BY <4>1, <4>2
    <3>7. ASSUME NEW i \in 1..Len(all), NEW j \in 1..Len(all), all[i].name = all[j].name
          PROVE  i = j
      <4>1. CASE i = 1 \/ j = 1
        BY <1>1, <3>3, <3>4, <3>5, <3>7, <4>1, SMTT(30)
      <4>2. CASE i # 1 /\ j # 1
        <5>1. i - 1 \in DOMAIN list /\ j - 1 \in DOMAIN list
              /\ list[i - 1].name = list[j - 1].name
          BY <1>1, <3>3, <3>4, <3>7, <4>2
        <5> QED  BY <1>1, <3>3, <5>1
      <4> QED  BY <4>1, <4>2
    <3> QED  BY <3>3, <3>6, <3>7
  <2> QED  BY <2>1, <2>2
<1> DEFINE new == Cut(all, MaxTemplates)
<1>7. Saved(list, name, f) = new
  BY DEF Saved, entry
<1> HIDE DEF all
<1>8. /\ new \in Seq(T) /\ Len(new) <= MaxTemplates /\ Len(new) <= Len(all)
      /\ \A i \in 1..Len(new) : new[i] = all[i]
  BY <1>6, CutIs, CreateAssumption
<1> HIDE DEF new
<1>9. new \in Seq(ToSet(new)) /\ DOMAIN new = 1..Len(new) /\ Len(new) \in Nat /\ Len(all) \in Nat
  BY <1>6, <1>8, OwnRange
<1> HIDE DEF T
<1>10. \A i \in DOMAIN new : i \in 1..Len(all) /\ new[i] = all[i]
  BY <1>8, <1>9
<1>11. \A i \in DOMAIN new : GoodEntry(new[i])
  BY <1>6, <1>10
<1>12. \A i, j \in DOMAIN new : new[i].name = new[j].name => i = j
  BY <1>6, <1>10
<1>13. GoodList(new)
  BY <1>8, <1>9, <1>11, <1>12 DEF GoodList
<1> QED  BY <1>7, <1>13

LEMMA RemovedIs ==
  ASSUME NEW list, GoodList(list), NEW i \in DOMAIN list
  PROVE  GoodList(RemoveAt(list, i))
<1>0. list \in Seq(ToSet(list)) /\ Len(list) <= MaxTemplates
  BY Zenon DEF GoodList
<1> DEFINE S == ToSet(list)
           new == RemoveAt(list, i)
           Was(j) == IF j < i THEN j ELSE j + 1
<1>s. list \in Seq(S)
  BY <1>0
<1> HIDE DEF S
<1>1. /\ list \in Seq(S) /\ i \in 1..Len(list) /\ Len(list) \in Nat
      /\ DOMAIN list = 1..Len(list) /\ Len(list) <= MaxTemplates
  <2>1. Len(list) \in Nat /\ DOMAIN list = 1..Len(list)
    BY <1>s, SeqIs, Zenon
  <2> QED  BY <2>1, <1>0, <1>s, Zenon
<1>2. /\ new \in Seq(S) /\ Len(new) = Len(list) - 1
      /\ \A j \in 1..(Len(list) - 1) : new[j] = list[Was(j)]
  BY <1>1, RemoveAtIs, Zenon
<1> HIDE DEF new
<1>3. new \in Seq(ToSet(new)) /\ DOMAIN new = 1..(Len(list) - 1)
  BY <1>2, OwnRange
<1>w. \A j \in 1..(Len(list) - 1) : Was(j) \in 1..Len(list)
  BY <1>1
<1>5. \A j, k \in DOMAIN new : Was(j) = Was(k) => j = k
  BY <1>1, <1>3
<1> HIDE DEF Was
<1>4. \A j \in DOMAIN new : Was(j) \in DOMAIN list /\ new[j] = list[Was(j)]
  BY <1>1, <1>2, <1>w, <1>3, Zenon
<1>6. \A j \in DOMAIN new : GoodEntry(new[j])
  BY <1>4 DEF GoodList
<1>7. \A j, k \in DOMAIN new : new[j].name = new[k].name => j = k
  BY <1>4, <1>5 DEF GoodList
<1>8. Len(new) <= MaxTemplates
  BY <1>1, <1>2, CreateAssumption
<1>9. GoodList(new)
  BY <1>3, <1>6, <1>7, <1>8 DEF GoodList
<1> QED  BY <1>9 DEF new

LEMMA WithoutIs ==
  ASSUME NEW list, GoodList(list), NEW at \in SUBSET DOMAIN list
  PROVE  GoodList(Without(list, at))
<1>1. CASE at = {}
  BY <1>1 DEF Without
<1>2. CASE at # {}
  <2>1. (CHOOSE i \in at : TRUE) \in DOMAIN list
    BY <1>2
  <2> QED  BY <1>2, <2>1, RemovedIs DEF Without
<1> QED  BY <1>1, <1>2

LEMMA GoodListIs == ASSUME NEW list, GoodList(list) PROVE IsList(list)
BY DEF GoodList, GoodEntry, IsList

LEMMA RecentsIs ==
  ASSUME DialogTypeOK, NEW t \in TargetKinds
  PROVE  /\ Recents(t) \in Seq(TargetKinds) /\ Len(Recents(t)) <= MaxRecents
         /\ \A i, j \in DOMAIN Recents(t) : Recents(t)[i] = Recents(t)[j] => i = j
<1> DEFINE at == {i \in DOMAIN recents : recents[i] = t}
           x == CHOOSE i \in at : TRUE
           rest == Without(recents, at)
           all == <<t>> \o rest
<1>1. /\ recents \in Seq(TargetKinds) /\ Len(recents) \in Nat
      /\ DOMAIN recents = 1..Len(recents)
      /\ \A i, j \in DOMAIN recents : recents[i] = recents[j] => i = j
  BY DEF DialogTypeOK
<1>2. /\ rest \in Seq(TargetKinds) /\ Len(rest) \in Nat
      /\ \A i \in 1..Len(rest) : rest[i] # t
      /\ \A i, j \in 1..Len(rest) : rest[i] = rest[j] => i = j
  <2>1. CASE at = {}
    BY <1>1, <2>1 DEF Without
  <2>2. CASE at # {}
    <3> DEFINE Was(j) == IF j < x THEN j ELSE j + 1
    <3>1. x \in 1..Len(recents) /\ recents[x] = t
      BY <1>1, <2>2
    <3>2. rest = RemoveAt(recents, x)
      BY <2>2 DEF Without
    <3> HIDE DEF x, at, rest
    <3>3. /\ rest \in Seq(TargetKinds) /\ Len(rest) = Len(recents) - 1
          /\ \A j \in 1..(Len(recents) - 1) : rest[j] = recents[Was(j)]
      <4>1. recents \in Seq(TargetKinds)
        BY <1>1
      <4> QED  BY <3>1, <3>2, <4>1, RemoveAtIs
    <3>4. \A j \in 1..Len(rest) : Was(j) \in DOMAIN recents /\ Was(j) # x /\ rest[j] = recents[Was(j)]
      BY <1>1, <3>1, <3>3
    <3>5. \A j, k \in 1..Len(rest) : Was(j) = Was(k) => j = k
      BY <1>1, <3>1, <3>3
    <3> HIDE DEF Was
    <3>6. Len(rest) \in Nat
      BY <3>3
    <3> QED  BY <1>1, <3>1, <3>3, <3>4, <3>5, <3>6
  <2> QED  BY <2>1, <2>2
<1> HIDE DEF rest
<1>3. <<t>> \in Seq(TargetKinds) /\ Len(<<t>>) = 1 /\ <<t>>[1] = t
  OBVIOUS
<1>4. /\ all \in Seq(TargetKinds) /\ Len(all) = 1 + Len(rest)
      /\ \A i \in 1..(1 + Len(rest)) : all[i] = IF i <= 1 THEN <<t>>[i] ELSE rest[i - 1]
  BY <1>2, <1>3, ConcatProperties
<1> HIDE DEF all
<1>5. all[1] = t /\ \A i \in 2..Len(all) : i - 1 \in 1..Len(rest) /\ all[i] = rest[i - 1]
  BY <1>2, <1>3, <1>4
<1>6. ASSUME NEW i \in 1..Len(all), NEW j \in 1..Len(all), all[i] = all[j]
      PROVE  i = j
  <2>1. CASE i = 1 \/ j = 1
    BY <1>2, <1>4, <1>5, <1>6, <2>1
  <2>2. CASE i # 1 /\ j # 1
    <3>1. i - 1 \in 1..Len(rest) /\ j - 1 \in 1..Len(rest) /\ rest[i - 1] = rest[j - 1]
      BY <1>2, <1>4, <1>5, <1>6, <2>2
    <3>2. i - 1 = j - 1
      BY <1>2, <3>1
    <3>3. i \in Int /\ j \in Int
      BY <1>2, <1>4
    <3> QED  BY <3>2, <3>3
  <2> QED  BY <2>1, <2>2
<1> DEFINE new == Cut(all, MaxRecents)
<1>7. CASE t \in {"nothing", "blank"}
  BY <1>7 DEF Recents, DialogTypeOK
<1>8. /\ new \in Seq(TargetKinds) /\ Len(new) <= MaxRecents /\ Len(new) <= Len(all)
      /\ \A i \in 1..Len(new) : new[i] = all[i]
  BY <1>4, CutIs, CreateAssumption
<1>10. CASE t \notin {"nothing", "blank"}
  <2>1. Recents(t) = new
    BY <1>10 DEF Recents, all, rest
  <2> HIDE DEF new
  <2>2. DOMAIN new = 1..Len(new) /\ Len(new) \in Nat /\ Len(all) \in Nat
    BY <1>4, <1>8
  <2> QED  BY <1>6, <1>8, <2>1, <2>2
<1> QED  BY <1>7, <1>10

LEMMA PendingStep ==
  DialogTypeOK /\ [DialogNext]_dialogVars =>
    (pending' # None =>
      /\ DOMAIN pending' = {"ask", "sure", "shown", "previewed", "offered"}
      /\ Asks(pending'.ask) /\ pending'.sure \in BOOLEAN /\ pending'.offered \in BOOLEAN)
<1> SUFFICES ASSUME DialogTypeOK, [DialogNext]_dialogVars, pending' # None
             PROVE  /\ DOMAIN pending' = {"ask", "sure", "shown", "previewed", "offered"}
                    /\ Asks(pending'.ask) /\ pending'.sure \in BOOLEAN
                    /\ pending'.offered \in BOOLEAN
  OBVIOUS
<1>1. CASE pending' = pending
  BY <1>1 DEF DialogTypeOK
<1>2. CASE OnSubmit
  <2> DEFINE offer == form.mode = "agents" /\ \A a \in form.ids : a \in known /\ Offers(a, form.type)
             sure == known = active
  <2>1. pending' = [ask |-> Request(form), sure |-> sure,
                    shown |-> Displayed(form.type, form.opts),
                    previewed |-> Previewed(form.type, form.opts), offered |-> offer]
    BY <1>2 DEF OnSubmit
  <2>2. offer \in BOOLEAN /\ sure \in BOOLEAN
    BY Zenon
  <2>3. Asks(Request(form))
    BY RequestAsks DEF DialogTypeOK
  <2> HIDE DEF offer, sure
  <2> QED  BY <2>1, <2>2, <2>3
<1>3. ASSUME NEW a \in Agents, AgentChanges(a), pending # None
      PROVE  /\ DOMAIN pending' = {"ask", "sure", "shown", "previewed", "offered"}
             /\ Asks(pending'.ask) /\ pending'.sure \in BOOLEAN
             /\ pending'.offered \in BOOLEAN
  <2>1. pending' = [pending EXCEPT !.sure = FALSE]
    BY <1>3 DEF AgentChanges
  <2>2. /\ pending'.ask = pending.ask /\ pending'.offered = pending.offered
        /\ pending'.sure = FALSE /\ DOMAIN pending' = DOMAIN pending
    BY <1>3, <2>1 DEF DialogTypeOK
  <2> QED  BY <1>3, <2>2 DEF DialogTypeOK
<1> QED  BY <1>1, <1>2, <1>3
         DEF DialogNext, dialogVars, Open, Close, EditForm, OnChangeType, SetTarget,
             SetOption, ToggleAgent, SetMode, ToggleTag, SetAgentsPerTag, Change,
             OnSaveTemplate, ApplyTemplate, OnDeleteTemplate, SavedElsewhere,
             DeletedElsewhere, OnSubmit, Created, RefusedTask, AgentChanges,
             AgentsFetched

(* The storage and the dialog's copy of it.                                 *)
LEMMA ListsStep ==
  ASSUME DialogTypeOK, Kept, [DialogNext]_dialogVars
  PROVE  GoodList(templates') /\ GoodList(menu')
<1>0. GoodList(templates) /\ GoodList(menu) /\ GoodForm(form)
  BY DEF Kept, DialogTypeOK, GoodForm
<1>1. CASE templates' = templates /\ menu' \in {menu, templates}
  BY <1>0, <1>1
<1>2. ASSUME NEW name \in Names, OnSaveTemplate(name)
      PROVE  GoodList(templates') /\ GoodList(menu')
  BY <1>0, <1>2, SavedIs DEF OnSaveTemplate
<1>3. ASSUME NEW name \in Names, SavedElsewhere(name, Blank(Agents))
      PROVE  GoodList(templates') /\ GoodList(menu')
  <2>1. Blank(Agents).opts = <<>> /\ DOMAIN <<>> = {}
    BY DEF Blank
  <2>2. Rooted(Blank(Agents).type, Blank(Agents).opts)
    BY <2>1 DEF Rooted
  <2>3. GoodForm(Blank(Agents))
    BY <2>2, BlankForm DEF GoodForm
  <2> QED  BY <1>0, <1>3, <2>3, SavedIs DEF SavedElsewhere
<1>4. ASSUME NEW i \in Listed, OnDeleteTemplate(i)
      PROVE  GoodList(templates') /\ GoodList(menu')
  <2>1. {j \in DOMAIN templates : templates[j].id = menu[i].id} \in SUBSET DOMAIN templates
    OBVIOUS
  <2> QED  BY <1>0, <1>4, <2>1, WithoutIs DEF OnDeleteTemplate
<1>5. ASSUME NEW i \in DOMAIN templates, DeletedElsewhere(i)
      PROVE  GoodList(templates') /\ GoodList(menu')
  BY <1>0, <1>5, RemovedIs DEF DeletedElsewhere
<1> QED  BY <1>1, <1>2, <1>3, <1>4, <1>5
         DEF DialogNext, dialogVars, Open, Close, EditForm, OnChangeType, SetTarget,
             SetOption, ToggleAgent, SetMode, ToggleTag, SetAgentsPerTag, Change,
             ApplyTemplate, OnSubmit, Created, RefusedTask, AgentChanges, AgentsFetched

LEMMA RecentsStep ==
  ASSUME DialogTypeOK, [DialogNext]_dialogVars
  PROVE  /\ recents' \in Seq(TargetKinds) /\ Len(recents') <= MaxRecents
         /\ \A i, j \in DOMAIN recents' : recents'[i] = recents'[j] => i = j
<1>1. CASE recents' = recents
  BY <1>1 DEF DialogTypeOK
<1>2. CASE recents' = Recents(form.target)
  <2>1. form.target \in TargetKinds
    BY DEF DialogTypeOK, IsForm, Asks
  <2> QED  BY <1>2, <2>1, RecentsIs
<1> QED  BY <1>1, <1>2
         DEF DialogNext, dialogVars, Open, Close, EditForm, OnChangeType, SetTarget,
             SetOption, ToggleAgent, SetMode, ToggleTag, SetAgentsPerTag, Change,
             OnSaveTemplate, ApplyTemplate, OnDeleteTemplate, SavedElsewhere,
             DeletedElsewhere, OnSubmit, Created, RefusedTask, AgentChanges,
             AgentsFetched

LEMMA RestStep ==
  ASSUME DialogTypeOK, [DialogNext]_dialogVars
  PROVE  /\ page' \in Pages /\ active' \subseteq Agents /\ known' \subseteq Agents
         /\ opened' \in BOOLEAN
         /\ edits' \in 0..MaxEdits /\ events' \in 0..MaxEvents
<1> USE CreateAssumption DEF DialogTypeOK
<1>1. page' \in Pages /\ active' \subseteq Agents /\ known' \subseteq Agents
  BY DEF DialogNext, dialogVars, Open, Close, EditForm, OnChangeType, SetTarget,
         SetOption, ToggleAgent, SetMode, ToggleTag, SetAgentsPerTag, Change,
         OnSaveTemplate, ApplyTemplate, OnDeleteTemplate, SavedElsewhere,
         DeletedElsewhere, OnSubmit, Created, RefusedTask, AgentChanges, AgentsFetched
<1>2. opened' \in BOOLEAN
  BY DEF DialogNext, dialogVars, Open, Close, EditForm, OnChangeType, SetTarget,
         SetOption, ToggleAgent, SetMode, ToggleTag, SetAgentsPerTag, Change,
         OnSaveTemplate, ApplyTemplate, OnDeleteTemplate, SavedElsewhere,
         DeletedElsewhere, OnSubmit, Created, RefusedTask, AgentChanges, AgentsFetched
<1>3. edits' = edits \/ Edit
  BY DEF DialogNext, dialogVars, Open, Close, EditForm, OnChangeType, SetTarget,
         SetOption, ToggleAgent, SetMode, ToggleTag, SetAgentsPerTag, Change,
         OnSaveTemplate, ApplyTemplate, OnDeleteTemplate, SavedElsewhere,
         DeletedElsewhere, OnSubmit, Created, RefusedTask, AgentChanges, AgentsFetched
<1>4. events' = events \/ Event
  BY DEF DialogNext, dialogVars, Open, Close, EditForm, OnChangeType, SetTarget,
         SetOption, ToggleAgent, SetMode, ToggleTag, SetAgentsPerTag, Change,
         OnSaveTemplate, ApplyTemplate, OnDeleteTemplate, SavedElsewhere,
         DeletedElsewhere, OnSubmit, Created, RefusedTask, AgentChanges, AgentsFetched
<1>5. edits' \in 0..MaxEdits /\ events' \in 0..MaxEvents
  BY <1>3, <1>4 DEF Edit, Event
<1> QED  BY <1>1, <1>2, <1>5

(* Until it is answered a request keeps what was noted of it, but for       *)
(* whether the page is still right about the agents.                        *)
LEMMA PendingMoves ==
  ASSUME DialogTypeOK, [DialogNext]_dialogVars, pending' # None
  PROVE  \/ pending' = pending /\ active' = active
         \/ OnSubmit
         \/ /\ pending # None /\ pending'.ask = pending.ask /\ ~ pending'.sure
            /\ pending'.shown = pending.shown /\ pending'.previewed = pending.previewed
<1>1. ASSUME NEW a \in Agents, AgentChanges(a), pending # None
      PROVE  /\ pending'.ask = pending.ask /\ pending'.sure = FALSE
             /\ pending'.shown = pending.shown /\ pending'.previewed = pending.previewed
  BY <1>1 DEF AgentChanges, DialogTypeOK
<1>2. ASSUME NEW a \in Agents, AgentChanges(a) PROVE pending # None
  BY <1>2 DEF AgentChanges
<1>3. CASE \E a \in Agents : AgentChanges(a)
  BY <1>1, <1>2, <1>3
<1> QED  BY <1>3
         DEF DialogNext, dialogVars, Open, Close, EditForm, OnChangeType, SetTarget,
             SetOption, ToggleAgent, SetMode, ToggleTag, SetAgentsPerTag, Change,
             OnSaveTemplate, ApplyTemplate, OnDeleteTemplate, SavedElsewhere,
             DeletedElsewhere, Created, RefusedTask, AgentsFetched

LEMMA RequestIs ==
  \A f : /\ Request(f).type = f.type /\ Request(f).opts = f.opts
         /\ Request(f).target = f.target
         /\ f.mode = "agents" => "ids" \in DOMAIN Request(f) /\ Request(f).ids = f.ids
BY DEF Request

LEMMA TypeStep ==
  DialogTypeOK /\ Kept /\ [DialogNext]_dialogVars => DialogTypeOK' /\ Kept'
<1> SUFFICES ASSUME DialogTypeOK, Kept, [DialogNext]_dialogVars
             PROVE  DialogTypeOK' /\ Kept'
  OBVIOUS
<1>1. IsForm(form') /\ Rooted(form'.type, form'.opts)
  BY FormStep DEF GoodForm
<1>2. pending' # None =>
        /\ DOMAIN pending' = {"ask", "sure", "shown", "previewed", "offered"}
        /\ Asks(pending'.ask) /\ pending'.sure \in BOOLEAN /\ pending'.offered \in BOOLEAN
  BY PendingStep
<1>3. GoodList(templates') /\ GoodList(menu')
  BY ListsStep
<1>4. IsList(templates') /\ IsList(menu')
  BY <1>3, GoodListIs
<1>5. ASSUME pending' # None PROVE Rooted(pending'.ask.type, pending'.ask.opts)
  <2>1. CASE OnSubmit
    <3>1. pending'.ask = Request(form)
      BY <2>1 DEF OnSubmit
    <3> QED  BY <3>1, RequestIs DEF Kept
  <2>2. CASE pending' = pending
    BY <1>5, <2>2 DEF Kept
  <2>3. CASE pending # None /\ pending'.ask = pending.ask
    BY <2>3 DEF Kept
  <2> QED  BY <1>5, <2>1, <2>2, <2>3, PendingMoves
<1>6. DialogTypeOK'
  BY <1>1, <1>2, <1>4, RecentsStep, RestStep DEF DialogTypeOK
<1>7. Kept'
  BY <1>1, <1>3, <1>5 DEF Kept
<1> QED  BY <1>6, <1>7

(* The form, the templates, the menu and what is remembered are well        *)
(* formed, whatever the user and other tabs do and however agents come and  *)
(* go (CreateTaskDialog.tsx).                                               *)
THEOREM DialogTypeCorrect == DialogSpec => [](DialogTypeOK /\ Kept)
<1>1. DialogInit => DialogTypeOK /\ Kept
  <2> SUFFICES ASSUME DialogInit PROVE DialogTypeOK /\ Kept
    OBVIOUS
  <2>1. DialogTypeOK
    BY TypeInit
  <2>2. /\ DOMAIN <<>> = {} /\ <<>> \in Seq(ToSet(<<>>)) /\ Len(<<>>) = 0
        /\ 0 <= MaxTemplates
    BY CreateAssumption
  <2>3. GoodList(<<>>)
    BY <2>2 DEF GoodList
  <2>4. templates = <<>> /\ menu = <<>> /\ pending = None
    BY DEF DialogInit
  <2>5. form.opts = <<>>
    BY DEF DialogInit, Blank
  <2> QED  BY <2>1, <2>2, <2>3, <2>4, <2>5 DEF Kept, Rooted
<1> QED  BY <1>1, TypeStep, PTL DEF DialogSpec

(* A template, applied to any form, asks for exactly what the form asked    *)
(* for that it was saved from (CreateTaskDialog.tsx:138-168), whatever was  *)
(* saved, replaced and deleted in between, by this tab or another one.      *)
THEOREM TemplatesFaithful == DialogSpec => []TemplatesReproduce
<1>1. DialogTypeOK /\ Kept => TemplatesReproduce
  BY DataReproduce DEF DialogTypeOK, Kept, GoodList, GoodEntry, TemplatesReproduce
<1> QED  BY <1>1, DialogTypeCorrect, PTL

LEMMA HonestStep ==
  DialogTypeOK /\ PendingIsHonest /\ [DialogNext]_dialogVars => PendingIsHonest'
<1> SUFFICES ASSUME DialogTypeOK, PendingIsHonest, [DialogNext]_dialogVars, pending' # None
             PROVE  /\ pending'.shown = Displayed(pending'.ask.type, pending'.ask.opts)
                    /\ pending'.previewed = Previewed(pending'.ask.type, pending'.ask.opts)
  BY DEF PendingIsHonest
<1>1. CASE OnSubmit
  <2>1. /\ pending'.ask = Request(form)
        /\ pending'.shown = Displayed(form.type, form.opts)
        /\ pending'.previewed = Previewed(form.type, form.opts)
    BY <1>1 DEF OnSubmit
  <2> QED  BY <2>1, RequestIs
<1>2. CASE pending' = pending
  BY <1>2 DEF PendingIsHonest
<1>3. CASE /\ pending # None /\ pending'.ask = pending.ask
           /\ pending'.shown = pending.shown /\ pending'.previewed = pending.previewed
  BY <1>3 DEF PendingIsHonest
<1> QED  BY <1>1, <1>2, <1>3, PendingMoves

LEMMA TargetStep ==
  DialogTypeOK /\ TargetChecked /\ [DialogNext]_dialogVars => TargetChecked'
<1> SUFFICES ASSUME DialogTypeOK, TargetChecked, [DialogNext]_dialogVars, pending' # None
             PROVE  /\ ValidateTargetFor(pending'.ask.type, pending'.ask.target)
                    /\ pending'.ask.target # "nothing"
  BY DEF TargetChecked
<1>1. CASE OnSubmit
  BY <1>1, RequestIs DEF OnSubmit, CanSubmit
<1>2. CASE pending' = pending
  BY <1>2 DEF TargetChecked
<1>3. CASE pending # None /\ pending'.ask = pending.ask
  BY <1>3 DEF TargetChecked
<1> QED  BY <1>1, <1>2, <1>3, PendingMoves

LEMMA OfferStep ==
  DialogTypeOK /\ OfferStands /\ [DialogNext]_dialogVars => OfferStands'
<1> SUFFICES ASSUME DialogTypeOK, OfferStands, [DialogNext]_dialogVars,
                    pending' # None, pending'.sure, pending'.offered
             PROVE  /\ "ids" \in DOMAIN pending'.ask /\ pending'.ask.ids # {}
                    /\ \A a \in pending'.ask.ids :
                         a \in active' /\ Supports(a, pending'.ask.type)
  BY DEF OfferStands, Routable, Supports
<1>1. CASE OnSubmit
  <2>1. /\ pending'.ask = Request(form)
        /\ pending'.sure <=> known = active
        /\ pending'.offered <=> (form.mode = "agents" /\ \A a \in form.ids :
                                   a \in known /\ Offers(a, form.type))
        /\ active' = active
    BY <1>1 DEF OnSubmit
  <2>2. form.mode = "agents" /\ form.ids # {}
        /\ \A a \in form.ids : a \in active /\ Supports(a, form.type)
    BY <1>1, <2>1 DEF OnSubmit, CanSubmit, Offers, Supports
  <2> QED  BY <2>1, <2>2, RequestIs DEF Routable, Supports
<1>2. CASE pending' = pending /\ active' = active
  BY <1>2 DEF OfferStands, Routable, Supports
<1>3. CASE ~ pending'.sure
  BY <1>3
<1> QED  BY <1>1, <1>2, <1>3, PendingMoves

(* What a step does to the outcome shown.                                   *)
LEMMA GroupMoves ==
  [DialogNext]_dialogVars =>
    \/ group' = group
    \/ group' = None
    \/ pending # None /\ \E S \in Routings(pending.ask) : Created(S)
    \/ \E why \in Refusals : RefusedTask(why)
BY DEF DialogNext, dialogVars, Edit, Event, Later, Open, Close, EditForm, OnChangeType,
       SetTarget, SetOption, ToggleAgent, SetMode, ToggleTag, SetAgentsPerTag, Change,
       OnSaveTemplate, ApplyTemplate, OnDeleteTemplate, SavedElsewhere,
       DeletedElsewhere, OnSubmit, AgentChanges, AgentsFetched

LEMMA CreatedIs ==
  ASSUME NEW S, Created(S)
  PROVE  /\ ~ IsRefusal(group')
         /\ group'.opts = Taken(pending.ask.type, pending.ask.opts)
         /\ group'.shown = pending.shown /\ group'.previewed = pending.previewed
         /\ group'.ask = pending.ask /\ group'.on = S
         /\ group'.target = Normalised(pending.ask.target)
BY DEF Created, IsRefusal

LEMMA RefusedIs ==
  ASSUME NEW why, RefusedTask(why)
  PROVE  /\ ~ IsGroup(group')
         /\ group'.refused = why /\ group'.ask = pending.ask
         /\ group'.sure = pending.sure /\ group'.offered = pending.offered
BY DEF RefusedTask, IsRefusal, IsGroup

LEMMA RunsInit ==
  DialogInit => /\ PendingIsHonest /\ OfferStands /\ TargetChecked
                /\ RunsWhatWasShown /\ OfferedIsAccepted
BY DEF DialogInit, PendingIsHonest, OfferStands, TargetChecked, RunsWhatWasShown,
       OfferedIsAccepted, IsGroup, IsRefusal

LEMMA RunsStep ==
  DialogTypeOK /\ Kept /\ PendingIsHonest /\ RunsWhatWasShown /\ [DialogNext]_dialogVars
    => RunsWhatWasShown'
<1> SUFFICES ASSUME DialogTypeOK, Kept, PendingIsHonest, RunsWhatWasShown,
                    [DialogNext]_dialogVars
             PROVE  RunsWhatWasShown'
  OBVIOUS
<1>1. CASE group' = group \/ group' = None
  BY <1>1 DEF RunsWhatWasShown, IsGroup, IsRefusal
<1>2. ASSUME NEW S \in Routings(pending.ask), pending # None, Created(S)
      PROVE  RunsWhatWasShown'
  <2> DEFINE t == pending.ask.type
             o == pending.ask.opts
  <2>1. t \in TaskTypes /\ OptionsOk(t, o) /\ Rooted(t, o)
    BY <1>2 DEF DialogTypeOK, Kept, Asks, Created, Accepts
  <2>2. /\ \A k \in DOMAIN Displayed(t, o) :
             \/ Taken(t, o)[k] = Displayed(t, o)[k]
             \/ /\ k \in Menus /\ Taken(t, o)[k] \notin TypeFields[t][k].vals
                /\ Rerun(t, k, Taken(t, o)[k])
        /\ \A k \in DOMAIN Previewed(t, o) : Taken(t, o)[k] = Previewed(t, o)[k]
        /\ \A k \in DOMAIN Taken(t, o) \ DOMAIN Displayed(t, o) :
             \/ Taken(t, o)[k] = Params(t, o)[k].def
             \/ Rerun(t, k, Taken(t, o)[k])
    BY <2>1, TakenAsShown
  <2>3. pending.shown = Displayed(t, o) /\ pending.previewed = Previewed(t, o)
    BY <1>2 DEF PendingIsHonest
  <2>4. "ids" \in DOMAIN pending.ask => S = pending.ask.ids
    BY <1>2 DEF Routings
  <2>5. /\ group'.opts = Taken(t, o)
        /\ group'.shown = pending.shown /\ group'.previewed = pending.previewed
        /\ group'.ask = pending.ask /\ group'.on = S
        /\ group'.target = Normalised(pending.ask.target)
    BY <1>2, CreatedIs
  <2>6. \/ Normalised(pending.ask.target) = pending.ask.target
        \/ pending.ask.target = "casedUrl"
    BY DEF Normalised
  <2>7. group'.ask.type = t /\ group'.ask.opts = o
    BY <2>5
  <2> HIDE DEF t, o
  <2> QED  BY <2>2, <2>3, <2>4, <2>5, <2>6, <2>7 DEF RunsWhatWasShown, Rerun
<1>3. ASSUME NEW why, RefusedTask(why) PROVE RunsWhatWasShown'
  BY <1>3, RefusedIs DEF RunsWhatWasShown
<1> QED  BY <1>1, <1>2, <1>3, GroupMoves

(* The browser's check lets no other target through than those listed.      *)
LEMMA TargetsListed ==
  ASSUME NEW type, NEW t, ValidateTargetFor(type, t), t # "nothing", ~ ServerTakesTarget(t)
  PROVE  t \in LetThrough(type)
<1> USE DEF ValidateTargetFor, ServerTakesTarget, Resolves, LetThrough, Hosts, Urls, HostOrIP
<1>1. CASE type = "dns"
  BY <1>1
<1>2. CASE type = "http_check"
  BY <1>2
<1>3. CASE type = "tls_check"
  BY <1>3
<1>4. CASE type \notin {"dns", "http_check", "tls_check"}
  BY <1>4
<1> QED  BY <1>1, <1>2, <1>3, <1>4

LEMMA AcceptedStep ==
  DialogTypeOK /\ OfferStands /\ TargetChecked /\ OfferedIsAccepted /\ [DialogNext]_dialogVars
    => OfferedIsAccepted'
<1> SUFFICES ASSUME DialogTypeOK, OfferStands, TargetChecked, OfferedIsAccepted,
                    [DialogNext]_dialogVars
             PROVE  OfferedIsAccepted'
  OBVIOUS
<1>1. CASE group' = group \/ group' = None
  BY <1>1 DEF OfferedIsAccepted, IsRefusal
<1>2. ASSUME NEW S \in Routings(pending.ask), Created(S) PROVE OfferedIsAccepted'
  BY <1>2, CreatedIs DEF OfferedIsAccepted
<1>3. ASSUME NEW why \in Refusals, RefusedTask(why) PROVE OfferedIsAccepted'
  <2> DEFINE ask == pending.ask
  <2>1. pending # None /\ Refusable(ask, why)
    BY <1>3 DEF RefusedTask
  <2>2. ask.type \in TaskTypes /\ OptionsFit(ask.type, ask.opts)
    BY <2>1 DEF DialogTypeOK, Asks
  <2>3. ASSUME why = "target" PROVE ask.target \in LetThrough(ask.type)
    <3>1. ~ ServerTakesTarget(ask.target)
      BY <2>1, <2>3 DEF Refusable
    <3>2. ValidateTargetFor(ask.type, ask.target) /\ ask.target # "nothing"
      BY <2>1 DEF TargetChecked
    <3> QED  BY <3>1, <3>2, TargetsListed
  <2>4. \A k \in DOMAIN Params(ask.type, ask.opts) :
          \/ Taken(ask.type, ask.opts)[k] \in Params(ask.type, ask.opts)[k].vals \union Beyond(k)
          \/ k = "ports" /\ k \notin DOMAIN ask.opts
    BY <2>2, BadIsBeyond
  <2>5. ASSUME why = "agents" PROVE ~ (pending.sure /\ pending.offered)
    <3> SUFFICES ASSUME pending.sure, pending.offered PROVE FALSE
      OBVIOUS
    <3>1. "ids" \in DOMAIN ask /\ Routable(ask, ask.ids)
      BY <2>1 DEF OfferStands
    <3>2. Routings(ask) = {ask.ids}
      BY <3>1 DEF Routings
    <3> QED  BY <2>1, <2>5, <3>1, <3>2 DEF Refusable
  <2>6. /\ group'.refused = why /\ group'.ask = ask
        /\ group'.sure = pending.sure /\ group'.offered = pending.offered
    BY <1>3, RefusedIs
  <2> HIDE DEF ask
  <2> QED  BY <2>3, <2>4, <2>5, <2>6 DEF OfferedIsAccepted
<1> QED  BY <1>1, <1>2, <1>3, GroupMoves

(* A task that runs does so with the options its form showed and its        *)
(* preview named, those left at their defaults included, on the agents      *)
(* ticked, for all eleven types: the three lists of defaults agree, and no  *)
(* option left over from another type, a hidden field or a template comes   *)
(* along unseen, only those of a task run again (CreateTaskDialog.tsx:      *)
(* 106-156, :224-229, TypeFields.tsx, commandPreview.ts:4-6,                *)
(* task_params.py).                                                         *)
THEOREM ShownIsRun == DialogSpec => []RunsWhatWasShown
<1>1. DialogInit => PendingIsHonest /\ RunsWhatWasShown
  BY RunsInit
<1> QED  BY <1>1, DialogTypeCorrect, HonestStep, RunsStep, PTL DEF DialogSpec

(* What the form offers the server does not refuse, but for the targets,    *)
(* texts and ports listed, whatever was prefilled, typed, saved and applied *)
(* before (RoutingPicker.tsx:64-92, fields.tsx, targetValidator.ts, against *)
(* targets.py, task_params.py, task_router.py:26-50).                       *)
THEOREM OfferAccepted == DialogSpec => []OfferedIsAccepted
<1>1. DialogInit => OfferStands /\ TargetChecked /\ OfferedIsAccepted
  BY RunsInit
<1> QED  BY <1>1, DialogTypeCorrect, OfferStep, TargetStep, AcceptedStep, PTL DEF DialogSpec

=============================================================================
