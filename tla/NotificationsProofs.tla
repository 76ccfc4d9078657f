------------------------ MODULE NotificationsProofs ------------------------
(* What holds of TaskViews and Notifications for every number of tasks,     *)
(* pages, requests, agents and events.                                      *)
EXTENDS Notifications, FiniteSetTheorems, SequenceTheorems, TLAPS

Data(p, t) == data[p] # None /\ data[p][t] # "live"
Read(p, t) == fetch[p].step = "read" /\ fetch[p].rows[t] # "live"

(* A task that has ended does not live again, so what a page shows, or an   *)
(* answer on its way brings, as ended is ended, and the answer is not older *)
(* than what is shown.                                                      *)
EndsInOrder ==
  \A p \in Views, t \in Tasks : t \in Shows(p) =>
    /\ Data(p, t) \/ Read(p, t) => task[t] # "live"
    /\ Data(p, t) /\ fetch[p].step = "read" => Read(p, t)

(* A question about a delete is about tasks that have ended, and so is the  *)
(* request.                                                                 *)
Over(ids) == \A t \in ids : task[t] # "live"
DeletesAreOver ==
  /\ ask # None => Over(Shows(ask))
  /\ \A s \in Slots : call[s] # None /\ call[s].op = "delete" =>
       Over(call[s].ids) /\ call[s].answer # "live"

PagesInv == PagesTyped /\ EndsInOrder /\ DeletesAreOver

\* What EndIsFinal asks of a step.
Final ==
  \A p \in Views, t \in Tasks :
    data[p] # None /\ t \in Shows(p) /\ data[p][t] \in Terminal => data'[p][t] # "live"

-----------------------------------------------------------------------------
(* The pages.                                                               *)

LEMMA ShowsTasks == \A p \in Views : Shows(p) \in SUBSET Tasks
  BY ViewsAssumption DEF Shows, Views

LEMMA ActTyped ==
  ASSUME NEW kind \in Kinds, Act(kind), budget \in [Kinds -> Nat]
  PROVE  budget' \in [Kinds -> Nat]
  BY DEF Act

(* Tasks end and go, and none begins.                                       *)
LEMMA EndsHold ==
  ASSUME PagesInv, \A t \in Tasks : task[t] # "live" => task'[t] # "live",
         UNCHANGED <<data, fetch>>
  PROVE  EndsInOrder'
  BY DEF PagesInv, EndsInOrder, Data, Read

LEMMA OverHolds ==
  ASSUME NEW ids \in SUBSET Tasks, Over(ids),
         \A t \in Tasks : task[t] # "live" => task'[t] # "live"
  PROVE  Over(ids)'
  BY DEF Over

(* Rows change, and at most the answer of a request.                        *)
LEMMA RowsChange ==
  ASSUME PagesInv, PagesTyped', \A t \in Tasks : task[t] # "live" => task'[t] # "live",
         UNCHANGED <<data, fetch, ask>>,
         \A s \in Slots : call'[s] # None =>
           /\ call[s] # None /\ call'[s].op = call[s].op /\ call'[s].ids = call[s].ids
           /\ call[s].op = "delete" => call'[s].answer # "live"
  PROVE  PagesInv' /\ Final
<1>1. EndsInOrder'
  BY EndsHold
<1>2. DeletesAreOver'
  <2>1. ask' # None => Over(Shows(ask))'
    <3>1. ASSUME ask # None PROVE Over(Shows(ask))'
      <4>1. Shows(ask) \in SUBSET Tasks /\ Over(Shows(ask))
        BY <3>1, ShowsTasks DEF PagesInv, PagesTyped, DeletesAreOver
      <4> QED BY <4>1 DEF Over, Shows
    <3> QED BY <3>1
  <2>2. ASSUME NEW s \in Slots, call'[s] # None, call'[s].op = "delete"
        PROVE  Over(call[s].ids)' /\ call'[s].answer # "live"
    <3>1. call[s] # None /\ call[s].op = "delete" /\ call'[s].ids = call[s].ids
      BY <2>2
    <3>2. call[s].ids \in SUBSET Tasks /\ Over(call[s].ids)
      BY <3>1 DEF PagesInv, PagesTyped, CallType, DeletesAreOver
    <3> QED BY <2>2, <3>1, <3>2 DEF Over
  <2> QED BY <2>1, <2>2 DEF DeletesAreOver
<1>3. Final
  BY DEF Final, Terminal
<1> QED BY <1>1, <1>2, <1>3 DEF PagesInv

LEMMA SettleStep ==
  ASSUME PagesInv, NEW t \in Tasks, Settle(t) \/ Others(t)
  PROVE  PagesInv' /\ Final
<1>0. PagesTyped
  BY DEF PagesInv
<1>1. \A u \in Tasks : task[u] # "live" => task'[u] # "live"
  BY <1>0, ViewsAssumption DEF Settle, Others, Finish, PagesTyped
<1>2. PagesTyped'
  <2>1. task' \in [Tasks -> Statuses \union {None}]
    BY <1>0 DEF Settle, Others, Finish, PagesTyped, Statuses
  <2>2. failed' \in Seq(Tasks)
    <3>1. <<t>> \o failed \in Seq(Tasks)
      BY <1>0 DEF PagesTyped
    <3> QED BY <1>0, <3>1 DEF Settle, Others, Finish, PagesTyped
  <2>3. budget' \in [Kinds -> Nat]
    BY <1>0, ActTyped DEF Settle, Others, PagesTyped, Kinds
  <2> QED BY <1>0, <2>1, <2>2, <2>3 DEF PagesTyped, Settle, Others
<1>3. \A s \in Slots : call[s] # None /\ call[s].op = "delete" => call[s].answer # "live"
  BY DEF PagesInv, DeletesAreOver
<1>4. UNCHANGED <<data, fetch, ask, call>>
  BY DEF Settle, Others
<1> QED BY <1>1, <1>2, <1>3, <1>4, RowsChange

LEMMA HandleStep ==
  ASSUME PagesInv, NEW s \in Slots, Handle(s)
  PROVE  PagesInv' /\ Final
<1>0. PagesTyped /\ DeletesAreOver
  BY DEF PagesInv
<1> DEFINE c == call[s]
           v == Verdict(c)
<1>1. c \in CallType /\ c # None /\ c.answer = None
  BY <1>0 DEF Handle, PagesTyped
<1>2. v \in {"ok", "role", "gone", "ended", "live"}
  BY <1>0 DEF Verdict, PagesTyped
<1>3. /\ call' = [call EXCEPT ![s] = [c EXCEPT !.answer = v]]
      /\ task' = IF v = "ok" THEN Applied(c) ELSE task
      /\ UNCHANGED <<role, failed, visible, route, data, fetch, wrong, ask, budget>>
  BY DEF Handle
<1>4. c.op = "delete" => v # "live"
  <2>1. ASSUME c.op = "delete" PROVE Over(c.ids)
    BY <1>0, <1>1, <2>1 DEF DeletesAreOver
  <2> QED BY <1>0, <2>1 DEF Verdict, Existing, Over, PagesTyped
<1>5. \A t \in Tasks : task[t] # "live" => task'[t] # "live"
  <2>1. \A t \in Tasks : Applied(c)[t] \in {task[t], "cancelled", None}
    BY DEF Applied
  <2> QED BY <1>3, <2>1, ViewsAssumption
<1> HIDE DEF v
<1>6. /\ call' \in [Slots -> CallType \union {None}]
      /\ call'[s].op = c.op /\ call'[s].ids = c.ids /\ call'[s].answer = v
      /\ call'[s].here = c.here /\ call'[s].page = c.page
      /\ \A u \in Slots \ {s} : call'[u] = call[u]
  BY <1>0, <1>1, <1>2, <1>3 DEF PagesTyped, CallType
<1>7. PagesTyped'
  <2>1. task' \in [Tasks -> Statuses \union {None}]
    BY <1>0, <1>3 DEF PagesTyped, Applied, Statuses
  <2>2. \A u \in Slots : call'[u] # None /\ call'[u].here => call'[u].page = route
    BY <1>0, <1>1, <1>6 DEF PagesTyped
  <2> QED BY <1>0, <1>3, <1>6, <2>1, <2>2 DEF PagesTyped
<1>8. \A u \in Slots : call'[u] # None =>
           /\ call[u] # None /\ call'[u].op = call[u].op /\ call'[u].ids = call[u].ids
           /\ call[u].op = "delete" => call'[u].answer # "live"
  BY <1>0, <1>1, <1>4, <1>6 DEF DeletesAreOver
<1> QED BY <1>3, <1>5, <1>7, <1>8, RowsChange

LEMMA CallFailsStep ==
  ASSUME PagesInv, NEW s \in Slots, CallFails(s)
  PROVE  PagesInv' /\ Final
<1>0. PagesTyped /\ DeletesAreOver
  BY DEF PagesInv
<1> DEFINE c == call[s]
<1>1. c \in CallType /\ c # None
  BY <1>0 DEF CallFails, PagesTyped
<1>2. /\ call' = [call EXCEPT ![s] = [c EXCEPT !.answer = "lost"]]
      /\ UNCHANGED <<role, task, failed, visible, route, data, fetch, wrong, ask>>
  BY DEF CallFails
<1>3. /\ call' \in [Slots -> CallType \union {None}]
      /\ call'[s].op = c.op /\ call'[s].ids = c.ids /\ call'[s].answer = "lost"
      /\ call'[s].here = c.here /\ call'[s].page = c.page
      /\ \A u \in Slots \ {s} : call'[u] = call[u]
  BY <1>0, <1>1, <1>2 DEF PagesTyped, CallType
<1>4. PagesTyped'
  <2>1. budget' \in [Kinds -> Nat]
    BY <1>0, ActTyped DEF CallFails, PagesTyped, Kinds
  <2>2. \A u \in Slots : call'[u] # None /\ call'[u].here => call'[u].page = route
    BY <1>0, <1>1, <1>3 DEF PagesTyped
  <2> QED BY <1>0, <1>2, <1>3, <2>1, <2>2 DEF PagesTyped
<1>5. \A u \in Slots : call'[u] # None =>
           /\ call[u] # None /\ call'[u].op = call[u].op /\ call'[u].ids = call[u].ids
           /\ call[u].op = "delete" => call'[u].answer # "live"
  BY <1>0, <1>1, <1>3 DEF DeletesAreOver
<1> QED BY <1>2, <1>4, <1>5, RowsChange

(* The question and the requests stay as they are.                          *)
LEMMA DeletesRest ==
  ASSUME PagesInv, UNCHANGED <<task, ask, call>>
  PROVE  DeletesAreOver'
  BY DEF PagesInv, DeletesAreOver, Over, Shows

LEMMA PollStep ==
  ASSUME PagesInv, NEW p \in Views, Poll(p)
  PROVE  PagesInv' /\ Final
<1>0. PagesTyped /\ EndsInOrder
  BY DEF PagesInv
<1>1. fetch' = [fetch EXCEPT ![p] = Asked] /\ Asked.step = "asked"
      /\ UNCHANGED <<role, task, failed, visible, route, data, wrong, ask, call, budget>>
  BY DEF Poll, Asked
<1>2. PagesTyped'
  BY <1>0, <1>1 DEF PagesTyped
<1>3. EndsInOrder'
  BY <1>0, <1>1 DEF PagesTyped, EndsInOrder, Data, Read
<1>4. Final
  BY <1>1 DEF Final, Terminal
<1> QED BY <1>1, <1>2, <1>3, <1>4, DeletesRest DEF PagesInv

LEMMA ReadTasksStep ==
  ASSUME PagesInv, NEW p \in Views, ReadTasks(p)
  PROVE  PagesInv' /\ Final
<1>0. PagesTyped /\ EndsInOrder
  BY DEF PagesInv
<1> DEFINE got == [t \in Shows(p) |-> task[t]]
<1>1. /\ fetch' = [fetch EXCEPT ![p] = [step |-> "read", rows |-> got]]
      /\ UNCHANGED <<role, task, failed, visible, route, data, wrong, ask, call, budget>>
  BY DEF ReadTasks
<1>2. got \in RowsOf(p) /\ \A t \in Shows(p) : got[t] = task[t]
  BY <1>0, ShowsTasks DEF PagesTyped, RowsOf
<1> HIDE DEF got
<1>3. /\ fetch'[p].step = "read" /\ fetch'[p].rows = got
      /\ fetch'[p] \in [step : {"read"}, rows : RowsOf(p)]
      /\ \A q \in Views \ {p} : fetch'[q] = fetch[q]
      /\ DOMAIN fetch' = Views
  BY <1>0, <1>1, <1>2 DEF PagesTyped
<1>4. PagesTyped'
  BY <1>0, <1>1, <1>3 DEF PagesTyped
<1>5. EndsInOrder'
  <2>1. ASSUME NEW q \in Views, NEW t \in Tasks, t \in Shows(q)
        PROVE  /\ Data(q, t)' \/ Read(q, t)' => task'[t] # "live"
               /\ Data(q, t)' /\ fetch'[q].step = "read" => Read(q, t)'
    <3>1. CASE q = p
      BY <1>0, <1>1, <1>2, <1>3, <2>1, <3>1 DEF EndsInOrder, Data, Read
    <3>2. CASE q # p
      BY <1>0, <1>1, <1>3, <2>1, <3>2 DEF EndsInOrder, Data, Read
    <3> QED BY <3>1, <3>2
  <2> QED BY <2>1 DEF EndsInOrder, Shows
<1>6. Final
  BY <1>1 DEF Final, Terminal
<1> QED BY <1>1, <1>4, <1>5, <1>6, DeletesRest DEF PagesInv

LEMMA AnswersStep ==
  ASSUME PagesInv, NEW p \in Views, FetchAnswers(p) \/ FetchFails(p)
  PROVE  PagesInv' /\ Final
<1>0. PagesTyped /\ EndsInOrder
  BY DEF PagesInv
<1>1. /\ fetch' = [fetch EXCEPT ![p] = NoFetch] /\ NoFetch.step = "none"
      /\ UNCHANGED <<role, task, failed, visible, route, ask, call>>
      /\ wrong' \in {[wrong EXCEPT ![p] = TRUE], [wrong EXCEPT ![p] = FALSE]}
  BY DEF FetchAnswers, FetchFails, NoFetch
<1>2. \/ UNCHANGED data
      \/ fetch[p].step = "read" /\ data' = [data EXCEPT ![p] = fetch[p].rows]
  BY DEF FetchAnswers, FetchFails
<1>3. fetch[p].step = "read" => fetch[p].rows \in RowsOf(p)
  BY <1>0 DEF PagesTyped, NoFetch, Asked
<1>4. PagesTyped'
  <2>1. budget' \in [Kinds -> Nat]
    BY <1>0, ActTyped DEF FetchAnswers, FetchFails, PagesTyped, Kinds
  <2>2. DOMAIN data' = Views /\ \A q \in Views : data'[q] \in RowsOf(q) \union {None}
    BY <1>0, <1>2, <1>3 DEF PagesTyped
  <2>3. wrong' \in [Views -> BOOLEAN]
    BY <1>0, <1>1 DEF PagesTyped
  <2>4. DOMAIN fetch' = Views
        /\ \A q \in Views : \/ fetch'[q] \in {NoFetch, Asked}
                            \/ fetch'[q] \in [step : {"read"}, rows : RowsOf(q)]
    BY <1>0, <1>1 DEF PagesTyped
  <2> QED BY <1>0, <1>1, <2>1, <2>2, <2>3, <2>4 DEF PagesTyped, RowsOf, Shows
<1>5. ASSUME NEW q \in Views, NEW t \in Tasks, t \in Shows(q)
      PROVE  /\ Data(q, t)' \/ Read(q, t)' => task'[t] # "live"
             /\ Data(q, t)' /\ fetch'[q].step = "read" => Read(q, t)'
             /\ Data(q, t) => data'[q][t] # "live"
  <2>1. /\ Data(q, t) \/ Read(q, t) => task[t] # "live"
        /\ Data(q, t) /\ fetch[q].step = "read" => Read(q, t)
    BY <1>0, <1>5 DEF EndsInOrder
  <2>2. CASE q = p
    BY <1>0, <1>1, <1>2, <2>1, <2>2 DEF PagesTyped, Data, Read
  <2>3. CASE q # p
    BY <1>0, <1>1, <1>2, <2>1, <2>3 DEF PagesTyped, Data, Read
  <2> QED BY <2>2, <2>3
<1>6. EndsInOrder' /\ Final
  BY <1>5 DEF EndsInOrder, Final, Data, Terminal, Shows
<1> QED BY <1>1, <1>4, <1>6, DeletesRest DEF PagesInv

(* Another page comes on screen, or a fetch is started anew.                *)
LEMMA FetchAnew ==
  ASSUME PagesInv, PagesTyped', UNCHANGED <<task, data, ask>>,
         \A p \in Views : fetch'[p] = fetch[p] \/ fetch'[p] = Asked,
         \A s \in Slots : call'[s] # None =>
           /\ call[s] # None /\ call'[s].op = call[s].op /\ call'[s].ids = call[s].ids
           /\ call'[s].answer = call[s].answer
  PROVE  PagesInv' /\ Final
<1>1. EndsInOrder'
  <2>1. Asked.step = "asked"
    BY DEF Asked
  <2> QED BY <2>1 DEF PagesInv, EndsInOrder, Data, Read, Shows
<1>2. DeletesAreOver'
  BY DEF PagesInv, DeletesAreOver, Over, Shows
<1>3. Final
  BY DEF Final, Terminal
<1> QED BY <1>1, <1>2, <1>3 DEF PagesInv

LEMMA GoToTyped ==
  ASSUME PagesTyped, NEW r \in Routes, NEW calls \in [Slots -> CallType \union {None}],
         GoTo(r, calls, fetch), UNCHANGED <<role, task, failed, visible, data, wrong, ask>>,
         budget' \in [Kinds -> Nat]
  PROVE  /\ PagesTyped'
         /\ \A p \in Views : fetch'[p] = fetch[p] \/ fetch'[p] = Asked
         /\ \A s \in Slots : call'[s] # None =>
              /\ calls[s] # None /\ call'[s].op = calls[s].op /\ call'[s].ids = calls[s].ids
              /\ call'[s].answer = calls[s].answer
<1>1. ASSUME NEW s \in Slots
      PROVE  /\ call'[s] \in CallType \union {None}
             /\ call'[s] # None =>
                  /\ call'[s].here = FALSE
                  /\ calls[s] # None /\ call'[s].op = calls[s].op
                  /\ call'[s].ids = calls[s].ids /\ call'[s].answer = calls[s].answer
  <2>1. CASE calls[s] = None
    BY <2>1 DEF GoTo
  <2>2. CASE calls[s] # None
    <3>1. calls[s] \in CallType /\ call'[s] = [calls[s] EXCEPT !.here = FALSE]
      BY <2>2 DEF GoTo
    <3> QED BY <2>2, <3>1 DEF CallType
  <2> QED BY <2>1, <2>2
<1>2. call' \in [Slots -> CallType \union {None}]
  BY <1>1 DEF GoTo
<1>3. DOMAIN fetch' = Views /\ \A p \in Views : fetch'[p] = fetch[p] \/ fetch'[p] = Asked
  BY DEF GoTo, PagesTyped
<1>4. route' \in Routes
  BY DEF GoTo
<1>5. PagesTyped'
  BY <1>1, <1>2, <1>3, <1>4 DEF PagesTyped
<1> QED BY <1>1, <1>3, <1>5

LEMMA NavigateStep ==
  ASSUME PagesInv, NEW r \in Routes, Navigate(r)
  PROVE  PagesInv' /\ Final
<1>1. budget' \in [Kinds -> Nat]
  BY ActTyped DEF Navigate, Kinds, PagesInv, PagesTyped
<1>2. call \in [Slots -> CallType \union {None}] /\ PagesTyped
  BY DEF PagesInv, PagesTyped
<1> QED BY <1>1, <1>2, GoToTyped, FetchAnew DEF Navigate

LEMMA AnswerStep ==
  ASSUME PagesInv, NEW s \in Slots, Answer(s)
  PROVE  PagesInv' /\ Final
<1> DEFINE rest == [call EXCEPT ![s] = None]
<1>0. PagesTyped
  BY DEF PagesInv
<1>1. /\ rest \in [Slots -> CallType \union {None}]
      /\ \A u \in Slots : rest[u] # None => rest[u] = call[u] /\ call[u] # None
  BY <1>0 DEF PagesTyped
<1> HIDE DEF rest
<1>2. UNCHANGED <<role, task, failed, visible, data, wrong, ask, budget>>
      /\ budget' \in [Kinds -> Nat]
  BY <1>0 DEF Answer, PagesTyped
<1>3. CASE GoTo("list", rest, fetch)
  <2>1. "list" \in Routes
    BY DEF Routes
  <2>2. /\ PagesTyped'
        /\ \A p \in Views : fetch'[p] = fetch[p] \/ fetch'[p] = Asked
        /\ \A u \in Slots : call'[u] # None =>
              /\ rest[u] # None /\ call'[u].op = rest[u].op /\ call'[u].ids = rest[u].ids
              /\ call'[u].answer = rest[u].answer
    BY <1>0, <1>1, <1>2, <1>3, <2>1, GoToTyped
  <2> QED BY <1>1, <1>2, <2>2, FetchAnew
<1>4. CASE /\ call' = rest /\ UNCHANGED route
           /\ fetch' \in {fetch, [fetch EXCEPT ![call[s].page] = Asked]}
  <2>1. DOMAIN fetch' = Views /\ \A p \in Views : fetch'[p] = fetch[p] \/ fetch'[p] = Asked
    BY <1>0, <1>4 DEF PagesTyped
  <2>2. PagesTyped'
    BY <1>0, <1>1, <1>2, <1>4, <2>1 DEF PagesTyped
  <2> QED BY <1>1, <1>2, <1>4, <2>1, <2>2, FetchAnew
<1> QED BY <1>3, <1>4 DEF Answer, rest

(* A request is sent.                                                       *)
LEMMA SendStep ==
  ASSUME PagesInv, NEW s \in Slots, NEW op \in {"cancel", "delete"}, NEW p \in Views,
         NEW ids \in SUBSET Tasks, op = "delete" => Over(ids),
         Send(s, op, p, ids), ask' = ask \/ ask' = None, budget' \in [Kinds -> Nat]
  PROVE  PagesInv' /\ Final
<1>0. PagesTyped /\ DeletesAreOver
  BY DEF PagesInv
<1> DEFINE c == [op |-> op, page |-> p, ids |-> ids, here |-> route = p, answer |-> None]
<1>1. c \in CallType /\ c.op = op /\ c.ids = ids /\ c.answer = None
      /\ (c.here => c.page = route)
  <2>1. (route = p) \in BOOLEAN
    OBVIOUS
  <2> QED BY <2>1 DEF CallType
<1>2. /\ call' = [call EXCEPT ![s] = c]
      /\ UNCHANGED <<role, task, failed, visible, route, data, fetch, wrong>>
  BY DEF Send
<1> HIDE DEF c
<1>3. PagesTyped'
  BY <1>0, <1>1, <1>2 DEF PagesTyped
<1>4. EndsInOrder'
  BY <1>2 DEF PagesInv, EndsInOrder, Data, Read
<1>5. DeletesAreOver'
  <2>1. ask' # None => Over(Shows(ask))'
    BY <1>0, <1>2 DEF DeletesAreOver, Over, Shows
  <2>2. ASSUME NEW u \in Slots, call'[u] # None, call'[u].op = "delete"
        PROVE  Over(call[u].ids)' /\ call'[u].answer # "live"
    <3>1. CASE u = s
      BY <1>0, <1>1, <1>2, <2>2, <3>1, ViewsAssumption DEF Over, PagesTyped
    <3>2. CASE u # s
      BY <1>0, <1>2, <2>2, <3>2 DEF Over, PagesTyped, DeletesAreOver
    <3> QED BY <3>1, <3>2
  <2> QED BY <2>1, <2>2 DEF DeletesAreOver
<1>6. Final
  BY <1>2 DEF Final, Terminal
<1> QED BY <1>3, <1>4, <1>5, <1>6 DEF PagesInv

LEMMA ClicksStep ==
  ASSUME PagesInv, OnDelete \/ Confirmed \/ Declined \/ \E t \in Tasks : Cancel(t)
  PROVE  PagesInv' /\ Final
<1>0. PagesTyped /\ EndsInOrder /\ DeletesAreOver
  BY DEF PagesInv
<1>1. CASE OnDelete
  <2>1. /\ ask' = route /\ route \in Views /\ ShownOver(route)
        /\ UNCHANGED <<role, task, failed, visible, route, data, fetch, wrong, call, budget>>
    BY <1>1 DEF OnDelete
  <2>2. Over(Shows(route))
    <3>1. ASSUME NEW t \in Shows(route) PROVE task[t] # "live"
      <4>1. data[route] # None /\ data[route][t] # "live"
        BY <2>1, <3>1 DEF ShownOver, ShownLive
      <4> QED BY <1>0, <2>1, <4>1, ShowsTasks DEF EndsInOrder, Data
    <3> QED BY <3>1 DEF Over
  <2>3. PagesTyped'
    BY <1>0, <2>1 DEF PagesTyped
  <2>4. EndsInOrder'
    BY <1>0, <2>1 DEF EndsInOrder, Data, Read
  <2>5. DeletesAreOver'
    BY <1>0, <2>1, <2>2 DEF DeletesAreOver, Over, Shows
  <2>6. Final
    BY <2>1 DEF Final, Terminal
  <2> QED BY <2>3, <2>4, <2>5, <2>6 DEF PagesInv
<1>2. CASE Confirmed
  <2>1. ask \in Views /\ Over(Shows(ask)) /\ Shows(ask) \in SUBSET Tasks
    BY <1>0, <1>2, ShowsTasks DEF Confirmed, PagesTyped, DeletesAreOver
  <2>2. budget' \in [Kinds -> Nat]
    BY <1>0, <1>2, ActTyped DEF Confirmed, PagesTyped, Kinds
  <2> QED BY <1>2, <2>1, <2>2, SendStep DEF Confirmed
<1>3. CASE Declined
  <2>1. PagesTyped'
    BY <1>0, <1>3 DEF Declined, PagesTyped
  <2>2. EndsInOrder'
    BY <1>0, <1>3 DEF Declined, EndsInOrder, Data, Read
  <2>3. DeletesAreOver'
    BY <1>0, <1>3 DEF Declined, DeletesAreOver, Over
  <2>4. Final
    BY <1>3 DEF Declined, Final, Terminal
  <2> QED BY <2>1, <2>2, <2>3, <2>4 DEF PagesInv
<1>4. ASSUME NEW t \in Tasks, Cancel(t) PROVE PagesInv' /\ Final
  <2>1. budget' \in [Kinds -> Nat]
    BY <1>0, <1>4, ActTyped DEF Cancel, PagesTyped, Kinds
  <2> QED BY <1>4, <2>1, SendStep DEF Cancel
<1> QED BY <1>1, <1>2, <1>3, <1>4

LEMMA SwitchTabStep ==
  ASSUME PagesInv, SwitchTab
  PROVE  PagesInv' /\ Final
<1>0. PagesTyped /\ visible' \in BOOLEAN /\ budget' \in [Kinds -> Nat]
      /\ UNCHANGED <<role, task, failed, route, data, fetch, wrong, ask, call>>
  BY ActTyped DEF PagesInv, PagesTyped, SwitchTab, Kinds
<1>1. PagesTyped'
  BY <1>0 DEF PagesTyped
<1>2. EndsInOrder' /\ DeletesAreOver' /\ Final
  BY <1>0 DEF PagesInv, EndsInOrder, Data, Read, DeletesAreOver, Over, Shows, Final, Terminal
<1> QED BY <1>1, <1>2 DEF PagesInv

(* What leaves everything but the budget alone.                             *)
LEMMA PagesRest ==
  ASSUME PagesInv, UNCHANGED ViewsButBudget, budget' \in [Kinds -> Nat]
  PROVE  PagesInv' /\ Final
<1>1. UNCHANGED <<role, task, failed, visible, route, data, fetch, wrong, ask, call>>
  BY DEF ViewsButBudget
<1>2. PagesTyped'
  BY <1>1 DEF PagesInv, PagesTyped
<1>3. EndsInOrder' /\ DeletesAreOver' /\ Final
  BY <1>1 DEF PagesInv, EndsInOrder, Data, Read, DeletesAreOver, Over, Shows, Final, Terminal
<1> QED BY <1>2, <1>3 DEF PagesInv

LEMMA ViewsStepHolds == PagesInv /\ ViewsStep => PagesInv' /\ Final
  BY SettleStep, ClicksStep, PollStep, ReadTasksStep, AnswersStep, CallFailsStep
     DEF ViewsStep, Fetching

LEMMA PagesHold == PagesInv /\ [Next]_vars => PagesInv' /\ (Final \/ UNCHANGED viewVars)
<1> SUFFICES ASSUME PagesInv, [Next]_vars PROVE PagesInv' /\ (Final \/ UNCHANGED viewVars)
  OBVIOUS
<1>0. budget \in [Kinds -> Nat]
  BY DEF PagesInv, PagesTyped
<1>1. CASE PagesOnly(ViewsStep) \/ PagesOnly(SwitchTab)
  BY <1>1, ViewsStepHolds, SwitchTabStep DEF PagesOnly
<1>2. ASSUME NEW s \in Slots, Answered(s) PROVE PagesInv' /\ Final
  BY <1>2, HandleStep, AnswerStep DEF Answered, Answering
<1>3. ASSUME NEW r \in Routes, Visit(r) PROVE PagesInv' /\ Final
  BY <1>3, NavigateStep DEF Visit
<1>4. CASE AskStats \/ AskAgents
  <2>1. UNCHANGED ViewsButBudget /\ (Act("looks") \/ UNCHANGED budget)
    BY <1>4 DEF AskStats, AskAgents
  <2> QED BY <1>0, <2>1, ActTyped, PagesRest DEF Kinds
<1>5. CASE ReadStats \/ StatsAnswer \/ ReadAgents \/ AgentsAnswer
  <2>1. UNCHANGED viewVars
    BY <1>5 DEF ReadStats, StatsAnswer, ReadAgents, AgentsAnswer
  <2> QED BY <1>0, <2>1, PagesRest DEF viewVars, ViewsButBudget
<1>6. CASE NoAnswer \/ (\E a \in Agents : Flap(a)) \/ OnEnable
           \/ \E w \in Switches : Toggle(w) \/ OtherTab(w)
  <2>1. /\ UNCHANGED ViewsButBudget
        /\ \E k \in {"lost", "agents", "bell"} : Act(k)
    BY <1>6 DEF NoAnswer, Flap, OnEnable, Toggle, OtherTab, Rest
  <2> QED BY <1>0, <2>1, ActTyped, PagesRest DEF Kinds
<1>7. CASE UNCHANGED vars
  <2>1. UNCHANGED viewVars
    BY <1>7 DEF vars
  <2> QED BY <1>0, <2>1, PagesRest DEF viewVars, ViewsButBudget
<1> QED BY <1>1, <1>2, <1>3, <1>4, <1>5, <1>6, <1>7 DEF Next

LEMMA PagesInit == Init => PagesInv
<1> SUFFICES ASSUME Init PROVE PagesInv
  OBVIOUS
<1>0. PICK o \in Openings :
        /\ role = o.role /\ settings = o.settings /\ granted = o.granted
        /\ route = o.route /\ task = [t \in Tasks |-> o.tasks] /\ budget = o.budget
  BY DEF Init
<1>1. PagesTyped
  <2>1. role \in {"viewer", "operator", "admin"} /\ route \in Routes
        /\ task \in [Tasks -> Statuses \union {None}] /\ budget \in [Kinds -> Nat]
    BY <1>0, NotificationsAssumption
  <2>2. failed \in Seq(Tasks)
    BY EmptySeq DEF Init, ViewsInit
  <2> QED BY <2>1, <2>2 DEF Init, ViewsInit, PagesTyped
<1>2. EndsInOrder /\ DeletesAreOver
  BY DEF Init, ViewsInit, EndsInOrder, Data, Read, DeletesAreOver, NoFetch
<1> QED BY <1>1, <1>2 DEF PagesInv

(* What the pages show and ask is in order in every reachable state.        *)
THEOREM PagesInvariance == Spec => []PagesInv
<1> QED BY PagesInit, PagesHold, PTL DEF Spec

(* No page goes back on an end it has shown, for any number of tasks, pages *)
(* and requests (TaskDetail.tsx:51-58, TaskGroup.tsx:204-207).              *)
THEOREM EndsAreFinal == Spec => EndIsFinal
<1>1. PagesInv /\ [Next]_vars => [Final]_viewVars
  BY PagesHold
<1> QED BY <1>1, PagesInvariance, PTL DEF Spec, EndIsFinal, Final

(* The server never refuses a confirmed delete because something is still   *)
(* live (TaskGroup.tsx:64-77, server/app/api/tasks.py:540).                 *)
THEOREM DeletesAreTaken == Spec => []DeleteIsNotRefused
<1>1. PagesInv => DeleteIsNotRefused
  BY DEF PagesInv, DeletesAreOver, DeleteIsNotRefused
<1> QED BY <1>1, PagesInvariance, PTL

-----------------------------------------------------------------------------
(* The hook.                                                                *)

HookTyped ==
  /\ used \subseteq Switches
  /\ ready \subseteq {"failures", "agents"}
  /\ seen \subseteq Tasks /\ told \subseteq seen /\ history \subseteq seen
  /\ again \subseteq Tasks
  /\ last \subseteq Agents
  /\ news \in [Agents -> {None, "offline", "recovered", "twice"}]

(* Before the first look nothing has been announced; what was there at the  *)
(* first look never is; an agent that was online at the last look is not    *)
(* known as gone.                                                           *)
NewsInOrder ==
  /\ again = {} /\ told \intersect history = {}
  /\ "failures" \notin ready => told = {}
  /\ \A a \in last : news[a] \in {None, "recovered"}
  /\ \A a \in Agents : news[a] # "twice"

PollsTyped ==
  /\ settings \subseteq Switches /\ panel \subseteq Switches /\ granted \in BOOLEAN
  /\ stats \in (SUBSET Tasks) \union {None} /\ agents \in (SUBSET Agents) \union {None}
  /\ statsFetch \in [step : {"none", "asked", "read"}, got : SUBSET Tasks]
  /\ agentsFetch \in [step : {"none", "asked", "read"}, got : SUBSET Agents]
  /\ up \subseteq Agents

HookInv == HookTyped /\ PollsTyped /\ NewsInOrder

LEMMA TypeParts == TypeOK <=> PagesTyped /\ HookTyped /\ PollsTyped
  BY DEF TypeOK, HookTyped, PollsTyped

LEMMA LookHolds ==
  ASSUME HookTyped, NewsInOrder, NEW listed \in SUBSET Tasks, LookAtFailures(listed)
  PROVE  /\ seen' \subseteq Tasks /\ told' \subseteq seen' /\ history' \subseteq seen'
         /\ again' = {} /\ told' \intersect history' = {}
<1> DEFINE fresh == IF "failures" \in ready THEN listed \ seen ELSE {}
           loud  == IF Announces THEN fresh ELSE {}
<1>1. /\ seen' = seen \union listed /\ told' = told \union loud
      /\ history' = IF "failures" \in ready THEN history ELSE listed
      /\ again' = again \union (loud \intersect told)
  BY DEF LookAtFailures, Look
<1>2. loud \subseteq listed /\ loud \intersect seen = {}
      /\ ("failures" \notin ready => loud = {})
  OBVIOUS
<1> HIDE DEF loud
<1>3. seen' \subseteq Tasks /\ told' \subseteq seen' /\ history' \subseteq seen'
  BY <1>1, <1>2 DEF HookTyped
<1>4. again' = {}
  BY <1>1, <1>2 DEF HookTyped, NewsInOrder
<1>5. told' \intersect history' = {}
  BY <1>1, <1>2 DEF HookTyped, NewsInOrder
<1> QED BY <1>3, <1>4, <1>5

LEMMA NewsHold ==
  ASSUME HookTyped, NewsInOrder, NEW on, NEW online \in SUBSET Agents,
         LookAtAgents(on, online)
  PROVE  /\ last' \subseteq Agents
         /\ news' \in [Agents -> {None, "offline", "recovered", "twice"}]
         /\ \A a \in last' : news'[a] \in {None, "recovered"}
         /\ \A a \in Agents : news'[a] # "twice"
<1> DEFINE look == "agents" \in ready
           gone == IF look /\ "agentOffline" \in on THEN last \ online ELSE {}
           back == IF look /\ "agentRecovered" \in on THEN online \ last ELSE {}
<1>1. last' = online /\ News(gone, back, online)
  BY DEF LookAtAgents
<1>2. gone \subseteq last \ online /\ back \subseteq online
  OBVIOUS
<1> HIDE DEF gone, back
<1>3. ASSUME NEW a \in Agents
      PROVE  /\ news'[a] \in {None, "offline", "recovered"}
             /\ a \in online => news'[a] \in {None, "recovered"}
  <2>1. news'[a] = IF Announces /\ a \in gone
                   THEN (IF news[a] \in {"offline", "twice"} THEN "twice" ELSE "offline")
                   ELSE IF Announces /\ a \in back THEN "recovered"
                   ELSE IF a \in online THEN None ELSE news[a]
    BY <1>1 DEF News
  <2>2. a \in gone => news[a] \notin {"offline", "twice"} /\ a \notin online
    BY <1>2, NotificationsAssumption DEF NewsInOrder
  <2>3. news[a] \in {None, "offline", "recovered"}
    BY DEF HookTyped, NewsInOrder
  <2> QED BY <1>2, <2>1, <2>2, <2>3
<1>4. news' \in [Agents -> {None, "offline", "recovered", "twice"}]
  BY <1>1, <1>3 DEF News
<1>5. \A a \in Agents : news'[a] # "twice"
  BY <1>3, NotificationsAssumption
<1> QED BY <1>1, <1>3, <1>4, <1>5

LEMMA RenderHolds ==
  ASSUME HookTyped, NewsInOrder, settings \subseteq Switches,
         stats' \in (SUBSET Tasks) \union {None}, agents' \in (SUBSET Agents) \union {None},
         NEW x \in BOOLEAN, NEW y \in BOOLEAN, Render(x, y)
  PROVE  HookTyped' /\ NewsInOrder'
<1> DEFINE on == LoadSettings
           failures == /\ stats' # None /\ WatchesFailures(on)
                       /\ x \/ ~ WatchesFailures(used)
           states   == /\ agents' # None /\ WatchesAgents(on)
                       /\ y \/ on \ {"taskFailures"} # used \ {"taskFailures"}
<1>1. used' \subseteq Switches
  BY DEF Render, LoadSettings
<1>2. /\ ready' = ready \union (IF failures THEN {"failures"} ELSE {})
                        \union (IF states THEN {"agents"} ELSE {})
      /\ IF failures THEN LookAtFailures(stats') ELSE UNCHANGED <<seen, history, told, again>>
  BY DEF Render
<1>3. /\ seen' \subseteq Tasks /\ told' \subseteq seen' /\ history' \subseteq seen'
      /\ again' = {} /\ told' \intersect history' = {}
      /\ "failures" \notin ready' => told' = {}
  <2>1. CASE failures
    <3>1. stats' \in SUBSET Tasks
      BY <2>1
    <3>2. LookAtFailures(stats')
      BY <1>2, <2>1
    <3>3. "failures" \in ready'
      BY <1>2, <2>1
    <3> QED BY <3>1, <3>2, <3>3, LookHolds
  <2>2. CASE ~ failures
    BY <1>2, <2>2 DEF HookTyped, NewsInOrder
  <2> QED BY <2>1, <2>2
<1>4. /\ last' \subseteq Agents
      /\ news' \in [Agents -> {None, "offline", "recovered", "twice"}]
      /\ \A a \in last' : news'[a] \in {None, "recovered"}
      /\ \A a \in Agents : news'[a] # "twice"
  <2>1. CASE states
    <3>1. agents' \in SUBSET Agents
      <4>1. agents' # None
        BY <2>1
      <4> QED BY <4>1
    <3>2. PICK online \in SUBSET agents' : LookAtAgents(on, online)
      BY <2>1 DEF Render
    <3>3. online \in SUBSET Agents
      BY <3>1
    <3> QED BY <3>2, <3>3, NewsHold
  <2>2. CASE ~ states
    <3>1. UNCHANGED <<last, news>>
      BY <2>2 DEF Render
    <3> QED BY <3>1 DEF HookTyped, NewsInOrder
  <2> QED BY <2>1, <2>2
<1>5. ready' \subseteq {"failures", "agents"}
  BY <1>2 DEF HookTyped
<1> QED BY <1>1, <1>3, <1>4, <1>5 DEF HookTyped, NewsInOrder

(* A step that the hook does not see: no render.                            *)
LEMMA HookRests ==
  ASSUME HookTyped, NewsInOrder, UNCHANGED hookVars
  PROVE  HookTyped' /\ NewsInOrder'
<1>1. UNCHANGED <<used, ready, seen, last, told, history, news, again>>
  BY DEF hookVars
<1> QED BY <1>1 DEF HookTyped, NewsInOrder

LEMMA FailuresAreTasks == PagesTyped => RecentFailures \in SUBSET Tasks
<1> SUFFICES ASSUME PagesTyped PROVE RecentFailures \in SUBSET Tasks
  OBVIOUS
<1>1. \A i \in DOMAIN failed : failed[i] \in Tasks
  BY DEF PagesTyped
<1> QED BY <1>1 DEF RecentFailures

LEMMA PollSteps ==
  ASSUME PagesTyped, HookInv,
         AskStats \/ ReadStats \/ StatsAnswer \/ AskAgents \/ ReadAgents \/ AgentsAnswer
           \/ NoAnswer
  PROVE  HookInv'
<1> USE DEF HookInv
<1>1. CASE AskStats \/ ReadStats \/ AskAgents \/ ReadAgents \/ NoAnswer
  <2>1. UNCHANGED <<settings, panel, granted, stats, agents, up>> /\ UNCHANGED hookVars
    BY <1>1 DEF AskStats, ReadStats, AskAgents, ReadAgents, NoAnswer, bellVars
  <2>2. /\ statsFetch' \in [step : {"none", "asked", "read"}, got : SUBSET Tasks]
        /\ agentsFetch' \in [step : {"none", "asked", "read"}, got : SUBSET Agents]
    <3>1. CASE AskStats \/ AskAgents
      BY <3>1 DEF AskStats, AskAgents, PollsTyped
    <3>2. CASE ReadStats \/ ReadAgents
      BY <3>2, FailuresAreTasks DEF ReadStats, ReadAgents, PollsTyped
    <3>3. CASE NoAnswer
      BY <3>3 DEF NoAnswer, NothingAsked, PollsTyped
    <3> QED BY <1>1, <3>1, <3>2, <3>3
  <2>3. PollsTyped'
    BY <2>1, <2>2 DEF PollsTyped
  <2> QED BY <2>1, <2>3, HookRests
<1>2. CASE StatsAnswer
  <2>1. /\ UNCHANGED <<settings, panel, granted, up, agents, agentsFetch>>
        /\ stats' \in SUBSET Tasks /\ statsFetch' = NothingAsked /\ Render(TRUE, FALSE)
    BY <1>2 DEF StatsAnswer, bellVars, PollsTyped
  <2>2. PollsTyped'
    BY <2>1 DEF PollsTyped, NothingAsked
  <2> QED BY <2>1, <2>2, RenderHolds DEF PollsTyped
<1>3. CASE AgentsAnswer
  <2>1. /\ UNCHANGED <<settings, panel, granted, up, stats, statsFetch>>
        /\ agents' \in SUBSET Agents /\ agentsFetch' = NothingAsked /\ Render(FALSE, TRUE)
    BY <1>3 DEF AgentsAnswer, bellVars, PollsTyped
  <2>2. PollsTyped'
    BY <2>1 DEF PollsTyped, NothingAsked
  <2> QED BY <2>1, <2>2, RenderHolds DEF PollsTyped
<1> QED BY <1>1, <1>2, <1>3

LEMMA BellSteps ==
  ASSUME HookInv,
         OnEnable \/ (\E w \in Switches : Toggle(w) \/ OtherTab(w)) \/ (\E a \in Agents : Flap(a))
  PROVE  HookInv'
<1> USE DEF HookInv
<1>1. UNCHANGED <<stats, agents, statsFetch, agentsFetch>> /\ UNCHANGED hookVars
  BY DEF OnEnable, Toggle, OtherTab, Flap, Rest, pollVars
<1>2. settings' \subseteq Switches /\ panel' \subseteq Switches
  <2>1. CASE OnEnable
    BY <2>1 DEF OnEnable, Patch, PollsTyped, Switches
  <2>2. CASE \E w \in Switches : Toggle(w) \/ OtherTab(w)
    BY <2>2 DEF Toggle, OtherTab, Rest, Patch, PollsTyped
  <2>3. CASE \E a \in Agents : Flap(a)
    BY <2>3 DEF Flap, bellVars, PollsTyped
  <2> QED BY <2>1, <2>2, <2>3
<1>3. granted' \in BOOLEAN /\ up' \subseteq Agents
  BY DEF OnEnable, Toggle, OtherTab, Flap, Rest, bellVars, PollsTyped
<1>4. PollsTyped'
  BY <1>1, <1>2, <1>3 DEF PollsTyped
<1> QED BY <1>1, <1>4, HookRests

LEMMA RoutedHolds == HookInv /\ Routed => HookInv'
<1> SUFFICES ASSUME HookInv, Routed PROVE HookInv'
  OBVIOUS
<1> USE DEF HookInv
<1>1. /\ UNCHANGED <<settings, granted, stats, statsFetch, agents, agentsFetch, up>>
      /\ panel' = settings /\ Render(FALSE, FALSE)
  BY DEF Routed, pollVars
<1>2. PollsTyped'
  BY <1>1 DEF PollsTyped
<1> QED BY <1>1, <1>2, RenderHolds DEF PollsTyped

LEMMA HookRestsToo == HookInv /\ UNCHANGED <<hookVars, bellVars, pollVars, up>> => HookInv'
<1> SUFFICES ASSUME HookInv, UNCHANGED <<hookVars, bellVars, pollVars, up>> PROVE HookInv'
  OBVIOUS
<1>1. UNCHANGED <<settings, panel, granted, stats, agents, statsFetch, agentsFetch, up>>
  BY DEF bellVars, pollVars
<1>2. PollsTyped'
  BY <1>1 DEF HookInv, PollsTyped
<1> QED BY <1>2, HookRests DEF HookInv

LEMMA HookHolds == PagesTyped /\ HookInv /\ [Next]_vars => HookInv'
<1> SUFFICES ASSUME PagesTyped, HookInv, [Next]_vars PROVE HookInv'
  OBVIOUS
<1>1. CASE AskStats \/ ReadStats \/ StatsAnswer \/ AskAgents \/ ReadAgents \/ AgentsAnswer
             \/ NoAnswer
  BY <1>1, PollSteps
<1>2. CASE OnEnable \/ (\E w \in Switches : Toggle(w) \/ OtherTab(w)) \/ (\E a \in Agents : Flap(a))
  BY <1>2, BellSteps
<1>3. CASE PagesOnly(ViewsStep) \/ PagesOnly(SwitchTab)
  BY <1>3, HookRestsToo DEF PagesOnly
<1>4. CASE (\E r \in Routes : Visit(r)) \/ (\E s \in Slots : Answered(s))
  BY <1>4, RoutedHolds, HookRestsToo DEF Visit, Answered
<1>5. CASE UNCHANGED vars
  BY <1>5, HookRestsToo DEF vars
<1> QED BY <1>1, <1>2, <1>3, <1>4, <1>5 DEF Next

LEMMA HookInit == Init => HookInv
<1> SUFFICES ASSUME Init PROVE HookInv
  OBVIOUS
<1>1. PICK o \in Openings : settings = o.settings /\ granted = o.granted
  BY DEF Init
<1>2. settings \subseteq Switches /\ granted \in BOOLEAN
  BY <1>1, NotificationsAssumption
<1>3. HookTyped
  BY <1>2 DEF Init, HookTyped
<1>4. NewsInOrder
  BY NotificationsAssumption DEF Init, NewsInOrder
<1>5. PollsTyped
  BY <1>2 DEF Init, PollsTyped, NothingAsked
<1> QED BY <1>3, <1>4, <1>5 DEF HookInv

(* The invariant of the hook, its settings and its queries, with the        *)
(* pages' type (useTaskNotifications.ts:15-99).                             *)
THEOREM HookInvariance == Spec => [](PagesInv /\ HookInv)
<1>1. Init => PagesInv /\ HookInv
  BY PagesInit, HookInit
<1>2. PagesInv /\ HookInv /\ [Next]_vars => (PagesInv /\ HookInv)'
  BY PagesHold, HookHolds DEF PagesInv
<1> QED BY <1>1, <1>2, PTL DEF Spec

(* Every variable has its type, whatever the users, the agents, the network *)
(* and the other tab do.                                                    *)
THEOREM TypeCorrect == Spec => []TypeOK
<1>1. PagesInv /\ HookInv => TypeOK
  BY TypeParts DEF PagesInv, HookInv
<1> QED BY <1>1, HookInvariance, PTL

(* No failure is announced twice or although it was there at the first      *)
(* look, and no agent twice as gone without having been back, for any       *)
(* number of tasks, of agents and of failures listed                        *)
(* (useTaskNotifications.ts:35-50, :77-82).                                 *)
THEOREM Announced == Spec => []AnnouncedOnce
<1>1. HookInv => AnnouncedOnce
  BY DEF HookInv, NewsInOrder, AnnouncedOnce
<1> QED BY <1>1, HookInvariance, PTL
=============================================================================
