---------------------------- MODULE SessionProofs ----------------------------
(* Proofs about Session, for any number of tabs, calls, users and expiries. *)
EXTENDS Session, TLAPS, SequenceTheorems

(* A call that was sent again carries a token issued since it was first     *)
(* sent; a refresh under way is the only one of its tab.                    *)
CallsInOrder ==
  /\ \A c \in Calls :
       /\ call[c].since <= expired
       /\ call[c].step = "resent" => call[c].tok # None /\ call[c].tok.age > call[c].since

(* While nothing has gone wrong everybody is signed in.                     *)
Calm ==
  trouble = 0 =>
    /\ store # None /\ signedOut = None
    /\ \A t \in Tabs : loading[t] = None /\ form[t].step = "idle" /\ path[t].at # "login"

(* A tab that is starting has sent nothing yet.                             *)
Starting ==
  \A t \in Tabs : loading[t] # None =>
    posts[t] = <<>> /\ \A c \in Calls : call[c].tab # t

(* After a sign-out nothing is stored and nothing starts; the refreshes     *)
(* still out are those that were out when it happened.                      *)
Out ==
  \A t \in Tabs : signedOut = t =>
    /\ store = None /\ user[t] = None /\ loading[t] = None /\ path[t].at = "login"
    /\ \A s \in Tabs : posts[s] # <<>> => s \in racing

IInv == TypeOK /\ OneRefreshAtATime /\ Out /\ Starting /\ CallsInOrder /\ Calm

-----------------------------------------------------------------------------
LEMMA NewPairTyped ==
  ASSUME TypeOK, NEW u \in Users
  PROVE  NewPair(u) \in Tokens /\ NewPair(u) # None /\ NewPair(u).age = expired + 1
  BY SessionAssumption DEF NewPair, Pair, Tokens, TypeOK

LEMMA IdleTyped == /\ NoForm \in FormType /\ Idle \in CallType /\ None \in Tokens
                   /\ [Idle EXCEPT !.step = "failed"] \in CallType
  BY SessionAssumption DEF NoForm, FormType, Idle, CallType, Tokens

(* A tab's queue of refreshes, of which there is at most one.               *)
LEMMA PostsFacts ==
  ASSUME TypeOK, OneRefreshAtATime, NEW t \in Tabs, posts[t] # <<>>
  PROVE  /\ inFlight[t] /\ Head(posts[t]) \in Tokens \ {None}
         /\ Tail(posts[t]) \in Seq(Tokens \ {None}) /\ Tail(posts[t]) = <<>>
<1>1. posts[t] \in Seq(Tokens \ {None})
  BY DEF TypeOK
<1>2. inFlight[t] /\ Len(posts[t]) <= 1
  BY DEF OneRefreshAtATime
<1>3. /\ Head(posts[t]) \in Tokens \ {None}
      /\ Tail(posts[t]) \in Seq(Tokens \ {None}) /\ Len(Tail(posts[t])) = Len(posts[t]) - 1
  BY <1>1, HeadTailProperties
<1>4. Len(posts[t]) \in Nat /\ Len(posts[t]) # 0
  BY <1>1, EmptySeq, LenProperties
<1>5. Len(Tail(posts[t])) = 0
  <2>1. Len(posts[t]) = 1
    <3> DEFINE n == Len(posts[t])
    <3>1. n \in Nat /\ n # 0 /\ n <= 1
      BY <1>2, <1>4
    <3> HIDE DEF n
    <3>2. n = 1
      BY <3>1
    <3> QED BY <3>2 DEF n
  <2> QED BY <2>1, <1>3
<1>6. Tail(posts[t]) = <<>>
  BY <1>3, <1>5, EmptySeq
<1> QED BY <1>2, <1>3, <1>6

LEMMA RenderedTyped ==
  ASSUME NEW u, NEW w, NEW p \in PathType
  PROVE  Rendered(u, w, p) \in PathType
  BY DEF Rendered, PathType

(* Only a tab that has started, away from the login page, shows a page.     *)
LEMMA ViewFacts ==
  \A t \in Tabs :
    /\ path[t].at = "login" => View(t) = "login"
    /\ View(t) \in {"page", "forbidden"} => path[t].at # "login" /\ loading[t] = None
  BY DEF View

(* The outcome of a refresh reaches the calls that wait for it, and only them. *)
LEMMA ResumeFacts ==
  ASSUME TypeOK, NEW t \in Tabs, NEW tok \in Tokens, Resume(t, tok)
  PROVE  /\ call' \in [Calls -> CallType]
         /\ \A c \in Calls :
              \/ call'[c] = call[c] /\ (call[c].tab # t \/ call[c].step # "waiting")
              \/ call'[c].step = "failed" /\ call'[c].since = 0
              \/ call'[c].step = "resent" /\ call'[c].tok = tok /\ tok # None /\ call'[c].since = call[c].since
         /\ \A c \in Calls : call'[c].tab \in {call[c].tab, None}
<1>1. ASSUME NEW c \in Calls
      PROVE  call'[c] \in CallType
  <2>1. call[c] \in CallType
    BY DEF TypeOK
  <2>2. [Idle EXCEPT !.step = "failed"] \in CallType
    BY IdleTyped DEF CallType
  <2>3. [call[c] EXCEPT !.step = "resent", !.tok = tok] \in CallType
    BY <2>1 DEF CallType
  <2> QED BY <2>1, <2>2, <2>3 DEF Resume
<1>2. call' \in [Calls -> CallType]
  BY <1>1 DEF Resume
<1>3. ASSUME NEW c \in Calls
      PROVE  \/ call'[c] = call[c] /\ (call[c].tab # t \/ call[c].step # "waiting")
             \/ call'[c].step = "failed" /\ call'[c].since = 0
             \/ call'[c].step = "resent" /\ call'[c].tok = tok /\ tok # None /\ call'[c].since = call[c].since
  <2>1. call[c] \in CallType
    BY DEF TypeOK
  <2> QED BY <2>1 DEF Resume, Idle, CallType
<1>4. ASSUME NEW c \in Calls
      PROVE  call'[c].tab \in {call[c].tab, None}
  <2>1. call[c] \in CallType
    BY DEF TypeOK
  <2> QED BY <2>1 DEF Resume, Idle, CallType
<1> QED BY <1>2, <1>3, <1>4

LEMMA IInvInit == Init => IInv
<1> SUFFICES ASSUME Init PROVE IInv
  OBVIOUS
<1> USE SessionAssumption DEF Init
<1>1. TypeOK
  BY DEF TypeOK, Tokens, Pair, NoForm, Idle, CallType, PathType, FormType, Routes
<1>2. OneRefreshAtATime
  BY DEF OneRefreshAtATime, Idle
<1>3. Out
  BY DEF Out
<1>6. Starting
  BY DEF Starting
<1>4. CallsInOrder
  BY DEF CallsInOrder, Idle
<1>5. Calm
  BY DEF Calm, Pair, NoForm, Routes
<1> QED BY <1>1, <1>2, <1>3, <1>6, <1>4, <1>5 DEF IInv

LEMMA IInvStep == IInv /\ [Next]_vars => IInv'
<1> SUFFICES ASSUME IInv, [Next]_vars PROVE IInv'
  OBVIOUS
<1>0. TypeOK /\ OneRefreshAtATime /\ Out /\ Starting /\ CallsInOrder /\ Calm
  BY DEF IInv
<1> USE SessionAssumption
<1>1. ASSUME Expire PROVE IInv'
  <2>1. TypeOK'
    BY <1>0, <1>1, NewPairTyped, IdleTyped, RenderedTyped DEF Expire, TypeOK, CallType, FormType, PathType
  <2>2. OneRefreshAtATime'
    BY <1>0, <1>1 DEF Expire, OneRefreshAtATime, TypeOK, Idle
  <2>3. Out'
    BY <1>0, <1>1 DEF Expire, Out, TypeOK
  <2>s. Starting'
    BY <1>0, <1>1 DEF Expire, Starting, TypeOK, Idle
  <2>4. CallsInOrder'
    BY <1>0, <1>1, NewPairTyped DEF Expire, CallsInOrder, TypeOK, CallType, Idle
  <2>5. Calm'
    BY <1>0, <1>1, NewPairTyped DEF Expire, Calm, TypeOK, Routes
  <2> QED BY <2>1, <2>2, <2>3, <2>s, <2>4, <2>5 DEF IInv
<1>2. ASSUME NEW c \in Calls, Succeeds(c) PROVE IInv'
  <2>1. TypeOK'
    BY <1>0, <1>2, NewPairTyped, IdleTyped, RenderedTyped DEF Succeeds, TypeOK, CallType, FormType, PathType
  <2>2. OneRefreshAtATime'
    BY <1>0, <1>2 DEF Succeeds, OneRefreshAtATime, TypeOK, Idle
  <2>3. Out'
    BY <1>0, <1>2 DEF Succeeds, Out, TypeOK
  <2>s. Starting'
    BY <1>0, <1>2 DEF Succeeds, Starting, TypeOK, Idle
  <2>4. CallsInOrder'
    BY <1>0, <1>2, NewPairTyped DEF Succeeds, CallsInOrder, TypeOK, CallType, Idle
  <2>5. Calm'
    BY <1>0, <1>2, NewPairTyped DEF Succeeds, Calm, TypeOK, Routes
  <2> QED BY <2>1, <2>2, <2>3, <2>s, <2>4, <2>5 DEF IInv
<1>3. ASSUME NEW c \in Calls, Refused(c) PROVE IInv'
  <2>1. CASE store = None
    <3>1. call' = [call EXCEPT ![c] = [Idle EXCEPT !.step = "failed"]]
      BY <1>3, <2>1 DEF Refused, Fails
    <3>2. UNCHANGED <<inFlight, posts, store, user, loading, path, form, expired, trouble, signedOut, racing>>
      BY <1>3, <2>1 DEF Refused
    <3>3. TypeOK'
      BY <1>0, <3>1, <3>2, IdleTyped DEF TypeOK, CallType
    <3>4. OneRefreshAtATime'
      BY <1>0, <3>1, <3>2 DEF OneRefreshAtATime, TypeOK, Idle
    <3>5. Out' /\ Calm' /\ Starting'
      BY <1>0, <3>1, <3>2 DEF Out, Calm, Starting, TypeOK, Idle
    <3>6. CallsInOrder'
      BY <1>0, <3>1, <3>2 DEF CallsInOrder, TypeOK, Idle
    <3> QED BY <3>3, <3>4, <3>5, <3>6 DEF IInv
  <2>2. CASE store # None
    <3> DEFINE t == call[c].tab
    <3>1. call' = [call EXCEPT ![c].step = "waiting", ![c].tok = None]
      BY <1>3, <2>2 DEF Refused, Waits
    <3>2. UNCHANGED <<store, user, loading, path, form, expired, trouble, signedOut, racing>>
      BY <1>3, <2>2 DEF Refused
    <3>3. inFlight' = [inFlight EXCEPT ![t] = TRUE]
      BY <1>3, <2>2 DEF Refused
    <3>4. posts' = IF inFlight[t] THEN posts ELSE [posts EXCEPT ![t] = Append(@, store)]
      BY <1>3, <2>2 DEF Refused
    <3>5. call' \in [Calls -> CallType]
      <4>1. call[c] \in CallType
        BY <1>0 DEF TypeOK
      <4>2. [call[c] EXCEPT !.step = "waiting", !.tok = None] \in CallType
        BY <4>1, IdleTyped DEF CallType
      <4> QED BY <1>0, <3>1, <4>2 DEF TypeOK
    <3>6. posts' \in [Tabs -> Seq(Tokens \ {None})]
      <4>1. store \in Tokens \ {None}
        BY <1>0, <2>2 DEF TypeOK
      <4>2. \A u \in Tabs : Append(posts[u], store) \in Seq(Tokens \ {None})
        BY <1>0, <4>1 DEF TypeOK
      <4> QED BY <1>0, <3>4, <4>2 DEF TypeOK
    <3>7. TypeOK'
      BY <1>0, <3>2, <3>3, <3>5, <3>6 DEF TypeOK
    <3>8. ASSUME NEW u \in Tabs
          PROVE  /\ Len(posts'[u]) <= 1 /\ (inFlight'[u] <=> posts'[u] # <<>>)
                 /\ inFlight[u] => inFlight'[u]
      <4>1. posts[u] \in Seq(Tokens \ {None}) /\ (inFlight[u] <=> posts[u] # <<>>) /\ Len(posts[u]) <= 1
        BY <1>0 DEF TypeOK, OneRefreshAtATime
      <4>2. CASE u = t /\ ~ inFlight[t]
        <5>1. posts'[u] = Append(<<>>, store)
          BY <1>0, <3>4, <4>1, <4>2 DEF TypeOK
        <5> QED BY <1>0, <3>3, <4>2, <5>1 DEF TypeOK
      <4>3. CASE ~ (u = t /\ ~ inFlight[t])
        BY <1>0, <3>3, <3>4, <4>1, <4>3 DEF TypeOK
      <4> QED BY <4>2, <4>3
    <3>9. ASSUME NEW u \in Tabs, NEW d \in Calls, call'[d].tab = u, call'[d].step = "waiting"
          PROVE  inFlight'[u]
      <4>1. CASE d = c
        BY <1>0, <3>1, <3>3, <3>9, <4>1 DEF TypeOK
      <4>2. CASE d # c
        <5>1. inFlight[u]
          BY <1>0, <3>1, <3>9, <4>2 DEF TypeOK, OneRefreshAtATime
        <5> QED BY <3>8, <5>1
      <4> QED BY <4>1, <4>2
    <3>10. OneRefreshAtATime'
      BY <3>8, <3>9 DEF OneRefreshAtATime
    <3>11. Out' /\ Calm'
      BY <1>0, <2>2, <3>2 DEF Out, Calm
    <3>13. Starting'
      <4>1. \A d \in Calls : call'[d].tab = call[d].tab
        BY <1>0, <3>1 DEF TypeOK, CallType
      <4>2. \A u \in Tabs \ {t} : posts'[u] = posts[u]
        BY <1>0, <3>4 DEF TypeOK
      <4> QED BY <1>0, <3>2, <4>1, <4>2 DEF Starting
    <3>12. CallsInOrder'
      BY <1>0, <3>1, <3>2 DEF CallsInOrder, TypeOK
    <3> QED BY <3>7, <3>10, <3>11, <3>12, <3>13 DEF IInv
  <2> QED BY <2>1, <2>2
<1>4. ASSUME NEW c \in Calls, RefusedAgain(c) PROVE IInv'
  <2>1. TypeOK'
    BY <1>0, <1>4, NewPairTyped, IdleTyped, RenderedTyped DEF RefusedAgain, Fails, TypeOK, CallType, FormType, PathType
  <2>2. OneRefreshAtATime'
    BY <1>0, <1>4 DEF RefusedAgain, Fails, OneRefreshAtATime, TypeOK, Idle
  <2>3. Out'
    BY <1>0, <1>4 DEF RefusedAgain, Fails, Out, TypeOK
  <2>s. Starting'
    BY <1>0, <1>4 DEF RefusedAgain, Fails, Starting, TypeOK, Idle
  <2>4. CallsInOrder'
    BY <1>0, <1>4, NewPairTyped DEF RefusedAgain, Fails, CallsInOrder, TypeOK, CallType, Idle
  <2>5. Calm'
    BY <1>0, <1>4, NewPairTyped DEF RefusedAgain, Fails, Calm, TypeOK, Routes
  <2> QED BY <2>1, <2>2, <2>3, <2>s, <2>4, <2>5 DEF IInv
<1>5. ASSUME NEW c \in Calls, Lost(c) PROVE IInv'
  <2>1. TypeOK'
    BY <1>0, <1>5, NewPairTyped, IdleTyped, RenderedTyped DEF Lost, Fails, Trouble, TypeOK, CallType, FormType, PathType
  <2>2. OneRefreshAtATime'
    BY <1>0, <1>5 DEF Lost, Fails, Trouble, OneRefreshAtATime, TypeOK, Idle
  <2>3. Out'
    BY <1>0, <1>5 DEF Lost, Fails, Trouble, Out, TypeOK
  <2>s. Starting'
    BY <1>0, <1>5 DEF Lost, Fails, Trouble, Starting, TypeOK, Idle
  <2>4. CallsInOrder'
    BY <1>0, <1>5, NewPairTyped DEF Lost, Fails, Trouble, CallsInOrder, TypeOK, CallType, Idle
  <2>5. Calm'
    BY <1>0, <1>5, NewPairTyped DEF Lost, Fails, Trouble, Calm, TypeOK, Routes
  <2> QED BY <2>1, <2>2, <2>3, <2>s, <2>4, <2>5 DEF IInv
<1>6. ASSUME NEW c \in Calls, NEW t \in Tabs, Call(c, t) PROVE IInv'
  <2>1. TypeOK'
    BY <1>0, <1>6, NewPairTyped, IdleTyped, RenderedTyped DEF Call, Sent, TypeOK, CallType, FormType, PathType
  <2>2. OneRefreshAtATime'
    BY <1>0, <1>6 DEF Call, Sent, OneRefreshAtATime, TypeOK, Idle
  <2>3. Out'
    BY <1>0, <1>6, ViewFacts DEF Call, Sent, Out, TypeOK
  <2>s. Starting'
    BY <1>0, <1>6, ViewFacts DEF Call, Sent, Starting, TypeOK, Idle
  <2>4. CallsInOrder'
    BY <1>0, <1>6, NewPairTyped DEF Call, Sent, CallsInOrder, TypeOK, CallType, Idle
  <2>5. Calm'
    BY <1>0, <1>6, NewPairTyped DEF Call, Sent, Calm, TypeOK, Routes
  <2> QED BY <2>1, <2>2, <2>3, <2>s, <2>4, <2>5 DEF IInv
<1>7. ASSUME NEW t \in Tabs, RefreshSucceeds(t) PROVE IInv'
  <2> DEFINE tok == NewPair(Head(posts[t]).user)
  <2>1. posts[t] # <<>>
    BY <1>7 DEF RefreshSucceeds
  <2>2. Head(posts[t]) \in Tokens \ {None}
    BY <1>0, <2>1, PostsFacts
  <2>3. Head(posts[t]).user \in Users
    BY <2>2 DEF Tokens
  <2>4. tok \in Tokens /\ tok # None /\ tok.age = expired + 1
    BY <1>0, <2>3, NewPairTyped
  <2> HIDE DEF tok
  <2>5. store' = tok /\ Resume(t, tok)
    BY <1>7 DEF RefreshSucceeds, tok
  <2>6. /\ inFlight' = [inFlight EXCEPT ![t] = FALSE] /\ posts' = [posts EXCEPT ![t] = Tail(@)]
        /\ UNCHANGED <<user, loading, path, form, expired, trouble>>
        /\ \/ t \in racing /\ signedOut' = None /\ racing' = {}
           \/ t \notin racing /\ UNCHANGED <<signedOut, racing>>
    BY <1>7 DEF RefreshSucceeds, SignsIn
  <2>7. /\ call' \in [Calls -> CallType]
        /\ \A c \in Calls :
             \/ call'[c] = call[c] /\ (call[c].tab # t \/ call[c].step # "waiting")
             \/ call'[c].step = "failed" /\ call'[c].since = 0
             \/ call'[c].step = "resent" /\ call'[c].tok = tok /\ tok # None /\ call'[c].since = call[c].since
    BY <1>0, <2>4, <2>5, ResumeFacts
  <2>8. Tail(posts[t]) \in Seq(Tokens \ {None}) /\ Tail(posts[t]) = <<>>
    BY <1>0, <2>1, PostsFacts
  <2>9. TypeOK'
    BY <1>0, <2>4, <2>5, <2>6, <2>7, <2>8 DEF TypeOK
  <2>10. OneRefreshAtATime'
    <3>1. ASSUME NEW v \in Tabs
          PROVE  Len(posts'[v]) <= 1 /\ (inFlight'[v] <=> posts'[v] # <<>>)
      BY <1>0, <2>6, <2>8 DEF TypeOK, OneRefreshAtATime
    <3>2. ASSUME NEW v \in Tabs, NEW c \in Calls, call'[c].tab = v, call'[c].step = "waiting"
          PROVE  inFlight'[v]
      BY <1>0, <2>6, <2>7, <3>2 DEF TypeOK, OneRefreshAtATime
    <3> QED BY <3>1, <3>2 DEF OneRefreshAtATime
  <2>11. Out' /\ Calm'
    BY <1>0, <2>1, <2>4, <2>5, <2>6 DEF Out, Calm
  <2>13. Starting'
    <3>1. \A c \in Calls : call'[c].tab \in {call[c].tab, None}
      BY <1>0, <2>4, <2>5, ResumeFacts
    <3> QED BY <1>0, <2>1, <2>6, <3>1 DEF Starting, TypeOK
  <2>12. CallsInOrder'
    <3>1. expired \in Nat /\ \A c \in Calls : call[c] \in CallType
      BY <1>0 DEF TypeOK
    <3> QED BY <1>0, <2>4, <2>6, <2>7, <3>1 DEF CallsInOrder, CallType
  <2> QED BY <2>9, <2>10, <2>11, <2>12, <2>13 DEF IInv
<1>8. ASSUME NEW t \in Tabs, RefreshFails(t) PROVE IInv'
  <2>1. posts[t] # <<>>
    BY <1>8 DEF RefreshFails
  <2>2. /\ store' = None /\ signedOut' = t /\ racing' = {s \in Tabs : posts'[s] # <<>>}
        /\ Resume(t, None)
        /\ inFlight' = [inFlight EXCEPT ![t] = FALSE] /\ posts' = [posts EXCEPT ![t] = Tail(@)]
        /\ user' = [user EXCEPT ![t] = None]
        /\ path' = [path EXCEPT ![t] = Rendered(None, loading[t], @)]
        /\ trouble < MaxTrouble /\ trouble' = trouble + 1
        /\ UNCHANGED <<loading, form, expired>>
    BY <1>8 DEF RefreshFails, SignOut, Forget, Trouble
  <2>3. /\ call' \in [Calls -> CallType]
        /\ \A c \in Calls :
             \/ call'[c] = call[c] /\ (call[c].tab # t \/ call[c].step # "waiting")
             \/ call'[c].step = "failed" /\ call'[c].since = 0
    BY <1>0, <2>2, ResumeFacts, IdleTyped
  <2>4. Tail(posts[t]) \in Seq(Tokens \ {None}) /\ Tail(posts[t]) = <<>>
    BY <1>0, <2>1, PostsFacts
  <2>5. path[t] \in PathType
    BY <1>0 DEF TypeOK
  <2>6. Rendered(None, loading[t], path[t]) \in PathType
    BY <2>5, RenderedTyped
  <2>7. TypeOK'
    BY <1>0, <2>2, <2>3, <2>4, <2>6, IdleTyped DEF TypeOK
  <2>8. OneRefreshAtATime'
    <3>1. ASSUME NEW v \in Tabs
          PROVE  Len(posts'[v]) <= 1 /\ (inFlight'[v] <=> posts'[v] # <<>>)
      BY <1>0, <2>2, <2>4 DEF TypeOK, OneRefreshAtATime
    <3>2. ASSUME NEW v \in Tabs, NEW c \in Calls, call'[c].tab = v, call'[c].step = "waiting"
          PROVE  inFlight'[v]
      BY <1>0, <2>2, <2>3, <3>2 DEF TypeOK, OneRefreshAtATime
    <3> QED BY <3>1, <3>2 DEF OneRefreshAtATime
  <2>9. Out' /\ Calm'
    <3>1. loading[t] = None
      BY <1>0, <2>1 DEF Starting
    <3>2. path'[t].at = "login"
      BY <1>0, <2>2, <2>5, <3>1 DEF Rendered, TypeOK
    <3>3. trouble' # 0
      BY <1>0, <2>2 DEF TypeOK
    <3> QED BY <1>0, <2>2, <3>1, <3>2, <3>3 DEF Out, Calm, TypeOK
  <2>11. Starting'
    <3>1. \A c \in Calls : call'[c].tab \in {call[c].tab, None}
      BY <1>0, <2>2, IdleTyped, ResumeFacts
    <3> QED BY <1>0, <2>1, <2>2, <3>1 DEF Starting, TypeOK
  <2>10. CallsInOrder'
    <3>1. expired \in Nat /\ \A c \in Calls : call[c] \in CallType
      BY <1>0 DEF TypeOK
    <3> QED BY <1>0, <2>2, <2>3, <3>1 DEF CallsInOrder, CallType
  <2> QED BY <2>7, <2>8, <2>9, <2>10, <2>11 DEF IInv
<1>9. ASSUME NEW t \in Tabs, SubmitLogin(t) PROVE IInv'
  <2>1. TypeOK'
    BY <1>0, <1>9, NewPairTyped, IdleTyped, RenderedTyped DEF SubmitLogin, TypeOK, CallType, FormType, PathType
  <2>2. OneRefreshAtATime'
    BY <1>0, <1>9 DEF SubmitLogin, OneRefreshAtATime, TypeOK, Idle
  <2>3. Out'
    BY <1>0, <1>9 DEF SubmitLogin, Out, TypeOK
  <2>s. Starting'
    BY <1>0, <1>9 DEF SubmitLogin, Starting, TypeOK, Idle
  <2>4. CallsInOrder'
    BY <1>0, <1>9, NewPairTyped DEF SubmitLogin, CallsInOrder, TypeOK, CallType, Idle
  <2>5. Calm'
    BY <1>0, <1>9, NewPairTyped DEF SubmitLogin, Calm, TypeOK, Routes
  <2> QED BY <2>1, <2>2, <2>3, <2>s, <2>4, <2>5 DEF IInv
<1>10. ASSUME NEW t \in Tabs, LoginEnds(t) PROVE IInv'
  <2>0. form[t] \in FormType /\ form[t].tok # None /\ path[t] \in PathType
    BY <1>0, <1>10 DEF LoginEnds, Good, TypeOK
  <2>1. form[t].tok.user \in Users /\ [path[t] EXCEPT !.at = path[t].from] \in PathType
    BY <2>0 DEF FormType, PathType, Tokens
  <2>2. TypeOK'
    <3>1. /\ form' = [form EXCEPT ![t] = NoForm] /\ user' = [user EXCEPT ![t] = form[t].tok.user]
          /\ path' = [path EXCEPT ![t] = [path[t] EXCEPT !.at = path[t].from]]
          /\ signedOut' \in {signedOut, None} /\ racing' \in {racing, {}}
          /\ UNCHANGED <<store, loading, call, inFlight, posts, expired, trouble>>
      BY <1>0, <1>10 DEF LoginEnds, SignsIn, TypeOK
    <3> QED BY <1>0, <2>1, <3>1, IdleTyped DEF TypeOK
  <2>3. Out'
    BY <1>0, <1>10 DEF LoginEnds, SignsIn, Out, TypeOK
  <2>s. Starting'
    BY <1>0, <1>10 DEF LoginEnds, SignsIn, Starting, TypeOK, Idle
  <2>4. OneRefreshAtATime' /\ CallsInOrder'
    BY <1>0, <1>10 DEF LoginEnds, OneRefreshAtATime, CallsInOrder
  <2>5. Calm'
    BY <1>0, <1>10 DEF LoginEnds, Calm
  <2> QED BY <2>2, <2>3, <2>s, <2>4, <2>5 DEF IInv
<1>11. ASSUME NEW t \in Tabs, LoginFails(t) PROVE IInv'
  <2>1. TypeOK'
    BY <1>0, <1>11, NewPairTyped, IdleTyped, RenderedTyped DEF LoginFails, Trouble, TypeOK, CallType, FormType, PathType
  <2>2. OneRefreshAtATime'
    BY <1>0, <1>11 DEF LoginFails, NoForm, Trouble, OneRefreshAtATime, TypeOK, Idle
  <2>3. Out'
    BY <1>0, <1>11 DEF LoginFails, NoForm, Trouble, Out, TypeOK
  <2>s. Starting'
    BY <1>0, <1>11 DEF LoginFails, NoForm, Trouble, Starting, TypeOK, Idle
  <2>4. CallsInOrder'
    BY <1>0, <1>11, NewPairTyped DEF LoginFails, NoForm, Trouble, CallsInOrder, TypeOK, CallType, Idle
  <2>5. Calm'
    BY <1>0, <1>11, NewPairTyped DEF LoginFails, NoForm, Trouble, Calm, TypeOK, Routes
  <2> QED BY <2>1, <2>2, <2>3, <2>s, <2>4, <2>5 DEF IInv
<1>12. ASSUME NEW t \in Tabs, NEW u \in Users, LoginAccepted(t, u) PROVE IInv'
  <2>1. TypeOK'
    BY <1>0, <1>12, NewPairTyped, IdleTyped, RenderedTyped DEF LoginAccepted, SignsIn, TypeOK, CallType, FormType, PathType
  <2>2. OneRefreshAtATime'
    BY <1>0, <1>12 DEF LoginAccepted, SignsIn, OneRefreshAtATime, TypeOK, Idle
  <2>3. Out'
    BY <1>0, <1>12 DEF LoginAccepted, SignsIn, Out, TypeOK
  <2>s. Starting'
    BY <1>0, <1>12 DEF LoginAccepted, SignsIn, Starting, TypeOK, Idle
  <2>4. CallsInOrder'
    BY <1>0, <1>12, NewPairTyped DEF LoginAccepted, SignsIn, CallsInOrder, TypeOK, CallType, Idle
  <2>5. Calm'
    BY <1>0, <1>12, NewPairTyped DEF LoginAccepted, SignsIn, Calm, TypeOK, Routes
  <2> QED BY <2>1, <2>2, <2>3, <2>s, <2>4, <2>5 DEF IInv
<1>13. ASSUME NEW t \in Tabs, Logout(t) PROVE IInv'
  <2>1. TypeOK'
    BY <1>0, <1>13, NewPairTyped, IdleTyped, RenderedTyped DEF Logout, SignOut, Trouble, Forget, TypeOK, CallType, FormType, PathType
  <2>2. OneRefreshAtATime'
    BY <1>0, <1>13 DEF Logout, SignOut, Trouble, Forget, Rendered, OneRefreshAtATime, TypeOK, Idle
  <2>3. Out'
    BY <1>0, <1>13, ViewFacts DEF Logout, SignOut, Trouble, Forget, Rendered, Out, TypeOK
  <2>s. Starting'
    BY <1>0, <1>13, ViewFacts DEF Logout, SignOut, Trouble, Forget, Rendered, Starting, TypeOK, Idle
  <2>4. CallsInOrder'
    BY <1>0, <1>13, NewPairTyped DEF Logout, SignOut, Trouble, Forget, Rendered, CallsInOrder, TypeOK, CallType, Idle
  <2>5. Calm'
    BY <1>0, <1>13, NewPairTyped DEF Logout, SignOut, Trouble, Forget, Rendered, Calm, TypeOK, Routes
  <2> QED BY <2>1, <2>2, <2>3, <2>s, <2>4, <2>5 DEF IInv
<1>14. ASSUME NEW t \in Tabs, Reload(t) PROVE IInv'
  <2>1. TypeOK'
    <3>1. path' \in [Tabs -> PathType]
      <4>1. PICK p \in {path[t]} \union [at : Routes, from : {path[t].from}] :
              path' = [path EXCEPT ![t] = Rendered(None, store, p)]
        BY <1>14, Zenon DEF Reload
      <4>2. path \in [Tabs -> PathType] /\ path[t] \in PathType
        BY <1>0 DEF TypeOK
      <4>3. p \in PathType
        BY <4>1, <4>2 DEF PathType
      <4> QED BY <4>1, <4>2, <4>3, RenderedTyped
    <3>2. call' \in [Calls -> CallType]
      BY <1>0, <1>14, IdleTyped DEF Reload, TypeOK
    <3>3. trouble' \in 0..MaxTrouble
      BY <1>0, <1>14 DEF Reload, Trouble, TypeOK
    <3> QED BY <1>0, <1>14, <3>1, <3>2, <3>3, IdleTyped DEF Reload, TypeOK
  <2>2. OneRefreshAtATime'
    BY <1>0, <1>14 DEF Reload, Trouble, Rendered, NoForm, OneRefreshAtATime, TypeOK, Idle
  <2>3. Out'
    BY <1>0, <1>14 DEF Reload, Trouble, Rendered, NoForm, Out, TypeOK
  <2>s. Starting'
    BY <1>0, <1>14 DEF Reload, Trouble, Rendered, NoForm, Starting, TypeOK, Idle
  <2>4. CallsInOrder'
    BY <1>0, <1>14, NewPairTyped DEF Reload, Trouble, Rendered, NoForm, CallsInOrder, TypeOK, CallType, Idle
  <2>5. Calm'
    BY <1>0, <1>14, NewPairTyped DEF Reload, Trouble, Rendered, NoForm, Calm, TypeOK, Routes
  <2> QED BY <2>1, <2>2, <2>3, <2>s, <2>4, <2>5 DEF IInv
<1>15. ASSUME NEW t \in Tabs, MeAnswers(t) PROVE IInv'
  <2>0. loading[t] \in Tokens \ {None} /\ Rendered(user[t], None, path[t]) \in PathType
    BY <1>0, <1>15, RenderedTyped DEF MeAnswers, TypeOK
  <2>1. loading[t].user \in Users
    BY <2>0 DEF Tokens
  <2>2. TypeOK'
    <3>1. CASE Good(loading[t])
      BY <1>0, <1>15, <2>1, <3>1, IdleTyped DEF MeAnswers, TypeOK
    <3>2. CASE ~ Good(loading[t])
      BY <1>0, <1>15, <2>0, <3>2, IdleTyped DEF MeAnswers, TypeOK
    <3> QED BY <3>1, <3>2
  <2>3. Out'
    BY <1>0, <1>15 DEF MeAnswers, Out, TypeOK
  <2>s. Starting'
    BY <1>0, <1>15 DEF MeAnswers, Starting, TypeOK, Idle
  <2>4. OneRefreshAtATime' /\ CallsInOrder'
    BY <1>0, <1>15 DEF MeAnswers, OneRefreshAtATime, CallsInOrder
  <2>5. Calm'
    BY <1>0, <1>15 DEF MeAnswers, Calm
  <2> QED BY <2>2, <2>3, <2>s, <2>4, <2>5 DEF IInv
<1>16. ASSUME NEW t \in Tabs, MeLost(t) PROVE IInv'
  <2>1. TypeOK'
    BY <1>0, <1>16, NewPairTyped, IdleTyped, RenderedTyped DEF MeLost, Trouble, TypeOK, CallType, FormType, PathType
  <2>2. OneRefreshAtATime'
    BY <1>0, <1>16 DEF MeLost, Trouble, Rendered, OneRefreshAtATime, TypeOK, Idle
  <2>3. Out'
    BY <1>0, <1>16 DEF MeLost, Trouble, Rendered, Out, TypeOK
  <2>s. Starting'
    BY <1>0, <1>16 DEF MeLost, Trouble, Rendered, Starting, TypeOK, Idle
  <2>4. CallsInOrder'
    BY <1>0, <1>16, NewPairTyped DEF MeLost, Trouble, Rendered, CallsInOrder, TypeOK, CallType, Idle
  <2>5. Calm'
    BY <1>0, <1>16, NewPairTyped DEF MeLost, Trouble, Rendered, Calm, TypeOK, Routes
  <2> QED BY <2>1, <2>2, <2>3, <2>s, <2>4, <2>5 DEF IInv
<1>17. ASSUME NEW t \in Tabs, NEW r \in Routes, Navigate(t, r) PROVE IInv'
  <2>1. TypeOK'
    BY <1>0, <1>17, NewPairTyped, IdleTyped, RenderedTyped DEF Navigate, TypeOK, CallType, FormType, PathType
  <2>2. OneRefreshAtATime'
    BY <1>0, <1>17 DEF Navigate, OneRefreshAtATime, TypeOK, Idle
  <2>3. Out'
    BY <1>0, <1>17, ViewFacts DEF Navigate, Out, TypeOK
  <2>s. Starting'
    BY <1>0, <1>17, ViewFacts DEF Navigate, Starting, TypeOK, Idle
  <2>4. CallsInOrder'
    BY <1>0, <1>17, NewPairTyped DEF Navigate, CallsInOrder, TypeOK, CallType, Idle
  <2>5. Calm'
    BY <1>0, <1>17, NewPairTyped DEF Navigate, Calm, TypeOK, Routes
  <2> QED BY <2>1, <2>2, <2>3, <2>s, <2>4, <2>5 DEF IInv
<1>18. ASSUME UNCHANGED vars PROVE IInv'
  BY <1>0, <1>18 DEF IInv, vars, TypeOK, OneRefreshAtATime, Out, Starting, CallsInOrder, Calm
<1> QED
  BY <1>1, <1>2, <1>3, <1>4, <1>5, <1>6, <1>7, <1>8, <1>9, <1>10, <1>11, <1>12, <1>13, <1>14, <1>15, <1>16, <1>17, <1>18
  DEF Next, Answered

(* The invariant holds in every reachable state of the two or more tabs     *)
(* (client.ts:35-126).                                                      *)
THEOREM Invariance == Spec => []IInv
  BY IInvInit, IInvStep, PTL DEF Spec

-----------------------------------------------------------------------------
(* In every state every variable has its type.                              *)
THEOREM TypeCorrect == Spec => []TypeOK
<1>1. IInv => TypeOK
  BY DEF IInv
<1> QED BY <1>1, Invariance, PTL

(* One refresh serves all the calls of a tab, however many meet an expired  *)
(* token (client.ts:83-89).                                                 *)
THEOREM OneRefresh == Spec => []OneRefreshAtATime
<1>1. IInv => OneRefreshAtATime
  BY DEF IInv
<1> QED BY <1>1, Invariance, PTL

(* A sign-out lasts until somebody signs in or a refresh that was under way *)
(* when it happened ends well (client.ts:30-33, :84-98).                    *)
THEOREM SignedOut == Spec => []SignedOutIsOut
<1>1. IInv => SignedOutIsOut
  BY ViewFacts DEF IInv, Out, SignedOutIsOut
<1> QED BY <1>1, Invariance, PTL

(* What a step does while nothing has gone wrong: nobody is signed out, and *)
(* a call fails only on a token that expired after it was issued for it.    *)
LEMMA CalmStep ==
  ASSUME IInv, Next, trouble' = 0
  PROVE  /\ user' = user
         /\ \A c \in Calls : call[c].step # "failed" /\ call'[c].step = "failed" =>
              call[c].step = "resent" /\ call[c].tok.age \in (call[c].since + 1)..expired
<1> DEFINE Quiet(c) == call[c].step # "failed" /\ call'[c].step = "failed" =>
              call[c].step = "resent" /\ call[c].tok.age \in (call[c].since + 1)..expired
<1>0. TypeOK /\ CallsInOrder /\ Calm
  BY DEF IInv
<1> USE SessionAssumption
<1>1. trouble \in Nat
  BY <1>0 DEF TypeOK
<1>2. ~ Trouble
  BY <1>1 DEF Trouble
<1>3. trouble = 0
  BY <1>0, <1>1, <1>2 DEF Next, Expire, Answered, SignOut, SignsIn, Succeeds, Refused, RefusedAgain, Lost, Call,
     RefreshSucceeds, RefreshFails, SubmitLogin, LoginEnds, LoginFails, LoginAccepted, Logout,
     Reload, MeAnswers, MeLost, Navigate
<1>4. /\ store # None /\ signedOut = None
      /\ \A t \in Tabs : loading[t] = None /\ form[t].step = "idle" /\ path[t].at # "login"
  BY <1>0, <1>3 DEF Calm
<1>R. ~ \E t \in Tabs : Reload(t)
  BY <1>2, <1>4 DEF Reload
<1>5. user' = user
  BY <1>2, <1>4, <1>R DEF Next, Expire, Answered, Succeeds, Refused, RefusedAgain, Lost, Call,
     RefreshSucceeds, RefreshFails, SubmitLogin, LoginEnds, LoginFails, LoginAccepted, Logout,
     MeAnswers, MeLost, Navigate
<1>6. ASSUME NEW c \in Calls PROVE Quiet(c)
  <2>0. call[c] \in CallType /\ expired \in Nat
    BY <1>0 DEF TypeOK
  <2>1. ASSUME NEW d \in Calls, Refused(d) PROVE Quiet(c)
    <3>1. Waits(d)
      BY <1>4, <2>1 DEF Refused
    <3>2. call' = [call EXCEPT ![d] = [call[d] EXCEPT !.step = "waiting", !.tok = None]]
      BY <3>1 DEF Waits
    <3>3. CASE c = d
      <4>1. call'[c] = [call[c] EXCEPT !.step = "waiting", !.tok = None]
        BY <1>0, <3>2, <3>3 DEF TypeOK
      <4>2. call'[c].step = "waiting"
        BY <2>0, <4>1 DEF CallType
      <4> QED BY <4>2
    <3>4. CASE c # d
      BY <1>0, <3>2, <3>4 DEF TypeOK
    <3> QED BY <3>3, <3>4
  <2>2. ASSUME NEW d \in Calls, RefusedAgain(d) PROVE Quiet(c)
    <3>1. CASE c = d
      <4>1. call[c].tok # None /\ call[c].tok.age > call[c].since /\ call[c].step = "resent"
        BY <1>0, <2>2, <3>1 DEF RefusedAgain, CallsInOrder
      <4>2. call[c].tok.age \in Nat /\ call[c].since \in Nat
        BY <2>0, <4>1 DEF CallType, Tokens
      <4>3. ~ (call[c].tok.age > expired)
        BY <2>2, <3>1, <4>1 DEF RefusedAgain, Good
      <4> QED BY <2>0, <4>1, <4>2, <4>3
    <3>2. CASE c # d
      BY <1>0, <2>2, <3>2 DEF RefusedAgain, Fails, TypeOK
    <3> QED BY <3>1, <3>2
  <2>3. ASSUME NEW d \in Calls, Succeeds(d) PROVE Quiet(c)
    BY <1>0, <2>3 DEF Succeeds, Idle, TypeOK
  <2>4. ASSUME NEW d \in Calls, NEW t \in Tabs, Call(d, t) PROVE Quiet(c)
    BY <1>0, <2>4 DEF Call, Sent, TypeOK
  <2>5. ASSUME NEW t \in Tabs, RefreshSucceeds(t) PROVE Quiet(c)
    <3>1. posts[t] # <<>>
      BY <2>5 DEF RefreshSucceeds
    <3>0. OneRefreshAtATime
      BY DEF IInv
    <3>2. Head(posts[t]) \in Tokens \ {None}
      BY <1>0, <3>0, <3>1, PostsFacts
    <3>3. Head(posts[t]).user \in Users
      <4> DEFINE h == Head(posts[t])
      <4>1. h \in [user : Users, age : 1..(MaxExpiries + 1)]
        BY <3>2 DEF Tokens
      <4> HIDE DEF h
      <4>2. h.user \in Users
        BY <4>1
      <4> QED BY <4>2 DEF h
    <3>4. NewPair(Head(posts[t]).user) # None
      BY <1>0, <3>3, NewPairTyped
    <3> QED BY <2>0, <2>5, <3>4 DEF RefreshSucceeds, Resume, CallType
  <2>6. ASSUME UNCHANGED call PROVE Quiet(c)
    BY <2>6
  <2>7. ~ \E d \in Calls : Lost(d)
    BY <1>2 DEF Lost
  <2>8. ~ \E t \in Tabs : RefreshFails(t) \/ Reload(t) \/ Logout(t)
    BY <1>2, <1>R DEF RefreshFails, Logout
  <2>9. Expire => Quiet(c)
    BY <2>6 DEF Expire
  <2>10. ASSUME NEW t \in Tabs,
                \/ SubmitLogin(t) \/ LoginEnds(t) \/ LoginFails(t) \/ MeAnswers(t) \/ MeLost(t)
                \/ \E u \in Users : LoginAccepted(t, u)
                \/ \E r \in Routes : Navigate(t, r)
         PROVE Quiet(c)
    BY <2>6, <2>10 DEF SubmitLogin, LoginEnds, LoginFails, MeAnswers, MeLost, LoginAccepted, Navigate
  <2>11. CASE \E d \in Calls : Answered(d) \/ Lost(d) \/ \E t \in Tabs : Call(d, t)
    BY <2>1, <2>2, <2>3, <2>4, <2>7, <2>11 DEF Answered
  <2> HIDE DEF Quiet
  <2>12. ASSUME NEW t \in Tabs,
                \/ RefreshSucceeds(t) \/ RefreshFails(t)
                \/ SubmitLogin(t) \/ LoginEnds(t) \/ LoginFails(t)
                \/ \E u \in Users : LoginAccepted(t, u)
                \/ Logout(t) \/ Reload(t) \/ MeAnswers(t) \/ MeLost(t)
                \/ \E r \in Routes : Navigate(t, r)
         PROVE Quiet(c)
    <3>1. CASE RefreshSucceeds(t)
      BY <2>5, <3>1
    <3>2. CASE RefreshFails(t) \/ Reload(t) \/ Logout(t)
      BY <2>8, <3>2
    <3>3. CASE \/ SubmitLogin(t) \/ LoginEnds(t) \/ LoginFails(t) \/ MeAnswers(t) \/ MeLost(t)
               \/ \E u \in Users : LoginAccepted(t, u)
               \/ \E r \in Routes : Navigate(t, r)
      BY <2>10, <3>3
    <3> QED BY <2>12, <3>1, <3>2, <3>3
  <2> QED BY <2>9, <2>11, <2>12 DEF Next
<1> QED BY <1>5, <1>6

(* While the network and the users behave nobody notices that tokens expire *)
(* (client.ts:110-126).                                                     *)
THEOREM ExpiryInvisible == Spec => ExpiryIsInvisible
<1>1. IInv /\ [Next]_vars =>
        [trouble' = 0 =>
           /\ user' = user
           /\ \A c \in Calls : call[c].step # "failed" /\ call'[c].step = "failed" =>
                call[c].step = "resent" /\ call[c].tok.age \in (call[c].since + 1)..expired]_vars
  BY CalmStep
<1> QED BY <1>1, Invariance, PTL DEF Spec, ExpiryIsInvisible
=============================================================================
