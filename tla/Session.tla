------------------------------- MODULE Session -------------------------------
(***************************************************************************)
(* Signing in, and keeping signed in, in the browser: api/client.ts,       *)
(* hooks/useAuth.tsx, RequireAuth, the login page and the routes of App.   *)
(*                                                                         *)
(* All tabs share one pair of tokens in localStorage; each has its own     *)
(* memory: the user it shows, its calls, and the refresh they share.  The  *)
(* server's tokens are stateless: one is good until it expires.            *)
(***************************************************************************)
EXTENDS Integers, Sequences, FiniteSets

CONSTANTS
  None,
  Tabs,
  Calls,        \* calls of the api client
  Users,
  LevelOf,      \* a user's role: 0 readonly, 1 operator, 2 admin
  NeedOf,       \* the level each route asks for
  MaxExpiries,  \* bound: times the access tokens issued so far expire
  MaxTrouble    \* bound: sign-outs, reloads, lost requests, refused refreshes

ASSUME SessionAssumption ==
  /\ None \notin Tabs /\ None \notin [user : Users, age : Nat]
  /\ LevelOf \in [Users -> 0..2]
  /\ "login" \notin DOMAIN NeedOf
  /\ \A p \in DOMAIN NeedOf : NeedOf[p] \in 0..2
  /\ MaxExpiries \in Nat /\ MaxTrouble \in Nat

VARIABLES
  store,     \* localStorage: the tokens, an access token named by its age
  user,      \* each tab's user
  loading,   \* the token whose user a starting tab asks for
  path,      \* where each tab is, and where a login would lead
  form,      \* the login form: idle, waiting for tokens, or asking me() with one
  call,      \* the calls of the api client
  inFlight,  \* refreshInFlight is set
  posts,     \* refresh requests under way, with the token they carry
  expired,   \* access tokens up to this age are no longer good
  trouble,   \* history: how much has gone wrong
  signedOut, \* history: the tab that signed out, while nobody has signed in since
  racing     \* history: the tabs whose refresh was under way when it did

vars == <<store, user, loading, path, form, call, inFlight, posts, expired,
          trouble, signedOut, racing>>

Routes == DOMAIN NeedOf
Pair(u, n)  == [user |-> u, age |-> n]
Good(tok)   == tok # None /\ tok.age > expired
NewPair(u)  == Pair(u, expired + 1)     \* what the server issues now
NoForm      == [step |-> "idle", tok |-> None]
Idle        == [step |-> "idle", tab |-> None, tok |-> None, since |-> 0]
Trouble     == trouble < MaxTrouble /\ trouble' = trouble + 1

-----------------------------------------------------------------------------
(* What is on screen.                                                      *)

\* RequireAuth: wait, go to the login page, refuse, or show the page.
View(t) ==
  IF path[t].at = "login" THEN "login"
  ELSE IF loading[t] # None THEN "wait"
  ELSE IF LevelOf[user[t]] < NeedOf[path[t].at] THEN "forbidden"
  ELSE "page"

\* A render without a user leads to the login page, which remembers the route.
Rendered(u, wait, p) ==
  IF u = None /\ wait = None /\ p.at # "login" THEN [at |-> "login", from |-> p.at] ELSE p

Forget(t) ==
  /\ user' = [user EXCEPT ![t] = None]
  /\ path' = [path EXCEPT ![t] = Rendered(None, loading[t], @)]

\* The tokens are dropped; a tab whose refresh is under way may yet store new ones.
SignOut(t) ==
  /\ store' = None
  /\ signedOut' = t
  /\ racing' = {s \in Tabs : posts'[s] # <<>>}

SignsIn == signedOut' = None /\ racing' = {}

Init ==
  /\ \E u \in Users : store = Pair(u, 1) /\ user = [t \in Tabs |-> u]
  /\ loading = [t \in Tabs |-> None]
  /\ \E r \in Routes : path = [t \in Tabs |-> [at |-> r, from |-> r]]
  /\ form = [t \in Tabs |-> NoForm]
  /\ call = [c \in Calls |-> Idle]
  /\ inFlight = [t \in Tabs |-> FALSE]
  /\ posts = [t \in Tabs |-> <<>>]
  /\ expired = 0
  /\ trouble = 0
  /\ signedOut = None
  /\ racing = {}

-----------------------------------------------------------------------------
(* Calls: api() and tryRefresh().                                          *)

Sent(t, tok) == [step |-> "sent", tab |-> t, tok |-> tok, since |-> expired]

\* A page sends a request with the token it finds.
Call(c, t) ==
  /\ call[c].step \in {"idle", "failed"}
  /\ View(t) = "page"
  /\ call' = [call EXCEPT ![c] = Sent(t, store)]
  /\ UNCHANGED <<store, user, loading, path, form, inFlight, posts, expired,
                 trouble, signedOut, racing>>

Fails(c) == call' = [call EXCEPT ![c] = [Idle EXCEPT !.step = "failed"]]

Waits(c) == call' = [call EXCEPT ![c].step = "waiting", ![c].tok = None]

Succeeds(c) ==
  /\ call[c].step \in {"sent", "resent"}
  /\ Good(call[c].tok)
  /\ call' = [call EXCEPT ![c] = Idle]
  /\ UNCHANGED <<store, user, loading, path, form, inFlight, posts, expired,
                 trouble, signedOut, racing>>

\* No answer: the error is the caller's.
Lost(c) ==
  /\ call[c].step \in {"sent", "resent"}
  /\ Trouble
  /\ Fails(c)
  /\ UNCHANGED <<store, user, loading, path, form, inFlight, posts, expired, signedOut, racing>>

\* mutants: each refused call asks for its own refresh; a call that finds a
\* refresh under way gives up
RefusedAlone(c) ==
  /\ call[c].step = "sent"
  /\ ~ Good(call[c].tok)
  /\ store # None
  /\ Waits(c)
  /\ inFlight' = [inFlight EXCEPT ![call[c].tab] = TRUE]
  /\ posts' = [posts EXCEPT ![call[c].tab] = Append(@, store)]
  /\ UNCHANGED <<store, user, loading, path, form, expired, trouble, signedOut, racing>>
RefusedImpatient(c) ==
  /\ call[c].step = "sent"
  /\ ~ Good(call[c].tok)
  /\ LET t == call[c].tab
     IN IF store = None \/ inFlight[t]
        THEN Fails(c) /\ UNCHANGED <<inFlight, posts>>
        ELSE /\ Waits(c)
             /\ inFlight' = [inFlight EXCEPT ![t] = TRUE]
             /\ posts' = [posts EXCEPT ![t] = Append(@, store)]
  /\ UNCHANGED <<store, user, loading, path, form, expired, trouble, signedOut, racing>>

\* mutant: the refresh token is the one the call set out with
RefusedFromMemory(c) ==
  /\ call[c].step = "sent"
  /\ ~ Good(call[c].tok)
  /\ LET t == call[c].tab
     IN IF call[c].tok = None
        THEN Fails(c) /\ UNCHANGED <<inFlight, posts>>
        ELSE /\ Waits(c)
             /\ inFlight' = [inFlight EXCEPT ![t] = TRUE]
             /\ posts' = IF inFlight[t] THEN posts
                         ELSE [posts EXCEPT ![t] = Append(@, call[c].tok)]
  /\ UNCHANGED <<store, user, loading, path, form, expired, trouble, signedOut, racing>>

\* A 401: without a refresh token the call fails; otherwise it waits for the
\* refresh under way, or starts one.
Refused(c) ==
  /\ call[c].step = "sent"
  /\ ~ Good(call[c].tok)
  /\ LET t == call[c].tab
     IN IF store = None
        THEN Fails(c) /\ UNCHANGED <<inFlight, posts>>
        ELSE /\ Waits(c)
             /\ inFlight' = [inFlight EXCEPT ![t] = TRUE]
             /\ posts' = IF inFlight[t] THEN posts
                         ELSE [posts EXCEPT ![t] = Append(@, store)]
  /\ UNCHANGED <<store, user, loading, path, form, expired, trouble, signedOut, racing>>

\* Once more is enough.
RefusedAgain(c) ==
  /\ call[c].step = "resent"
  /\ ~ Good(call[c].tok)
  /\ Fails(c)
  /\ UNCHANGED <<store, user, loading, path, form, inFlight, posts, expired,
                 trouble, signedOut, racing>>

\* Every call that waits goes on with the outcome of the refresh.
Resume(t, tok) ==
  call' = [c \in Calls |->
            IF call[c].tab # t \/ call[c].step # "waiting" THEN call[c]
            ELSE IF tok = None THEN [Idle EXCEPT !.step = "failed"]
            ELSE [call[c] EXCEPT !.step = "resent", !.tok = tok]]

\* The tokens are stored whoever has signed out or in since.
RefreshSucceeds(t) ==
  /\ posts[t] # <<>>
  /\ LET tok == NewPair(Head(posts[t]).user)
     IN store' = tok /\ Resume(t, tok)
  /\ inFlight' = [inFlight EXCEPT ![t] = FALSE]
  /\ posts' = [posts EXCEPT ![t] = Tail(@)]
  /\ IF t \in racing THEN SignsIn ELSE UNCHANGED <<signedOut, racing>>
  /\ UNCHANGED <<user, loading, path, form, expired, trouble>>

\* mutant: a failed refresh stays the one to wait for
RefreshFailsForGood(t) ==
  /\ posts[t] # <<>>
  /\ Trouble
  /\ posts' = [posts EXCEPT ![t] = Tail(@)]
  /\ SignOut(t)
  /\ Forget(t)
  /\ UNCHANGED <<call, inFlight, loading, form, expired>>

\* Refused or lost, it is all one: whatever tokens are stored are dropped, and
\* the tab signs out.
RefreshFails(t) ==
  /\ posts[t] # <<>>
  /\ Trouble
  /\ Resume(t, None)
  /\ inFlight' = [inFlight EXCEPT ![t] = FALSE]
  /\ posts' = [posts EXCEPT ![t] = Tail(@)]
  /\ SignOut(t)
  /\ Forget(t)
  /\ UNCHANGED <<loading, form, expired>>

-----------------------------------------------------------------------------
(* Signing in and out: useAuth and the login page.                         *)

SubmitLogin(t) ==
  /\ path[t].at = "login"
  /\ form[t].step = "idle"
  /\ form' = [form EXCEPT ![t].step = "posting"]
  /\ UNCHANGED <<store, user, loading, path, call, inFlight, posts, expired,
                 trouble, signedOut, racing>>

LoginAccepted(t, u) ==
  /\ form[t].step = "posting"
  /\ store' = NewPair(u)
  /\ form' = [form EXCEPT ![t] = [step |-> "asking", tok |-> NewPair(u)]]
  /\ SignsIn
  /\ UNCHANGED <<user, loading, path, call, inFlight, posts, expired, trouble>>

\* me() answers, for the token just stored: then back to the route.
LoginEnds(t) ==
  /\ form[t].step = "asking"
  /\ Good(form[t].tok)
  /\ form' = [form EXCEPT ![t] = NoForm]
  /\ user' = [user EXCEPT ![t] = form[t].tok.user]
  /\ path' = [path EXCEPT ![t].at = path[t].from]
  /\ IF signedOut = t THEN SignsIn ELSE UNCHANGED <<signedOut, racing>>
  /\ UNCHANGED <<store, loading, call, inFlight, posts, expired, trouble>>

\* Wrong password, no answer, or an answer too late; tokens stored stay stored.
LoginFails(t) ==
  /\ form[t].step # "idle"
  /\ \/ Trouble
     \/ form[t].step = "asking" /\ ~ Good(form[t].tok) /\ UNCHANGED trouble
  /\ form' = [form EXCEPT ![t] = NoForm]
  /\ UNCHANGED <<store, user, loading, path, call, inFlight, posts, expired, signedOut, racing>>

Logout(t) ==
  /\ View(t) \in {"page", "forbidden"}
  /\ Trouble
  /\ UNCHANGED <<loading, form, call, inFlight, posts, expired>>
  /\ SignOut(t)
  /\ Forget(t)

\* The tab is loaded again, where it is or at an address the user gives: its
\* memory is gone, and the answers to its requests with it.  The bound does not
\* count it for a tab that has signed out.
Reload(t) ==
  /\ Trouble \/ (signedOut = t /\ UNCHANGED trouble)
  /\ user' = [user EXCEPT ![t] = None]
  /\ loading' = [loading EXCEPT ![t] = store]
  /\ \E p \in {path[t]} \union [at : Routes, from : {path[t].from}] :
       path' = [path EXCEPT ![t] = Rendered(None, store, p)]
  /\ form' = [form EXCEPT ![t] = NoForm]
  /\ call' = [c \in Calls |-> IF call[c].tab = t THEN Idle ELSE call[c]]
  /\ inFlight' = [inFlight EXCEPT ![t] = FALSE]
  /\ posts' = [posts EXCEPT ![t] = <<>>]
  /\ UNCHANGED <<store, expired, signedOut, racing>>

\* me() at the start: a token that expired is not refreshed, and whatever is
\* stored by then is dropped.
MeAnswers(t) ==
  /\ loading[t] # None
  /\ loading' = [loading EXCEPT ![t] = None]
  /\ IF Good(loading[t])
     THEN /\ user' = [user EXCEPT ![t] = loading[t].user]
          /\ UNCHANGED <<store, path>>
     ELSE /\ store' = None
          /\ path' = [path EXCEPT ![t] = Rendered(user[t], None, @)]
          /\ UNCHANGED user
  /\ UNCHANGED <<form, call, inFlight, posts, expired, trouble, signedOut, racing>>

\* No answer: the user has to sign in again, with the tokens still stored.  The
\* mishap is the reload that asked.
MeLost(t) ==
  /\ loading[t] # None
  /\ loading' = [loading EXCEPT ![t] = None]
  /\ path' = [path EXCEPT ![t] = Rendered(user[t], None, @)]
  /\ UNCHANGED <<store, user, form, call, inFlight, posts, expired, trouble, signedOut, racing>>

\* A link.
Navigate(t, r) ==
  /\ View(t) \in {"page", "forbidden"}
  /\ path' = [path EXCEPT ![t] = [at |-> r, from |-> r]]
  /\ UNCHANGED <<store, user, loading, form, call, inFlight, posts, expired,
                 trouble, signedOut, racing>>

\* Fifteen minutes pass.
Expire ==
  /\ expired < MaxExpiries
  /\ expired' = expired + 1
  /\ UNCHANGED <<store, user, loading, path, form, call, inFlight, posts,
                 trouble, signedOut, racing>>

Answered(c) == Succeeds(c) \/ Refused(c) \/ RefusedAgain(c)

Next ==
  \/ Expire
  \/ \E c \in Calls : Answered(c) \/ Lost(c) \/ \E t \in Tabs : Call(c, t)
  \/ \E t \in Tabs :
       \/ RefreshSucceeds(t) \/ RefreshFails(t)
       \/ SubmitLogin(t) \/ LoginEnds(t) \/ LoginFails(t)
       \/ \E u \in Users : LoginAccepted(t, u)
       \/ Logout(t) \/ Reload(t) \/ MeAnswers(t) \/ MeLost(t)
       \/ \E r \in Routes : Navigate(t, r)

Spec == Init /\ [][Next]_vars

\* The server answers what it is asked.
FairSpec ==
  /\ Spec
  /\ \A c \in Calls : WF_vars(Answered(c))
  /\ \A t \in Tabs : WF_vars(RefreshSucceeds(t) \/ RefreshFails(t)) /\ WF_vars(MeAnswers(t))

-----------------------------------------------------------------------------
(* Properties.                                                             *)

Tokens == [user : Users, age : 1..(MaxExpiries + 1)] \union {None}

CallType == [step : {"idle", "sent", "waiting", "resent", "failed"},
             tab : Tabs \union {None}, tok : Tokens, since : 0..MaxExpiries]
PathType == [at : Routes \union {"login"}, from : Routes]
FormType == [step : {"idle", "posting", "asking"}, tok : Tokens]

(* Every variable has its type.                                             *)
TypeOK ==
  /\ store \in Tokens
  /\ user \in [Tabs -> Users \union {None}]
  /\ loading \in [Tabs -> Tokens]
  /\ path \in [Tabs -> PathType]
  /\ form \in [Tabs -> FormType]
  /\ call \in [Calls -> CallType]
  /\ posts \in [Tabs -> Seq(Tokens \ {None})]
  /\ inFlight \in [Tabs -> BOOLEAN]
  /\ expired \in 0..MaxExpiries /\ trouble \in 0..MaxTrouble
  /\ signedOut \in Tabs \union {None}
  /\ racing \subseteq Tabs

(* However many calls of a tab meet an expired token, one refresh serves    *)
(* them all (client.ts:83-89), and a call waits only for one that is out.   *)
OneRefreshAtATime ==
  \A t \in Tabs :
    /\ Len(posts[t]) <= 1
    /\ inFlight[t] <=> posts[t] # <<>>
    /\ (\E c \in Calls : call[c].tab = t /\ call[c].step = "waiting") => inFlight[t]

(* Expiry is no one's business: while the network and the users behave, a   *)
(* call fails only when it was sent again with a token issued since it was  *)
(* first sent and that one expired on it too, and every tab keeps the user  *)
(* it showed (client.ts:110-126).                                           *)
ExpiryIsInvisible ==
  [][trouble' = 0 =>
       /\ user' = user
       /\ \A c \in Calls : call[c].step # "failed" /\ call'[c].step = "failed" =>
            call[c].step = "resent" /\ call[c].tok.age \in (call[c].since + 1)..expired]_vars

(* Who signed out, by the button or by a refresh that failed, stays out:    *)
(* the browser holds no tokens and the tab shows the login page, reloaded   *)
(* or not, whatever answers arrive late, until somebody signs in, unless a  *)
(* refresh that was under way at the sign-out ends well after it: that one  *)
(* stores its tokens, and the next reload signs its user in unasked         *)
(* (client.ts:30-33, :84-98, useAuth.tsx:24-51).                            *)
SignedOutIsOut ==
  \A t \in Tabs : signedOut = t => store = None /\ user[t] = None /\ View(t) = "login"

(* Nobody waits for ever: a call ends, for its caller, and a tab that loads *)
(* leaves the waiting screen, whatever became of the refresh (client.ts:    *)
(* 100-105, useAuth.tsx:41-43).                                             *)
NobodyWaits ==
  /\ \A c \in Calls : call[c].step = "waiting" ~> call[c].step # "waiting"
  /\ \A t \in Tabs : View(t) = "wait" ~> View(t) # "wait"
=============================================================================
