----------------------------- MODULE LiveStream -----------------------------
(***************************************************************************)
(* A task's output on its way to a viewer: the agent's readers post one    *)
(* chunk per line, the server publishes each to a Redis channel and a      *)
(* capped buffer, and the WebSocket handler replays the buffer, subscribes *)
(* and forwards, while the browser drops what it has seen.                 *)
(*                                                                         *)
(* The task's row appears as settled, its status being terminal; its own   *)
(* life is TaskLifecycle's.  How the browser reopens a lost socket is      *)
(* StreamHook's; here it just connects again.                              *)
(***************************************************************************)
EXTENDS Integers, Sequences, SequencesExt

CONSTANTS
  Stream,     \* the pipes a run reads: stdout, stderr
  MaxRuns,    \* bound: how often a task is handed out
  Plans,      \* bounds, of which one is chosen at the start: the lines each
              \* run writes to each pipe, and how often the task is handed out
  BufferMax,  \* _BUFFER_MAX_LEN
  MaxFaults   \* bound: restarts, lost sockets, unanswered posts, expiries

ASSUME StreamAssumption ==
  /\ MaxRuns \in Nat /\ MaxFaults \in Nat
  /\ Plans \subseteq [lines : [1..MaxRuns -> [Stream -> Nat]], runs : 0..MaxRuns]
  /\ BufferMax \in Nat \ {0}

VARIABLES
  plan,      \* the bounds chosen
  settled,   \* the row's status is terminal
  started,   \* runs handed out so far
  seq,       \* seq[r]: the counter of run r's chunk sender
  reader,    \* reader[r][s]: the goroutine that reads pipe s of run r
  posts,     \* chunk requests at the server
  owed,      \* a result is committed and its done not yet published
  buffer,    \* the Redis list
  socket,    \* the server's end of the viewer's WebSocket
  wire,      \* what it has sent and the browser not yet read
  viewer,    \* the browser: lines shown, lastSeqRef, done
  faults,    \* history: faults so far
  gap,       \* history: something was published between replay and subscribe
  top,       \* history: the highest seq published
  disorder,  \* history: a chunk was published with a seq no higher than top
  raced      \* history: both readers of a run were at its counter at once

agentVars  == <<started, seq, reader>>
viewerVars == <<socket, wire, viewer>>
history    == <<faults, gap, top, disorder, raced>>
vars == <<plan, settled, agentVars, posts, owed, buffer, viewerVars, history>>

RunId   == 1..MaxRuns
Chunk   == [event : {"chunk"}, run : RunId, stream : Stream, line : Nat, seq : Nat]
DoneMsg == [event |-> "done"]
Message == Chunk \union {DoneMsg}

Reader == [line : Nat, at : {"reading", "counting", "counted", "posting"},
           saw : Nat]
Post   == [chunk : Chunk, checked : BOOLEAN]
Socket == [at : {"none", "accepted", "replayed", "live", "closing"},
           settled : BOOLEAN]
NoSocket == [at |-> "none", settled |-> FALSE]

Init ==
  /\ plan \in Plans
  /\ settled = FALSE
  /\ started = 0
  /\ seq = [r \in RunId |-> 0]
  /\ reader = [r \in RunId |->
       [s \in Stream |-> [line |-> 0, at |-> "reading", saw |-> 0]]]
  /\ posts = {}
  /\ owed = FALSE
  /\ buffer = <<>>
  /\ socket = NoSocket
  /\ wire = <<>>
  /\ viewer = [lines |-> <<>>, last |-> -1, done |-> FALSE]
  /\ faults = 0
  /\ gap = FALSE
  /\ top = 0
  /\ disorder = FALSE
  /\ raced = FALSE

Fault == faults < MaxFaults /\ faults' = faults + 1

-----------------------------------------------------------------------------
(* The agent: executeTask's chunk sender, called by both readers of exec.go. *)

\* The first claim, or one after the watchdog took the task back; an earlier
\* run may still be going.
HandOut ==
  /\ ~ settled
  /\ started < plan.runs
  /\ started' = started + 1
  /\ UNCHANGED <<settled, seq, reader, posts, owed, buffer, viewerVars, history>>

\* seq++ is not atomic: a load, then a store.
CountLine(r, s) ==
  /\ r <= started
  /\ reader[r][s].at = "reading"
  /\ reader[r][s].line < plan.lines[r][s]
  /\ reader' = [reader EXCEPT ![r][s] =
                  [line |-> reader[r][s].line, at |-> "counting", saw |-> seq[r]]]
  /\ UNCHANGED <<settled, started, seq, posts, owed, buffer, viewerVars, history>>

StoreCount(r, s) ==
  LET n == reader[r][s].saw + 1
  IN  /\ reader[r][s].at = "counting"
      /\ seq' = [seq EXCEPT ![r] = n]
      /\ reader' = [reader EXCEPT ![r][s] =
                      [line |-> reader[r][s].line + 1, at |-> "counted", saw |-> 0]]
      /\ raced' = (raced \/ seq[r] # reader[r][s].saw)
      /\ UNCHANGED <<settled, started, posts, owed, buffer, viewerVars, faults, gap, top, disorder>>

\* The payload reads the counter again, which the other reader may have moved.
PostLine(r, s) ==
  LET c == [event |-> "chunk", run |-> r, stream |-> s,
            line |-> reader[r][s].line, seq |-> seq[r]]
  IN  /\ reader[r][s].at = "counted"
      /\ posts' = posts \union {[chunk |-> c, checked |-> FALSE]}
      /\ reader' = [reader EXCEPT ![r][s].at = "posting"]
      /\ UNCHANGED <<settled, started, seq, owed, buffer, viewerVars, history>>

\* The post fails or its answer does not come within the client's timeout;
\* in the second case the server may still be at work on it.
Unanswered(r, s) ==
  /\ Fault
  /\ reader[r][s].at = "posting"
  /\ reader' = [reader EXCEPT ![r][s].at = "reading"]
  /\ \/ UNCHANGED posts
     \/ posts' = {p \in posts : ~ (p.chunk.run = r /\ p.chunk.stream = s
                                   /\ p.chunk.line = reader[r][s].line)}
  /\ UNCHANGED <<settled, started, seq, owed, buffer, viewerVars, gap, top, disorder, raced>>

Answered(c) ==
  reader' = [reader EXCEPT ![c.run][c.stream].at =
               IF @ = "posting" /\ reader[c.run][c.stream].line = c.line
               THEN "reading" ELSE @]

-----------------------------------------------------------------------------
(* The server: submit_chunk, submit_result and publish_chunk.              *)

\* LTRIM key -5000 -1
Kept(b) == SubSeq(b, IF Len(b) > BufferMax THEN Len(b) - BufferMax + 1 ELSE 1,
                  Len(b))

\* RPUSH, LTRIM, EXPIRE and PUBLISH in one pipeline.  A subscribed socket
\* forwards the message, and closes after a done.
Publish(m) ==
  /\ buffer' = Kept(Append(buffer, m))
  /\ IF socket.at = "live"
     THEN /\ wire' = Append(wire, m)
          /\ socket' = IF m = DoneMsg THEN [socket EXCEPT !.at = "closing"] ELSE socket
     ELSE UNCHANGED <<wire, socket>>
  /\ gap' = (gap \/ socket.at = "replayed")
  /\ UNCHANGED viewer

\* A chunk for a finished task is dropped.
CheckChunk(p) ==
  /\ ~ p.checked
  /\ \/ /\ settled
        /\ posts' = posts \ {p}
        /\ Answered(p.chunk)
     \/ /\ ~ settled
        /\ posts' = (posts \ {p}) \union {[p EXCEPT !.checked = TRUE]}
        /\ UNCHANGED reader
  /\ UNCHANGED <<settled, started, seq, owed, buffer, viewerVars, history>>

PublishChunk(p) ==
  /\ p.checked
  /\ Publish(p.chunk)
  /\ posts' = posts \ {p}
  /\ Answered(p.chunk)
  /\ disorder' = (disorder \/ p.chunk.seq <= top)
  /\ top' = IF p.chunk.seq > top THEN p.chunk.seq ELSE top
  /\ UNCHANGED <<settled, started, seq, owed, faults, raced>>

\* The runner returns once both readers have; the commit settles the row.  That
\* the status is checked before is TaskLifecycle's: here a second end of the
\* task would only announce its done again.
CommitResult(r) ==
  /\ ~ settled
  /\ r <= started
  /\ \A s \in Stream : reader[r][s].at = "reading"
  /\ settled' = TRUE
  /\ owed' = TRUE
  /\ UNCHANGED <<agentVars, posts, buffer, viewerVars, history>>

AnnounceDone ==
  /\ owed
  /\ Publish(DoneMsg)
  /\ owed' = FALSE
  /\ UNCHANGED <<settled, agentVars, posts, faults, top, disorder, raced>>

\* cancel_task, or the watchdog giving the task up.
SettleSilently ==
  /\ ~ settled
  /\ settled' = TRUE
  /\ UNCHANGED <<agentVars, posts, owed, buffer, viewerVars, history>>

\* An hour without a publish.
ExpireBuffer ==
  /\ Fault
  /\ buffer # <<>>
  /\ socket.at \notin {"accepted", "replayed"}
  /\ buffer' = <<>>
  /\ UNCHANGED <<settled, agentVars, posts, owed, viewerVars, gap, top, disorder, raced>>

ServerRestart ==
  /\ Fault
  /\ posts' = {}
  /\ reader' = [r \in RunId |-> [s \in Stream |->
       [reader[r][s] EXCEPT !.at = IF @ = "posting" THEN "reading" ELSE @]]]
  /\ owed' = FALSE
  /\ socket' = NoSocket
  /\ wire' = <<>>
  /\ UNCHANGED <<settled, started, seq, buffer, viewer, gap, top, disorder, raced>>

-----------------------------------------------------------------------------
(* The WebSocket handler and the browser.                                  *)

\* The handler reads the row, then accepts.
Connect ==
  /\ socket.at = "none"
  /\ ~ viewer.done
  /\ socket' = [at |-> "accepted", settled |-> settled]
  /\ UNCHANGED <<settled, agentVars, posts, owed, buffer, wire, viewer, history>>

\* mutant: LRANGE key 1 -1
ReplayButFirst ==
  /\ socket.at = "accepted"
  /\ IF socket.settled
     THEN /\ wire' = Append(wire \o SubSeq(buffer, 2, Len(buffer)), DoneMsg)
          /\ socket' = [socket EXCEPT !.at = "closing"]
     ELSE /\ wire' = wire \o SubSeq(buffer, 2, Len(buffer))
          /\ socket' = [socket EXCEPT !.at = "replayed"]
  /\ UNCHANGED <<settled, agentVars, posts, owed, buffer, viewer, history>>

\* mutant: no done marker for a row that is already terminal
ReplayNoMarker ==
  /\ socket.at = "accepted"
  /\ wire' = wire \o buffer
  /\ socket' = [socket EXCEPT !.at = "replayed"]
  /\ UNCHANGED <<settled, agentVars, posts, owed, buffer, viewer, history>>

\* The buffered messages, and a done of its own if the row was terminal when
\* it was read.
Replay ==
  /\ socket.at = "accepted"
  /\ \/ /\ socket.settled
        /\ wire' = Append(wire \o buffer, DoneMsg)
        /\ socket' = [socket EXCEPT !.at = "closing"]
     \/ /\ ~ socket.settled
        /\ wire' = wire \o buffer
        /\ socket' = [socket EXCEPT !.at = "replayed"]
  /\ UNCHANGED <<settled, agentVars, posts, owed, buffer, viewer, history>>

Subscribe ==
  /\ socket.at = "replayed"
  /\ socket' = [socket EXCEPT !.at = "live"]
  /\ UNCHANGED <<settled, agentVars, posts, owed, buffer, wire, viewer, history>>

\* mutant: only a repetition of the last line is dropped
SeenLast(c) == c.seq = viewer.last

Seen(c) == c.seq <= viewer.last

Receive ==
  /\ wire # <<>>
  /\ wire' = Tail(wire)
  /\ LET m == Head(wire)
     IN  viewer' =
           IF m = DoneMsg THEN [viewer EXCEPT !.done = TRUE]
           ELSE IF Seen(m) THEN viewer
           ELSE [viewer EXCEPT !.lines = Append(@, m), !.last = m.seq]
  /\ UNCHANGED <<settled, agentVars, posts, owed, buffer, socket, history>>

CloseSocket ==
  /\ socket.at = "closing"
  /\ wire = <<>>
  /\ socket' = NoSocket
  /\ UNCHANGED <<settled, agentVars, posts, owed, buffer, wire, viewer, history>>

LoseSocket ==
  /\ Fault
  /\ socket.at # "none"
  /\ socket' = NoSocket
  /\ wire' = <<>>
  /\ UNCHANGED <<settled, agentVars, posts, owed, buffer, viewer, gap, top, disorder, raced>>

-----------------------------------------------------------------------------
Agent ==
  \/ HandOut
  \/ \E r \in RunId : CommitResult(r)
  \/ \E r \in RunId, s \in Stream :
       CountLine(r, s) \/ StoreCount(r, s) \/ PostLine(r, s)
         \/ Unanswered(r, s)

Server ==
  \/ \E p \in posts : CheckChunk(p) \/ PublishChunk(p)
  \/ AnnounceDone \/ SettleSilently \/ ExpireBuffer \/ ServerRestart

Watch == Connect \/ Replay \/ Subscribe \/ Receive \/ CloseSocket

Next == (Agent \/ Server \/ Watch \/ LoseSocket) /\ UNCHANGED plan

Spec == Init /\ [][Next]_vars

\* The server's coroutines and the browser's event loop run on, and the hook
\* reconnects.
Fairness ==
  /\ WF_vars(AnnounceDone /\ UNCHANGED plan)
  /\ WF_vars(Watch /\ UNCHANGED plan)

FairSpec == Spec /\ Fairness

-----------------------------------------------------------------------------
(* Properties.                                                             *)

(* Every variable has its type. *)
TypeOK ==
  /\ plan \in Plans
  /\ settled \in BOOLEAN /\ owed \in BOOLEAN
  /\ started \in 0..MaxRuns
  /\ seq \in [RunId -> Nat]
  /\ reader \in [RunId -> [Stream -> Reader]]
  /\ posts \subseteq Post
  /\ buffer \in Seq(Message) /\ Len(buffer) <= BufferMax
  /\ socket \in Socket
  /\ wire \in Seq(Message)
  /\ viewer \in [lines : Seq(Chunk), last : Int, done : BOOLEAN]
  /\ faults \in 0..MaxFaults /\ top \in Nat
  /\ gap \in BOOLEAN /\ disorder \in BOOLEAN /\ raced \in BOOLEAN

(* No line is shown twice, and the lines of one pipe of one run in the      *)
(* order the process wrote them, whatever is replayed after however many    *)
(* lost sockets and restarts, and also when a post that timed out is        *)
(* published late; only if both readers of a run have been at its counter   *)
(* at once may a later line be shown first (useTaskStream.ts:34-35, :100,   *)
(* main.go:281).                                                            *)
LinesInOrder ==
  \A i, j \in DOMAIN viewer.lines :
    LET c == viewer.lines[i]
        d == viewer.lines[j]
    IN  i < j /\ c.run = d.run /\ c.stream = d.stream =>
          c.line # d.line /\ (~ raced => c.line < d.line)

(* Once a socket has caught up the viewer has every line of the buffer,     *)
(* unless something was published between a replay and its subscription or  *)
(* chunks were published out of order (task_live.py:72-86).                 *)
NothingElseIsMissed ==
  ~ gap /\ ~ disorder /\ socket.at = "live" /\ wire = <<>>
    => \A i \in DOMAIN buffer :
         buffer[i] # DoneMsg => Contains(viewer.lines, buffer[i])

\* As many late chunks as the buffer holds, posted before the result was
\* committed, leave no room for the done.
PushedOut == ~ owed /\ Len(buffer) = BufferMax /\ ~ Contains(buffer, DoneMsg)

(* After a result every viewer hears that the task is done, through lost    *)
(* sockets and a restart between the commit and the publication; only the   *)
(* gap between replay and subscription, or late chunks that fill the whole  *)
(* buffer, can keep it from that (task_live.py:78-86).                      *)
ResultReachesViewer == owed ~> viewer.done \/ gap \/ PushedOut

-----------------------------------------------------------------------------
(* Refinement: what the agent's readers have sent off is written, what the  *)
(* server's row says has ended, what the page keeps is on the screen.       *)

Screen(lines) ==
  [i \in DOMAIN lines |-> [run |-> lines[i].run, stream |-> lines[i].stream,
                           line |-> lines[i].line]]

Promise == INSTANCE Inbox WITH
  Run     <- RunId,
  written <- [r \in RunId |-> [s \in Stream |-> reader[r][s].line]],
  mixed   <- raced,
  ended   <- settled,
  screen  <- Screen(viewer.lines),
  done    <- viewer.done

(* Whatever is lost, repeated, late or restarted between the agent and the  *)
(* screen, a viewer sees what Inbox promises: lines that were written, none *)
(* twice, none taken back, a pipe's in order unless the readers raced, and  *)
(* no end before the task's (main.go:273-281, pubsub.py:40-48,              *)
(* task_live.py:52-94, useTaskStream.ts:95-107).                            *)
ImplementsInbox == Promise!Spec

-----------------------------------------------------------------------------
(* What the source says of the stream and the interleavings refute.        *)

(* ARCHITECTURE.md:88-90: the socket backfills and then forwards, so a      *)
(* viewer that has caught up has every buffered line.                       *)
NothingIsMissed ==
  socket.at = "live" /\ wire = <<>> /\ ~ disorder
    => \A i \in DOMAIN buffer :
         buffer[i] # DoneMsg => Contains(viewer.lines, buffer[i])

=============================================================================
