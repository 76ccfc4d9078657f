--------------------------- MODULE LiveStreamProofs ---------------------------
(* Proofs about LiveStream, for any pipes, runs, lines, faults and size of  *)
(* the buffer.                                                              *)
EXTENDS LiveStream, SequenceTheorems, TLAPS

-----------------------------------------------------------------------------
(* Sequences of messages.                                                   *)

In(s)     == {s[i] : i \in 1..Len(s)}
Chunks(s) == In(s) \ {DoneMsg}

\* The chunks of s, in whatever place, have rising numbers.
Sorted(s) ==
  \A i, j \in 1..Len(s) :
    i < j /\ s[i] # DoneMsg /\ s[j] # DoneMsg => s[i].seq < s[j].seq

LEMMA ChunkNotDone == \A c \in Chunk : c \in Message /\ c # DoneMsg
  BY DEF Chunk, DoneMsg, Message

LEMMA DoneIsMessage == DoneMsg \in Message
  BY DEF Message

LEMMA ChunksAreChunks == \A s \in Seq(Message) : Chunks(s) \subseteq Chunk
  BY DEF Chunks, In, Message

LEMMA EmptyIn == In(<<>>) = {} /\ Chunks(<<>>) = {} /\ Sorted(<<>>) /\ <<>> \in Seq(Message)
  BY DEF In, Chunks, Sorted

LEMMA AppendIn ==
  ASSUME NEW s \in Seq(Message), NEW m \in Message
  PROVE  /\ Append(s, m) \in Seq(Message)
         /\ Len(Append(s, m)) = Len(s) + 1
         /\ In(Append(s, m)) = In(s) \union {m}
         /\ (Sorted(s) /\ (m # DoneMsg => \A x \in Chunks(s) : x.seq < m.seq))
              => Sorted(Append(s, m))
<1> DEFINE t == Append(s, m)
<1>1. /\ t \in Seq(Message) /\ Len(t) = Len(s) + 1
      /\ \A i \in 1..Len(s) : t[i] = s[i]
      /\ t[Len(s) + 1] = m
  BY AppendProperties
<1>2. Len(s) \in Nat
  BY LenProperties
<1> HIDE DEF t
<1>3. In(t) = In(s) \union {m}
  BY <1>1, <1>2 DEF In
<1>4. ASSUME Sorted(s), m # DoneMsg => \A x \in Chunks(s) : x.seq < m.seq,
             NEW i \in 1..Len(t), NEW j \in 1..Len(t), i < j, t[i] # DoneMsg, t[j] # DoneMsg
      PROVE  t[i].seq < t[j].seq
  <2>1. i \in 1..Len(s) /\ t[i] = s[i] /\ s[i] \in Chunks(s)
    BY <1>1, <1>2, <1>4 DEF Chunks, In
  <2>2. CASE j \in 1..Len(s)
    BY <1>1, <1>4, <2>1, <2>2 DEF Sorted
  <2>3. CASE j = Len(s) + 1
    BY <1>1, <1>4, <2>1, <2>3
  <2> QED BY <1>1, <1>2, <2>2, <2>3
<1>5. Sorted(s) /\ (m # DoneMsg => \A x \in Chunks(s) : x.seq < m.seq) => Sorted(t)
  BY <1>4 DEF Sorted
<1> QED BY <1>1, <1>3, <1>5 DEF t

LEMMA TailIn ==
  ASSUME NEW s \in Seq(Message), s # <<>>
  PROVE  /\ Head(s) \in Message /\ Tail(s) \in Seq(Message)
         /\ In(s) = {Head(s)} \union In(Tail(s))
         /\ Sorted(s) => /\ Sorted(Tail(s))
                         /\ Head(s) # DoneMsg =>
                              \A x \in Chunks(Tail(s)) : Head(s).seq < x.seq
<1> DEFINE t == Tail(s)
           h == Head(s)
<1>1. /\ h \in Message /\ t \in Seq(Message) /\ Len(t) = Len(s) - 1
      /\ \A i \in 1..Len(t) : t[i] = s[i + 1]
  BY HeadTailProperties
<1>2. Len(s) \in Nat /\ Len(s) >= 1 /\ h = s[1]
  BY EmptySeq, LenProperties
<1> HIDE DEF t, h
<1>3. In(s) = {h} \union In(t)
  <2>1. \A i \in 1..Len(s) : i = 1 \/ (i - 1 \in 1..Len(t) /\ s[i] = t[i - 1])
    BY <1>1, <1>2
  <2>2. In(s) \subseteq {h} \union In(t)
    BY <2>1, <1>2 DEF In
  <2>3. \A i \in 1..Len(t) : i + 1 \in 1..Len(s) /\ t[i] = s[i + 1]
    BY <1>1, <1>2
  <2>4. {h} \union In(t) \subseteq In(s)
    BY <2>3, <1>2 DEF In
  <2> QED BY <2>2, <2>4
<1>4. ASSUME Sorted(s) PROVE Sorted(t)
  <2> SUFFICES ASSUME NEW i \in 1..Len(t), NEW j \in 1..Len(t), i < j,
                      t[i] # DoneMsg, t[j] # DoneMsg
               PROVE  t[i].seq < t[j].seq
    BY DEF Sorted
  <2>1. i + 1 \in 1..Len(s) /\ j + 1 \in 1..Len(s) /\ i + 1 < j + 1
    BY <1>1, <1>2
  <2> QED BY <1>1, <1>4, <2>1 DEF Sorted
<1>5. ASSUME Sorted(s), h # DoneMsg, NEW x \in Chunks(t) PROVE h.seq < x.seq
  <2>1. PICK i \in 1..Len(t) : x = t[i] /\ x # DoneMsg
    BY <1>5 DEF Chunks, In
  <2>2. 1 \in 1..Len(s) /\ i + 1 \in 1..Len(s) /\ 1 < i + 1 /\ x = s[i + 1]
    BY <1>1, <1>2, <2>1
  <2> QED BY <1>2, <1>5, <2>1, <2>2 DEF Sorted
<1> QED BY <1>1, <1>3, <1>4, <1>5 DEF t, h

(* LTRIM keeps a suffix.                                                    *)
LEMMA KeptIn ==
  ASSUME NEW s \in Seq(Message)
  PROVE  /\ Kept(s) \in Seq(Message) /\ Len(Kept(s)) <= BufferMax
         /\ In(Kept(s)) \subseteq In(s)
         /\ Sorted(s) => Sorted(Kept(s))
<1> DEFINE n == Len(s)
           k == IF n > BufferMax THEN n - BufferMax + 1 ELSE 1
           t == SubSeq(s, k, n)
<1>1. n \in Nat /\ BufferMax \in Nat \ {0} /\ k \in 1..(n + 1)
  BY LenProperties, StreamAssumption
<1>2. \A i \in k..n : s[i] \in Message
  BY <1>1, ElementOfSeq
<1>3. /\ t \in Seq(Message)
      /\ Len(t) = IF k <= n THEN n - k + 1 ELSE 0
      /\ \A i \in 1..(n - k + 1) : t[i] = s[k + i - 1]
  BY <1>1, <1>2, SubSeqProperties
<1>4. Kept(s) = t
  BY DEF Kept
<1>5. Len(t) <= BufferMax
  BY <1>1, <1>3
<1>6. \A i \in 1..Len(t) : k + i - 1 \in 1..n /\ t[i] = s[k + i - 1]
  BY <1>1, <1>3
<1> HIDE DEF t, k
<1>7. In(t) \subseteq In(s)
  BY <1>6 DEF In
<1>8. ASSUME Sorted(s) PROVE Sorted(t)
  <2> SUFFICES ASSUME NEW i \in 1..Len(t), NEW j \in 1..Len(t), i < j,
                      t[i] # DoneMsg, t[j] # DoneMsg
               PROVE  t[i].seq < t[j].seq
    BY DEF Sorted
  <2>1. k + i - 1 < k + j - 1
    BY <1>1
  <2> QED BY <1>6, <1>8, <2>1 DEF Sorted
<1> QED BY <1>3, <1>4, <1>5, <1>7, <1>8

-----------------------------------------------------------------------------
(* Types.                                                                   *)

(* A socket that has not replayed yet has sent nothing.                     *)
NothingSent == socket.at \in {"none", "accepted"} => wire = <<>>

TInv == TypeOK /\ NothingSent

LEMMA SocketAt == \A k \in Socket : k = [at |-> k.at, settled |-> k.settled]
  BY DEF Socket

LEMMA PublishTyped ==
  ASSUME TInv, NEW m \in Message, Publish(m)
  PROVE  /\ buffer' \in Seq(Message) /\ Len(buffer') <= BufferMax
         /\ socket' \in Socket /\ wire' \in Seq(Message)
         /\ viewer' = viewer /\ gap' \in BOOLEAN
         /\ NothingSent'
<1>1. Append(buffer, m) \in Seq(Message) /\ Append(wire, m) \in Seq(Message)
  BY AppendIn DEF TInv, TypeOK
<1>2. buffer' \in Seq(Message) /\ Len(buffer') <= BufferMax
  BY <1>1, KeptIn DEF Publish
<1>3. gap' \in BOOLEAN
  BY Zenon DEF Publish, TInv, TypeOK
<1>4. socket' \in Socket /\ wire' \in Seq(Message) /\ NothingSent'
  <2>1. CASE socket.at = "live"
    <3>1. socket' \in {socket, [socket EXCEPT !.at = "closing"]} /\ wire' = Append(wire, m)
      BY <2>1 DEF Publish
    <3>2. socket' \in Socket /\ socket'.at \in {"live", "closing"}
      BY <2>1, <3>1 DEF TInv, TypeOK, Socket
    <3> QED BY <1>1, <3>1, <3>2 DEF NothingSent
  <2>2. CASE socket.at # "live"
    BY <2>2 DEF Publish, TInv, TypeOK, NothingSent
  <2> QED BY <2>1, <2>2
<1> QED BY <1>2, <1>3, <1>4 DEF Publish

LEMMA ReaderMoves ==
  ASSUME TypeOK, NEW r \in RunId, NEW s \in Stream, NEW f \in Reader,
         reader' = [reader EXCEPT ![r][s] = f]
  PROVE  /\ reader' \in [RunId -> [Stream -> Reader]]
         /\ \A q \in RunId, t \in Stream :
              reader'[q][t] = IF q = r /\ t = s THEN f ELSE reader[q][t]
<1>1. reader \in [RunId -> [Stream -> Reader]]
  BY DEF TypeOK
<1> DEFINE g == [reader[r] EXCEPT ![s] = f]
<1>2. g \in [Stream -> Reader] /\ \A t \in Stream : g[t] = IF t = s THEN f ELSE reader[r][t]
  BY <1>1
<1>3. reader' = [reader EXCEPT ![r] = g]
  OBVIOUS
<1> HIDE DEF g
<1> QED BY <1>1, <1>2, <1>3

\* No reader has read a line or counted one.
SameLines ==
  \A q \in RunId, t \in Stream :
    /\ reader'[q][t].line = reader[q][t].line
    /\ reader'[q][t].at = "counted" => reader[q][t].at = "counted"

LEMMA ReaderStops ==
  ASSUME NEW r \in RunId, NEW s \in Stream,
         NEW a \in {"reading", "counting", "counted", "posting"},
         a = "counted" => reader[r][s].at = "counted"
  PROVE  TypeOK /\ reader' = [reader EXCEPT ![r][s].at = a]
           => reader' \in [RunId -> [Stream -> Reader]] /\ SameLines
<1>1. ASSUME TypeOK, reader' = [reader EXCEPT ![r][s].at = a]
      PROVE  reader' \in [RunId -> [Stream -> Reader]] /\ SameLines
  <2> DEFINE f == [reader[r][s] EXCEPT !.at = a]
  <2>0. TypeOK
    BY <1>1
  <2>1. reader[r][s] \in Reader
    BY <2>0 DEF TypeOK
  <2>2. f \in Reader /\ f.line = reader[r][s].line /\ f.at = a
    BY <2>1 DEF Reader
  <2>3. reader' = [reader EXCEPT ![r][s] = f]
    BY <1>1
  <2> HIDE DEF f
  <2>f. f \in Reader
    BY <2>2
  <2>4. \A q \in RunId, t \in Stream :
          reader'[q][t] = IF q = r /\ t = s THEN f ELSE reader[q][t]
    BY <2>0, <2>f, <2>3, ReaderMoves
  <2>5. ASSUME NEW q \in RunId, NEW t \in Stream
        PROVE  /\ reader'[q][t].line = reader[q][t].line
               /\ reader'[q][t].at = "counted" => reader[q][t].at = "counted"
    <3>1. reader'[q][t] = IF q = r /\ t = s THEN f ELSE reader[q][t]
      BY <2>4
    <3>2. CASE q = r /\ t = s
      <4>1. reader'[q][t] = f
        BY <3>1, <3>2
      <4> QED BY <2>2, <3>2, <4>1
    <3>3. CASE ~ (q = r /\ t = s)
      <4>1. reader'[q][t] = reader[q][t]
        BY <3>1, <3>3
      <4> QED BY <4>1
    <3> QED BY <3>2, <3>3
  <2>6. SameLines
    BY <2>5 DEF SameLines
  <2>7. reader' \in [RunId -> [Stream -> Reader]]
    BY <2>0, <2>f, <2>3, ReaderMoves
  <2> QED BY <2>6, <2>7
<1> QED BY <1>1

LEMMA AnsweredTyped ==
  ASSUME TypeOK, NEW c \in Chunk, Answered(c)
  PROVE  reader' \in [RunId -> [Stream -> Reader]] /\ SameLines
<1>1. c.run \in RunId /\ c.stream \in Stream
  BY DEF Chunk
<1>2. reader[c.run][c.stream] \in Reader
  BY <1>1 DEF TypeOK
<1> DEFINE was == reader[c.run][c.stream].at
           a == IF was = "posting" /\ reader[c.run][c.stream].line = c.line
                THEN "reading" ELSE was
<1>3. a \in {"reading", "counting", "counted", "posting"}
      /\ (a = "counted" => reader[c.run][c.stream].at = "counted")
  BY <1>2 DEF Reader
<1>4. reader' = [reader EXCEPT ![c.run][c.stream].at = a]
  BY DEF Answered
<1> HIDE DEF a
<1> QED BY <1>1, <1>3, <1>4, ReaderStops

LEMMA AgentTyped == TInv /\ Agent /\ UNCHANGED plan => TInv'
<1> SUFFICES ASSUME TInv, Agent, UNCHANGED plan PROVE TInv'
  OBVIOUS
<1> USE DEF TInv
<1>1. UNCHANGED <<buffer, socket, wire, viewer>>
  BY DEF Agent, HandOut, CommitResult, CountLine, StoreCount, PostLine, Unanswered,
         viewerVars
<1>2. ASSUME HandOut PROVE TInv'
  <2>1. plan.runs \in 0..MaxRuns
    BY StreamAssumption DEF TypeOK
  <2>2. started' \in 0..MaxRuns
    BY <1>2, <2>1, StreamAssumption DEF HandOut, TypeOK
  <2> QED BY <1>1, <1>2, <2>2 DEF HandOut, TypeOK, NothingSent, history
<1>3. ASSUME NEW r \in RunId, CommitResult(r) PROVE TInv'
  <2>1. owed' \in BOOLEAN /\ settled' \in BOOLEAN
    BY <1>3 DEF CommitResult
  <2> QED BY <1>1, <1>3, <2>1 DEF CommitResult, TypeOK, NothingSent, history, agentVars
<1>4. ASSUME NEW r \in RunId, NEW s \in Stream, CountLine(r, s) PROVE TInv'
  <2> DEFINE f == [line |-> reader[r][s].line, at |-> "counting", saw |-> seq[r]]
  <2>0. f \in Reader /\ reader' = [reader EXCEPT ![r][s] = f]
    <3>1. reader[r][s] \in Reader /\ seq[r] \in Nat
      BY DEF TypeOK
    <3>2. f \in Reader
      BY <3>1 DEF Reader
    <3> QED BY <1>4, <3>2 DEF CountLine
  <2> HIDE DEF f
  <2>1. reader' \in [RunId -> [Stream -> Reader]]
    BY <2>0, ReaderMoves
  <2> QED BY <1>1, <1>4, <2>1 DEF CountLine, TypeOK, NothingSent, history
<1>5. ASSUME NEW r \in RunId, NEW s \in Stream, StoreCount(r, s) PROVE TInv'
  <2> DEFINE n == reader[r][s].saw + 1
             f == [line |-> reader[r][s].line + 1, at |-> "counted", saw |-> 0]
  <2>0. f \in Reader /\ reader' = [reader EXCEPT ![r][s] = f]
    <3>1. reader[r][s] \in Reader
      BY DEF TypeOK
    <3>2. f \in Reader
      BY <3>1 DEF Reader
    <3> QED BY <1>5, <3>2 DEF StoreCount
  <2>1. n \in Nat
    BY DEF TypeOK, Reader
  <2>2. seq' \in [RunId -> Nat]
    BY <1>5, <2>1 DEF StoreCount, TypeOK
  <2> HIDE DEF f, n
  <2>3. reader' \in [RunId -> [Stream -> Reader]]
    BY <2>0, ReaderMoves
  <2>4. raced' \in BOOLEAN
    BY <1>5, Zenon DEF StoreCount, TypeOK
  <2> QED BY <1>1, <1>5, <2>2, <2>3, <2>4 DEF StoreCount, TypeOK, NothingSent
<1>7. ASSUME NEW r \in RunId, NEW s \in Stream, PostLine(r, s) PROVE TInv'
  <2> DEFINE c == [event |-> "chunk", run |-> r, stream |-> s,
                   line |-> reader[r][s].line, seq |-> seq[r]]
  <2>1. c \in Chunk
    BY DEF TypeOK, Reader, Chunk
  <2>2. reader' \in [RunId -> [Stream -> Reader]]
    <3>1. reader' = [reader EXCEPT ![r][s].at = "posting"]
      BY <1>7 DEF PostLine
    <3> QED BY <3>1, ReaderStops
  <2>3. posts' \subseteq Post
    <3>1. posts' = posts \union {[chunk |-> c, checked |-> FALSE]}
      BY <1>7 DEF PostLine
    <3> HIDE DEF c
    <3>2. [chunk |-> c, checked |-> FALSE] \in Post
      BY <2>1 DEF Post
    <3> QED BY <3>1, <3>2 DEF TypeOK
  <2> QED BY <1>1, <1>7, <2>2, <2>3 DEF PostLine, TypeOK, NothingSent, history
<1>6. ASSUME NEW r \in RunId, NEW s \in Stream, Unanswered(r, s) PROVE TInv'
  <2>1. reader' \in [RunId -> [Stream -> Reader]]
    <3>1. reader' = [reader EXCEPT ![r][s].at = "reading"]
      BY <1>6 DEF Unanswered
    <3> QED BY <3>1, ReaderStops
  <2>2. posts' \subseteq Post /\ faults' \in 0..MaxFaults
    BY <1>6, StreamAssumption DEF Unanswered, TypeOK, Fault
  <2> QED BY <1>1, <1>6, <2>1, <2>2 DEF Unanswered, TypeOK, NothingSent
<1> QED BY <1>2, <1>3, <1>4, <1>5, <1>6, <1>7 DEF Agent

LEMMA ServerTyped == TInv /\ Server /\ UNCHANGED plan => TInv'
<1> SUFFICES ASSUME TInv, Server, UNCHANGED plan PROVE TInv'
  OBVIOUS
<1> USE DEF TInv
<1>1. ASSUME NEW p \in posts, CheckChunk(p) PROVE TInv'
  <2>1. p \in Post /\ p.chunk \in Chunk
    BY DEF TypeOK, Post
  <2>2. reader' \in [RunId -> [Stream -> Reader]]
    BY <1>1, <2>1, AnsweredTyped DEF CheckChunk, TypeOK
  <2>3. posts' \subseteq Post
    <3>1. [p EXCEPT !.checked = TRUE] \in Post
      BY <2>1 DEF Post
    <3> QED BY <1>1, <3>1 DEF CheckChunk, TypeOK
  <2> QED BY <1>1, <2>2, <2>3 DEF CheckChunk, TypeOK, NothingSent, viewerVars, history
<1>2. ASSUME NEW p \in posts, PublishChunk(p) PROVE TInv'
  <2>1. p \in Post /\ p.chunk \in Chunk /\ p.chunk \in Message /\ p.chunk.seq \in Nat
    BY ChunkNotDone DEF TypeOK, Post, Chunk
  <2>2. reader' \in [RunId -> [Stream -> Reader]]
    BY <1>2, <2>1, AnsweredTyped DEF PublishChunk
  <2>3. top' \in Nat
    BY <1>2, <2>1 DEF PublishChunk, TypeOK
  <2>4. disorder' \in BOOLEAN
    BY <1>2, Zenon DEF PublishChunk, TypeOK
  <2>5. Publish(p.chunk)
    BY <1>2 DEF PublishChunk
  <2>6. posts' \subseteq Post /\ UNCHANGED <<settled, started, seq, owed, faults, raced>>
    BY <1>2 DEF PublishChunk, TypeOK
  <2> QED BY <2>1, <2>2, <2>3, <2>4, <2>5, <2>6, PublishTyped DEF TypeOK
<1>3. ASSUME AnnounceDone PROVE TInv'
  <2>1. Publish(DoneMsg) /\ owed' = FALSE
        /\ UNCHANGED <<settled, started, seq, reader, posts, faults, top, disorder, raced>>
    BY <1>3 DEF AnnounceDone, agentVars
  <2> QED BY <2>1, DoneIsMessage, PublishTyped DEF TypeOK
<1>4. ASSUME SettleSilently PROVE TInv'
  BY <1>4 DEF SettleSilently, TypeOK, NothingSent, agentVars, viewerVars, history
<1>5. ASSUME ExpireBuffer PROVE TInv'
  <2>1. buffer' = <<>> /\ faults' \in 0..MaxFaults
    BY <1>5, StreamAssumption DEF ExpireBuffer, Fault, TypeOK
  <2>2. Len(<<>>) <= BufferMax /\ <<>> \in Seq(Message)
    BY EmptySeq, StreamAssumption
  <2> QED BY <1>5, <2>1, <2>2 DEF ExpireBuffer, TypeOK, NothingSent, agentVars, viewerVars
<1>6. ASSUME ServerRestart PROVE TInv'
  <2>1. faults' \in 0..MaxFaults
    BY <1>6, StreamAssumption DEF ServerRestart, Fault, TypeOK
  <2>2. reader' \in [RunId -> [Stream -> Reader]]
    <3>1. \A r \in RunId, s \in Stream :
            [reader[r][s] EXCEPT !.at = IF @ = "posting" THEN "reading" ELSE @] \in Reader
      <4> TAKE r \in RunId, s \in Stream
      <4>1. reader[r][s] \in Reader
        BY DEF TypeOK
      <4> QED BY <4>1 DEF Reader
    <3> QED BY <1>6, <3>1 DEF ServerRestart
  <2>3. socket' \in Socket /\ wire' = <<>> /\ wire' \in Seq(Message)
    BY <1>6, EmptySeq DEF ServerRestart, NoSocket, Socket
  <2> QED BY <1>6, <2>1, <2>2, <2>3 DEF ServerRestart, TypeOK, NothingSent
<1> QED BY <1>1, <1>2, <1>3, <1>4, <1>5, <1>6 DEF Server

LEMMA ReceiveTyped ==
  ASSUME TypeOK, Receive
  PROVE  viewer' \in [lines : Seq(Chunk), last : Int, done : BOOLEAN]
<1>1. Head(wire) \in Message
  BY TailIn DEF Receive, TypeOK
<1>2. CASE Head(wire) = DoneMsg
  BY <1>2 DEF Receive, TypeOK
<1>3. CASE Head(wire) # DoneMsg /\ Seen(Head(wire))
  BY <1>3 DEF Receive, TypeOK
<1>4. CASE Head(wire) # DoneMsg /\ ~ Seen(Head(wire))
  <2>1. Head(wire) \in Chunk /\ Head(wire).seq \in Nat
    BY <1>1, <1>4 DEF Message, Chunk
  <2>2. Append(viewer.lines, Head(wire)) \in Seq(Chunk)
    BY <2>1, AppendProperties DEF TypeOK
  <2>3. viewer' = [viewer EXCEPT !.lines = Append(viewer.lines, Head(wire)),
                                 !.last = Head(wire).seq]
    BY <1>4 DEF Receive
  <2>4. viewer \in [lines : Seq(Chunk), last : Int, done : BOOLEAN]
    BY DEF TypeOK
  <2> DEFINE a == Append(viewer.lines, Head(wire))
             n == Head(wire).seq
  <2>5. a \in Seq(Chunk) /\ n \in Int /\ viewer' = [viewer EXCEPT !.lines = a, !.last = n]
    BY <2>1, <2>2, <2>3
  <2> HIDE DEF a, n
  <2> QED BY <2>4, <2>5
<1> QED BY <1>1, <1>2, <1>3, <1>4

LEMMA WatchTyped == TInv /\ (Watch \/ LoseSocket) /\ UNCHANGED plan => TInv'
<1> SUFFICES ASSUME TInv, Watch \/ LoseSocket, UNCHANGED plan PROVE TInv'
  OBVIOUS
<1> USE DEF TInv
<1>1. ASSUME Connect PROVE TInv'
  BY <1>1 DEF Connect, TypeOK, Socket, NothingSent, agentVars, history
<1>2. ASSUME Replay PROVE TInv'
  <2>1. wire = <<>> /\ wire \o buffer = buffer
    BY <1>2, ConcatEmptySeq DEF Replay, NothingSent, TypeOK
  <2>2. wire' \in {buffer, Append(buffer, DoneMsg)}
    BY <1>2, <2>1 DEF Replay
  <2>3. wire' \in Seq(Message)
    <3>1. buffer \in Seq(Message) /\ Append(buffer, DoneMsg) \in Seq(Message)
      BY AppendIn, DoneIsMessage DEF TypeOK
    <3> QED BY <2>2, <3>1
  <2>4. socket' \in Socket /\ socket'.at \in {"closing", "replayed"}
    BY <1>2 DEF Replay, TypeOK, Socket
  <2> QED BY <1>2, <2>3, <2>4 DEF Replay, TypeOK, NothingSent, agentVars, history
<1>3. ASSUME Subscribe PROVE TInv'
  <2>1. socket' \in Socket /\ socket'.at = "live"
    BY <1>3 DEF Subscribe, TypeOK, Socket
  <2> QED BY <1>3, <2>1 DEF Subscribe, TypeOK, NothingSent, agentVars, history
<1>4. ASSUME Receive PROVE TInv'
  <2>1. wire' \in Seq(Message) /\ wire # <<>>
    BY <1>4, TailIn DEF Receive, TypeOK
  <2> QED BY <1>4, <2>1, ReceiveTyped DEF Receive, TypeOK, NothingSent, agentVars, history
<1>5. ASSUME CloseSocket PROVE TInv'
  BY <1>5 DEF CloseSocket, TypeOK, Socket, NoSocket, NothingSent, agentVars, history
<1>6. ASSUME LoseSocket PROVE TInv'
  <2>1. faults' \in 0..MaxFaults
    BY <1>6, StreamAssumption DEF LoseSocket, Fault, TypeOK
  <2>2. socket' \in Socket /\ wire' = <<>> /\ wire' \in Seq(Message)
    BY <1>6, EmptySeq DEF LoseSocket, NoSocket, Socket
  <2> QED BY <1>6, <2>1, <2>2 DEF LoseSocket, TypeOK, NothingSent, agentVars
<1> QED BY <1>1, <1>2, <1>3, <1>4, <1>5, <1>6 DEF Watch

LEMMA TypeInit == Init => TInv
<1> SUFFICES ASSUME Init PROVE TInv
  OBVIOUS
<1>1. /\ plan \in Plans /\ started \in 0..MaxRuns /\ faults \in 0..MaxFaults
      /\ seq \in [RunId -> Nat] /\ reader \in [RunId -> [Stream -> Reader]]
  BY StreamAssumption DEF Init, Reader
<1>2. buffer \in Seq(Message) /\ Len(buffer) <= BufferMax /\ wire \in Seq(Message)
  BY EmptySeq, StreamAssumption DEF Init
<1>3. viewer \in [lines : Seq(Chunk), last : Int, done : BOOLEAN] /\ socket \in Socket
  BY EmptySeq DEF Init, NoSocket, Socket
<1> QED BY <1>1, <1>2, <1>3 DEF Init, TInv, TypeOK, NothingSent

LEMMA TypeStep == TInv /\ [Next]_vars => TInv'
<1>1. ASSUME TInv, UNCHANGED vars PROVE TInv'
  BY <1>1 DEF vars, agentVars, viewerVars, history, TInv, TypeOK, NothingSent
<1> QED BY <1>1, AgentTyped, ServerTyped, WatchTyped DEF Next

-----------------------------------------------------------------------------
(* A chunk's number.                                                        *)

\* Every chunk that is anywhere between the agent and the screen.
Out == {p.chunk : p \in posts} \union Chunks(buffer) \union Chunks(wire)
       \union Chunks(viewer.lines)

SamePipe(c, d) == c.run = d.run /\ c.stream = d.stream

\* A reader has counted a line and not yet posted it.
Counted(r, s) == reader[r][s].at = "counted"

\* What is out of a pipe are lines it has read, without the one just counted.
Lines ==
  /\ \A r \in RunId, s \in Stream : Counted(r, s) => reader[r][s].line > 0
  /\ \A c \in Out : /\ 0 < c.line /\ c.line <= reader[c.run][c.stream].line
                    /\ Counted(c.run, c.stream) => c.line < reader[c.run][c.stream].line

\* The counter has not been wound back.
Upward ==
  \A c \in Out : c.seq <= seq[c.run] /\ (Counted(c.run, c.stream) => c.seq < seq[c.run])

\* The numbers of a pipe rise with its lines.
Ascending == \A c, d \in Out : SamePipe(c, d) /\ c.line < d.line => c.seq < d.seq

(* A reader numbers a line once, and unless the two readers of a run raced  *)
(* the numbers of a run rise with its lines.                                *)
Numbers ==
  /\ Lines
  /\ \A c, d \in Out : SamePipe(c, d) /\ c.line = d.line => c = d
  /\ ~ raced => Upward /\ Ascending

\* What lastSeqRef is for.
Rising ==
  /\ Sorted(viewer.lines)
  /\ \A c \in Chunks(viewer.lines) : c.seq <= viewer.last

LEMMA ShownAreMessages == TypeOK => viewer.lines \in Seq(Message)
<1> SUFFICES ASSUME TypeOK PROVE viewer.lines \in Seq(Message)
  OBVIOUS
<1>1. viewer.lines \in Seq(Chunk)
  BY DEF TypeOK
<1>2. \A i \in 1..Len(viewer.lines) : viewer.lines[i] \in Message
  BY <1>1, ElementOfSeq DEF Message
<1>3. Len(viewer.lines) \in Nat /\ viewer.lines \in [1..Len(viewer.lines) -> Chunk]
  BY <1>1, LenProperties
<1>4. viewer.lines \in [1..Len(viewer.lines) -> Message]
  BY <1>2, <1>3
<1> QED BY <1>3, <1>4, SeqDef

LEMMA OutIsChunks == TypeOK => Out \subseteq Chunk
<1> SUFFICES ASSUME TypeOK PROVE Out \subseteq Chunk
  OBVIOUS
<1>1. {p.chunk : p \in posts} \subseteq Chunk
  BY DEF TypeOK, Post
<1>2. Chunks(buffer) \subseteq Chunk /\ Chunks(wire) \subseteq Chunk
      /\ Chunks(viewer.lines) \subseteq Chunk
  BY ChunksAreChunks, ShownAreMessages DEF TypeOK
<1> QED BY <1>1, <1>2 DEF Out

\* What Numbers says of one chunk.
LEMMA LineOf ==
  ASSUME Numbers, NEW c \in Out
  PROVE  /\ 0 < c.line
         /\ c.line <= reader[c.run][c.stream].line
         /\ Counted(c.run, c.stream) => c.line < reader[c.run][c.stream].line
BY DEF Numbers, Lines

LEMMA NumbersKept ==
  ASSUME TypeOK, Numbers, Out' \subseteq Out, seq' = seq, raced' = raced, SameLines
  PROVE  Numbers'
<1>1. \A c \in Out : c.run \in RunId /\ c.stream \in Stream
  BY OutIsChunks DEF Chunk
<1>2. \A c \in Out' :
        /\ reader'[c.run][c.stream].line = reader[c.run][c.stream].line
        /\ Counted(c.run, c.stream)' => Counted(c.run, c.stream)
  BY <1>1 DEF SameLines, Counted
<1>3. Lines'
  <2>1. \A r \in RunId, s \in Stream : Counted(r, s)' => reader'[r][s].line > 0
    BY DEF SameLines, Counted, Numbers, Lines
  <2>2. ASSUME NEW c \in Out'
        PROVE  /\ 0 < c.line /\ c.line <= reader'[c.run][c.stream].line
               /\ Counted(c.run, c.stream)' => c.line < reader'[c.run][c.stream].line
    <3>1. c \in Out
      OBVIOUS
    <3> QED BY <1>2, <3>1, LineOf
  <2> QED BY <2>1, <2>2 DEF Lines, Counted
<1>4. \A c, d \in Out' : SamePipe(c, d) /\ c.line = d.line => c = d
  BY DEF Numbers
<1>5. ASSUME ~ raced' PROVE Upward' /\ Ascending'
  <2>1. ~ raced /\ Upward /\ Ascending
    BY <1>5 DEF Numbers
  <2>2. \A c \in Out' :
          c.seq <= seq'[c.run] /\ (Counted(c.run, c.stream)' => c.seq < seq'[c.run])
    BY <1>2, <2>1 DEF Upward
  <2> QED BY <2>1, <2>2 DEF Upward, Ascending, Counted, SamePipe
<1> QED BY <1>3, <1>4, <1>5 DEF Numbers, SamePipe

\* StoreCount reads a line and numbers it, and takes nothing off the way.
LEMMA StoreNumbers ==
  ASSUME TypeOK, Numbers, NEW r \in RunId, NEW s \in Stream, StoreCount(r, s)
  PROVE  Numbers'
<1> DEFINE n == reader[r][s].saw + 1
           f == [line |-> reader[r][s].line + 1, at |-> "counted", saw |-> 0]
<1>1. reader[r][s] \in Reader /\ seq[r] \in Nat
  BY DEF TypeOK
<1>2. n \in Nat /\ f \in Reader /\ f.line = reader[r][s].line + 1
  BY <1>1 DEF Reader
<1>4. /\ seq' = [seq EXCEPT ![r] = n] /\ reader' = [reader EXCEPT ![r][s] = f]
      /\ raced' = (raced \/ seq[r] # reader[r][s].saw)
      /\ UNCHANGED <<posts, buffer, wire, viewer>>
  BY DEF StoreCount, viewerVars
<1>5. ~ raced' => ~ raced /\ n = seq[r] + 1
  BY <1>4
<1> HIDE DEF f, n
<1>6. Out' = Out
  BY <1>4 DEF Out, Chunks, In
<1>7. \A q \in RunId, t \in Stream :
        reader'[q][t] = IF q = r /\ t = s THEN f ELSE reader[q][t]
  BY <1>2, <1>4, ReaderMoves
<1>8. \A q \in RunId : seq'[q] = IF q = r THEN n ELSE seq[q]
  BY <1>4 DEF TypeOK
<1>9. \A c \in Out : c.run \in RunId /\ c.stream \in Stream /\ c.line \in Nat /\ c.seq \in Nat
  BY OutIsChunks DEF Chunk
<1>10. \A q \in RunId, t \in Stream : reader[q][t].line \in Nat /\ seq[q] \in Nat
  BY DEF TypeOK, Reader
<1>11. ASSUME NEW q \in RunId, NEW t \in Stream, ~ (q = r /\ t = s)
       PROVE  /\ reader'[q][t].line = reader[q][t].line
              /\ Counted(q, t)' = Counted(q, t)
  <2>1. reader'[q][t] = reader[q][t]
    BY <1>7, <1>11
  <2> QED BY <2>1 DEF Counted
<1>12. reader'[r][s].line = reader[r][s].line + 1
  <2>1. reader'[r][s] = f
    BY <1>7
  <2> QED BY <1>2, <2>1
<1>13. Lines'
  <2>1. \A q \in RunId, t \in Stream : Counted(q, t)' => reader'[q][t].line > 0
    <3> TAKE q \in RunId, t \in Stream
    <3>1. CASE q = r /\ t = s
      BY <1>10, <1>12, <3>1
    <3>2. CASE ~ (q = r /\ t = s)
      BY <1>11, <3>2 DEF Numbers, Lines
    <3> QED BY <3>1, <3>2
  <2>2. ASSUME NEW c \in Out
        PROVE  /\ 0 < c.line /\ c.line <= reader'[c.run][c.stream].line
               /\ Counted(c.run, c.stream)' => c.line < reader'[c.run][c.stream].line
    <3>1. /\ 0 < c.line /\ c.line <= reader[c.run][c.stream].line
          /\ Counted(c.run, c.stream) => c.line < reader[c.run][c.stream].line
      BY LineOf
    <3>2. CASE c.run = r /\ c.stream = s
      BY <1>9, <1>10, <1>12, <3>1, <3>2
    <3>3. CASE ~ (c.run = r /\ c.stream = s)
      BY <1>9, <1>11, <3>1, <3>3
    <3> QED BY <3>2, <3>3
  <2> QED BY <1>6, <2>1, <2>2 DEF Lines, Counted
<1>14. \A c, d \in Out' : SamePipe(c, d) /\ c.line = d.line => c = d
  BY <1>6 DEF Numbers
<1>15. ASSUME ~ raced' PROVE Upward' /\ Ascending'
  <2>1. n = seq[r] + 1 /\ Upward /\ Ascending
    BY <1>5, <1>15 DEF Numbers
  <2>2. ASSUME NEW c \in Out
        PROVE  c.seq <= seq'[c.run] /\ (Counted(c.run, c.stream)' => c.seq < seq'[c.run])
    <3>1. c.seq <= seq[c.run] /\ (Counted(c.run, c.stream) => c.seq < seq[c.run])
      BY <2>1 DEF Upward
    <3>2. CASE c.run = r
      BY <1>8, <1>9, <1>10, <2>1, <3>1, <3>2
    <3>3. CASE c.run # r
      BY <1>8, <1>9, <1>11, <3>1, <3>3
    <3> QED BY <3>2, <3>3
  <2> QED BY <1>6, <2>1, <2>2 DEF Upward, Ascending, Counted, SamePipe
<1> QED BY <1>13, <1>14, <1>15 DEF Numbers, SamePipe

LEMMA PostNumbers ==
  ASSUME TypeOK, Numbers, NEW r \in RunId, NEW s \in Stream, PostLine(r, s)
  PROVE  Numbers'
<1> DEFINE c == [event |-> "chunk", run |-> r, stream |-> s,
                 line |-> reader[r][s].line, seq |-> seq[r]]
           new == [chunk |-> c, checked |-> FALSE]
<1>1. reader[r][s].line \in Nat /\ seq[r] \in Nat
  BY DEF TypeOK, Reader
<1>2. /\ c.run = r /\ c.stream = s /\ c.line = reader[r][s].line /\ c.seq = seq[r]
      /\ new.chunk = c
  OBVIOUS
<1>3. /\ UNCHANGED <<seq, raced, buffer, wire, viewer>>
      /\ posts' = posts \union {new}
      /\ reader' = [reader EXCEPT ![r][s].at = "posting"]
      /\ Counted(r, s)
  BY DEF PostLine, viewerVars, history, Counted
<1> HIDE DEF c, new
<1>4. Out' = Out \union {c}
  <2>1. {p.chunk : p \in posts'} = {p.chunk : p \in posts} \union {c}
    BY <1>2, <1>3
  <2>2. /\ Chunks(buffer)' = Chunks(buffer) /\ Chunks(wire)' = Chunks(wire)
        /\ Chunks(viewer.lines)' = Chunks(viewer.lines)
    BY <1>3 DEF Chunks, In
  <2> QED BY <2>1, <2>2 DEF Out
<1>5. SameLines
  BY <1>3, ReaderStops
<1>6. ~ Counted(r, s)'
  <2> DEFINE f == [reader[r][s] EXCEPT !.at = "posting"]
  <2>1. f \in Reader /\ f.at = "posting" /\ reader' = [reader EXCEPT ![r][s] = f]
    <3>1. reader[r][s] \in Reader
      BY DEF TypeOK
    <3>2. f \in Reader /\ f.at = "posting"
      BY <3>1 DEF Reader
    <3> QED BY <1>3, <3>2
  <2> HIDE DEF f
  <2>2. reader'[r][s] = f
    BY <2>1, ReaderMoves
  <2> QED BY <2>1, <2>2 DEF Counted
<1>7. \A d \in Out : /\ d.run \in RunId /\ d.stream \in Stream
                     /\ d.line \in Nat /\ d.seq \in Nat
  BY OutIsChunks DEF Chunk
<1>8. \A d \in Out : SamePipe(c, d) => d.line < c.line
  BY <1>2, <1>3, LineOf DEF SamePipe
<1>9. Lines'
  <2>1. \A q \in RunId, t \in Stream : Counted(q, t)' => reader'[q][t].line > 0
    BY <1>5 DEF SameLines, Counted, Numbers, Lines
  <2>2. ASSUME NEW d \in Out
        PROVE  /\ 0 < d.line /\ d.line <= reader'[d.run][d.stream].line
               /\ Counted(d.run, d.stream)' => d.line < reader'[d.run][d.stream].line
    <3>1. /\ reader'[d.run][d.stream].line = reader[d.run][d.stream].line
          /\ Counted(d.run, d.stream)' => Counted(d.run, d.stream)
      BY <1>5, <1>7 DEF SameLines, Counted
    <3> QED BY <3>1, LineOf
  <2>3. 0 < c.line /\ c.line <= reader'[r][s].line
    <3>1. reader'[r][s].line = reader[r][s].line
      BY <1>5 DEF SameLines
    <3>2. reader[r][s].line > 0
      BY <1>3 DEF Numbers, Lines
    <3> QED BY <1>1, <1>2, <3>1, <3>2
  <2> QED BY <1>2, <1>4, <1>6, <2>1, <2>2, <2>3 DEF Lines, Counted
<1>10. \A d, e \in Out' : SamePipe(d, e) /\ d.line = e.line => d = e
  <2>1. \A d, e \in Out : SamePipe(d, e) /\ d.line = e.line => d = e
    BY DEF Numbers
  <2>2. \A d \in Out : SamePipe(c, d) => d.line # c.line
    BY <1>1, <1>2, <1>7, <1>8
  <2> QED BY <1>4, <2>1, <2>2 DEF SamePipe
<1>11. ASSUME ~ raced' PROVE Upward' /\ Ascending'
  <2>1. Upward /\ Ascending
    BY <1>3, <1>11 DEF Numbers
  <2>2. \A d \in Out : SamePipe(c, d) => d.seq < c.seq
    BY <1>2, <1>3, <2>1 DEF Upward, SamePipe
  <2>3. \A d \in Out :
          d.seq <= seq'[d.run] /\ (Counted(d.run, d.stream)' => d.seq < seq'[d.run])
    BY <1>3, <1>5, <1>7, <2>1 DEF Upward, SameLines, Counted
  <2>4. c.seq <= seq'[c.run] /\ reader'[c.run][c.stream].at # "counted"
    <3>1. reader'[r][s].at # "counted"
      BY <1>6 DEF Counted
    <3>2. seq' = seq
      BY <1>3
    <3> QED BY <1>1, <1>2, <3>1, <3>2
  <2>5. Upward'
    <3> SUFFICES ASSUME NEW d \in Out'
                 PROVE  /\ d.seq <= seq'[d.run]
                        /\ reader'[d.run][d.stream].at = "counted" => d.seq < seq'[d.run]
      BY DEF Upward, Counted
    <3>1. CASE d \in Out
      BY <2>3, <3>1 DEF Counted
    <3> QED BY <1>4, <2>4, <3>1
  <2>6. ASSUME NEW d \in Out', NEW e \in Out', SamePipe(d, e), d.line < e.line
        PROVE  d.seq < e.seq
    <3>1. CASE d \in Out /\ e \in Out
      BY <2>1, <2>6, <3>1 DEF Ascending
    <3>2. CASE d \in Out /\ e = c
      BY <2>2, <2>6, <3>2 DEF SamePipe
    <3>3. d # c
      <4>1. c.line \in Nat
        BY <1>1, <1>2
      <4> QED BY <1>4, <1>7, <1>8, <2>6, <4>1 DEF SamePipe
    <3> QED BY <1>4, <3>1, <3>2, <3>3
  <2> QED BY <2>5, <2>6 DEF Ascending, SamePipe
<1> QED BY <1>9, <1>10, <1>11 DEF Numbers, SamePipe

LEMMA OutShrinks ==
  ASSUME posts' \subseteq posts,
         Chunks(buffer)' \subseteq Out, Chunks(wire)' \subseteq Out,
         Chunks(viewer.lines)' \subseteq Out
  PROVE  Out' \subseteq Out
<1>1. {p.chunk : p \in posts'} \subseteq Out
  BY DEF Out
<1> QED BY <1>1 DEF Out

\* A message that is published is already on its way.
LEMMA PublishOut ==
  ASSUME TypeOK, NEW m \in Message, Publish(m), m # DoneMsg => m \in Out
  PROVE  /\ Chunks(buffer)' \subseteq Out /\ Chunks(wire)' \subseteq Out
         /\ Chunks(viewer.lines)' \subseteq Out
<1>1. In(buffer') \subseteq In(buffer) \union {m}
  <2>1. In(Append(buffer, m)) = In(buffer) \union {m} /\ Append(buffer, m) \in Seq(Message)
    BY AppendIn DEF TypeOK
  <2> QED BY <2>1, KeptIn DEF Publish
<1>2. In(wire') \subseteq In(wire) \union {m}
  <2>1. In(Append(wire, m)) = In(wire) \union {m}
    BY AppendIn DEF TypeOK
  <2>2. wire' = Append(wire, m) \/ wire' = wire
    BY DEF Publish
  <2>3. CASE wire' = wire
    BY <2>3 DEF In
  <2>4. CASE wire' = Append(wire, m)
    BY <2>1, <2>4 DEF In
  <2> QED BY <2>2, <2>3, <2>4
<1>3. Chunks(viewer.lines)' = Chunks(viewer.lines)
  BY DEF Publish, Chunks, In
<1>4. Chunks(buffer) \union Chunks(wire) \union Chunks(viewer.lines) \subseteq Out
  BY DEF Out
<1>5. Chunks(buffer)' \subseteq Chunks(buffer) \union ({m} \ {DoneMsg})
  BY <1>1 DEF Chunks, In
<1>6. Chunks(wire)' \subseteq Chunks(wire) \union ({m} \ {DoneMsg})
  BY <1>2 DEF Chunks, In
<1> QED BY <1>3, <1>4, <1>5, <1>6

LEMMA AgentNumbers == TInv /\ Numbers /\ Agent => Numbers'
<1> SUFFICES ASSUME TInv, Numbers, Agent PROVE Numbers'
  OBVIOUS
<1> USE DEF TInv
<1>0. UNCHANGED <<buffer, wire, viewer>> /\
        /\ Chunks(buffer)' \subseteq Out /\ Chunks(wire)' \subseteq Out
        /\ Chunks(viewer.lines)' \subseteq Out
  <2>1. UNCHANGED <<buffer, wire, viewer>>
    BY DEF Agent, HandOut, CommitResult, CountLine, StoreCount, PostLine, Unanswered,
         viewerVars
  <2> QED BY <2>1 DEF Out, Chunks, In
<1>1. CASE HandOut \/ \E r \in RunId : CommitResult(r)
  <2>1. UNCHANGED <<posts, seq, reader, raced>>
    BY <1>1 DEF HandOut, CommitResult, agentVars, history
  <2> QED BY <1>0, <2>1, OutShrinks, NumbersKept DEF SameLines
<1>2. ASSUME NEW r \in RunId, NEW s \in Stream, CountLine(r, s) PROVE Numbers'
  <2> DEFINE f == [line |-> reader[r][s].line, at |-> "counting", saw |-> seq[r]]
  <2>1. UNCHANGED <<posts, seq, raced>> /\ reader' = [reader EXCEPT ![r][s] = f]
    BY <1>2 DEF CountLine, history
  <2>2. f \in Reader /\ f.line = reader[r][s].line /\ f.at # "counted"
    BY DEF TypeOK, Reader
  <2> HIDE DEF f
  <2>3. \A q \in RunId, t \in Stream :
          reader'[q][t] = IF q = r /\ t = s THEN f ELSE reader[q][t]
    BY <2>1, <2>2, ReaderMoves
  <2>4. SameLines
    BY <2>2, <2>3 DEF SameLines
  <2> QED BY <1>0, <2>1, <2>4, OutShrinks, NumbersKept
<1>3. ASSUME NEW r \in RunId, NEW s \in Stream, Unanswered(r, s) PROVE Numbers'
  <2>1. UNCHANGED <<seq, raced>> /\ reader' = [reader EXCEPT ![r][s].at = "reading"]
        /\ posts' \subseteq posts
    BY <1>3 DEF Unanswered
  <2>2. SameLines
    BY <2>1, ReaderStops
  <2> QED BY <1>0, <2>1, <2>2, OutShrinks, NumbersKept
<1> QED BY <1>1, <1>2, <1>3, StoreNumbers, PostNumbers DEF Agent

LEMMA ServerNumbers == TInv /\ Numbers /\ Server => Numbers'
<1> SUFFICES ASSUME TInv, Numbers, Server PROVE Numbers'
  OBVIOUS
<1> USE DEF TInv
<1>0. /\ {p.chunk : p \in posts} \subseteq Out
      /\ Chunks(buffer) \subseteq Out /\ Chunks(wire) \subseteq Out
      /\ Chunks(viewer.lines) \subseteq Out
  BY DEF Out
<1>1. ASSUME NEW p \in posts, CheckChunk(p) PROVE Numbers'
  <2>1. p.chunk \in Chunk
    BY DEF TypeOK, Post
  <2>2. SameLines
    <3>1. Answered(p.chunk) \/ reader' = reader
      BY <1>1 DEF CheckChunk
    <3>2. CASE reader' = reader
      BY <3>2 DEF SameLines
    <3> QED BY <2>1, <3>1, <3>2, AnsweredTyped
  <2>3. UNCHANGED <<seq, buffer, wire, viewer, raced>>
    BY <1>1 DEF CheckChunk, viewerVars, history
  <2>4. {q.chunk : q \in posts'} \subseteq Out
    <3>1. [p EXCEPT !.checked = TRUE].chunk = p.chunk
      BY DEF TypeOK, Post
    <3> DEFINE new == [p EXCEPT !.checked = TRUE]
    <3>2. posts' = posts \ {p} \/ posts' = (posts \ {p}) \union {new}
      BY <1>1 DEF CheckChunk
    <3> HIDE DEF new
    <3>3. new.chunk = p.chunk
      BY <3>1 DEF new
    <3> QED BY <1>0, <3>2, <3>3
  <2>5. /\ Chunks(buffer)' \subseteq Out /\ Chunks(wire)' \subseteq Out
        /\ Chunks(viewer.lines)' \subseteq Out
    BY <1>0, <2>3 DEF Chunks, In
  <2>6. Out' \subseteq Out
    BY <2>4, <2>5 DEF Out
  <2> QED BY <2>2, <2>3, <2>6, NumbersKept
<1>2. ASSUME NEW p \in posts, PublishChunk(p) PROVE Numbers'
  <2>1. p.chunk \in Chunk /\ p.chunk \in Message /\ p.chunk \in Out
    BY <1>0, ChunkNotDone DEF TypeOK, Post
  <2>2. SameLines
    BY <1>2, <2>1, AnsweredTyped DEF PublishChunk
  <2>3. UNCHANGED <<seq, raced>> /\ posts' \subseteq posts /\ Publish(p.chunk)
    BY <1>2 DEF PublishChunk
  <2>4. Out' \subseteq Out
    BY <2>1, <2>3, PublishOut, OutShrinks
  <2> QED BY <2>2, <2>3, <2>4, NumbersKept
<1>3. ASSUME AnnounceDone PROVE Numbers'
  <2>1. UNCHANGED <<seq, raced, posts, reader>> /\ Publish(DoneMsg)
    BY <1>3 DEF AnnounceDone, agentVars
  <2>2. Out' \subseteq Out
    BY <2>1, DoneIsMessage, PublishOut, OutShrinks
  <2> QED BY <2>1, <2>2, NumbersKept DEF SameLines
<1>4. ASSUME SettleSilently PROVE Numbers'
  <2>1. UNCHANGED <<seq, raced, posts, reader, buffer, wire, viewer>>
    BY <1>4 DEF SettleSilently, agentVars, viewerVars, history
  <2>2. Out' \subseteq Out
    BY <2>1 DEF Out, Chunks, In
  <2> QED BY <2>1, <2>2, NumbersKept DEF SameLines
<1>5. ASSUME ExpireBuffer PROVE Numbers'
  <2>1. UNCHANGED <<seq, raced, posts, reader, wire, viewer>> /\ buffer' = <<>>
    BY <1>5 DEF ExpireBuffer, agentVars, viewerVars
  <2>2. /\ Chunks(buffer)' \subseteq Out /\ Chunks(wire)' \subseteq Out
        /\ Chunks(viewer.lines)' \subseteq Out
    BY <1>0, <2>1 DEF Chunks, In
  <2> QED BY <2>1, <2>2, OutShrinks, NumbersKept DEF SameLines
<1>6. ASSUME ServerRestart PROVE Numbers'
  <2>1. UNCHANGED <<seq, raced, buffer, viewer>> /\ posts' = {} /\ wire' = <<>>
    BY <1>6 DEF ServerRestart
  <2>2. /\ Chunks(buffer)' \subseteq Out /\ Chunks(wire)' \subseteq Out
        /\ Chunks(viewer.lines)' \subseteq Out
    BY <1>0, <2>1 DEF Chunks, In
  <2>3. SameLines
    <3>1. ASSUME NEW r \in RunId, NEW s \in Stream
          PROVE  /\ reader'[r][s].line = reader[r][s].line
                 /\ reader'[r][s].at = "counted" => reader[r][s].at = "counted"
      <4>1. reader[r][s] \in Reader
        BY DEF TypeOK
      <4>2. reader'[r][s] = [reader[r][s] EXCEPT !.at =
                               IF @ = "posting" THEN "reading" ELSE @]
        BY <1>6 DEF ServerRestart
      <4> QED BY <4>1, <4>2 DEF Reader
    <3> QED BY <3>1 DEF SameLines
  <2> QED BY <2>1, <2>2, <2>3, OutShrinks, NumbersKept
<1> QED BY <1>1, <1>2, <1>3, <1>4, <1>5, <1>6 DEF Server

LEMMA WireReplayed ==
  ASSUME TInv, Replay
  PROVE  /\ wire' \in {buffer, Append(buffer, DoneMsg)}
         /\ Chunks(wire') = Chunks(buffer)
<1>1. wire = <<>> /\ wire \o buffer = buffer
  BY ConcatEmptySeq DEF Replay, NothingSent, TInv, TypeOK
<1>2. wire' \in {buffer, Append(buffer, DoneMsg)}
  BY <1>1 DEF Replay
<1>3. In(Append(buffer, DoneMsg)) = In(buffer) \union {DoneMsg}
  BY AppendIn, DoneIsMessage DEF TInv, TypeOK
<1> QED BY <1>2, <1>3 DEF Chunks

LEMMA LinesReceived ==
  ASSUME TInv, Receive
  PROVE  \/ UNCHANGED <<viewer.lines, viewer.last>>
         \/ /\ Head(wire) \in Chunk /\ Head(wire) # DoneMsg
            /\ viewer.last < Head(wire).seq
            /\ viewer'.lines = Append(viewer.lines, Head(wire))
            /\ viewer'.last = Head(wire).seq
            /\ viewer.lines \in Seq(Message) /\ viewer'.lines \in Seq(Message)
            /\ In(viewer'.lines) = In(viewer.lines) \union {Head(wire)}
<1>1. Head(wire) \in Message
  BY TailIn DEF Receive, TInv, TypeOK
<1>2. CASE Head(wire) = DoneMsg
  BY <1>2 DEF Receive, TInv, TypeOK
<1>3. CASE Head(wire) # DoneMsg /\ Seen(Head(wire))
  BY <1>3 DEF Receive, TInv, TypeOK
<1>4. CASE Head(wire) # DoneMsg /\ ~ Seen(Head(wire))
  <2>1. Head(wire) \in Chunk /\ Head(wire).seq \in Nat /\ viewer.last \in Int
    BY <1>1, <1>4 DEF Message, Chunk, TInv, TypeOK
  <2>2. viewer.last < Head(wire).seq
    BY <1>4, <2>1 DEF Seen
  <2>3. viewer.lines \in Seq(Message)
    BY ShownAreMessages DEF TInv
  <2> DEFINE a == Append(viewer.lines, Head(wire))
             n == Head(wire).seq
  <2>4. a \in Seq(Message) /\ In(a) = In(viewer.lines) \union {Head(wire)}
    BY <1>1, <2>3, AppendIn
  <2>5. viewer' = [viewer EXCEPT !.lines = a, !.last = n]
    BY <1>4 DEF Receive
  <2> HIDE DEF a, n
  <2>6. viewer'.lines = a /\ viewer'.last = n
    BY <2>5 DEF TInv, TypeOK
  <2> QED BY <1>4, <2>1, <2>2, <2>3, <2>4, <2>6 DEF a, n
<1> QED BY <1>1, <1>2, <1>3, <1>4

LEMMA WatchNumbers == TInv /\ Numbers /\ (Watch \/ LoseSocket) => Numbers'
<1> SUFFICES ASSUME TInv, Numbers, Watch \/ LoseSocket PROVE Numbers'
  OBVIOUS
<1> USE DEF TInv
<1>0. UNCHANGED <<seq, reader, posts, buffer, raced>>
  BY DEF Watch, Connect, Replay, Subscribe, Receive, CloseSocket, LoseSocket,
         agentVars, history
<1>1. /\ Chunks(buffer) \subseteq Out /\ Chunks(wire) \subseteq Out
      /\ Chunks(viewer.lines) \subseteq Out /\ Chunks(buffer)' \subseteq Out
  BY <1>0 DEF Out, Chunks, In
<1>2. CASE Replay
  <2>1. UNCHANGED viewer /\ Chunks(wire)' \subseteq Out
    BY <1>1, <1>2, WireReplayed DEF Replay
  <2>2. Chunks(viewer.lines)' \subseteq Out
    BY <1>1, <2>1
  <2> QED BY <1>0, <1>1, <2>1, <2>2, OutShrinks, NumbersKept DEF SameLines
<1>3. CASE Receive
  <2>1. wire' = Tail(wire) /\ In(wire) = {Head(wire)} \union In(Tail(wire))
    BY <1>3, TailIn DEF Receive, TypeOK
  <2>2. Chunks(wire)' \subseteq Out
    BY <1>1, <2>1 DEF Chunks
  <2>3. Head(wire) # DoneMsg => Head(wire) \in Out
    BY <1>1, <2>1 DEF Chunks
  <2>4. Chunks(viewer.lines)' \subseteq Out
    BY <1>1, <1>3, <2>3, LinesReceived DEF Chunks
  <2> QED BY <1>0, <1>1, <2>2, <2>4, OutShrinks, NumbersKept DEF SameLines
<1>4. CASE Connect \/ Subscribe \/ CloseSocket \/ LoseSocket
  <2>1. UNCHANGED viewer /\ wire' \in {wire, <<>>}
    BY <1>4 DEF Connect, Subscribe, CloseSocket, LoseSocket
  <2>2. Chunks(wire)' \subseteq Out /\ Chunks(viewer.lines)' \subseteq Out
    BY <1>1, <2>1, EmptyIn DEF Chunks, In
  <2> QED BY <1>0, <1>1, <2>2, OutShrinks, NumbersKept DEF SameLines
<1> QED BY <1>2, <1>3, <1>4 DEF Watch

LEMMA ViewerKept ==
  ASSUME Next, ~ Receive
  PROVE  viewer' = viewer
BY DEF Next, Agent, HandOut, CommitResult, CountLine, StoreCount, PostLine, Unanswered, Server,
       CheckChunk, PublishChunk, Publish, AnnounceDone, SettleSilently, ExpireBuffer,
       ServerRestart, Watch, Connect, Replay, Subscribe, CloseSocket, LoseSocket,
       viewerVars

LEMMA RisingStep == TInv /\ Rising /\ Next => Rising'
<1> SUFFICES ASSUME TInv, Rising, Next PROVE Rising'
  OBVIOUS
<1>1. CASE ~ Receive
  BY <1>1, ViewerKept DEF Rising, Sorted, Chunks, In
<1>2. CASE Receive
  <2>1. CASE UNCHANGED <<viewer.lines, viewer.last>>
    BY <2>1 DEF Rising, Sorted, Chunks, In
  <2>2. CASE ~ UNCHANGED <<viewer.lines, viewer.last>>
    <3> DEFINE m == Head(wire)
    <3>1. /\ m \in Chunk /\ m # DoneMsg /\ viewer.last < m.seq
          /\ viewer'.lines = Append(viewer.lines, m) /\ viewer'.last = m.seq
          /\ viewer.lines \in Seq(Message)
          /\ In(viewer'.lines) = In(viewer.lines) \union {m}
      BY <1>2, <2>2, LinesReceived
    <3> HIDE DEF m
    <3>2. \A c \in Chunks(viewer.lines) : c.seq < m.seq
      <4>1. \A c \in Chunks(viewer.lines) : c.seq \in Nat
        BY <3>1, ChunksAreChunks DEF Chunk
      <4>2. m.seq \in Nat /\ viewer.last \in Int
        BY <3>1 DEF Chunk, TInv, TypeOK
      <4> QED BY <3>1, <4>1, <4>2 DEF Rising
    <3>3. m \in Message
      BY <3>1, ChunkNotDone
    <3>4. Sorted(Append(viewer.lines, m))
      BY <3>1, <3>2, <3>3, AppendIn DEF Rising
    <3>5. Sorted(viewer'.lines)
      BY <3>1, <3>4
    <3>6. \A c \in Chunks(viewer'.lines) : c.seq <= viewer'.last
      <4>1. \A c \in Chunks(viewer'.lines) : c \in Chunks(viewer.lines) \/ c = m
        BY <3>1 DEF Chunks
      <4>2. \A c \in Chunks(viewer.lines) : c.seq \in Nat
        BY <3>1, ChunksAreChunks DEF Chunk
      <4>3. m.seq \in Nat
        BY <3>1 DEF Chunk
      <4> QED BY <3>1, <3>2, <4>1, <4>2, <4>3
    <3> QED BY <3>5, <3>6 DEF Rising
  <2> QED BY <2>1, <2>2
<1> QED BY <1>1, <1>2

LEMMA InOrder == TInv /\ Numbers /\ Rising => LinesInOrder
<1> SUFFICES ASSUME TInv, Numbers, Rising,
                    NEW i \in DOMAIN viewer.lines, NEW j \in DOMAIN viewer.lines,
                    i < j, SamePipe(viewer.lines[i], viewer.lines[j])
             PROVE  /\ viewer.lines[i].line # viewer.lines[j].line
                    /\ ~ raced => viewer.lines[i].line < viewer.lines[j].line
  BY DEF LinesInOrder, SamePipe
<1> DEFINE c == viewer.lines[i]
           d == viewer.lines[j]
<1>1. viewer.lines \in Seq(Chunk) /\ DOMAIN viewer.lines = 1..Len(viewer.lines)
  BY LenProperties DEF TInv, TypeOK
<1>2. c \in Chunk /\ d \in Chunk
  BY <1>1, ElementOfSeq
<1>3. c # DoneMsg /\ d # DoneMsg /\ c.line \in Nat /\ d.line \in Nat
      /\ c.seq \in Nat /\ d.seq \in Nat
  BY <1>2, ChunkNotDone DEF Chunk
<1>4. c \in Out /\ d \in Out
  BY <1>1, <1>3 DEF Out, Chunks, In
<1>5. c.seq < d.seq
  BY <1>1, <1>3 DEF Rising, Sorted
<1>6. SamePipe(c, d) /\ SamePipe(d, c)
  BY DEF SamePipe
<1> HIDE DEF c, d
<1>7. c.line # d.line
  BY <1>3, <1>4, <1>5, <1>6 DEF Numbers
<1>8. ~ raced => c.line < d.line
  BY <1>3, <1>4, <1>5, <1>6, <1>7 DEF Numbers, Upward, Ascending
<1> QED BY <1>7, <1>8 DEF c, d

-----------------------------------------------------------------------------
(* What the viewer has or will have of the buffer.                          *)

\* A buffered chunk has been shown, or it can still be shown and is on the
\* wire or will be replayed.
Delivered(c) ==
  \/ c \in In(viewer.lines)
  \/ /\ viewer.last < c.seq
     /\ \/ c \in In(wire)
        \/ /\ socket.at \notin {"replayed", "live"}
           /\ \A d \in Chunks(wire) : d.seq < c.seq

Orderly ==
  /\ Sorted(buffer) /\ Sorted(wire)
  /\ \A c \in Chunks(buffer) \union Chunks(wire) : c.seq <= top
  /\ viewer.last <= top
  /\ \A c \in Chunks(buffer) : Delivered(c)

(* Until something falls between a replay and its subscription or is        *)
(* published out of order, nothing is missed.                               *)
Delivery == gap \/ disorder \/ Orderly

\* Nothing is sent, stored or shown.
LEMMA OrderlyKept ==
  ASSUME Orderly, UNCHANGED <<buffer, wire, viewer, top>>,
         socket'.at \in {"replayed", "live"} => socket.at \in {"replayed", "live"}
  PROVE  Orderly'
<1>1. Sorted(buffer)' /\ Sorted(wire)'
  BY DEF Orderly, Sorted
<1>2. Chunks(buffer)' = Chunks(buffer) /\ Chunks(wire)' = Chunks(wire)
      /\ In(wire)' = In(wire) /\ In(viewer.lines)' = In(viewer.lines)
  BY DEF Chunks, In
<1>3. \A c \in Chunks(buffer) : Delivered(c) => Delivered(c)'
  BY <1>2 DEF Delivered
<1> QED BY <1>1, <1>2, <1>3 DEF Orderly

\* What the wire held is lost, and the next socket replays the buffer.
LEMMA OrderlyUnplugged ==
  ASSUME TInv, Orderly, UNCHANGED <<buffer, viewer, top>>, wire' = <<>>,
         socket'.at = "none"
  PROVE  Orderly'
<1>1. Sorted(buffer)' /\ Sorted(wire)' /\ Chunks(wire)' = {}
  BY EmptyIn DEF Orderly, Sorted, Chunks, In
<1>2. Chunks(buffer)' = Chunks(buffer) /\ In(viewer.lines)' = In(viewer.lines)
  BY DEF Chunks, In
<1>3. \A c \in Chunks(buffer) : Delivered(c)'
  <2> TAKE c \in Chunks(buffer)
  <2>1. CASE c \in In(viewer.lines)
    BY <1>2, <2>1 DEF Delivered
  <2>2. CASE c \notin In(viewer.lines)
    <3>1. viewer'.last < c.seq
      BY <2>2 DEF Orderly, Delivered
    <3> QED BY <1>1, <3>1 DEF Delivered
  <2> QED BY <2>1, <2>2
<1> QED BY <1>1, <1>2, <1>3 DEF Orderly

LEMMA ExpireOrderly == TInv /\ Orderly /\ ExpireBuffer => Orderly'
<1> SUFFICES ASSUME TInv, Orderly, ExpireBuffer PROVE Orderly'
  OBVIOUS
<1>1. UNCHANGED <<wire, viewer, top>> /\ buffer' = <<>>
  BY DEF ExpireBuffer, viewerVars
<1>2. Sorted(buffer)' /\ Chunks(buffer)' = {} /\ Sorted(wire)'
      /\ Chunks(wire)' = Chunks(wire)
  BY <1>1 DEF Orderly, Sorted, Chunks, In
<1> QED BY <1>1, <1>2 DEF Orderly

LEMMA ReplayOrderly == TInv /\ Orderly /\ Replay => Orderly'
<1> SUFFICES ASSUME TInv, Orderly, Replay PROVE Orderly'
  OBVIOUS
<1>1. UNCHANGED <<buffer, viewer, top>>
  BY DEF Replay, history
<1>2. Chunks(wire') = Chunks(buffer) /\ wire' \in {buffer, Append(buffer, DoneMsg)}
  BY WireReplayed
<1>3. Sorted(Append(buffer, DoneMsg))
  BY AppendIn, DoneIsMessage DEF TInv, TypeOK, Orderly
<1>4. Sorted(buffer)' /\ Sorted(wire')
  BY <1>1, <1>2, <1>3 DEF Orderly, Sorted
<1>5. Chunks(buffer)' = Chunks(buffer) /\ In(viewer.lines)' = In(viewer.lines)
      /\ Chunks(buffer) \subseteq In(wire')
  BY <1>1, <1>2 DEF Chunks, In
<1>6. \A c \in Chunks(buffer) : Delivered(c)'
  <2> TAKE c \in Chunks(buffer)
  <2>1. CASE c \in In(viewer.lines)
    BY <1>5, <2>1 DEF Delivered
  <2>2. CASE c \notin In(viewer.lines)
    <3>1. viewer'.last < c.seq
      BY <1>1, <2>2 DEF Orderly, Delivered
    <3> QED BY <1>5, <3>1 DEF Delivered
  <2> QED BY <2>1, <2>2
<1> QED BY <1>1, <1>2, <1>4, <1>5, <1>6 DEF Orderly

LEMMA PublishOrderly ==
  ASSUME TInv, Orderly, NEW m \in Message, Publish(m), ~ gap',
         m # DoneMsg => top < m.seq /\ top' = m.seq,
         m = DoneMsg => top' = top
  PROVE  Orderly'
<1>1. /\ Append(buffer, m) \in Seq(Message) /\ buffer' = Kept(Append(buffer, m))
      /\ In(Append(buffer, m)) = In(buffer) \union {m}
      /\ In(Append(wire, m)) = In(wire) \union {m}
      /\ viewer' = viewer /\ socket.at # "replayed"
  BY AppendIn DEF Publish, TInv, TypeOK
<1>2. /\ \A c \in Chunks(buffer) \union Chunks(wire) : c.seq \in Nat
      /\ top \in Nat /\ top' \in Nat /\ (m # DoneMsg => m.seq \in Nat)
      /\ viewer.last \in Int /\ top <= top'
  <2>1. \A c \in Chunks(buffer) \union Chunks(wire) : c \in Chunk
    BY ChunksAreChunks DEF TInv, TypeOK
  <2>2. m # DoneMsg => m.seq \in Nat
    BY DEF Message, Chunk
  <2>3. top \in Nat /\ viewer.last \in Int
    BY DEF TInv, TypeOK
  <2> QED BY <2>1, <2>2, <2>3 DEF Chunk
<1>3. m # DoneMsg => \A c \in Chunks(buffer) \union Chunks(wire) : c.seq < m.seq
  BY <1>2 DEF Orderly
<1>4. Sorted(Append(buffer, m)) /\ Sorted(Append(wire, m))
  <2>1. (m # DoneMsg => \A x \in Chunks(buffer) : x.seq < m.seq)
        /\ (m # DoneMsg => \A x \in Chunks(wire) : x.seq < m.seq)
        /\ Sorted(buffer) /\ Sorted(wire)
    BY <1>3 DEF Orderly
  <2> QED BY <2>1, AppendIn DEF TInv, TypeOK
<1>5. Sorted(buffer)' /\ In(buffer') \subseteq In(buffer) \union {m}
  <2>1. Sorted(buffer')
    BY <1>1, <1>4, KeptIn
  <2>2. In(buffer') \subseteq In(buffer) \union {m}
    BY <1>1, KeptIn
  <2> QED BY <2>1, <2>2
<1>6. \/ /\ socket.at = "live" /\ Sorted(wire') /\ In(wire') = In(wire) \union {m}
      \/ /\ socket.at \notin {"live", "replayed"} /\ Sorted(wire') /\ In(wire') = In(wire)
         /\ socket' = socket
  <2>1. CASE socket.at = "live"
    <3>1. wire' = Append(wire, m)
      BY <2>1 DEF Publish
    <3>2. Sorted(wire') /\ In(wire') = In(wire) \union {m}
      BY <1>1, <1>4, <3>1
    <3> QED BY <2>1, <3>2
  <2>2. CASE socket.at # "live"
    <3>1. wire' = wire /\ socket' = socket
      BY <2>2 DEF Publish
    <3> QED BY <1>1, <2>2, <3>1 DEF Orderly, Sorted, In
  <2> QED BY <2>1, <2>2
<1>7. Chunks(buffer)' \union Chunks(wire)' \subseteq
        Chunks(buffer) \union Chunks(wire) \union ({m} \ {DoneMsg})
  BY <1>5, <1>6 DEF Chunks
<1>8. \A c \in Chunks(buffer)' \union Chunks(wire)' : c.seq <= top'
  <2>1. \A c \in Chunks(buffer) \union Chunks(wire) : c.seq <= top'
    BY <1>2 DEF Orderly
  <2>2. m # DoneMsg => m.seq <= top'
    BY <1>2
  <2> QED BY <1>7, <2>1, <2>2
<1>9. viewer'.last <= top'
  BY <1>1, <1>2 DEF Orderly
<1>10. In(viewer.lines)' = In(viewer.lines) /\ viewer'.last = viewer.last
  BY <1>1 DEF In
<1>11. m # DoneMsg => Delivered(m)'
  <2> SUFFICES ASSUME m # DoneMsg PROVE Delivered(m)'
    OBVIOUS
  <2>1. viewer'.last < m.seq
    BY <1>2, <1>10 DEF Orderly
  <2>2. CASE m \in In(wire')
    BY <2>1, <2>2 DEF Delivered
  <2>3. CASE m \notin In(wire')
    <3>1. socket'.at \notin {"replayed", "live"} /\ In(wire') = In(wire)
      BY <1>6, <2>3
    <3>2. \A d \in Chunks(wire)' : d.seq < m.seq
      BY <1>3, <3>1 DEF Chunks
    <3> QED BY <2>1, <3>1, <3>2 DEF Delivered
  <2> QED BY <2>2, <2>3
<1>12. \A c \in Chunks(buffer) : Delivered(c)'
  <2> TAKE c \in Chunks(buffer)
  <2>1. CASE c \in In(viewer.lines)
    BY <1>10, <2>1 DEF Delivered
  <2>2. CASE c \notin In(viewer.lines)
    <3>1. /\ viewer'.last < c.seq
          /\ \/ c \in In(wire)
             \/ /\ socket.at \notin {"replayed", "live"}
                /\ \A d \in Chunks(wire) : d.seq < c.seq
      BY <1>10, <2>2 DEF Orderly, Delivered
    <3>2. CASE c \in In(wire)
      BY <1>6, <3>1, <3>2 DEF Delivered
    <3>3. CASE c \notin In(wire)
      <4>1. socket'.at \notin {"replayed", "live"} /\ Chunks(wire)' = Chunks(wire)
        BY <1>6, <3>1, <3>3 DEF Chunks
      <4> QED BY <3>1, <3>3, <4>1 DEF Delivered
    <3> QED BY <3>2, <3>3
  <2> QED BY <2>1, <2>2
<1>13. \A c \in Chunks(buffer)' : c \in Chunks(buffer) \/ (c = m /\ m # DoneMsg)
  BY <1>5 DEF Chunks
<1>14. \A c \in Chunks(buffer)' : Delivered(c)'
  BY <1>11, <1>12, <1>13
<1>15. Sorted(wire)'
  BY <1>6
<1> QED BY <1>5, <1>8, <1>9, <1>14, <1>15 DEF Orderly

LEMMA ReceiveOrderly == TInv /\ Orderly /\ Receive => Orderly'
<1> SUFFICES ASSUME TInv, Orderly, Receive PROVE Orderly'
  OBVIOUS
<1> DEFINE h == Head(wire)
           w == Tail(wire)
<1>1. UNCHANGED <<buffer, socket, top>> /\ wire' = w
  BY DEF Receive, history
<1>2. /\ h \in Message /\ In(wire) = {h} \union In(w)
      /\ Sorted(w) /\ (h # DoneMsg => \A x \in Chunks(w) : h.seq < x.seq)
  BY TailIn DEF Receive, Orderly, TInv, TypeOK
<1>3. \/ viewer'.lines = viewer.lines /\ viewer'.last = viewer.last
      \/ /\ h \in Chunk /\ h # DoneMsg /\ viewer.last < h.seq /\ viewer'.last = h.seq
         /\ In(viewer'.lines) = In(viewer.lines) \union {h}
  BY LinesReceived
<1>4. h # DoneMsg /\ viewer'.lines = viewer.lines /\ viewer'.last = viewer.last
        => h.seq <= viewer.last
  <2>1. SUFFICES ASSUME h # DoneMsg, ~ (h.seq <= viewer.last)
                 PROVE  viewer'.last = h.seq /\ h.seq # viewer.last
    OBVIOUS
  <2>2. viewer' = [viewer EXCEPT !.lines = Append(@, h), !.last = h.seq]
    BY <2>1 DEF Receive, Seen
  <2>3. viewer'.last = h.seq
    BY <2>2 DEF TInv, TypeOK
  <2>4. h.seq \in Nat /\ viewer.last \in Int
    BY <1>2, <2>1 DEF Message, Chunk, TInv, TypeOK
  <2> QED BY <2>1, <2>3, <2>4
<1> HIDE DEF h, w
<1>5. Chunks(w) \subseteq Chunks(wire) /\ Chunks(wire)' = Chunks(w) /\ Sorted(wire)'
      /\ Chunks(buffer)' = Chunks(buffer) /\ Sorted(buffer)'
  BY <1>1, <1>2 DEF Chunks, In, Sorted, Orderly
<1>6. h # DoneMsg => h \in Chunks(wire)
  BY <1>2 DEF Chunks
<1>7. viewer'.last <= top'
  <2>1. CASE viewer'.last = viewer.last
    BY <1>1, <2>1 DEF Orderly
  <2>2. CASE h # DoneMsg /\ viewer'.last = h.seq
    BY <1>1, <1>6, <2>2 DEF Orderly
  <2> QED BY <1>3, <2>1, <2>2
<1>8. \A c \in Chunks(buffer) \union Chunks(wire) : c \in Chunk /\ c.seq \in Nat
  BY ChunksAreChunks DEF TInv, TypeOK, Chunk
<1>9. \A c \in Chunks(buffer) : Delivered(c)'
  <2> TAKE c \in Chunks(buffer)
  <2>1. CASE c \in In(viewer.lines)
    <3>1. c \in In(viewer'.lines)
      BY <1>3, <2>1
    <3> QED BY <3>1 DEF Delivered, In
  <2>2. CASE c \notin In(viewer.lines) /\ c = h
    <3>1. h # DoneMsg /\ viewer.last < h.seq
      BY <2>2 DEF Chunks, Orderly, Delivered
    <3>2. viewer.last \in Int /\ h.seq \in Nat
      BY <1>8, <2>2 DEF TInv, TypeOK
    <3>3. In(viewer'.lines) = In(viewer.lines) \union {h}
      BY <1>3, <1>4, <3>1, <3>2
    <3> QED BY <2>2, <3>3 DEF Delivered, In
  <2>3. CASE c \notin In(viewer.lines) /\ c # h
    <3>1. /\ viewer.last < c.seq
          /\ \/ c \in In(wire)
             \/ /\ socket.at \notin {"replayed", "live"}
                /\ \A d \in Chunks(wire) : d.seq < c.seq
      BY <2>3 DEF Orderly, Delivered
    <3>2. c # DoneMsg
      BY DEF Chunks
    <3>3. CASE c \in In(wire)
      <4>1. c \in In(w) /\ c \in Chunks(w)
        BY <1>2, <2>3, <3>2, <3>3 DEF Chunks
      <4>2. h # DoneMsg => h.seq < c.seq
        BY <1>2, <4>1
      <4>3. viewer'.last < c.seq
        BY <1>3, <3>1, <4>2
      <4>4. c \in In(wire)'
        BY <1>1, <4>1 DEF In
      <4> QED BY <4>3, <4>4 DEF Delivered
    <3>4. CASE c \notin In(wire)
      <4>1. viewer'.last < c.seq
        BY <1>3, <1>6, <3>1, <3>4
      <4>2. socket'.at \notin {"replayed", "live"} /\ \A d \in Chunks(wire)' : d.seq < c.seq
        BY <1>1, <1>5, <3>1, <3>4
      <4> QED BY <4>1, <4>2 DEF Delivered
    <3> QED BY <3>3, <3>4
  <2> QED BY <2>1, <2>2, <2>3
<1>10. \A c \in Chunks(buffer)' \union Chunks(wire)' : c.seq <= top'
  BY <1>1, <1>5 DEF Orderly
<1> QED BY <1>5, <1>7, <1>9, <1>10 DEF Orderly

LEMMA DeliveryStep == TInv /\ Delivery /\ Next => Delivery'
<1> SUFFICES ASSUME TInv, Next, ~ gap', ~ disorder', Delivery PROVE Orderly'
  BY DEF Delivery
<1>1. ASSUME Agent PROVE Orderly'
  <2>1. UNCHANGED <<buffer, wire, viewer, top, socket, gap, disorder>>
    BY <1>1 DEF Agent, HandOut, CommitResult, CountLine, StoreCount, PostLine, Unanswered,
                viewerVars, history
  <2> QED BY <2>1, OrderlyKept DEF Delivery
<1>2. ASSUME SettleSilently \/ \E p \in posts : CheckChunk(p) PROVE Orderly'
  <2>1. UNCHANGED <<buffer, wire, viewer, top, socket, gap, disorder>>
    BY <1>2 DEF SettleSilently, CheckChunk, viewerVars, history
  <2> QED BY <2>1, OrderlyKept DEF Delivery
<1>3. ASSUME Connect \/ Subscribe \/ CloseSocket PROVE Orderly'
  <2>1. UNCHANGED <<buffer, wire, viewer, top, gap, disorder>>
        /\ (socket'.at \in {"replayed", "live"} => socket.at \in {"replayed", "live"})
    BY <1>3 DEF Connect, Subscribe, CloseSocket, NoSocket, history
  <2> QED BY <2>1, OrderlyKept DEF Delivery
<1>4. ASSUME ServerRestart \/ LoseSocket PROVE Orderly'
  <2>1. UNCHANGED <<buffer, viewer, top, gap, disorder>> /\ wire' = <<>>
        /\ socket'.at = "none"
    BY <1>4 DEF ServerRestart, LoseSocket, NoSocket
  <2> QED BY <2>1, OrderlyUnplugged DEF Delivery
<1>5. ASSUME ExpireBuffer PROVE Orderly'
  BY <1>5, ExpireOrderly DEF ExpireBuffer, Delivery
<1>6. ASSUME Replay PROVE Orderly'
  BY <1>6, ReplayOrderly DEF Replay, history, Delivery
<1>7. ASSUME Receive PROVE Orderly'
  BY <1>7, ReceiveOrderly DEF Receive, history, Delivery
<1>8. ASSUME NEW p \in posts, PublishChunk(p) PROVE Orderly'
  <2> DEFINE m == p.chunk
  <2>1. m \in Message /\ m # DoneMsg /\ m.seq \in Nat /\ top \in Nat
    BY ChunkNotDone DEF TInv, TypeOK, Post, Chunk
  <2>2. /\ Publish(m)
        /\ disorder' = (disorder \/ m.seq <= top)
        /\ top' = IF m.seq > top THEN m.seq ELSE top
    BY <1>8 DEF PublishChunk
  <2> HIDE DEF m
  <2>3. ~ disorder /\ ~ (m.seq <= top)
    BY <2>2, Zenon
  <2>5. top < m.seq /\ top' = m.seq
    BY <2>1, <2>2, <2>3
  <2>4. ~ gap
    BY <2>2 DEF Publish
  <2> QED BY <2>1, <2>2, <2>3, <2>4, <2>5, PublishOrderly DEF Delivery
<1>9. ASSUME AnnounceDone PROVE Orderly'
  <2>1. Publish(DoneMsg) /\ UNCHANGED <<top, disorder>>
    BY <1>9 DEF AnnounceDone
  <2>2. ~ gap
    BY <2>1 DEF Publish
  <2> QED BY <2>1, <2>2, DoneIsMessage, PublishOrderly DEF Delivery
<1> QED BY <1>1, <1>2, <1>3, <1>4, <1>5, <1>6, <1>7, <1>8, <1>9 DEF Next, Server, Watch

-----------------------------------------------------------------------------
IInv == TInv /\ Numbers /\ Rising /\ Delivery

LEMMA StreamInit == Init => IInv
<1> SUFFICES ASSUME Init PROVE IInv
  OBVIOUS
<1>1. Out = {} /\ Chunks(viewer.lines) = {} /\ Sorted(viewer.lines)
      /\ Chunks(buffer) = {} /\ Chunks(wire) = {} /\ Sorted(buffer) /\ Sorted(wire)
  BY EmptyIn DEF Init, Out
<1>2. Numbers /\ Rising
  BY <1>1 DEF Init, Numbers, Rising, Lines, Counted, Upward, Ascending
<1>3. Orderly
  BY <1>1 DEF Init, Orderly
<1> QED BY <1>2, <1>3, TypeInit DEF IInv, Delivery

LEMMA StreamStep == IInv /\ [Next]_vars => IInv'
<1> SUFFICES ASSUME IInv, [Next]_vars PROVE IInv'
  OBVIOUS
<1>1. TInv'
  BY TypeStep DEF IInv
<1>2. CASE Next
  <2>1. Numbers'
    BY <1>2, AgentNumbers, ServerNumbers, WatchNumbers DEF Next, IInv
  <2> QED BY <1>1, <1>2, <2>1, RisingStep, DeliveryStep DEF IInv
<1>3. CASE UNCHANGED vars
  <2>1. UNCHANGED <<seq, reader, posts, buffer, wire, viewer, socket, top, gap, disorder, raced>>
    BY <1>3 DEF vars, agentVars, viewerVars, history
  <2>2. Numbers' /\ Rising'
    BY <2>1 DEF IInv, Numbers, Rising, Out, Chunks, In, Sorted, SamePipe,
                     Lines, Counted, Upward, Ascending
  <2>3. Delivery'
    BY <2>1, OrderlyKept DEF IInv, Delivery
  <2> QED BY <1>1, <2>2, <2>3 DEF IInv
<1> QED BY <1>2, <1>3

LEMMA NothingElse == IInv => NothingElseIsMissed
<1> SUFFICES ASSUME IInv, ~ gap, ~ disorder, socket.at = "live", wire = <<>>,
                    NEW i \in DOMAIN buffer, buffer[i] # DoneMsg
             PROVE  Contains(viewer.lines, buffer[i])
  BY DEF NothingElseIsMissed
<1>1. buffer[i] \in Chunks(buffer)
  BY LenProperties DEF IInv, TInv, TypeOK, Chunks, In
<1>2. Delivered(buffer[i]) /\ In(wire) = {}
  BY <1>1, EmptyIn DEF IInv, Delivery, Orderly
<1>3. buffer[i] \in In(viewer.lines)
  BY <1>2 DEF Delivered
<1> QED BY <1>3 DEF In, Contains

(* Every variable keeps its type, a chunk's number belongs to one line,     *)
(* lastSeqRef covers what is shown, and each buffered chunk has been shown  *)
(* or is still on its way (main.go:273-281, pubsub.py:40-48,             *)
(* task_live.py:72-86, useTaskStream.ts:95-107).                            *)
THEOREM Invariance == Spec => []IInv
BY StreamInit, StreamStep, PTL DEF Spec

(* Every variable has its type (main.go:273-281, task_live.py:52-94,        *)
(* useTaskStream.ts:95-107).                                                *)
THEOREM TypeCorrect == Spec => []TypeOK
<1>1. IInv => TypeOK
  BY DEF IInv, TInv
<1> QED BY <1>1, Invariance, PTL

(* No line is shown twice, and only a race for the counter lets a later     *)
(* line of a pipe be shown first (useTaskStream.ts:34-35, :100,             *)
(* main.go:281).                                                            *)
THEOREM LinesOrdered == Spec => []LinesInOrder
<1>1. IInv => LinesInOrder
  BY InOrder DEF IInv
<1> QED BY <1>1, Invariance, PTL

(* A viewer that has caught up has every buffered line, unless something    *)
(* was published between a replay and its subscription or out of order      *)
(* (task_live.py:72-86).                                                    *)
THEOREM NothingElseMissed == Spec => []NothingElseIsMissed
BY NothingElse, Invariance, PTL

-----------------------------------------------------------------------------
(* LiveStream implements Inbox.                                             *)

(* Wherever a done is, the task has ended.                                  *)
EndIsTrue ==
  (\/ owed \/ socket.settled \/ viewer.done
   \/ DoneMsg \in In(buffer) \/ DoneMsg \in In(wire)) => settled

\* What is published is in the buffer or on the wire, and nothing else is new.
LEMMA PublishIn ==
  ASSUME TypeOK, NEW m \in Message, Publish(m)
  PROVE  /\ In(buffer') \subseteq In(buffer) \union {m}
         /\ In(wire') \subseteq In(wire) \union {m}
         /\ socket'.settled = socket.settled /\ viewer' = viewer
<1>1. In(Append(buffer, m)) = In(buffer) \union {m} /\ Append(buffer, m) \in Seq(Message)
  BY AppendIn DEF TypeOK
<1>2. In(buffer') \subseteq In(buffer) \union {m}
  BY <1>1, KeptIn DEF Publish
<1>3. In(Append(wire, m)) = In(wire) \union {m}
  BY AppendIn DEF TypeOK
<1>4. wire' = Append(wire, m) \/ wire' = wire
  BY DEF Publish
<1>5. In(wire') \subseteq In(wire) \union {m}
  BY <1>3, <1>4
<1>6. socket'.settled = socket.settled /\ viewer' = viewer
  BY DEF Publish, TypeOK, Socket
<1> QED BY <1>2, <1>5, <1>6

LEMMA EndStep == TInv /\ EndIsTrue /\ Next => EndIsTrue'
<1> SUFFICES ASSUME TInv, EndIsTrue, Next PROVE EndIsTrue'
  OBVIOUS
<1>0. TypeOK
  BY DEF TInv
<1>1. CASE Agent
  <2>1. UNCHANGED <<buffer, wire, viewer, socket>> /\ (settled => settled')
        /\ (owed' => owed \/ settled')
    BY <1>1 DEF Agent, HandOut, CommitResult, CountLine, StoreCount, PostLine, Unanswered,
         viewerVars
  <2> QED BY <2>1 DEF EndIsTrue, In
<1>2. CASE \E p \in posts : CheckChunk(p)
  <2>1. UNCHANGED <<buffer, wire, viewer, socket, settled, owed>>
    BY <1>2 DEF CheckChunk, viewerVars
  <2> QED BY <2>1 DEF EndIsTrue, In
<1>3. ASSUME NEW p \in posts, PublishChunk(p) PROVE EndIsTrue'
  <2>1. p.chunk \in Message /\ p.chunk # DoneMsg
    BY <1>0, ChunkNotDone DEF TypeOK, Post
  <2>2. Publish(p.chunk) /\ UNCHANGED <<settled, owed>>
    BY <1>3 DEF PublishChunk
  <2>3. /\ In(buffer') \subseteq In(buffer) \union {p.chunk}
        /\ In(wire') \subseteq In(wire) \union {p.chunk}
        /\ socket'.settled = socket.settled /\ viewer' = viewer
    BY <1>0, <2>1, <2>2, PublishIn
  <2>4. /\ DoneMsg \in In(buffer') => DoneMsg \in In(buffer)
        /\ DoneMsg \in In(wire') => DoneMsg \in In(wire)
    BY <2>1, <2>3
  <2> QED BY <2>2, <2>3, <2>4 DEF EndIsTrue, In
<1>4. CASE AnnounceDone
  <2>1. settled /\ settled' = settled
    BY <1>4 DEF AnnounceDone, EndIsTrue
  <2> QED BY <2>1 DEF EndIsTrue
<1>5. CASE SettleSilently
  BY <1>5 DEF SettleSilently, EndIsTrue
<1>6. CASE ExpireBuffer
  <2>1. UNCHANGED <<wire, viewer, socket, settled, owed>> /\ In(buffer') = {}
    BY <1>6, EmptyIn DEF ExpireBuffer, viewerVars
  <2> QED BY <2>1 DEF EndIsTrue, In
<1>7. CASE ServerRestart \/ LoseSocket
  <2>1. /\ UNCHANGED <<buffer, viewer, settled>> /\ (owed' => owed)
        /\ socket' = NoSocket /\ wire' = <<>>
    BY <1>7 DEF ServerRestart, LoseSocket
  <2>2. In(wire') = {} /\ socket'.settled = FALSE
    BY <2>1, EmptyIn DEF NoSocket
  <2> QED BY <2>1, <2>2 DEF EndIsTrue, In
<1>8. CASE Connect \/ Subscribe \/ CloseSocket
  <2>1. /\ UNCHANGED <<buffer, viewer, settled, owed, wire>>
        /\ socket'.settled \in {FALSE, settled, socket.settled}
    <3>1. CASE Connect
      BY <3>1 DEF Connect
    <3>2. CASE Subscribe
      <4>1. socket' = [socket EXCEPT !.at = "live"]
        BY <3>2 DEF Subscribe
      <4>2. socket'.settled = socket.settled
        BY <1>0, <4>1 DEF TypeOK, Socket
      <4> QED BY <3>2, <4>2 DEF Subscribe
    <3>3. CASE CloseSocket
      BY <3>3 DEF CloseSocket, NoSocket
    <3> QED BY <1>8, <3>1, <3>2, <3>3
  <2> QED BY <2>1 DEF EndIsTrue, In
<1>9. CASE Replay
  <2>1. UNCHANGED <<buffer, viewer, settled, owed>>
        /\ socket'.settled = socket.settled
    BY <1>0, <1>9 DEF Replay, TypeOK, Socket
  <2>2. wire = <<>> /\ wire \o buffer = buffer
    BY <1>9, ConcatEmptySeq DEF Replay, NothingSent, TInv, TypeOK
  <2>3. ~ socket.settled => wire' = buffer
    BY <1>9, <2>2 DEF Replay
  <2> QED BY <2>1, <2>3 DEF EndIsTrue, In
<1>10. CASE Receive
  <2>1. /\ UNCHANGED <<buffer, socket, settled, owed>>
        /\ wire' = Tail(wire) /\ wire # <<>>
        /\ viewer'.done => viewer.done \/ Head(wire) = DoneMsg
    <3>1. CASE Head(wire) = DoneMsg
      BY <1>10, <3>1 DEF Receive
    <3>2. CASE Head(wire) # DoneMsg
      <4>1. \/ viewer' = viewer
            \/ viewer' = [viewer EXCEPT !.lines = Append(viewer.lines, Head(wire)),
                                        !.last = Head(wire).seq]
        BY <1>10, <3>2 DEF Receive
      <4>2. viewer'.done = viewer.done
        BY <1>0, <4>1 DEF TypeOK
      <4> QED BY <1>10, <4>2 DEF Receive
    <3> QED BY <3>1, <3>2
  <2>2. In(wire) = {Head(wire)} \union In(Tail(wire))
    BY <1>0, <2>1, TailIn DEF TypeOK
  <2> QED BY <2>1, <2>2 DEF EndIsTrue, In
<1> QED BY <1>1, <1>2, <1>3, <1>4, <1>5, <1>6, <1>7, <1>8, <1>9, <1>10
        DEF Next, Server, Watch

(* Of the agent's and the server's steps only StoreCount adds a line or   *)
(* finds that the readers raced.                                            *)
LEMMA CountKept ==
  ASSUME TypeOK, Next, \A r \in RunId, s \in Stream : ~ StoreCount(r, s)
  PROVE  /\ raced' = raced
         /\ SameLines
<1>1. CASE \/ HandOut \/ \E r \in RunId : CommitResult(r)
           \/ AnnounceDone \/ SettleSilently \/ ExpireBuffer \/ Watch \/ LoseSocket
  BY <1>1 DEF HandOut, CommitResult, AnnounceDone, SettleSilently, ExpireBuffer, Watch,
              Connect, Replay, Subscribe, Receive, CloseSocket, LoseSocket, agentVars, history,
              SameLines
<1>2. ASSUME NEW r \in RunId, NEW s \in Stream, CountLine(r, s)
      PROVE  raced' = raced /\ SameLines
  <2> DEFINE f == [line |-> reader[r][s].line, at |-> "counting", saw |-> seq[r]]
  <2>1. raced' = raced /\ reader' = [reader EXCEPT ![r][s] = f]
    BY <1>2 DEF CountLine, history
  <2>2. f \in Reader /\ f.line = reader[r][s].line /\ f.at # "counted"
    BY DEF TypeOK, Reader
  <2> HIDE DEF f
  <2>3. \A q \in RunId, t \in Stream :
          reader'[q][t] = IF q = r /\ t = s THEN f ELSE reader[q][t]
    BY <2>1, <2>2, ReaderMoves
  <2> QED BY <2>1, <2>2, <2>3 DEF SameLines
<1>6. ASSUME NEW r \in RunId, NEW s \in Stream, PostLine(r, s)
      PROVE  raced' = raced /\ SameLines
  <2>1. /\ raced' = raced /\ reader' = [reader EXCEPT ![r][s].at = "posting"]
        /\ TypeOK
    BY <1>6 DEF PostLine, history
  <2> QED BY <2>1, ReaderStops
<1>3. ASSUME NEW r \in RunId, NEW s \in Stream, Unanswered(r, s)
      PROVE  raced' = raced /\ SameLines
  <2>1. raced' = raced /\ reader' = [reader EXCEPT ![r][s].at = "reading"]
    BY <1>3 DEF Unanswered
  <2> QED BY <2>1, ReaderStops
<1>4. ASSUME NEW p \in posts, CheckChunk(p) \/ PublishChunk(p)
      PROVE  raced' = raced /\ SameLines
  <2>1. p.chunk \in Chunk
    BY DEF TypeOK, Post
  <2>2. raced' = raced /\ (Answered(p.chunk) \/ reader' = reader)
    BY <1>4 DEF CheckChunk, PublishChunk, history
  <2>3. CASE reader' = reader
    BY <2>2, <2>3 DEF SameLines
  <2> QED BY <2>1, <2>2, <2>3, AnsweredTyped
<1>5. CASE ServerRestart
  <2>1. ASSUME NEW q \in RunId, NEW t \in Stream
        PROVE  /\ reader'[q][t].line = reader[q][t].line
               /\ reader'[q][t].at = "counted" => reader[q][t].at = "counted"
    <3>1. reader[q][t] \in Reader
      BY DEF TypeOK
    <3>2. reader'[q][t] = [reader[q][t] EXCEPT !.at =
                             IF @ = "posting" THEN "reading" ELSE @]
      BY <1>5 DEF ServerRestart
    <3> QED BY <3>1, <3>2 DEF Reader
  <2>2. raced' = raced
    BY <1>5 DEF ServerRestart
  <2> QED BY <2>1, <2>2 DEF SameLines
<1> QED BY <1>1, <1>2, <1>3, <1>4, <1>5, <1>6 DEF Next, Agent, Server

Written == [r \in RunId |-> [s \in Stream |-> reader[r][s].line]]

(* The line that StoreCount counts is one that the process writes.          *)
LEMMA StoreWrites ==
  ASSUME TInv, Next, NEW r \in RunId, NEW s \in Stream, StoreCount(r, s)
  PROVE  Promise!Write(r, s)
<1> DEFINE f == [line |-> reader[r][s].line + 1, at |-> "counted", saw |-> 0]
<1>1. reader' = [reader EXCEPT ![r][s] = f]
      /\ raced' = (raced \/ seq[r] # reader[r][s].saw)
      /\ UNCHANGED <<settled, viewer>>
  BY DEF StoreCount, viewerVars
<1>2. f \in Reader /\ f.line = reader[r][s].line + 1
  BY DEF TInv, TypeOK, Reader
<1> HIDE DEF f
<1>3. \A q \in RunId, t \in Stream :
        reader'[q][t] = IF q = r /\ t = s THEN f ELSE reader[q][t]
  BY <1>1, <1>2, ReaderMoves DEF TInv
<1>4. \A q \in RunId, t \in Stream :
        reader'[q][t].line = IF q = r /\ t = s THEN reader[q][t].line + 1
                             ELSE reader[q][t].line
  <2> TAKE q \in RunId, t \in Stream
  <2>1. reader'[q][t] = IF q = r /\ t = s THEN f ELSE reader[q][t]
    BY <1>3
  <2> QED  BY <2>1, <1>2
<1>5. Written' = [Written EXCEPT ![r][s] = @ + 1]
  <2> DEFINE Now(q, t) == IF q = r /\ t = s THEN reader[q][t].line + 1
                          ELSE reader[q][t].line
  <2>1. Written' = [q \in RunId |-> [t \in Stream |-> Now(q, t)]]
    BY <1>4 DEF Written
  <2>2. [Written EXCEPT ![r] = [Written[r] EXCEPT ![s] = Written[r][s] + 1]]
          = [q \in RunId |-> [t \in Stream |-> Now(q, t)]]
    BY DEF Written
  <2> QED BY <2>1, <2>2
<1>6. raced => raced'
  BY <1>1
<1>7. raced' \in BOOLEAN
  BY <1>1, Zenon
<1>8. Screen(viewer.lines)' = Screen(viewer.lines) /\ viewer'.done = viewer.done
  BY <1>1 DEF Screen
<1> QED BY <1>1, <1>5, <1>6, <1>7, <1>8 DEF Promise!Write, Written

ScreenLine == [run : RunId, stream : Stream, line : Nat]

LEMMA ScreenIs ==
  \A l \in Seq(Chunk) :
    /\ Screen(l) \in Seq(ScreenLine) /\ Len(Screen(l)) = Len(l)
    /\ \A i \in 1..Len(l) : /\ Screen(l)[i].run = l[i].run
                           /\ Screen(l)[i].stream = l[i].stream
                           /\ Screen(l)[i].line = l[i].line
<1> TAKE l \in Seq(Chunk)
<1>1. DOMAIN l = 1..Len(l) /\ Len(l) \in Nat /\ \A i \in 1..Len(l) : l[i] \in Chunk
  OBVIOUS
<1>2. Screen(l) \in [1..Len(l) -> ScreenLine]
  BY <1>1 DEF Screen, ScreenLine, Chunk
<1>3. Screen(l) \in Seq(ScreenLine) /\ Len(Screen(l)) = Len(l)
  BY <1>1, <1>2
<1> QED BY <1>1, <1>3 DEF Screen

LEMMA ScreenGrows ==
  ASSUME NEW l \in Seq(Chunk), NEW m \in Chunk
  PROVE  Screen(Append(l, m))
           = Append(Screen(l), [run |-> m.run, stream |-> m.stream, line |-> m.line])
<1> DEFINE x == [run |-> m.run, stream |-> m.stream, line |-> m.line]
           a == Append(l, m)
<1>1. /\ a \in Seq(Chunk) /\ Len(a) = Len(l) + 1 /\ Len(l) \in Nat
      /\ \A i \in 1..Len(l) : a[i] = l[i]
      /\ a[Len(l) + 1] = m
  BY AppendProperties
<1>2. x \in ScreenLine
  BY DEF ScreenLine, Chunk
<1>3. Screen(l) \in Seq(ScreenLine) /\ Len(Screen(l)) = Len(l)
  BY ScreenIs
<1>4. Screen(a) \in Seq(ScreenLine) /\ Len(Screen(a)) = Len(l) + 1
  BY <1>1, ScreenIs
<1>5. /\ Append(Screen(l), x) \in Seq(ScreenLine)
      /\ Len(Append(Screen(l), x)) = Len(l) + 1
      /\ \A i \in 1..Len(l) : Append(Screen(l), x)[i] = Screen(l)[i]
      /\ Append(Screen(l), x)[Len(l) + 1] = x
  BY <1>2, <1>3, AppendProperties
<1>6. \A i \in 1..(Len(l) + 1) :
        Screen(a)[i] = [run |-> a[i].run, stream |-> a[i].stream, line |-> a[i].line]
  BY <1>1 DEF Screen
<1>7. \A i \in 1..Len(l) :
        Screen(l)[i] = [run |-> l[i].run, stream |-> l[i].stream, line |-> l[i].line]
  BY <1>1 DEF Screen
<1> HIDE DEF a, x
<1>8. \A i \in 1..(Len(l) + 1) : Screen(a)[i] = Append(Screen(l), x)[i]
  <2> TAKE i \in 1..(Len(l) + 1)
  <2>1. CASE i \in 1..Len(l)
    BY <1>1, <1>5, <1>6, <1>7, <2>1
  <2>2. CASE i = Len(l) + 1
    <3>1. Screen(a)[i] = [run |-> a[i].run, stream |-> a[i].stream, line |-> a[i].line]
      BY <1>6
    <3>2. a[i] = m /\ Append(Screen(l), x)[i] = x
      BY <1>1, <1>5, <2>2
    <3> QED BY <3>1, <3>2 DEF x
  <2>3. i \in 1..Len(l) \/ i = Len(l) + 1
    BY <1>1
  <2> QED BY <2>1, <2>2, <2>3
<1>9. Screen(a) = Append(Screen(l), x)
  BY <1>4, <1>5, <1>8, SeqEqual
<1> QED BY <1>9 DEF a, x

(* A line received that lastSeqRef does not cover is shown, a done tells of *)
(* the end, and anything else changes nothing.                              *)
LEMMA ReceivePromised ==
  ASSUME TInv, Numbers, LinesInOrder', EndIsTrue, Receive
  PROVE  \/ UNCHANGED <<viewer.lines, viewer.done>>
         \/ Promise!Tell
         \/ \E r \in RunId, s \in Stream : \E n \in 1..reader[r][s].line : Promise!Show(r, s, n)
<1> DEFINE m == Head(wire)
<1>0. /\ TypeOK /\ viewer.lines \in Seq(Chunk)
      /\ UNCHANGED <<settled, seq, reader, raced>>
  BY DEF TInv, TypeOK, Receive, agentVars, history
<1>1. m \in Message /\ m \in In(wire)
  BY TailIn DEF Receive, TInv, TypeOK
<1> HIDE DEF m
<1>2. CASE m = DoneMsg
  <2>1. settled
    BY <1>1, <1>2 DEF EndIsTrue
  <2>2. viewer' = [viewer EXCEPT !.done = TRUE]
    BY <1>2 DEF Receive, m
  <2>3. viewer'.lines = viewer.lines /\ viewer'.done = TRUE
    BY <1>0, <2>2 DEF TypeOK
  <2> QED BY <1>0, <2>1, <2>3 DEF Promise!Tell, Screen
<1>3. CASE m # DoneMsg /\ Seen(m)
  BY <1>3 DEF Receive, m
<1>4. CASE m # DoneMsg /\ ~ Seen(m)
  <2>1. m \in Chunk /\ m \in Out
    BY <1>1, <1>4 DEF Message, Out, Chunks
  <2>2. viewer' = [viewer EXCEPT !.lines = Append(viewer.lines, m), !.last = m.seq]
    BY <1>4 DEF Receive, m
  <2>3. viewer'.lines = Append(viewer.lines, m) /\ viewer'.done = viewer.done
    BY <1>0, <2>2 DEF TypeOK
  <2>4. /\ m.run \in RunId /\ m.stream \in Stream /\ m.line \in Nat \ {0}
        /\ m.line <= reader[m.run][m.stream].line
        /\ reader[m.run][m.stream].line \in Nat
    BY <1>0, <2>1, LineOf DEF Chunk, TypeOK, Reader
  <2>5. /\ Len(viewer.lines) \in Nat /\ DOMAIN viewer.lines = 1..Len(viewer.lines)
        /\ DOMAIN viewer'.lines = 1..(Len(viewer.lines) + 1)
        /\ viewer'.lines[Len(viewer.lines) + 1] = m
        /\ \A i \in 1..Len(viewer.lines) : viewer'.lines[i] = viewer.lines[i]
    BY <1>0, <2>1, <2>3, AppendProperties
  <2>6. ASSUME NEW i \in 1..Len(viewer.lines),
               viewer.lines[i].run = m.run, viewer.lines[i].stream = m.stream
        PROVE  viewer.lines[i].line # m.line /\ (~ raced => viewer.lines[i].line < m.line)
    <3>1. /\ i \in DOMAIN viewer'.lines /\ Len(viewer.lines) + 1 \in DOMAIN viewer'.lines
          /\ i < Len(viewer.lines) + 1
      BY <2>5
    <3>2. \A j, k \in DOMAIN viewer'.lines :
            (/\ j < k /\ viewer'.lines[j].run = viewer'.lines[k].run
             /\ viewer'.lines[j].stream = viewer'.lines[k].stream) =>
              /\ viewer'.lines[j].line # viewer'.lines[k].line
              /\ ~ raced' => viewer'.lines[j].line < viewer'.lines[k].line
      BY DEF LinesInOrder
    <3>3. viewer'.lines[i] = viewer.lines[i] /\ viewer'.lines[Len(viewer.lines) + 1] = m
      BY <2>5
    <3> HIDE DEF LinesInOrder
    <3> QED BY <1>0, <2>6, <3>1, <3>2, <3>3
  <2>7. /\ DOMAIN Screen(viewer.lines) = 1..Len(viewer.lines)
        /\ \A i \in 1..Len(viewer.lines) :
             /\ Screen(viewer.lines)[i].run = viewer.lines[i].run
             /\ Screen(viewer.lines)[i].stream = viewer.lines[i].stream
             /\ Screen(viewer.lines)[i].line = viewer.lines[i].line
    BY <1>0, <2>5, ScreenIs
  <2>8. \A i \in DOMAIN Screen(viewer.lines) :
          Screen(viewer.lines)[i].run = m.run /\ Screen(viewer.lines)[i].stream = m.stream =>
            /\ Screen(viewer.lines)[i].line # m.line
            /\ ~ raced => Screen(viewer.lines)[i].line < m.line
    BY <2>6, <2>7
  <2>9. Screen(viewer.lines)'
          = Append(Screen(viewer.lines),
                   [run |-> m.run, stream |-> m.stream, line |-> m.line])
    <3>1. Screen(viewer.lines)' = Screen(Append(viewer.lines, m))
      BY <2>3 DEF Screen
    <3> QED BY <1>0, <2>1, <3>1, ScreenGrows
  <2>10. Promise!Show(m.run, m.stream, m.line)
    <3>1. Written' = Written /\ Written[m.run][m.stream] = reader[m.run][m.stream].line
      BY <1>0, <2>4 DEF Written
    <3> QED BY <1>0, <2>3, <2>4, <2>8, <2>9, <3>1 DEF Promise!Show, Written
  <2>11. m.line \in 1..reader[m.run][m.stream].line
    BY <2>4
  <2> QED BY <2>4, <2>10, <2>11
<1> QED BY <1>2, <1>3, <1>4

LEMMA PromiseStep ==
  ASSUME TInv, Numbers, LinesInOrder', EndIsTrue, [Next]_vars
  PROVE  [Promise!Next]_Promise!vars
<1>0. TypeOK
  BY DEF TInv
<1>1. CASE UNCHANGED vars
  BY <1>1 DEF vars, agentVars, viewerVars, history, Promise!vars, Screen
<1>2. ASSUME NEW r \in RunId, NEW s \in Stream, StoreCount(r, s), Next
      PROVE  Promise!Next
  BY <1>2, StoreWrites DEF Promise!Next
<1>3. ASSUME Next, \A r \in RunId, s \in Stream : ~ StoreCount(r, s)
      PROVE  raced' = raced /\ Written' = Written
  BY <1>0, <1>3, CountKept DEF Written, SameLines
<1>4. ASSUME Receive, Next, \A r \in RunId, s \in Stream : ~ StoreCount(r, s)
      PROVE  [Promise!Next]_Promise!vars
  <2>1. raced' = raced /\ Written' = Written /\ settled' = settled
    BY <1>3, <1>4 DEF Receive
  <2>2. CASE UNCHANGED <<viewer.lines, viewer.done>>
    BY <2>1, <2>2 DEF Promise!vars, Written, Screen
  <2>3. CASE Promise!Tell
    BY <2>3 DEF Promise!Next
  <2>4. ASSUME NEW r \in RunId, NEW s \in Stream, NEW n \in 1..reader[r][s].line,
               Promise!Show(r, s, n)
        PROVE  Promise!Next
    <3>1. n \in 1..Written[r][s]
      BY DEF Written
    <3> QED BY <2>4, <3>1 DEF Promise!Next, Written
  <2> QED BY <1>4, <2>2, <2>3, <2>4, ReceivePromised
<1>5. ASSUME ~ Receive, Next, \A r \in RunId, s \in Stream : ~ StoreCount(r, s)
      PROVE  [Promise!Next]_Promise!vars
  <2>1. raced' = raced /\ Written' = Written /\ viewer' = viewer
    BY <1>3, <1>5, ViewerKept
  <2>2. CASE SettleSilently \/ \E r \in RunId : CommitResult(r)
    <3>1. ~ settled /\ settled' = TRUE
      BY <2>2 DEF SettleSilently, CommitResult
    <3>2. Promise!End
      BY <2>1, <3>1 DEF Promise!End, Written, Screen
    <3> QED BY <3>2 DEF Promise!Next
  <2>3. CASE ~ (SettleSilently \/ \E r \in RunId : CommitResult(r))
    <3>1. Agent => settled' = settled
      BY <2>3 DEF Agent, HandOut, CountLine, StoreCount, PostLine, Unanswered
    <3>2. Server => settled' = settled
      BY <2>3 DEF Server, CheckChunk, PublishChunk, AnnounceDone, ExpireBuffer, ServerRestart
    <3>3. Watch \/ LoseSocket => settled' = settled
      BY DEF Watch, Connect, Replay, Subscribe, Receive, CloseSocket, LoseSocket
    <3>4. settled' = settled
      BY <1>5, <3>1, <3>2, <3>3 DEF Next
    <3> QED BY <2>1, <3>4 DEF Promise!vars, Written, Screen
  <2> QED BY <2>2, <2>3
<1> QED BY <1>1, <1>2, <1>4, <1>5

(* Whatever is lost, repeated, late or restarted between the agent and the  *)
(* screen, a viewer sees what Inbox promises: lines that were written, none *)
(* twice, none taken back, a pipe's in order unless the readers raced, and  *)
(* no end before the task's (main.go:273-281, pubsub.py:40-48,              *)
(* task_live.py:52-94, useTaskStream.ts:95-107).                            *)
THEOREM InboxKept == Spec => ImplementsInbox
<1>1. Init => EndIsTrue /\ Promise!Init
  <2> SUFFICES ASSUME Init PROVE EndIsTrue /\ Promise!Init
    OBVIOUS
  <2>1. EndIsTrue
    BY EmptyIn DEF Init, EndIsTrue, NoSocket
  <2>2. Screen(viewer.lines) = <<>>
    BY DEF Init, Screen
  <2>3. [r \in RunId |-> [s \in Stream |-> reader[r][s].line]]
          = [r \in RunId |-> [s \in Stream |-> 0]]
    BY DEF Init
  <2> QED BY <2>1, <2>2, <2>3 DEF Init, Promise!Init
<1>2. TInv /\ EndIsTrue /\ [Next]_vars => EndIsTrue'
  <2>1. TInv /\ EndIsTrue /\ UNCHANGED vars => EndIsTrue'
    BY DEF vars, agentVars, viewerVars, EndIsTrue, In
  <2> QED BY <2>1, EndStep
<1>3. IInv => TInv /\ Numbers /\ LinesInOrder
  BY InOrder DEF IInv
<1>4. TInv /\ Numbers /\ LinesInOrder' /\ EndIsTrue /\ [Next]_vars
        => [Promise!Next]_Promise!vars
  BY PromiseStep
<1> QED BY <1>1, <1>2, <1>3, <1>4, Invariance, PTL DEF Spec, ImplementsInbox, Promise!Spec
=============================================================================
