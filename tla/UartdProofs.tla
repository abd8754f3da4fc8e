---------------------------- MODULE UartdProofs ----------------------------
(***************************************************************************)
(* Theorems about Uartd, for every buffer capacity, number of connections, *)
(* pace of the port and number of reconnects.                              *)
(***************************************************************************)
EXTENDS Uartd, SequenceTheorems, TLAPS

\* WriterFollowsPort is inductive by itself: opening the port, losing it and
\* dropping its handle are the only steps that set either variable.
LEMMA WriterInit == Init => WriterFollowsPort
  BY DEF Init, PortInit, WriterFollowsPort

LEMMA WriterReader == WriterFollowsPort /\ ReaderStep => WriterFollowsPort'
  BY DEF WriterFollowsPort, Goes, ReaderStep, OpenPort, Announce, LosePort, DropWriter,
         NoteLoss, ReadPort, PushChunk, EvictChunk, Pushed, LogChunk, Broadcast, DriveLogin, ReaderWrites, ReaderStops,
         serialVars, portVars, readerVars

\* What a step of a handler can change: its own state, the buffer, the sends
\* and the subscriptions.
LEMMA HandlerFrame ==
    ASSUME NEW h, HandlerStep(h) \/ \E r \in Requests[h] : Accept(h, r)
    PROVE  UNCHANGED <<logVars, portVars, loginVars, readerVars>>
  BY DEF HandlerStep, Quick, Accept, ReadDrains, ReadStores, Peek, Status, Stop, BeginSend,
         Subscribe, BadPattern, HandlerWrites, Receive, Timeout, Reply, sinkVars, logVars,
         serialVars, portVars, loginVars, readerVars

\* The steps of the main thread leave the port and the stream alone.
LEMMA MainFrame ==
    ASSUME Main
    PROVE  UNCHANGED <<sinkVars, serialVars, readerVars>>
  BY DEF Main, Signal, AcceptorStops, Exit

LEMMA WriterStep == WriterFollowsPort /\ [Next]_vars => WriterFollowsPort'
  <1> SUFFICES ASSUME WriterFollowsPort, [Next]_vars PROVE WriterFollowsPort'
    OBVIOUS
  <1>1. CASE ReaderRuns
    BY <1>1, WriterReader DEF ReaderRuns
  <1>2. CASE UNCHANGED <<writer, fd, rpc>>
    BY <1>2 DEF WriterFollowsPort
  <1>3. CASE PlugMoves
    BY <1>2, <1>3 DEF PlugMoves, Unplug, Replug, readerVars
  <1>4. ASSUME NEW h \in Conns, HandlerStep(h) \/ \E r \in Requests[h] : Accept(h, r)
        PROVE  WriterFollowsPort'
    BY <1>2, <1>4, HandlerFrame DEF portVars, readerVars
  <1>5. CASE Main \/ UNCHANGED vars
    BY <1>2, <1>5, MainFrame DEF vars, serialVars, portVars, readerVars
  <1>6. QED
    BY <1>1, <1>3, <1>4, <1>5 DEF Next

\* A send never goes to a port that the reader has left.
THEOREM WriterIsCurrent == Spec => []WriterFollowsPort
  BY WriterInit, WriterStep, PTL DEF Spec
-----------------------------------------------------------------------------
\* The reader thread is past the read of a chunk and has not yet done with it:
\* the chunk is then the last of the captured bytes.
Ingesting == rpc \in {"push", "evict", "log", "broadcast", "login"}

Streamed ==
    /\ captured \in Nat
    /\ data \in Chunk \cup {NoChunk}
    /\ Ingesting => data \in Chunk /\ End(data) = captured

LEMMA StreamedInit == Init => Streamed
  BY DEF Init, ReaderInit, Streamed, Ingesting

LEMMA StreamedReader == Streamed /\ ReaderStep => Streamed'
  <1> SUFFICES ASSUME Streamed, ReaderStep PROVE Streamed'
    OBVIOUS
  <1>1. ASSUME NEW n \in 1 .. ReadBuf, ReadPort(n)
        PROVE  Streamed'
    <2>1. /\ captured \in Nat /\ n \in Nat /\ n >= 1 /\ captured + n <= MaxBytes
          /\ captured' = captured + n
          /\ data' = [at |-> captured + 1, n |-> n]
      BY <1>1, ReaderAssumption DEF ReadPort, Streamed
    <2>2. captured + 1 \in 1 .. MaxBytes /\ n \in 1 .. MaxBytes
      BY <2>1, BufferAssumption
    <2>3. data' \in Chunk
      BY <2>1, <2>2 DEF Chunk
    <2>4. data'.at + data'.n - 1 = captured'
      BY <2>1
    <2>5. QED
      BY <2>1, <2>3, <2>4 DEF Streamed, End
  <1>2. CASE UNCHANGED <<captured, data>> /\ (Ingesting' => Ingesting)
    BY <1>2 DEF Streamed, End
  <1>3. QED
    BY <1>1, <1>2
    DEF ReaderStep, OpenPort, Announce, LosePort, DropWriter, NoteLoss, PushChunk, EvictChunk,
        Pushed, LogChunk,
        Broadcast, DriveLogin, ReaderWrites, ReaderStops, readerVars, Goes, Ingesting

\* The stream is the reader's own.
LEMMA ReaderOnly ==
    ASSUME [Next]_vars, ~ReaderRuns
    PROVE  UNCHANGED <<loginVars, readerVars>>
  <1>1. CASE PlugMoves
    BY <1>1 DEF PlugMoves
  <1>2. ASSUME NEW h \in Conns, HandlerStep(h) \/ \E r \in Requests[h] : Accept(h, r)
        PROVE  UNCHANGED <<loginVars, readerVars>>
    BY <1>2, HandlerFrame
  <1>3. CASE Main \/ UNCHANGED vars
    BY <1>3, MainFrame DEF vars, serialVars
  <1>4. QED
    BY <1>1, <1>2, <1>3 DEF Next

LEMMA StreamedStep == Streamed /\ [Next]_vars => Streamed'
  <1> SUFFICES ASSUME Streamed, [Next]_vars PROVE Streamed'
    OBVIOUS
  <1>1. CASE ReaderRuns
    BY <1>1, StreamedReader DEF ReaderRuns
  <1>2. CASE ~ReaderRuns
    BY <1>2, ReaderOnly DEF readerVars, Streamed, Ingesting, End
  <1>3. QED
    BY <1>1, <1>2
-----------------------------------------------------------------------------
\* The buffer's invariant: the chunks are well formed and an eviction always
\* leaves one, next to the two properties.  The accounting is an equation of
\* integers: that none of its terms is negative is not needed.
Sound ==
    /\ Streamed
    /\ chunks \in Seq(Chunk)
    /\ len \in Int /\ dropped \in Int /\ cursor \in Int
    /\ rpc = "evict" => chunks # <<>>
    /\ Accounting
    /\ BufferBounded

LEMMA SoundInit == Init => Sound
  <1> SUFFICES ASSUME Init PROVE Sound
    OBVIOUS
  <1>1. chunks \in Seq(Chunk) /\ chunks = <<>> /\ Len(chunks) = 0
    BY EmptySeq DEF Init, BufferInit
  <1>2. len = 0 /\ dropped = 0 /\ cursor = 0 /\ rpc = "closed" /\ Stored = 0
    BY DEF Init, BufferInit, ReaderInit, Stored
  <1>3. Accounting
    BY <1>1, <1>2 DEF Accounting
  <1>4. QED
    BY <1>1, <1>2, <1>3, StreamedInit, BufferAssumption DEF Sound, BufferBounded

\* A chunk's fields are numbers.
LEMMA ChunkEnds ==
    ASSUME NEW c \in Chunk
    PROVE  c.at \in Nat /\ c.n \in Nat /\ c.n >= 1 /\ End(c) \in Int
  BY BufferAssumption DEF Chunk, End

\* A step that leaves the buffer alone and is not one of a push.
LEMMA SoundQuiet ==
    ASSUME Sound, Streamed', UNCHANGED <<bufVars, cursor, captured, data>>,
           rpc' = rpc \/ (rpc \notin {"push", "evict"} /\ rpc' \notin {"push", "evict"})
    PROVE  Sound'
  BY DEF Sound, Accounting, BufferBounded, Stored, BufFree, bufVars, End

LEMMA SumGrows ==
    ASSUME NEW l \in Int, NEW d \in Int, NEW s \in Int, NEW c \in Int, NEW n \in Nat,
           l + d = s - c
    PROVE  (l + n) + d = (s + n) - c
  OBVIOUS

LEMMA SoundPush ==
    ASSUME Sound, Streamed', PushChunk
    PROVE  Sound'
  <1>1. /\ data \in Chunk /\ End(data) = captured /\ captured \in Nat
        /\ rpc = "push" /\ rpc' = "evict"
        /\ chunks \in Seq(Chunk)
        /\ chunks' = Append(chunks, data) /\ len' = len + data.n
        /\ UNCHANGED <<dropped, cursor, captured, data>>
    BY DEF Sound, Streamed, Ingesting, PushChunk, PushBack, Goes
  <1>2. /\ chunks' \in Seq(Chunk)
        /\ Len(chunks') = Len(chunks) + 1
        /\ \A i \in 1 .. Len(chunks) : chunks'[i] = chunks[i]
        /\ chunks'[Len(chunks) + 1] = data
        /\ Len(chunks) \in Nat
    BY <1>1, AppendProperties, LenProperties
  <1>3. chunks' # <<>> /\ Last(chunks') = data
    BY <1>2 DEF Last
  <1>4. /\ data.n \in Nat /\ data.at = captured - data.n + 1
        /\ Stored = captured - data.n /\ Stored \in Int
    BY <1>1, ChunkEnds DEF End, Stored
  <1>5. Stored' = captured
    BY <1>1 DEF Stored
  <1>6. len' + dropped' = Stored' - cursor'
    <2>1. len + dropped = Stored - cursor /\ len \in Int /\ dropped \in Int /\ cursor \in Int
      BY DEF Sound, Accounting
    <2>2. Stored' = Stored + data.n
      BY <1>1, <1>4, <1>5
    <2>3. (len + data.n) + dropped = (Stored + data.n) - cursor
      BY <1>4, <2>1, SumGrows
    <2>4. QED
      BY <1>1, <2>2, <2>3
  <1>7. chunks'[1].at = cursor' + dropped' + 1
    <2>1. CASE chunks = <<>>
      <3>1. chunks'[1] = data
        BY <1>2, <2>1, EmptySeq
      <3>2. QED
        <4>1. /\ dropped = 0 /\ len = 0 /\ cursor = Stored - (len + dropped)
              /\ cursor \in Int
          BY <1>4, <2>1 DEF Sound, Accounting
        <4>2. QED
          BY <1>1, <1>4, <3>1, <4>1
    <2>2. CASE chunks # <<>>
      <3>1. chunks'[1] = chunks[1]
        BY <1>1, <1>2, <2>2, EmptySeq
      <3>2. QED
        BY <1>1, <2>2, <3>1 DEF Sound, Accounting
    <2>3. QED
      BY <2>1, <2>2
  <1>8. ASSUME NEW i \in 1 .. Len(chunks') - 1
        PROVE  chunks'[i + 1].at = End(chunks'[i]) + 1
    <2>1. CASE i < Len(chunks)
      <3>1. chunks'[i] = chunks[i] /\ chunks'[i + 1] = chunks[i + 1] /\ i \in 1 .. Len(chunks) - 1
        BY <1>2, <2>1
      <3>2. QED
        BY <3>1 DEF Sound, Accounting
    <2>2. CASE i = Len(chunks)
      <3>1. chunks # <<>> /\ chunks'[i] = Last(chunks) /\ chunks'[i + 1] = data
        BY <1>2, <2>2 DEF Last
      <3>2. End(Last(chunks)) = captured - data.n
        BY <1>4, <3>1 DEF Sound, Accounting
      <3>3. QED
        BY <1>1, <1>4, <3>1, <3>2
    <2>3. QED
      BY <1>2, <1>8, <2>1, <2>2
  <1>9. Accounting'
    BY <1>1, <1>3, <1>5, <1>6, <1>7, <1>8 DEF Accounting
  <1>10. len' \in Int /\ dropped' \in Int /\ cursor' \in Int
    BY <1>1, <1>4 DEF Sound
  <1>11. QED
    BY <1>1, <1>2, <1>3, <1>9, <1>10 DEF Sound, BufferBounded, BufFree

LEMMA SoundEvict ==
    ASSUME Sound, Streamed', EvictChunk
    PROVE  Sound'
  <1>1. /\ rpc = "evict" /\ rpc' = rpc
        /\ chunks \in Seq(Chunk) /\ chunks # <<>> /\ Len(chunks) > 1
        /\ chunks' = Tail(chunks)
        /\ len' = len - Head(chunks).n /\ dropped' = dropped + Head(chunks).n
        /\ UNCHANGED <<cursor, captured, data>>
    BY DEF Sound, EvictChunk, Evict, MustEvict, readerVars
  <1>2. /\ chunks' \in Seq(Chunk)
        /\ Len(chunks') = Len(chunks) - 1
        /\ \A i \in 1 .. Len(chunks) - 1 : chunks'[i] = chunks[i + 1]
        /\ Len(chunks) \in Nat
        /\ Head(chunks) = chunks[1]
    BY <1>1, HeadTailProperties, LenProperties
  <1>3. chunks' # <<>> /\ Last(chunks') = Last(chunks)
    <2>1. Len(chunks') # 0 /\ chunks'[Len(chunks) - 1] = chunks[(Len(chunks) - 1) + 1]
      BY <1>1, <1>2
    <2>2. QED
      BY <1>2, <2>1, EmptySeq DEF Last
  <1>4. chunks[1] \in Chunk
    BY <1>1, <1>2, ElementOfSeq
  <1>5. chunks[1].n \in Nat /\ chunks[1].at \in Nat
    BY <1>4, ChunkEnds
  <1>6. UNCHANGED Stored
    BY <1>1 DEF Stored
  <1>7. chunks'[1].at = cursor' + dropped' + 1
    <2>1. chunks'[1] = chunks[2] /\ 1 \in 1 .. Len(chunks) - 1
      BY <1>1, <1>2
    <2>2. chunks[2].at = chunks[1].at + chunks[1].n
      <3>1. chunks[1 + 1].at = End(chunks[1]) + 1
        BY <2>1 DEF Sound, Accounting
      <3>2. QED
        BY <1>5, <3>1 DEF End
    <2>3. chunks[1].at = cursor + dropped + 1
      BY <1>1 DEF Sound, Accounting
    <2>4. cursor' + dropped' = cursor + (dropped + chunks[1].n)
      BY <1>1, <1>2
    <2>5. cursor \in Int /\ dropped \in Int
      BY DEF Sound
    <2>6. QED
      BY <1>5, <2>1, <2>2, <2>3, <2>4, <2>5
  <1>8. \A i \in 1 .. Len(chunks') - 1 : chunks'[i + 1].at = End(chunks'[i]) + 1
    <2>1. ASSUME NEW i \in 1 .. Len(chunks') - 1
          PROVE  chunks'[i + 1].at = End(chunks'[i]) + 1
      <3>1. /\ i + 1 \in 1 .. Len(chunks) - 1
            /\ chunks'[i] = chunks[i + 1] /\ chunks'[i + 1] = chunks[(i + 1) + 1]
        BY <1>2, <2>1
      <3>2. QED
        BY <3>1 DEF Sound, Accounting
    <2>2. QED
      BY <2>1
  <1>9. Accounting'
    <2>1. len' + dropped' = Stored' - cursor'
      BY <1>1, <1>2, <1>5, <1>6 DEF Sound, Accounting
    <2>2. End(Last(chunks')) = Stored'
      BY <1>1, <1>3, <1>6 DEF Sound, Accounting
    <2>3. QED
      BY <1>3, <1>7, <1>8, <2>1, <2>2 DEF Accounting
  <1>10. len' \in Int /\ dropped' \in Int /\ cursor' \in Int
    BY <1>1, <1>2, <1>5 DEF Sound
  <1>11. QED
    BY <1>1, <1>2, <1>3, <1>9, <1>10 DEF Sound, BufferBounded, BufFree

LEMMA SoundPushed ==
    ASSUME Sound, Streamed', Pushed
    PROVE  Sound'
  <1>1. /\ rpc = "evict" /\ rpc' = "log" /\ ~MustEvict
        /\ UNCHANGED <<bufVars, cursor, captured, data>>
    BY DEF Pushed, Goes, sinkVars
  <1>2. chunks # <<>> /\ chunks \in Seq(Chunk) /\ Len(chunks) \in Nat /\ Len(chunks) # 0
    BY <1>1, EmptySeq, LenProperties DEF Sound
  <1>3. len <= Cap \/ Len(chunks) = 1
    <2>1. len \in Int
      BY DEF Sound
    <2>2. ~(len > Cap /\ Len(chunks) > 1)
      BY <1>1 DEF MustEvict
    <2>3. PICK k \in Nat : k = Len(chunks) /\ k # 0
      BY <1>2
    <2>4. PICK b \in Int : b = len
      BY <2>1
    <2>5. b > Cap \/ b <= Cap
      BY BufferAssumption
    <2>6. k > 1 \/ k = 1
      BY <2>3
    <2>7. QED
      BY <2>2, <2>3, <2>4, <2>5, <2>6
  <1>4. QED
    BY <1>1, <1>3 DEF Sound, Accounting, BufferBounded, Stored, BufFree, bufVars, End

LEMMA SoundDrain ==
    ASSUME Sound, Streamed', BufFree, Drain, UNCHANGED <<rpc, captured, data>>
    PROVE  Sound'
  <1>1. /\ chunks' = <<>> /\ chunks' \in Seq(Chunk) /\ Len(chunks') = 0
        /\ len' = 0 /\ dropped' = 0
    BY EmptySeq DEF Drain
  <1>2. cursor' = Stored /\ Stored \in Int
    <2>1. Stored \in Int
      BY ChunkEnds DEF Sound, Streamed, Ingesting, Stored
    <2>2. QED
      BY <2>1 DEF Drain, Sound, Accounting
  <1>3. UNCHANGED Stored
    BY DEF Stored
  <1>4. QED
    BY <1>1, <1>2, <1>3, BufferAssumption DEF Sound, Accounting, BufferBounded, BufFree

LEMMA SoundStep == Sound /\ [Next]_vars => Sound'
  <1> SUFFICES ASSUME Sound, [Next]_vars PROVE Sound'
    OBVIOUS
  <1>1. Streamed'
    BY StreamedStep DEF Sound
  <1>2. CASE ReaderRuns
    <2>1. ReaderStep
      BY <1>2 DEF ReaderRuns
    <2>2. ASSUME NEW n \in 1 .. ReadBuf, ReadPort(n)
          PROVE  Sound'
      <3>1. /\ rpc = "capture" /\ rpc' = "push"
            /\ captured' - data'.n = captured
            /\ UNCHANGED <<bufVars, cursor>>
        BY <2>2, ReaderAssumption DEF ReadPort, Goes, Sound, Streamed, sinkVars
      <3>2. UNCHANGED Stored
        BY <3>1 DEF Stored
      <3>3. QED
        BY <1>1, <3>1, <3>2 DEF Sound, Accounting, BufferBounded, BufFree, bufVars, End
    <2>3. CASE PushChunk
      BY <1>1, <2>3, SoundPush
    <2>4. CASE EvictChunk
      BY <1>1, <2>4, SoundEvict
    <2>5. CASE Pushed
      BY <1>1, <2>5, SoundPushed
    <2>6. CASE OpenPort \/ Announce \/ LosePort \/ DropWriter \/ NoteLoss \/ LogChunk
               \/ Broadcast \/ DriveLogin \/ ReaderWrites \/ ReaderStops
      <3>1. /\ UNCHANGED <<bufVars, cursor, captured, data>>
            /\ rpc' = rpc \/ (rpc \notin {"push", "evict"} /\ rpc' \notin {"push", "evict"})
        BY <2>6
        DEF OpenPort, Announce, LosePort, DropWriter, NoteLoss, LogChunk, Broadcast,
            DriveLogin, ReaderWrites,
            ReaderStops, Goes, sinkVars
      <3>2. QED
        BY <1>1, <3>1, SoundQuiet
    <2>7. QED
      BY <2>1, <2>2, <2>3, <2>4, <2>5, <2>6 DEF ReaderStep
  <1>3. CASE UNCHANGED <<bufVars, cursor, readerVars>>
    BY <1>1, <1>3, SoundQuiet DEF readerVars
  <1>4. ASSUME NEW h \in Conns, HandlerStep(h) \/ \E r \in Requests[h] : Accept(h, r)
        PROVE  Sound'
    <2>1. CASE ReadDrains(h)
      BY <1>1, <2>1, SoundDrain DEF ReadDrains, readerVars
    <2>2. CASE ~ReadDrains(h)
      <3>1. UNCHANGED <<bufVars, cursor, readerVars>>
        BY <1>4, <2>2
        DEF HandlerStep, Quick, Accept, ReadStores, Peek, Status, Stop, BeginSend, Subscribe,
            BadPattern, HandlerWrites, Receive, Timeout, Reply, sinkVars
      <3>2. QED
        BY <1>3, <3>1
    <2>3. QED
      BY <2>1, <2>2
  <1>5. CASE PlugMoves
    BY <1>3, <1>5 DEF PlugMoves, sinkVars
  <1>6. CASE Main \/ UNCHANGED vars
    BY <1>3, <1>6, MainFrame DEF vars, sinkVars
  <1>7. QED
    BY <1>2, <1>4, <1>5, <1>6 DEF Next

\* No byte is lost without being counted and none is returned twice, whatever
\* reads, evictions and reconnects happen between two of the reader's steps.
THEOREM NothingLostSilently == Spec => []Accounting
  <1>1. Sound => Accounting
    BY DEF Sound
  <1>2. QED
    BY <1>1, SoundInit, SoundStep, PTL DEF Spec

\* The buffer exceeds its cap only by a chunk that is larger than the cap.
THEOREM BufferIsBounded == Spec => []BufferBounded
  <1>1. Sound => BufferBounded
    BY DEF Sound
  <1>2. QED
    BY <1>1, SoundInit, SoundStep, PTL DEF Spec
-----------------------------------------------------------------------------
\* What the login state machine has seen: the chunk being ingested counts only
\* once DriveLogin has fed it.
Fed == IF Ingesting THEN captured - data.n ELSE captured

\* The window holds bytes of this connection only, and while a password is
\* awaited, only bytes after the login prompt that was answered.
Watching ==
    /\ Streamed
    /\ opened \in Nat /\ opened <= Fed
    /\ awaiting \in BOOLEAN
    /\ window \in Seq(opened + 1 .. Fed)
    /\ awaiting => \E q \in LoginEnds :
                      opened < q - 1 /\ q <= Fed /\ window \in Seq(q + 1 .. Fed)
    /\ ~AutoLogin => ~awaiting /\ window = <<>>
    /\ PasswordAsked

LEMMA FedType == Streamed => Fed \in Nat /\ Fed <= captured
  <1> SUFFICES ASSUME Streamed PROVE Fed \in Nat /\ Fed <= captured
    OBVIOUS
  <1>1. CASE Ingesting
    <2>1. data.at \in Nat /\ data.n \in Nat /\ data.at >= 1 /\ captured = data.at + data.n - 1
      BY <1>1, BufferAssumption DEF Streamed, Chunk, End
    <2>2. captured - data.n = data.at - 1
      BY <2>1
    <2>3. QED
      BY <1>1, <2>1, <2>2 DEF Fed, Streamed
  <1>2. CASE ~Ingesting
    BY <1>2 DEF Fed, Streamed
  <1>3. QED
    BY <1>1, <1>2

LEMMA WatchingInit == Init => Watching
  <1> SUFFICES ASSUME Init PROVE Watching
    OBVIOUS
  <1>1. window = <<>> /\ awaiting = FALSE /\ opened = 0 /\ captured = 0 /\ rpc = "closed"
    BY DEF Init, PortInit, ReaderInit
  <1>2. Fed = 0
    BY <1>1 DEF Fed, Ingesting
  <1>3. window \in Seq(opened + 1 .. Fed)
    BY <1>1, EmptySeq
  <1>4. awaiting \in BOOLEAN /\ ~awaiting
    BY <1>1
  <1>5. QED
    BY <1>1, <1>2, <1>3, <1>4, StreamedInit DEF Watching, PasswordAsked

\* What LastOf returns is made of what it is given.
LEMMA LastOfType ==
    ASSUME NEW S, NEW text \in Seq(S), NEW n \in Nat
    PROVE  LastOf(text, n) \in Seq(S)
  <1>1. CASE Len(text) > n
    <2>1. Len(text) \in Nat
      BY LenProperties
    <2>2. \A j \in Len(text) - n + 1 .. Len(text) : text[j] \in S
      BY <1>1, <2>1, ElementOfSeq
    <2>3. SubSeq(text, Len(text) - n + 1, Len(text)) \in Seq(S)
      BY <1>1, <2>1, <2>2, SubSeqProperties
    <2>4. QED
      BY <1>1, <2>3 DEF LastOf
  <1>2. CASE ~(Len(text) > n)
    BY <1>2 DEF LastOf
  <1>3. QED
    BY <1>1, <1>2

\* A function on 1 .. n is a sequence.
LEMMA FunctionIsSeq ==
    ASSUME NEW S, NEW n \in Nat, NEW f \in [1 .. n -> S]
    PROVE  f \in Seq(S)
  <1>1. Seq(S) = UNION {[1 .. k -> S] : k \in Nat}
    BY SeqDef
  <1>2. [1 .. n -> S] \in {[1 .. k -> S] : k \in Nat}
    OBVIOUS
  <1>3. QED
    BY <1>1, <1>2

\* A prompt that a text shows lies within it.
LEMMA ShownWithin ==
    ASSUME NEW a \in Int, NEW b \in Int, NEW text \in Seq(a .. b), NEW ends,
           Shows(text, ends)
    PROVE  \E p \in ends : p \in Int /\ a <= p - 1 /\ p <= b
  <1>1. PICK i \in 2 .. Len(text) : text[i] \in ends /\ text[i - 1] = text[i] - 1
    BY DEF Shows
  <1>2. i \in 1 .. Len(text) /\ i - 1 \in 1 .. Len(text)
    BY <1>1, LenProperties
  <1>3. text[i] \in a .. b /\ text[i - 1] \in a .. b
    BY <1>2, ElementOfSeq
  <1>4. QED
    BY <1>1, <1>3

LEMMA RunWithin ==
    ASSUME NEW at \in Nat, NEW n \in Nat, NEW a \in Nat, NEW fed \in Nat, a <= fed, at = fed + 1
    PROVE  \A i \in 1 .. n : at + i - 1 \in a + 1 .. fed + n
  OBVIOUS

\* The window after a chunk, whatever part of the stream it covered before.
LEMMA SeenType ==
    ASSUME Streamed, Ingesting, NEW a \in Nat, a <= Fed, window \in Seq(a + 1 .. Fed)
    PROVE  LastOf(window \o Bytes(data), Window) \in Seq(a + 1 .. captured)
  <1>1. /\ data.at \in Nat /\ data.n \in Nat /\ captured \in Nat
        /\ data.at = Fed + 1 /\ captured = Fed + data.n /\ Fed \in Nat /\ Fed <= captured
    BY ChunkEnds, FedType DEF Streamed, Fed, End
  <1>2. Bytes(data) \in Seq(a + 1 .. captured)
    <2>1. \A i \in 1 .. data.n : data.at + i - 1 \in a + 1 .. captured
      BY <1>1, RunWithin
    <2>2. Bytes(data) \in [1 .. data.n -> a + 1 .. captured]
      BY <2>1 DEF Bytes
    <2>3. QED
      BY <1>1, <2>2, FunctionIsSeq
  <1>3. window \in Seq(a + 1 .. captured)
    <2>1. a + 1 .. Fed \subseteq a + 1 .. captured
      BY <1>1
    <2>2. QED
      BY <2>1, SeqMonotonic
  <1>4. window \o Bytes(data) \in Seq(a + 1 .. captured)
    BY <1>2, <1>3, ConcatProperties
  <1>5. QED
    BY <1>4, LastOfType, PortAssumption

LEMMA WatchingLogin == Watching /\ Streamed' /\ DriveLogin => Watching'
  <1> SUFFICES ASSUME Watching, Streamed', DriveLogin PROVE Watching'
    OBVIOUS
  <1> DEFINE seen == LastOf(window \o Bytes(data), Window)
  <1>0. /\ Ingesting /\ ~Ingesting' /\ Fed' = captured /\ Fed \in Nat /\ Fed <= captured
        /\ captured \in Nat /\ opened \in Nat /\ opened <= Fed
        /\ UNCHANGED <<captured, opened>>
    BY FedType DEF DriveLogin, Goes, Ingesting, Fed, Watching, Streamed
  <1>1. seen \in Seq(opened + 1 .. captured)
    BY <1>0, SeenType DEF Watching
  <1>2. CASE ~AutoLogin
    <2>1. /\ ~awaiting /\ window = <<>> /\ awaiting' = awaiting /\ window' = window
          /\ rpc' = "capture"
      BY <1>2 DEF DriveLogin, Goes, Watching, loginVars
    <2>2. window' \in Seq(opened' + 1 .. Fed')
      BY <2>1, EmptySeq
    <2>3. QED
      BY <1>0, <1>2, <2>1, <2>2 DEF Watching, PasswordAsked
  <1>3. CASE AutoLogin /\ Prompted(Bytes(data))
    <2>1. /\ awaiting' = ~awaiting /\ window' = <<>> /\ rpc' = "send"
          /\ Shows(seen, IF awaiting THEN PassEnds ELSE LoginEnds)
      BY <1>3 DEF DriveLogin, Goes, Feed, Prompted
    <2>2. \A S : window' \in Seq(S)
      BY <2>1, EmptySeq
    <2>3. CASE awaiting
      <3>1. PICK q \in LoginEnds : opened < q - 1 /\ q <= Fed /\ window \in Seq(q + 1 .. Fed)
        BY <2>3 DEF Watching
      <3>2. q \in Nat
        BY PortAssumption, BufferAssumption
      <3>3. seen \in Seq(q + 1 .. captured)
        BY <1>0, <3>1, <3>2, SeenType DEF Watching
      <3>4. PICK p \in PassEnds : p \in Int /\ q + 1 <= p - 1 /\ p <= captured
        BY <1>0, <2>1, <2>3, <3>2, <3>3, ShownWithin
      <3>5. PasswordAsked'
        BY <1>0, <3>1, <3>2, <3>4 DEF PasswordAsked
      <3>6. QED
        <4>1. awaiting' \in BOOLEAN /\ ~awaiting'
          BY <2>1, <2>3 DEF Watching
        <4>2. window' \in Seq(opened' + 1 .. Fed')
          BY <2>2
        <4>3. opened' \in Nat /\ opened' <= Fed'
          BY <1>0
        <4>4. QED
          BY <1>3, <2>1, <3>5, <4>1, <4>2, <4>3 DEF Watching
    <2>4. CASE ~awaiting
      <3>1. PICK q \in LoginEnds : q \in Int /\ opened + 1 <= q - 1 /\ q <= captured
        BY <1>0, <1>1, <2>1, <2>4, ShownWithin
      <3>2. awaiting' \in BOOLEAN /\ awaiting'
        BY <2>1, <2>4 DEF Watching
      <3>3. /\ opened' < q - 1 /\ q <= Fed'
            /\ opened' \in Nat /\ opened' <= Fed'
        BY <1>0, <3>1
      <3>4. window' \in Seq(opened' + 1 .. Fed') /\ window' \in Seq(q + 1 .. Fed')
        BY <2>2
      <3>5. QED
        BY <1>3, <2>1, <3>2, <3>3, <3>4 DEF Watching, PasswordAsked
    <2>5. QED
      BY <2>3, <2>4
  <1>4. CASE AutoLogin /\ ~Prompted(Bytes(data))
    <2>1. awaiting' = awaiting /\ window' = seen /\ rpc' = "capture"
      BY <1>4 DEF DriveLogin, Goes, Feed
    <2>2. ASSUME awaiting
          PROVE  \E q \in LoginEnds :
                    opened' < q - 1 /\ q <= Fed' /\ window' \in Seq(q + 1 .. Fed')
      <3>1. PICK q \in LoginEnds : opened < q - 1 /\ q <= Fed /\ window \in Seq(q + 1 .. Fed)
        BY <2>2 DEF Watching
      <3>2. q \in Nat
        BY PortAssumption, BufferAssumption
      <3>3. seen \in Seq(q + 1 .. captured)
        BY <1>0, <3>1, <3>2, SeenType DEF Watching
      <3>4. QED
        BY <1>0, <2>1, <3>1, <3>2, <3>3
    <2>3. /\ opened' \in Nat /\ opened' <= Fed'
          /\ window' \in Seq(opened' + 1 .. Fed')
      BY <1>0, <1>1, <2>1
    <2>4. awaiting' \in BOOLEAN
      BY <2>1 DEF Watching
    <2>5. PasswordAsked'
      BY <2>1 DEF PasswordAsked
    <2>6. QED
      BY <1>4, <2>1, <2>2, <2>3, <2>4, <2>5 DEF Watching
  <1>5. QED
    BY <1>2, <1>3, <1>4

LEMMA WatchingReader == Watching /\ Streamed' /\ ReaderStep => Watching'
  <1> SUFFICES ASSUME Watching, Streamed', ReaderStep PROVE Watching'
    OBVIOUS
  <1>1. CASE OpenPort
    <2>1. /\ window' = <<>> /\ awaiting' = FALSE
      BY <1>1 DEF OpenPort, Rearm, Watching, loginVars
    <2>2. opened' \in Nat /\ opened' = Fed' /\ rpc' = "opened"
      BY <1>1 DEF OpenPort, Goes, Fed, Ingesting, Watching, Streamed
    <2>3. window' \in Seq(opened' + 1 .. Fed')
      BY <2>1, EmptySeq
    <2>4. awaiting' \in BOOLEAN /\ ~awaiting'
      BY <2>1
    <2>5. QED
      BY <2>1, <2>2, <2>3, <2>4 DEF Watching, PasswordAsked
  <1>2. ASSUME NEW n \in 1 .. ReadBuf, ReadPort(n)
        PROVE  Watching'
    <2>1. captured' - data'.n = captured /\ rpc = "capture" /\ rpc' = "push"
      BY <1>2, ReaderAssumption DEF ReadPort, Goes, Watching, Streamed
    <2>2. UNCHANGED <<Fed, opened, loginVars>>
      BY <1>2, <2>1 DEF ReadPort, Fed, Ingesting, serialVars
    <2>3. QED
      BY <2>1, <2>2 DEF Watching, PasswordAsked, loginVars
  <1>3. CASE DriveLogin
    BY <1>3, WatchingLogin
  <1>4. CASE /\ UNCHANGED <<captured, data, opened, loginVars>>
             /\ Ingesting' = Ingesting
             /\ rpc' = "send" => rpc = "send"
    BY <1>4 DEF Watching, PasswordAsked, Fed, loginVars
  <1>5. QED
    BY <1>1, <1>2, <1>3, <1>4
    DEF ReaderStep, Announce, LosePort, DropWriter, NoteLoss, PushChunk, EvictChunk, Pushed,
        LogChunk, Broadcast,
        ReaderWrites, ReaderStops, Goes, Ingesting, readerVars, serialVars

LEMMA WatchingStep == Watching /\ [Next]_vars => Watching'
  <1> SUFFICES ASSUME Watching, [Next]_vars PROVE Watching'
    OBVIOUS
  <1>1. Streamed'
    BY StreamedStep DEF Watching
  <1>2. CASE ReaderRuns
    BY <1>1, <1>2, WatchingReader DEF ReaderRuns
  <1>3. CASE ~ReaderRuns
    BY <1>1, <1>3, ReaderOnly DEF Watching, PasswordAsked, Fed, Ingesting, loginVars, readerVars
  <1>4. QED
    BY <1>2, <1>3

\* The password goes out only after this connection has shown a login prompt
\* and then a password prompt, however the stream is cut into chunks and
\* however often the port is lost.
THEOREM PasswordIsAsked == Spec => []PasswordAsked
  <1>1. Watching => PasswordAsked
    BY DEF Watching
  <1>2. QED
    BY <1>1, WatchingInit, WatchingStep, PTL DEF Spec
=============================================================================
