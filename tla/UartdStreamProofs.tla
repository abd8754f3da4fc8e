------------------------- MODULE UartdStreamProofs -------------------------
(***************************************************************************)
(* Theorems about what the daemon does with the captured stream, for every *)
(* stream, pace of the port and number of connections and reconnects: the  *)
(* forensic log, the markers in it, and what a waiter hears.               *)
(***************************************************************************)
EXTENDS UartdProofs, FiniteSetTheorems
-----------------------------------------------------------------------------
\* Numbers in order.  A set of naturals has a least element: the intervals
\* from 0 to its members are finite, and strict inclusion is well founded.
LEMMA LeastElement ==
    ASSUME NEW T, T \subseteq Nat, T # {}
    PROVE  \E m \in T : \A n \in T : m <= n
  <1> DEFINE I == {0 .. n : n \in T}
  <1>1. I \subseteq FiniteSubsetsOf(Nat) /\ I # {}
    <2>1. ASSUME NEW n \in T PROVE 0 .. n \in FiniteSubsetsOf(Nat)
      <3>1. n \in Nat /\ n \in Int /\ 0 \in Int
        OBVIOUS
      <3>2. IsFiniteSet(0 .. n)
        BY <3>1, FS_Interval
      <3>3. 0 .. n \in SUBSET Nat
        OBVIOUS
      <3>4. QED
        BY <3>2, <3>3 DEF FiniteSubsetsOf
    <2>2. QED
      BY <2>1
  <1>2. PICK x \in I : \A y \in I : ~(<<y, x>> \in StrictSubsetOrdering(Nat))
    <2>1. IsWellFoundedOn(StrictSubsetOrdering(Nat), FiniteSubsetsOf(Nat))
      BY FS_StrictSubsetOrderingWellFounded
    <2> HIDE DEF I
    <2>2. QED
      BY <1>1, <2>1, WFMin
  <1>3. PICK m \in T : x = 0 .. m
    OBVIOUS
  <1>4. ASSUME NEW n \in T, n < m
        PROVE  FALSE
    <2>1. 0 .. n \subseteq 0 .. m /\ 0 .. n # 0 .. m /\ 0 .. n \in SUBSET Nat /\ 0 .. m \in SUBSET Nat
      BY <1>4
    <2>2. <<0 .. n, 0 .. m>> \in StrictSubsetOrdering(Nat)
      BY <2>1 DEF StrictSubsetOrdering
    <2>3. QED
      BY <1>2, <1>3, <2>2
  <1>5. QED
    BY <1>4

\* Rank counts the members up to a number.
LEMMA RankType ==
    ASSUME NEW S, IsFiniteSet(S), NEW x
    PROVE  /\ IsFiniteSet({y \in S : y <= x})
           /\ Rank(x, S) \in Nat
           /\ Rank(x, S) <= Cardinality(S)
  BY FS_Subset, FS_CardinalityType DEF Rank

LEMMA RankStep ==
    ASSUME NEW S, S \subseteq Nat, IsFiniteSet(S), NEW m \in Nat
    PROVE  Rank(m + 1, S) = IF m + 1 \in S THEN Rank(m, S) + 1 ELSE Rank(m, S)
  <1> DEFINE below == {y \in S : y <= m}
  <1>1. IsFiniteSet(below) /\ m + 1 \notin below
    BY RankType
  <1>2. CASE m + 1 \in S
    <2>1. \A y \in S : y \in Nat
      OBVIOUS
    <2>2. \A y \in S : y <= m + 1 <=> y <= m \/ y = m + 1
      BY <2>1
    <2>3. {y \in S : y <= m + 1} = below \cup {m + 1}
      BY <1>2, <2>1, <2>2
    <2>4. Cardinality(below \cup {m + 1}) = Cardinality(below) + 1
      <3> HIDE DEF below
      <3>1. QED
        BY <1>1, FS_AddElement
    <2>5. QED
      BY <1>2, <2>3, <2>4 DEF Rank
  <1>3. CASE m + 1 \notin S
    <2>1. \A y \in S : y \in Nat /\ y # m + 1
      BY <1>3
    <2>2. \A y \in S : y <= m + 1 <=> y <= m
      BY <2>1
    <2>3. {y \in S : y <= m + 1} = below
      BY <2>2
    <2>4. QED
      BY <1>3, <2>3 DEF Rank
  <1>4. QED
    BY <1>2, <1>3

LEMMA RankGrows ==
    ASSUME NEW S, S \subseteq Nat, IsFiniteSet(S), NEW a \in Nat, NEW b \in Nat, a < b
    PROVE  Rank(a, S) <= Rank(b, S) /\ (b \in S => Rank(a, S) < Rank(b, S))
  <1> DEFINE A == {y \in S : y <= a}
             B == {y \in S : y <= b}
  <1>1. A \in SUBSET B /\ IsFiniteSet(B)
    <2>1. \A y \in S : y \in Nat
      OBVIOUS
    <2>2. \A y \in S : y <= a => y <= b
      BY <2>1
    <2>3. QED
      BY <2>2, RankType
  <1>2. b \in S => b \in B /\ b \notin A
    OBVIOUS
  <1>3. Rank(a, S) = Cardinality(A) /\ Rank(b, S) = Cardinality(B)
        /\ Rank(a, S) \in Nat /\ Rank(b, S) \in Nat
    BY RankType DEF Rank
  <1> HIDE DEF A, B
  <1>4. Cardinality(A) <= Cardinality(B) /\ (Cardinality(B) = Cardinality(A) => B = A)
    BY <1>1, FS_Subset
  <1>5. QED
    BY <1>2, <1>3, <1>4

LEMMA RankInjective ==
    ASSUME NEW S, S \subseteq Nat, IsFiniteSet(S), NEW a \in S, NEW b \in S,
           Rank(a, S) = Rank(b, S)
    PROVE  a = b
  <1>1. a \in Nat /\ b \in Nat /\ Rank(a, S) \in Nat /\ Rank(b, S) \in Nat
    <2>1. a \in Nat /\ b \in Nat
      OBVIOUS
    <2>2. QED
      BY <2>1, RankType
  <1>2. ASSUME a < b PROVE FALSE
    <2>1. Rank(a, S) < Rank(b, S)
      BY <1>1, <1>2, RankGrows
    <2>2. QED
      BY <1>1, <2>1
  <1>3. ASSUME b < a PROVE FALSE
    <2>1. Rank(b, S) < Rank(a, S)
      BY <1>1, <1>3, RankGrows
    <2>2. QED
      BY <1>1, <2>1
  <1>4. QED
    BY <1>1, <1>2, <1>3

\* Every place is taken.
LEMMA NthExists ==
    ASSUME NEW n \in Nat, NEW S \in SUBSET (1 .. n), NEW k \in 1 .. Cardinality(S)
    PROVE  \E i \in S : Rank(i, S) = k
  <1>1. S \subseteq Nat /\ IsFiniteSet(S) /\ Cardinality(S) \in Nat
    <2>1. IsFiniteSet(1 .. n)
      BY FS_Interval
    <2>2. IsFiniteSet(S)
      BY <2>1, FS_Subset
    <2>3. QED
      BY <2>2, FS_CardinalityType
  <1>2. Rank(n, S) = Cardinality(S) /\ Rank(0, S) = 0
    <2>0. \A y \in S : y \in Nat /\ y >= 1 /\ y <= n
      OBVIOUS
    <2>1. {y \in S : y <= n} = S
      BY <2>0
    <2>2. \A y \in S : ~(y <= 0)
      BY <2>0
    <2>3. {y \in S : y <= 0} = {}
      BY <2>2
    <2>4. QED
      BY <2>1, <2>3, FS_EmptySet DEF Rank
  <1> DEFINE T == {m \in Nat : Rank(m, S) >= k}
  <1>3. n \in T
    BY <1>1, <1>2
  <1>4. PICK m \in T : \A j \in T : m <= j
    <2>1. T \subseteq Nat /\ T # {}
      BY <1>3
    <2> HIDE DEF T
    <2>2. QED
      BY <2>1, LeastElement
  <1>5. m # 0 /\ m \in Nat /\ m - 1 \in Nat /\ m - 1 \notin T /\ k \in Nat
    BY <1>1, <1>2, <1>4
  <1>6. Rank(m - 1, S) < k /\ Rank(m, S) >= k /\ Rank(m - 1, S) \in Nat /\ Rank(m, S) \in Nat
    <2>1. Rank(m - 1, S) \in Nat /\ Rank(m, S) \in Nat
      BY <1>1, RankType
    <2>2. QED
      BY <1>4, <1>5, <2>1
  <1>7. Rank(m, S) = IF m \in S THEN Rank(m - 1, S) + 1 ELSE Rank(m - 1, S)
    <2>1. Rank((m - 1) + 1, S) = IF (m - 1) + 1 \in S THEN Rank(m - 1, S) + 1 ELSE Rank(m - 1, S)
      BY <1>1, <1>5, RankStep
    <2>2. (m - 1) + 1 = m
      BY <1>5
    <2>3. QED
      BY <2>1, <2>2
  <1>8. m \in S /\ Rank(m, S) = k
    BY <1>5, <1>6, <1>7
  <1>9. QED
    BY <1>8

\* The greatest of finitely many naturals.
LEMMA GreatestElement ==
    ASSUME NEW n \in Nat, NEW S \in SUBSET (0 .. n), S # {}
    PROVE  Max(S) \in S /\ \A y \in S : y <= Max(S)
  <1> DEFINE T == {m \in Nat : \A y \in S : y <= m}
  <1>1. T \subseteq Nat /\ n \in T
    OBVIOUS
  <1>2. PICK m \in T : \A j \in T : m <= j
    <2> HIDE DEF T
    <2>1. QED
      BY <1>1, LeastElement
  <1>3. m \in S
    <2>1. SUFFICES ASSUME m \notin S PROVE FALSE
      OBVIOUS
    <2>2. \A y \in S : y \in Nat /\ y <= m /\ y # m
      BY <2>1
    <2>3. m # 0 /\ m - 1 \in Nat
      <3>1. PICK y \in S : TRUE
        OBVIOUS
      <3>2. y \in Nat /\ y <= m /\ y # m /\ m \in Nat
        BY <2>2
      <3>3. QED
        BY <3>2
    <2>4. \A y \in S : y <= m - 1
      BY <2>2
    <2>5. m - 1 \in T
      BY <2>3, <2>4
    <2>6. QED
      BY <1>2, <2>3, <2>5
  <1>4. \E x \in S : \A y \in S : x >= y
    BY <1>2, <1>3
  <1>5. Max(S) \in S /\ \A y \in S : Max(S) >= y
    BY <1>4 DEF Max
  <1>6. QED
    BY <1>5
-----------------------------------------------------------------------------
\* Which steps change what.
LEMMA BufferSteps ==
    ASSUME [Next]_vars
    PROVE  \/ PushChunk \/ EvictChunk
           \/ \E h \in Conns : ReadDrains(h)
           \/ UNCHANGED <<bufVars, cursor>>
  <1>1. CASE ReaderRuns
    BY <1>1
    DEF ReaderRuns, ReaderStep, OpenPort, Announce, LosePort, DropWriter, NoteLoss, ReadPort,
        Pushed, LogChunk, Broadcast, DriveLogin, ReaderWrites, ReaderStops, sinkVars
  <1>2. ASSUME NEW h \in Conns, HandlerStep(h) \/ \E r \in Requests[h] : Accept(h, r),
               ~ReadDrains(h)
        PROVE  UNCHANGED <<bufVars, cursor>>
    BY <1>2
    DEF HandlerStep, Quick, Accept, ReadStores, Peek, Status, Stop, BeginSend, Subscribe,
        BadPattern, HandlerWrites, Receive, Timeout, Reply, sinkVars
  <1>3. CASE PlugMoves \/ Main \/ UNCHANGED vars
    BY <1>3, MainFrame DEF PlugMoves, vars, sinkVars
  <1>4. QED
    BY <1>1, <1>2, <1>3 DEF Next

LEMMA LogSteps ==
    ASSUME [Next]_vars
    PROVE  \/ Announce \/ NoteLoss \/ LogChunk
           \/ UNCHANGED logVars /\ (rpc' # rpc => ReaderStep)
  <1>1. CASE ReaderRuns
    BY <1>1
    DEF ReaderRuns, ReaderStep, OpenPort, LosePort, DropWriter, ReadPort, PushChunk,
        EvictChunk, Pushed, Broadcast, DriveLogin, ReaderWrites, ReaderStops, sinkVars
  <1>2. ASSUME NEW h \in Conns, HandlerStep(h) \/ \E r \in Requests[h] : Accept(h, r)
        PROVE  UNCHANGED <<logVars, rpc>>
    BY <1>2, HandlerFrame DEF readerVars
  <1>3. CASE PlugMoves \/ Main \/ UNCHANGED vars
    BY <1>3, MainFrame DEF PlugMoves, vars, sinkVars, readerVars
  <1>4. QED
    BY <1>1, <1>2, <1>3 DEF Next
-----------------------------------------------------------------------------
\* The chunks of the stream end within it.
Real == {c \in Chunk : End(c) <= MaxBytes}

\* The chunks in the buffer are in the order of the stream, which is what
\* makes its length a natural number.
InOrder ==
    /\ dropped \in Nat /\ cursor \in Nat
    /\ \A i, j \in 1 .. Len(chunks) : i <= j => chunks[i].at <= chunks[j].at

LEMMA InOrderStep == Sound /\ InOrder /\ Sound' /\ [Next]_vars => InOrder'
  <1> SUFFICES ASSUME Sound, InOrder, Sound', [Next]_vars PROVE InOrder'
    OBVIOUS
  <1>1. CASE PushChunk
    <2>1. /\ data \in Chunk /\ End(data) = captured /\ rpc = "push"
          /\ chunks \in Seq(Chunk)
          /\ chunks' = Append(chunks, data) /\ UNCHANGED <<dropped, cursor>>
      BY <1>1 DEF Sound, Streamed, Ingesting, PushChunk, PushBack, Goes
    <2>2. /\ Len(chunks') = Len(chunks) + 1 /\ Len(chunks) \in Nat
          /\ \A i \in 1 .. Len(chunks) : chunks'[i] = chunks[i] /\ chunks[i] \in Chunk
          /\ chunks'[Len(chunks) + 1] = data
      BY <2>1, AppendProperties, LenProperties, ElementOfSeq
    <2>3. data.at \in Nat /\ data.n \in Nat /\ data.at = captured - data.n + 1 /\ captured \in Nat
      <3>1. data.at \in Nat /\ data.n \in Nat
        BY <2>1, ChunkEnds
      <3>2. captured \in Nat
        BY DEF Sound, Streamed
      <3>3. data.at + data.n - 1 = captured
        BY <2>1 DEF End
      <3>4. QED
        BY <3>1, <3>2, <3>3
    <2>4. ASSUME NEW i \in 1 .. Len(chunks)
          PROVE  chunks[i].at \in Nat /\ chunks[i].at <= data.at
      <3>1. chunks # <<>> /\ Len(chunks) \in 1 .. Len(chunks) /\ i <= Len(chunks)
        BY <2>2, EmptySeq
      <3>2. End(chunks[Len(chunks)]) = captured - data.n
        BY <2>1, <3>1 DEF Sound, Accounting, Stored, Last
      <3>3. chunks[Len(chunks)].at <= End(chunks[Len(chunks)])
        BY <2>2, <3>1, ChunkEnds DEF End
      <3>4. chunks[i].at <= chunks[Len(chunks)].at
        BY <3>1 DEF InOrder
      <3>5. chunks[i].at \in Nat /\ chunks[Len(chunks)].at \in Nat
        BY <2>2, <3>1, ChunkEnds
      <3>6. QED
        BY <2>3, <3>2, <3>3, <3>4, <3>5
    <2>5. ASSUME NEW i \in 1 .. Len(chunks'), NEW j \in 1 .. Len(chunks'), i <= j
          PROVE  chunks'[i].at <= chunks'[j].at
      <3>1. CASE j \in 1 .. Len(chunks)
        <4>1. i \in 1 .. Len(chunks)
          BY <2>2, <2>5, <3>1
        <4>2. QED
          BY <2>2, <2>5, <3>1, <4>1 DEF InOrder
      <3>2. CASE j = Len(chunks) + 1
        <4>1. chunks'[j] = data
          BY <2>2, <3>2
        <4>2. CASE i \in 1 .. Len(chunks)
          BY <2>2, <2>4, <4>1, <4>2
        <4>3. CASE i = Len(chunks) + 1
          BY <2>3, <3>2, <4>1, <4>3
        <4>4. QED
          BY <2>2, <4>2, <4>3
      <3>3. QED
        BY <2>2, <3>1, <3>2
    <2>6. QED
      BY <2>1, <2>5 DEF InOrder
  <1>2. CASE EvictChunk
    <2>1. /\ chunks \in Seq(Chunk) /\ chunks # <<>> /\ chunks' = Tail(chunks)
          /\ dropped' = dropped + Head(chunks).n /\ cursor' = cursor
      BY <1>2 DEF Sound, EvictChunk, Evict, MustEvict
    <2>2. /\ Len(chunks') = Len(chunks) - 1 /\ Len(chunks) \in Nat
          /\ \A i \in 1 .. Len(chunks') : chunks'[i] = chunks[i + 1]
          /\ Head(chunks) \in Chunk
      BY <2>1, HeadTailProperties, LenProperties
    <2>3. dropped' \in Nat
      BY <2>1, <2>2, ChunkEnds DEF InOrder
    <2>4. ASSUME NEW i \in 1 .. Len(chunks'), NEW j \in 1 .. Len(chunks'), i <= j
          PROVE  chunks'[i].at <= chunks'[j].at
      <3>1. i + 1 \in 1 .. Len(chunks) /\ j + 1 \in 1 .. Len(chunks) /\ i + 1 <= j + 1
        BY <2>2, <2>4
      <3>2. QED
        BY <2>2, <3>1 DEF InOrder
    <2>5. QED
      BY <2>1, <2>3, <2>4 DEF InOrder
  <1>3. CASE \E h \in Conns : ReadDrains(h)
    <2>1. BufFree /\ Drain /\ UNCHANGED <<rpc, captured, data>>
      BY <1>3 DEF ReadDrains, readerVars
    <2>2. chunks' = <<>> /\ Len(chunks') = 0 /\ dropped' = 0
      BY <2>1, EmptySeq DEF Drain
    <2>3. cursor' \in Nat
      <3>1. CASE chunks = <<>>
        BY <2>1, <3>1 DEF Drain, InOrder
      <3>2. CASE chunks # <<>>
        <4>1. cursor' = Stored
          BY <2>1, <3>2 DEF Drain, Sound, Accounting
        <4>2. Stored \in Nat
          <5>1. CASE rpc = "push"
            <6>1. data \in Chunk /\ captured = End(data)
              BY <5>1 DEF Sound, Streamed, Ingesting
            <6>2. data.at \in Nat /\ data.at - 1 \in Nat /\ data.n \in Nat
              BY <6>1, BufferAssumption DEF Chunk
            <6>3. Stored = (data.at + data.n - 1) - data.n
              BY <5>1, <6>1 DEF Stored, End
            <6>4. QED
              BY <6>2, <6>3
          <5>2. CASE rpc # "push"
            BY <5>2 DEF Stored, Sound, Streamed
          <5>3. QED
            BY <5>1, <5>2
        <4>3. QED
          BY <4>1, <4>2
      <3>3. QED
        BY <3>1, <3>2
    <2>4. QED
      BY <2>2, <2>3 DEF InOrder
  <1>4. CASE UNCHANGED <<bufVars, cursor>>
    BY <1>4 DEF InOrder, bufVars
  <1>5. QED
    BY <1>1, <1>2, <1>3, <1>4, BufferSteps

LEMMA LenIsNatural == Sound /\ InOrder => len \in Nat
  <1> SUFFICES ASSUME Sound, InOrder PROVE len \in Nat
    OBVIOUS
  <1>1. CASE chunks = <<>>
    BY <1>1 DEF Sound, Accounting
  <1>2. CASE chunks # <<>>
    <2>1. /\ Len(chunks) \in Nat /\ 1 \in 1 .. Len(chunks) /\ Len(chunks) \in 1 .. Len(chunks)
      BY <1>2, EmptySeq, LenProperties DEF Sound
    <2>2. chunks[1] \in Chunk /\ chunks[Len(chunks)] \in Chunk
      BY <2>1, ElementOfSeq DEF Sound
    <2>3. chunks[1].at <= chunks[Len(chunks)].at
      BY <2>1 DEF InOrder
    <2>4. chunks[1].at \in Nat /\ chunks[Len(chunks)].at \in Nat /\ chunks[Len(chunks)].n \in Nat
      BY <2>2, ChunkEnds
    <2>5. Stored = chunks[Len(chunks)].at + chunks[Len(chunks)].n - 1
          /\ chunks[1].at = cursor + dropped + 1
          /\ len + dropped = Stored - cursor
      BY <1>2 DEF Sound, Accounting, End, Last
    <2>6. dropped \in Nat /\ cursor \in Nat /\ len \in Int
          /\ chunks[Len(chunks)].n >= 1
      BY <2>2, ChunkEnds DEF Sound, InOrder
    <2> DEFINE a == chunks[1].at
               b == chunks[Len(chunks)].at
               n == chunks[Len(chunks)].n
    <2>7. a \in Nat /\ b \in Nat /\ n \in Nat /\ n >= 1 /\ a <= b
          /\ Stored = b + n - 1 /\ a = cursor + dropped + 1
      BY <2>3, <2>4, <2>5, <2>6
    <2> HIDE DEF a, b, n
    <2>8. len = (b + n) - a
      BY <2>5, <2>6, <2>7
    <2>9. QED
      BY <2>7, <2>8
  <1>3. QED
    BY <1>1, <1>2
-----------------------------------------------------------------------------
\* The framer: the bytes it looks at, the newlines among them, and the k-th.
Seen(b)   == pending \o b
Ends(b)   == {i \in DOMAIN Seen(b) : Seen(b)[i] \in Newlines}
Nth(b, k) == CHOOSE i \in Ends(b) : Rank(i, Ends(b)) = k

\* Where the k-th line that is completed begins.
LineFrom(b, k) == IF k = 1 THEN 1 ELSE Nth(b, k - 1) + 1

LEMMA FramerSees ==
    ASSUME pending \in Seq(1 .. MaxBytes), NEW b \in Seq(1 .. MaxBytes)
    PROVE  /\ Seen(b) \in Seq(1 .. MaxBytes)
           /\ Len(Seen(b)) \in Nat /\ DOMAIN Seen(b) = 1 .. Len(Seen(b))
           /\ Ends(b) \in SUBSET (1 .. Len(Seen(b)))
           /\ IsFiniteSet(Ends(b)) /\ Cardinality(Ends(b)) \in Nat
           /\ \A k \in 1 .. Cardinality(Ends(b)) :
                 Nth(b, k) \in Ends(b) /\ Rank(Nth(b, k), Ends(b)) = k
  <1>1. /\ Seen(b) \in Seq(1 .. MaxBytes)
        /\ Len(Seen(b)) \in Nat /\ DOMAIN Seen(b) = 1 .. Len(Seen(b))
    BY ConcatProperties, LenProperties DEF Seen
  <1>2. Ends(b) \in SUBSET (1 .. Len(Seen(b)))
    BY <1>1 DEF Ends
  <1>3. IsFiniteSet(1 .. Len(Seen(b)))
    BY <1>1, FS_Interval
  <1>4. IsFiniteSet(Ends(b))
    BY <1>2, <1>3, FS_Subset
  <1>5. Cardinality(Ends(b)) \in Nat
    BY <1>4, FS_CardinalityType
  <1>6. ASSUME NEW k \in 1 .. Cardinality(Ends(b))
        PROVE  Nth(b, k) \in Ends(b) /\ Rank(Nth(b, k), Ends(b)) = k
    <2>1. \E i \in Ends(b) : Rank(i, Ends(b)) = k
      BY <1>1, <1>2, NthExists
    <2>2. QED
      BY <2>1 DEF Nth
  <1>7. QED
    BY <1>1, <1>2, <1>4, <1>5, <1>6

LEMMA CompletedIs ==
    ASSUME NEW b
    PROVE  Completed(b) = [k \in 1 .. Cardinality(Ends(b)) |->
                              Line(SubSeq(Seen(b), LineFrom(b, k), Nth(b, k) - 1))]
  BY DEF Completed, Ends, Seen, Nth, LineFrom

\* A part of a text is made of what the text is made of.
LEMMA PartType ==
    ASSUME NEW S, NEW text \in Seq(S), NEW a \in Nat \ {0}, NEW z \in Int, z <= Len(text)
    PROVE  /\ SubSeq(text, a, z) \in Seq(S)
           /\ Len(SubSeq(text, a, z)) = IF a <= z THEN z - a + 1 ELSE 0
           /\ \A i \in 1 .. z - a + 1 : SubSeq(text, a, z)[i] = text[a + i - 1]
  <1>1. \A i \in a .. z : i \in 1 .. Len(text)
    BY LenProperties
  <1>2. \A i \in a .. z : text[i] \in S
    BY <1>1, ElementOfSeq
  <1>3. QED
    BY <1>2, SubSeqProperties

LEMMA LinesType ==
    ASSUME pending \in Seq(1 .. MaxBytes), NEW b \in Seq(1 .. MaxBytes)
    PROVE  Completed(b) \in Seq({e \in Entry : e.note = "line"})
  <1> DEFINE m == Cardinality(Ends(b))
             Text(k) == SubSeq(Seen(b), LineFrom(b, k), Nth(b, k) - 1)
  <1>1. m \in Nat /\ Ends(b) \in SUBSET (1 .. Len(Seen(b))) /\ Len(Seen(b)) \in Nat
        /\ Seen(b) \in Seq(1 .. MaxBytes)
    BY FramerSees
  <1>2. ASSUME NEW k \in 1 .. m
        PROVE  Line(Text(k)) \in {e \in Entry : e.note = "line"}
    <2>1. Nth(b, k) \in 1 .. Len(Seen(b))
      BY <1>1, FramerSees
    <2>2. LineFrom(b, k) \in Nat \ {0}
      <3>1. CASE k = 1
        BY <3>1 DEF LineFrom
      <3>2. CASE k # 1
        <4>1. k - 1 \in 1 .. m
          BY <1>1, <3>2
        <4>2. Nth(b, k - 1) \in 1 .. Len(Seen(b))
          BY <1>1, <4>1, FramerSees
        <4>3. QED
          BY <3>2, <4>2 DEF LineFrom
      <3>3. QED
        BY <3>1, <3>2
    <2>3. Nth(b, k) - 1 \in Int /\ Nth(b, k) - 1 <= Len(Seen(b))
      BY <1>1, <2>1
    <2>4. Text(k) \in Seq(1 .. MaxBytes)
      BY <1>1, <2>2, <2>3, PartType
    <2> HIDE DEF Text
    <2>5. QED
      BY <2>4 DEF Line, Entry, Notes
  <1>3. Completed(b) = [k \in 1 .. m |-> Line(Text(k))]
    BY CompletedIs
  <1> HIDE DEF Text
  <1>4. Completed(b) \in [1 .. m -> {e \in Entry : e.note = "line"}]
    BY <1>2, <1>3
  <1> HIDE DEF m
  <1>5. QED
    BY <1>1, <1>4, FunctionIsSeq

\* Where the unfinished line begins.
LastEnd(b) == IF Ends(b) = {} THEN 0 ELSE Max(Ends(b))

LEMMA KeptIs ==
    ASSUME pending \in Seq(1 .. MaxBytes), NEW b \in Seq(1 .. MaxBytes)
    PROVE  /\ LastEnd(b) \in 0 .. Len(Seen(b))
           /\ \A i \in Ends(b) : i <= LastEnd(b)
           /\ LastEnd(b) = 0 \/ LastEnd(b) \in Ends(b)
           /\ Kept(b) = SubSeq(Seen(b), LastEnd(b) + 1, Len(Seen(b)))
           /\ Kept(b) \in Seq(1 .. MaxBytes)
  <1>1. /\ Seen(b) \in Seq(1 .. MaxBytes) /\ Len(Seen(b)) \in Nat
        /\ Ends(b) \in SUBSET (1 .. Len(Seen(b)))
    BY FramerSees
  <1>0. ASSUME NEW a \in Nat \ {0}
        PROVE  SubSeq(Seen(b), a, Len(Seen(b))) \in Seq(1 .. MaxBytes)
    <2>1. Len(Seen(b)) \in Int /\ Len(Seen(b)) <= Len(Seen(b))
      BY <1>1
    <2>2. QED
      BY <1>1, <2>1, PartType
  <1>2. CASE Ends(b) = {}
    <2>1. LastEnd(b) = 0 /\ Kept(b) = SubSeq(Seen(b), 1, Len(Seen(b)))
      BY <1>2 DEF LastEnd, Kept, Ends, Seen
    <2>2. Kept(b) \in Seq(1 .. MaxBytes)
      BY <1>0, <2>1
    <2>3. LastEnd(b) \in 0 .. Len(Seen(b)) /\ LastEnd(b) + 1 = 1
      BY <1>1, <2>1
    <2>4. QED
      BY <1>2, <2>1, <2>2, <2>3
  <1>3. CASE Ends(b) # {}
    <2>1. Ends(b) \in SUBSET (0 .. Len(Seen(b)))
      BY <1>1
    <2>2. Max(Ends(b)) \in Ends(b) /\ \A y \in Ends(b) : y <= Max(Ends(b))
      BY <1>1, <1>3, <2>1, GreatestElement
    <2>3. LastEnd(b) = Max(Ends(b))
          /\ Kept(b) = SubSeq(Seen(b), Max(Ends(b)) + 1, Len(Seen(b)))
      BY <1>3 DEF LastEnd, Kept, Ends, Seen
    <2>4. LastEnd(b) \in Nat /\ LastEnd(b) <= Len(Seen(b)) /\ LastEnd(b) + 1 \in Nat \ {0}
      BY <1>1, <2>2, <2>3
    <2>5. Kept(b) = SubSeq(Seen(b), LastEnd(b) + 1, Len(Seen(b)))
      BY <2>3
    <2>6. Kept(b) \in Seq(1 .. MaxBytes)
      BY <1>0, <2>4, <2>5
    <2>7. LastEnd(b) \in 0 .. Len(Seen(b))
      BY <2>4
    <2>8. QED
      BY <2>2, <2>3, <2>5, <2>6, <2>7
  <1>4. QED
    BY <1>2, <1>3
-----------------------------------------------------------------------------
\* The type invariant, with what makes it inductive.
Whole ==
    /\ Sound
    /\ Watching
    /\ InOrder
    /\ TypeOK
    /\ queue \in [Conns -> Seq(Real)]

LEMMA WholeInit == Init => Whole
  <1> SUFFICES ASSUME Init PROVE Whole
    OBVIOUS
  <1>1. BufferTypeOK
    <2>1. Note("session start") \in Entry
      BY EmptySeq DEF Note, Entry, Notes
    <2>2. <<Note("session start")>> \in Seq(Entry)
      <3> DEFINE entry == Note("session start")
      <3>1. entry \in Entry
        BY <2>1
      <3> HIDE DEF entry
      <3>2. <<entry>> = <<>> \o <<entry>> /\ Append(<<>>, entry) = <<entry>>
        OBVIOUS
      <3>3. Append(<<>>, entry) \in Seq(Entry)
        BY <3>1, AppendProperties, EmptySeq
      <3>4. <<entry>> \in Seq(Entry)
        BY <3>2, <3>3
      <3>5. QED
        BY <3>4 DEF entry
    <2>3. chunks = <<>> /\ pending = <<>> /\ log = <<Note("session start")>>
          /\ len = 0 /\ dropped = 0 /\ cursor = 0
      BY DEF Init, BufferInit
    <2>4. QED
      BY <2>2, <2>3, EmptySeq DEF BufferTypeOK
  <1>2. PortTypeOK
    <2>1. window = <<>> /\ awaiting = FALSE /\ writer = 0 /\ plug \in {0, 1} /\ plugs = plug
          /\ step = [s \in Senders |-> 0]
      BY DEF Init, PortInit
    <2>2. window \in Seq(1 .. MaxBytes)
      BY <2>1, EmptySeq
    <2>3. plug \in 0 .. MaxPlugs /\ plugs \in 0 .. MaxPlugs /\ writer \in 0 .. MaxPlugs
      BY <2>1, PortAssumption
    <2>4. step \in [Senders -> 0 .. PlanLen]
      BY <2>1, PortAssumption
    <2>5. awaiting \in BOOLEAN
      BY <2>1
    <2>6. QED
      BY <2>2, <2>3, <2>4, <2>5 DEF PortTypeOK
  <1>3. queue = [h \in Conns |-> <<>>] /\ subscribed = [h \in Conns |-> "none"]
    BY DEF Init, ReaderInit
  <1>4. queue \in [Conns -> Seq(Real)] /\ queue \in [Conns -> Seq(Chunk)]
    BY <1>3, EmptySeq
  <1>5. ReaderTypeOK
    <2>1. 0 \in 0 .. MaxPlugs /\ 0 \in 0 .. MaxBytes
      BY PortAssumption, BufferAssumption
    <2>2. shutdown \in BOOLEAN /\ first \in BOOLEAN /\ connected \in BOOLEAN
      BY DEF Init, ReaderInit
    <2>3. QED
      BY <1>3, <1>4, <2>1, <2>2 DEF Init, ReaderInit, ReaderTypeOK
  <1>6. HandlersTypeOK
    <2>1. 0 \in 0 .. MaxServed /\ 0 \in 0 .. MaxBytes
      BY HandlersAssumption, BufferAssumption
    <2>2. accepting \in BOOLEAN /\ exited \in BOOLEAN
      BY DEF Init, HandlersInit
    <2>3. acc \in [Conns -> Seq(1 .. MaxBytes)]
      BY EmptySeq DEF Init, HandlersInit
    <2>4. QED
      BY <2>1, <2>2, <2>3 DEF Init, HandlersInit, HandlersTypeOK
  <1>7. InOrder
    <2>1. chunks = <<>> /\ Len(chunks) = 0 /\ dropped = 0 /\ cursor = 0
      BY EmptySeq DEF Init, BufferInit
    <2>2. QED
      BY <2>1 DEF InOrder
  <1>8. QED
    BY <1>1, <1>2, <1>4, <1>5, <1>6, <1>7, SoundInit, WatchingInit DEF Whole, TypeOK

\* The chunk being ingested is one of the stream.
LEMMA DataIsReal == Whole /\ Ingesting => data \in Real /\ Bytes(data) \in Seq(1 .. MaxBytes)
  <1> SUFFICES ASSUME Whole, Ingesting PROVE data \in Real /\ Bytes(data) \in Seq(1 .. MaxBytes)
    OBVIOUS
  <1>1. data \in Chunk /\ End(data) = captured /\ captured \in 0 .. MaxBytes
    BY DEF Whole, Sound, Streamed, TypeOK, ReaderTypeOK
  <1>2. End(data) <= MaxBytes
    BY <1>1, BufferAssumption
  <1>3. data \in Real
    BY <1>1, <1>2 DEF Real
  <1>4. ASSUME NEW i \in 1 .. data.n PROVE data.at + i - 1 \in 1 .. MaxBytes
    <2>1. data.at \in Nat /\ data.at >= 1 /\ data.n \in Nat /\ data.at + data.n - 1 <= MaxBytes
      BY <1>1, <1>2, BufferAssumption DEF Chunk, End
    <2>2. QED
      BY <2>1, BufferAssumption
  <1>5. Bytes(data) \in [1 .. data.n -> 1 .. MaxBytes]
    BY <1>4 DEF Bytes
  <1>6. data.n \in Nat
    BY <1>1, ChunkEnds
  <1>7. QED
    BY <1>3, <1>5, <1>6, FunctionIsSeq

LEMMA RealBytes ==
    ASSUME NEW c \in Real
    PROVE  /\ Bytes(c) \in Seq(1 .. MaxBytes)
           /\ Len(Bytes(c)) = c.n /\ c.n \in Nat
           /\ \A i \in 1 .. c.n : Bytes(c)[i] = c.at + i - 1
  <1>1. c \in Chunk /\ End(c) <= MaxBytes
    BY DEF Real
  <1>2. c.at \in Nat /\ c.at >= 1 /\ c.n \in Nat /\ c.at + c.n - 1 <= MaxBytes
    BY <1>1, BufferAssumption DEF Chunk, End
  <1>3. \A i \in 1 .. c.n : c.at + i - 1 \in 1 .. MaxBytes
    BY <1>2, BufferAssumption
  <1>4. Bytes(c) \in [1 .. c.n -> 1 .. MaxBytes]
    BY <1>3 DEF Bytes
  <1>5. Bytes(c) \in Seq(1 .. MaxBytes)
    BY <1>2, <1>4, FunctionIsSeq
  <1>6. DOMAIN Bytes(c) = 1 .. c.n /\ DOMAIN Bytes(c) = 1 .. Len(Bytes(c)) /\ Len(Bytes(c)) \in Nat
    BY <1>5, LenProperties DEF Bytes
  <1>7. Len(Bytes(c)) = c.n
    BY <1>2, <1>6
  <1>8. QED
    BY <1>2, <1>5, <1>7 DEF Bytes

LEMMA LogTyped ==
    ASSUME Whole, [Next]_vars
    PROVE  pending' \in Seq(1 .. MaxBytes) /\ log' \in Seq(Entry)
  <1>1. pending \in Seq(1 .. MaxBytes) /\ log \in Seq(Entry)
    BY DEF Whole, TypeOK, BufferTypeOK
  <1>2. CASE LogChunk
    <2>1. rpc = "log" /\ LogLines(data)
      BY <1>2 DEF LogChunk, Goes
    <2>2. Bytes(data) \in Seq(1 .. MaxBytes)
      BY <2>1, DataIsReal DEF Ingesting
    <2>3. Completed(Bytes(data)) \in Seq(Entry)
      <3>1. Completed(Bytes(data)) \in Seq({e \in Entry : e.note = "line"})
        BY <1>1, <2>2, LinesType
      <3>2. {e \in Entry : e.note = "line"} \subseteq Entry
        OBVIOUS
      <3>3. QED
        BY <3>1, <3>2, SeqMonotonic
    <2>4. Kept(Bytes(data)) \in Seq(1 .. MaxBytes)
      BY <1>1, <2>2, KeptIs
    <2>5. log \o Completed(Bytes(data)) \in Seq(Entry)
      BY <1>1, <2>3, ConcatProperties
    <2>6. QED
      BY <2>1, <2>4, <2>5 DEF LogLines
  <1>3. \A n \in Notes : Note(n) \in Entry
    BY EmptySeq DEF Note, Entry
  <1>4. CASE Announce
    <2>1. Note(IF first THEN "connected" ELSE "reconnected") \in Entry
      BY <1>3 DEF Notes
    <2>2. QED
      BY <1>1, <1>4, <2>1, AppendProperties DEF Announce
  <1>5. CASE NoteLoss
    <2>1. Note("disconnected") \in Entry
      BY <1>3 DEF Notes
    <2>2. QED
      BY <1>1, <1>5, <2>1, AppendProperties DEF NoteLoss
  <1>6. CASE UNCHANGED logVars
    BY <1>1, <1>6 DEF logVars
  <1>7. QED
    BY <1>2, <1>4, <1>5, <1>6, LogSteps

LEMMA PortTyped ==
    ASSUME Whole, Watching', Streamed', [Next]_vars, captured' \in 0 .. MaxBytes
    PROVE  PortTypeOK'
  <1>1. PortTypeOK /\ Reader \in Senders /\ Conns \subseteq Senders
    BY DEF Whole, TypeOK, Senders
  <1>2. window' \in Seq(1 .. MaxBytes) /\ awaiting' \in BOOLEAN
    <2>0. (Fed \in Nat /\ Fed <= captured)'
      BY FedType, PTL
    <2>1. Fed' \in Nat /\ Fed' <= captured'
      BY <2>0
    <2>2. opened' + 1 .. Fed' \subseteq 1 .. MaxBytes
      <3>1. opened' \in Nat /\ captured' \in Nat /\ captured' <= MaxBytes /\ MaxBytes \in Nat
        BY BufferAssumption DEF Watching
      <3> DEFINE o == opened'
                 f == Fed'
                 t == captured'
      <3>2. o \in Nat /\ f \in Nat /\ t \in Nat /\ f <= t /\ t <= MaxBytes
        BY <2>1, <3>1
      <3> HIDE DEF o, f, t
      <3>3. o + 1 .. f \subseteq 1 .. MaxBytes
        BY <3>1, <3>2
      <3>4. QED
        BY <3>3 DEF o, f
    <2>3. window' \in Seq(1 .. MaxBytes)
      BY <2>2, SeqMonotonic DEF Watching
    <2>4. QED
      BY <2>3 DEF Watching
  <1>3. ASSUME NEW s \in Senders, WriteStep(s) \/ WriteFails(s) \/ WritesDone(s)
        PROVE  step' \in [Senders -> 0 .. PlanLen]
    <2>1. step \in [Senders -> 0 .. PlanLen] /\ step[s] \in 0 .. PlanLen
      BY <1>1 DEF PortTypeOK
    <2>2. 0 \in 0 .. PlanLen /\ (step[s] < PlanLen => step[s] + 1 \in 0 .. PlanLen)
      BY <2>1, PortAssumption
    <2>3. QED
      BY <1>3, <2>1, <2>2 DEF WriteStep, WriteFails, WritesDone
  <1>4. plug' \in 0 .. MaxPlugs /\ plugs' \in 0 .. MaxPlugs /\ writer' \in 0 .. MaxPlugs
        /\ step' \in [Senders -> 0 .. PlanLen]
    <2>0. /\ plug \in 0 .. MaxPlugs /\ plugs \in 0 .. MaxPlugs /\ writer \in 0 .. MaxPlugs
          /\ step \in [Senders -> 0 .. PlanLen] /\ 0 \in 0 .. MaxPlugs
      BY <1>1, PortAssumption DEF PortTypeOK
    <2>1. CASE ReaderRuns
      <3>1. CASE ReaderWrites
        BY <1>1, <1>3, <2>0, <3>1 DEF ReaderWrites, portVars
      <3>2. CASE OpenPort \/ DropWriter
        BY <2>0, <3>2 DEF OpenPort, DropWriter, sendVars
      <3>3. CASE ~(ReaderWrites \/ OpenPort \/ DropWriter)
        BY <2>0, <2>1, <3>3
        DEF ReaderRuns, ReaderStep, Announce, LosePort, NoteLoss, ReadPort, PushChunk,
            EvictChunk, Pushed, LogChunk, Broadcast, DriveLogin, ReaderStops, serialVars,
            portVars, sendVars
      <3>4. QED
        BY <3>1, <3>2, <3>3
    <2>2. CASE PlugMoves
      <3>1. plugs < MaxPlugs => plugs + 1 \in 0 .. MaxPlugs
        BY <2>0, PortAssumption
      <3>2. QED
        BY <2>0, <2>2, <3>1 DEF PlugMoves, Unplug, Replug, sendVars
    <2>3. ASSUME NEW h \in Conns, HandlerStep(h) \/ \E r \in Requests[h] : Accept(h, r)
          PROVE  UNCHANGED portVars /\ step' \in [Senders -> 0 .. PlanLen]
      <3>1. UNCHANGED portVars
        BY <2>3, HandlerFrame
      <3>2. CASE HandlerWrites(h)
        BY <1>1, <1>3, <3>2 DEF HandlerWrites
      <3>3. CASE ~HandlerWrites(h)
        BY <2>0, <2>3, <3>3
        DEF HandlerStep, Quick, Accept, ReadDrains, ReadStores, Peek, Status, Stop, BeginSend,
            Subscribe, BadPattern, Receive, Timeout, Reply, serialVars, sendVars
      <3>4. QED
        BY <3>1, <3>2, <3>3
    <2>4. CASE Main \/ UNCHANGED vars
      BY <2>0, <2>4, MainFrame DEF vars, serialVars, portVars, sendVars
    <2>5. QED
      BY <2>0, <2>1, <2>2, <2>3, <2>4 DEF Next, portVars
  <1>5. QED
    BY <1>2, <1>4 DEF PortTypeOK

\* What happens to the subscriptions.
LEMMA QueueTyped ==
    ASSUME Whole, [Next]_vars
    PROVE  /\ queue' \in [Conns -> Seq(Real)]
           /\ subscribed' \in [Conns -> {"none", "live", "dead"}]
  <1>0. /\ queue \in [Conns -> Seq(Real)]
        /\ subscribed \in [Conns -> {"none", "live", "dead"}]
    BY DEF Whole, TypeOK, ReaderTypeOK
  <1>1. CASE Broadcast
    <2>1. data \in Real
      BY <1>1, DataIsReal DEF Broadcast, Goes, Ingesting
    <2>2. \A h \in Conns : Append(queue[h], data) \in Seq(Real)
      BY <1>0, <2>1, AppendProperties
    <2>3. QED
      BY <1>0, <1>1, <2>2 DEF Broadcast
  <1>2. ASSUME NEW h \in Conns, HandlerStep(h) \/ \E r \in Requests[h] : Accept(h, r)
        PROVE  /\ queue' \in [Conns -> Seq(Real)]
               /\ subscribed' \in [Conns -> {"none", "live", "dead"}]
    <2>1. <<>> \in Seq(Real)
      BY EmptySeq
    <2>2. queue[h] # <<>> => Tail(queue[h]) \in Seq(Real)
      BY <1>0, HeadTailProperties
    <2>3. queue' \in {queue, [queue EXCEPT ![h] = <<>>]}
          \/ (queue[h] # <<>> /\ queue' = [queue EXCEPT ![h] = Tail(@)])
      BY <1>2
      DEF HandlerStep, Quick, Accept, ReadDrains, ReadStores, Peek, Status, Stop, BeginSend,
          Subscribe, BadPattern, HandlerWrites, Receive, Timeout, Reply, subVars
    <2>4. queue' \in [Conns -> Seq(Real)]
      BY <1>0, <2>1, <2>2, <2>3
    <2>5. subscribed' = subscribed \/ subscribed' = [subscribed EXCEPT ![h] = "live"]
          \/ subscribed' = [subscribed EXCEPT ![h] = IF @ = "live" THEN "dead" ELSE @]
      BY <1>2
      DEF HandlerStep, Quick, Accept, ReadDrains, ReadStores, Peek, Status, Stop, BeginSend,
          Subscribe, BadPattern, HandlerWrites, Receive, Timeout, Reply, subVars, Answers
    <2>6. QED
      BY <1>0, <2>4, <2>5
  <1>3. CASE ReaderRuns /\ ~Broadcast
    BY <1>0, <1>3
    DEF ReaderRuns, ReaderStep, OpenPort, Announce, LosePort, DropWriter, NoteLoss, ReadPort,
        PushChunk, EvictChunk, Pushed, LogChunk, DriveLogin, ReaderWrites, ReaderStops, subVars
  <1>4. CASE PlugMoves \/ Main \/ UNCHANGED vars
    BY <1>0, <1>4 DEF PlugMoves, Main, Signal, AcceptorStops, Exit, vars, subVars
  <1>5. QED
    BY <1>1, <1>2, <1>3, <1>4 DEF Next

LEMMA ReaderTyped ==
    ASSUME Whole, Streamed', [Next]_vars
    PROVE  ReaderTypeOK'
  <1>0. /\ ReaderTypeOK /\ plug \in 0 .. MaxPlugs /\ len \in Nat
        /\ 0 \in 0 .. MaxPlugs
    BY PortAssumption, LenIsNatural DEF Whole, TypeOK, PortTypeOK
  <1>1. /\ queue' \in [Conns -> Seq(Chunk)]
        /\ subscribed' \in [Conns -> {"none", "live", "dead"}]
    <2>1. Real \subseteq Chunk
      BY DEF Real
    <2>2. Seq(Real) \subseteq Seq(Chunk)
      BY <2>1, SeqMonotonic
    <2>3. queue' \in [Conns -> Seq(Real)] /\ subscribed' \in [Conns -> {"none", "live", "dead"}]
      BY QueueTyped
    <2>4. QED
      BY <2>2, <2>3
  <1>2. data' \in Chunk \cup {NoChunk}
    BY DEF Streamed
  <1>3. CASE ReaderRuns
    <2>1. ReaderStep
      BY <1>3 DEF ReaderRuns
    <2>2. ASSUME NEW n \in 1 .. ReadBuf, ReadPort(n)
          PROVE  captured' \in 0 .. MaxBytes
      BY <1>0, <2>2, ReaderAssumption, BufferAssumption DEF ReadPort, ReaderTypeOK
    <2>3. captured' \in 0 .. MaxBytes
      BY <1>0, <2>1, <2>2
      DEF ReaderStep, OpenPort, Announce, LosePort, DropWriter, NoteLoss, PushChunk,
          EvictChunk, Pushed, LogChunk, Broadcast, DriveLogin, ReaderWrites, ReaderStops,
          readerVars, ReaderTypeOK
    <2>4. /\ fd' \in 0 .. MaxPlugs
          /\ opened' \in 0 .. MaxBytes
          /\ buffered' \in Nat
      BY <1>0, <2>1
      DEF ReaderStep, OpenPort, Announce, LosePort, DropWriter, NoteLoss, ReadPort, PushChunk,
          EvictChunk, Pushed, LogChunk, Broadcast, DriveLogin, ReaderWrites, ReaderStops,
          readerVars, ReaderTypeOK
    <2>5. /\ first' \in BOOLEAN /\ connected' \in BOOLEAN /\ shutdown' \in BOOLEAN
      BY <1>0, <2>1
      DEF ReaderStep, OpenPort, Announce, LosePort, DropWriter, NoteLoss, ReadPort, PushChunk,
          EvictChunk, Pushed, LogChunk, Broadcast, DriveLogin, ReaderWrites, ReaderStops,
          readerVars, ReaderTypeOK
    <2>6. rpc' \in {"closed", "opened", "capture", "push", "evict", "log",
                    "broadcast", "login", "send", "lost", "dropped", "stopped"}
      BY <1>0, <2>1
      DEF ReaderStep, OpenPort, Announce, LosePort, DropWriter, NoteLoss, ReadPort, PushChunk,
          EvictChunk, Pushed, LogChunk, Broadcast, DriveLogin, ReaderWrites, ReaderStops,
          readerVars, ReaderTypeOK,
          Goes
    <2>7. QED
      BY <1>1, <1>2, <2>3, <2>4, <2>5, <2>6 DEF ReaderTypeOK
  <1>4. CASE ~ReaderRuns
    <2>1. UNCHANGED readerVars
      BY <1>4, ReaderOnly
    <2>2. buffered' \in Nat /\ shutdown' \in BOOLEAN
      <3>1. ASSUME NEW h \in Conns, HandlerStep(h) \/ \E r \in Requests[h] : Accept(h, r)
            PROVE  buffered' \in {buffered, 0} /\ (shutdown' = shutdown \/ shutdown' = TRUE)
        BY <3>1
        DEF HandlerStep, Quick, Accept, ReadDrains, ReadStores, Peek, Status, Stop, BeginSend,
            Subscribe, BadPattern, HandlerWrites, Receive, Timeout, Reply
      <3>2. CASE PlugMoves \/ Main \/ UNCHANGED vars
        <4>1. buffered' = buffered /\ (shutdown' = shutdown \/ shutdown' = TRUE)
          BY <3>2 DEF PlugMoves, Main, Signal, AcceptorStops, Exit, vars
        <4>2. QED
          BY <1>0, <4>1 DEF ReaderTypeOK
      <3>3. CASE \E h \in Conns : HandlerStep(h) \/ \E r \in Requests[h] : Accept(h, r)
        <4>1. buffered' \in {buffered, 0} /\ (shutdown' = shutdown \/ shutdown' = TRUE)
          BY <3>1, <3>3
        <4>2. buffered \in Nat /\ shutdown \in BOOLEAN
          BY <1>0 DEF ReaderTypeOK
        <4>3. buffered' \in Nat
          BY <4>1, <4>2
        <4>4. shutdown' \in BOOLEAN
          BY <4>1, <4>2
        <4>5. QED
          BY <4>3, <4>4
      <3>4. QED
        BY <1>4, <3>2, <3>3 DEF Next
    <2>3. QED
      BY <1>0, <1>1, <1>2, <2>1, <2>2 DEF readerVars, ReaderTypeOK
  <1>5. QED
    BY <1>3, <1>4

LEMMA HandlersTyped ==
    ASSUME Whole, [Next]_vars
    PROVE  HandlersTypeOK'
  <1>0. HandlersTypeOK /\ ReaderTypeOK
    BY DEF Whole, TypeOK
  <1>1. ASSUME NEW h \in Conns, HandlerStep(h) \/ \E r \in Requests[h] : Accept(h, r)
        PROVE  HandlersTypeOK'
    <2>1. served' \in 0 .. MaxServed
      <3>1. served' = served \/ (served < MaxServed /\ served' = served + 1)
        BY <1>1
        DEF HandlerStep, Quick, Accept, ReadDrains, ReadStores, Peek, Status, Stop, BeginSend,
            Subscribe, BadPattern, HandlerWrites, Receive, Timeout, Reply
      <3>2. QED
        BY <1>0, <3>1, HandlersAssumption DEF HandlersTypeOK
    <2>2. accepting' \in BOOLEAN /\ exited' \in BOOLEAN
      <3>1. UNCHANGED processVars
        BY <1>1
        DEF HandlerStep, Quick, Accept, ReadDrains, ReadStores, Peek, Status, Stop, BeginSend,
            Subscribe, BadPattern, HandlerWrites, Receive, Timeout, Reply
      <3>2. QED
        BY <1>0, <3>1 DEF processVars, HandlersTypeOK
    <2>3. acc' \in [Conns -> Seq(1 .. MaxBytes)]
      <3>1. ASSUME Receive(h) PROVE acc' \in [Conns -> Seq(1 .. MaxBytes)]
        <4>1. queue[h] \in Seq(Real) /\ queue[h] # <<>> /\ acc[h] \in Seq(1 .. MaxBytes)
          BY <1>0, <3>1 DEF Receive, Whole, HandlersTypeOK
        <4>2. Head(queue[h]) \in Real
          BY <4>1, HeadTailProperties
        <4>3. acc[h] \o Bytes(Head(queue[h])) \in Seq(1 .. MaxBytes)
          BY <4>1, <4>2, RealBytes, ConcatProperties
        <4>4. ExpectCap \div 2 \in Nat
          BY HandlersAssumption
        <4>5. Accumulated(acc[h], Head(queue[h])) \in Seq(1 .. MaxBytes)
          BY <4>3, <4>4, LastOfType DEF Accumulated
        <4>6. QED
          BY <1>0, <3>1, <4>5 DEF Receive, HandlersTypeOK
      <3>2. CASE ~Receive(h)
        <4>1. acc' = acc \/ acc' = [acc EXCEPT ![h] = <<>>]
          BY <1>1, <3>2
          DEF HandlerStep, Quick, Accept, ReadDrains, ReadStores, Peek, Status, Stop,
              BeginSend, Subscribe, BadPattern, HandlerWrites, Timeout, Reply, expectVars
        <4>2. <<>> \in Seq(1 .. MaxBytes)
          BY EmptySeq
        <4>3. QED
          BY <1>0, <4>1, <4>2 DEF HandlersTypeOK
      <3>3. QED
        BY <3>1, <3>2
    <2>4. since' \in [Conns -> 0 .. MaxBytes]
      BY <1>0, <1>1
      DEF HandlerStep, Quick, Accept, ReadDrains, ReadStores, Peek, Status, Stop, BeginSend,
          Subscribe, BadPattern, HandlerWrites, Receive, Timeout, Reply, expectVars,
          HandlersTypeOK, ReaderTypeOK
    <2>5. request' \in [Conns -> Kinds \cup {"none"}]
      <3>1. \A r \in Requests[h] : r \in Kinds
        BY HandlersAssumption
      <3>2. request' = request
            \/ \E r \in Requests[h] : request' = [request EXCEPT ![h] = r]
        BY <1>1
        DEF HandlerStep, Quick, Accept, ReadDrains, ReadStores, Peek, Status, Stop, BeginSend,
            Subscribe, BadPattern, HandlerWrites, Receive, Timeout, Reply, Answers
      <3>3. QED
        BY <1>0, <3>1, <3>2 DEF HandlersTypeOK
    <2>6. pc' \in [Conns -> {"idle", "dispatch", "drained", "send", "recv", "reply"}]
      BY <1>0, <1>1
      DEF HandlerStep, Quick, Accept, ReadDrains, ReadStores, Peek, Status, Stop, BeginSend,
          Subscribe, BadPattern, HandlerWrites, Receive, Timeout, Reply, Answers,
          HandlersTypeOK
    <2>7. reply' \in [Conns -> {"none", "text", "status", "ok", "error", "match", "timeout"}]
      BY <1>0, <1>1
      DEF HandlerStep, Quick, Accept, ReadDrains, ReadStores, Peek, Status, Stop, BeginSend,
          Subscribe, BadPattern, HandlerWrites, Receive, Timeout, Reply, Answers,
          HandlersTypeOK
    <2>8. QED
      BY <2>1, <2>2, <2>3, <2>4, <2>5, <2>6, <2>7 DEF HandlersTypeOK
  <1>2. CASE ReaderRuns \/ PlugMoves \/ Signal \/ UNCHANGED vars
    BY <1>0, <1>2
    DEF ReaderRuns, PlugMoves, Signal, vars, handlerVars, processVars, expectVars,
        HandlersTypeOK
  <1>3. CASE AcceptorStops \/ Exit
    <2>1. accepting' \in BOOLEAN /\ exited' \in BOOLEAN
      BY <1>0, <1>3 DEF AcceptorStops, Exit, HandlersTypeOK
    <2>2. UNCHANGED <<served, pc, request, reply, acc, since>>
      BY <1>3 DEF AcceptorStops, Exit, expectVars
    <2>3. QED
      BY <1>0, <2>1, <2>2 DEF HandlersTypeOK
  <1>4. QED
    BY <1>1, <1>2, <1>3 DEF Next, Main

LEMMA WholeStep == Whole /\ [Next]_vars => Whole'
  <1> SUFFICES ASSUME Whole, [Next]_vars PROVE Whole'
    OBVIOUS
  <1>1. Sound' /\ Watching'
    BY SoundStep, WatchingStep DEF Whole
  <1>2. InOrder' /\ Streamed'
    BY <1>1, InOrderStep DEF Whole, Sound
  <1>3. ReaderTypeOK'
    BY <1>2, ReaderTyped
  <1>4. PortTypeOK'
    BY <1>1, <1>2, <1>3, PortTyped DEF ReaderTypeOK
  <1>5. BufferTypeOK'
    <2>1. len' \in Nat
      <3>1. (Sound /\ InOrder => len \in Nat)'
        BY LenIsNatural, PTL
      <3>2. QED
        BY <1>1, <1>2, <3>1
    <2>2. QED
      BY <1>1, <1>2, <2>1, LogTyped DEF Sound, InOrder, BufferTypeOK
  <1>6. HandlersTypeOK' /\ queue' \in [Conns -> Seq(Real)]
    BY HandlersTyped, QueueTyped
  <1>7. QED
    BY <1>1, <1>2, <1>3, <1>4, <1>5, <1>6 DEF Whole, TypeOK

\* Every variable of the daemon holds a value of its type in every reachable
\* state: what the buffer, the framer, the matcher and the login window hold
\* are bytes of the captured stream, and the length never goes negative.
THEOREM DaemonTyped == Spec => []TypeOK
  <1>1. Whole => TypeOK
    BY DEF Whole
  <1>2. QED
    BY <1>1, WholeInit, WholeStep, PTL DEF Spec
-----------------------------------------------------------------------------
\* Position i of the log holds its last marker.
IsLastMarker(i) == i \in Markers /\ \A k \in i + 1 .. Len(log) : k \notin Markers

\* The last marker says where the reader is: a connection is open while it
\* captures, and none is while it looks for the port, unless the daemon is
\* shutting down, which is not logged.
Marked ==
    /\ Whole
    /\ MarkersPair
    /\ log # <<>>
    /\ rpc \notin {"closed", "opened", "stopped"} => ~first
    /\ \E i \in DOMAIN log :
          /\ IsLastMarker(i)
          /\ rpc \notin {"closed", "opened", "stopped"} =>
                log[i].note \in {"connected", "reconnected"}
          /\ rpc = "opened" \/ (rpc = "closed" /\ ~shutdown) =>
                log[i].note = IF first THEN "session start" ELSE "disconnected"

LEMMA MarkedInit == Init => Marked
  <1> SUFFICES ASSUME Init PROVE Marked
    OBVIOUS
  <1>1. log = <<Note("session start")>> /\ rpc = "closed" /\ first = TRUE
    BY DEF Init, BufferInit, ReaderInit
  <1> DEFINE entry == Note("session start")
  <1>2. entry.note = "session start"
    BY DEF Note
  <1>3. log = <<entry>>
    BY <1>1
  <1> HIDE DEF entry
  <1>4. Len(log) = 1
    BY <1>3
  <1>5. DOMAIN log = {1}
    BY <1>3
  <1>6. log[1] = entry
    BY <1>3
  <1>7. log # <<>>
    BY <1>4, EmptySeq
  <1>8. log[1].note = "session start" /\ log[1].note # "line"
    BY <1>2, <1>6
  <1>9. Markers = {1}
    BY <1>5, <1>8 DEF Markers
  <1>10. IsLastMarker(1)
    <2>1. \A k \in 1 + 1 .. 1 : FALSE
      OBVIOUS
    <2>2. QED
      BY <1>4, <1>9, <2>1 DEF IsLastMarker
  <1>11. MarkersPair
    <2>1. \A i, j \in {1} : ~(i < j)
      OBVIOUS
    <2>2. QED
      BY <1>8, <1>9, <2>1 DEF MarkersPair
  <1>12. first
    BY <1>1
  <1>13. \E i \in DOMAIN log :
            /\ IsLastMarker(i)
            /\ rpc \notin {"closed", "opened", "stopped"} =>
                  log[i].note \in {"connected", "reconnected"}
            /\ rpc = "opened" \/ (rpc = "closed" /\ ~shutdown) =>
                  log[i].note = IF first THEN "session start" ELSE "disconnected"
    <2>1. rpc = "closed" /\ log[1].note = IF first THEN "session start" ELSE "disconnected"
      BY <1>1, <1>8, <1>12
    <2>2. 1 \in DOMAIN log
      BY <1>5
    <2>3. QED
      BY <1>10, <2>1, <2>2
  <1>14. QED
    BY <1>1, <1>7, <1>11, <1>13, WholeInit DEF Marked

\* Neighbours in a set of positions that a new last one joins.
LEMMA NextInLine ==
    ASSUME NEW n \in Nat, NEW M, M \subseteq 1 .. n, NEW i \in M, NEW a, NEW z
    PROVE  /\ \A k \in i + 1 .. n : k \notin M
           /\ a \in M \cup {n + 1}
           /\ z \in M \cup {n + 1}
           /\ a < z
           /\ \A k \in a + 1 .. z - 1 : k \notin M
           => (a \in M /\ z \in M) \/ (a = i /\ z = n + 1)
  <1> SUFFICES ASSUME \A k \in i + 1 .. n : k \notin M,
                      a \in M \cup {n + 1}, z \in M \cup {n + 1}, a < z,
                      \A k \in a + 1 .. z - 1 : k \notin M
               PROVE  (a \in M /\ z \in M) \/ (a = i /\ z = n + 1)
    OBVIOUS
  <1>1. \A x \in M : x \in Nat /\ x <= n
    OBVIOUS
  <1>2. a \in M
    BY <1>1
  <1>3. CASE z = n + 1
    <2>1. a \in Nat /\ a <= n /\ i \in Nat /\ i <= n
      BY <1>1, <1>2
    <2>2. ~(a < i)
      <3>1. a < i => i \in a + 1 .. z - 1
        BY <1>3, <2>1
      <3>2. QED
        BY <3>1
    <2>3. ~(i < a)
      <3>1. i < a => a \in i + 1 .. n
        BY <2>1
      <3>2. QED
        BY <1>2, <3>1
    <2>4. QED
      BY <1>3, <2>1, <2>2, <2>3
  <1>4. CASE z # n + 1
    <2>1. z \in M
      BY <1>4
    <2>2. QED
      BY <1>2, <2>1
  <1>5. QED
    BY <1>3, <1>4

\* The notes of two neighbouring markers.
Successive ==
    {<<"session start", "connected">>, <<"connected", "disconnected">>,
     <<"disconnected", "reconnected">>, <<"reconnected", "disconnected">>}

\* A marker that may follow the last one.
LEMMA MarkerFollows ==
    ASSUME Whole, MarkersPair, log # <<>>, NEW i \in DOMAIN log, IsLastMarker(i),
           NEW n \in Notes, n # "line", log' = Append(log, Note(n)),
           <<log[i].note, n>> \in Successive
    PROVE  /\ MarkersPair' /\ log' # <<>>
           /\ \E j \in DOMAIN log' : IsLastMarker(j)' /\ log'[j].note = n
  <1>1. log \in Seq(Entry) /\ Note(n) \in Entry /\ Note(n).note = n
    BY EmptySeq DEF Whole, TypeOK, BufferTypeOK, Note, Entry
  <1>2. Len(log) \in Nat /\ DOMAIN log = 1 .. Len(log) /\ Len(log) # 0
    BY <1>1, LenProperties, EmptySeq
  <1>3. /\ log' \in Seq(Entry)
        /\ Len(log') = Len(log) + 1
        /\ \A k \in 1 .. Len(log) : log'[k] = log[k]
        /\ log'[Len(log) + 1] = Note(n)
    BY <1>1, AppendProperties
  <1>4. DOMAIN log' = 1 .. Len(log) + 1
    BY <1>3, LenProperties
  <1>5. log' # <<>>
    BY <1>2, <1>3, EmptySeq
  <1> DEFINE size == Len(log)
             last == Len(log) + 1
             M == Markers
             M1 == {k \in DOMAIN log' : log'[k].note # "line"}
  <1>6. M \in SUBSET (1 .. size) /\ size \in Nat
    BY <1>2 DEF Markers
  <1>7. Markers' = M1
    BY DEF Markers
  <1>8. M1 = M \cup {last}
    <2>1. ASSUME NEW k \in 1 .. size PROVE k \in M1 <=> k \in M
      <3>1. log'[k] = log[k] /\ k \in DOMAIN log /\ k \in DOMAIN log'
        BY <1>2, <1>3, <1>4
      <3>2. QED
        BY <3>1 DEF Markers
    <2>2. last \in M1
      <3>1. last \in 1 .. last
        BY <1>2
      <3>2. log'[last].note # "line"
        BY <1>1, <1>3
      <3>3. QED
        BY <1>4, <3>1, <3>2
    <2>3. ASSUME NEW k \in M1 PROVE k \in 1 .. size \/ k = last
      <3>1. k \in 1 .. size + 1
        BY <1>4
      <3>2. QED
        BY <1>6, <3>1
    <2>4. QED
      BY <1>6, <2>1, <2>2, <2>3
  <1>9. i \in M /\ \A k \in i + 1 .. size : k \notin M
    BY DEF IsLastMarker
  <1>10. Len(log') = last /\ (log'[last]).note = n /\ last \in DOMAIN log' /\ last = size + 1
    <2>1. last \in 1 .. last
      BY <1>2
    <2>2. QED
      BY <1>1, <1>3, <1>4, <2>1
  <1>11. \A k \in M : log'[k] = log[k]
    BY <1>3, <1>6
  <1>12. 1 \in 1 .. size
    BY <1>2
  <1>13. log'[1].note = "session start"
    BY <1>3, <1>12 DEF MarkersPair
  <1>14. \A a, z \in M : a < z /\ (\A k \in a + 1 .. z - 1 : k \notin M) =>
            <<log[a].note, log[z].note>> \in Successive
    BY DEF MarkersPair, Successive
  <1>15. Markers' = M \cup {last}
    BY <1>7, <1>8
  <1>16. <<log'[i].note, log'[last].note>> \in Successive
    BY <1>9, <1>10, <1>11
  <1> HIDE DEF size, last, M, M1
  <1>17. ASSUME NEW a \in M \cup {last}, NEW z \in M \cup {last},
                a < z, \A k \in a + 1 .. z - 1 : k \notin M \cup {last}
         PROVE  <<log'[a].note, log'[z].note>> \in Successive
    <2>1. \A k \in a + 1 .. z - 1 : k \notin M
      BY <1>17
    <2>2. \/ a \in M /\ z \in M
          \/ a = i /\ z = last
      <3>1. a \in M \cup {size + 1} /\ z \in M \cup {size + 1}
        BY <1>10
      <3>2. (a \in M /\ z \in M) \/ (a = i /\ z = size + 1)
        <4>1. M \subseteq 1 .. size
          BY <1>6
        <4>2. a < z
          BY <1>17
        <4>3. QED
          BY <1>6, <1>9, <2>1, <3>1, <4>1, <4>2, NextInLine
      <3>3. QED
        BY <1>10, <3>2
    <2>3. CASE a \in M /\ z \in M
      BY <1>11, <1>14, <1>17, <2>1, <2>3
    <2>4. CASE a = i /\ z = last
      BY <1>16, <2>4
    <2>5. QED
      BY <2>2, <2>3, <2>4
  <1>18. MarkersPair'
    <2>1. \A a, z \in Markers' : a < z /\ (\A k \in a + 1 .. z - 1 : k \notin Markers') =>
              <<log'[a].note, log'[z].note>> \in Successive
      BY <1>15, <1>17
    <2>2. QED
      BY <1>13, <2>1 DEF MarkersPair, Successive
  <1>19. last \in Markers' /\ \A k \in last + 1 .. Len(log') : k \notin Markers'
    <2>1. \A k \in last + 1 .. last : FALSE
      BY <1>6, <1>10
    <2>2. \A k \in last + 1 .. Len(log') : k \notin Markers'
      BY <1>10, <2>1
    <2>3. QED
      BY <1>15, <2>2
  <1>20. ASSUME NEW j, j \in Markers', \A k \in j + 1 .. Len(log') : k \notin Markers'
         PROVE  IsLastMarker(j)'
    BY <1>20 DEF IsLastMarker
  <1>21. \E j \in DOMAIN log' : IsLastMarker(j)' /\ log'[j].note = n
    BY <1>10, <1>19, <1>20
  <1>22. QED
    BY <1>5, <1>18, <1>21

\* Captured lines are no markers.
LEMMA LinesKeepMarkers ==
    ASSUME Whole, LogChunk
    PROVE  /\ Len(log) \in Nat /\ DOMAIN log = 1 .. Len(log) /\ log' \in Seq(Entry)
           /\ Len(log') = Len(log) + Len(Completed(Bytes(data)))
           /\ Len(Completed(Bytes(data))) \in Nat
           /\ DOMAIN log' = 1 .. Len(log')
           /\ \A k \in 1 .. Len(log) : log'[k] = log[k]
           /\ \A k \in 1 .. Len(Completed(Bytes(data))) :
                 /\ log'[Len(log) + k] = Completed(Bytes(data))[k]
                 /\ log'[Len(log) + k].note = "line"
  <1> DEFINE new == Completed(Bytes(data))
  <1>1. rpc = "log" /\ log' = log \o new
    BY DEF LogChunk, Goes, LogLines
  <1>2. log \in Seq(Entry) /\ pending \in Seq(1 .. MaxBytes)
    BY DEF Whole, TypeOK, BufferTypeOK
  <1>3. new \in Seq({e \in Entry : e.note = "line"})
    BY <1>1, <1>2, DataIsReal, LinesType DEF Ingesting
  <1> HIDE DEF new
  <1>4. new \in Seq(Entry)
    <2>1. {e \in Entry : e.note = "line"} \subseteq Entry
      OBVIOUS
    <2>2. QED
      BY <1>3, <2>1, SeqMonotonic
  <1>5. /\ log' \in Seq(Entry) /\ Len(log') = Len(log) + Len(new)
        /\ \A k \in 1 .. Len(log) + Len(new) :
              log'[k] = IF k <= Len(log) THEN log[k] ELSE new[k - Len(log)]
    BY <1>1, <1>2, <1>4, ConcatProperties
  <1>6. /\ Len(log) \in Nat /\ Len(new) \in Nat /\ DOMAIN log = 1 .. Len(log)
        /\ DOMAIN log' = 1 .. Len(log')
    BY <1>2, <1>4, <1>5, LenProperties
  <1>7. \A k \in 1 .. Len(log) : log'[k] = log[k]
    BY <1>5, <1>6
  <1>8. ASSUME NEW k \in 1 .. Len(new)
        PROVE  log'[Len(log) + k] = new[k] /\ new[k].note = "line"
    <2>1. Len(log) + k \in 1 .. Len(log) + Len(new) /\ ~(Len(log) + k <= Len(log))
          /\ (Len(log) + k) - Len(log) = k
      BY <1>6
    <2>2. new[k] \in {e \in Entry : e.note = "line"}
      BY <1>3, ElementOfSeq
    <2>3. QED
      BY <1>5, <2>1, <2>2
  <1>9. QED
    BY <1>5, <1>6, <1>7, <1>8 DEF new

\* The place of the reader in the life of a connection, when the log is left
\* alone.
Capturing == rpc \notin {"closed", "opened", "stopped"}

LEMMA ReaderPlace ==
    ASSUME Whole, [Next]_vars, UNCHANGED logVars \/ LogChunk, ~Announce, ~NoteLoss
    PROVE  /\ first' = first
           /\ shutdown => shutdown'
           /\ Capturing' => Capturing
           /\ rpc' = "opened" => rpc = "opened" \/ (rpc = "closed" /\ ~shutdown)
           /\ rpc' = "closed" => rpc = "closed"
  <1>1. ASSUME ReaderStep
        PROVE  /\ first' = first /\ shutdown' = shutdown
               /\ Capturing' => Capturing
               /\ rpc' = "opened" => rpc = "opened" \/ (rpc = "closed" /\ ~shutdown)
               /\ rpc' = "closed" => rpc = "closed"
    BY <1>1
    DEF ReaderStep, OpenPort, LosePort, DropWriter, ReadPort, PushChunk, EvictChunk, Pushed,
        LogChunk, Broadcast, DriveLogin, ReaderWrites, ReaderStops, Goes, Capturing, readerVars
  <1>2. ASSUME NEW h \in Conns, HandlerStep(h) \/ \E r \in Requests[h] : Accept(h, r)
        PROVE  rpc' = rpc /\ first' = first /\ (shutdown => shutdown')
    <2>1. rpc' = rpc /\ first' = first
      BY <1>2, HandlerFrame DEF readerVars
    <2>2. shutdown' = shutdown \/ shutdown' = TRUE
      BY <1>2
      DEF HandlerStep, Quick, Accept, ReadDrains, ReadStores, Peek, Status, Stop, BeginSend,
          Subscribe, BadPattern, HandlerWrites, Receive, Timeout, Reply
    <2>3. shutdown => shutdown'
      BY <2>2
    <2>4. QED
      BY <2>1, <2>3
  <1>3. CASE PlugMoves \/ Main \/ UNCHANGED vars
    <2>1. rpc' = rpc /\ first' = first
      BY <1>3 DEF PlugMoves, Main, Signal, AcceptorStops, Exit, vars, readerVars
    <2>2. shutdown' = shutdown \/ shutdown' = TRUE
      BY <1>3 DEF PlugMoves, Main, Signal, AcceptorStops, Exit, vars
    <2>3. shutdown => shutdown'
      BY <2>2
    <2>4. QED
      BY <2>1, <2>3 DEF Capturing
  <1>4. CASE ReaderRuns
    <2>1. ReaderStep
      BY <1>4 DEF ReaderRuns
    <2>2. shutdown => shutdown'
      BY <1>1, <2>1
    <2>3. QED
      BY <1>1, <2>1, <2>2
  <1>5. CASE \E h \in Conns : HandlerStep(h) \/ \E r \in Requests[h] : Accept(h, r)
    <2>1. rpc' = rpc /\ first' = first
      BY <1>2, <1>5
    <2>2. shutdown => shutdown'
      BY <1>2, <1>5
    <2>3. QED
      BY <2>1, <2>2 DEF Capturing
  <1>6. QED
    BY <1>3, <1>4, <1>5 DEF Next

LEMMA MarkedQuiet ==
    ASSUME Marked, Whole', [Next]_vars, UNCHANGED logVars, ~Announce, ~NoteLoss
    PROVE  Marked'
  <1>1. log' = log
    BY DEF logVars
  <1>2. MarkersPair'
    <2>1. Markers' = Markers
      BY <1>1 DEF Markers
    <2>2. QED
      BY <1>1, <2>1 DEF Marked, MarkersPair
  <1>3. PICK i \in DOMAIN log :
            /\ IsLastMarker(i)
            /\ Capturing => log[i].note \in {"connected", "reconnected"}
            /\ rpc = "opened" \/ (rpc = "closed" /\ ~shutdown) =>
                  log[i].note = IF first THEN "session start" ELSE "disconnected"
    BY DEF Marked, Capturing
  <1>4. IsLastMarker(i)'
    BY <1>1, <1>3 DEF IsLastMarker, Markers
  <1>5. /\ first' = first
        /\ shutdown => shutdown'
        /\ Capturing' => Capturing
        /\ rpc' = "opened" => rpc = "opened" \/ (rpc = "closed" /\ ~shutdown)
        /\ rpc' = "closed" => rpc = "closed"
    BY ReaderPlace DEF Marked
  <1>6. Capturing' => log'[i].note \in {"connected", "reconnected"}
    BY <1>1, <1>3, <1>5
  <1>7. rpc' = "opened" \/ (rpc' = "closed" /\ ~shutdown') =>
            log'[i].note = IF first' THEN "session start" ELSE "disconnected"
    BY <1>1, <1>3, <1>5
  <1>8. Capturing' => ~first'
    BY <1>5 DEF Marked, Capturing
  <1>9. QED
    BY <1>1, <1>2, <1>3, <1>4, <1>6, <1>7, <1>8 DEF Marked, Capturing

LEMMA MarkedLogs ==
    ASSUME Marked, Whole', [Next]_vars, LogChunk
    PROVE  Marked'
  <1> DEFINE size == Len(log)
             more == Len(Completed(Bytes(data)))
  <1>1. /\ size \in Nat /\ more \in Nat /\ DOMAIN log = 1 .. size
        /\ Len(log') = size + more /\ DOMAIN log' = 1 .. size + more
        /\ \A k \in 1 .. size : log'[k] = log[k]
        /\ \A k \in 1 .. more : log'[size + k].note = "line"
        /\ log' \in Seq(Entry)
    BY LinesKeepMarkers DEF Marked
  <1> HIDE DEF more
  <1>2. ASSUME NEW k \in 1 .. size + more PROVE k \in 1 .. size \/ log'[k].note = "line"
    <2>1. CASE k > size
      <3>1. k - size \in 1 .. more /\ size + (k - size) = k
        BY <1>1, <2>1
      <3>2. QED
        BY <1>1, <3>1
    <2>2. QED
      BY <1>1, <2>1
  <1>3. Markers' = Markers
    <2>1. Markers' = {k \in 1 .. size + more : log'[k].note # "line"}
      BY <1>1 DEF Markers
    <2>2. Markers = {k \in 1 .. size : log[k].note # "line"}
      BY <1>1 DEF Markers
    <2>3. \A k \in 1 .. size : k \in 1 .. size + more
      BY <1>1
    <2>4. QED
      BY <1>1, <1>2, <2>1, <2>2, <2>3
  <1>4. \A k \in Markers : k \in 1 .. size /\ log'[k] = log[k]
    BY <1>1 DEF Markers
  <1>5. log # <<>> /\ 1 \in 1 .. size /\ log' # <<>>
    <2>1. log # <<>>
      BY DEF Marked
    <2>2. log \in Seq(Entry)
      BY DEF Marked, Whole, TypeOK, BufferTypeOK
    <2>3. size # 0
      BY <2>1, <2>2, EmptySeq
    <2>4. size + more # 0 /\ 1 \in 1 .. size
      BY <1>1, <2>3
    <2>5. QED
      BY <1>1, <2>1, <2>4, EmptySeq
  <1>6. MarkersPair'
    <2>1. \A a, z \in Markers : a < z /\ (\A k \in a + 1 .. z - 1 : k \notin Markers) =>
              <<log[a].note, log[z].note>> \in Successive
      BY DEF Marked, MarkersPair, Successive
    <2>2. \A a, z \in Markers' : a < z /\ (\A k \in a + 1 .. z - 1 : k \notin Markers') =>
              <<log'[a].note, log'[z].note>> \in Successive
      BY <1>3, <1>4, <2>1
    <2>3. log'[1].note = "session start"
      BY <1>1, <1>5 DEF Marked, MarkersPair
    <2>4. QED
      BY <2>2, <2>3 DEF MarkersPair, Successive
  <1>7. rpc = "log" /\ rpc' = "broadcast" /\ first' = first
    BY DEF LogChunk, Goes
  <1>8. PICK i \in DOMAIN log : IsLastMarker(i) /\ log[i].note \in {"connected", "reconnected"}
    BY <1>7 DEF Marked
  <1>9. i \in Markers /\ \A k \in i + 1 .. size : k \notin Markers
    BY <1>8 DEF IsLastMarker
  <1> HIDE DEF size
  <1>10. \A k \in i + 1 .. size + more : k \notin Markers
    <2>1. ASSUME NEW k \in i + 1 .. size + more, k \in Markers PROVE FALSE
      <3>1. k \in 1 .. size
        BY <1>4, <2>1
      <3>2. i \in 1 .. size
        BY <1>1, <1>8
      <3>3. k \in i + 1 .. size
        BY <1>1, <2>1, <3>1, <3>2
      <3>4. QED
        BY <1>9, <2>1, <3>3
    <2>2. QED
      BY <2>1
  <1>11. IsLastMarker(i)'
    <2>1. Len(log') = size + more
      BY <1>1
    <2>2. i \in Markers' /\ \A k \in i + 1 .. Len(log') : k \notin Markers'
      BY <1>3, <1>9, <1>10, <2>1
    <2>3. QED
      BY <2>2 DEF IsLastMarker
  <1>12. i \in DOMAIN log' /\ log'[i].note \in {"connected", "reconnected"}
    <2>1. i \in 1 .. size + more
      BY <1>1, <1>8
    <2>2. QED
      BY <1>1, <1>4, <1>8, <1>9, <2>1
  <1>13. ~first'
    BY <1>7 DEF Marked
  <1>14. QED
    BY <1>5, <1>6, <1>7, <1>11, <1>12, <1>13 DEF Marked

LEMMA MarkedAnnounce ==
    ASSUME Marked, Whole', Announce
    PROVE  Marked'
  <1> DEFINE n == IF first THEN "connected" ELSE "reconnected"
  <1>1. rpc = "opened" /\ rpc' = "capture" /\ first' = FALSE /\ log' = Append(log, Note(n))
    BY DEF Announce, Goes
  <1>2. PICK i \in DOMAIN log :
            /\ IsLastMarker(i)
            /\ log[i].note = IF first THEN "session start" ELSE "disconnected"
    BY <1>1 DEF Marked
  <1>3. n \in Notes /\ n # "line" /\ n \in {"connected", "reconnected"}
    BY DEF Notes
  <1>4. <<log[i].note, n>> \in Successive
    BY <1>2 DEF Successive
  <1> HIDE DEF n
  <1>5. /\ MarkersPair' /\ log' # <<>>
        /\ \E j \in DOMAIN log' : IsLastMarker(j)' /\ log'[j].note = n
    BY <1>1, <1>2, <1>3, <1>4, MarkerFollows DEF Marked
  <1>6. ~first'
    BY <1>1
  <1>7. QED
    BY <1>1, <1>3, <1>5, <1>6 DEF Marked

LEMMA MarkedLeaves ==
    ASSUME Marked, Whole', [Next]_vars, NoteLoss
    PROVE  Marked'
  <1>1. rpc = "dropped" /\ rpc' = "closed" /\ first' = first /\ shutdown' = shutdown
    BY DEF NoteLoss, Goes
  <1>2. ~first /\ ~first'
    BY <1>1 DEF Marked
  <1>3. PICK i \in DOMAIN log : IsLastMarker(i) /\ log[i].note \in {"connected", "reconnected"}
    BY <1>1 DEF Marked
  <1>4. CASE shutdown
    <2>1. log' = log
      BY <1>4 DEF NoteLoss
    <2>2. MarkersPair'
      <3>1. Markers' = Markers
        BY <2>1 DEF Markers
      <3>2. QED
        BY <2>1, <3>1 DEF Marked, MarkersPair
    <2>3. IsLastMarker(i)'
      BY <1>3, <2>1 DEF IsLastMarker, Markers
    <2>4. shutdown'
      BY <1>1, <1>4
    <2>5. QED
      BY <1>1, <1>3, <2>1, <2>2, <2>3, <2>4 DEF Marked
  <1>5. CASE ~shutdown
    <2>1. log' = Append(log, Note("disconnected"))
      BY <1>5 DEF NoteLoss
    <2>2. <<log[i].note, "disconnected">> \in Successive
      BY <1>3 DEF Successive
    <2>3. "disconnected" \in Notes /\ "disconnected" # "line"
      BY DEF Notes
    <2>4. /\ MarkersPair' /\ log' # <<>>
          /\ \E j \in DOMAIN log' : IsLastMarker(j)' /\ log'[j].note = "disconnected"
      BY <1>3, <2>1, <2>2, <2>3, MarkerFollows DEF Marked
    <2>5. QED
      BY <1>1, <1>2, <2>4 DEF Marked
  <1>6. QED
    BY <1>4, <1>5

LEMMA MarkedStep == Marked /\ [Next]_vars => Marked'
  <1> SUFFICES ASSUME Marked, [Next]_vars PROVE Marked'
    OBVIOUS
  <1>1. Whole'
    BY WholeStep DEF Marked
  <1>2. QED
    BY <1>1, LogSteps, MarkedQuiet, MarkedLogs, MarkedAnnounce, MarkedLeaves

\* In every log of the daemon the markers alternate as they should: a session
\* start, then for every connection its opening and its end, whatever the
\* device, the clients and a shutdown do in between.
THEOREM MarkersAlternate == Spec => []MarkersPair
  <1>1. Marked => MarkersPair
    BY DEF Marked
  <1>2. QED
    BY <1>1, MarkedInit, MarkedStep, PTL DEF Spec
-----------------------------------------------------------------------------
\* A sequence of consecutive positions.
LEMMA IsRun ==
    ASSUME NEW S, NEW t \in Seq(S), NEW a \in Int, NEW b \in Int,
           b - a + 1 = Len(t), \A i \in 1 .. Len(t) : t[i] = a + i - 1
    PROVE  t = Run(a, b)
  <1>1. t = [i \in 1 .. Len(t) |-> t[i]]
    BY LenProperties
  <1>2. [i \in 1 .. Len(t) |-> t[i]] = [i \in 1 .. b - a + 1 |-> a + i - 1]
    OBVIOUS
  <1>3. QED
    BY <1>1, <1>2 DEF Run

\* The broadcast position, and the chunk that is about to move it.
LEMMA SentType ==
    ASSUME Whole
    PROVE  /\ Sent \in Nat /\ Sent <= captured /\ captured \in Nat
           /\ rpc = "broadcast" => data \in Real /\ data.at = Sent + 1 /\ End(data) = captured
  <1>1. captured \in Nat
    BY DEF Whole, Sound, Streamed
  <1>2. CASE rpc \in {"push", "evict", "log", "broadcast"}
    <2>1. data \in Real /\ data \in Chunk /\ End(data) = captured
      BY <1>2, DataIsReal DEF Whole, Sound, Streamed, Ingesting
    <2>2. data.at \in 1 .. MaxBytes /\ data.n \in Nat /\ captured = data.at + data.n - 1
      BY <2>1, ChunkEnds DEF End, Chunk
    <2>3. Sent = captured - data.n
      BY <1>2 DEF Sent
    <2>4. data.at \in Nat /\ data.at >= 1
      BY <2>2, BufferAssumption
    <2>5. QED
      BY <1>1, <2>1, <2>2, <2>3, <2>4
  <1>3. CASE rpc \notin {"push", "evict", "log", "broadcast"}
    BY <1>1, <1>3 DEF Sent
  <1>4. QED
    BY <1>2, <1>3

LEMMA SentStep ==
    ASSUME Whole, [Next]_vars, ~Broadcast
    PROVE  Sent' = Sent
  <1>0. captured \in Nat /\ data \in Chunk \cup {NoChunk}
    BY DEF Whole, Sound, Streamed
  <1>1. CASE UNCHANGED readerVars
    BY <1>0, <1>1 DEF readerVars, Sent
  <1>2. ASSUME NEW n \in 1 .. ReadBuf, ReadPort(n)
        PROVE  Sent' = Sent
    <2>1. rpc = "capture" /\ rpc' = "push" /\ captured' = captured + n /\ data'.n = n
      BY <1>2 DEF ReadPort, Goes
    <2>2. n \in Nat
      BY ReaderAssumption
    <2>3. Sent = captured /\ Sent' = captured' - n
      BY <2>1 DEF Sent
    <2>4. QED
      BY <1>0, <2>1, <2>2, <2>3
  <1>3. CASE OpenPort \/ Announce \/ LosePort \/ DropWriter \/ NoteLoss \/ PushChunk
             \/ EvictChunk \/ Pushed \/ LogChunk \/ DriveLogin \/ ReaderWrites \/ ReaderStops
    <2>1. captured' = captured /\ data' = data
      BY <1>3
      DEF OpenPort, Announce, LosePort, DropWriter, NoteLoss, PushChunk, EvictChunk, Pushed,
          LogChunk, DriveLogin, ReaderWrites, ReaderStops, readerVars
    <2>2. rpc' \in {"push", "evict", "log", "broadcast"}
              <=> rpc \in {"push", "evict", "log", "broadcast"}
      BY <1>3
      DEF OpenPort, Announce, LosePort, DropWriter, NoteLoss, PushChunk, EvictChunk, Pushed,
          LogChunk, DriveLogin, ReaderWrites, ReaderStops, readerVars, Goes
    <2>3. QED
      BY <1>0, <2>1, <2>2 DEF Sent
  <1>4. CASE ReaderRuns
    BY <1>2, <1>3, <1>4 DEF ReaderRuns, ReaderStep
  <1>5. QED
    BY <1>1, <1>4, ReaderOnly

\* What a waiter has, and what waits for it, is the stream up to the last
\* broadcast, whatever it has had to forget.
Tuned(h) ==
    /\ acc[h] = Run(Heard(h) - Len(acc[h]) + 1, Heard(h))
    /\ \A i \in 1 .. Len(queue[h]) - 1 : queue[h][i + 1].at = End(queue[h][i]) + 1
    /\ queue[h] # <<>> => End(Last(queue[h])) = Sent
    /\ \A i \in 1 .. Len(queue[h]) : End(queue[h][i]) <= Sent
    /\ \A i \in 1 .. Len(queue[h]) : queue[h][i].n <= ReadBuf
    /\ \/ Heard(h) - Len(acc[h]) <= since[h]
       \/ Len(acc[h]) >= ExpectCap \div 2
    /\ HalfHoldsRead =>
          \A p \in PromptEnds : p <= since[h] + 1 \/ Heard(h) < p

\* A subscription lives while its handler sends or waits, and a channel that
\* nobody listens to is empty.
Subscription(h) ==
    /\ subscribed[h] = "live" =>
          Tuned(h) /\ (pc[h] = "recv" \/ (pc[h] = "send" /\ request[h] = "expect"))
    /\ subscribed[h] # "live" => queue[h] = <<>>
    /\ pc[h] = "dispatch" => acc[h] = <<>>

\* No chunk is larger than a port read.
Paced == Ingesting => data.n <= ReadBuf

Hearing == Whole /\ Paced /\ \A h \in Conns : Subscription(h)

LEMMA HearingInit == Init => Hearing
  <1> SUFFICES ASSUME Init PROVE Hearing
    OBVIOUS
  <1>1. ASSUME NEW h \in Conns PROVE Subscription(h)
    BY DEF Init, ReaderInit, HandlersInit, Subscription
  <1>2. Paced
    BY DEF Init, ReaderInit, Paced, Ingesting
  <1>3. QED
    BY <1>1, <1>2, WholeInit DEF Hearing

LEMMA PacedStep == Paced /\ [Next]_vars => Paced'
  <1> SUFFICES ASSUME Paced, [Next]_vars PROVE Paced'
    OBVIOUS
  <1>1. ASSUME NEW n \in 1 .. ReadBuf, ReadPort(n)
        PROVE  Paced'
    BY <1>1, ReaderAssumption DEF ReadPort, Paced
  <1>2. CASE data' = data /\ (Ingesting' => Ingesting)
    BY <1>2 DEF Paced
  <1>3. CASE ReaderRuns
    BY <1>1, <1>2, <1>3
    DEF ReaderRuns, ReaderStep, OpenPort, Announce, LosePort, DropWriter, NoteLoss, PushChunk,
        EvictChunk, Pushed, LogChunk, Broadcast, DriveLogin, ReaderWrites, ReaderStops,
        readerVars, Goes, Ingesting
  <1>4. CASE ~ReaderRuns
    BY <1>2, <1>4, ReaderOnly DEF readerVars, Ingesting
  <1>5. QED
    BY <1>3, <1>4

\* A run of positions that takes in a prompt and the byte before its end shows
\* it.
LEMMA RunShows ==
    ASSUME NEW f \in Int, NEW e \in Int, NEW p \in PromptEnds, f + 2 <= p, p <= e
    PROVE  Shows(Run(f + 1, e), PromptEnds)
  <1>1. p \in Int
    BY HandlersAssumption
  <1> DEFINE t == Run(f + 1, e)
             n == e - f
  <1>2. n \in Nat /\ e - (f + 1) + 1 = n /\ \A i \in 1 .. n : (f + 1) + i - 1 = f + i
    BY <1>1
  <1>3. t = [i \in 1 .. n |-> f + i]
    BY <1>2 DEF Run
  <1>4. p - f \in 2 .. n /\ p - f \in 1 .. n /\ (p - f) - 1 \in 1 .. n
    BY <1>1, <1>2
  <1> HIDE DEF n
  <1>5. Len(t) = n
    <2>1. t \in Seq(Int)
      BY <1>2, <1>3
    <2>2. QED
      BY <1>2, <1>3, <2>1, LenProperties
  <1>6. t[p - f] = p /\ t[(p - f) - 1] = p - 1
    <2>1. t[p - f] = f + (p - f) /\ t[(p - f) - 1] = f + ((p - f) - 1)
      BY <1>3, <1>4
    <2>2. f + (p - f) = p /\ f + ((p - f) - 1) = p - 1
      BY <1>1
    <2>3. QED
      BY <2>1, <2>2
  <1>7. \E i \in 2 .. Len(t) : t[i] \in PromptEnds /\ t[i - 1] = t[i] - 1
    BY <1>4, <1>5, <1>6
  <1>8. QED
    BY <1>7 DEF Shows

\* What the fields of one connection hold.
LEMMA WaiterTyped ==
    ASSUME Whole, NEW h \in Conns
    PROVE  /\ acc[h] \in Seq(1 .. MaxBytes) /\ Len(acc[h]) \in Nat
           /\ queue[h] \in Seq(Real) /\ Len(queue[h]) \in Nat
           /\ since[h] \in Nat
           /\ \A i \in 1 .. Len(queue[h]) :
                 /\ queue[h][i] \in Real
                 /\ queue[h][i].at \in Nat /\ queue[h][i].n \in Nat
                 /\ queue[h][i].at >= 1 /\ queue[h][i].n >= 1
                 /\ End(queue[h][i]) \in Int
           /\ queue[h] # <<>> => Len(queue[h]) >= 1 /\ 1 \in 1 .. Len(queue[h])
                                 /\ Len(queue[h]) \in 1 .. Len(queue[h])
           /\ queue[h] = <<>> => Len(queue[h]) = 0
  <1>1. acc[h] \in Seq(1 .. MaxBytes) /\ queue[h] \in Seq(Real) /\ since[h] \in 0 .. MaxBytes
    BY DEF Whole, TypeOK, HandlersTypeOK
  <1>2. Len(acc[h]) \in Nat /\ Len(queue[h]) \in Nat /\ (queue[h] # <<>> => Len(queue[h]) # 0)
        /\ (queue[h] = <<>> => Len(queue[h]) = 0)
    BY <1>1, LenProperties, EmptySeq
  <1>3. ASSUME NEW i \in 1 .. Len(queue[h])
        PROVE  /\ queue[h][i] \in Real
               /\ queue[h][i].at \in Nat /\ queue[h][i].n \in Nat
               /\ queue[h][i].at >= 1 /\ queue[h][i].n >= 1
               /\ End(queue[h][i]) \in Int
    <2>1. queue[h][i] \in Real /\ queue[h][i] \in Chunk
      BY <1>1, ElementOfSeq DEF Real
    <2>2. queue[h][i].at \in 1 .. MaxBytes
      BY <2>1 DEF Chunk
    <2>3. queue[h][i].at >= 1
      BY <2>2, BufferAssumption
    <2>4. QED
      BY <2>1, <2>3, ChunkEnds
  <1>4. since[h] \in Nat
    BY <1>1, BufferAssumption
  <1>5. queue[h] # <<>> => Len(queue[h]) >= 1 /\ 1 \in 1 .. Len(queue[h])
                           /\ Len(queue[h]) \in 1 .. Len(queue[h])
    BY <1>2
  <1>6. QED
    BY <1>1, <1>2, <1>3, <1>4, <1>5

LEMMA HeardType ==
    ASSUME Whole, NEW h \in Conns, Tuned(h)
    PROVE  Heard(h) \in Int /\ Heard(h) <= Sent
  <1>1. CASE queue[h] = <<>>
    <2>1. Heard(h) = Sent
      BY <1>1 DEF Heard
    <2>2. QED
      BY <2>1, SentType
  <1>2. CASE queue[h] # <<>>
    <2>1. 1 \in 1 .. Len(queue[h]) /\ queue[h][1].at \in Nat /\ queue[h][1].n \in Nat
          /\ queue[h][1].n >= 1
      BY <1>2, WaiterTyped
    <2>2. queue[h][1].at + queue[h][1].n - 1 <= Sent
      BY <2>1 DEF Tuned, End
    <2>3. Heard(h) = queue[h][1].at - 1
      BY <1>2 DEF Heard
    <2>4. QED
      BY <2>1, <2>2, <2>3, SentType
  <1>3. QED
    BY <1>1, <1>2

\* A connection that the step does not touch, while no chunk is broadcast.
LEMMA TunedStays ==
    ASSUME Whole, Whole', NEW h \in Conns, Tuned(h), Sent' = Sent,
           acc'[h] = acc[h], queue'[h] = queue[h], since'[h] = since[h]
    PROVE  Tuned(h)'
  <1>1. Heard(h)' = Heard(h)
    BY DEF Heard
  <1>2. QED
    BY <1>1 DEF Tuned, Last, End, HalfHoldsRead

\* The broadcast of a chunk to a waiter.
LEMMA TunedBroadcast ==
    ASSUME Whole, Whole', Paced, NEW h \in Conns, Tuned(h), ReaderRuns, Broadcast,
           subscribed[h] = "live"
    PROVE  Tuned(h)'
  <1>1. /\ rpc = "broadcast" /\ rpc' = "login"
        /\ queue'[h] = Append(queue[h], data)
        /\ acc'[h] = acc[h] /\ since'[h] = since[h] /\ captured' = captured
    BY DEF ReaderRuns, Broadcast, Goes, handlerVars, expectVars
  <1>2. /\ data \in Real /\ data.at = Sent + 1 /\ End(data) = captured
        /\ Sent \in Nat /\ Sent <= captured /\ Sent' = captured /\ captured \in Nat
    BY <1>1, SentType DEF Sent
  <1>3. queue[h] \in Seq(Real) /\ Len(queue[h]) \in Nat
    BY WaiterTyped
  <1>4. /\ Len(queue'[h]) = Len(queue[h]) + 1
        /\ \A i \in 1 .. Len(queue[h]) : queue'[h][i] = queue[h][i]
        /\ queue'[h][Len(queue[h]) + 1] = data
    BY <1>1, <1>2, <1>3, AppendProperties
  <1>5. queue'[h] # <<>>
    BY <1>3, <1>4, EmptySeq
  <1>6. Heard(h)' = Heard(h)
    <2>1. Heard(h)' = queue'[h][1].at - 1
      BY <1>5 DEF Heard
    <2>2. CASE queue[h] = <<>>
      <3>1. Len(queue[h]) + 1 = 1
        BY <2>2, EmptySeq
      <3>2. queue'[h][1] = data
        BY <1>4, <3>1
      <3>3. QED
        BY <1>2, <2>1, <2>2, <3>2 DEF Heard
    <2>3. CASE queue[h] # <<>>
      <3>1. 1 \in 1 .. Len(queue[h])
        BY <2>3, WaiterTyped
      <3>2. QED
        BY <1>4, <2>1, <2>3, <3>1 DEF Heard
    <2>4. QED
      BY <2>2, <2>3
  <1>7. ASSUME NEW i \in 1 .. Len(queue'[h]) - 1
        PROVE  queue'[h][i + 1].at = End(queue'[h][i]) + 1
    <2>1. i \in 1 .. Len(queue[h])
      BY <1>3, <1>4
    <2>2. CASE i = Len(queue[h])
      <3>1. queue[h] # <<>>
        BY <2>1, EmptySeq
      <3>2. End(queue[h][i]) = Sent
        BY <2>2, <3>1 DEF Tuned, Last
      <3>3. queue'[h][i + 1] = data
        BY <1>4, <2>2
      <3>4. QED
        BY <1>2, <1>4, <2>1, <3>2, <3>3
    <2>3. CASE i # Len(queue[h])
      <3>1. i \in 1 .. Len(queue[h]) - 1 /\ i + 1 \in 1 .. Len(queue[h])
        BY <1>3, <2>1, <2>3
      <3>2. queue[h][i + 1].at = End(queue[h][i]) + 1
        BY <3>1 DEF Tuned
      <3>3. queue'[h][i + 1] = queue[h][i + 1] /\ queue'[h][i] = queue[h][i]
        BY <1>4, <2>1, <3>1
      <3>4. QED
        BY <3>2, <3>3
    <2>4. QED
      BY <2>2, <2>3
  <1>8. End(Last(queue'[h])) = Sent'
    BY <1>2, <1>4 DEF Last
  <1>9. ASSUME NEW i \in 1 .. Len(queue'[h])
        PROVE  End(queue'[h][i]) <= Sent'
    <2>1. i \in 1 .. Len(queue[h]) \/ i = Len(queue[h]) + 1
      BY <1>3, <1>4
    <2>2. CASE i \in 1 .. Len(queue[h])
      <3>1. End(queue[h][i]) <= Sent /\ End(queue[h][i]) \in Int
        BY <2>2, WaiterTyped DEF Tuned
      <3>2. QED
        BY <1>2, <1>4, <2>2, <3>1
    <2>3. CASE i = Len(queue[h]) + 1
      BY <1>2, <1>4, <2>3
    <2>4. QED
      BY <2>1, <2>2, <2>3
  <1>10. ASSUME NEW i \in 1 .. Len(queue'[h])
         PROVE  queue'[h][i].n <= ReadBuf
    <2>1. i \in 1 .. Len(queue[h]) \/ i = Len(queue[h]) + 1
      BY <1>3, <1>4
    <2>2. data.n <= ReadBuf
      BY <1>1 DEF Paced, Ingesting
    <2>3. QED
      BY <1>4, <2>1, <2>2 DEF Tuned
  <1>11. HalfHoldsRead => \A p \in PromptEnds : p <= since'[h] + 1 \/ Heard(h)' < p
    BY <1>1, <1>6 DEF Tuned
  <1>12. QED
    BY <1>1, <1>5, <1>6, <1>7, <1>8, <1>9, <1>10, <1>11 DEF Tuned, HalfHoldsRead

\* A waiter takes the next chunk: what it has grows by it, or is cut to the
\* newest half of the cap.
LEMMA TunedReceives ==
    ASSUME Whole, Whole', NEW h \in Conns, Tuned(h), Receive(h), Sent' = Sent,
           subscribed'[h] = "live"
    PROVE  Tuned(h)'
  <1> DEFINE n == Len(queue[h])
             m == Len(queue'[h])
             l == Len(acc[h])
             c == queue[h][1]
             all == acc[h] \o Bytes(c)
             w == Len(all)
             half == ExpectCap \div 2
  <1>1. /\ queue[h] # <<>> /\ queue'[h] = Tail(queue[h])
        /\ acc'[h] = Accumulated(acc[h], Head(queue[h]))
        /\ since'[h] = since[h] /\ captured' = captured
        /\ ~Shows(acc'[h], PromptEnds)
    <2>1. ~Shows(acc'[h], PromptEnds)
      BY DEF Receive, Answers, Whole, TypeOK, ReaderTypeOK
    <2>2. QED
      BY <2>1 DEF Receive, readerVars, Whole, TypeOK, ReaderTypeOK, HandlersTypeOK
  <1>2. /\ queue[h] \in Seq(Real) /\ n \in Nat /\ n >= 1
        /\ 1 \in 1 .. n
        /\ c \in Real /\ c.at \in Nat /\ c.n \in Nat /\ c.at >= 1 /\ c.n >= 1 /\ End(c) \in Int
        /\ acc[h] \in Seq(1 .. MaxBytes) /\ l \in Nat /\ since[h] \in Nat
    BY <1>1, WaiterTyped
  <1> HIDE DEF n, l
  <1>3. End(c) = c.at + c.n - 1 /\ Heard(h) = c.at - 1
    BY <1>1 DEF End, Heard
  <1>4. Head(queue[h]) = c
    BY <1>1, <1>2, HeadTailProperties
  <1>5. /\ queue'[h] \in Seq(Real) /\ m = n - 1
        /\ \A i \in 1 .. n - 1 : queue'[h][i] = queue[h][i + 1]
    BY <1>1, <1>2, HeadTailProperties DEF n
  <1> HIDE DEF m
  <1>6. Heard(h)' = End(c)
    <2>1. CASE queue'[h] = <<>>
      <3>1. n = 1
        BY <1>2, <1>5, <2>1, EmptySeq DEF m
      <3>2. End(queue[h][1]) = Sent
        BY <1>1, <3>1 DEF Tuned, Last, n
      <3>3. QED
        BY <2>1, <3>2 DEF Heard
    <2>2. CASE queue'[h] # <<>>
      <3>1. m # 0
        BY <1>5, <2>2, EmptySeq DEF m
      <3>2. 1 \in 1 .. n - 1
        BY <1>2, <1>5, <3>1
      <3>3. queue[h][1 + 1].at = End(queue[h][1]) + 1
        BY <3>2 DEF Tuned, n
      <3>4. queue'[h][1].at = End(c) + 1
        BY <1>5, <3>2, <3>3
      <3>5. QED
        BY <1>2, <2>2, <3>4 DEF Heard
    <2>3. QED
      BY <2>1, <2>2
  <1>7. ASSUME NEW i \in 1 .. m - 1
        PROVE  queue'[h][i + 1].at = End(queue'[h][i]) + 1
    <2>1. i + 1 \in 1 .. n - 1 /\ i \in 1 .. n - 1
      BY <1>2, <1>5
    <2>2. queue[h][(i + 1) + 1].at = End(queue[h][i + 1]) + 1
      BY <2>1 DEF Tuned, n
    <2>3. QED
      BY <1>5, <2>1, <2>2
  <1>8. queue'[h] # <<>> => End(Last(queue'[h])) = Sent'
    <2>1. SUFFICES ASSUME queue'[h] # <<>> PROVE End(Last(queue'[h])) = Sent'
      OBVIOUS
    <2>2. m # 0
      BY <1>5, <2>1, EmptySeq DEF m
    <2>3. n - 1 \in 1 .. n - 1 /\ (n - 1) + 1 = n
      BY <1>2, <1>5, <2>2
    <2>4. queue'[h][m] = queue[h][n]
      BY <1>5, <2>3
    <2>5. QED
      BY <1>1, <2>4 DEF Tuned, Last, m, n
  <1>9. ASSUME NEW i \in 1 .. m PROVE End(queue'[h][i]) <= Sent'
    <2>1. i \in 1 .. n - 1 /\ i + 1 \in 1 .. n
      BY <1>2, <1>5
    <2>2. QED
      BY <1>5, <2>1 DEF Tuned, n
  <1>10. /\ all \in Seq(1 .. MaxBytes) /\ w = l + c.n /\ w \in Nat
         /\ \A i \in 1 .. w : all[i] = End(c) - w + i
    <2>1. Bytes(c) \in Seq(1 .. MaxBytes) /\ Len(Bytes(c)) = c.n
          /\ \A i \in 1 .. c.n : Bytes(c)[i] = c.at + i - 1
      BY <1>2, RealBytes
    <2>2. /\ all \in Seq(1 .. MaxBytes) /\ w = l + c.n
          /\ \A i \in 1 .. l + c.n :
                all[i] = IF i <= l THEN acc[h][i] ELSE Bytes(c)[i - l]
      <3>1. acc[h] \in Seq(1 .. MaxBytes)
        BY <1>2
      <3> DEFINE t == acc[h]
                 b == Bytes(c)
      <3>2. t \in Seq(1 .. MaxBytes) /\ b \in Seq(1 .. MaxBytes) /\ Len(b) = c.n
        BY <2>1, <3>1
      <3>3. l = Len(t) /\ w = Len(t \o b) /\ all = t \o b
        BY DEF l
      <3> HIDE DEF t, b, w, all
      <3>4. /\ t \o b \in Seq(1 .. MaxBytes)
            /\ Len(t \o b) = Len(t) + Len(b)
            /\ \A i \in 1 .. Len(t) + Len(b) :
                  (t \o b)[i] = IF i <= Len(t) THEN t[i] ELSE b[i - Len(t)]
        BY <3>2, ConcatProperties
      <3>5. /\ all \in Seq(1 .. MaxBytes) /\ w = l + c.n
            /\ \A i \in 1 .. l + c.n : all[i] = IF i <= l THEN t[i] ELSE b[i - l]
        BY <3>2, <3>3, <3>4
      <3>6. QED
        BY <3>5 DEF t, b
    <2>3. \A i \in 1 .. l : acc[h][i] = Heard(h) - l + i
      <3>1. acc[h] = Run(Heard(h) - l + 1, Heard(h))
        <4>1. acc[h] = Run(Heard(h) - Len(acc[h]) + 1, Heard(h))
          BY DEF Tuned
        <4>2. QED
          BY <4>1 DEF l
      <3>2. PICK x \in Int : x = Heard(h)
        BY <1>2, <1>3
      <3>3. x - (x - l + 1) + 1 = l /\ \A i \in 1 .. l : (x - l + 1) + i - 1 = x - l + i
        BY <1>2
      <3>4. acc[h] = [i \in 1 .. x - (x - l + 1) + 1 |-> (x - l + 1) + i - 1]
        BY <3>1, <3>2 DEF Run
      <3>5. acc[h] = [i \in 1 .. l |-> (x - l + 1) + i - 1]
        BY <3>3, <3>4
      <3>6. QED
        BY <3>2, <3>3, <3>5
    <2> HIDE DEF w
    <2> HIDE DEF all, c
    <2>6. c.at \in Int /\ c.n \in Int /\ l \in Int
      BY <1>2
    <2>7. w = l + c.n
      BY <2>2
    <2>4. ASSUME NEW i \in 1 .. w PROVE all[i] = End(c) - w + i
      <3>0. i \in Int
        OBVIOUS
      <3>1. i \in Nat /\ i >= 1 /\ i <= l + c.n
        BY <1>2, <2>2
      <3>2. CASE i <= l
        <4>1. all[i] = Heard(h) - l + i
          BY <2>2, <2>3, <3>1, <3>2
        <4>2. all[i] = (c.at - 1) - l + i /\ End(c) - w + i = (c.at + c.n - 1) - (l + c.n) + i
          BY <1>3, <2>7, <4>1
        <4>3. QED
          BY <2>6, <3>0, <4>2
      <3>3. CASE ~(i <= l)
        <4>1. i - l \in 1 .. c.n
          BY <1>2, <3>1, <3>3
        <4>2. all[i] = c.at + (i - l) - 1
          BY <2>1, <2>2, <3>1, <3>3, <4>1
        <4>3. End(c) - w + i = (c.at + c.n - 1) - (l + c.n) + i
          BY <1>3, <2>7
        <4>4. QED
          BY <2>6, <3>0, <4>2, <4>3
      <3>4. QED
        BY <3>2, <3>3
    <2>5. QED
      BY <1>2, <2>2, <2>4
  <1>11. acc'[h] = IF w <= ExpectCap THEN all ELSE LastOf(all, half)
    BY <1>1, <1>4 DEF Accumulated
  <1>12. half \in Nat /\ half <= ExpectCap /\ ExpectCap \in Nat
    BY HandlersAssumption
  <1>13. Sent \in Nat /\ Sent <= captured /\ captured \in Nat /\ End(c) <= Sent
    <2>1. End(queue[h][1]) <= Sent
      BY <1>2 DEF Tuned, n
    <2>2. QED
      BY <2>1, SentType
  <1>14. ASSUME NEW i \in 1 .. m PROVE queue'[h][i].n <= ReadBuf
    <2>1. i \in 1 .. n - 1 /\ i + 1 \in 1 .. n
      BY <1>2, <1>5
    <2>2. QED
      BY <1>5, <2>1 DEF Tuned, n
  <1>15. ASSUME NEW f \in Int, NEW k \in Nat, k = Len(acc'[h]), f = End(c) - k,
                acc'[h] = Run(f + 1, End(c)), f <= since[h] \/ k >= half,
                NEW p \in PromptEnds, HalfHoldsRead, p > since[h] + 1
         PROVE  End(c) < p
    <2>1. SUFFICES ASSUME p <= End(c) PROVE FALSE
      BY <1>2, HandlersAssumption
    <2>2. ~Shows(acc'[h], PromptEnds)
      BY <1>1
    <2>3. c.at - 1 < p
      <3>1. p <= since[h] + 1 \/ Heard(h) < p
        BY <1>15 DEF Tuned
      <3>2. PICK s \in Int, q \in Int : s = since[h] /\ q = p
        BY <1>2, HandlersAssumption
      <3>3. q > s + 1 => ~(q <= s + 1)
        OBVIOUS
      <3>4. Heard(h) < p
        BY <1>15, <3>1, <3>2, <3>3
      <3>5. QED
        BY <1>3, <3>4
    <2>4. c.n <= ReadBuf /\ ReadBuf + 1 <= half /\ half \in Nat /\ ReadBuf \in Nat
      <3>1. c.n <= ReadBuf
        BY <1>2 DEF Tuned, n
      <3>2. ReadBuf + 1 <= half
        BY <1>15 DEF HalfHoldsRead
      <3>3. QED
        BY <1>12, <3>1, <3>2, ReaderAssumption
    <2>5. PICK x \in Nat, y \in Nat, e \in Int, s \in Nat, q \in Int :
              x = c.at /\ y = c.n /\ e = End(c) /\ s = since[h] /\ q = p
      BY <1>2, HandlersAssumption
    <2>6. e = x + y - 1 /\ x - 1 < q /\ y + 1 <= half /\ f = e - k /\ q > s + 1
          /\ (f <= s \/ k >= half)
      <3>1. e = x + y - 1 /\ x - 1 < q /\ y + 1 <= half
        <4>1. End(c) = c.at + c.n - 1 /\ c.n <= ReadBuf /\ ReadBuf + 1 <= half
          BY <1>3, <2>4
        <4>2. y <= ReadBuf
          BY <2>5, <4>1
        <4>3. y + 1 <= half
          BY <2>4, <4>1, <4>2
        <4>4. QED
          BY <1>3, <2>3, <2>5, <4>3
      <3>2. f = e - k /\ q > s + 1 /\ (f <= s \/ k >= half)
        BY <1>15, <2>5
      <3>3. QED
        BY <3>1, <3>2
    <2>7. f + 2 <= q
      BY <2>4, <2>6
    <2>8. Shows(Run(f + 1, End(c)), PromptEnds)
      BY <1>2, <1>15, <2>1, <2>5, <2>7, RunShows
    <2>9. QED
      BY <1>15, <2>2, <2>8
  <1> HIDE DEF w
  <1> HIDE DEF all, c, half
  <1>16. ASSUME NEW f \in Int, NEW k \in Nat, k = Len(acc'[h]), f = End(c) - k,
                acc'[h] = Run(f + 1, End(c)), f <= since[h] \/ k >= half
         PROVE  Tuned(h)'
    <2>1. HalfHoldsRead => \A p \in PromptEnds : p <= since'[h] + 1 \/ Heard(h)' < p
      <3>1. ASSUME HalfHoldsRead, NEW p \in PromptEnds
            PROVE  p <= since'[h] + 1 \/ Heard(h)' < p
        <4>1. PICK s \in Int, q \in Int : s = since[h] /\ q = p
          BY <1>2, HandlersAssumption
        <4>2. q <= s + 1 \/ q > s + 1
          OBVIOUS
        <4>3. p > since[h] + 1 => End(c) < p
          BY <1>15, <1>16, <3>1
        <4>4. p <= since[h] + 1 \/ End(c) < p
          BY <4>1, <4>2, <4>3
        <4>5. QED
          BY <1>1, <1>6, <4>4
      <3>2. QED
        BY <3>1
    <2>2. /\ acc'[h] = Run(Heard(h)' - Len(acc'[h]) + 1, Heard(h)')
          /\ Heard(h)' - Len(acc'[h]) <= since'[h] \/ Len(acc'[h]) >= ExpectCap \div 2
      BY <1>1, <1>6, <1>16 DEF half
    <2>3. QED
      BY <1>7, <1>8, <1>9, <1>14, <2>1, <2>2 DEF Tuned, HalfHoldsRead, m
  <1>17. CASE w <= ExpectCap
    <2>1. acc'[h] = all
      BY <1>11, <1>17
    <2>2. all = Run(End(c) - w + 1, End(c))
      <3>0. End(c) \in Int /\ w \in Int
        BY <1>2, <1>10
      <3>1. End(c) - (End(c) - w + 1) + 1 = w /\ End(c) - w + 1 \in Int
        BY <3>0
      <3>2. \A i \in 1 .. w : all[i] = (End(c) - w + 1) + i - 1
        BY <1>2, <1>10
      <3>3. QED
        BY <1>2, <1>10, <3>1, <3>2, IsRun DEF w
    <2>3. End(c) - w = Heard(h) - l
      <3>1. w = l + c.n /\ l \in Nat /\ c.n \in Nat /\ c.at \in Nat
        BY <1>2, <1>10
      <3>2. QED
        BY <1>3, <3>1
    <2>4. End(c) - w <= since[h] \/ w >= half
      <3>1. Heard(h) - l <= since[h] \/ l >= half
        BY DEF Tuned, l, half
      <3>2. w = l + c.n /\ l \in Nat /\ c.n \in Nat
        BY <1>2, <1>10
      <3>3. l >= half => w >= half
        BY <1>12, <3>2
      <3>4. QED
        BY <2>3, <3>1, <3>3
    <2>5. PICK f \in Int, k \in Nat : f = End(c) - w /\ k = w
      BY <1>2, <1>10
    <2>6. k = Len(acc'[h]) /\ f = End(c) - k /\ acc'[h] = Run(f + 1, End(c))
      BY <2>1, <2>2, <2>5 DEF w
    <2>7. f <= since[h] \/ k >= half
      BY <2>4, <2>5
    <2>8. QED
      BY <1>16, <2>6, <2>7
  <1>18. CASE w > ExpectCap
    <2>1. PICK z \in Nat, k \in Nat, e \in Int : z = w /\ k = half /\ e = End(c)
      BY <1>2, <1>10, <1>12
    <2>2. z > k
      BY <1>12, <1>18, <2>1
    <2>3. PICK from \in Nat \ {0} : from = z - k + 1
      BY <2>2
    <2>4. acc'[h] = SubSeq(all, from, z)
      <3>1. ~(w <= ExpectCap)
        BY <1>10, <1>12, <1>18
      <3>2. acc'[h] = LastOf(all, half)
        BY <1>11, <3>1
      <3>3. Len(all) = z
        BY <2>1 DEF w
      <3>4. Len(all) > half
        BY <2>1, <2>2, <3>3
      <3>5. acc'[h] = SubSeq(all, Len(all) - half + 1, Len(all))
        BY <3>2, <3>4 DEF LastOf
      <3>6. QED
        BY <2>1, <2>3, <3>3, <3>5
    <2>5. /\ acc'[h] \in Seq(1 .. MaxBytes)
          /\ Len(acc'[h]) = k
          /\ \A i \in 1 .. k : acc'[h][i] = all[from + i - 1]
      <3>1. all \in Seq(1 .. MaxBytes) /\ z <= Len(all) /\ z \in Int
        BY <1>10, <2>1 DEF w
      <3>2. /\ SubSeq(all, from, z) \in Seq(1 .. MaxBytes)
            /\ Len(SubSeq(all, from, z)) = IF from <= z THEN z - from + 1 ELSE 0
            /\ \A i \in 1 .. z - from + 1 : SubSeq(all, from, z)[i] = all[from + i - 1]
        <4>1. from \in Nat \ {0}
          BY <2>3
        <4>2. PICK text \in Seq(1 .. MaxBytes) : text = all
          BY <3>1
        <4>3. z <= Len(text)
          BY <3>1, <4>2
        <4>4. SubSeq(text, from, z) \in Seq(1 .. MaxBytes)
          BY <3>1, <4>1, <4>3, PartType
        <4>5. Len(SubSeq(text, from, z)) = IF from <= z THEN z - from + 1 ELSE 0
          BY <3>1, <4>1, <4>3, PartType
        <4>6. \A i \in 1 .. z - from + 1 : SubSeq(text, from, z)[i] = text[from + i - 1]
          BY <3>1, <4>1, <4>3, PartType
        <4>7. QED
          BY <4>2, <4>4, <4>5, <4>6
      <3>3. z - from + 1 = k /\ (k = 0 \/ from <= z) /\ (from <= z \/ k = 0)
            /\ (~(from <= z) => k = 0)
        BY <2>2, <2>3
      <3>4. QED
        BY <2>4, <3>2, <3>3
    <2>6. \A i \in 1 .. k : acc'[h][i] = e - k + i
      <3>1. ASSUME NEW i \in 1 .. k PROVE acc'[h][i] = e - k + i
        <4>1. from + i - 1 \in 1 .. z /\ e - z + (from + i - 1) = e - k + i
          BY <2>2, <2>3
        <4>2. \A p \in 1 .. z : all[p] = e - z + p
          BY <1>10, <2>1
        <4>3. all[from + i - 1] = e - z + (from + i - 1)
          BY <4>1, <4>2
        <4>4. QED
          BY <2>5, <4>1, <4>3
      <3>2. QED
        BY <3>1
    <2>7. acc'[h] = Run(e - k + 1, e)
      <3>1. e - (e - k + 1) + 1 = k /\ e - k + 1 \in Int
        OBVIOUS
      <3>2. \A i \in 1 .. k : acc'[h][i] = (e - k + 1) + i - 1
        BY <2>6
      <3>3. PICK a \in Int : a = e - k + 1
        BY <3>1
      <3>4. e - a + 1 = k /\ \A i \in 1 .. k : acc'[h][i] = a + i - 1
        BY <3>1, <3>2, <3>3
      <3>5. acc'[h] = Run(a, e)
        <4>1. PICK t : t = acc'[h]
          OBVIOUS
        <4>2. t \in Seq(1 .. MaxBytes) /\ e - a + 1 = Len(t)
          BY <2>5, <3>4, <4>1
        <4>3. \A i \in 1 .. Len(t) : t[i] = a + i - 1
          BY <2>5, <3>4, <4>1
        <4>4. t = Run(a, e)
          BY <4>2, <4>3, IsRun
        <4>5. QED
          BY <4>1, <4>4
      <3>6. QED
        BY <3>3, <3>5
    <2>8. PICK f \in Int : f = e - k
      OBVIOUS
    <2>9. k = Len(acc'[h]) /\ f = End(c) - k /\ acc'[h] = Run(f + 1, End(c))
      BY <2>1, <2>5, <2>7, <2>8
    <2>10. k >= half
      BY <1>12, <2>1
    <2>11. QED
      BY <1>16, <2>9, <2>10
  <1>19. QED
    BY <1>10, <1>12, <1>17, <1>18

\* A step of a handler leaves the other connections alone.
LEMMA OthersStay ==
    ASSUME Whole, NEW h \in Conns, HandlerStep(h) \/ \E r \in Requests[h] : Accept(h, r),
           NEW g \in Conns, g # h
    PROVE  /\ acc'[g] = acc[g] /\ queue'[g] = queue[g] /\ since'[g] = since[g]
           /\ subscribed'[g] = subscribed[g] /\ pc'[g] = pc[g] /\ request'[g] = request[g]
  BY DEF HandlerStep, Quick, Accept, ReadDrains, ReadStores, Peek, Status, Stop, BeginSend,
         Subscribe, BadPattern, HandlerWrites, Receive, Timeout, Reply, Answers, expectVars,
         subVars, Whole, TypeOK, ReaderTypeOK, HandlersTypeOK

LEMMA SubscriptionStays ==
    ASSUME Whole, Whole', NEW g \in Conns, Subscription(g), Sent' = Sent,
           acc'[g] = acc[g], queue'[g] = queue[g], since'[g] = since[g],
           subscribed'[g] = subscribed[g], pc'[g] = pc[g], request'[g] = request[g]
    PROVE  Subscription(g)'
  <1>1. subscribed[g] = "live" => Tuned(g)'
    <2>1. SUFFICES ASSUME subscribed[g] = "live" PROVE Tuned(g)'
      OBVIOUS
    <2>2. Tuned(g)
      BY <2>1 DEF Subscription
    <2>3. QED
      BY <2>2, TunedStays
  <1>2. QED
    BY <1>1 DEF Subscription

\* The handler's own steps.
LEMMA SubscriptionMoves ==
    ASSUME Whole, Whole', NEW h \in Conns, Subscription(h), Sent' = Sent,
           HandlerStep(h) \/ \E r \in Requests[h] : Accept(h, r)
    PROVE  Subscription(h)'
  <1>0. /\ acc \in [Conns -> Seq(1 .. MaxBytes)] /\ since \in [Conns -> 0 .. MaxBytes]
        /\ queue \in [Conns -> Seq(Chunk)]
        /\ subscribed \in [Conns -> {"none", "live", "dead"}]
        /\ pc \in [Conns -> {"idle", "dispatch", "drained", "send", "recv", "reply"}]
        /\ request \in [Conns -> Kinds \cup {"none"}]
    BY DEF Whole, TypeOK, ReaderTypeOK, HandlersTypeOK
  <1>1. ASSUME NEW r \in Requests[h], Accept(h, r) PROVE Subscription(h)'
    BY <1>0, <1>1 DEF Accept, Subscription, subVars
  <1>2. CASE Subscribe(h)
    <2>1. /\ subscribed'[h] = "live" /\ queue' = queue /\ since'[h] = captured
          /\ acc' = acc /\ pc[h] = "dispatch" /\ request' = request
          /\ request[h] \in {"expect", "wait"}
          /\ pc'[h] = IF request[h] = "expect" THEN "send" ELSE "recv"
          /\ subscribed[h] # "live" /\ captured' = captured
      BY <1>0, <1>2 DEF Subscribe, Dispatches, Subscription, readerVars
    <2>2. acc'[h] = <<>> /\ queue'[h] = <<>>
      BY <2>1 DEF Subscription
    <2>3. Len(acc'[h]) = 0 /\ Len(queue'[h]) = 0
      BY <2>2, EmptySeq
    <2>4. Heard(h)' = Sent
      BY <2>2 DEF Heard
    <2>5. PICK s \in Nat, now \in Nat : s = Sent /\ now = captured /\ s <= now
      BY SentType
    <2>6. acc'[h] = Run(s - 0 + 1, s)
      <3>1. <<>> \in Seq(Nat) /\ Len(<<>>) = 0 /\ \A i \in 1 .. 0 : FALSE
        BY EmptySeq
      <3>2. s - (s - 0 + 1) + 1 = 0 /\ s - 0 + 1 \in Int /\ s \in Int
        OBVIOUS
      <3>3. QED
        BY <2>2, <3>1, <3>2, IsRun
    <2>7. \A i \in 1 .. 0 - 1 : FALSE
      OBVIOUS
    <2>8. \A i \in 1 .. 0 : FALSE
      OBVIOUS
    <2>9. s - 0 <= now
      BY <2>5
    <2>10. Heard(h)' - Len(acc'[h]) <= since'[h]
      BY <2>1, <2>3, <2>4, <2>5, <2>9
    <2>11. acc'[h] = Run(Heard(h)' - Len(acc'[h]) + 1, Heard(h)')
      BY <2>3, <2>4, <2>5, <2>6
    <2>12. ASSUME NEW p \in PromptEnds
           PROVE  p <= since'[h] + 1 \/ Heard(h)' < p
      <3>1. p \in Int
        BY HandlersAssumption
      <3>2. p <= now + 1 \/ s < p
        BY <2>5, <3>1
      <3>3. QED
        BY <2>1, <2>4, <2>5, <3>2
    <2>13. Tuned(h)'
      BY <2>2, <2>3, <2>7, <2>8, <2>10, <2>11, <2>12 DEF Tuned
    <2>14. QED
      BY <2>1, <2>13 DEF Subscription
  <1>3. CASE Receive(h)
    <2>1. CASE subscribed[h] = "live"
      <3>1. Tuned(h)
        BY <2>1 DEF Subscription
      <3>2. CASE subscribed'[h] = "live"
        <4>1. Tuned(h)'
          BY <1>3, <3>1, <3>2, TunedReceives
        <4>2. pc'[h] = "recv"
          BY <1>0, <1>3, <3>2 DEF Receive, Answers
        <4>3. QED
          BY <3>2, <4>1, <4>2 DEF Subscription
      <3>3. CASE subscribed'[h] # "live"
        <4>1. queue'[h] = <<>> /\ pc'[h] = "reply"
          BY <1>0, <1>3, <2>1, <3>3 DEF Receive, Answers
        <4>2. QED
          BY <3>3, <4>1 DEF Subscription
      <3>4. QED
        BY <3>2, <3>3
    <2>2. CASE subscribed[h] # "live"
      <3>1. queue[h] # <<>>
        BY <1>3 DEF Receive
      <3>2. QED
        BY <2>2, <3>1 DEF Subscription
    <2>3. QED
      BY <2>1, <2>2
  <1>4. CASE Timeout(h)
    BY <1>0, <1>4 DEF Timeout, Answers, Subscription
  <1>5. CASE ReadStores(h) \/ Peek(h) \/ Status(h) \/ Stop(h) \/ BadPattern(h)
    <2>1. /\ subscribed[h] # "live" /\ queue' = queue
          /\ subscribed'[h] = subscribed[h] /\ pc'[h] = "reply"
      BY <1>0, <1>5
      DEF ReadStores, Peek, Status, Stop, BadPattern, Dispatches, Answers, Subscription
    <2>2. QED
      BY <2>1 DEF Subscription
  <1>6. CASE ReadDrains(h) \/ BeginSend(h) \/ Reply(h)
    <2>1. /\ subscribed[h] # "live" /\ queue' = queue /\ subscribed' = subscribed
          /\ pc'[h] # "dispatch"
      BY <1>0, <1>6 DEF ReadDrains, BeginSend, Reply, Dispatches, Subscription, subVars
    <2>2. QED
      BY <2>1 DEF Subscription
  <1>7. CASE HandlerWrites(h)
    <2>1. pc[h] = "send" /\ UNCHANGED <<acc, since>>
      BY <1>7 DEF HandlerWrites
    <2>2. CASE WriteFails(h) /\ Answers(h, "error") /\ queue' = [queue EXCEPT ![h] = <<>>]
      BY <1>0, <2>2 DEF Answers, Subscription
    <2>3. CASE request[h] = "send" /\ Answers(h, "ok") /\ UNCHANGED queue
      <3>1. subscribed[h] # "live" /\ subscribed'[h] = subscribed[h] /\ pc'[h] = "reply"
        BY <1>0, <2>1, <2>3 DEF Answers, Subscription
      <3>2. QED
        BY <2>3, <3>1 DEF Subscription
    <2>4. CASE request[h] = "expect" /\ pc' = [pc EXCEPT ![h] = "recv"]
               /\ UNCHANGED <<request, reply, subVars>>
      <3>1. subscribed' = subscribed /\ queue' = queue /\ pc'[h] = "recv"
        BY <1>0, <2>4 DEF subVars
      <3>2. subscribed[h] = "live" => Tuned(h)'
        <4>1. SUFFICES ASSUME subscribed[h] = "live" PROVE Tuned(h)'
          OBVIOUS
        <4>2. Tuned(h)
          BY <4>1 DEF Subscription
        <4>3. QED
          BY <2>1, <3>1, <4>2, TunedStays
      <3>3. QED
        BY <3>1, <3>2 DEF Subscription
    <2>5. CASE UNCHANGED <<pc, request, reply, subVars>>
      <3>1. pc' = pc /\ request' = request /\ subscribed' = subscribed /\ queue' = queue
        BY <2>5 DEF subVars
      <3>2. QED
        BY <2>1, <3>1, SubscriptionStays
    <2>6. QED
      BY <1>7, <2>2, <2>3, <2>4, <2>5 DEF HandlerWrites
  <1>8. QED
    BY <1>1, <1>2, <1>3, <1>4, <1>5, <1>6, <1>7 DEF HandlerStep, Quick

LEMMA SubscriptionHears ==
    ASSUME Whole, Whole', Paced, ReaderRuns, Broadcast, NEW h \in Conns, Subscription(h)
    PROVE  Subscription(h)'
  <1>1. /\ queue'[h] = IF subscribed[h] = "live" THEN Append(queue[h], data) ELSE queue[h]
        /\ subscribed'[h] = IF subscribed[h] = "dead" THEN "none" ELSE subscribed[h]
        /\ acc' = acc /\ pc' = pc /\ request' = request
    BY DEF ReaderRuns, Broadcast, handlerVars, expectVars
  <1>2. CASE subscribed[h] = "live"
    <2>1. Tuned(h)'
      BY <1>2, TunedBroadcast DEF Subscription
    <2>2. QED
      BY <1>1, <1>2, <2>1 DEF Subscription
  <1>3. CASE subscribed[h] # "live"
    BY <1>1, <1>3 DEF Subscription
  <1>4. QED
    BY <1>2, <1>3

LEMMA HearingStep == Hearing /\ [Next]_vars => Hearing'
  <1> SUFFICES ASSUME Hearing, [Next]_vars PROVE Hearing'
    OBVIOUS
  <1>1. Whole /\ Whole' /\ Paced /\ Paced'
    BY WholeStep, PacedStep DEF Hearing
  <1>2. ASSUME NEW g \in Conns PROVE Subscription(g)'
    <2>0. Subscription(g)
      BY DEF Hearing
    <2>1. CASE ReaderRuns /\ Broadcast
      BY <1>1, <2>0, <2>1, SubscriptionHears
    <2>2. CASE ReaderRuns /\ ~Broadcast
      <3>1. UNCHANGED <<acc, since, queue, subscribed, pc, request>>
        BY <2>2
        DEF ReaderRuns, ReaderStep, OpenPort, Announce, LosePort, DropWriter, NoteLoss,
            ReadPort, PushChunk, EvictChunk, Pushed, LogChunk, DriveLogin, ReaderWrites,
            ReaderStops, subVars, handlerVars, expectVars
      <3>2. Sent' = Sent
        BY <1>1, <2>2, SentStep
      <3>3. QED
        BY <1>1, <2>0, <3>1, <3>2, SubscriptionStays
    <2>3. ASSUME NEW h \in Conns, HandlerStep(h) \/ \E r \in Requests[h] : Accept(h, r)
          PROVE  Subscription(g)'
      <3>1. Sent' = Sent
        BY <2>3, HandlerFrame DEF readerVars, Sent
      <3>2. CASE g = h
        BY <1>1, <2>0, <2>3, <3>1, <3>2, SubscriptionMoves
      <3>3. CASE g # h
        BY <1>1, <2>0, <2>3, <3>1, <3>3, OthersStay, SubscriptionStays
      <3>4. QED
        BY <3>2, <3>3
    <2>4. CASE PlugMoves \/ Main \/ UNCHANGED vars
      <3>1. UNCHANGED <<acc, since, queue, subscribed, pc, request, readerVars>>
        BY <2>4
        DEF PlugMoves, Main, Signal, AcceptorStops, Exit, vars, subVars, handlerVars,
            expectVars
      <3>2. Sent' = Sent
        BY <3>1 DEF readerVars, Sent
      <3>3. QED
        BY <1>1, <2>0, <3>1, <3>2, SubscriptionStays
    <2>5. QED
      BY <2>1, <2>2, <2>3, <2>4 DEF Next
  <1>3. QED
    BY <1>1, <1>2 DEF Hearing

\* No waiter misses a byte: for every number of connections, pace of the port
\* and cap of the matcher, what an expect or a wait has heard and what waits in
\* its channel is the captured stream since its subscription, less what it has
\* had to forget.
THEOREM NothingMissed == Spec => []WaiterHears
  <1>1. Hearing => WaiterHears
    BY DEF Hearing, Subscription, Tuned, WaiterHears
  <1>2. QED
    BY <1>1, HearingInit, HearingStep, PTL DEF Spec

\* No waiter misses a prompt: for every cut of the stream into reads, every
\* position of the prompt and every number of cuts of the window, if half the
\* window holds a read and a byte, a waiter that has received the whole of a
\* prompt does not wait any more.
THEOREM NoPromptMissed == Spec => []PromptHeard
  <1>1. ASSUME Hearing PROVE PromptHeard
    <2>1. ASSUME NEW h \in Conns, subscribed[h] = "live", HalfHoldsRead, NEW p \in PromptEnds
          PROVE  p <= since[h] + 1 \/ Heard(h) < p
      BY <1>1, <2>1 DEF Hearing, Subscription, Tuned
    <2>2. QED
      BY <2>1 DEF PromptHeard
  <1>2. QED
    BY <1>1, HearingInit, HearingStep, PTL DEF Spec
-----------------------------------------------------------------------------
\* The members of S after a, up to the n-th number, counted from a.
Offsets(a, n, S) == {k \in 1 .. n : a + k \in S}

\* Ranks in a set and in a part of it that is counted from a later start.
LEMMA RankShift ==
    ASSUME NEW S, S \subseteq Nat, IsFiniteSet(S), NEW a \in Nat, NEW n \in Nat,
           NEW i \in 0 .. n
    PROVE  Rank(a + i, S) = Rank(a, S) + Rank(i, Offsets(a, n, S))
  <1> DEFINE E == Offsets(a, n, S)
  <1>0. /\ E \subseteq 1 .. n /\ IsFiniteSet(E)
        /\ \A k \in 1 .. n : k \in E <=> a + k \in S
    <2>1. E \subseteq 1 .. n /\ \A k \in 1 .. n : k \in E <=> a + k \in S
      BY DEF Offsets
    <2>2. 1 \in Int /\ n \in Int
      OBVIOUS
    <2>3. IsFiniteSet(1 .. n)
      BY <2>2, FS_Interval
    <2>4. IsFiniteSet(E)
      BY <2>1, <2>3, FS_Subset
    <2>5. QED
      BY <2>1, <2>4
  <1> HIDE DEF E
  <1> DEFINE Off == {j \in Nat : j <= n /\ Rank(a + j, S) # Rank(a, S) + Rank(j, E)}
  <1>1. SUFFICES ASSUME Rank(a + i, S) # Rank(a, S) + Rank(i, E) PROVE FALSE
    BY DEF E
  <1>2. PICK m \in Off : \A j \in Off : m <= j
    <2>1. Off \subseteq Nat /\ i \in Off
      BY <1>1
    <2> HIDE DEF Off
    <2>2. QED
      BY <2>1, LeastElement
  <1>3. m \in Nat /\ m <= n /\ Rank(a + m, S) # Rank(a, S) + Rank(m, E)
    OBVIOUS
  <1>4. E \subseteq Nat /\ \A y \in E : y \in Nat /\ y >= 1
    BY <1>0
  <1>5. Rank(a, S) \in Nat
    BY RankType
  <1>6. m # 0
    <2>1. \A y \in E : ~(y <= 0)
      BY <1>4
    <2>2. {y \in E : y <= 0} = {}
      BY <2>1
    <2>3. Rank(0, E) = 0
      BY <2>2, FS_EmptySet DEF Rank
    <2>4. m = 0 => a + m = a
      OBVIOUS
    <2>5. QED
      BY <1>3, <1>5, <2>3, <2>4
  <1>7. PICK k \in Nat : m = k + 1
    <2>1. m - 1 \in Nat /\ m = (m - 1) + 1
      BY <1>3, <1>6
    <2>2. QED
      BY <2>1
  <1>8. k \notin Off /\ k <= n /\ k + 1 \in 1 .. n
    BY <1>2, <1>3, <1>7
  <1>9. Rank(a + k, S) = Rank(a, S) + Rank(k, E)
    BY <1>8
  <1>10. Rank(k, E) \in Nat /\ Rank(a + k, S) \in Nat
    BY <1>0, RankType
  <1>11. Rank(k + 1, E) = IF k + 1 \in E THEN Rank(k, E) + 1 ELSE Rank(k, E)
    BY <1>0, <1>4, RankStep
  <1>12. Rank((a + k) + 1, S) = IF (a + k) + 1 \in S THEN Rank(a + k, S) + 1 ELSE Rank(a + k, S)
    <2>1. a + k \in Nat
      OBVIOUS
    <2>2. QED
      BY <2>1, RankStep
  <1>13. (a + k) + 1 = a + m /\ (k + 1 \in E <=> a + m \in S)
    BY <1>0, <1>7, <1>8
  <1>14. Rank(a + m, S) = Rank(a, S) + Rank(m, E)
    BY <1>5, <1>7, <1>9, <1>10, <1>11, <1>12, <1>13
  <1>15. QED
    BY <1>3, <1>14

\* The rank of a member of an interval from 1.
LEMMA RankInterval ==
    ASSUME NEW n \in Nat, NEW k \in 0 .. n
    PROVE  Rank(k, 1 .. n) = k
  <1>1. {y \in 1 .. n : y <= k} = 1 .. k
    OBVIOUS
  <1>2. k \in Int /\ 1 \in Int /\ Cardinality(1 .. k) = IF 1 > k THEN 0 ELSE k - 1 + 1
    <2>1. k \in Int /\ 1 \in Int
      OBVIOUS
    <2>2. QED
      BY <2>1, FS_Interval
  <1>3. Cardinality(1 .. k) = k
    <2>1. k \in Nat
      OBVIOUS
    <2>2. k = 0 \/ ~(1 > k)
      BY <2>1
    <2>3. QED
      BY <1>2, <2>1, <2>2
  <1>4. QED
    BY <1>1, <1>3 DEF Rank

LEMMA NewlinesAre ==
    Newlines \subseteq Nat /\ IsFiniteSet(Newlines) /\ \A q \in Newlines : q \in Nat /\ q >= 1
  <1>1. MaxBytes \in Nat /\ \A q \in Newlines : q \in 1 .. MaxBytes
    BY BufferAssumption
  <1>2. \A q \in Newlines : q \in Nat /\ q >= 1 /\ q <= MaxBytes
    BY <1>1
  <1>3. IsFiniteSet(Newlines)
    BY <1>1, <1>2, FS_BoundedSetOfNaturals
  <1>4. QED
    BY <1>2, <1>3

\* The start of a line is known by what lies between it and the line's end.
LEMMA LineStartIs ==
    ASSUME NEW p \in Nat, NEW x \in Nat, x = 0 \/ (x \in Newlines /\ x < p),
           \A q \in Newlines : q < p => q <= x
    PROVE  LineStart(p) = x
  <1> DEFINE S == {0} \cup {q \in Newlines : q < p}
  <1>1. S \in SUBSET (0 .. p) /\ x \in S
    <2>1. \A q \in Newlines : q \in Nat
      BY NewlinesAre
    <2>2. \A q \in Newlines : q < p => q \in 0 .. p
      BY <2>1
    <2>3. x \in S
      OBVIOUS
    <2>4. 0 \in 0 .. p
      OBVIOUS
    <2>5. QED
      BY <2>2, <2>3, <2>4
  <1>2. Max(S) \in S /\ \A y \in S : y <= Max(S)
    <2>1. S # {}
      BY <1>1
    <2> HIDE DEF S
    <2>2. QED
      BY <1>1, <2>1, GreatestElement
  <1>3. \A y \in S : y <= x
    BY NewlinesAre
  <1>4. Max(S) \in Nat
    BY <1>1, <1>2
  <1> HIDE DEF S
  <1>5. Max(S) <= x /\ x <= Max(S)
    BY <1>1, <1>2, <1>3
  <1>6. Max(S) = x
    BY <1>4, <1>5
  <1>7. QED
    BY <1>6 DEF LineStart, S

LEMMA LineStartType ==
    ASSUME NEW p \in Nat
    PROVE  /\ LineStart(p) \in Nat
           /\ LineStart(p) = 0 \/ (LineStart(p) \in Newlines /\ LineStart(p) < p)
           /\ \A q \in Newlines : q < p => q <= LineStart(p)
  <1> DEFINE S == {0} \cup {q \in Newlines : q < p}
  <1>1. S \in SUBSET (0 .. p) /\ S # {}
    <2>1. \A q \in Newlines : q \in Nat
      BY NewlinesAre
    <2>2. \A q \in Newlines : q < p => q \in 0 .. p
      BY <2>1
    <2>3. 0 \in 0 .. p
      OBVIOUS
    <2>4. QED
      BY <2>2, <2>3
  <1> HIDE DEF S
  <1>2. Max(S) \in S /\ \A y \in S : y <= Max(S)
    BY <1>1, GreatestElement
  <1>3. Max(S) \in Nat
    <2>1. \A y \in S : y \in Nat
      BY <1>1
    <2>2. QED
      BY <1>2, <2>1
  <1>4. LineStart(p) = Max(S)
    BY DEF LineStart, S
  <1>5. QED
    BY <1>2, <1>3, <1>4 DEF S

\* The newline whose rank follows that of x ends the line that begins after x.
LEMMA LineStartByRank ==
    ASSUME NEW p \in Newlines, NEW x \in Nat, x = 0 \/ x \in Newlines,
           Rank(p, Newlines) = Rank(x, Newlines) + 1
    PROVE  LineStart(p) = x /\ x < p /\ p \in Nat
  <1>1. p \in Nat /\ Rank(x, Newlines) \in Nat /\ Rank(p, Newlines) \in Nat
    BY NewlinesAre, RankType
  <1>2. x < p
    <2>1. x # p
      BY <1>1
    <2>2. ~(p < x)
      <3>1. SUFFICES ASSUME p < x PROVE FALSE
        OBVIOUS
      <3>2. Rank(p, Newlines) <= Rank(x, Newlines)
        BY <1>1, <3>1, NewlinesAre, RankGrows
      <3>3. QED
        BY <1>1, <3>2
    <2>3. QED
      BY <1>1, <2>1, <2>2
  <1>3. ASSUME NEW q \in Newlines, q < p, ~(q <= x) PROVE FALSE
    <2>1. q \in Nat /\ x < q /\ Rank(q, Newlines) \in Nat
      <3>1. q \in Nat
        BY NewlinesAre
      <3>2. Rank(q, Newlines) \in Nat
        BY NewlinesAre, RankType
      <3>3. x < q
        BY <1>3, <3>1
      <3>4. QED
        BY <3>1, <3>2, <3>3
    <2>2. Rank(x, Newlines) < Rank(q, Newlines)
      BY <2>1, NewlinesAre, RankGrows
    <2>3. Rank(q, Newlines) < Rank(p, Newlines)
      BY <1>1, <1>3, <2>1, NewlinesAre, RankGrows
    <2>4. QED
      BY <1>1, <2>1, <2>2, <2>3
  <1>4. QED
    BY <1>1, <1>2, <1>3, LineStartIs

\* What the framer looks at when a chunk is logged: the stream from the start
\* of the unfinished line to the end of the chunk.
LEMMA FramerLooks ==
    ASSUME Whole, LogComplete, LogChunk
    PROVE  \E a \in Nat, d \in Nat, e \in Nat, n \in Nat :
              /\ d = Logged /\ e = Logged' /\ a = LineStart(d + 1) /\ d <= e
              /\ a <= d /\ a + n = e /\ Len(Seen(Bytes(data))) = n
              /\ \A i \in 1 .. n : Seen(Bytes(data))[i] = a + i
              /\ \A i \in 1 .. n : i \in Ends(Bytes(data)) <=> a + i \in Newlines
  <1>1. rpc = "log" /\ rpc' = "broadcast" /\ data' = data /\ captured' = captured
    BY DEF LogChunk, Goes
  <1>2. data \in Real /\ data \in Chunk /\ End(data) = captured /\ captured \in Nat
        /\ Bytes(data) \in Seq(1 .. MaxBytes)
    BY <1>1, DataIsReal DEF Whole, Sound, Streamed, Ingesting
  <1>3. data.at \in Nat /\ data.n \in Nat /\ data.at >= 1 /\ captured = data.at + data.n - 1
    <2>1. data.at \in 1 .. MaxBytes
      BY <1>2 DEF Chunk
    <2>2. data.at >= 1
      BY <2>1, BufferAssumption
    <2>3. QED
      BY <1>2, <2>2, ChunkEnds DEF End
  <1>4. Logged = captured - data.n /\ Logged' = captured
    BY <1>1 DEF Logged
  <1>5. PICK d \in Nat, k \in Nat, e \in Nat :
            d = Logged /\ e = Logged' /\ k = data.n /\ e = d + k /\ data.at = d + 1
    <2>1. Logged = data.at - 1
      BY <1>3, <1>4
    <2>2. data.at - 1 \in Nat /\ captured = (data.at - 1) + data.n
          /\ data.at = (data.at - 1) + 1
      BY <1>3
    <2>3. QED
      BY <1>2, <1>3, <1>4, <2>1, <2>2
  <1>6. PICK a \in Nat : a = LineStart(d + 1) /\ a <= d
    <2>1. d + 1 \in Nat
      OBVIOUS
    <2>2. PICK a \in Nat : a = LineStart(d + 1)
      BY <2>1, LineStartType
    <2>3. a = 0 \/ a < d + 1
      BY <2>1, <2>2, LineStartType
    <2>4. a <= d
      BY <2>3
    <2>5. QED
      BY <2>2, <2>4
  <1>7. PICK l \in Nat : l = d - a
    BY <1>6
  <1>8. pending = [i \in 1 .. l |-> a + i]
    <2>1. pending = Run(a + 1, d)
      BY <1>5, <1>6 DEF LogComplete
    <2>2. d - (a + 1) + 1 = l /\ \A i \in 1 .. l : (a + 1) + i - 1 = a + i
      BY <1>7
    <2>3. QED
      BY <2>1, <2>2 DEF Run
  <1>9. pending \in Seq(1 .. MaxBytes) /\ Len(pending) = l
    <2>1. pending \in Seq(1 .. MaxBytes)
      BY DEF Whole, TypeOK, BufferTypeOK
    <2>2. Len(pending) \in Nat /\ DOMAIN pending = 1 .. Len(pending)
      BY <2>1, LenProperties
    <2>3. DOMAIN pending = 1 .. l
      BY <1>8
    <2>4. PICK m \in Nat : m = Len(pending) /\ 1 .. m = 1 .. l
      BY <2>2, <2>3
    <2>5. m = l
      <3>1. m > l => m \in 1 .. m /\ m \notin 1 .. l
        OBVIOUS
      <3>2. l > m => l \in 1 .. l /\ l \notin 1 .. m
        OBVIOUS
      <3>3. QED
        BY <2>4, <3>1, <3>2
    <2>6. QED
      BY <2>1, <2>4, <2>5
  <1>10. /\ Len(Bytes(data)) = k
         /\ \A i \in 1 .. k : Bytes(data)[i] = d + i
    <2>1. Len(Bytes(data)) = data.n /\ \A i \in 1 .. data.n : Bytes(data)[i] = data.at + i - 1
      BY <1>2, RealBytes
    <2>2. \A i \in 1 .. k : (d + 1) + i - 1 = d + i
      OBVIOUS
    <2>3. QED
      BY <1>5, <2>1, <2>2
  <1>11. PICK n \in Nat : n = l + k /\ a + n = e /\ d <= e
    BY <1>5, <1>7
  <1>12. /\ Len(Seen(Bytes(data))) = n
         /\ \A i \in 1 .. n : Seen(Bytes(data))[i] = a + i
    <2>1. PICK b \in Seq(1 .. MaxBytes) :
              b = Bytes(data) /\ Len(b) = k /\ \A i \in 1 .. k : b[i] = d + i
      BY <1>2, <1>10
    <2>2. PICK t \in Seq(1 .. MaxBytes) :
              t = pending /\ Len(t) = l /\ \A i \in 1 .. l : t[i] = a + i
      BY <1>8, <1>9
    <2>3. /\ Len(t \o b) = n
          /\ \A i \in 1 .. n : (t \o b)[i] = IF i <= l THEN t[i] ELSE b[i - l]
      <3>1. /\ Len(t \o b) = Len(t) + Len(b)
            /\ \A i \in 1 .. Len(t) + Len(b) :
                  (t \o b)[i] = IF i <= Len(t) THEN t[i] ELSE b[i - Len(t)]
        BY ConcatProperties
      <3>2. Len(t) = l /\ Len(b) = k /\ l + k = n
        BY <1>11, <2>1, <2>2
      <3>3. QED
        BY <3>1, <3>2
    <2>4. ASSUME NEW i \in 1 .. n PROVE (t \o b)[i] = a + i
      <3>1. CASE i <= l
        <4>1. i \in 1 .. l
          BY <3>1
        <4>2. QED
          BY <2>2, <2>3, <3>1, <4>1
      <3>2. CASE ~(i <= l)
        <4>1. i - l \in 1 .. k /\ d + (i - l) = a + i
          BY <1>7, <1>11, <3>2
        <4>2. QED
          BY <2>1, <2>3, <3>2, <4>1
      <3>3. QED
        BY <3>1, <3>2
    <2>5. QED
      BY <2>1, <2>2, <2>3, <2>4 DEF Seen
  <1>13. \A i \in 1 .. n : i \in Ends(Bytes(data)) <=> a + i \in Newlines
    <2>1. DOMAIN Seen(Bytes(data)) = 1 .. n
      <3>1. DOMAIN Seen(Bytes(data)) = 1 .. Len(Seen(Bytes(data)))
        BY <1>2, <1>9, FramerSees
      <3>2. QED
        BY <1>12, <3>1
    <2>2. QED
      BY <1>12, <2>1 DEF Ends
  <1>14. QED
    BY <1>5, <1>6, <1>11, <1>12, <1>13

\* The lines M of a log of n entries, and k more at its end.
Grown(M, n, k) == M \cup (n + 1 .. n + k)

\* Lines that are added at the end of the log leave the ranks of the others
\* alone and continue them.
LEMMA GrownLines ==
    ASSUME NEW n \in Nat, NEW M \in SUBSET (1 .. n), NEW k \in Nat
    PROVE  /\ Cardinality(M) \in Nat
           /\ \A i \in 0 .. n : /\ Rank(i, Grown(M, n, k)) = Rank(i, M)
                                /\ Rank(i, M) \in Nat
                                /\ Rank(i, M) <= Cardinality(M)
           /\ \A j \in 0 .. k : Rank(n + j, Grown(M, n, k)) = Cardinality(M) + j
           /\ Cardinality(Grown(M, n, k)) = Cardinality(M) + k
  <1> DEFINE N == Grown(M, n, k)
  <1> N = M \cup (n + 1 .. n + k)
    BY DEF Grown
  <1> HIDE DEF N
  <1>1. \A y \in M : y \in Nat /\ y >= 1 /\ y <= n
    OBVIOUS
  <1>2. IsFiniteSet(M)
    BY <1>1, FS_BoundedSetOfNaturals
  <1>3. Cardinality(M) \in Nat
    BY <1>2, FS_CardinalityType
  <1>4. \A y \in N : y \in Nat /\ y >= 1 /\ y <= n + k
    BY <1>1
  <1>5. IsFiniteSet(N) /\ N \subseteq Nat
    <2>1. N \subseteq Nat /\ n + k \in Nat
      BY <1>4
    <2>2. QED
      BY <1>4, <2>1, FS_BoundedSetOfNaturals
  <1>6. ASSUME NEW i \in 0 .. n
        PROVE  /\ Rank(i, N) = Rank(i, M) /\ Rank(i, M) \in Nat
               /\ Rank(i, M) <= Cardinality(M)
    <2>1. \A y \in N : y <= i => y \in M
      <3>1. \A y \in n + 1 .. n + k : ~(y <= i)
        OBVIOUS
      <3>2. QED
        BY <3>1
    <2>2. {y \in N : y <= i} = {y \in M : y <= i}
      BY <2>1
    <2>3. QED
      BY <1>2, <2>2, RankType DEF Rank
  <1>7. Rank(n, M) = Cardinality(M)
    <2>1. {y \in M : y <= n} = M
      BY <1>1
    <2>2. QED
      BY <2>1 DEF Rank
  <1>8. ASSUME NEW j \in 0 .. k PROVE Rank(n + j, N) = Cardinality(M) + j
    <2>1. 1 .. k = Offsets(n, k, N)
      BY DEF Offsets
    <2>2. Rank(n + j, N) = Rank(n, N) + Rank(j, 1 .. k)
      <3>1. Rank(n + j, N) = Rank(n, N) + Rank(j, Offsets(n, k, N))
        BY <1>5, RankShift
      <3>2. QED
        BY <2>1, <3>1
    <2>4. Rank(j, 1 .. k) = j
      BY RankInterval
    <2>5. Rank(n, N) = Cardinality(M)
      <3>1. n \in 0 .. n
        OBVIOUS
      <3>2. QED
        BY <1>6, <1>7, <3>1
    <2>6. QED
      BY <2>2, <2>4, <2>5
  <1>9. Cardinality(N) = Cardinality(M) + k
    <2>1. {y \in N : y <= n + k} = N
      BY <1>4
    <2>2. Rank(n + k, N) = Cardinality(N)
      BY <2>1 DEF Rank
    <2>3. k \in 0 .. k
      OBVIOUS
    <2>4. QED
      BY <1>8, <2>2, <2>3
  <1>10. QED
    BY <1>3, <1>6, <1>8, <1>9 DEF N

\* What a chunk adds to the log.
LEMMA LinesAdded ==
    ASSUME Whole, LogChunk
    PROVE  \E n \in Nat, k \in Nat :
              /\ n = Len(log) /\ k = Cardinality(Ends(Bytes(data)))
              /\ LoggedLines \subseteq 1 .. n
              /\ LoggedLines' = LoggedLines \cup (n + 1 .. n + k)
              /\ \A i \in 1 .. n : log'[i] = log[i]
              /\ \A j \in 1 .. k :
                    log'[n + j].text = SubSeq(Seen(Bytes(data)), LineFrom(Bytes(data), j),
                                              Nth(Bytes(data), j) - 1)
  <1> DEFINE b == Bytes(data)
             new == Completed(b)
             ends == Cardinality(Ends(b))
             Text(j) == SubSeq(Seen(b), LineFrom(b, j), Nth(b, j) - 1)
  <1>1. b \in Seq(1 .. MaxBytes) /\ pending \in Seq(1 .. MaxBytes)
    <2>1. rpc = "log"
      BY DEF LogChunk, Goes
    <2>2. QED
      BY <2>1, DataIsReal DEF Ingesting, Whole, TypeOK, BufferTypeOK
  <1>2. ends \in Nat
    BY <1>1, FramerSees
  <1>3. new = [j \in 1 .. ends |-> Line(Text(j))]
    BY CompletedIs
  <1> HIDE DEF ends, Text
  <1>4. Len(new) = ends
    <2>1. new \in Seq({e \in Entry : e.note = "line"})
      BY <1>1, LinesType
    <2>2. Len(new) \in Nat /\ DOMAIN new = 1 .. Len(new)
      BY <2>1, LenProperties
    <2>3. DOMAIN new = 1 .. ends
      BY <1>3
    <2>4. PICK x \in Nat, y \in Nat : x = Len(new) /\ y = ends /\ 1 .. x = 1 .. y
      BY <1>2, <2>2, <2>3
    <2>5. x = y
      <3>1. x > y => x \in 1 .. x /\ x \notin 1 .. y
        OBVIOUS
      <3>2. y > x => y \in 1 .. y /\ y \notin 1 .. x
        OBVIOUS
      <3>3. QED
        BY <2>4, <3>1, <3>2
    <2>6. QED
      BY <2>4, <2>5
  <1>5. \A j \in 1 .. ends : new[j].text = Text(j)
    BY <1>3 DEF Line
  <1>6. /\ Len(log) \in Nat /\ DOMAIN log = 1 .. Len(log)
        /\ Len(log') = Len(log) + Len(new)
        /\ DOMAIN log' = 1 .. Len(log')
        /\ \A i \in 1 .. Len(log) : log'[i] = log[i]
        /\ \A j \in 1 .. Len(new) :
              log'[Len(log) + j] = new[j] /\ log'[Len(log) + j].note = "line"
    BY LinesKeepMarkers
  <1> HIDE DEF new
  <1>7. PICK n \in Nat, k \in Nat : n = Len(log) /\ k = ends
    BY <1>2, <1>6
  <1>8. /\ DOMAIN log = 1 .. n /\ DOMAIN log' = 1 .. n + k
        /\ \A i \in 1 .. n : log'[i] = log[i]
        /\ \A j \in 1 .. k : log'[n + j].note = "line" /\ log'[n + j].text = Text(j)
    <2>1. Len(log') = n + k
      BY <1>4, <1>6, <1>7
    <2>2. DOMAIN log = 1 .. n /\ DOMAIN log' = 1 .. n + k
      BY <1>6, <1>7, <2>1
    <2>3. \A j \in 1 .. k : log'[n + j] = new[j] /\ log'[n + j].note = "line"
      BY <1>4, <1>6, <1>7
    <2>4. \A j \in 1 .. k : new[j].text = Text(j)
      BY <1>5, <1>7
    <2>5. QED
      BY <1>6, <1>7, <2>2, <2>3, <2>4
  <1>9. LoggedLines \subseteq 1 .. n
    BY <1>8 DEF LoggedLines
  <1>10. LoggedLines' = LoggedLines \cup (n + 1 .. n + k)
    <2>1. LoggedLines' = {i \in 1 .. n + k : log'[i].note = "line"}
      BY <1>8 DEF LoggedLines
    <2>2. ASSUME NEW i \in n + 1 .. n + k PROVE i \in LoggedLines'
      <3>1. i - n \in 1 .. k /\ n + (i - n) = i /\ i \in 1 .. n + k
        OBVIOUS
      <3>2. log'[n + (i - n)].note = "line"
        BY <1>8, <3>1
      <3>3. QED
        BY <2>1, <3>1, <3>2
    <2>3. ASSUME NEW i \in 1 .. n PROVE i \in LoggedLines' <=> i \in LoggedLines
      <3>1. i \in 1 .. n + k
        OBVIOUS
      <3>2. QED
        BY <1>8, <2>1, <3>1 DEF LoggedLines
    <2>4. \A i \in LoggedLines' : i \in 1 .. n \/ i \in n + 1 .. n + k
      <3>1. \A i \in 1 .. n + k : i \in 1 .. n \/ i \in n + 1 .. n + k
        OBVIOUS
      <3>2. QED
        BY <2>1, <3>1
    <2>5. QED
      BY <1>9, <2>2, <2>3, <2>4
  <1>11. QED
    BY <1>7, <1>8, <1>9, <1>10 DEF ends, Text

\* The n positions after a.
Block(a, n) == [i \in 1 .. n |-> a + i]

\* The text of the line that the k-th newline of a chunk ends.
LEMMA LineTextIs ==
    ASSUME NEW a \in Nat, NEW n \in Nat, Block(a, n) \in Seq(1 .. MaxBytes),
           Len(Block(a, n)) = n, NEW from \in 1 .. n, NEW z \in 0 .. n, from <= z + 1
    PROVE  SubSeq(Block(a, n), from, z) = Run(a + from, a + z)
  <1> DEFINE seen == Block(a, n)
             t == SubSeq(seen, from, z)
  <1>0. \A i \in 1 .. n : seen[i] = a + i
    BY DEF Block
  <1>1. from \in Nat \ {0} /\ z \in Int /\ z <= Len(seen) /\ seen \in Seq(1 .. MaxBytes)
    OBVIOUS
  <1> HIDE DEF seen
  <1>2. t \in Seq(1 .. MaxBytes)
    BY <1>1, PartType
  <1>3. Len(t) = IF from <= z THEN z - from + 1 ELSE 0
    BY <1>1, PartType
  <1>4. \A i \in 1 .. z - from + 1 : t[i] = seen[from + i - 1]
    BY <1>1, PartType
  <1> HIDE DEF t
  <1>5. PICK size \in Nat : size = Len(t) /\ size = z - from + 1
    BY <1>3
  <1>6. ASSUME NEW i \in 1 .. size PROVE t[i] = a + from + i - 1
    <2>1. from + i - 1 \in 1 .. n
      BY <1>5
    <2>2. t[i] = seen[from + i - 1]
      BY <1>4, <1>5
    <2>3. seen[from + i - 1] = a + (from + i - 1)
      BY <1>0, <2>1
    <2>4. QED
      BY <2>2, <2>3
  <1>7. PICK x \in Int, y \in Int : x = a + from /\ y = a + z
    OBVIOUS
  <1>8. y - x + 1 = Len(t) /\ \A i \in 1 .. Len(t) : t[i] = x + i - 1
    BY <1>5, <1>6, <1>7
  <1>9. t = Run(x, y)
    BY <1>2, <1>8, IsRun
  <1>10. QED
    BY <1>7, <1>9 DEF t, seen

\* What the framer is given with a chunk: the n bytes after byte a, its line
\* ends being the newlines among them.
SeenFrom(a, n) ==
    /\ Len(Seen(Bytes(data))) = n
    /\ \A i \in 1 .. n : Seen(Bytes(data))[i] = a + i
    /\ \A i \in 1 .. n : i \in Ends(Bytes(data)) <=> a + i \in Newlines

\* A new line: its rank follows those of the lines before, its text is what
\* precedes its newline.
LEMMA LineFiled ==
    ASSUME Whole, LogComplete, LogChunk,
           NEW a \in Nat, NEW d \in Nat, NEW e \in Nat, NEW n \in Nat,
           a = LineStart(d + 1), a <= d, a + n = e, SeenFrom(a, n),
           NEW j \in 1 .. Cardinality(Ends(Bytes(data))),
           NEW p \in Newlines, Rank(p, Newlines) = Rank(a, Newlines) + j
    PROVE  SubSeq(Seen(Bytes(data)), LineFrom(Bytes(data), j), Nth(Bytes(data), j) - 1)
               = Run(LineStart(p) + 1, p - 1)
  <1> DEFINE b == Bytes(data)
             E == Ends(b)
  <1>1. b \in Seq(1 .. MaxBytes) /\ pending \in Seq(1 .. MaxBytes)
    <2>1. rpc = "log"
      BY DEF LogChunk, Goes
    <2>2. QED
      BY <2>1, DataIsReal DEF Ingesting, Whole, TypeOK, BufferTypeOK
  <1>2. /\ Seen(b) \in Seq(1 .. MaxBytes)
        /\ E \subseteq 1 .. n /\ IsFiniteSet(E) /\ Cardinality(E) \in Nat
        /\ \A k \in 1 .. Cardinality(E) : Nth(b, k) \in E /\ Rank(Nth(b, k), E) = k
    <2>1. Ends(b) \in SUBSET (1 .. Len(Seen(b)))
      BY <1>1, FramerSees
    <2>2. Len(Seen(b)) = n
      BY DEF SeenFrom
    <2>3. QED
      BY <1>1, <2>1, <2>2, FramerSees
  <1>3. \A i \in 1 .. n : i \in E <=> a + i \in Newlines
    BY DEF SeenFrom
  <1> HIDE DEF E
  <1>4. ASSUME NEW i \in 0 .. n
        PROVE  Rank(a + i, Newlines) = Rank(a, Newlines) + Rank(i, E)
    <2>1. E = Offsets(a, n, Newlines)
      BY <1>2, <1>3 DEF Offsets
    <2>2. Newlines \subseteq Nat /\ IsFiniteSet(Newlines)
      BY NewlinesAre
    <2>3. Rank(a + i, Newlines) = Rank(a, Newlines) + Rank(i, Offsets(a, n, Newlines))
      BY <2>2, RankShift
    <2>4. QED
      BY <2>1, <2>3
  <1>5. Rank(a, Newlines) \in Nat /\ Rank(p, Newlines) \in Nat /\ p \in Nat
    BY NewlinesAre, RankType
  <1>6. PICK q \in 1 .. n : q = Nth(b, j) /\ q \in E /\ Rank(q, E) = j
    <2>1. j \in 1 .. Cardinality(E)
      BY DEF E
    <2>2. QED
      BY <1>2, <2>1
  <1>7. a + q \in Newlines /\ Rank(a + q, Newlines) = Rank(a, Newlines) + j /\ q \in 0 .. n
    <2>1. q \in 0 .. n
      OBVIOUS
    <2>2. a + q \in Newlines
      BY <1>3, <1>6
    <2>3. Rank(a + q, Newlines) = Rank(a, Newlines) + Rank(q, E)
      BY <1>4, <2>1
    <2>4. QED
      BY <1>6, <2>1, <2>2, <2>3
  <1>8. p = a + q
    <2>1. Newlines \subseteq Nat /\ IsFiniteSet(Newlines)
      BY NewlinesAre
    <2>2. PICK y \in Newlines : y = a + q
      BY <1>7
    <2>3. Rank(p, Newlines) = Rank(y, Newlines)
      BY <1>7, <2>2
    <2>4. p = y
      BY <2>1, <2>3, RankInjective
    <2>5. QED
      BY <2>2, <2>4
  <1>9. PICK from \in 1 .. n :
            /\ from = LineFrom(b, j)
            /\ Rank(a + (from - 1), Newlines) = Rank(a, Newlines) + (j - 1)
            /\ a + (from - 1) = 0 \/ a + (from - 1) \in Newlines
    <2>1. CASE j = 1
      <3>1. LineFrom(b, j) = 1 /\ a + (1 - 1) = a /\ j - 1 = 0
        BY <2>1 DEF LineFrom
      <3>2. 1 \in 1 .. n
        BY <1>6
      <3>3. a = 0 \/ a \in Newlines
        <4>1. d + 1 \in Nat
          OBVIOUS
        <4>2. QED
          BY <4>1, LineStartType
      <3>4. Rank(a, Newlines) = Rank(a, Newlines) + (j - 1)
        BY <1>5, <3>1
      <3>5. QED
        BY <3>1, <3>2, <3>3, <3>4
    <2>2. CASE j # 1
      <3>1. j - 1 \in 1 .. Cardinality(E) /\ j \in 1 .. Cardinality(E)
        <4>1. j \in 1 .. Cardinality(E)
          BY DEF E
        <4>2. QED
          BY <1>2, <2>2, <4>1
      <3>2. PICK r \in 1 .. n : r = Nth(b, j - 1) /\ r \in E /\ Rank(r, E) = j - 1
        BY <1>2, <3>1
      <3>3. r \in 0 .. n /\ q \in Nat /\ r \in Nat
        OBVIOUS
      <3>4. Rank(a + r, Newlines) = Rank(a, Newlines) + (j - 1) /\ a + r \in Newlines
        BY <1>3, <1>4, <3>2, <3>3
      <3>5. r < q
        <4>1. E \subseteq Nat
          BY <1>2
        <4>2. r # q
          BY <1>6, <3>1, <3>2
        <4>3. ~(q < r)
          <5>1. q < r => Rank(q, E) <= Rank(r, E)
            BY <1>2, <3>3, <4>1, RankGrows
          <5>2. QED
            BY <1>6, <3>1, <3>2, <5>1
        <4>4. QED
          BY <3>3, <4>2, <4>3
      <3>6. r + 1 \in 1 .. n /\ LineFrom(b, j) = r + 1 /\ a + ((r + 1) - 1) = a + r
        <4>1. LineFrom(b, j) = r + 1
          BY <2>2, <3>2 DEF LineFrom
        <4>2. r + 1 \in 1 .. n
          BY <3>3, <3>5
        <4>3. a + ((r + 1) - 1) = a + r
          BY <3>3
        <4>4. QED
          BY <4>1, <4>2, <4>3
      <3>7. QED
        BY <3>4, <3>6
    <2>3. QED
      BY <2>1, <2>2
  <1>10. PICK x \in Nat : x = a + (from - 1)
    OBVIOUS
  <1>11. LineStart(p) = x /\ x < p
    <2>1. Rank(p, Newlines) = Rank(x, Newlines) + 1
      <3>1. j \in Int
        BY <1>2 DEF E
      <3>2. Rank(x, Newlines) = Rank(a, Newlines) + (j - 1)
        BY <1>9, <1>10
      <3>3. QED
        BY <1>5, <3>1, <3>2
    <2>2. x = 0 \/ x \in Newlines
      BY <1>9, <1>10
    <2>3. QED
      BY <2>1, <2>2, LineStartByRank
  <1>12. from <= q
    BY <1>8, <1>10, <1>11
  <1>13. PICK z \in 0 .. n : z = q - 1 /\ from <= z + 1
    BY <1>6, <1>12
  <1>14. SubSeq(Seen(b), from, z) = Run(a + from, a + z)
    <2>1. Len(Seen(b)) = n /\ \A i \in 1 .. n : Seen(b)[i] = a + i
      BY DEF SeenFrom
    <2>2. Seen(b) = Block(a, n)
      <3>1. Seen(b) = [i \in 1 .. n |-> Seen(b)[i]]
        BY <1>2, <2>1, LenProperties
      <3>2. QED
        BY <2>1, <3>1 DEF Block
    <2>3. Block(a, n) \in Seq(1 .. MaxBytes) /\ Len(Block(a, n)) = n
      BY <1>2, <2>1, <2>2
    <2>4. from <= z + 1
      BY <1>13
    <2>5. SubSeq(Block(a, n), from, z) = Run(a + from, a + z)
      BY <2>3, <2>4, LineTextIs
    <2>6. QED
      BY <2>2, <2>5
  <1>15. z = Nth(b, j) - 1 /\ from = LineFrom(b, j)
    BY <1>6, <1>9, <1>13
  <1>16. a + from = LineStart(p) + 1 /\ a + z = p - 1
    <2>1. LineStart(p) = x /\ x + 1 = a + from
      BY <1>9, <1>10, <1>11
    <2>2. p - 1 = a + z
      BY <1>6, <1>8, <1>13
    <2>3. QED
      BY <2>1, <2>2
  <1>17. QED
    BY <1>14, <1>15, <1>16

\* Where the lines that the framer has not ended begin: between there and the
\* last byte it was given there is no newline.
LEMMA RankAtStart ==
    ASSUME NEW d \in Nat, NEW a \in Nat, a = LineStart(d + 1), a <= d
    PROVE  Rank(a, Newlines) = Rank(d, Newlines)
  <1>1. \A q \in Newlines : q \in Nat
    BY NewlinesAre
  <1>2. \A q \in Newlines : q < d + 1 => q <= a
    <2>1. d + 1 \in Nat
      OBVIOUS
    <2>2. QED
      BY <2>1, LineStartType
  <1>3. \A q \in Newlines : q <= a <=> q <= d
    BY <1>1, <1>2
  <1>4. {q \in Newlines : q <= a} = {q \in Newlines : q <= d}
    BY <1>3
  <1>5. QED
    BY <1>4 DEF Rank

LEMMA LogStays ==
    ASSUME Whole, LogComplete, Logged' = Logged, pending' = pending,
           LoggedLines' = LoggedLines, \A i \in LoggedLines : log'[i] = log[i]
    PROVE  LogComplete'
  <1>1. Cardinality(LoggedLines') = Rank(Logged', Newlines)
    BY DEF LogComplete
  <1>2. \A i \in LoggedLines', p \in Newlines :
            p <= Logged' /\ Rank(i, LoggedLines') = Rank(p, Newlines) =>
                log'[i].text = Run(LineStart(p) + 1, p - 1)
    BY DEF LogComplete
  <1>3. pending' = Run(LineStart(Logged' + 1) + 1, Logged')
    BY DEF LogComplete
  <1>4. QED
    BY <1>1, <1>2, <1>3 DEF LogComplete

LEMMA MarkerNoLine ==
    ASSUME Whole, LogComplete, NEW n \in Notes, n # "line", log' = Append(log, Note(n)),
           Logged' = Logged, pending' = pending
    PROVE  LogComplete'
  <1>1. log \in Seq(Entry) /\ Note(n) \in Entry /\ Note(n).note = n
    BY EmptySeq DEF Whole, TypeOK, BufferTypeOK, Note, Entry
  <1>2. PICK m \in Nat : m = Len(log) /\ DOMAIN log = 1 .. m
    BY <1>1, LenProperties
  <1>3. log' \in Seq(Entry) /\ Len(log') = m + 1
        /\ (\A k \in 1 .. m : log'[k] = log[k]) /\ log'[m + 1] = Note(n)
    BY <1>1, <1>2, AppendProperties
  <1>4. DOMAIN log' = 1 .. m + 1
    BY <1>3, LenProperties
  <1>5. LoggedLines' = LoggedLines
    <2>1. LoggedLines' = {k \in 1 .. m + 1 : log'[k].note = "line"}
      BY <1>4 DEF LoggedLines
    <2>2. LoggedLines = {k \in 1 .. m : log[k].note = "line"}
      BY <1>2 DEF LoggedLines
    <2>3. m + 1 \notin LoggedLines' /\ \A k \in 1 .. m : k \in 1 .. m + 1
      BY <1>1, <1>3, <2>1
    <2>4. \A k \in 1 .. m + 1 : k \in 1 .. m \/ k = m + 1
      OBVIOUS
    <2>5. QED
      BY <1>3, <2>1, <2>2, <2>3, <2>4
  <1>6. \A i \in LoggedLines : log'[i] = log[i]
    BY <1>2, <1>3 DEF LoggedLines
  <1>7. QED
    BY <1>5, <1>6, LogStays

\* A chunk is logged: its newlines end lines, in order, and the rest waits.
LEMMA ChunkFiled ==
    ASSUME Whole, LogComplete, LogChunk
    PROVE  LogComplete'
  <1> DEFINE b == Bytes(data)
             E == Ends(b)
  <1>1. b \in Seq(1 .. MaxBytes) /\ pending \in Seq(1 .. MaxBytes) /\ pending' = Kept(b)
    <2>1. rpc = "log" /\ pending' = Kept(b)
      BY DEF LogChunk, Goes, LogLines
    <2>2. QED
      BY <2>1, DataIsReal DEF Ingesting, Whole, TypeOK, BufferTypeOK
  <1>2. PICK a \in Nat, d \in Nat, e \in Nat, n \in Nat :
            /\ d = Logged /\ e = Logged' /\ a = LineStart(d + 1) /\ d <= e
            /\ a <= d /\ a + n = e /\ Len(Seen(b)) = n
            /\ \A i \in 1 .. n : Seen(b)[i] = a + i
            /\ \A i \in 1 .. n : i \in Ends(b) <=> a + i \in Newlines
    BY FramerLooks
  <1>3. PICK m \in Nat, k \in Nat :
            /\ m = Len(log) /\ k = Cardinality(E)
            /\ LoggedLines \subseteq 1 .. m
            /\ LoggedLines' = LoggedLines \cup (m + 1 .. m + k)
            /\ \A i \in 1 .. m : log'[i] = log[i]
            /\ \A j \in 1 .. k :
                  log'[m + j].text = SubSeq(Seen(b), LineFrom(b, j), Nth(b, j) - 1)
    BY LinesAdded
  <1>4. /\ Seen(b) \in Seq(1 .. MaxBytes)
        /\ E \subseteq 1 .. n /\ IsFiniteSet(E)
    <2>1. Ends(b) \in SUBSET (1 .. Len(Seen(b)))
      BY <1>1, FramerSees
    <2>2. QED
      BY <1>1, <1>2, <2>1, FramerSees
  <1>5. PICK r \in Nat : r = Rank(a, Newlines) /\ r = Rank(d, Newlines)
    BY <1>2, NewlinesAre, RankType, RankAtStart
  <1>6. Rank(e, Newlines) = r + k
    <2>1. E = Offsets(a, n, Newlines)
      BY <1>2, <1>4 DEF Offsets
    <2>2. n \in 0 .. n
      OBVIOUS
    <2>3. Rank(a + n, Newlines) = Rank(a, Newlines) + Rank(n, Offsets(a, n, Newlines))
      BY <2>2, NewlinesAre, RankShift
    <2>4. Rank(n, E) = k
      <3>1. \A y \in E : y <= n
        BY <1>4
      <3>2. {y \in E : y <= n} = E
        BY <3>1
      <3>3. QED
        BY <1>3, <3>2 DEF Rank
    <2>5. QED
      BY <1>2, <1>5, <2>1, <2>3, <2>4
  <1> DEFINE M == LoggedLines
             M1 == LoggedLines'
  <1>7. M \subseteq 1 .. m /\ M1 = M \cup (m + 1 .. m + k) /\ M1 = Grown(M, m, k)
    BY <1>3 DEF Grown
  <1>8. Cardinality(M) = r
    BY <1>2, <1>5 DEF LogComplete
  <1>9. \A i \in M, p \in Newlines :
            p <= d /\ Rank(i, M) = Rank(p, Newlines) =>
                log[i].text = Run(LineStart(p) + 1, p - 1)
    BY <1>2 DEF LogComplete
  <1> HIDE DEF M, M1, E
  <1>10. /\ \A i \in 0 .. m : Rank(i, M1) = Rank(i, M) /\ Rank(i, M) \in Nat
                              /\ Rank(i, M) <= Cardinality(M)
         /\ \A j \in 0 .. k : Rank(m + j, M1) = Cardinality(M) + j
         /\ Cardinality(M1) = Cardinality(M) + k
    <2>1. M \in SUBSET (1 .. m) /\ m \in Nat /\ k \in Nat
      BY <1>7
    <2>2. /\ Cardinality(M) \in Nat
          /\ \A i \in 0 .. m : /\ Rank(i, Grown(M, m, k)) = Rank(i, M)
                               /\ Rank(i, M) \in Nat
                               /\ Rank(i, M) <= Cardinality(M)
          /\ \A j \in 0 .. k : Rank(m + j, Grown(M, m, k)) = Cardinality(M) + j
          /\ Cardinality(Grown(M, m, k)) = Cardinality(M) + k
      BY <2>1, GrownLines
    <2>3. QED
      BY <1>7, <2>2
  <1>11. Cardinality(M1) = Rank(e, Newlines)
    BY <1>6, <1>8, <1>10
  <1>12. ASSUME NEW i \in M1, NEW p \in Newlines,
                p <= e, Rank(i, M1) = Rank(p, Newlines)
         PROVE  log'[i].text = Run(LineStart(p) + 1, p - 1)
    <2>0. p \in Nat
      BY NewlinesAre
    <2>1. CASE i \in M
      <3>1. i \in 0 .. m /\ i \in 1 .. m
        BY <1>7, <2>1
      <3>2. Rank(i, M1) = Rank(i, M) /\ Rank(i, M) \in Nat /\ Rank(i, M) <= r
        BY <1>8, <1>10, <3>1
      <3>3. p <= d
        <4>1. SUFFICES ASSUME d < p PROVE FALSE
          BY <2>0
        <4>2. Rank(d, Newlines) < Rank(p, Newlines)
          BY <2>0, <4>1, NewlinesAre, RankGrows
        <4>3. Rank(p, Newlines) <= r /\ Rank(p, Newlines) \in Nat
          BY <1>12, <3>2
        <4>4. QED
          BY <1>5, <4>2, <4>3
      <3>4. log[i].text = Run(LineStart(p) + 1, p - 1)
        BY <1>9, <1>12, <2>1, <3>2, <3>3
      <3>5. QED
        BY <1>3, <3>1, <3>4
    <2>2. CASE i \in m + 1 .. m + k
      <3>1. PICK j \in 1 .. k : i = m + j
        <4>1. i - m \in 1 .. k /\ i = m + (i - m)
          BY <2>2
        <4>2. QED
          BY <4>1
      <3>2. j \in 0 .. k
        OBVIOUS
      <3>3. Rank(p, Newlines) = Rank(a, Newlines) + j
        BY <1>5, <1>8, <1>10, <1>12, <3>1, <3>2
      <3>4. j \in 1 .. Cardinality(Ends(Bytes(data)))
        BY <1>3, <3>1 DEF E
      <3>5. SubSeq(Seen(b), LineFrom(b, j), Nth(b, j) - 1) = Run(LineStart(p) + 1, p - 1)
        BY <1>2, <3>3, <3>4, LineFiled DEF SeenFrom
      <3>6. log'[m + j].text = SubSeq(Seen(b), LineFrom(b, j), Nth(b, j) - 1)
        BY <1>3, <3>1
      <3>7. QED
        BY <3>1, <3>5, <3>6
    <2>3. QED
      BY <1>7, <2>1, <2>2
  <1>13. Kept(b) = Run(LineStart(e + 1) + 1, e)
    <2>1. PICK f \in 0 .. n :
              /\ f = LastEnd(b)
              /\ \A i \in E : i <= f
              /\ f = 0 \/ f \in E
              /\ Kept(b) = SubSeq(Seen(b), f + 1, Len(Seen(b)))
      BY <1>1, <1>2, KeptIs DEF E
    <2>2. LineStart(e + 1) = a + f
      <3>1. PICK x \in Nat, p \in Nat : x = a + f /\ p = e + 1
        OBVIOUS
      <3>2. x = 0 \/ (x \in Newlines /\ x < p)
        <4>1. CASE f = 0
          <5>1. d + 1 \in Nat
            OBVIOUS
          <5>2. a = 0 \/ a \in Newlines
            BY <1>2, <5>1, LineStartType
          <5>3. x = a /\ x < p
            BY <1>2, <3>1, <4>1
          <5>4. QED
            BY <5>2, <5>3
        <4>2. CASE f # 0
          <5>1. f \in E /\ f \in 1 .. n
            BY <1>4, <2>1, <4>2
          <5>2. a + f \in Newlines
            BY <1>2, <5>1 DEF E
          <5>3. x < p
            BY <1>2, <3>1, <5>1
          <5>4. QED
            BY <3>1, <5>2, <5>3
        <4>3. QED
          BY <4>1, <4>2
      <3>3. ASSUME NEW q \in Newlines, q < p PROVE q <= x
        <4>1. q \in Nat
          BY NewlinesAre
        <4>2. CASE q <= a
          BY <3>1, <4>1, <4>2
        <4>3. CASE ~(q <= a)
          <5>1. PICK i \in 1 .. n : q = a + i
            <6>0. q <= e /\ a < q
              <7>1. q <= e
                BY <3>1, <3>3, <4>1
              <7>2. a < q
                BY <4>1, <4>3
              <7>3. QED
                BY <7>1, <7>2
            <6>1. q - a \in 1 .. n /\ q = a + (q - a)
              <7>1. q - a \in Nat /\ q - a >= 1 /\ q = a + (q - a)
                BY <4>1, <6>0
              <7>2. q - a <= n
                BY <1>2, <4>1, <6>0
              <7>3. QED
                BY <7>1, <7>2
            <6>2. QED
              BY <6>1
          <5>2. i \in E
            BY <1>2, <5>1 DEF E
          <5>3. i <= f
            BY <2>1, <5>2
          <5>4. QED
            BY <3>1, <5>1, <5>3
        <4>4. QED
          BY <4>2, <4>3
      <3>4. LineStart(p) = x
        BY <3>2, <3>3, LineStartIs
      <3>5. QED
        BY <3>1, <3>4
    <2>3. Seen(b) = Block(a, n)
      <3>1. Seen(b) = [i \in 1 .. n |-> Seen(b)[i]]
        BY <1>2, <1>4, LenProperties
      <3>2. QED
        BY <1>2, <3>1 DEF Block
    <2>4. CASE f < n
      <3>1. PICK from \in 1 .. n : from = f + 1
        BY <2>4
      <3>2. n \in 0 .. n /\ from <= n + 1
        OBVIOUS
      <3>3. Block(a, n) \in Seq(1 .. MaxBytes) /\ Len(Block(a, n)) = n
        BY <1>2, <1>4, <2>3
      <3>4. SubSeq(Block(a, n), from, n) = Run(a + from, a + n)
        BY <3>1, <3>2, <3>3, LineTextIs
      <3>5. Kept(b) = SubSeq(Block(a, n), from, n)
        BY <1>2, <2>1, <2>3, <3>1
      <3>6. a + from = (a + f) + 1
        BY <3>1
      <3>7. QED
        BY <1>2, <2>2, <3>4, <3>5, <3>6
    <2>5. CASE f = n
      <3>1. Kept(b) = SubSeq(Seen(b), n + 1, n) /\ Seen(b) \in Seq(1 .. MaxBytes)
        BY <1>2, <1>4, <2>1, <2>5
      <3>2. PICK from \in Nat \ {0} : from = n + 1
        OBVIOUS
      <3>3. n \in Int /\ n <= Len(Seen(b)) /\ ~(from <= n)
        BY <1>2, <3>2
      <3>4. SubSeq(Seen(b), from, n) \in Seq(1 .. MaxBytes)
        BY <1>4, <3>3, PartType
      <3>5. Len(SubSeq(Seen(b), from, n)) = 0
        BY <1>4, <3>3, PartType
      <3>6. Kept(b) = <<>>
        BY <3>1, <3>2, <3>4, <3>5, EmptySeq
      <3>7. Run((a + f) + 1, e) = <<>>
        <4>1. <<>> \in Seq(Nat) /\ Len(<<>>) = 0 /\ \A i \in 1 .. 0 : FALSE
          BY EmptySeq
        <4>2. PICK x \in Int, y \in Int : x = (a + f) + 1 /\ y = e /\ y - x + 1 = 0
          BY <1>2, <2>5
        <4>3. <<>> = Run(x, y)
          BY <4>1, <4>2, IsRun
        <4>4. QED
          BY <4>2, <4>3
      <3>8. QED
        BY <2>2, <3>6, <3>7
    <2>6. QED
      BY <2>4, <2>5
  <1>14. pending' = Run(LineStart(Logged' + 1) + 1, Logged')
    BY <1>1, <1>2, <1>13
  <1>15. Cardinality(LoggedLines') = Rank(Logged', Newlines)
    BY <1>2, <1>11 DEF M1
  <1>16. \A i \in LoggedLines', p \in Newlines :
            p <= Logged' /\ Rank(i, LoggedLines') = Rank(p, Newlines) =>
                log'[i].text = Run(LineStart(p) + 1, p - 1)
    BY <1>2, <1>12 DEF M1
  <1>17. QED
    BY <1>14, <1>15, <1>16 DEF LogComplete

\* The bytes that the framer has been given move only when a chunk is logged.
LEMMA LoggedStep ==
    ASSUME Whole, [Next]_vars, ~LogChunk
    PROVE  Logged' = Logged
  <1>0. captured \in Nat
    BY DEF Whole, Sound, Streamed
  <1>1. CASE UNCHANGED readerVars
    BY <1>1 DEF readerVars, Logged
  <1>2. ASSUME NEW n \in 1 .. ReadBuf, ReadPort(n)
        PROVE  Logged' = Logged
    <2>1. rpc = "capture" /\ rpc' = "push" /\ captured' = captured + n /\ data'.n = n
      BY <1>2 DEF ReadPort, Goes
    <2>2. n \in Nat
      BY ReaderAssumption
    <2>3. Logged = captured /\ Logged' = captured' - n
      BY <2>1 DEF Logged
    <2>4. QED
      BY <1>0, <2>1, <2>2, <2>3
  <1>3. CASE OpenPort \/ Announce \/ LosePort \/ DropWriter \/ NoteLoss \/ PushChunk
             \/ EvictChunk \/ Pushed \/ Broadcast \/ DriveLogin \/ ReaderWrites \/ ReaderStops
    <2>1. captured' = captured /\ data' = data
      BY <1>3
      DEF OpenPort, Announce, LosePort, DropWriter, NoteLoss, PushChunk, EvictChunk, Pushed,
          Broadcast, DriveLogin, ReaderWrites, ReaderStops, readerVars
    <2>2. rpc' \in {"push", "evict", "log"} <=> rpc \in {"push", "evict", "log"}
      BY <1>3
      DEF OpenPort, Announce, LosePort, DropWriter, NoteLoss, PushChunk, EvictChunk, Pushed,
          Broadcast, DriveLogin, ReaderWrites, ReaderStops, readerVars, Goes
    <2>3. QED
      BY <2>1, <2>2 DEF Logged
  <1>4. CASE ReaderRuns
    BY <1>2, <1>3, <1>4 DEF ReaderRuns, ReaderStep
  <1>5. QED
    BY <1>1, <1>4, ReaderOnly

Filed == Whole /\ LogComplete

LEMMA FiledInit == Init => Filed
  <1> SUFFICES ASSUME Init PROVE Filed
    OBVIOUS
  <1>1. log = <<Note("session start")>> /\ pending = <<>> /\ captured = 0 /\ rpc = "closed"
    BY DEF Init, BufferInit, ReaderInit
  <1>2. Logged = 0
    BY <1>1 DEF Logged
  <1>3. \A q \in Newlines : q \in Nat /\ q >= 1
    BY NewlinesAre
  <1>4. Rank(0, Newlines) = 0
    <2>1. \A q \in Newlines : ~(q <= 0)
      BY <1>3
    <2>2. {q \in Newlines : q <= 0} = {}
      BY <2>1
    <2>3. QED
      BY <2>2, FS_EmptySet DEF Rank
  <1>5. LineStart(1) = 0
    <2>1. \A q \in Newlines : q < 1 => q <= 0
      BY <1>3
    <2>2. 1 \in Nat /\ 0 \in Nat
      OBVIOUS
    <2>3. QED
      BY <2>1, <2>2, LineStartIs
  <1>6. LoggedLines = {}
    <2> DEFINE entry == Note("session start")
    <2>1. entry.note # "line"
      BY DEF Note
    <2> HIDE DEF entry
    <2>2. log = <<entry>>
      BY <1>1 DEF entry
    <2>3. DOMAIN log = {1}
      BY <2>2
    <2>4. log[1] = entry
      BY <2>2
    <2>5. QED
      BY <2>1, <2>3, <2>4 DEF LoggedLines
  <1>7. Run(0 + 1, 0) = <<>>
    <2>1. <<>> \in Seq(Nat) /\ Len(<<>>) = 0 /\ \A i \in 1 .. 0 : FALSE
      BY EmptySeq
    <2>2. PICK x \in Int, y \in Int : x = 0 + 1 /\ y = 0 /\ y - x + 1 = 0
      OBVIOUS
    <2>3. <<>> = Run(x, y)
      BY <2>1, <2>2, IsRun
    <2>4. QED
      BY <2>2, <2>3
  <1>8. pending = Run(LineStart(Logged + 1) + 1, Logged)
    <2>1. Logged + 1 = 1
      BY <1>2
    <2>2. LineStart(Logged + 1) = 0
      BY <1>5, <2>1
    <2>3. QED
      BY <1>1, <1>2, <1>7, <2>2
  <1>9. Cardinality(LoggedLines) = Rank(Logged, Newlines)
    BY <1>2, <1>4, <1>6, FS_EmptySet
  <1>10. LogComplete
    BY <1>6, <1>8, <1>9 DEF LogComplete
  <1>11. QED
    BY <1>10, WholeInit DEF Filed

LEMMA FiledStep == Filed /\ [Next]_vars => Filed'
  <1> SUFFICES ASSUME Filed, [Next]_vars PROVE Filed'
    OBVIOUS
  <1>1. Whole /\ LogComplete /\ Whole'
    BY WholeStep DEF Filed
  <1>2. CASE LogChunk
    BY <1>1, <1>2, ChunkFiled DEF Filed
  <1>3. CASE ~LogChunk
    <2>1. Logged' = Logged
      BY <1>1, <1>3, LoggedStep
    <2>2. CASE log' = log /\ pending' = pending
      <3>1. LoggedLines' = LoggedLines
        BY <2>2 DEF LoggedLines
      <3>2. QED
        BY <1>1, <2>1, <2>2, <3>1, LogStays DEF Filed
    <2>3. CASE Announce
      <3> DEFINE n == IF first THEN "connected" ELSE "reconnected"
      <3>1. log' = Append(log, Note(n)) /\ pending' = pending
        BY <2>3 DEF Announce
      <3>2. n \in Notes /\ n # "line"
        BY DEF Notes
      <3> HIDE DEF n
      <3>3. QED
        BY <1>1, <2>1, <3>1, <3>2, MarkerNoLine DEF Filed
    <2>4. CASE NoteLoss /\ ~shutdown
      <3>1. log' = Append(log, Note("disconnected")) /\ pending' = pending
        BY <2>4 DEF NoteLoss
      <3>2. "disconnected" \in Notes /\ "disconnected" # "line"
        BY DEF Notes
      <3>3. QED
        BY <1>1, <2>1, <3>1, <3>2, MarkerNoLine DEF Filed
    <2>5. CASE NoteLoss /\ shutdown
      <3>1. log' = log /\ pending' = pending
        BY <2>5 DEF NoteLoss
      <3>2. QED
        BY <2>2, <3>1
    <2>6. QED
      BY <1>3, <2>2, <2>3, <2>4, <2>5, LogSteps DEF logVars
  <1>4. QED
    BY <1>2, <1>3

\* The log is complete: whatever the clients drain and the buffer drops, for
\* every stream and every way it is cut into reads, the k-th line of the log is
\* what precedes the k-th newline, and what follows the last one waits in the
\* framer.
THEOREM NothingUnlogged == Spec => []LogComplete
  <1>1. Filed => LogComplete
    BY DEF Filed
  <1>2. QED
    BY <1>1, FiledInit, FiledStep, PTL DEF Spec
=============================================================================
