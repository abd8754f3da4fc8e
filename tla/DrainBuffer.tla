---------------------------- MODULE DrainBuffer ----------------------------
(***************************************************************************)
(* The bounded drain buffer behind read and peek, and the forensic log     *)
(* with its line framer: crates/uart-core/src/buffer.rs and lines.rs.      *)
(*                                                                         *)
(* A captured byte is its position in the stream the daemon has read from  *)
(* the port, 1, 2, 3, ...  A chunk, the result of one port read, is a run  *)
(* of positions.  Newlines says which positions hold a newline.            *)
(***************************************************************************)
EXTENDS Integers, SequencesExt, FiniteSetsExt

CONSTANTS
    Cap,        \* buffer_cap, in bytes
    MaxBytes,   \* bound on the captured bytes
    Newlines    \* the positions of the newlines

ASSUME BufferAssumption ==
    Cap \in Nat /\ MaxBytes \in Nat /\ Newlines \subseteq 1 .. MaxBytes

\* at is the position of the first byte, n the number of bytes.
Chunk == [at : 1 .. MaxBytes, n : 1 .. MaxBytes]

End(c)   == c.at + c.n - 1
Bytes(c) == [i \in 1 .. c.n |-> c.at + i - 1]

VARIABLES
    chunks,     \* DrainBuffer.chunks, oldest first
    len,        \* DrainBuffer.len
    dropped,    \* DrainBuffer.dropped
    cursor,     \* history: the last position that a read has returned or told lost
    pending,    \* LineFramer.pending: the bytes of the unfinished line
    log         \* the forensic log

bufVars  == <<chunks, len, dropped>>
logVars  == <<pending, log>>
sinkVars == <<bufVars, cursor, logVars>>

\* A log entry is a captured line or a note of the daemon.
Note(n) == [note |-> n, text |-> <<>>]
Line(t) == [note |-> "line", text |-> t]
Notes   == {"session start", "connected", "reconnected", "disconnected", "line"}
Entry   == [note : Notes, text : Seq(1 .. MaxBytes)]

BufferTypeOK ==
    /\ chunks \in Seq(Chunk)
    /\ len \in Nat
    /\ dropped \in Nat
    /\ cursor \in Nat
    /\ pending \in Seq(1 .. MaxBytes)
    /\ log \in Seq(Entry)

BufferInit ==
    /\ chunks = <<>>
    /\ len = 0
    /\ dropped = 0
    /\ cursor = 0
    /\ pending = <<>>
    /\ log = <<Note("session start")>>
-----------------------------------------------------------------------------
\* The first half of push: the new chunk goes to the end.
PushBack(c) ==
    /\ chunks' = Append(chunks, c)
    /\ len' = len + c.n
    /\ UNCHANGED <<dropped, cursor>>

\* Mutant: the cap counts chunks.
MustEvictByChunks == Len(chunks) > Cap /\ Len(chunks) > 1

\* Over the cap, and the newest chunk is not the only one.
MustEvict == len > Cap /\ Len(chunks) > 1

\* Mutant: the bytes are counted as one when a chunk goes.
EvictCountsChunks ==
    /\ MustEvict
    /\ chunks' = Tail(chunks)
    /\ len' = len - Head(chunks).n
    /\ dropped' = dropped + 1
    /\ UNCHANGED cursor

\* One round of push's eviction loop: the oldest chunk goes.
Evict ==
    /\ MustEvict
    /\ chunks' = Tail(chunks)
    /\ len' = len - Head(chunks).n
    /\ dropped' = dropped + Head(chunks).n
    /\ UNCHANGED cursor

\* drain_chunks: returns the drop count and the chunks, and clears both.
Drain ==
    /\ cursor' = IF chunks = <<>> THEN cursor + dropped ELSE End(Last(chunks))
    /\ chunks' = <<>>
    /\ len' = 0
    /\ dropped' = 0
-----------------------------------------------------------------------------
\* The place of x among the numbers of S, in order.
Rank(x, S) == Cardinality({y \in S : y <= x})

\* The lines that the framer completes with bytes b, the pending ones first.
Completed(b) ==
    LET all    == pending \o b
        ends   == {i \in DOMAIN all : all[i] \in Newlines}
        Nth(k) == CHOOSE i \in ends : Rank(i, ends) = k
    IN [k \in 1 .. Cardinality(ends) |->
           Line(SubSeq(all, IF k = 1 THEN 1 ELSE Nth(k - 1) + 1, Nth(k) - 1))]

\* Mutant: a framer of its own for every chunk.
KeptNothing(b) == <<>>

\* What the framer keeps of the bytes after the last newline.
Kept(b) ==
    LET all  == pending \o b
        ends == {i \in DOMAIN all : all[i] \in Newlines}
    IN SubSeq(all, IF ends = {} THEN 1 ELSE Max(ends) + 1, Len(all))

\* The whole lines go to the log, the partial one waits for its newline.
LogLines(c) ==
    /\ log' = log \o Completed(Bytes(c))
    /\ pending' = Kept(Bytes(c))
=============================================================================
