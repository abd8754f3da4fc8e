---------------------------- MODULE UartdReader ----------------------------
(***************************************************************************)
(* The reader thread of the daemon, crates/uart-core/src/daemon.rs: it     *)
(* opens the port, captures, and reconnects when the port is lost.         *)
(*                                                                         *)
(* A step is what the thread does between two points at which another      *)
(* thread can see it: a critical section or a store to an atomic.  Steps   *)
(* on state that only the reader looks at join the next one.               *)
(***************************************************************************)
EXTENDS UartdPort

CONSTANT ReadBuf    \* READ_BUF: the most bytes one port read returns

ASSUME ReaderAssumption == ReadBuf \in Nat \ {0}

VARIABLES
    rpc,        \* where the reader thread is
    fd,         \* the node the reader has open, 0 for none
    data,       \* the chunk that is being ingested
    captured,   \* bytes read from the port so far
    opened,     \* history: the bytes captured before the port was last opened
    first,      \* no connection was made yet
    connected,  \* Shared.connected
    buffered,   \* Shared.buffered
    shutdown,   \* Shared.shutdown
    subscribed, \* Shared.subscribers: a connection's sender is in the list
                \* and its receiver is "live" or "dead", or it is not: "none"
    queue       \* the chunks waiting in each connection's channel

readerVars == <<rpc, fd, data, captured, opened, first, connected>>
subVars    == <<subscribed, queue>>

NoChunk == [at |-> 0, n |-> 0]

ReaderTypeOK ==
    /\ rpc \in {"closed", "opened", "capture", "push", "evict", "log",
                "broadcast", "login", "send", "lost", "dropped", "stopped"}
    /\ fd \in 0 .. MaxPlugs
    /\ data \in Chunk \cup {NoChunk}
    /\ captured \in 0 .. MaxBytes
    /\ opened \in 0 .. MaxBytes
    /\ first \in BOOLEAN
    /\ connected \in BOOLEAN
    /\ buffered \in Nat
    /\ shutdown \in BOOLEAN
    /\ subscribed \in [Conns -> {"none", "live", "dead"}]
    /\ queue \in [Conns -> Seq(Chunk)]

ReaderInit ==
    /\ rpc = "closed"
    /\ fd = 0
    /\ data = NoChunk
    /\ captured = 0
    /\ opened = 0
    /\ first = TRUE
    /\ connected = FALSE
    /\ buffered = 0
    /\ shutdown = FALSE
    /\ subscribed = [h \in Conns |-> "none"]
    /\ queue = [h \in Conns |-> <<>>]

Goes(from, to) == rpc = from /\ rpc' = to
-----------------------------------------------------------------------------
\* The port opens: set the write handle, or None when it cannot be cloned, and
\* re-arm the auto-login.
OpenPort ==
    /\ Goes("closed", "opened")
    /\ ~shutdown
    /\ plug # 0
    /\ fd' = plug
    /\ opened' = captured
    /\ writer' \in {plug, 0}
    /\ IF AutoLogin THEN Rearm ELSE UNCHANGED loginVars
    /\ UNCHANGED <<sinkVars, plug, plugs, sendVars, data, captured, first, connected,
                   buffered, shutdown, subVars>>

\* Mutant: every connection is announced as the first.
AnnounceAgain ==
    /\ Goes("opened", "capture")
    /\ connected' = TRUE
    /\ log' = Append(log, Note(IF first THEN "connected" ELSE "reconnected"))
    /\ UNCHANGED <<bufVars, cursor, pending, serialVars, fd, data, captured, opened, first,
                   buffered, shutdown, subVars>>

Announce ==
    /\ Goes("opened", "capture")
    /\ connected' = TRUE
    /\ first' = FALSE
    /\ log' = Append(log, Note(IF first THEN "connected" ELSE "reconnected"))
    /\ UNCHANGED <<bufVars, cursor, pending, serialVars, fd, data, captured, opened,
                   buffered, shutdown, subVars>>

\* A port read returns the next n bytes.
ReadPort(n) ==
    /\ Goes("capture", "push")
    /\ ~shutdown
    /\ fd = plug
    /\ captured + n <= MaxBytes
    /\ data' = [at |-> captured + 1, n |-> n]
    /\ captured' = captured + n
    /\ UNCHANGED <<sinkVars, serialVars, fd, opened, first, connected, buffered,
                   shutdown, subVars>>

\* The port is lost, or the daemon shuts down: capture returns and its port is
\* closed.  The write handle, a clone, outlives it for a moment, in which a
\* send is swallowed ...
LosePort ==
    /\ Goes("capture", "lost")
    /\ shutdown \/ fd # plug
    /\ fd' = 0
    /\ connected' = FALSE
    /\ UNCHANGED <<sinkVars, serialVars, data, captured, opened, first, buffered, shutdown,
                   subVars>>

\* Mutant: the write handle of the lost port is kept.
DropWriterLate ==
    /\ Goes("lost", "dropped")
    /\ UNCHANGED <<sinkVars, serialVars, fd, data, captured, opened, first, connected,
                   buffered, shutdown, subVars>>

\* ... until it is dropped, under the writer mutex ...
DropWriter ==
    /\ Goes("lost", "dropped")
    /\ writer' = 0
    /\ UNCHANGED <<sinkVars, plug, plugs, sendVars, loginVars, fd, data, captured, opened,
                   first, connected, buffered, shutdown, subVars>>

\* ... and the loss is noted, unless it is the daemon that ends.
NoteLoss ==
    /\ Goes("dropped", "closed")
    /\ log' = IF shutdown THEN log ELSE Append(log, Note("disconnected"))
    /\ UNCHANGED <<bufVars, cursor, pending, serialVars, fd, data, captured, opened, first,
                   connected, buffered, shutdown, subVars>>

\* ingest takes the buffer lock and pushes the chunk.
PushChunk ==
    /\ Goes("push", "evict")
    /\ PushBack(data)
    /\ UNCHANGED <<logVars, serialVars, fd, data, captured, opened, first, connected,
                   buffered, shutdown, subVars>>

EvictChunk ==
    /\ rpc = "evict"
    /\ Evict
    /\ UNCHANGED <<logVars, serialVars, readerVars, buffered, shutdown, subVars>>

\* Mutant: the loss is taken off the length once more.
PushedLessDropped ==
    /\ Goes("evict", "log")
    /\ ~MustEvict
    /\ buffered' = len - dropped
    /\ UNCHANGED <<sinkVars, serialVars, fd, data, captured, opened, first, connected,
                   shutdown, subVars>>

\* The length is published and the buffer lock released.
Pushed ==
    /\ Goes("evict", "log")
    /\ ~MustEvict
    /\ buffered' = len
    /\ UNCHANGED <<sinkVars, serialVars, fd, data, captured, opened, first, connected,
                   shutdown, subVars>>

\* Mutant: a waiter holds the buffer lock while it waits.
BufFreeOfWaiters == rpc # "evict" /\ \A h \in Conns : subscribed[h] # "live"

\* The buffer lock is held by the reader in "evict" only.
BufFree == rpc # "evict"

LogChunk ==
    /\ Goes("log", "broadcast")
    /\ LogLines(data)
    /\ UNCHANGED <<bufVars, cursor, serialVars, fd, data, captured, opened, first,
                   connected, buffered, shutdown, subVars>>

\* Mutant: bounded channels, a chunk that does not fit is dropped.
BroadcastDrops ==
    /\ Goes("broadcast", "login")
    /\ queue' = [h \in Conns |-> IF subscribed[h] = "live" /\ queue[h] = <<>>
                                 THEN Append(queue[h], data) ELSE queue[h]]
    /\ subscribed' = [h \in Conns |-> IF subscribed[h] = "dead" THEN "none" ELSE subscribed[h]]
    /\ UNCHANGED <<sinkVars, serialVars, fd, data, captured, opened, first, connected,
                   buffered, shutdown>>

\* Mutant: bounded channels, the reader waits until a chunk fits.
BroadcastBlocks ==
    /\ Goes("broadcast", "login")
    /\ \A h \in Conns : subscribed[h] = "live" => queue[h] = <<>>
    /\ queue' = [h \in Conns |-> IF subscribed[h] = "live"
                                 THEN Append(queue[h], data) ELSE queue[h]]
    /\ subscribed' = [h \in Conns |-> IF subscribed[h] = "dead" THEN "none" ELSE subscribed[h]]
    /\ UNCHANGED <<sinkVars, serialVars, fd, data, captured, opened, first, connected,
                   buffered, shutdown>>

\* Every live subscriber gets the chunk; the dead ones are pruned.
Broadcast ==
    /\ Goes("broadcast", "login")
    /\ queue' = [h \in Conns |-> IF subscribed[h] = "live"
                                 THEN Append(queue[h], data) ELSE queue[h]]
    /\ subscribed' = [h \in Conns |-> IF subscribed[h] = "dead" THEN "none" ELSE subscribed[h]]
    /\ UNCHANGED <<sinkVars, serialVars, fd, data, captured, opened, first, connected,
                   buffered, shutdown>>

\* The auto-login sees the chunk; the credential it asks for is sent by the
\* reader itself, which captures nothing meanwhile.
DriveLogin ==
    /\ Goes("login", IF AutoLogin /\ Prompted(Bytes(data)) THEN "send" ELSE "capture")
    /\ IF AutoLogin THEN Feed(Bytes(data)) ELSE UNCHANGED loginVars
    /\ UNCHANGED <<sinkVars, portVars, sendVars, fd, data, captured, opened, first,
                   connected, buffered, shutdown, subVars>>

\* A write of a credential; how the send ends is ignored.
ReaderWrites ==
    /\ \/ rpc = "send" /\ WriteStep(Reader) /\ UNCHANGED rpc
       \/ Goes("send", "capture") /\ (WriteFails(Reader) \/ WritesDone(Reader))
    /\ UNCHANGED <<sinkVars, portVars, loginVars, fd, data, captured, opened, first,
                   connected, buffered, shutdown, subVars>>

ReaderStops ==
    /\ Goes("closed", "stopped")
    /\ shutdown
    /\ UNCHANGED <<sinkVars, serialVars, fd, data, captured, opened, first, connected,
                   buffered, shutdown, subVars>>

ReaderStep ==
    \/ OpenPort \/ Announce \/ LosePort \/ DropWriter \/ NoteLoss
    \/ \E n \in 1 .. ReadBuf : ReadPort(n)
    \/ PushChunk \/ EvictChunk \/ Pushed
    \/ LogChunk \/ Broadcast \/ DriveLogin \/ ReaderWrites \/ ReaderStops
=============================================================================
