--------------------------- MODULE UartdHandlers ---------------------------
(***************************************************************************)
(* The acceptor, the connection handlers and the end of the daemon:        *)
(* acceptor_loop, handle_conn, dispatch, do_expect and Daemon::shutdown of *)
(* crates/uart-core/src/daemon.rs, and crates/uart-core/src/expect.rs.     *)
(***************************************************************************)
EXTENDS UartdReader

CONSTANTS
    Requests,   \* the requests that each connection may carry
    MaxServed,  \* bound on the connections that are accepted
    PromptEnds, \* where the text that an expect waits for ends, likewise
                \* after one byte before it
    ExpectCap   \* expect.rs DEFAULT_CAP

Kinds == {"read", "peek", "status", "send", "expect", "wait", "stop"}

ASSUME HandlersAssumption ==
    /\ Requests \in [Conns -> SUBSET Kinds]
    /\ MaxServed \in Nat
    /\ PromptEnds \subseteq 2 .. MaxBytes
    /\ ExpectCap \in Nat \ {0}

VARIABLES
    accepting,  \* the acceptor thread runs
    exited,     \* the daemon process is gone, and its handlers with it
    served,     \* connections accepted so far
    pc,         \* where the handler of each connection is
    request,    \* the request it carries
    reply,      \* its answer
    acc,        \* ExpectMatcher.acc
    since       \* history: the bytes captured when it subscribed

processVars == <<accepting, exited>>
expectVars  == <<acc, since>>
handlerVars == <<processVars, served, pc, request, reply, expectVars>>

HandlersTypeOK ==
    /\ accepting \in BOOLEAN
    /\ exited \in BOOLEAN
    /\ served \in 0 .. MaxServed
    /\ pc \in [Conns -> {"idle", "dispatch", "drained", "send", "recv", "reply"}]
    /\ request \in [Conns -> Kinds \cup {"none"}]
    /\ reply \in [Conns -> {"none", "text", "status", "ok", "error", "match", "timeout"}]
    /\ acc \in [Conns -> Seq(1 .. MaxBytes)]
    /\ since \in [Conns -> 0 .. MaxBytes]

HandlersInit ==
    /\ accepting = TRUE
    /\ exited = FALSE
    /\ served = 0
    /\ pc = [h \in Conns |-> "idle"]
    /\ request = [h \in Conns |-> "none"]
    /\ reply = [h \in Conns |-> "none"]
    /\ acc = [h \in Conns |-> <<>>]
    /\ since = [h \in Conns |-> 0]
-----------------------------------------------------------------------------
\* A connection with one request is accepted.
Accept(h, r) ==
    /\ accepting
    /\ pc[h] = "idle"
    /\ served < MaxServed
    /\ subscribed[h] = "none"
    /\ served' = served + 1
    /\ pc' = [pc EXCEPT ![h] = "dispatch"]
    /\ request' = [request EXCEPT ![h] = r]
    /\ reply' = [reply EXCEPT ![h] = "none"]
    /\ acc' = [acc EXCEPT ![h] = <<>>]
    /\ UNCHANGED <<sinkVars, serialVars, readerVars, buffered, shutdown, subVars,
                   processVars, since>>

Dispatches(h, kinds) == pc[h] = "dispatch" /\ request[h] \in kinds

\* The answer is ready; a subscription ends with the handler.
Answers(h, r) ==
    /\ pc' = [pc EXCEPT ![h] = "reply"]
    /\ reply' = [reply EXCEPT ![h] = r]
    /\ subscribed' = [subscribed EXCEPT ![h] = IF @ = "live" THEN "dead" ELSE @]
    /\ UNCHANGED request

\* read drains under the buffer lock ...
ReadDrains(h) ==
    /\ Dispatches(h, {"read"})
    /\ BufFree
    /\ Drain
    /\ pc' = [pc EXCEPT ![h] = "drained"]
    /\ UNCHANGED <<logVars, serialVars, readerVars, buffered, shutdown, subVars,
                   processVars, served, request, reply, expectVars>>

\* ... and clears the published length after the lock is released.
ReadStores(h) ==
    /\ pc[h] = "drained"
    /\ buffered' = 0
    /\ Answers(h, "text")
    /\ UNCHANGED <<sinkVars, serialVars, readerVars, shutdown, queue, processVars,
                   served, expectVars>>

Peek(h) ==
    /\ Dispatches(h, {"peek"})
    /\ BufFree
    /\ Answers(h, "text")
    /\ UNCHANGED <<sinkVars, serialVars, readerVars, buffered, shutdown, queue,
                   processVars, served, expectVars>>

\* status and log answer from the atomics and the configuration.
Status(h) ==
    /\ Dispatches(h, {"status"})
    /\ Answers(h, "status")
    /\ UNCHANGED <<sinkVars, serialVars, readerVars, buffered, shutdown, queue,
                   processVars, served, expectVars>>

Stop(h) ==
    /\ Dispatches(h, {"stop"})
    /\ shutdown' = TRUE
    /\ Answers(h, "ok")
    /\ UNCHANGED <<sinkVars, serialVars, readerVars, buffered, queue, processVars,
                   served, expectVars>>

BeginSend(h) ==
    /\ Dispatches(h, {"send"})
    /\ pc' = [pc EXCEPT ![h] = "send"]
    /\ UNCHANGED <<sinkVars, serialVars, readerVars, buffered, shutdown, subVars,
                   processVars, served, request, reply, expectVars>>

\* do_expect subscribes before it sends.
Subscribe(h) ==
    /\ Dispatches(h, {"expect", "wait"})
    /\ subscribed' = [subscribed EXCEPT ![h] = "live"]
    /\ since' = [since EXCEPT ![h] = captured]
    /\ pc' = [pc EXCEPT ![h] = IF request[h] = "expect" THEN "send" ELSE "recv"]
    /\ UNCHANGED <<sinkVars, serialVars, readerVars, buffered, shutdown, queue,
                   processVars, served, request, reply, acc>>

BadPattern(h) ==
    /\ Dispatches(h, {"expect", "wait"})
    /\ Answers(h, "error")
    /\ UNCHANGED <<sinkVars, serialVars, readerVars, buffered, shutdown, queue,
                   processVars, served, expectVars>>

\* A write of a send, or its end.
HandlerWrites(h) ==
    /\ pc[h] = "send"
    /\ \/ WriteStep(h) /\ UNCHANGED <<pc, request, reply, subVars>>
       \/ WriteFails(h) /\ Answers(h, "error") /\ queue' = [queue EXCEPT ![h] = <<>>]
       \/ WritesDone(h) /\ request[h] = "send" /\ Answers(h, "ok") /\ UNCHANGED queue
       \/ /\ WritesDone(h)
          /\ request[h] = "expect"
          /\ pc' = [pc EXCEPT ![h] = "recv"]
          /\ UNCHANGED <<request, reply, subVars>>
    /\ UNCHANGED <<sinkVars, portVars, loginVars, readerVars, buffered, shutdown,
                   processVars, served, acc, since>>

\* Mutant: over the cap only the new chunk is kept.
AccumulatedAnew(a, c) ==
    LET all == a \o Bytes(c)
    IN IF Len(all) <= ExpectCap THEN all ELSE Bytes(c)

\* ExpectMatcher.feed: accumulate, over the cap keep the newest half only.
Accumulated(a, c) ==
    LET all == a \o Bytes(c)
    IN IF Len(all) <= ExpectCap THEN all ELSE LastOf(all, ExpectCap \div 2)

Receive(h) ==
    /\ pc[h] = "recv"
    /\ queue[h] # <<>>
    /\ acc' = [acc EXCEPT ![h] = Accumulated(@, Head(queue[h]))]
    /\ IF Shows(acc'[h], PromptEnds)
       THEN Answers(h, "match") /\ queue' = [queue EXCEPT ![h] = <<>>]
       ELSE queue' = [queue EXCEPT ![h] = Tail(@)] /\ UNCHANGED <<pc, request, reply, subscribed>>
    /\ UNCHANGED <<sinkVars, serialVars, readerVars, buffered, shutdown, processVars,
                   served, since>>

\* Mutant: the deadline is looked at only when a chunk arrives.
TimeoutAfterChunk(h) ==
    /\ pc[h] = "recv"
    /\ queue[h] # <<>>
    /\ Answers(h, "timeout")
    /\ queue' = [queue EXCEPT ![h] = <<>>]
    /\ UNCHANGED <<sinkVars, serialVars, readerVars, buffered, shutdown, processVars, served,
                   expectVars>>

\* The deadline passes, perhaps with chunks still in the channel.
Timeout(h) ==
    /\ pc[h] = "recv"
    /\ Answers(h, "timeout")
    /\ queue' = [queue EXCEPT ![h] = <<>>]
    /\ UNCHANGED <<sinkVars, serialVars, readerVars, buffered, shutdown, processVars,
                   served, expectVars>>

\* The answer is written, to a client that may be gone.
Reply(h) ==
    /\ pc[h] = "reply"
    /\ pc' = [pc EXCEPT ![h] = "idle"]
    /\ UNCHANGED <<sinkVars, serialVars, readerVars, buffered, shutdown, subVars,
                   processVars, served, request, reply, expectVars>>

\* The steps of a handler that do not wait for the device.
Quick(h) ==
    \/ ReadDrains(h) \/ ReadStores(h) \/ Peek(h) \/ Status(h) \/ Stop(h)
    \/ BeginSend(h) \/ Subscribe(h) \/ BadPattern(h) \/ Reply(h)

HandlerStep(h) == Quick(h) \/ HandlerWrites(h) \/ Receive(h) \/ Timeout(h)
-----------------------------------------------------------------------------
\* A signal handler sets the flag, as stop does.
Signal ==
    /\ ~shutdown
    /\ shutdown' = TRUE
    /\ UNCHANGED <<sinkVars, serialVars, readerVars, buffered, subVars, handlerVars>>

AcceptorStops ==
    /\ accepting
    /\ shutdown
    /\ accepting' = FALSE
    /\ UNCHANGED <<sinkVars, serialVars, readerVars, buffered, shutdown, subVars,
                   exited, served, pc, request, reply, expectVars>>

\* The main thread joins the reader and the acceptor, not the handlers, and
\* the process exits.
Exit ==
    /\ shutdown
    /\ rpc = "stopped"
    /\ ~accepting
    /\ exited' = TRUE
    /\ UNCHANGED <<sinkVars, serialVars, readerVars, buffered, shutdown, subVars,
                   accepting, served, pc, request, reply, expectVars>>
=============================================================================
