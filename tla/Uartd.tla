------------------------------- MODULE Uartd -------------------------------
(***************************************************************************)
(* The daemon: its threads on a port whose device node comes and goes.     *)
(***************************************************************************)
EXTENDS UartdHandlers

vars == <<sinkVars, serialVars, readerVars, buffered, shutdown, subVars, handlerVars>>

Init == BufferInit /\ PortInit /\ ReaderInit /\ HandlersInit

ReaderRuns == ~exited /\ ReaderStep /\ UNCHANGED handlerVars

PlugMoves ==
    /\ Unplug \/ Replug
    /\ UNCHANGED <<sinkVars, sendVars, loginVars, readerVars, buffered, shutdown,
                   subVars, handlerVars>>

Main == ~exited /\ (Signal \/ AcceptorStops \/ Exit)

Next ==
    \/ ReaderRuns
    \/ PlugMoves
    \/ \E h \in Conns : ~exited /\ (HandlerStep(h) \/ \E r \in Requests[h] : Accept(h, r))
    \/ Main

Spec == Init /\ [][Next]_vars

-----------------------------------------------------------------------------
TypeOK == BufferTypeOK /\ PortTypeOK /\ ReaderTypeOK /\ HandlersTypeOK

\* The bytes that have been pushed into the drain buffer.
Stored == IF rpc = "push" THEN captured - data.n ELSE captured

\* Every captured byte is accounted for exactly once: the buffer holds the
\* newest bytes without a gap, what lies between them and the last read is what
\* the next read reports as dropped, and len is their number (buffer.rs:
\* "loss is never silent").
Accounting ==
    /\ len + dropped = Stored - cursor
    /\ chunks = <<>> => len = 0 /\ dropped = 0
    /\ chunks # <<>> =>
          /\ chunks[1].at = cursor + dropped + 1
          /\ End(Last(chunks)) = Stored
    /\ \A i \in 1 .. Len(chunks) - 1 : chunks[i + 1].at = End(chunks[i]) + 1

\* Outside a push the buffer holds no more than Cap bytes, or one chunk only
\* (buffer.rs, "Enforces the cap").
BufferBounded == BufFree => len <= Cap \/ Len(chunks) = 1

\* The bytes that have been handed to the framer.
Logged == IF rpc \in {"push", "evict", "log"} THEN captured - data.n ELSE captured

\* The positions from a to b.
Run(a, b) == [i \in 1 .. b - a + 1 |-> a + i - 1]

LoggedLines == {i \in DOMAIN log : log[i].note = "line"}
Markers     == {i \in DOMAIN log : log[i].note # "line"}

\* The last newline before position p, 0 if there is none.
LineStart(p) == Max({0} \cup {q \in Newlines : q < p})

\* Whatever reads drain and the buffer drops, and across reconnects, the log
\* and the framer hold every captured byte in order: the k-th line is what
\* precedes the k-th newline, and there are as many lines as newlines
\* (README.md, "complete history").
LogComplete ==
    /\ Cardinality(LoggedLines) = Rank(Logged, Newlines)
    /\ \A i \in LoggedLines, p \in Newlines :
          p <= Logged /\ Rank(i, LoggedLines) = Rank(p, Newlines) =>
              log[i].text = Run(LineStart(p) + 1, p - 1)
    /\ pending = Run(LineStart(Logged + 1) + 1, Logged)

\* The markers in the log tell the connections apart: every one is opened once
\* and closed before the next is opened (README.md, markers).
MarkersPair ==
    /\ log[1].note = "session start"
    /\ \A i, j \in Markers :
          i < j /\ (\A k \in i + 1 .. j - 1 : k \notin Markers) =>
              <<log[i].note, log[j].note>> \in
                  {<<"session start", "connected">>, <<"connected", "disconnected">>,
                   <<"disconnected", "reconnected">>, <<"reconnected", "disconnected">>}

\* The bytes that have been broadcast to the waiters.
Sent == IF rpc \in {"push", "evict", "log", "broadcast"} THEN captured - data.n ELSE captured

\* How far a waiter has got in the stream.
Heard(h) == IF queue[h] = <<>> THEN Sent ELSE queue[h][1].at - 1

\* A waiter hears every byte captured after it has subscribed, in order and
\* without a gap, whoever reads meanwhile and however often the port is lost:
\* what it has, what waits in its channel and what is about to be sent follow
\* each other.  Of more than the cap it may forget, but never the newest half of
\* the cap (daemon.rs, "Register interest BEFORE sending, so a fast response is
\* not missed").
WaiterHears ==
    \A h \in Conns : subscribed[h] = "live" =>
        LET forgotten == Heard(h) - Len(acc[h])
        IN /\ acc[h] = Run(forgotten + 1, Heard(h))
           /\ \A i \in 1 .. Len(queue[h]) - 1 : queue[h][i + 1].at = End(queue[h][i]) + 1
           /\ queue[h] # <<>> => End(Last(queue[h])) = Sent
           /\ forgotten <= since[h] \/ Len(acc[h]) >= ExpectCap \div 2

\* Half of the window holds a port read and what a prompt may have of the read
\* before it: READ_BUF and DEFAULT_CAP are 8192 and 262144.
HalfHoldsRead == ReadBuf + 1 <= ExpectCap \div 2

\* Then a waiter that still waits has heard no prompt whole: wherever the reads
\* cut it, and wherever the window was cut before, a prompt that was captured
\* after the subscription ends the wait once its last byte is received
\* (expect.rs, "so recent data (where prompts appear) is still matchable").
PromptHeard ==
    HalfHoldsRead =>
        \A h \in Conns, p \in PromptEnds :
            subscribed[h] = "live" => p <= since[h] + 1 \/ Heard(h) < p

\* The write handle is the one of the port that the reader has open, or None,
\* but for the moment between the loss of the port and the drop of its handle:
\* a send while disconnected fails, and no handle of a lost port is kept until
\* the next connection (daemon.rs:48).
WriterFollowsPort == writer # 0 => writer = fd \/ rpc = "lost"

\* A password is sent only on a connection that has asked for it, after the
\* login prompt of that same connection (login.rs, "re-armed on every
\* (re)connect").
PasswordAsked ==
    rpc = "send" /\ ~awaiting =>
        \E q \in LoginEnds, p \in PassEnds :
            opened < q - 1 /\ q < p - 1 /\ p <= captured
-----------------------------------------------------------------------------
\* The threads run; nothing is assumed of the waiters' deadlines, of what the
\* device says and of the pace of the sends.
Fairness ==
    /\ WF_vars(ReaderRuns)
    /\ WF_vars(~exited /\ (AcceptorStops \/ Exit))
    /\ \A h \in Conns : WF_vars(~exited /\ Quick(h))

FairSpec == Spec /\ Fairness

\* A read, peek, status or stop is answered however long other connections
\* wait or send (plan.md, decision 6).
QuickAnswered ==
    \A h \in Conns :
        request[h] \in {"read", "peek", "status", "stop"} /\ pc[h] # "idle"
            ~> pc[h] = "idle" \/ exited

\* A stop, or a signal, ends the daemon, also with waiters still waiting.
ShutsDown == shutdown ~> exited

\* Where the deadlines pass and the sends go on, every connection is answered,
\* unless the daemon ends first.
DeadlinesPass ==
    \A h \in Conns : WF_vars(~exited /\ (HandlerWrites(h) \/ Receive(h) \/ Timeout(h)))

AllAnswered == \A h \in Conns : pc[h] # "idle" ~> pc[h] = "idle" \/ exited

Answered == DeadlinesPass => AllAnswered
=============================================================================
