------------------------------ MODULE SendBlob ------------------------------
(***************************************************************************)
(* The host side of a transfer: Transport::stat and Transport::send_blob   *)
(* of crates/uartfs/src/transport.rs, with the inbox they receive from.    *)
(*                                                                         *)
(* send_blob is stop-and-wait: it sends one frame, then waits in           *)
(* recv_match until a matching answer arrives or a deadline passes.  pc    *)
(* says which answer it waits for.  A deadline may pass while the answer   *)
(* is still on its way, so a timeout needs only that the inbox holds no    *)
(* match.  The inbox lives as long as the Transport, that is across the    *)
(* send_blob calls of one process, and is never purged.                    *)
(***************************************************************************)
EXTENDS UfsWire, SequencesExt

CONSTANTS
    Payloads,     \* the blobs the callers deliver under each xid
    StatTries,    \* attempts of stat(), 3 in the code
    Retries,      \* Timeouts.retries, 6 by default
    ReopenEvery,  \* OPEN is sent again at every so many failed tries, 4
    CloseTries,   \* CLOSE attempts that fit in Timeouts.done, 5 by default
    MaxCalls      \* bound on the send_blob calls of one process

ASSUME HostAssumption ==
    /\ Payloads \in [Xids -> SUBSET Blobs]
    /\ StatTries \in Nat \ {0}
    /\ Retries \in Nat
    /\ ReopenEvery \in Nat \ {0}
    /\ CloseTries \in Nat \ {0}
    /\ MaxCalls \in Nat

VARIABLES
    pc,       \* "idle", or the answer awaited: "stat", "data", "close"
    xid,      \* the transfer of the current or last call
    blob,     \* the blob of the current or last call
    seq,      \* the chunk being delivered
    tries,    \* sends of the awaited frame that have failed so far
    verdict,  \* what the last call returned
    inbox,    \* frames received and not yet taken
    calls     \* send_blob calls of this process so far

hostVars == <<pc, xid, blob, seq, tries, verdict, inbox, calls>>

Verdicts == {"none", "ok", "verify", "timeout", "stalled", "io"}

HostTypeOK ==
    /\ pc \in {"idle", "stat", "data", "close"}
    /\ xid \in Xids
    /\ blob \in Blobs
    /\ seq \in 0 .. MaxChunks
    /\ tries \in Nat
    /\ verdict \in Verdicts
    /\ inbox \in Seq(ToHost)
    /\ calls \in 0 .. MaxCalls

HostInit ==
    /\ pc = "idle"
    /\ xid \in Xids
    /\ blob \in Payloads[xid]
    /\ seq = 0
    /\ tries = 0
    /\ verdict = "none"
    /\ inbox = <<>>
    /\ calls = 0

Send(m) == toDev' = Put(toDev, m, DevCap)

Returns(v) == pc' = "idle" /\ verdict' = v /\ tries' = 0

\* Mutant: any ACK or NAK of the transfer is taken, whatever its chunk.
AwaitedOfAnyChunk(m) ==
    \/ pc = "stat" /\ m.kind = "HAVE" /\ m.xid = xid
    \/ pc = "data" /\ m.kind \in {"ACK", "NAK"} /\ m.xid = xid
    \/ pc = "close" /\ m.kind = "DONE" /\ m.xid = xid

\* Mutant: the xid of an answer is not looked at.
AwaitedOfAnyXid(m) ==
    \/ pc = "stat" /\ m.kind = "HAVE"
    \/ pc = "data" /\ m.kind \in {"ACK", "NAK"} /\ m.seq = seq
    \/ pc = "close" /\ m.kind = "DONE"

Awaited(m) ==
    \/ pc = "stat" /\ m.kind = "HAVE" /\ m.xid = xid
    \/ pc = "data" /\ m.kind \in {"ACK", "NAK"} /\ m.xid = xid /\ m.seq = seq
    \/ pc = "close" /\ m.kind = "DONE" /\ m.xid = xid

NothingAwaited == \A i \in DOMAIN inbox : ~Awaited(inbox[i])

\* recv_match takes the i-th frame of the inbox, the first awaited one.
Takes(i) ==
    /\ Awaited(inbox[i])
    /\ \A j \in 1 .. i - 1 : ~Awaited(inbox[j])
    /\ inbox' = RemoveAt(inbox, i)
-----------------------------------------------------------------------------
\* send_blob(xid, blob): OPEN, then the first STAT.
Call(x, b) ==
    /\ pc = "idle"
    /\ calls < MaxCalls
    /\ b \in Payloads[x]
    /\ calls' = calls + 1
    /\ xid' = x
    /\ blob' = b
    /\ seq' = 0
    /\ tries' = 0
    /\ pc' = "stat"
    /\ verdict' = "none"
    /\ toDev' = Put(Put(toDev, Open(x, b), DevCap), Stat(x), DevCap)
    /\ UNCHANGED <<toHost, inbox>>

\* pump: the next frame off the console.
Pump ==
    /\ pc # "idle"
    /\ NothingAwaited
    /\ toHost # <<>>
    /\ inbox' = Append(inbox, Head(toHost))
    /\ toHost' = Tail(toHost)
    /\ UNCHANGED <<toDev, pc, xid, blob, seq, tries, verdict, calls>>

\* The chunks below s are delivered: go on with chunk s, or close.
GoOn(s) ==
    /\ seq' = s
    /\ tries' = 0
    /\ IF s < Len(blob)
       THEN pc' = "data" /\ Send(Data(xid, blob, s))
       ELSE pc' = "close" /\ Send(Close(xid))
    /\ UNCHANGED <<toHost, xid, blob, verdict, calls>>

\* Mutant: the chunk after the high-water mark is skipped as well.
StatAnsweredOffByOne(i) ==
    /\ pc = "stat"
    /\ Takes(i)
    /\ GoOn(IF inbox[i].hw < Len(blob) THEN inbox[i].hw + 1 ELSE Len(blob))

StatAnswered(i) ==
    /\ pc = "stat"
    /\ Takes(i)
    /\ GoOn(IF inbox[i].hw < Len(blob) THEN inbox[i].hw ELSE Len(blob))

StatTimeout ==
    /\ pc = "stat"
    /\ NothingAwaited
    /\ tries + 1 < StatTries
    /\ tries' = tries + 1
    /\ Send(Stat(xid))
    /\ UNCHANGED <<toHost, pc, xid, blob, seq, verdict, inbox, calls>>

\* No answer at all: start from scratch.
StatGivesUp ==
    /\ pc = "stat"
    /\ NothingAwaited
    /\ tries + 1 >= StatTries
    /\ GoOn(0)
    /\ UNCHANGED inbox

ChunkAcked(i) ==
    /\ pc = "data"
    /\ Takes(i)
    /\ inbox[i].kind = "ACK"
    /\ GoOn(seq + 1)

\* The awaited answer was a NAK, or none came: one more try, and at every
\* ReopenEvery-th the OPEN again in case it was the OPEN that was lost.
TryFails ==
    /\ LET reopened == IF (tries + 1) % ReopenEvery = 0
                       THEN Put(toDev, Open(xid, blob), DevCap) ELSE toDev
       IN IF tries + 1 > Retries
          THEN Returns("stalled") /\ toDev' = reopened
          ELSE /\ tries' = tries + 1
               /\ toDev' = Put(reopened, Data(xid, blob, seq), DevCap)
               /\ UNCHANGED <<pc, verdict>>
    /\ UNCHANGED <<toHost, xid, blob, seq, calls>>

ChunkNaked(i) ==
    /\ pc = "data"
    /\ Takes(i)
    /\ inbox[i].kind = "NAK"
    /\ TryFails

ChunkTimeout ==
    /\ pc = "data"
    /\ NothingAwaited
    /\ TryFails
    /\ UNCHANGED inbox

\* Mutant: ok is enough, the digest in DONE is not compared.
DoneAnsweredUnchecked(i) ==
    /\ pc = "close"
    /\ Takes(i)
    /\ Returns(IF inbox[i].ok THEN "ok" ELSE "verify")
    /\ UNCHANGED <<line, xid, blob, seq, calls>>

\* DONE: the delivery counts only with ok and the digest that was sent.
DoneAnswered(i) ==
    /\ pc = "close"
    /\ Takes(i)
    /\ Returns(IF inbox[i].ok /\ inbox[i].sha = blob THEN "ok" ELSE "verify")
    /\ UNCHANGED <<line, xid, blob, seq, calls>>

\* Mutant: every CLOSE starts the done budget anew.
DoneTimeoutUnbounded ==
    /\ pc = "close"
    /\ NothingAwaited
    /\ Send(Close(xid))
    /\ UNCHANGED <<toHost, pc, xid, blob, seq, tries, verdict, inbox, calls>>

DoneTimeout ==
    /\ pc = "close"
    /\ NothingAwaited
    /\ tries + 1 < CloseTries
    /\ tries' = tries + 1
    /\ Send(Close(xid))
    /\ UNCHANGED <<toHost, pc, xid, blob, seq, verdict, inbox, calls>>

DoneGivesUp ==
    /\ pc = "close"
    /\ NothingAwaited
    /\ tries + 1 >= CloseTries
    /\ Returns("timeout")
    /\ UNCHANGED <<line, xid, blob, seq, inbox, calls>>

\* The link fails (the daemon is gone or the device is not connected).
LinkFails ==
    /\ pc # "idle"
    /\ Returns("io")
    /\ UNCHANGED <<line, xid, blob, seq, inbox, calls>>

\* A new uartfs process, whatever the old one was doing: a fresh Transport.
\* What is in flight on the console stays there.
NewProcess ==
    /\ pc' = "idle"
    /\ verdict' = "none"
    /\ inbox' = <<>>
    /\ calls' = 0
    /\ seq' = 0
    /\ tries' = 0
    /\ UNCHANGED <<line, xid, blob>>

Receives ==
    \E i \in DOMAIN inbox :
        StatAnswered(i) \/ ChunkAcked(i) \/ ChunkNaked(i) \/ DoneAnswered(i)

TimesOut ==
    StatTimeout \/ StatGivesUp \/ ChunkTimeout \/ DoneTimeout \/ DoneGivesUp

HostStep ==
    \/ \E x \in Xids : \E b \in Payloads[x] : Call(x, b)
    \/ Pump
    \/ Receives
    \/ TimesOut
    \/ LinkFails
    \/ NewProcess
=============================================================================
