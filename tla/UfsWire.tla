------------------------------ MODULE UfsWire ------------------------------
(***************************************************************************)
(* The uartfs wire: the frames of crates/uartfs/src/msg.rs and the two     *)
(* directions of the serial console they travel on.                        *)
(*                                                                         *)
(* A frame carries a checksum, so a garbled, merged or truncated line is   *)
(* never parsed as another frame: it is lost.  Bytes dropped by a full tty *)
(* or by the daemon's drain buffer are lost as well.  The console never    *)
(* reorders and never duplicates; the duplicates the endpoints see come    *)
(* from their own retransmissions.                                         *)
(*                                                                         *)
(* A blob is the sequence of its chunks and stands for its own sha256      *)
(* (digests are taken as collision free); a chunk is an opaque value.      *)
(***************************************************************************)
EXTENDS Naturals, Sequences

CONSTANTS
    Xids,       \* transfer ids
    Chunk,      \* payloads of one DATA frame
    MaxChunks,  \* bound on the chunks of a blob
    Blobs,      \* the blobs a host may deliver
    DevCap,     \* bound on the frames in flight to the device
    HostCap,    \* bound on the frames in flight to the host
    Torn,       \* what an interrupted write leaves in a chunk file
    NoFile      \* a file that does not exist

ASSUME WireAssumption ==
    /\ MaxChunks \in Nat
    /\ DevCap \in Nat
    /\ HostCap \in Nat
    /\ Blobs \subseteq {b \in Seq(Chunk) : Len(b) <= MaxChunks}
    /\ Torn \notin Chunk
    /\ NoFile \notin Chunk \cup {Torn}
    /\ NoFile \notin Seq(Chunk \cup {Torn})

Seqs == 0 .. MaxChunks - 1

OpenMsg  == [kind : {"OPEN"}, xid : Xids, n : 0 .. MaxChunks, sha : Blobs]
StatMsg  == [kind : {"STAT"}, xid : Xids]
DataMsg  == [kind : {"DATA"}, xid : Xids, seq : Seqs, b64 : Chunk]
CloseMsg == [kind : {"CLOSE"}, xid : Xids]
ToDevice == OpenMsg \cup StatMsg \cup DataMsg \cup CloseMsg

ReadyMsg == [kind : {"READY"}]
HaveMsg  == [kind : {"HAVE"}, xid : Xids, hw : 0 .. MaxChunks]
AckMsg   == [kind : {"ACK", "NAK"}, xid : Xids, seq : Seqs]
DoneMsg  == [kind : {"DONE"}, xid : Xids, ok : BOOLEAN, sha : Blobs \cup {NoFile}]
ToHost   == ReadyMsg \cup HaveMsg \cup AckMsg \cup DoneMsg

Open(x, b)   == [kind |-> "OPEN", xid |-> x, n |-> Len(b), sha |-> b]
Stat(x)      == [kind |-> "STAT", xid |-> x]
Data(x, b, s) == [kind |-> "DATA", xid |-> x, seq |-> s, b64 |-> b[s + 1]]
Close(x)     == [kind |-> "CLOSE", xid |-> x]

Ready        == [kind |-> "READY"]
Have(x, hw)  == [kind |-> "HAVE", xid |-> x, hw |-> hw]
Ack(x, s)    == [kind |-> "ACK", xid |-> x, seq |-> s]
Nak(x, s)    == [kind |-> "NAK", xid |-> x, seq |-> s]
DoneOk(x, b) == [kind |-> "DONE", xid |-> x, ok |-> TRUE, sha |-> b]
DoneFail(x)  == [kind |-> "DONE", xid |-> x, ok |-> FALSE, sha |-> NoFile]

VARIABLES
    toDev,      \* frames on their way to the device
    toHost      \* frames on their way to the host

line == <<toDev, toHost>>

LineTypeOK == toDev \in Seq(ToDevice) /\ toHost \in Seq(ToHost)

LineInit == toDev = <<>> /\ toHost = <<>>

\* A frame put on a full line overruns the receiver's buffer and is lost.
Put(l, m, cap) == IF Len(l) < cap THEN Append(l, m) ELSE l

\* The next frame in one direction is garbled, merged or dropped.
LoseToDev  == toDev # <<>> /\ toDev' = Tail(toDev) /\ UNCHANGED toHost
LoseToHost == toHost # <<>> /\ toHost' = Tail(toHost) /\ UNCHANGED toDev
=============================================================================
