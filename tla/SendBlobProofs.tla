--------------------------- MODULE SendBlobProofs ---------------------------
(***************************************************************************)
(* Lemmas about SendBlob that hold whatever answers on the device, for     *)
(* every number of transfers, blobs, chunks and retries.  D and H are what *)
(* the two directions of the line carry, the frames of other services      *)
(* included.                                                               *)
(***************************************************************************)
EXTENDS SendBlob, SequenceTheorems, TLAPS

\* What the line and the inbox do to the type of the frames they hold.
LEMMA PutType ==
    ASSUME NEW S, NEW l \in Seq(S), NEW m \in S, NEW cap
    PROVE  Put(l, m, cap) \in Seq(S)
  BY DEF Put

LEMMA TailType ==
    ASSUME NEW S, NEW l \in Seq(S), l # <<>>
    PROVE  Tail(l) \in Seq(S) /\ Head(l) \in S
  BY HeadTailProperties

LEMMA RemoveAtType ==
    ASSUME NEW S, NEW l \in Seq(S), NEW i \in DOMAIN l
    PROVE  RemoveAt(l, i) \in Seq(S)
  <1>1. i \in 1 .. Len(l) /\ Len(l) \in Nat
    BY LenProperties
  <1>2. SubSeq(l, 1, i - 1) \in Seq(S)
    <2>1. \A j \in 1 .. i - 1 : l[j] \in S
      BY <1>1, ElementOfSeq
    <2>2. QED
      BY <1>1, <2>1, SubSeqProperties
  <1>3. SubSeq(l, i + 1, Len(l)) \in Seq(S)
    <2>1. \A j \in i + 1 .. Len(l) : l[j] \in S
      BY <1>1, ElementOfSeq
    <2>2. QED
      BY <1>1, <2>1, SubSeqProperties
  <1>4. QED
    BY <1>2, <1>3, ConcatProperties DEF RemoveAt
-----------------------------------------------------------------------------
\* The frames of either end are well formed.
LEMMA BlobType ==
    ASSUME NEW b \in Blobs
    PROVE  b \in Seq(Chunk) /\ Len(b) \in 0 .. MaxChunks
  BY WireAssumption, LenProperties

LEMMA HostFrames ==
    ASSUME NEW x \in Xids, NEW b \in Blobs
    PROVE  /\ Open(x, b) \in ToDevice
           /\ Stat(x) \in ToDevice
           /\ Close(x) \in ToDevice
           /\ \A s \in Nat : s < Len(b) => Data(x, b, s) \in ToDevice
  <1>1. b \in Seq(Chunk) /\ Len(b) \in 0 .. MaxChunks
    BY BlobType
  <1>2. Open(x, b) \in OpenMsg /\ Stat(x) \in StatMsg /\ Close(x) \in CloseMsg
    BY <1>1 DEF Open, Stat, Close, OpenMsg, StatMsg, CloseMsg
  <1>3. ASSUME NEW s \in Nat, s < Len(b)
        PROVE  Data(x, b, s) \in DataMsg
    <2>1. s + 1 \in 1 .. Len(b) /\ s \in Seqs
      BY <1>1, <1>3, WireAssumption DEF Seqs
    <2>2. b[s + 1] \in Chunk
      BY <1>1, <2>1, ElementOfSeq
    <2>3. QED
      BY <2>1, <2>2 DEF Data, DataMsg
  <1>4. QED
    BY <1>2, <1>3 DEF ToDevice

LEMMA FrameKinds ==
    ASSUME NEW m \in ToDevice
    PROVE  /\ m.xid \in Xids
           /\ m.kind = "OPEN" => m.n \in 0 .. MaxChunks /\ m.sha \in Blobs
           /\ m.kind = "DATA" => m.seq \in Seqs /\ m.b64 \in Chunk
  BY DEF ToDevice, OpenMsg, StatMsg, DataMsg, CloseMsg

LEMMA ReplyKinds ==
    ASSUME NEW m \in ToHost
    PROVE  /\ m.kind = "HAVE" => m.hw \in 0 .. MaxChunks
           /\ m.kind = "DONE" => m.ok \in BOOLEAN /\ m.sha \in Blobs \cup {NoFile}
  BY DEF ToHost, ReadyMsg, HaveMsg, AckMsg, DoneMsg

LEMMA Replies ==
    ASSUME NEW x \in Xids
    PROVE  /\ Ready \in ToHost
           /\ \A hw \in 0 .. MaxChunks : Have(x, hw) \in ToHost
           /\ \A s \in Seqs : Ack(x, s) \in ToHost /\ Nak(x, s) \in ToHost
           /\ \A b \in Blobs : DoneOk(x, b) \in ToHost
           /\ DoneFail(x) \in ToHost
  BY DEF ToHost, ReadyMsg, HaveMsg, AckMsg, DoneMsg, Ready, Have, Ack, Nak, DoneOk, DoneFail
-----------------------------------------------------------------------------
\* While a chunk is being delivered it is one of the blob's: without this a
\* retransmission could read past the end of the blob.
InRange == pc = "data" => seq < Len(blob)

\* The state of a send_blob call.
CallSound ==
    /\ pc \in {"idle", "stat", "data", "close"}
    /\ xid \in Xids
    /\ blob \in Blobs
    /\ seq \in 0 .. MaxChunks
    /\ tries \in Nat
    /\ verdict \in Verdicts
    /\ calls \in 0 .. MaxCalls
    /\ InRange

\* An answer that is counted from names a chunk of some blob.
Sensible(H) == \A m \in H : m.kind = "HAVE" => m.hw \in 0 .. MaxChunks

LEMMA CallInit == HostInit => CallSound /\ inbox = <<>>
  BY HostAssumption, WireAssumption DEF HostInit, CallSound, InRange, Verdicts

\* Going on to the next chunk, or to CLOSE.
LEMMA GoOnKeeps ==
    ASSUME NEW D, ToDevice \subseteq D, toDev \in Seq(D),
           CallSound, NEW s \in 0 .. MaxChunks, GoOn(s)
    PROVE  toDev' \in Seq(D) /\ CallSound'
  <1>0. Len(blob) \in 0 .. MaxChunks /\ xid \in Xids /\ blob \in Blobs
    BY BlobType DEF CallSound
  <1>1. CASE s < Len(blob)
    <2>1. Data(xid, blob, s) \in ToDevice
      BY <1>0, <1>1, HostFrames
    <2>2. toDev' \in Seq(D) /\ pc' = "data"
      BY <1>1, <2>1, PutType DEF GoOn, Send
    <2>3. QED
      BY <1>1, <2>2 DEF GoOn, CallSound, InRange
  <1>2. CASE ~(s < Len(blob))
    <2>1. Close(xid) \in ToDevice
      BY <1>0, HostFrames
    <2>2. toDev' \in Seq(D) /\ pc' = "close"
      BY <1>2, <2>1, PutType DEF GoOn, Send
    <2>3. QED
      BY <2>2 DEF GoOn, CallSound, InRange
  <1>3. QED
    BY <1>1, <1>2

\* A failed try.
LEMMA TryFailsKeeps ==
    ASSUME NEW D, ToDevice \subseteq D, toDev \in Seq(D), CallSound, pc = "data", TryFails
    PROVE  toDev' \in Seq(D) /\ CallSound'
  <1> DEFINE reopened == IF (tries + 1) % ReopenEvery = 0
                         THEN Put(toDev, Open(xid, blob), DevCap) ELSE toDev
  <1>0. /\ xid \in Xids /\ blob \in Blobs
        /\ seq \in Nat /\ seq < Len(blob)
    BY DEF CallSound, InRange
  <1>1. reopened \in Seq(D)
    BY <1>0, HostFrames, PutType
  <1>2. Put(reopened, Data(xid, blob, seq), DevCap) \in Seq(D)
    BY <1>0, <1>1, HostFrames, PutType
  <1>3. /\ toDev' \in Seq(D)
        /\ tries' \in Nat
        /\ pc' \in {"idle", "data"}
        /\ verdict' \in Verdicts
    BY <1>1, <1>2 DEF TryFails, Returns, CallSound, Verdicts
  <1>4. QED
    BY <1>3 DEF TryFails, CallSound, InRange

\* What recv_match returns has been received.
LEMMA TakesKeeps ==
    ASSUME NEW H, inbox \in Seq(H), NEW i \in DOMAIN inbox, Takes(i)
    PROVE  inbox[i] \in H /\ Awaited(inbox[i]) /\ inbox' \in Seq(H)
  BY RemoveAtType, LenProperties, ElementOfSeq DEF Takes

\* Every step of send_blob keeps to its types, and moves frames only from the
\* line to the inbox.
LEMMA HostKeeps ==
    ASSUME NEW D, NEW H, ToDevice \subseteq D, Sensible(H),
           toDev \in Seq(D), toHost \in Seq(H), inbox \in Seq(H), CallSound, HostStep
    PROVE  toDev' \in Seq(D) /\ toHost' \in Seq(H) /\ inbox' \in Seq(H) /\ CallSound'
  <1> DEFINE Kept == toDev' \in Seq(D) /\ toHost' \in Seq(H) /\ inbox' \in Seq(H) /\ CallSound'
  <1>0. xid \in Xids /\ blob \in Blobs /\ Len(blob) \in 0 .. MaxChunks
    BY BlobType DEF CallSound
  <1>1. ASSUME NEW x \in Xids, NEW b \in Payloads[x], Call(x, b) PROVE Kept
    <2>1. b \in Blobs
      BY HostAssumption
    <2>2. toDev' \in Seq(D)
      BY <1>1, <2>1, HostFrames, PutType DEF Call
    <2>3. QED
      BY <1>1, <2>1, <2>2, HostAssumption, WireAssumption DEF Call, CallSound, InRange, Verdicts
  <1>2. CASE Pump
    <2>1. toHost' \in Seq(H) /\ inbox' \in Seq(H)
      BY <1>2, TailType, AppendProperties DEF Pump
    <2>2. QED
      BY <1>2, <2>1 DEF Pump, CallSound, InRange
  <1>3. ASSUME NEW i \in DOMAIN inbox, StatAnswered(i) PROVE Kept
    <2>1. inbox[i].hw \in 0 .. MaxChunks /\ inbox' \in Seq(H)
      BY <1>3, TakesKeeps DEF StatAnswered, Awaited, Sensible
    <2>2. QED
      BY <1>0, <1>3, <2>1, GoOnKeeps DEF StatAnswered, GoOn
  <1>4. ASSUME NEW i \in DOMAIN inbox, ChunkAcked(i) PROVE Kept
    <2>1. inbox' \in Seq(H)
      BY <1>4, TakesKeeps DEF ChunkAcked
    <2>2. seq + 1 \in 0 .. MaxChunks
      BY <1>0, <1>4, WireAssumption DEF ChunkAcked, CallSound, InRange
    <2>3. QED
      BY <1>4, <2>1, <2>2, GoOnKeeps DEF ChunkAcked, GoOn
  <1>5. ASSUME NEW i \in DOMAIN inbox, ChunkNaked(i) PROVE Kept
    BY <1>5, TakesKeeps, TryFailsKeeps DEF ChunkNaked, TryFails
  <1>6. ASSUME NEW i \in DOMAIN inbox, DoneAnswered(i) PROVE Kept
    <2>1. inbox' \in Seq(H)
      BY <1>6, TakesKeeps DEF DoneAnswered
    <2>2. QED
      BY <1>0, <1>6, <2>1 DEF DoneAnswered, Returns, line, CallSound, InRange, Verdicts
  <1>7. CASE StatTimeout
    <2>1. toDev' \in Seq(D)
      BY <1>0, <1>7, HostFrames, PutType DEF StatTimeout, Send
    <2>2. QED
      BY <1>7, <2>1 DEF StatTimeout, CallSound, InRange
  <1>8. CASE StatGivesUp
    BY <1>8, GoOnKeeps, WireAssumption DEF StatGivesUp, GoOn
  <1>9. CASE ChunkTimeout
    BY <1>9, TryFailsKeeps DEF ChunkTimeout, TryFails
  <1>10. CASE DoneTimeout
    <2>1. toDev' \in Seq(D)
      BY <1>0, <1>10, HostFrames, PutType DEF DoneTimeout, Send
    <2>2. QED
      BY <1>10, <2>1 DEF DoneTimeout, CallSound, InRange
  <1>11. CASE DoneGivesUp
    BY <1>11 DEF DoneGivesUp, Returns, line, CallSound, InRange, Verdicts
  <1>12. CASE LinkFails
    BY <1>12 DEF LinkFails, Returns, line, CallSound, InRange, Verdicts
  <1>13. CASE NewProcess
    BY <1>13, EmptySeq, HostAssumption, WireAssumption
    DEF NewProcess, line, CallSound, InRange, Verdicts
  <1>14. QED
    BY <1>1, <1>2, <1>3, <1>4, <1>5, <1>6, <1>7, <1>8, <1>9, <1>10, <1>11, <1>12, <1>13
    DEF HostStep, Receives, TimesOut

\* A success is the answer to it: a DONE with ok and the digest of the blob.
LEMMA SuccessIsTold ==
    ASSUME HostStep, verdict' = "ok"
    PROVE  /\ UNCHANGED <<xid, blob>>
           /\ \/ verdict = "ok" /\ pc' # "idle" /\ pc # "idle"
              \/ /\ pc = "close" /\ pc' = "idle"
                 /\ \E i \in DOMAIN inbox :
                       /\ inbox[i].kind = "DONE" /\ inbox[i].xid = xid
                       /\ inbox[i].ok /\ inbox[i].sha = blob
  <1>1. CASE \E i \in DOMAIN inbox : DoneAnswered(i)
    BY <1>1 DEF DoneAnswered, Takes, Awaited, Returns
  <1>2. CASE ~\E i \in DOMAIN inbox : DoneAnswered(i)
    BY <1>2
    DEF HostStep, Call, Pump, Receives, TimesOut, StatAnswered, ChunkAcked, ChunkNaked,
        StatTimeout, StatGivesUp, ChunkTimeout, DoneTimeout, DoneGivesUp, LinkFails,
        NewProcess, GoOn, TryFails, Returns
  <1>3. QED
    BY <1>1, <1>2
=============================================================================
