--------------------------- MODULE TransferProofs ---------------------------
(***************************************************************************)
(* Theorems about Transfer, for every number of transfers, blobs, chunks,  *)
(* retries, reboots and faults.                                            *)
(***************************************************************************)
EXTENDS Transfer, SendBlobProofs
-----------------------------------------------------------------------------
\* The type invariant, with what makes it inductive.
Typed == TypeOK /\ InRange

LEMMA TypedInit == Init => Typed
  <1> SUFFICES ASSUME Init PROVE Typed
    OBVIOUS
  <1>1. LineTypeOK
    BY EmptySeq DEF Init, LineInit, LineTypeOK
  <1>2. NoDir \in Dir
    BY EmptySeq, WireAssumption DEF NoDir, Dir
  <1>3. AgentTypeOK
    BY <1>2, AgentAssumption DEF Init, AgentInit, AgentTypeOK
  <1>4. HostTypeOK
    BY EmptySeq, HostAssumption, WireAssumption DEF Init, HostInit, HostTypeOK, Verdicts
  <1>5. InRange
    BY DEF Init, HostInit, InRange
  <1>6. QED
    BY <1>1, <1>3, <1>4, <1>5 DEF Typed, TypeOK

LEMMA HostTyped ==
    ASSUME Typed, HostStep
    PROVE  LineTypeOK' /\ HostTypeOK' /\ InRange'
  <1>1. CallSound /\ toDev \in Seq(ToDevice) /\ toHost \in Seq(ToHost) /\ inbox \in Seq(ToHost)
    BY DEF Typed, TypeOK, LineTypeOK, HostTypeOK, CallSound
  <1>2. Sensible(ToHost)
    BY ReplyKinds DEF Sensible
  <1>3. CallSound' /\ toDev' \in Seq(ToDevice) /\ toHost' \in Seq(ToHost) /\ inbox' \in Seq(ToHost)
    BY <1>1, <1>2, HostKeeps
  <1>4. QED
    BY <1>3 DEF LineTypeOK, HostTypeOK, CallSound
-----------------------------------------------------------------------------
\* Files written by the agent.
LEMMA WithChunk ==
    ASSUME NEW d \in Dir, NEW s \in Seqs, NEW v \in Chunk \cup {Torn}
    PROVE  [d EXCEPT !.c = [@ EXCEPT ![s] = v]] \in Dir
  BY DEF Dir

LEMMA WriteChunkTyped ==
    ASSUME AgentTypeOK, Frame.xid \in Xids, Frame.seq \in Seqs,
           NEW v \in Chunk \cup {Torn}, WriteChunk(v)
    PROVE  disk' \in [Xids -> Dir]
  <1>1. disk[Frame.xid] \in Dir
    BY DEF AgentTypeOK
  <1>2. [disk[Frame.xid] EXCEPT !.c = [@ EXCEPT ![Frame.seq] = v]] \in Dir
    BY <1>1, WithChunk
  <1>3. disk' = [disk EXCEPT ![Frame.xid] =
                   [disk[Frame.xid] EXCEPT !.c = [@ EXCEPT ![Frame.seq] = v]]]
    BY DEF WriteChunk, AgentTypeOK
  <1>4. QED
    BY <1>2, <1>3 DEF AgentTypeOK

LEMMA WithMeta ==
    ASSUME NEW d \in Dir, NEW n \in 0 .. MaxChunks, NEW h \in Blobs \cup {NoFile}
    PROVE  [d EXCEPT !.made = TRUE, !.n = n, !.sha = h] \in Dir
  BY DEF Dir

LEMMA WithOut ==
    ASSUME NEW d \in Dir, NEW o \in Seq(Chunk \cup {Torn})
    PROVE  [d EXCEPT !.out = o] \in Dir
  BY DEF Dir

LEMMA CatType ==
    ASSUME NEW d \in Dir, NEW k \in 0 .. MaxChunks, \A s \in 0 .. k - 1 : d.c[s] # NoFile
    PROVE  Cat(d.c, k) \in Seq(Chunk \cup {Torn})
  <1>1. \A i \in 1 .. k : i - 1 \in Seqs /\ i - 1 \in 0 .. k - 1
    BY WireAssumption DEF Seqs
  <1>2. \A i \in 1 .. k : d.c[i - 1] \in Chunk \cup {Torn}
    BY <1>1 DEF Dir
  <1>3. k \in Nat
    BY WireAssumption
  <1>4. Cat(d.c, k) \in [1 .. k -> Chunk \cup {Torn}]
    BY <1>2 DEF Cat
  <1>5. QED
    BY <1>3, <1>4, SeqDef

LEMMA ReadsTyped ==
    ASSUME TypeOK, NEW kind, Reads(kind)
    PROVE  /\ toDev' \in Seq(ToDevice)
           /\ Frame \in ToDevice /\ Frame.kind = kind /\ Frame.xid \in Xids
           /\ dir \in Dir /\ dir.n \in 0 .. MaxChunks /\ dir.sha \in Blobs \cup {NoFile}
  <1>1. toDev \in Seq(ToDevice) /\ toDev # <<>>
    BY DEF TypeOK, LineTypeOK, Reads
  <1>2. Frame \in ToDevice /\ toDev' \in Seq(ToDevice) /\ Frame.kind = kind
    BY <1>1, TailType DEF Reads, Frame
  <1>3. Frame.xid \in Xids
    BY <1>2, FrameKinds
  <1>4. dir \in Dir
    BY <1>3 DEF dir, TypeOK, AgentTypeOK
  <1>5. QED
    BY <1>2, <1>3, <1>4 DEF Dir

LEMMA ReplyTyped ==
    ASSUME LineTypeOK, NEW m \in ToHost, Reply(m)
    PROVE  toHost' \in Seq(ToHost)
  BY PutType DEF LineTypeOK, Reply

LEMMA WriteOutTyped ==
    ASSUME AgentTypeOK, Frame.xid \in Xids, NEW k \in 0 .. MaxChunks,
           \A s \in 0 .. k - 1 : dir.c[s] # NoFile, WriteOut(Cat(dir.c, k))
    PROVE  disk' \in [Xids -> Dir] /\ rebuilt' \in [Xids -> SUBSET Blobs]
  <1>1. dir \in Dir
    BY DEF dir, AgentTypeOK
  <1>2. [disk[Frame.xid] EXCEPT !.out = Cat(dir.c, k)] \in Dir
    BY <1>1, CatType, WithOut DEF dir
  <1>3. disk' \in [Xids -> Dir]
    BY <1>2 DEF WriteOut, AgentTypeOK
  <1>4. QED
    BY <1>3 DEF WriteOut, AgentTypeOK

LEMMA DeviceTyped ==
    ASSUME TypeOK, AgentHandles \/ AgentBoot \/ AgentFails
    PROVE  LineTypeOK' /\ AgentTypeOK'
  <1> USE DEF TypeOK
  <1>0. toDev \in Seq(ToDevice) /\ toHost \in Seq(ToHost)
    BY DEF LineTypeOK
  <1>1. CASE AgentOpen
    <2>1. Frame.n \in 0 .. MaxChunks /\ Frame.sha \in Blobs
      BY <1>1, ReadsTyped, FrameKinds DEF AgentOpen
    <2>2. disk' \in [Xids -> Dir]
      BY <1>1, <2>1, ReadsTyped, WithMeta DEF AgentOpen, AgentTypeOK, dir
    <2>3. QED
      BY <1>0, <1>1, <2>2, ReadsTyped DEF AgentOpen, LineTypeOK, AgentTypeOK
  <1>2. CASE AgentStat
    <2>1. PICK hw \in 0 .. MaxChunks : Reply(Have(Frame.xid, hw))
      BY <1>2 DEF AgentStat
    <2>2. toHost' \in Seq(ToHost)
      BY <1>2, <2>1, ReadsTyped, Replies, ReplyTyped DEF AgentStat
    <2>3. QED
      BY <1>2, <2>2, ReadsTyped DEF AgentStat, agentVars, LineTypeOK, AgentTypeOK
  <1>3. CASE AgentData
    <2>1. Frame.seq \in Seqs /\ Frame.b64 \in Chunk
      BY <1>3, ReadsTyped, FrameKinds DEF AgentData
    <2>2. toHost' \in Seq(ToHost)
      BY <1>3, <2>1, ReadsTyped, Replies, ReplyTyped DEF AgentData
    <2>3. disk' \in [Xids -> Dir]
      BY <1>3, <2>1, ReadsTyped, WriteChunkTyped DEF AgentData, AgentTypeOK
    <2>4. QED
      BY <1>3, <2>2, <2>3, ReadsTyped DEF AgentData, LineTypeOK, AgentTypeOK
  <1>4. CASE AgentClose
    <2>1. PICK k \in 0 .. dir.n :
             /\ Contiguous(dir.c, k, dir.n)
             /\ WriteOut(Cat(dir.c, k))
             /\ Reply(IF k = dir.n /\ Cat(dir.c, k) = dir.sha
                      THEN DoneOk(Frame.xid, dir.sha) ELSE DoneFail(Frame.xid))
      BY <1>4 DEF AgentClose
    <2>2. /\ Frame.xid \in Xids /\ k \in 0 .. MaxChunks
          /\ \A s \in 0 .. k - 1 : dir.c[s] # NoFile
      BY <1>4, <2>1, ReadsTyped, WireAssumption DEF AgentClose, Contiguous
    <2>3. Cat(dir.c, k) = dir.sha => dir.sha \in Blobs
      <3>1. SUFFICES ASSUME Cat(dir.c, k) = NoFile PROVE FALSE
        BY <1>4, ReadsTyped DEF AgentClose
      <3>2. Cat(dir.c, k) \in Seq(Chunk \cup {Torn})
        BY <1>4, <2>2, ReadsTyped, CatType DEF AgentClose
      <3>3. QED
        BY <3>1, <3>2, WireAssumption
    <2>4. toHost' \in Seq(ToHost)
      BY <2>1, <2>2, <2>3, Replies, ReplyTyped
    <2>5. disk' \in [Xids -> Dir] /\ rebuilt' \in [Xids -> SUBSET Blobs]
      BY <2>1, <2>2, WriteOutTyped
    <2>6. QED
      BY <1>4, <2>4, <2>5, ReadsTyped DEF AgentClose, LineTypeOK, AgentTypeOK
  <1>5. CASE AgentCloseUnopened
    BY <1>0, <1>5, ReadsTyped DEF AgentCloseUnopened, LineTypeOK, AgentTypeOK
  <1>6. CASE AgentBoot
    <2>1. toHost' \in Seq(ToHost)
      BY <1>0, <1>6, PutType DEF AgentBoot, Reply, Ready, ToHost, ReadyMsg
    <2>2. QED
      BY <1>0, <1>6, <2>1 DEF AgentBoot, LineTypeOK, AgentTypeOK
  <1>7. CASE Reboot
    <2>1. NoDir \in Dir
      BY EmptySeq, WireAssumption DEF NoDir, Dir
    <2>2. disk' \in [Xids -> Dir]
      BY <1>7, <2>1 DEF Reboot, AgentTypeOK
    <2>3. reboots' \in 0 .. MaxReboots
      BY <1>7, AgentAssumption DEF Reboot, AgentTypeOK
    <2>4. QED
      BY <1>0, <1>7, <2>2, <2>3 DEF Reboot, line, LineTypeOK, AgentTypeOK
  <1>8. Fault => faults' \in 0 .. MaxFaults
    BY AgentAssumption DEF Fault, AgentTypeOK
  <1>9. CASE DataWriteFails
    <2>1. Frame.seq \in Seqs
      BY <1>9, ReadsTyped, FrameKinds DEF DataWriteFails
    <2>2. toHost' \in Seq(ToHost)
      BY <1>9, <2>1, ReadsTyped, Replies, ReplyTyped DEF DataWriteFails
    <2>3. disk' \in [Xids -> Dir]
      BY <1>9, <2>1, ReadsTyped, WriteChunkTyped DEF DataWriteFails, AgentTypeOK
    <2>4. QED
      BY <1>8, <1>9, <2>2, <2>3, ReadsTyped DEF DataWriteFails, LineTypeOK, AgentTypeOK
  <1>10. CASE CrashInData
    <2>1. Frame.seq \in Seqs
      BY <1>10, ReadsTyped, FrameKinds DEF CrashInData
    <2>2. PICK content \in {Torn, Frame.b64} : WriteChunk(content)
      BY <1>10 DEF CrashInData
    <2>3. content \in Chunk \cup {Torn}
      BY <1>10, ReadsTyped, FrameKinds DEF CrashInData
    <2>4. disk' \in [Xids -> Dir]
      BY <1>10, <2>1, <2>2, <2>3, ReadsTyped, WriteChunkTyped DEF CrashInData, AgentTypeOK
    <2>5. QED
      BY <1>0, <1>8, <1>10, <2>4, ReadsTyped DEF CrashInData, Dies, LineTypeOK, AgentTypeOK
  <1>11. CASE CrashInOpen
    <2>1. Frame.n \in 0 .. MaxChunks /\ 0 \in 0 .. MaxChunks
      BY <1>11, ReadsTyped, FrameKinds, WireAssumption DEF CrashInOpen
    <2>2. PICK p \in {<<0, dir.sha>>, <<Frame.n, dir.sha>>, <<Frame.n, NoFile>>} :
             disk' = [disk EXCEPT ![Frame.xid] =
                        [@ EXCEPT !.made = TRUE, !.n = p[1], !.sha = p[2]]]
      BY <1>11 DEF CrashInOpen
    <2>3. p[1] \in 0 .. MaxChunks /\ p[2] \in Blobs \cup {NoFile}
      BY <1>11, <2>1, ReadsTyped DEF CrashInOpen
    <2>4. disk' \in [Xids -> Dir]
      BY <1>11, <2>2, <2>3, ReadsTyped, WithMeta DEF CrashInOpen, AgentTypeOK, dir
    <2>5. QED
      BY <1>0, <1>8, <1>11, <2>4, ReadsTyped DEF CrashInOpen, Dies, LineTypeOK, AgentTypeOK
  <1>12. CASE CrashInClose
    <2>1. PICK k \in 0 .. dir.n :
             (\A s \in 0 .. k - 1 : dir.c[s] # NoFile) /\ WriteOut(Cat(dir.c, k))
      BY <1>12 DEF CrashInClose
    <2>2. Frame.xid \in Xids /\ k \in 0 .. MaxChunks
      BY <1>12, <2>1, ReadsTyped, WireAssumption DEF CrashInClose
    <2>3. disk' \in [Xids -> Dir] /\ rebuilt' \in [Xids -> SUBSET Blobs]
      BY <2>1, <2>2, WriteOutTyped
    <2>4. QED
      BY <1>0, <1>8, <1>12, <2>3, ReadsTyped DEF CrashInClose, Dies, LineTypeOK, AgentTypeOK
  <1>13. QED
    BY <1>1, <1>2, <1>3, <1>4, <1>5, <1>6, <1>7, <1>9, <1>10, <1>11, <1>12
    DEF AgentHandles, AgentFails

LEMMA TypedStep == Typed /\ [Next]_vars => Typed'
  <1> SUFFICES ASSUME Typed, [Next]_vars PROVE Typed'
    OBVIOUS
  <1> USE DEF Typed, TypeOK
  <1>1. CASE Host
    BY <1>1, HostTyped DEF Host, agentVars, AgentTypeOK
  <1>2. CASE Device
    BY <1>2, DeviceTyped DEF Device, hostVars, HostTypeOK, InRange
  <1>3. CASE Loss
    BY <1>3, TailType
    DEF Loss, LineLoses, LoseToDev, LoseToHost, agentVars, hostVars,
        LineTypeOK, AgentTypeOK, HostTypeOK, InRange
  <1>4. CASE UNCHANGED vars
    BY <1>4 DEF vars, LineTypeOK, AgentTypeOK, HostTypeOK, InRange
  <1>5. QED
    BY <1>1, <1>2, <1>3, <1>4 DEF Next

\* Every reachable state is well typed, and a chunk being delivered is one of
\* the blob's.
THEOREM TypeCorrect == Spec => []TypeOK
  <1>1. Typed => TypeOK
    BY DEF Typed
  <1>2. QED
    BY <1>1, TypedInit, TypedStep, PTL DEF Spec
-----------------------------------------------------------------------------
\* A DONE that says ok, wherever it is and however late, is about a blob that
\* the device has had in place.
Claims == {m \in ToHost : m.kind = "DONE" /\ m.ok => m.sha \in rebuilt[m.xid]}

Backed ==
    /\ Typed
    /\ toHost \in Seq(Claims)
    /\ inbox \in Seq(Claims)
    /\ DeliveredMeansRebuilt

LEMMA BackedInit == Init => Backed
  BY TypedInit, EmptySeq
  DEF Backed, Init, LineInit, HostInit, DeliveredMeansRebuilt

LEMMA BackedHost == Backed /\ Host => Backed'
  <1> SUFFICES ASSUME Backed, Host PROVE Backed'
    OBVIOUS
  <1>1. Typed' /\ Claims' = Claims
    BY TypedStep DEF Backed, Host, Next, agentVars, Claims
  <1>2. HostStep /\ UNCHANGED rebuilt
    BY DEF Host, agentVars
  <1>3. CallSound /\ toDev \in Seq(ToDevice) /\ Sensible(Claims)
    BY ReplyKinds DEF Backed, Typed, TypeOK, LineTypeOK, HostTypeOK, CallSound, Sensible, Claims
  <1>4. toHost' \in Seq(Claims) /\ inbox' \in Seq(Claims)
    BY <1>2, <1>3, HostKeeps DEF Backed
  <1>5. DeliveredMeansRebuilt'
    <2>1. ASSUME verdict' = "ok" PROVE blob \in rebuilt[xid] /\ UNCHANGED <<xid, blob>>
      <3>1. CASE verdict = "ok"
        BY <1>2, <2>1, <3>1, SuccessIsTold DEF Backed, DeliveredMeansRebuilt
      <3>2. CASE verdict # "ok"
        <4>1. PICK i \in DOMAIN inbox :
                 /\ inbox[i].kind = "DONE" /\ inbox[i].xid = xid
                 /\ inbox[i].ok /\ inbox[i].sha = blob
          BY <1>2, <2>1, <3>2, SuccessIsTold
        <4>2. inbox[i] \in Claims
          BY LenProperties, ElementOfSeq DEF Backed
        <4>3. QED
          BY <1>2, <2>1, <4>1, <4>2, SuccessIsTold DEF Claims
      <3>3. QED
        BY <3>1, <3>2
    <2>2. QED
      BY <1>2, <2>1 DEF DeliveredMeansRebuilt
  <1>6. QED
    BY <1>1, <1>4, <1>5 DEF Backed

\* out is only ever written together with the record of what it holds.
LEMMA RebuiltGrows ==
    ASSUME Typed, Device
    PROVE  \A x \in Xids : rebuilt[x] \subseteq rebuilt'[x]
  BY DEF Typed, TypeOK, AgentTypeOK, Device, AgentHandles, AgentFails, AgentBoot, AgentOpen,
         AgentStat, AgentData, AgentClose, AgentCloseUnopened, Reboot, DataWriteFails,
         CrashInData, CrashInOpen, CrashInClose, WriteOut, agentVars

LEMMA BackedDevice == Backed /\ Device => Backed'
  <1> SUFFICES ASSUME Backed, Device PROVE Backed'
    OBVIOUS
  <1>1. Typed /\ Typed' /\ TypeOK
    BY TypedStep DEF Backed, Next, Typed
  <1>2. \A x \in Xids : rebuilt[x] \subseteq rebuilt'[x]
    BY <1>1, RebuiltGrows
  <1>3. Claims \subseteq Claims'
    <2>1. ASSUME NEW m \in ToHost, m.kind = "DONE"
          PROVE  m.xid \in Xids
      BY <2>1 DEF ToHost, ReadyMsg, HaveMsg, AckMsg, DoneMsg
    <2>2. QED
      BY <1>2, <2>1 DEF Claims
  <1>4. toHost \in Seq(Claims') /\ inbox' \in Seq(Claims')
    BY <1>3, SeqMonotonic DEF Backed, Device, hostVars
  <1>5. \A m \in Claims' : Reply(m) => toHost' \in Seq(Claims')
    BY <1>4, PutType DEF Reply
  <1>6. \A m \in ToHost : m.kind # "DONE" => m \in Claims'
    BY DEF Claims
  <1>7. toHost' \in Seq(Claims')
    <2>1. CASE AgentStat
      <3>1. PICK hw \in 0 .. MaxChunks : Reply(Have(Frame.xid, hw))
        BY <2>1 DEF AgentStat
      <3>2. Have(Frame.xid, hw) \in ToHost /\ Have(Frame.xid, hw).kind # "DONE"
        BY <1>1, <2>1, ReadsTyped, Replies DEF AgentStat, Have
      <3>3. QED
        BY <1>5, <1>6, <3>1, <3>2
    <2>2. CASE AgentData \/ DataWriteFails
      <3>1. Frame.seq \in Seqs /\ Frame.xid \in Xids
        BY <1>1, <2>2, ReadsTyped, FrameKinds DEF AgentData, DataWriteFails
      <3>2. /\ Ack(Frame.xid, Frame.seq) \in Claims'
            /\ Nak(Frame.xid, Frame.seq) \in Claims'
        BY <1>6, <3>1, Replies DEF Ack, Nak
      <3>3. QED
        BY <1>5, <2>2, <3>2 DEF AgentData, DataWriteFails
    <2>3. CASE AgentClose
      <3>1. PICK k \in 0 .. dir.n :
               /\ Contiguous(dir.c, k, dir.n)
               /\ WriteOut(Cat(dir.c, k))
               /\ Reply(IF k = dir.n /\ Cat(dir.c, k) = dir.sha
                        THEN DoneOk(Frame.xid, dir.sha) ELSE DoneFail(Frame.xid))
        BY <2>3 DEF AgentClose
      <3>2. Frame.xid \in Xids /\ DoneFail(Frame.xid) \in Claims'
        BY <1>1, <2>3, ReadsTyped, Replies DEF AgentClose, DoneFail, Claims
      <3>3. ASSUME Cat(dir.c, k) = dir.sha
            PROVE  DoneOk(Frame.xid, dir.sha) \in Claims'
        <4>1. dir.sha \in Blobs
          <5>1. k \in 0 .. MaxChunks /\ \A s \in 0 .. k - 1 : dir.c[s] # NoFile
            BY <1>1, <2>3, <3>1, ReadsTyped, WireAssumption DEF AgentClose, Contiguous
          <5>2. Cat(dir.c, k) \in Seq(Chunk \cup {Torn})
            BY <1>1, <2>3, <5>1, ReadsTyped, CatType DEF AgentClose
          <5>3. QED
            BY <1>1, <2>3, <3>3, <5>2, ReadsTyped, WireAssumption DEF AgentClose
        <4>2. dir.sha \in rebuilt'[Frame.xid]
          BY <1>1, <3>1, <3>2, <3>3, <4>1 DEF WriteOut, TypeOK, AgentTypeOK
        <4>3. DoneOk(Frame.xid, dir.sha) \in ToHost
          BY <3>2, <4>1, Replies
        <4>4. QED
          BY <4>2, <4>3 DEF Claims, DoneOk
      <3>4. QED
        BY <1>5, <3>1, <3>2, <3>3
    <2>4. CASE AgentBoot
      BY <1>5, <1>6, <2>4 DEF AgentBoot, Ready, ToHost, ReadyMsg
    <2>5. CASE UNCHANGED toHost
      BY <1>4, <2>5
    <2>6. QED
      BY <2>1, <2>2, <2>3, <2>4, <2>5
      DEF Device, AgentHandles, AgentFails, AgentOpen, AgentCloseUnopened, Reboot,
          CrashInData, CrashInOpen, CrashInClose, Dies, line
  <1>8. DeliveredMeansRebuilt'
    BY <1>1, <1>2 DEF Backed, DeliveredMeansRebuilt, Device, hostVars, TypeOK, HostTypeOK
  <1>9. QED
    BY <1>1, <1>4, <1>7, <1>8 DEF Backed

LEMMA BackedStep == Backed /\ [Next]_vars => Backed'
  <1> SUFFICES ASSUME Backed, [Next]_vars PROVE Backed'
    OBVIOUS
  <1>1. CASE Host
    BY <1>1, BackedHost
  <1>2. CASE Device
    BY <1>2, BackedDevice
  <1>3. CASE Loss \/ UNCHANGED vars
    <2>1. Claims' = Claims /\ Typed'
      BY <1>3, TypedStep DEF Backed, Loss, LineLoses, agentVars, vars, Claims, Next
    <2>2. QED
      BY <1>3, <2>1, TailType
      DEF Backed, Loss, LineLoses, LoseToDev, LoseToHost, agentVars, hostVars, vars,
          DeliveredMeansRebuilt
  <1>4. QED
    BY <1>1, <1>2, <1>3 DEF Next

\* Ok is reported only for a blob that the device has had in place under that
\* xid, whatever is lost, late, sent again, interrupted or restarted.
THEOREM DeliveryIsSafe == Spec => []DeliveredMeansRebuilt
  <1>1. Backed => DeliveredMeansRebuilt
    BY DEF Backed
  <1>2. QED
    BY <1>1, BackedInit, BackedStep, PTL DEF Spec
-----------------------------------------------------------------------------
LEMMA PromisedHost ==
    ASSUME Backed, Backed', Host
    PROVE  [Promise!Next]_Promise!vars
  <1>1. UNCHANGED rebuilt /\ xid \in Xids /\ blob \in Blobs
    BY DEF Host, agentVars, Backed, Typed, TypeOK, HostTypeOK
  <1>2. ASSUME NEW x \in Xids, NEW b \in Payloads[x], Call(x, b)
        PROVE  Promise!Next
    <2>1. b \in Blobs
      BY HostAssumption
    <2>2. Promise!Begin(x, b)
      BY <1>1, <1>2 DEF Promise!Begin, Call
    <2>3. QED
      BY <2>1, <2>2 DEF Promise!Next
  <1>3. ASSUME NEW i \in DOMAIN inbox, DoneAnswered(i)
        PROVE  Promise!Next
    <2>1. CASE verdict' = "ok"
      <3>1. blob \in rebuilt[xid]
        BY <1>1, <1>3, <2>1 DEF Backed, DeliveredMeansRebuilt, DoneAnswered
      <3>2. Promise!Succeed
        BY <1>1, <1>3, <2>1, <3>1 DEF Promise!Succeed, DoneAnswered, Returns
      <3>3. QED
        BY <3>2 DEF Promise!Next
    <2>2. CASE verdict' # "ok"
      BY <1>1, <1>3, <2>2 DEF Promise!Next, Promise!Fail, DoneAnswered, Returns
    <2>3. QED
      BY <2>1, <2>2
  <1>4. CASE pc' = "idle" /\ verdict' # "ok" /\ UNCHANGED <<xid, blob>>
    BY <1>1, <1>4 DEF Promise!Next, Promise!Fail
  <1>5. CASE /\ pc # "idle" /\ pc' # "idle"
             /\ UNCHANGED <<verdict, xid, blob>>
    BY <1>1, <1>5 DEF Promise!vars
  <1>6. QED
    BY <1>2, <1>3, <1>4, <1>5
    DEF Host, HostStep, Pump, Receives, TimesOut, StatAnswered, ChunkAcked, ChunkNaked,
        StatTimeout, StatGivesUp, ChunkTimeout, DoneTimeout, DoneGivesUp, LinkFails,
        NewProcess, GoOn, TryFails, Returns

LEMMA PromisedDevice ==
    ASSUME Backed, Device
    PROVE  [Promise!Next]_Promise!vars
  <1>1. UNCHANGED <<pc, xid, blob, verdict>> /\ TypeOK
    BY DEF Device, hostVars, Backed, Typed
  <1>2. ASSUME NEW content, WriteOut(content), Frame.xid \in Xids
        PROVE  [Promise!Next]_Promise!vars
    <2>1. CASE content \in Blobs
      <3>1. Promise!Rebuild(Frame.xid, content)
        BY <1>1, <1>2, <2>1 DEF Promise!Rebuild, WriteOut
      <3>2. QED
        BY <1>2, <2>1, <3>1 DEF Promise!Next
    <2>2. CASE content \notin Blobs
      <3>1. UNCHANGED rebuilt
        BY <1>1, <1>2, <2>2 DEF WriteOut, TypeOK, AgentTypeOK
      <3>2. QED
        BY <1>1, <3>1 DEF Promise!vars
    <2>3. QED
      BY <2>1, <2>2
  <1>3. CASE AgentClose \/ CrashInClose
    <2>1. Frame.xid \in Xids
      BY <1>1, <1>3, ReadsTyped DEF AgentClose, CrashInClose
    <2>2. QED
      BY <1>2, <1>3, <2>1 DEF AgentClose, CrashInClose
  <1>4. CASE UNCHANGED rebuilt
    BY <1>1, <1>4 DEF Promise!vars
  <1>5. QED
    BY <1>3, <1>4
    DEF Device, AgentHandles, AgentFails, AgentBoot, AgentOpen, AgentStat, AgentData,
        AgentCloseUnopened, Reboot, DataWriteFails, CrashInData, CrashInOpen, agentVars

\* A transfer does what delivering a blob promises: every step of the host, the
\* device and the line is a step of Delivery or changes nothing it speaks of.
THEOREM TransferDelivers == Spec => DeliversBlobs
  <1>1. Init => Promise!Init
    BY HostAssumption
    DEF Init, AgentInit, HostInit, Promise!Init
  <1>2. Backed /\ Backed' /\ [Next]_vars => [Promise!Next]_Promise!vars
    <2> SUFFICES ASSUME Backed, Backed', [Next]_vars
                 PROVE  [Promise!Next]_Promise!vars
      OBVIOUS
    <2>1. CASE Loss \/ UNCHANGED vars
      BY <2>1 DEF Loss, LineLoses, agentVars, hostVars, vars, Promise!vars
    <2>2. QED
      BY <2>1, PromisedHost, PromisedDevice DEF Next
  <1>3. QED
    BY <1>1, <1>2, BackedInit, BackedStep, PTL DEF Spec, DeliversBlobs, Promise!Spec
-----------------------------------------------------------------------------
\* What a resumed transfer relies on.  A caller makes a new xid for every file
\* it delivers, and a device that keeps its files across a restart has not
\* been interrupted in a write: faults counts those that were.
FreshXids  == \A x \in Xids : \A a, b \in Payloads[x] : a = b
KeepsFiles == Keeps \subseteq {TRUE}

\* Every chunk of the blob of x is on the device.
Complete(x) ==
    \E b \in Payloads[x] : \A s \in 0 .. Len(b) - 1 : disk[x].c[s] = b[s + 1]

\* The frames to the device are those of the blobs the callers deliver, and a
\* CLOSE is sent only when there is nothing left to send.
Genuine == {m \in ToDevice :
    /\ m.kind = "OPEN" => m.sha \in Payloads[m.xid] /\ m.n = Len(m.sha)
    /\ m.kind = "DATA" =>
          \E b \in Payloads[m.xid] : m.seq < Len(b) /\ m.b64 = b[m.seq + 1]
    /\ m.kind = "CLOSE" => Complete(m.xid)}

\* What an answer says stays true however late it is taken.
Truthful == {m \in ToHost :
    /\ m.kind = "HAVE" => \A s \in 0 .. m.hw - 1 : disk[m.xid].c[s] # NoFile
    /\ m.kind = "ACK" => disk[m.xid].c[m.seq] # NoFile
    /\ m.kind = "DONE" => m.ok /\ m.sha \in Payloads[m.xid]}

\* The files of a transfer are those of its blob.
DirSound(x) ==
    /\ disk[x].made => \E b \in Payloads[x] : disk[x].sha = b /\ disk[x].n = Len(b)
    /\ \A s \in Seqs : disk[x].c[s] # NoFile =>
          /\ disk[x].made
          /\ \E b \in Payloads[x] : s < Len(b) /\ disk[x].c[s] = b[s + 1]

\* send_blob closes when it has delivered every chunk, and none beyond.
Progress ==
    /\ pc = "close" => seq >= Len(blob)
    /\ pc \in {"data", "close"} \/ verdict = "stalled" => seq <= Len(blob)

Resumable ==
    /\ blob \in Payloads[xid]
    /\ toDev \in Seq(Genuine)
    /\ toHost \in Seq(Truthful)
    /\ inbox \in Seq(Truthful)
    /\ \A x \in Xids : DirSound(x) /\ rebuilt[x] \subseteq Payloads[x]
    /\ Progress
    /\ PrefixHeld
    /\ NeverMisverified
    /\ RebuiltStays

Undisturbed == Typed /\ (faults = 0 => Resumable)

LEMMA UndisturbedInit == Init => Undisturbed
  <1> SUFFICES ASSUME Init PROVE Resumable
    BY TypedInit DEF Undisturbed
  <1>1. blob \in Payloads[xid] /\ pc = "idle" /\ verdict = "none"
    BY DEF Init, HostInit
  <1>2. toDev \in Seq(Genuine) /\ toHost \in Seq(Truthful) /\ inbox \in Seq(Truthful)
    BY EmptySeq DEF Init, LineInit, HostInit
  <1>3. \A x \in Xids : DirSound(x) /\ rebuilt[x] = {}
    BY DEF Init, AgentInit, NoDir, DirSound
  <1>4. QED
    BY <1>1, <1>2, <1>3 DEF Resumable, Progress, PrefixHeld, NeverMisverified, RebuiltStays

\* Under a fresh xid every chunk file that is there is the blob's.
LEMMA HeldBelow ==
    ASSUME FreshXids, TypeOK, Resumable, NEW k \in Nat, k <= Len(blob),
           \A s \in 0 .. k - 1 : disk[xid].c[s] # NoFile
    PROVE  Held(k)
  <1>1. xid \in Xids /\ blob \in Payloads[xid] /\ Len(blob) \in 0 .. MaxChunks
    BY BlobType DEF TypeOK, HostTypeOK, Resumable
  <1>2. SUFFICES ASSUME NEW s \in 0 .. k - 1 PROVE disk[xid].c[s] = blob[s + 1]
    BY DEF Held
  <1>3. s \in Seqs
    BY <1>1, WireAssumption DEF Seqs
  <1>4. PICK b \in Payloads[xid] : disk[xid].c[s] = b[s + 1]
    BY <1>1, <1>3 DEF Resumable, DirSound
  <1>5. QED
    BY <1>1, <1>4 DEF FreshXids

\* What the host sends next once the chunks below s are on the device.
LEMMA GoOnResumes ==
    ASSUME TypeOK, Resumable, NEW s \in Nat, s <= Len(blob), Held(s), GoOn(s),
           UNCHANGED <<disk, rebuilt>>
    PROVE  /\ toDev' \in Seq(Genuine)
           /\ Progress' /\ PrefixHeld'
           /\ UNCHANGED <<toHost, xid, blob, verdict>>
  <1>1. /\ xid \in Xids /\ blob \in Blobs /\ blob \in Payloads[xid]
        /\ Len(blob) \in 0 .. MaxChunks /\ toDev \in Seq(Genuine)
    BY BlobType DEF TypeOK, HostTypeOK, Resumable
  <1>2. seq' = s /\ UNCHANGED <<toHost, xid, blob, verdict, disk>>
    BY DEF GoOn
  <1>3. Held(seq)'
    BY <1>2 DEF Held
  <1>4. CASE s < Len(blob)
    <2>1. Data(xid, blob, s) \in ToDevice
      BY <1>1, <1>4, HostFrames
    <2>2. Data(xid, blob, s) \in Genuine
      BY <1>1, <1>4, <2>1 DEF Data, Genuine
    <2>3. toDev' \in Seq(Genuine) /\ pc' = "data"
      BY <1>1, <1>4, <2>2, PutType DEF GoOn, Send
    <2>4. QED
      BY <1>1, <1>2, <1>3, <1>4, <2>3 DEF Progress, PrefixHeld
  <1>5. CASE s = Len(blob)
    <2>1. Close(xid) \in ToDevice
      BY <1>1, HostFrames
    <2>2. Complete(xid)
      BY <1>1, <1>5 DEF Held, Complete
    <2>3. Close(xid) \in Genuine
      BY <2>1, <2>2 DEF Close, Genuine
    <2>4. toDev' \in Seq(Genuine) /\ pc' = "close"
      BY <1>1, <1>5, <2>3, PutType DEF GoOn, Send
    <2>5. QED
      BY <1>1, <1>2, <1>3, <1>5, <2>4 DEF Progress, PrefixHeld
  <1>6. QED
    BY <1>1, <1>4, <1>5

LEMMA TryFailsResumes ==
    ASSUME TypeOK, InRange, Resumable, pc = "data", TryFails, UNCHANGED <<disk, rebuilt>>
    PROVE  /\ toDev' \in Seq(Genuine)
           /\ pc' \in {"data", "idle"}
           /\ Progress' /\ PrefixHeld' /\ NeverMisverified'
           /\ UNCHANGED <<toHost, xid, blob>>
  <1> DEFINE reopened == IF (tries + 1) % ReopenEvery = 0
                         THEN Put(toDev, Open(xid, blob), DevCap) ELSE toDev
  <1>1. /\ xid \in Xids /\ blob \in Blobs /\ blob \in Payloads[xid]
        /\ seq \in Nat /\ seq < Len(blob) /\ toDev \in Seq(Genuine)
    BY DEF TypeOK, HostTypeOK, InRange, Resumable
  <1>2. Open(xid, blob) \in Genuine
    <2>1. Open(xid, blob) \in ToDevice
      BY <1>1, HostFrames
    <2>2. QED
      BY <1>1, <2>1 DEF Open, Genuine
  <1>3. Data(xid, blob, seq) \in Genuine
    <2>1. Data(xid, blob, seq) \in ToDevice
      BY <1>1, HostFrames
    <2>2. QED
      BY <1>1, <2>1 DEF Data, Genuine
  <1>4. reopened \in Seq(Genuine)
    BY <1>1, <1>2, PutType
  <1>5. Put(reopened, Data(xid, blob, seq), DevCap) \in Seq(Genuine)
    BY <1>3, <1>4, PutType
  <1>6. toDev' \in Seq(Genuine) /\ pc' \in {"data", "idle"} /\ verdict' \in {verdict, "stalled"}
    BY <1>4, <1>5 DEF TryFails, Returns
  <1>7. UNCHANGED <<toHost, xid, blob, seq, disk>>
    BY DEF TryFails
  <1>8. Held(seq)'
    BY <1>7 DEF Resumable, PrefixHeld, Held
  <1>9. QED
    BY <1>1, <1>6, <1>7, <1>8 DEF Resumable, Progress, PrefixHeld, NeverMisverified

LEMMA ResumableHost ==
    ASSUME FreshXids, Typed, Resumable, Host
    PROVE  Resumable'
  <1> DEFINE Rest == \A x \in Xids : DirSound(x) /\ rebuilt[x] \subseteq Payloads[x]
  <1>1. TypeOK /\ InRange /\ HostStep /\ UNCHANGED <<disk, rebuilt>>
    BY DEF Typed, Host, agentVars
  <1>2. /\ xid \in Xids /\ blob \in Blobs /\ blob \in Payloads[xid]
        /\ Len(blob) \in 0 .. MaxChunks /\ seq \in 0 .. MaxChunks
        /\ toDev \in Seq(Genuine) /\ toHost \in Seq(Truthful) /\ inbox \in Seq(Truthful)
    BY <1>1, BlobType DEF TypeOK, HostTypeOK, Resumable
  <1>3. Rest' /\ RebuiltStays'
    BY <1>1 DEF Resumable, DirSound, RebuiltStays
  <1>4. Genuine' = Genuine /\ Truthful' = Truthful
    BY <1>1 DEF Genuine, Truthful, Complete
  <1>5. SUFFICES /\ blob' \in Payloads[xid']
                 /\ toDev' \in Seq(Genuine)
                 /\ toHost' \in Seq(Truthful)
                 /\ inbox' \in Seq(Truthful)
                 /\ Progress' /\ PrefixHeld' /\ NeverMisverified'
    BY <1>3, <1>4 DEF Resumable
  <1>6. ASSUME UNCHANGED <<xid, blob, seq>>, pc' \in {pc, "idle"}, verdict' # "verify",
               verdict' = "stalled" => verdict = "stalled"
        PROVE  /\ blob' \in Payloads[xid']
               /\ Progress' /\ PrefixHeld' /\ NeverMisverified'
    BY <1>1, <1>2, <1>6 DEF Resumable, Progress, PrefixHeld, Held, NeverMisverified
  <1>7. Stat(xid) \in Genuine
    <2>1. Stat(xid) \in ToDevice
      BY <1>2, HostFrames
    <2>2. QED
      BY <2>1 DEF Stat, Genuine
  <1>8. pc = "close" => Close(xid) \in Genuine
    <2>1. SUFFICES ASSUME pc = "close" PROVE Close(xid) \in Genuine
      OBVIOUS
    <2>2. Complete(xid)
      BY <1>2, <2>1 DEF Resumable, Progress, PrefixHeld, Held, Complete
    <2>3. Close(xid) \in ToDevice
      BY <1>2, HostFrames
    <2>4. QED
      BY <2>2, <2>3 DEF Close, Genuine
  <1>9. ASSUME NEW x \in Xids, NEW b \in Payloads[x], Call(x, b)
        PROVE  /\ toDev' \in Seq(Genuine) /\ blob' \in Payloads[xid']
               /\ pc' = "stat" /\ verdict' = "none"
    <2>1. b \in Blobs
      BY HostAssumption
    <2>2. Open(x, b) \in ToDevice /\ Stat(x) \in ToDevice
      BY <2>1, HostFrames
    <2>3. Open(x, b) \in Genuine
      BY <2>2 DEF Open, Genuine
    <2>4. Stat(x) \in Genuine
      BY <2>2 DEF Stat, Genuine
    <2>5. Put(toDev, Open(x, b), DevCap) \in Seq(Genuine)
      BY <1>2, <2>3, PutType
    <2>6. QED
      BY <1>9, <2>4, <2>5, PutType DEF Call
  <1>10. CASE \E x \in Xids : \E b \in Payloads[x] : Call(x, b)
    BY <1>2, <1>9, <1>10 DEF Call, Progress, PrefixHeld, NeverMisverified
  <1>11. CASE Pump
    <2>1. toHost' \in Seq(Truthful) /\ inbox' \in Seq(Truthful)
      BY <1>2, <1>11, TailType, AppendProperties DEF Pump
    <2>2. QED
      BY <1>2, <1>6, <1>11, <2>1 DEF Pump, Resumable, NeverMisverified
  <1>12. ASSUME NEW i \in DOMAIN inbox, StatAnswered(i)
         PROVE  toDev' \in Seq(Genuine) /\ toHost' = toHost /\ inbox' \in Seq(Truthful)
                /\ Progress' /\ PrefixHeld'
                /\ UNCHANGED <<xid, blob, verdict>>
    <2> DEFINE k == IF inbox[i].hw < Len(blob) THEN inbox[i].hw ELSE Len(blob)
    <2>1. /\ inbox[i] \in Truthful /\ inbox[i] \in ToHost /\ inbox' \in Seq(Truthful)
          /\ inbox[i].kind = "HAVE" /\ inbox[i].xid = xid
      BY <1>2, <1>12, TakesKeeps DEF StatAnswered, Awaited, Truthful
    <2>2. inbox[i].hw \in 0 .. MaxChunks
      BY <2>1, ReplyKinds
    <2>3. k \in Nat /\ k <= Len(blob) /\ k <= inbox[i].hw
      BY <1>2, <2>2, WireAssumption
    <2>4. \A s \in 0 .. inbox[i].hw - 1 : disk[xid].c[s] # NoFile
      BY <2>1 DEF Truthful
    <2>5. GoOn(k)
      BY <1>12 DEF StatAnswered
    <2> HIDE DEF k
    <2>6. \A s \in 0 .. k - 1 : disk[xid].c[s] # NoFile
      BY <2>2, <2>3, <2>4, WireAssumption
    <2>7. Held(k)
      BY <1>1, <2>3, <2>6, HeldBelow
    <2>8. QED
      BY <1>1, <2>1, <2>3, <2>5, <2>7, GoOnResumes
  <1>13. ASSUME NEW i \in DOMAIN inbox, ChunkAcked(i)
         PROVE  toDev' \in Seq(Genuine) /\ toHost' = toHost /\ inbox' \in Seq(Truthful)
                /\ Progress' /\ PrefixHeld'
                /\ UNCHANGED <<xid, blob, verdict>>
    <2>1. /\ inbox[i] \in Truthful /\ inbox' \in Seq(Truthful) /\ pc = "data"
          /\ inbox[i].kind = "ACK" /\ inbox[i].xid = xid /\ inbox[i].seq = seq
      BY <1>2, <1>13, TakesKeeps DEF ChunkAcked, Awaited
    <2>2. disk[xid].c[seq] # NoFile
      BY <2>1 DEF Truthful
    <2>3. Held(seq) /\ seq + 1 \in Nat /\ seq + 1 <= Len(blob)
      BY <1>1, <1>2, <2>1 DEF InRange, Resumable, PrefixHeld
    <2>4. \A s \in 0 .. (seq + 1) - 1 : disk[xid].c[s] # NoFile
      <3>1. SUFFICES ASSUME NEW s \in 0 .. seq - 1 PROVE disk[xid].c[s] # NoFile
        BY <1>2, <2>2
      <3>2. disk[xid].c[s] = blob[s + 1] /\ s + 1 \in 1 .. Len(blob) /\ blob \in Seq(Chunk)
        BY <1>2, <2>3, BlobType DEF Held
      <3>3. blob[s + 1] \in Chunk
        BY <3>2, ElementOfSeq
      <3>4. QED
        BY <3>2, <3>3, WireAssumption
    <2>5. Held(seq + 1)
      BY <1>1, <2>3, <2>4, HeldBelow
    <2>6. QED
      BY <1>1, <1>13, <2>1, <2>3, <2>5, GoOnResumes DEF ChunkAcked
  <1>14. CASE \E i \in DOMAIN inbox : StatAnswered(i) \/ ChunkAcked(i)
    BY <1>2, <1>12, <1>13, <1>14 DEF Resumable, NeverMisverified
  <1>15. CASE StatGivesUp
    <2>1. Held(0)
      BY DEF Held
    <2>2. QED
      BY <1>1, <1>2, <1>15, <2>1, GoOnResumes DEF StatGivesUp, Resumable, NeverMisverified
  <1>16. CASE \E i \in DOMAIN inbox : ChunkNaked(i)
    <2>1. PICK i \in DOMAIN inbox : ChunkNaked(i)
      BY <1>16
    <2>2. inbox' \in Seq(Truthful)
      BY <1>2, <2>1, TakesKeeps DEF ChunkNaked
    <2>3. QED
      BY <1>1, <1>2, <2>1, <2>2, TryFailsResumes DEF ChunkNaked
  <1>17. CASE ChunkTimeout
    BY <1>1, <1>2, <1>17, TryFailsResumes DEF ChunkTimeout
  <1>18. CASE \E i \in DOMAIN inbox : DoneAnswered(i)
    <2>1. PICK i \in DOMAIN inbox : DoneAnswered(i)
      BY <1>18
    <2>2. /\ inbox[i] \in Truthful /\ inbox' \in Seq(Truthful)
          /\ inbox[i].kind = "DONE" /\ inbox[i].xid = xid
      BY <1>2, <2>1, TakesKeeps DEF DoneAnswered, Awaited
    <2>3. inbox[i].ok /\ inbox[i].sha = blob
      BY <1>2, <2>2 DEF Truthful, FreshXids
    <2>4. verdict' = "ok" /\ pc' = "idle" /\ UNCHANGED <<toDev, toHost, xid, blob, seq>>
      BY <2>1, <2>3 DEF DoneAnswered, Returns, line
    <2>5. QED
      BY <1>2, <1>6, <2>2, <2>4
  <1>19. CASE StatTimeout \/ DoneTimeout
    <2>1. toDev' \in Seq(Genuine)
      BY <1>2, <1>7, <1>8, <1>19, PutType DEF StatTimeout, DoneTimeout, Send
    <2>2. QED
      BY <1>2, <1>6, <1>19, <2>1
      DEF StatTimeout, DoneTimeout, Resumable, NeverMisverified
  <1>20. CASE DoneGivesUp \/ LinkFails
    BY <1>2, <1>6, <1>20 DEF DoneGivesUp, LinkFails, Returns, line
  <1>21. CASE NewProcess
    BY <1>2, <1>21, EmptySeq DEF NewProcess, line, Progress, PrefixHeld, NeverMisverified
  <1>22. QED
    BY <1>1, <1>10, <1>11, <1>14, <1>15, <1>16, <1>17, <1>18, <1>19, <1>20, <1>21
    DEF HostStep, Receives, TimesOut

\* No chunk file is removed, and one that is written again gets what it held.
LEMMA ChunksKept ==
    ASSUME FreshXids, KeepsFiles, Typed, Resumable, Device, faults' = faults
    PROVE  \A x \in Xids, s \in Seqs :
              disk[x].c[s] # NoFile => disk'[x].c[s] = disk[x].c[s]
  <1>0. TypeOK /\ disk \in [Xids -> Dir] /\ faults \in Nat
    BY AgentAssumption DEF Typed, TypeOK, AgentTypeOK
  <1>1. CASE AgentOpen
    BY <1>0, <1>1 DEF AgentOpen, Dir
  <1>2. CASE AgentData
    <2>1. CASE dir.made
      <3>1. Frame \in ToDevice /\ Frame \in Genuine /\ Frame.kind = "DATA" /\ Frame.xid \in Xids
        BY <1>0, <1>2, ReadsTyped, TailType DEF AgentData, Reads, Frame, Resumable
      <3>2. PICK b \in Payloads[Frame.xid] :
               Frame.seq < Len(b) /\ Frame.b64 = b[Frame.seq + 1]
        BY <3>1 DEF Genuine
      <3>3. Frame.seq \in Seqs
        BY <3>1, FrameKinds
      <3>4. disk' = [disk EXCEPT ![Frame.xid].c = [@ EXCEPT ![Frame.seq] = Frame.b64]]
        BY <1>2, <2>1 DEF AgentData, WriteChunk
      <3>5. ASSUME disk[Frame.xid].c[Frame.seq] # NoFile
            PROVE  disk[Frame.xid].c[Frame.seq] = Frame.b64
        <4>1. PICK a \in Payloads[Frame.xid] : disk[Frame.xid].c[Frame.seq] = a[Frame.seq + 1]
          BY <3>1, <3>3, <3>5 DEF Resumable, DirSound
        <4>2. a = b
          BY <3>1 DEF FreshXids
        <4>3. QED
          BY <3>2, <4>1, <4>2
      <3>6. QED
        BY <1>0, <3>1, <3>3, <3>4, <3>5 DEF Dir
    <2>2. QED
      BY <1>2, <2>1 DEF AgentData
  <1>3. CASE AgentClose
    BY <1>0, <1>3 DEF AgentClose, WriteOut, Dir
  <1>4. CASE Reboot
    BY <1>4 DEF Reboot, KeepsFiles
  <1>5. CASE UNCHANGED disk
    BY <1>5
  <1>6. ~(DataWriteFails \/ CrashInData \/ CrashInOpen \/ CrashInClose)
    BY <1>0 DEF DataWriteFails, CrashInData, CrashInOpen, CrashInClose, Dies, Fault
  <1>7. QED
    BY <1>1, <1>2, <1>3, <1>4, <1>5, <1>6
    DEF Device, AgentHandles, AgentFails, AgentBoot, AgentStat, AgentCloseUnopened, agentVars

\* A CLOSE finds the whole blob: out is the blob, and the answer says so.
LEMMA CloseRebuilds ==
    ASSUME FreshXids, Typed, Resumable, AgentClose
    PROVE  \E b \in Payloads[Frame.xid] \cap Blobs :
              /\ disk' = [disk EXCEPT ![Frame.xid] = [@ EXCEPT !.out = b]]
              /\ rebuilt' = [rebuilt EXCEPT ![Frame.xid] = @ \cup {b}]
              /\ Reply(DoneOk(Frame.xid, b))
  <1>1. TypeOK /\ Frame.xid \in Xids /\ Frame \in Genuine /\ Frame.kind = "CLOSE" /\ dir \in Dir
    BY ReadsTyped, TailType DEF Typed, AgentClose, Reads, Frame, Resumable
  <1>2. PICK b \in Payloads[Frame.xid] :
           \A s \in 0 .. Len(b) - 1 : disk[Frame.xid].c[s] = b[s + 1]
    BY <1>1 DEF Genuine, Complete
  <1>3. b \in Blobs /\ b \in Seq(Chunk) /\ Len(b) \in 0 .. MaxChunks
    BY <1>1, BlobType, HostAssumption
  <1>4. dir.sha = b /\ dir.n = Len(b)
    BY <1>1 DEF AgentClose, Resumable, DirSound, FreshXids, dir
  <1>5. PICK k \in 0 .. dir.n :
           /\ Contiguous(dir.c, k, dir.n)
           /\ WriteOut(Cat(dir.c, k))
           /\ Reply(IF k = dir.n /\ Cat(dir.c, k) = dir.sha
                    THEN DoneOk(Frame.xid, dir.sha) ELSE DoneFail(Frame.xid))
    BY DEF AgentClose
  <1>6. k \in 0 .. Len(b) /\ Len(b) \in Nat
    BY <1>3, <1>4, <1>5, WireAssumption
  <1>7. \A s \in 0 .. Len(b) - 1 : dir.c[s] = b[s + 1]
    BY <1>2 DEF dir
  <1>8. k = Len(b)
    <2>1. SUFFICES ASSUME k < Len(b) PROVE FALSE
      BY <1>6
    <2>2. dir.c[k] = NoFile /\ dir.c[k] = b[k + 1] /\ k + 1 \in 1 .. Len(b)
      BY <1>4, <1>5, <1>6, <1>7, <2>1 DEF Contiguous
    <2>3. b[k + 1] \in Chunk
      BY <1>3, <2>2, ElementOfSeq
    <2>4. QED
      BY <2>2, <2>3, WireAssumption
  <1>9. Cat(dir.c, k) = b
    <2>1. b = [i \in 1 .. Len(b) |-> b[i]]
      BY <1>3
    <2>2. \A i \in 1 .. Len(b) : dir.c[i - 1] = b[i]
      BY <1>6, <1>7
    <2>3. QED
      BY <1>8, <2>1, <2>2 DEF Cat
  <1>10. {b} \cap Blobs = {b}
    BY <1>3
  <1>11. QED
    BY <1>3, <1>4, <1>5, <1>8, <1>9, <1>10 DEF WriteOut

LEMMA DirsStaySound ==
    ASSUME FreshXids, KeepsFiles, Typed, Resumable, Device, faults' = faults
    PROVE  /\ \A x \in Xids : DirSound(x)' /\ rebuilt'[x] \subseteq Payloads[x]
           /\ RebuiltStays'
  <1>0. TypeOK /\ disk \in [Xids -> Dir] /\ faults \in Nat /\ rebuilt \in [Xids -> SUBSET Blobs]
    BY AgentAssumption DEF Typed, TypeOK, AgentTypeOK
  <1>1. /\ \A x \in Xids : DirSound(x) /\ rebuilt[x] \subseteq Payloads[x]
        /\ \A x \in Xids : \A b \in rebuilt[x] : disk[x].out = b
    BY DEF Resumable, RebuiltStays
  <1>2. CASE AgentOpen
    <2>1. Frame.xid \in Xids /\ Frame.sha \in Payloads[Frame.xid] /\ Frame.n = Len(Frame.sha)
      BY <1>0, <1>2, ReadsTyped, TailType DEF AgentOpen, Reads, Frame, Resumable, Genuine
    <2>2. disk' = [disk EXCEPT ![Frame.xid] =
                     [@ EXCEPT !.made = TRUE, !.n = Frame.n, !.sha = Frame.sha]]
      BY <1>2 DEF AgentOpen
    <2>3. UNCHANGED rebuilt
      BY <1>2 DEF AgentOpen
    <2>4. ASSUME NEW x \in Xids
          PROVE  DirSound(x)' /\ disk'[x].out = disk[x].out
      <3>1. /\ disk[x] \in Dir /\ DirSound(x)
            /\ disk'[x].c = disk[x].c /\ disk'[x].out = disk[x].out
            /\ disk[x].made => disk'[x].made
        BY <1>0, <1>1, <2>1, <2>2 DEF Dir
      <3>2. disk'[x].made => \E b \in Payloads[x] : disk'[x].sha = b /\ disk'[x].n = Len(b)
        <4>1. CASE x = Frame.xid
          BY <1>0, <2>1, <2>2, <3>1, <4>1 DEF Dir
        <4>2. CASE x # Frame.xid
          BY <1>0, <2>1, <2>2, <3>1, <4>2 DEF DirSound
        <4>3. QED
          BY <4>1, <4>2
      <3>3. QED
        BY <3>1, <3>2 DEF DirSound
    <2>5. QED
      BY <1>1, <2>3, <2>4 DEF RebuiltStays
  <1>3. CASE AgentData
    <2>1. CASE dir.made
      <3>1. Frame.kind = "DATA" /\ Frame.xid \in Xids /\ Frame \in Genuine /\ Frame \in ToDevice
        BY <1>0, <1>3, ReadsTyped, TailType DEF AgentData, Reads, Frame, Resumable
      <3>2. PICK b \in Payloads[Frame.xid] :
               Frame.seq < Len(b) /\ Frame.b64 = b[Frame.seq + 1]
        BY <3>1 DEF Genuine
      <3>3. Frame.seq \in Seqs
        BY <3>1, FrameKinds
      <3>4. disk' = [disk EXCEPT ![Frame.xid].c = [@ EXCEPT ![Frame.seq] = Frame.b64]]
        BY <1>3, <2>1 DEF AgentData, WriteChunk
      <3>5. UNCHANGED rebuilt /\ disk[Frame.xid].made
        BY <1>3, <2>1 DEF AgentData, dir
      <3>6. ASSUME NEW x \in Xids
            PROVE  /\ DirSound(x)'
                   /\ disk'[x].out = disk[x].out
        BY <1>0, <1>1, <3>1, <3>2, <3>3, <3>4, <3>5 DEF Dir, DirSound
      <3>7. QED
        BY <1>1, <3>5, <3>6 DEF RebuiltStays
    <2>2. QED
      BY <1>1, <1>3, <2>1 DEF AgentData, DirSound, RebuiltStays
  <1>4. CASE AgentClose
    <2>1. PICK b \in Payloads[Frame.xid] \cap Blobs :
             /\ disk' = [disk EXCEPT ![Frame.xid] = [@ EXCEPT !.out = b]]
             /\ rebuilt' = [rebuilt EXCEPT ![Frame.xid] = @ \cup {b}]
      BY <1>4, CloseRebuilds
    <2>2. Frame.xid \in Xids
      BY <1>0, <1>4, ReadsTyped DEF AgentClose
    <2>3. ASSUME NEW x \in Xids
          PROVE  DirSound(x)' /\ rebuilt'[x] \subseteq Payloads[x]
      BY <1>0, <1>1, <2>1, <2>2 DEF Dir, DirSound
    <2>4. ASSUME NEW x \in Xids, NEW a \in rebuilt'[x]
          PROVE  disk'[x].out = a
      BY <1>0, <1>1, <2>1, <2>2, <2>4 DEF Dir, FreshXids
    <2>5. QED
      BY <2>3, <2>4 DEF RebuiltStays
  <1>5. CASE Reboot
    <2>1. UNCHANGED <<disk, rebuilt>>
      BY <1>5 DEF Reboot, KeepsFiles
    <2>2. QED
      BY <1>1, <2>1 DEF DirSound, RebuiltStays
  <1>6. CASE UNCHANGED <<disk, rebuilt>>
    BY <1>1, <1>6 DEF DirSound, RebuiltStays
  <1>7. ~(DataWriteFails \/ CrashInData \/ CrashInOpen \/ CrashInClose)
    BY <1>0 DEF DataWriteFails, CrashInData, CrashInOpen, CrashInClose, Dies, Fault
  <1>8. QED
    BY <1>2, <1>3, <1>4, <1>5, <1>6, <1>7
    DEF Device, AgentHandles, AgentFails, AgentBoot, AgentStat, AgentCloseUnopened, agentVars

LEMMA ResumableDevice ==
    ASSUME FreshXids, KeepsFiles, Typed, Resumable, Device, faults' = faults
    PROVE  Resumable'
  <1>0. TypeOK /\ disk \in [Xids -> Dir] /\ faults \in Nat /\ xid \in Xids /\ blob \in Blobs
        /\ Len(blob) \in 0 .. MaxChunks /\ seq \in 0 .. MaxChunks
    BY AgentAssumption, BlobType DEF Typed, TypeOK, AgentTypeOK, HostTypeOK
  <1>1. UNCHANGED <<pc, xid, blob, seq, verdict, inbox>>
    BY DEF Device, hostVars
  <1>2. ASSUME NEW x \in Xids, NEW s \in Seqs, disk[x].c[s] # NoFile
        PROVE  disk'[x].c[s] = disk[x].c[s]
    BY <1>2, ChunksKept
  <1>3. ASSUME NEW x \in Xids, Complete(x) PROVE Complete(x)'
    <2>1. PICK b \in Payloads[x] : \A s \in 0 .. Len(b) - 1 : disk[x].c[s] = b[s + 1]
      BY <1>3 DEF Complete
    <2>2. b \in Blobs /\ b \in Seq(Chunk) /\ Len(b) \in 0 .. MaxChunks
      BY HostAssumption, BlobType
    <2>3. ASSUME NEW s \in 0 .. Len(b) - 1 PROVE disk'[x].c[s] = b[s + 1]
      <3>1. s \in Seqs /\ s + 1 \in 1 .. Len(b)
        BY <2>2, WireAssumption DEF Seqs
      <3>2. b[s + 1] # NoFile
        BY <2>2, <3>1, ElementOfSeq, WireAssumption
      <3>3. QED
        BY <1>2, <2>1, <3>1, <3>2
    <2>4. QED
      BY <2>3 DEF Complete
  <1>4. Genuine \subseteq Genuine'
    BY <1>3, FrameKinds DEF Genuine
  <1>5. Truthful \subseteq Truthful'
    <2>1. SUFFICES ASSUME NEW m \in Truthful PROVE m \in Truthful'
      OBVIOUS
    <2>2. m \in ToHost
      BY DEF Truthful
    <2>3. ASSUME m.kind = "HAVE" PROVE \A s \in 0 .. m.hw - 1 : disk'[m.xid].c[s] # NoFile
      <3>1. m.xid \in Xids /\ m.hw \in 0 .. MaxChunks
        BY <2>2, <2>3 DEF ToHost, ReadyMsg, HaveMsg, AckMsg, DoneMsg
      <3>2. \A s \in 0 .. m.hw - 1 : s \in Seqs /\ disk[m.xid].c[s] # NoFile
        BY <2>3, <3>1, WireAssumption DEF Truthful, Seqs
      <3>3. QED
        BY <1>2, <3>1, <3>2
    <2>4. ASSUME m.kind = "ACK" PROVE disk'[m.xid].c[m.seq] # NoFile
      <3>1. m.xid \in Xids /\ m.seq \in Seqs
        BY <2>2, <2>4 DEF ToHost, ReadyMsg, HaveMsg, AckMsg, DoneMsg
      <3>2. disk[m.xid].c[m.seq] # NoFile
        BY <2>4 DEF Truthful
      <3>3. QED
        BY <1>2, <3>1, <3>2
    <2>5. QED
      BY <2>2, <2>3, <2>4 DEF Truthful
  <1>6. toDev' \in Seq(Genuine')
    <2>1. toDev \in Seq(Genuine')
      BY <1>4, SeqMonotonic DEF Resumable
    <2>2. toDev' \in {toDev, <<>>} \/ (toDev # <<>> /\ toDev' = Tail(toDev))
      BY DEF Device, AgentHandles, AgentFails, AgentBoot, AgentOpen, AgentStat, AgentData,
             AgentClose, AgentCloseUnopened, Reboot, DataWriteFails, CrashInData, CrashInOpen,
             CrashInClose, Reads, line
    <2>3. QED
      BY <2>1, <2>2, TailType, EmptySeq
  <1>7. toHost \in Seq(Truthful') /\ inbox' \in Seq(Truthful')
    BY <1>1, <1>5, SeqMonotonic DEF Resumable
  <1>8. \A m \in Truthful' : Reply(m) => toHost' \in Seq(Truthful')
    BY <1>7, PutType DEF Reply
  <1>9. toHost' \in Seq(Truthful')
    <2>1. CASE AgentStat
      <3>1. PICK hw \in 0 .. MaxChunks :
               Contiguous(dir.c, hw, MaxChunks) /\ Reply(Have(Frame.xid, hw))
        BY <2>1 DEF AgentStat
      <3>2. Frame.xid \in Xids /\ Have(Frame.xid, hw) \in ToHost
        BY <1>0, <2>1, ReadsTyped, Replies DEF AgentStat
      <3>3. \A s \in 0 .. hw - 1 : s \in Seqs /\ disk[Frame.xid].c[s] # NoFile
        BY <3>1, WireAssumption DEF Contiguous, dir, Seqs
      <3>4. Have(Frame.xid, hw) \in Truthful'
        BY <1>2, <3>2, <3>3 DEF Have, Truthful
      <3>5. QED
        BY <1>8, <3>1, <3>4
    <2>2. CASE AgentData
      <3>1. Frame.seq \in Seqs /\ Frame.b64 \in Chunk /\ Frame.xid \in Xids
        BY <1>0, <2>2, ReadsTyped, FrameKinds DEF AgentData
      <3>2. Ack(Frame.xid, Frame.seq) \in ToHost /\ Nak(Frame.xid, Frame.seq) \in ToHost
        BY <3>1, Replies
      <3>3. Nak(Frame.xid, Frame.seq) \in Truthful'
        BY <3>2 DEF Nak, Truthful
      <3>4. CASE dir.made
        <4>1. disk' = [disk EXCEPT ![Frame.xid].c = [@ EXCEPT ![Frame.seq] = Frame.b64]]
          BY <2>2, <3>4 DEF AgentData, WriteChunk
        <4>2. disk'[Frame.xid].c[Frame.seq] # NoFile
          BY <1>0, <3>1, <4>1, WireAssumption DEF Dir
        <4>3. Ack(Frame.xid, Frame.seq) \in Truthful'
          BY <3>2, <4>2 DEF Ack, Truthful
        <4>4. QED
          BY <1>8, <2>2, <3>4, <4>3 DEF AgentData
      <3>5. QED
        BY <1>8, <2>2, <3>3, <3>4 DEF AgentData
    <2>3. CASE AgentClose
      <3>1. PICK b \in Payloads[Frame.xid] \cap Blobs : Reply(DoneOk(Frame.xid, b))
        BY <2>3, CloseRebuilds
      <3>2. DoneOk(Frame.xid, b) \in ToHost
        BY <1>0, <2>3, ReadsTyped, Replies DEF AgentClose
      <3>3. DoneOk(Frame.xid, b) \in Truthful'
        BY <3>2 DEF DoneOk, Truthful
      <3>4. QED
        BY <1>8, <3>1, <3>3
    <2>4. CASE AgentBoot
      <3>1. Ready \in Truthful'
        BY DEF Ready, ToHost, ReadyMsg, Truthful
      <3>2. QED
        BY <1>8, <2>4, <3>1 DEF AgentBoot
    <2>5. CASE Reboot
      BY <1>7, <2>5 DEF Reboot, line
    <2>6. CASE UNCHANGED toHost
      BY <1>7, <2>6
    <2>7. ~(DataWriteFails \/ CrashInData \/ CrashInOpen \/ CrashInClose)
      BY <1>0 DEF DataWriteFails, CrashInData, CrashInOpen, CrashInClose, Dies, Fault
    <2>8. QED
      BY <2>1, <2>2, <2>3, <2>4, <2>5, <2>6, <2>7
      DEF Device, AgentHandles, AgentFails, AgentOpen, AgentCloseUnopened
  <1>10. PrefixHeld'
    <2>1. SUFFICES ASSUME pc \in {"data", "close"} \/ verdict = "stalled",
                          NEW s \in 0 .. seq - 1
                   PROVE  disk'[xid].c[s] = blob[s + 1]
      BY <1>1 DEF PrefixHeld, Held
    <2>2. disk[xid].c[s] = blob[s + 1] /\ s \in Seqs /\ s + 1 \in 1 .. Len(blob)
      BY <1>0, <2>1, WireAssumption DEF Resumable, Progress, PrefixHeld, Held, Seqs
    <2>3. blob[s + 1] # NoFile
      BY <1>0, <2>2, BlobType, ElementOfSeq, WireAssumption
    <2>4. QED
      BY <1>0, <1>2, <2>2, <2>3
  <1>11. Progress'
    BY <1>1 DEF Resumable, Progress
  <1>12. QED
    BY <1>1, <1>6, <1>7, <1>9, <1>10, <1>11, DirsStaySound DEF Resumable, NeverMisverified

LEMMA UndisturbedStep ==
    ASSUME FreshXids, KeepsFiles
    PROVE  Undisturbed /\ [Next]_vars => Undisturbed'
  <1> SUFFICES ASSUME Undisturbed, [Next]_vars PROVE Undisturbed'
    OBVIOUS
  <1>1. Typed /\ Typed'
    BY TypedStep DEF Undisturbed
  <1>2. SUFFICES ASSUME faults' = 0 PROVE Resumable'
    BY <1>1 DEF Undisturbed
  <1>3. CASE Host
    BY <1>1, <1>2, <1>3, ResumableHost DEF Undisturbed, Host, agentVars
  <1>4. CASE Device
    <2>1. faults \in Nat /\ faults' \in {faults, faults + 1}
      BY <1>1, <1>4, AgentAssumption
      DEF Typed, TypeOK, AgentTypeOK, Device, AgentHandles, AgentFails, AgentBoot, AgentOpen,
          AgentStat, AgentData, AgentClose, AgentCloseUnopened, Reboot, DataWriteFails,
          CrashInData, CrashInOpen, CrashInClose, Dies, Fault, agentVars
    <2>2. faults = 0 /\ faults' = faults
      BY <1>2, <2>1
    <2>3. QED
      BY <1>1, <1>4, <2>2, ResumableDevice DEF Undisturbed
  <1>5. CASE Loss \/ UNCHANGED vars
    <2>1. /\ UNCHANGED <<disk, rebuilt, faults, pc, xid, blob, seq, verdict, inbox>>
          /\ toDev' = toDev \/ (toDev # <<>> /\ toDev' = Tail(toDev))
          /\ toHost' = toHost \/ (toHost # <<>> /\ toHost' = Tail(toHost))
      BY <1>5 DEF Loss, LineLoses, LoseToDev, LoseToHost, agentVars, hostVars, vars
    <2>2. Resumable
      BY <1>2, <2>1 DEF Undisturbed
    <2>3. Genuine' = Genuine /\ Truthful' = Truthful
      BY <2>1 DEF Genuine, Truthful, Complete
    <2>4. toDev' \in Seq(Genuine) /\ toHost' \in Seq(Truthful)
      BY <2>1, <2>2, TailType DEF Resumable
    <2>5. QED
      BY <2>1, <2>2, <2>3, <2>4
      DEF Resumable, DirSound, Progress, PrefixHeld, Held, NeverMisverified, RebuiltStays
  <1>6. QED
    BY <1>3, <1>4, <1>5 DEF Next

LEMMA StaysUndisturbed ==
    ASSUME FreshXids, KeepsFiles
    PROVE  Spec => []Undisturbed
  <1>1. Undisturbed /\ [Next]_vars => Undisturbed'
    BY UndisturbedStep
  <1>2. QED
    BY <1>1, UndisturbedInit, PTL DEF Spec

\* As long as no write was interrupted or refused, the chunks that send_blob
\* has moved past, and those below the resume_from of a Stalled error, are on
\* the device, whatever the line lost and however often the device restarted.
THEOREM NothingSkipped ==
    ASSUME FreshXids, KeepsFiles
    PROVE  Spec => [](faults = 0 => PrefixHeld)
  <1>1. Undisturbed => (faults = 0 => PrefixHeld)
    BY DEF Undisturbed, Resumable
  <1>2. QED
    BY <1>1, StaysUndisturbed, PTL

\* Until then, also, a blob once reconstructed stays in place.
THEOREM RebuiltIsFinal ==
    ASSUME FreshXids, KeepsFiles
    PROVE  Spec => [](faults = 0 => RebuiltStays)
  <1>1. Undisturbed => (faults = 0 => RebuiltStays)
    BY DEF Undisturbed, Resumable
  <1>2. QED
    BY <1>1, StaysUndisturbed, PTL

\* Until then, also, no transfer is answered with a failed verification.
THEOREM NoFalseAlarm ==
    ASSUME FreshXids, KeepsFiles
    PROVE  Spec => [](faults = 0 => NeverMisverified)
  <1>1. Undisturbed => (faults = 0 => NeverMisverified)
    BY DEF Undisturbed, Resumable
  <1>2. QED
    BY <1>1, StaysUndisturbed, PTL

\* On a device whose writes are never interrupted no chunk is lost or changed.
THEOREM ResumableTransfer ==
    ASSUME FreshXids, KeepsFiles, MaxFaults = 0
    PROVE  Spec => ChunksPersist
  <1> DEFINE Keep == \A x \in Xids, s \in Seqs :
                        disk[x].c[s] \in Chunk => disk'[x].c[s] = disk[x].c[s]
  <1>1. Undisturbed /\ Undisturbed' /\ [Next]_vars => [Keep]_vars
    <2> SUFFICES ASSUME Undisturbed, Undisturbed', [Next]_vars
                 PROVE  Keep \/ UNCHANGED vars
      OBVIOUS
    <2>1. faults = 0 /\ faults' = 0 /\ Typed /\ Resumable
      BY DEF Undisturbed, Typed, TypeOK, AgentTypeOK
    <2>2. CASE Device
      <3>1. NoFile \notin Chunk
        BY WireAssumption
      <3>2. QED
        BY <2>1, <2>2, <3>1, ChunksKept
    <2>3. CASE Host \/ Loss
      BY <2>3 DEF Host, Loss, LineLoses, agentVars
    <2>4. QED
      BY <2>2, <2>3 DEF Next
  <1>2. QED
    BY <1>1, StaysUndisturbed, PTL DEF Spec, ChunksPersist
=============================================================================
