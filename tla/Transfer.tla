------------------------------ MODULE Transfer ------------------------------
(***************************************************************************)
(* A resumable transfer: the host's send_blob and the shell agent at the   *)
(* two ends of a console that loses frames.                                *)
(***************************************************************************)
EXTENDS SendBlob, ShellAgent

vars == <<toDev, toHost, disk, up, reboots, faults, rebuilt,
          pc, xid, blob, seq, tries, verdict, inbox, calls>>

Init == LineInit /\ AgentInit /\ HostInit

Host   == HostStep /\ UNCHANGED agentVars
Device == (AgentHandles \/ AgentBoot \/ AgentFails) /\ UNCHANGED hostVars
Loss   == LineLoses /\ UNCHANGED hostVars

Next == Host \/ Device \/ Loss

Spec == Init /\ [][Next]_vars

-----------------------------------------------------------------------------
\* Every variable holds a value of its type.
TypeOK == LineTypeOK /\ AgentTypeOK /\ HostTypeOK

\* send_blob returns Ok only for a blob the device has reconstructed and
\* verified under that very xid: neither a stale DONE nor a retransmission can
\* pass off another blob (transport.rs, "gated on a matching DONE sha256").
DeliveredMeansRebuilt == verdict = "ok" => blob \in rebuilt[xid]

\* The first k chunk files of xid hold the chunks of blob.
Held(k) == \A s \in 0 .. k - 1 : disk[xid].c[s] = blob[s + 1]

\* The chunks send_blob has moved past, those it skipped on a HAVE included,
\* are on the device with the content it is delivering, and so are the ones
\* below the resume_from of a Stalled error.
PrefixHeld == pc \in {"data", "close"} \/ verdict = "stalled" => Held(seq)

\* A blob once reconstructed stays in place: a CLOSE that is sent or handled
\* again, a repeated transfer and the transfers of other xids leave it intact
\* for the commands that apply it.
RebuiltStays == \A x \in Xids : \A b \in rebuilt[x] : disk[x].out = b

\* A transfer never fails verification: frames that are lost, late or
\* answered twice cost retries, and never leave the device with wrong content.
NeverMisverified == verdict # "verify"

\* No step loses or changes a chunk that the device holds: this is what makes
\* a transfer resumable (uartfs-agent.sh, "OPEN does not wipe").
ChunksPersist ==
    [][\A x \in Xids, s \in Seqs :
          disk[x].c[s] \in Chunk => disk'[x].c[s] = disk[x].c[s]]_vars

\* An OPEN of another blob clears the chunks of the old one, so that two
\* payloads are never spliced (uartfs-agent.sh:92-96, transport.rs:224-225).
OpenClearsOtherBlob ==
    [][\A x \in Xids :
          disk[x].sha # NoFile /\ disk'[x].sha # disk[x].sha =>
              \A s \in Seqs : disk'[x].c[s] = NoFile]_vars

\* Every transfer does what delivering a blob promises.
Promise == INSTANCE Delivery WITH calling <- pc # "idle", delivered <- verdict = "ok"
DeliversBlobs == Promise!Spec
-----------------------------------------------------------------------------
\* The host's own steps go on: it polls, and its deadlines pass.
HostFairness == WF_vars((Pump \/ Receives \/ TimesOut) /\ UNCHANGED agentVars)

\* Every call returns, whatever the device and the console do.
CallReturns == pc # "idle" ~> pc = "idle"

HostFairSpec == Spec /\ HostFairness

\* Deadlines long enough for an answer that is on its way to arrive.
PatientTimeout == (line = <<<<>>, <<>>>> \/ ~up) /\ TimesOut

\* A caller that runs a failed delivery again, in a process of its own, once
\* the device has worked off what the last run left on the console.
Rerun == pc = "idle" /\ verdict # "ok" /\ toDev = <<>> /\ NewProcess

Calls == \E x \in Xids : \E b \in Payloads[x] : Call(x, b)

ResumeHost ==
    (Calls \/ Pump \/ Receives \/ PatientTimeout \/ Rerun) /\ UNCHANGED agentVars

ResumeNext == ResumeHost \/ Device \/ Loss

\* The host, the caller and the device keep going; the console loses frames,
\* but not the same kind of frame every time.
ResumeFairness ==
    /\ WF_vars(ResumeHost)
    /\ WF_vars((AgentHandles \/ AgentBoot) /\ UNCHANGED hostVars)
    /\ SF_vars(AgentOpen /\ UNCHANGED hostVars)
    /\ SF_vars(AgentStat /\ UNCHANGED hostVars)
    /\ SF_vars(AgentClose /\ UNCHANGED hostVars)
    /\ SF_vars(Pump /\ Head(toHost).kind = "HAVE" /\ UNCHANGED agentVars)
    /\ SF_vars(Pump /\ Head(toHost).kind = "DONE" /\ UNCHANGED agentVars)
    /\ \A s \in Seqs :
          /\ SF_vars(AgentData /\ Frame.seq = s /\ UNCHANGED hostVars)
          /\ SF_vars(/\ Pump
                     /\ Head(toHost).kind = "ACK"
                     /\ Head(toHost).seq = s
                     /\ UNCHANGED agentVars)

ResumeSpec == Init /\ [][ResumeNext]_vars /\ ResumeFairness

\* A delivery that is run again after every failure succeeds in the end: each
\* run goes on from the chunks the runs before it left on the device.
EventuallyDelivered == <>(verdict = "ok")
=============================================================================
