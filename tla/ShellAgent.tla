----------------------------- MODULE ShellAgent -----------------------------
(***************************************************************************)
(* The device-side agent, crates/uartfs/agent/uartfs-agent.sh: a           *)
(* single-threaded shell loop that handles one frame per iteration and     *)
(* keeps everything it knows in files under $UARTFS_DIR/<xid>/.            *)
(*                                                                         *)
(* A frame is handled in one step: nothing else looks at the files         *)
(* meanwhile.  What may happen in the middle of a frame is that the device *)
(* dies or that the file system refuses a write; those are the write       *)
(* faults, actions of their own, which leave the files as the shell's      *)
(* redirections would: truncated first, then perhaps written.              *)
(***************************************************************************)
EXTENDS UfsWire

CONSTANTS
    MaxReboots, \* bound on the restarts of the device between two frames
    MaxFaults,  \* bound on the writes that are interrupted or refused
    Keeps       \* what a reboot may do to $UARTFS_DIR: {TRUE} it survives,
                \* {FALSE} it is lost (a tmpfs), {TRUE, FALSE} either

ASSUME AgentAssumption ==
    MaxReboots \in Nat /\ MaxFaults \in Nat /\ Keeps \subseteq BOOLEAN

VARIABLES
    disk,       \* the transfer directories
    up,         \* the agent is running
    reboots,    \* restarts so far
    faults,     \* write faults so far
    rebuilt     \* history: the blobs that out has held, per xid

agentVars == <<disk, up, reboots, faults, rebuilt>>

\* $UARTFS_DIR/<xid>: .n (0 when unset, as in ${n:-0}), .sha, c.<seq>, out.
Dir == [made : BOOLEAN, n : 0 .. MaxChunks, sha : Blobs \cup {NoFile},
        c : [Seqs -> Chunk \cup {Torn, NoFile}], out : Seq(Chunk \cup {Torn})]

NoDir == [made |-> FALSE, n |-> 0, sha |-> NoFile,
          c |-> [s \in Seqs |-> NoFile], out |-> <<>>]

AgentTypeOK ==
    /\ disk \in [Xids -> Dir]
    /\ up \in BOOLEAN
    /\ reboots \in 0 .. MaxReboots
    /\ faults \in 0 .. MaxFaults
    /\ rebuilt \in [Xids -> SUBSET Blobs]

AgentInit ==
    /\ disk = [x \in Xids |-> NoDir]
    /\ up = TRUE
    /\ reboots = 0
    /\ faults = 0
    /\ rebuilt = [x \in Xids |-> {}]

\* The agent reads one intact frame of the given kind.
Reads(kind) ==
    /\ up
    /\ toDev # <<>>
    /\ Head(toDev).kind = kind
    /\ toDev' = Tail(toDev)

Frame == Head(toDev)
dir   == disk[Frame.xid]

Reply(m) == toHost' = Put(toHost, m, HostCap)

\* Mutant: a missing chunk file does not end the count.
ContiguousDespiteHoles(c, k, limit) == k = limit

\* k chunk files from c.0 on exist, and no more than k below the limit.
Contiguous(c, k, limit) ==
    /\ \A s \in 0 .. k - 1 : c[s] # NoFile
    /\ k < limit => c[k] = NoFile

\* The first k chunk files, concatenated.
Cat(c, k) == [i \in 1 .. k |-> c[i - 1]]
-----------------------------------------------------------------------------
\* Mutant: OPEN always starts over.
AgentOpenWipes ==
    /\ Reads("OPEN")
    /\ disk' = [disk EXCEPT ![Frame.xid] =
                  [NoDir EXCEPT !.made = TRUE, !.n = Frame.n, !.sha = Frame.sha, !.out = dir.out]]
    /\ UNCHANGED <<toHost, up, reboots, faults, rebuilt>>

\* OPEN writes .n and .sha and keeps the chunk files, also those of another
\* blob: "rm -f $d/c.*" removes nothing, because "set -f" turned globbing off.
AgentOpen ==
    /\ Reads("OPEN")
    /\ disk' = [disk EXCEPT ![Frame.xid] =
                  [@ EXCEPT !.made = TRUE, !.n = Frame.n, !.sha = Frame.sha]]
    /\ UNCHANGED <<toHost, up, reboots, faults, rebuilt>>

AgentStat ==
    /\ Reads("STAT")
    /\ \E hw \in 0 .. MaxChunks :
          Contiguous(dir.c, hw, MaxChunks) /\ Reply(Have(Frame.xid, hw))
    /\ UNCHANGED agentVars

WriteChunk(content) ==
    disk' = [disk EXCEPT ![Frame.xid].c = [@ EXCEPT ![Frame.seq] = content]]

\* The redirection into c.<seq> fails when the directory is not there.
AgentData ==
    /\ Reads("DATA")
    /\ IF dir.made
       THEN WriteChunk(Frame.b64) /\ Reply(Ack(Frame.xid, Frame.seq))
       ELSE Reply(Nak(Frame.xid, Frame.seq)) /\ UNCHANGED disk
    /\ UNCHANGED <<up, reboots, faults, rebuilt>>

\* out is written, and rebuilt remembers a blob it then holds.
WriteOut(content) ==
    /\ disk' = [disk EXCEPT ![Frame.xid] = [@ EXCEPT !.out = content]]
    /\ rebuilt' = [rebuilt EXCEPT ![Frame.xid] = @ \cup ({content} \cap Blobs)]

\* Mutant: all chunks being there is enough, the digest is not compared.
AgentCloseUnchecked ==
    /\ Reads("CLOSE")
    /\ dir.made
    /\ \E k \in 0 .. dir.n :
          /\ Contiguous(dir.c, k, dir.n)
          /\ WriteOut(Cat(dir.c, k))
          /\ Reply(IF k = dir.n /\ dir.sha # NoFile
                   THEN DoneOk(Frame.xid, dir.sha) ELSE DoneFail(Frame.xid))
    /\ UNCHANGED <<up, reboots, faults>>

\* CLOSE concatenates c.0 .. c.<n-1> up to the first one missing into out and
\* compares its digest with .sha.
AgentClose ==
    /\ Reads("CLOSE")
    /\ dir.made
    /\ \E k \in 0 .. dir.n :
          /\ Contiguous(dir.c, k, dir.n)
          /\ WriteOut(Cat(dir.c, k))
          /\ Reply(IF k = dir.n /\ Cat(dir.c, k) = dir.sha
                   THEN DoneOk(Frame.xid, dir.sha) ELSE DoneFail(Frame.xid))
    /\ UNCHANGED <<up, reboots, faults>>

\* Without the directory ": > $d/out" fails.  A failing redirection of a
\* special built-in ends a POSIX shell (dash); another shell goes on and sends
\* a DONE without a digest, which the host does not parse.
AgentCloseUnopened ==
    /\ Reads("CLOSE")
    /\ ~dir.made
    /\ up' \in BOOLEAN
    /\ UNCHANGED <<toHost, disk, reboots, faults, rebuilt>>
-----------------------------------------------------------------------------
\* The device restarts between two frames.
Reboot ==
    /\ up
    /\ reboots < MaxReboots
    /\ reboots' = reboots + 1
    /\ up' = FALSE
    /\ \E keep \in Keeps : disk' = IF keep THEN disk ELSE [x \in Xids |-> NoDir]
    /\ UNCHANGED <<line, faults, rebuilt>>

\* The agent is started (again) and announces itself.
AgentBoot ==
    /\ ~up
    /\ up' = TRUE
    /\ Reply(Ready)
    /\ UNCHANGED <<toDev, disk, reboots, faults, rebuilt>>

Fault == faults < MaxFaults /\ faults' = faults + 1

\* The file system is full: c.<seq> was truncated, base64 fails, NAK.
DataWriteFails ==
    /\ Reads("DATA")
    /\ Fault
    /\ dir.made
    /\ WriteChunk(Torn)
    /\ Reply(Nak(Frame.xid, Frame.seq))
    /\ UNCHANGED <<up, reboots, rebuilt>>

\* The device dies inside a frame: the shell is gone, the reply is not sent.
Dies == Fault /\ up' = FALSE /\ UNCHANGED <<toHost, reboots>>

\* c.<seq> is truncated, then written.
CrashInData ==
    /\ Reads("DATA")
    /\ dir.made
    /\ \E content \in {Torn, Frame.b64} : WriteChunk(content)
    /\ Dies
    /\ UNCHANGED rebuilt

\* .n is truncated, then written; then .sha is.
CrashInOpen ==
    /\ Reads("OPEN")
    /\ \E p \in {<<0, dir.sha>>, <<Frame.n, dir.sha>>, <<Frame.n, NoFile>>} :
          disk' = [disk EXCEPT ![Frame.xid] =
                     [@ EXCEPT !.made = TRUE, !.n = p[1], !.sha = p[2]]]
    /\ Dies
    /\ UNCHANGED rebuilt

\* out holds some of the chunks that were to be concatenated.
CrashInClose ==
    /\ Reads("CLOSE")
    /\ dir.made
    /\ \E k \in 0 .. dir.n :
          /\ \A s \in 0 .. k - 1 : dir.c[s] # NoFile
          /\ WriteOut(Cat(dir.c, k))
    /\ Dies

AgentHandles == AgentOpen \/ AgentStat \/ AgentData \/ AgentClose \/ AgentCloseUnopened

AgentFails == Reboot \/ DataWriteFails \/ CrashInData \/ CrashInOpen \/ CrashInClose

\* The console loses a frame; the agent does not notice.
LineLoses == (LoseToDev \/ LoseToHost) /\ UNCHANGED agentVars
=============================================================================
