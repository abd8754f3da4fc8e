---------------------------- MODULE FrontendAgent ----------------------------
(***************************************************************************)
(* The device-side console front-end, crates/uartfs-frontend/src/main.rs:  *)
(* it serves the transfers of the shell agent's protocol from memory, and  *)
(* bridges an interactive shell to the host while a session is on.         *)
(*                                                                         *)
(* It is single-threaded, and the tty hands it one line per read, so a     *)
(* frame is handled in one step.  systemd restarts it when it dies.        *)
(*                                                                         *)
(* What is typed and printed in a session is left out, with the frames     *)
(* that carry it.  EXEC is the subject of Exec; WINSIZE is never sent.     *)
(***************************************************************************)
EXTENDS UfsWire

CONSTANTS
    MaxRestarts,    \* bound on the restarts of the front-end
    MaxFaults,      \* bound on the writes of out that fail
    NoXfer          \* an xid without a transfer

\* A Reassembler.
Xfer == [nchunks : 0 .. MaxChunks, expected_sha : Blobs, got : [Seqs -> Chunk \cup {NoFile}]]

ASSUME FrontendAssumption ==
    /\ MaxRestarts \in Nat
    /\ MaxFaults \in Nat
    /\ NoXfer \notin Xfer

SessionToDevice == [kind : {"ATTACH", "DETACH"}]
SessionToHost   == [kind : {"AEND"}]

VARIABLES
    transfers,  \* the transfers under way, in memory
    out,        \* $UARTFS_DIR/<xid>/out
    session,    \* a shell is attached
    restarts,   \* restarts so far
    faults,     \* failed writes so far
    rebuilt     \* history: the blobs that out has held, per xid

deviceVars == <<transfers, out, session, restarts, faults, rebuilt>>

FrontendTypeOK ==
    /\ transfers \in [Xids -> Xfer \cup {NoXfer}]
    /\ out \in [Xids -> Blobs \cup {Torn, NoFile}]
    /\ session \in BOOLEAN
    /\ restarts \in 0 .. MaxRestarts
    /\ faults \in 0 .. MaxFaults
    /\ rebuilt \in [Xids -> SUBSET Blobs]

FrontendInit ==
    /\ transfers = [x \in Xids |-> NoXfer]
    /\ out = [x \in Xids |-> NoFile]
    /\ session = FALSE
    /\ restarts = 0
    /\ faults = 0
    /\ rebuilt = [x \in Xids |-> {}]

\* The main loop, or that of attach, reads one intact frame.
Reads(kind) ==
    /\ toDev # <<>>
    /\ Head(toDev).kind = kind
    /\ toDev' = Tail(toDev)

Handles(kind) == ~session /\ Reads(kind)

Frame == Head(toDev)
xfer  == transfers[Frame.xid]

Reply(m) == toHost' = Put(toHost, m, HostCap)
-----------------------------------------------------------------------------
\* Mutant: a transfer is entered without the digest of its OPEN.
FrontendOpenForgets ==
    /\ Handles("OPEN")
    /\ transfers' = [transfers EXCEPT ![Frame.xid] =
          IF @ # NoXfer THEN @
          ELSE [nchunks |-> Frame.n, expected_sha |-> NoFile, got |-> [s \in Seqs |-> NoFile]]]
    /\ UNCHANGED <<toHost, out, session, restarts, faults, rebuilt>>

\* A transfer that is under way is kept, also one of another blob.
FrontendOpen ==
    /\ Handles("OPEN")
    /\ transfers' = [transfers EXCEPT ![Frame.xid] =
          IF @ # NoXfer THEN @
          ELSE [nchunks |-> Frame.n, expected_sha |-> Frame.sha, got |-> [s \in Seqs |-> NoFile]]]
    /\ UNCHANGED <<toHost, out, session, restarts, faults, rebuilt>>

\* accept: the chunk is stored, over an earlier one.
FrontendData ==
    /\ Handles("DATA")
    /\ IF xfer = NoXfer
       THEN Reply(Nak(Frame.xid, Frame.seq)) /\ UNCHANGED transfers
       ELSE /\ transfers' = [transfers EXCEPT ![Frame.xid].got[Frame.seq] = Frame.b64]
            /\ Reply(Ack(Frame.xid, Frame.seq))
    /\ UNCHANGED <<out, session, restarts, faults, rebuilt>>

\* contiguous_have.
ContiguousHave(got, hw) ==
    /\ \A s \in 0 .. hw - 1 : got[s] # NoFile
    /\ hw < MaxChunks => got[hw] = NoFile

FrontendStat ==
    /\ Handles("STAT")
    /\ \E hw \in 0 .. MaxChunks :
          /\ IF xfer = NoXfer THEN hw = 0 ELSE ContiguousHave(xfer.got, hw)
          /\ Reply(Have(Frame.xid, hw))
    /\ UNCHANGED deviceVars

\* finish: no chunk is missing, and their concatenation has the digest.
Finishes(x, b) ==
    /\ x # NoXfer
    /\ \A s \in 0 .. x.nchunks - 1 : x.got[s] # NoFile
    /\ b = [i \in 1 .. x.nchunks |-> x.got[i - 1]]
    /\ b = x.expected_sha

\* The transfer is taken out of the table, whatever becomes of it.
Removes == transfers' = [transfers EXCEPT ![Frame.xid] = NoXfer]

WritesOut(b) ==
    /\ out' = [out EXCEPT ![Frame.xid] = b]
    /\ rebuilt' = [rebuilt EXCEPT ![Frame.xid] = @ \cup {b}]
    /\ Reply(DoneOk(Frame.xid, b))

\* Mutant: a CLOSE that fails discards what an earlier one has put in place.
FrontendCloseDiscards ==
    /\ Handles("CLOSE")
    /\ Removes
    /\ \/ \E b \in Blobs : Finishes(xfer, b) /\ WritesOut(b)
       \/ /\ \A b \in Blobs : ~Finishes(xfer, b)
          /\ Reply(DoneFail(Frame.xid))
          /\ out' = [out EXCEPT ![Frame.xid] = NoFile]
          /\ UNCHANGED rebuilt
    /\ UNCHANGED <<session, restarts, faults>>

\* CLOSE of an unknown transfer, the same CLOSE a second time included, fails.
FrontendClose ==
    /\ Handles("CLOSE")
    /\ Removes
    /\ \/ \E b \in Blobs : Finishes(xfer, b) /\ WritesOut(b)
       \/ /\ \A b \in Blobs : ~Finishes(xfer, b)
          /\ Reply(DoneFail(Frame.xid))
          /\ UNCHANGED <<out, rebuilt>>
    /\ UNCHANGED <<session, restarts, faults>>

\* Mutant: the result of the write is not looked at.
FrontendWriteFailsUnseen ==
    /\ Handles("CLOSE")
    /\ faults < MaxFaults
    /\ faults' = faults + 1
    /\ Removes
    /\ out' = [out EXCEPT ![Frame.xid] = Torn]
    /\ \E b \in Blobs : Finishes(xfer, b) /\ Reply(DoneOk(Frame.xid, b))
    /\ UNCHANGED <<session, restarts, rebuilt>>

\* fs::write has created or truncated out, then fails.
FrontendWriteFails ==
    /\ Handles("CLOSE")
    /\ \E b \in Blobs : Finishes(xfer, b)
    /\ faults < MaxFaults
    /\ faults' = faults + 1
    /\ Removes
    /\ out' = [out EXCEPT ![Frame.xid] = Torn]
    /\ Reply(DoneFail(Frame.xid))
    /\ UNCHANGED <<session, restarts, rebuilt>>

\* A DETACH of a session that is over goes by unhandled.
FrontendIgnores ==
    /\ Handles("DETACH")
    /\ UNCHANGED <<toHost, deviceVars>>
-----------------------------------------------------------------------------
\* ATTACH: forkpty, or AEND at once.
SessionStarts ==
    /\ Handles("ATTACH")
    /\ \/ session' = TRUE /\ UNCHANGED toHost
       \/ Reply([kind |-> "AEND"]) /\ UNCHANGED session
    /\ UNCHANGED <<transfers, out, restarts, faults, rebuilt>>

SessionEnds ==
    /\ session' = FALSE
    /\ Reply([kind |-> "AEND"])
    /\ UNCHANGED <<transfers, out, restarts, faults, rebuilt>>

\* DETACH: the shell gets a SIGHUP.
SessionDetached == session /\ Reads("DETACH") /\ SessionEnds

\* The shell exits: the pty is at its end.
ShellExits == session /\ SessionEnds /\ UNCHANGED toDev

\* While a session is on, the frames of the other services are ignored.
SessionReads ==
    /\ session
    /\ \E kind \in {"OPEN", "STAT", "DATA", "CLOSE", "ATTACH"} : Reads(kind)
    /\ UNCHANGED <<toHost, deviceVars>>

\* The front-end dies and is started again: the transfers are gone, the files
\* stay, a session's shell loses its terminal.
FrontendRestart ==
    /\ restarts < MaxRestarts
    /\ restarts' = restarts + 1
    /\ transfers' = [x \in Xids |-> NoXfer]
    /\ session' = FALSE
    /\ Reply(Ready)
    /\ UNCHANGED <<toDev, out, faults, rebuilt>>

Serves ==
    \/ FrontendOpen \/ FrontendData \/ FrontendStat \/ FrontendClose \/ FrontendIgnores

Bridges == SessionStarts \/ SessionDetached \/ ShellExits \/ SessionReads

FrontendFails == FrontendWriteFails \/ FrontendRestart
=============================================================================
