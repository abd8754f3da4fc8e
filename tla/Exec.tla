--------------------------------- MODULE Exec ---------------------------------
(***************************************************************************)
(* A shell command over the console: Transport::exec of                    *)
(* crates/uartfs/src/transport.rs and the EXEC frame of the agents         *)
(* (crates/uartfs/agent/uartfs-agent.sh, uartfs-frontend/src/main.rs).     *)
(*                                                                         *)
(* The host sends EXEC once and collects OUT frames until EXIT.  Frames    *)
(* are told apart by a command id that starts at 1 in every process, so an *)
(* answer that one process did not wait for may still be on the line, or   *)
(* in the daemon's buffer, when another process uses the same id.          *)
(*                                                                         *)
(* stdout is the sequence of the pieces its OUT frames carry and stands    *)
(* for its own sha256.  Frames are lost, never altered (see UfsWire).      *)
(* READY frames, which exec leaves where they are, are left out.           *)
(***************************************************************************)
EXTENDS Naturals, Sequences, SequencesExt

CONSTANTS
    Command,    \* the shell commands
    Piece,      \* what one OUT frame carries
    MaxFrames,  \* bound on the OUT frames of a stdout
    MaxCids,    \* bound on the commands of one process
    DevCap,     \* bound on the frames in flight to the device
    HostCap,    \* bound on the frames in flight to the host
    NoPiece     \* an OUT frame that has not come

ASSUME ExecAssumption ==
    /\ MaxFrames \in Nat
    /\ MaxCids \in Nat
    /\ DevCap \in Nat
    /\ HostCap \in Nat
    /\ NoPiece \notin Piece

Cids     == 1 .. MaxCids
FrameSeq == 0 .. MaxFrames - 1
Stdout   == {s \in Seq(Piece) : Len(s) <= MaxFrames}
Result   == [code : Nat, stdout : Seq(Piece)]

ExecMsg == [kind : {"EXEC"}, cid : Cids, cmd : Command]
OutMsg  == [kind : {"OUT"}, cid : Cids, stream : {1, 2}, seq : FrameSeq, b64 : Piece]
ExitMsg == [kind : {"EXIT"}, cid : Cids, code : Nat, nb : Nat, sha : Seq(Piece)]
Reply   == OutMsg \cup ExitMsg

VARIABLES
    toDev,      \* EXEC frames on their way to the device
    toHost,     \* answers on their way to the host, the daemon's buffer included
    inbox,      \* answers received and not yet taken, of this process
    cid,        \* the id of the last command, 0 before the first: next_id - 1
    waiting,    \* exec is in its loop
    out         \* the stdout pieces collected so far

line     == <<toDev, toHost>>
execVars == <<inbox, cid, waiting, out>>

NoOut == [s \in FrameSeq |-> NoPiece]

ExecTypeOK ==
    /\ toDev \in Seq(ExecMsg)
    /\ toHost \in Seq(Reply)
    /\ inbox \in Seq(Reply)
    /\ cid \in 0 .. MaxCids
    /\ waiting \in BOOLEAN
    /\ out \in [FrameSeq -> Piece \cup {NoPiece}]

ExecInit ==
    /\ toDev = <<>>
    /\ toHost = <<>>
    /\ inbox = <<>>
    /\ cid = 0
    /\ waiting = FALSE
    /\ out = NoOut

\* What does not fit into the receiver's buffer is lost.
PutAll(l, ms, cap) == IF Len(l \o ms) <= cap THEN l \o ms ELSE SubSeq(l \o ms, 1, cap)
-----------------------------------------------------------------------------
\* The host.

\* exec: the next id, one EXEC frame, empty maps.
ExecSends(cmd) ==
    /\ ~waiting
    /\ cid < MaxCids
    /\ cid' = cid + 1
    /\ waiting' = TRUE
    /\ out' = NoOut
    /\ toDev' = PutAll(toDev, <<[kind |-> "EXEC", cid |-> cid + 1, cmd |-> cmd]>>, DevCap)
    /\ UNCHANGED <<toHost, inbox>>

\* The first frame of the inbox that belongs to the command.
Mine(i) == inbox[i].cid = cid /\ \A j \in 1 .. i - 1 : inbox[j].cid # cid

NothingMine == \A i \in DOMAIN inbox : inbox[i].cid # cid

\* pump: frames of earlier commands are never looked at again, and not kept.
ExecPumps ==
    /\ waiting
    /\ NothingMine
    /\ toHost # <<>>
    /\ toHost' = Tail(toHost)
    /\ inbox' = IF Head(toHost).cid < cid THEN inbox ELSE Append(inbox, Head(toHost))
    /\ UNCHANGED <<toDev, cid, waiting, out>>

\* An OUT frame is filed under its sequence number, over an earlier one;
\* stderr is collected as well but nothing checks or uses it.
TakesOut(i) ==
    /\ waiting
    /\ Mine(i)
    /\ inbox[i].kind = "OUT"
    /\ out' = IF inbox[i].stream = 2 THEN out ELSE [out EXCEPT ![inbox[i].seq] = inbox[i].b64]
    /\ inbox' = RemoveAt(inbox, i)
    /\ UNCHANGED <<line, cid, waiting>>

\* The collected pieces in the order of their numbers.
Collected == SelectSeq([i \in 1 .. MaxFrames |-> out[i - 1]], LAMBDA p : p # NoPiece)

\* Mutant: the number of frames is right, the digest is not compared.
IntactByCount(exit) == Len(Collected) = exit.nb

\* The frames are all there and their concatenation has the digest of EXIT.
Intact(exit) == Len(Collected) = exit.nb /\ Collected = exit.sha

\* EXIT ends the loop; the caller goes on with the exit code and stdout, or
\* with a Verify error.
TakesExit(i) ==
    /\ waiting
    /\ Mine(i)
    /\ inbox[i].kind = "EXIT"
    /\ inbox' = RemoveAt(inbox, i)
    /\ waiting' = FALSE
    /\ UNCHANGED <<line, cid, out>>

Answer(i) == [code |-> inbox[i].code, stdout |-> Collected]

\* Mutant: a command that is not answered is waited for.
DeadlineNever == waiting /\ NothingMine /\ FALSE /\ UNCHANGED <<line, execVars>>

\* No EXIT within Timeouts.exec.
Deadline ==
    /\ waiting
    /\ NothingMine
    /\ waiting' = FALSE
    /\ UNCHANGED <<line, inbox, cid, out>>

\* The next process has a Transport of its own, what is on the line stays.
ExecFresh ==
    /\ inbox' = <<>>
    /\ cid' = 0
    /\ waiting' = FALSE
    /\ out' = NoOut
    /\ UNCHANGED line
-----------------------------------------------------------------------------
\* The device.

\* Mutant: the frames are numbered from one.
OutsFromOne(c, stream, pieces) ==
    [i \in 1 .. Len(pieces) |->
        [kind |-> "OUT", cid |-> c, stream |-> stream, seq |-> i, b64 |-> pieces[i]]]

\* The OUT frames of one stream.
Outs(c, stream, pieces) ==
    [i \in 1 .. Len(pieces) |->
        [kind |-> "OUT", cid |-> c, stream |-> stream, seq |-> i - 1, b64 |-> pieces[i]]]

Exit(c, code, nb, stdout) ==
    [kind |-> "EXIT", cid |-> c, code |-> code, nb |-> nb, sha |-> stdout]

\* The agent is done with the frame at the head of the line: emit_stream for
\* stdout and stderr, then EXIT.
Answers(code, stdout, stderr) ==
    LET c == Head(toDev).cid
    IN /\ toDev' = Tail(toDev)
       /\ toHost' = PutAll(toHost,
             Outs(c, 1, stdout) \o Outs(c, 2, stderr) \o <<Exit(c, code, Len(stdout), stdout)>>,
             HostCap)

\* The scratch directory is full: the base64 of stdout is cut short, the
\* digest is that of the whole.
AnswersShort(code, stdout) ==
    LET c == Head(toDev).cid
    IN \E k \in 0 .. Len(stdout) - 1 :
          /\ toDev' = Tail(toDev)
          /\ toHost' = PutAll(toHost,
                Outs(c, 1, SubSeq(stdout, 1, k)) \o <<Exit(c, code, k, stdout)>>, HostCap)

\* The console loses the next frame in one direction.
ExecLoses ==
    \/ toDev # <<>> /\ toDev' = Tail(toDev) /\ UNCHANGED toHost
    \/ toHost # <<>> /\ toHost' = Tail(toHost) /\ UNCHANGED toDev
=============================================================================
