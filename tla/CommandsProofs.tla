--------------------------- MODULE CommandsProofs ---------------------------
(***************************************************************************)
(* Theorems about Commands, for every set of images and targets, any       *)
(* number of processes and failures, and every capacity of the console.    *)
(***************************************************************************)
EXTENDS Commands, SequenceTheorems, TLAPS

\* Frames to the device name the process and, but for run, a target.
Issued == {m \in ExecMsg : m.cmd.do # "probe" => m.cmd.target \in Target}

\* Answers: a read-back of a target that is in R, or no read-back at all.
BackedBy(R) ==
    {m \in Reply : m.kind = "EXIT" =>
        \A c \in Content : m.sha = <<Wrote(TRUE, c)>> => c \in R}

\* The current command, and the step it is at.
CommandSound ==
    /\ proc \in 0 .. MaxProcs
    /\ op \in Op \cup {None}
    /\ proc > 0 => op \in Op
    /\ exit \in Nat \cup {None}
    /\ Running => proc > 0
    /\ step \in 1 .. 6
    /\ Running => step <= Len(Steps(op.do))
    /\ waiting => Running /\ Now # "deliver"

\* A delta cleans up after its write was read back.
WriteSound ==
    Running /\ op.do = "delta" /\ step = 6 => op.image \in readBack

\* What the device holds.
DeviceSound ==
    /\ target \in [Target -> Content]
    /\ blob \in [Procs -> Blob \cup {NoFile}]
    /\ raw \in [Procs -> Content]
    /\ zstd \in BOOLEAN
    /\ up \in BOOLEAN
    /\ faults \in 0 .. MaxFaults
    /\ loaded \subseteq Content
    /\ readBack \subseteq Content

\* The inductive invariant.
LineSound ==
    /\ toDev \in Seq(Issued)
    /\ toHost \in Seq(BackedBy(readBack))
    /\ inbox \in Seq(BackedBy(readBack))

ExecSound ==
    /\ cid \in 0 .. MaxCids
    /\ waiting \in BOOLEAN
    /\ out \in [FrameSeq -> Piece \cup {NoPiece}]
    /\ codec \in {"zstd", "gzip"}
    /\ got \in Seq(Piece)
    /\ left \in BOOLEAN

Sound ==
    /\ LineSound
    /\ ExecSound
    /\ CommandSound
    /\ WriteSound
    /\ DeviceSound
    /\ ClaimIsBacked
-----------------------------------------------------------------------------
\* What an operation on a line of frames does to what it holds.
LEMMA TailOf ==
    ASSUME NEW S, NEW s \in Seq(S), s # <<>>
    PROVE  Tail(s) \in Seq(S) /\ Head(s) \in S
  BY HeadTailProperties

LEMMA RemoveAtOf ==
    ASSUME NEW S, NEW s \in Seq(S), NEW i \in DOMAIN s
    PROVE  RemoveAt(s, i) \in Seq(S) /\ s[i] \in S
  <1>1. i \in 1 .. Len(s) /\ Len(s) \in Nat
    BY LenProperties
  <1>2. SubSeq(s, 1, i - 1) \in Seq(S) /\ SubSeq(s, i + 1, Len(s)) \in Seq(S)
    BY <1>1, SubSeqProperties, ElementOfSeq
  <1>3. QED
    BY <1>1, <1>2, ElementOfSeq, ConcatProperties DEF RemoveAt

LEMMA FirstOf ==
    ASSUME NEW S, NEW s \in Seq(S), NEW n \in 0 .. Len(s)
    PROVE  SubSeq(s, 1, n) \in Seq(S)
  <1>1. Len(s) \in Nat /\ \A i \in 1 .. n : s[i] \in S
    BY LenProperties, ElementOfSeq
  <1>2. QED
    BY <1>1, SubSeqProperties

LEMMA PutAllOf ==
    ASSUME NEW S, NEW l \in Seq(S), NEW ms \in Seq(S), NEW cap \in Nat
    PROVE  PutAll(l, ms, cap) \in Seq(S)
  <1>1. l \o ms \in Seq(S) /\ Len(l \o ms) \in Nat
    BY ConcatProperties, LenProperties
  <1>2. cap \in 0 .. Len(l \o ms) => SubSeq(l \o ms, 1, cap) \in Seq(S)
    BY <1>1, FirstOf
  <1>3. QED
    BY <1>1, <1>2 DEF PutAll

LEMMA BackedGrows ==
    ASSUME NEW R, NEW T, R \subseteq T, NEW s \in Seq(BackedBy(R))
    PROVE  s \in Seq(BackedBy(T))
  <1>1. BackedBy(R) \subseteq BackedBy(T)
    BY DEF BackedBy
  <1>2. QED
    BY <1>1, SeqMonotonic
-----------------------------------------------------------------------------
\* The steps of the commands.
LEMMA CommandKinds ==
    ASSUME NEW o \in Op
    PROVE  /\ o.do \in {"push", "flash", "install", "delta", "pull", "run"}
           /\ o.do # "run" => o.target \in Target
           /\ o.do \notin {"run", "pull"} => o.image \in Image
           /\ o.do = "delta" => o.base \in Image
  BY DEF Op

LEMMA StepKinds ==
    ASSUME NEW o \in Op
    PROVE  /\ Len(Steps(o.do)) \in 1 .. 6
           /\ \A k \in 1 .. Len(Steps(o.do)) :
                 /\ Steps(o.do)[k] \in Does \cup {"deliver"}
                 /\ Steps(o.do)[k] = "tidy" <=> o.do = "delta" /\ k = 6
                 /\ o.do = "run" <=> Steps(o.do)[k] = "probe"
                 /\ Steps(o.do)[k] = "deliver" =>
                       k < Len(Steps(o.do)) /\ o.do \notin {"run", "pull"}
                 /\ o.do = "delta" /\ k = 5 => Steps(o.do)[k] = "write"
                 /\ o.do = "flash" /\ k = Len(Steps(o.do)) => Steps(o.do)[k] = "write"
           /\ o.do = "delta" => Len(Steps(o.do)) = 6
  <1>1. CASE o.do = "push"
    BY <1>1 DEF Steps, InstallSteps, Does
  <1>2. CASE o.do = "flash"
    BY <1>2 DEF Steps, InstallSteps, Does
  <1>3. CASE o.do = "install"
    BY <1>3 DEF Steps, InstallSteps, Does
  <1>4. CASE o.do = "delta"
    BY <1>4 DEF Steps, InstallSteps, Does
  <1>5. CASE o.do = "pull"
    BY <1>5 DEF Steps, InstallSteps, Does
  <1>6. CASE o.do = "run"
    BY <1>6 DEF Steps, InstallSteps, Does
  <1>7. QED
    BY <1>1, <1>2, <1>3, <1>4, <1>5, <1>6, CommandKinds

LEMMA PrintedPieces ==
    /\ \A y \in BOOLEAN : Has(y) \in Piece
    /\ \A c \in Content : Sha(c) \in Piece
    /\ \A a \in BOOLEAN, c \in Content : Wrote(a, c) \in Piece
    /\ \A c \in Content, k \in 1 .. 2 : Part(c, k) \in Piece
    /\ Text \in Piece
  <1>1. Piece = Printed
    BY CommandsAssumption
  <1>2. QED
    BY <1>1 DEF Printed

\* Only the write prints a read-back.
LEMMA OtherPieces ==
    ASSUME NEW a \in BOOLEAN, NEW c
    PROVE  /\ \A y : Has(y) # Wrote(a, c)
           /\ \A d : Sha(d) # Wrote(a, c)
           /\ \A d, k : Part(d, k) # Wrote(a, c)
           /\ Text # Wrote(a, c)
           /\ \A b, d : Wrote(b, d) = Wrote(a, c) => d = c
  BY DEF Has, Sha, Part, Text, Wrote
-----------------------------------------------------------------------------
\* What is known of a running command.
LEMMA RunningCommand ==
    ASSUME CommandSound, Running
    PROVE  /\ op \in Op /\ proc \in Procs
           /\ step \in 1 .. Len(Steps(op.do))
           /\ Now \in Does \cup {"deliver"}
  <1>1. proc > 0 /\ proc \in 0 .. MaxProcs /\ op \in Op /\ step \in 1 .. 6
    BY DEF CommandSound
  <1>2. step \in 1 .. Len(Steps(op.do))
    BY <1>1, StepKinds DEF CommandSound
  <1>3. QED
    BY <1>1, <1>2, StepKinds, CommandsAssumption DEF Now, Procs

\* A command that goes on keeps what is known of it, if the image was read back
\* when it leaves its write.
LEMMA GoesOnSound ==
    ASSUME CommandSound, WriteSound, Running, GoesOn, waiting' = FALSE,
           UNCHANGED <<proc, op, readBack>>,
           Now = "write" /\ op.do \in {"flash", "delta"} => op.image \in readBack
    PROVE  CommandSound' /\ WriteSound' /\ ClaimIsBacked'
  <1>1. /\ op \in Op /\ step \in 1 .. Len(Steps(op.do)) /\ Len(Steps(op.do)) \in 1 .. 6
        /\ proc > 0 /\ proc \in 0 .. MaxProcs /\ exit = None
    BY RunningCommand, StepKinds DEF CommandSound, Running
  <1>0. \A k \in 1 .. Len(Steps(op.do)) : k \in 1 .. 6
    <2> DEFINE n == Len(Steps(op.do))
    <2>1. n \in 1 .. 6
      BY <1>1
    <2> HIDE DEF n
    <2>2. \A k \in 1 .. n : k \in 1 .. 6
      BY <2>1
    <2>3. QED
      BY <2>2 DEF n
  <1>2. CASE step < Len(Steps(op.do))
    <2>1. step' = step + 1 /\ exit' = None /\ step' \in 1 .. Len(Steps(op.do))
      BY <1>1, <1>2 DEF GoesOn
    <2>2. CommandSound'
      <3>0. op' = op /\ step' \in 1 .. 6 /\ step' <= Len(Steps(op.do))
        BY <1>0, <2>1
      <3>1. step' \in 1 .. 6 /\ step' <= Len(Steps(op'.do)) /\ exit' \in Nat \cup {None}
        BY <2>1, <3>0
      <3>2. op' \in Op /\ proc' > 0 /\ proc' \in 0 .. MaxProcs
        BY <1>1
      <3>3. QED
        BY <3>1, <3>2 DEF CommandSound
    <2>3. exit' # 0
      BY <2>1, CommandsAssumption
    <2>4. ASSUME op.do = "delta", step' = 6 PROVE op.image \in readBack
      <3>1. step = 5
        BY <1>1, <2>1, <2>4
      <3>2. Now = "write"
        BY <1>1, <2>4, <3>1, StepKinds DEF Now
      <3>3. QED
        BY <2>4, <3>2
    <2>5. WriteSound'
      BY <2>4 DEF WriteSound
    <2>6. QED
      BY <2>2, <2>3, <2>5 DEF ClaimIsBacked, Succeeded
  <1>3. CASE ~(step < Len(Steps(op.do)))
    <2>1. step' = step /\ exit' = 0 /\ step = Len(Steps(op.do))
      BY <1>1, <1>3 DEF GoesOn
    <2>2. exit' # None
      BY <2>1, CommandsAssumption
    <2>3. CommandSound' /\ WriteSound'
      BY <1>1, <2>1, <2>2 DEF CommandSound, WriteSound, Running
    <2>4. ASSUME op.do = "flash" PROVE op.image \in readBack
      <3>1. Now = "write"
        BY <1>1, <2>1, <2>4, StepKinds DEF Now
      <3>2. QED
        BY <2>4, <3>1
    <2>5. ASSUME op.do = "delta" PROVE op.image \in readBack
      <3>1. step = 6
        BY <1>1, <2>1, <2>5, StepKinds
      <3>2. QED
        BY <2>5, <3>1 DEF WriteSound
    <2>6. QED
      BY <2>3, <2>4, <2>5 DEF ClaimIsBacked, Succeeded
  <1>4. QED
    BY <1>2, <1>3

\* A command that has ended with another exit code than 0 claims nothing.
LEMMA StopsSound ==
    ASSUME CommandSound, Running, step' = step, exit' \in Nat, waiting' = FALSE,
           UNCHANGED <<proc, op, readBack>>,
           exit' = 0 => op.do = "run"
    PROVE  CommandSound' /\ WriteSound' /\ ClaimIsBacked'
  <1>1. /\ op \in Op /\ step \in 1 .. 6 /\ proc > 0 /\ proc \in 0 .. MaxProcs
        /\ exit' # None
    BY RunningCommand, CommandsAssumption DEF CommandSound
  <1>2. CommandSound' /\ WriteSound'
    BY <1>1 DEF CommandSound, WriteSound, Running
  <1>3. QED
    BY <1>2 DEF ClaimIsBacked, Succeeded

LEMMA FailsSound ==
    ASSUME CommandSound, Running, Fails, waiting' = FALSE, UNCHANGED <<proc, op, readBack>>
    PROVE  CommandSound' /\ WriteSound' /\ ClaimIsBacked'
  <1>1. step' = step /\ exit' \in Nat /\ exit' # 0
    BY DEF Fails
  <1>2. QED
    BY <1>1, StopsSound

\* A command that does not move keeps what is known of it.
LEMMA StaysSound ==
    ASSUME CommandSound, WriteSound, ClaimIsBacked, UNCHANGED <<proc, op, step, exit>>,
           waiting' => Running /\ Now # "deliver",
           readBack \subseteq readBack'
    PROVE  CommandSound' /\ WriteSound' /\ ClaimIsBacked'
  BY DEF CommandSound, WriteSound, ClaimIsBacked, Succeeded, Running, Now
-----------------------------------------------------------------------------
\* The frames of the answers.
LEMMA AnswerFields ==
    ASSUME NEW R, NEW m \in BackedBy(R)
    PROVE  /\ m.kind = "OUT" => m.seq \in FrameSeq /\ m.b64 \in Piece
           /\ m.kind = "EXIT" => m.code \in Nat /\ m.sha \in Seq(Piece)
           /\ m.kind = "EXIT" => \A c \in Content : m.sha = <<Wrote(TRUE, c)>> => c \in R
  BY DEF BackedBy, Reply, OutMsg, ExitMsg

\* At first the line is empty and nothing has been claimed.
LEMMA Initially == Init => Sound
  <1> SUFFICES ASSUME Init PROVE Sound
    OBVIOUS
  <1> USE DEF Init, ExecInit
  <1>1. LineSound
    BY EmptySeq DEF LineSound
  <1>2. got \in Seq(Piece) /\ out \in [FrameSeq -> Piece \cup {NoPiece}]
    BY EmptySeq DEF NoOut
  <1>3. ExecSound
    <2>1. cid \in 0 .. MaxCids
      BY ExecAssumption
    <2>2. waiting \in BOOLEAN /\ left \in BOOLEAN /\ codec \in {"zstd", "gzip"}
      OBVIOUS
    <2>3. QED
      BY <1>2, <2>1, <2>2 DEF ExecSound
  <1>4. exit # None
    BY CommandsAssumption
  <1>5. CommandSound /\ WriteSound
    BY <1>4, CommandsAssumption DEF CommandSound, WriteSound, Running
  <1>6. DeviceSound
    BY CommandsAssumption DEF DeviceSound, Content
  <1>7. ClaimIsBacked
    BY DEF ClaimIsBacked, Succeeded
  <1>8. QED
    BY <1>1, <1>3, <1>5, <1>6, <1>7 DEF Sound

LEMMA DeviceKeeps ==
    ASSUME DeviceSound, UNCHANGED deviceVars
    PROVE  DeviceSound'
  BY DEF DeviceSound, deviceVars

LEMMA StartSound ==
    ASSUME Sound, NEW o \in Ops, Start(o)
    PROVE  Sound'
  <1> USE DEF Start, ExecFresh
  <1>1. UNCHANGED line /\ UNCHANGED deviceVars /\ readBack' = readBack
    BY DEF deviceVars
  <1>2. LineSound'
    BY <1>1, EmptySeq DEF Sound, LineSound, line
  <1>3. got' \in Seq(Piece) /\ out' \in [FrameSeq -> Piece \cup {NoPiece}]
    BY EmptySeq DEF NoOut
  <1>4. left' \in BOOLEAN
    BY DEF Sound, ExecSound
  <1>5. ExecSound'
    <2>1. cid' \in 0 .. MaxCids
      BY ExecAssumption
    <2>2. waiting' \in BOOLEAN /\ codec' \in {"zstd", "gzip"}
      OBVIOUS
    <2>3. QED
      BY <1>3, <1>4, <2>1, <2>2 DEF ExecSound
  <1>6. o \in Op /\ Len(Steps(o.do)) \in 1 .. 6
    BY CommandsAssumption, StepKinds
  <1>7. exit' # 0 /\ op' = o /\ step' = 1 /\ waiting' = FALSE
    BY CommandsAssumption
  <1>8. proc' > 0 /\ proc' \in 0 .. MaxProcs
    BY CommandsAssumption DEF Sound, CommandSound
  <1>9. CommandSound'
    <2>1. op' \in Op /\ step' \in 1 .. 6 /\ exit' \in Nat \cup {None}
      BY <1>6
    <2>2. Len(Steps(op'.do)) \in 1 .. 6
      BY <1>6, <1>7
    <2>3. step' <= Len(Steps(op'.do))
      <3> DEFINE n == Len(Steps(op'.do))
      <3>1. n \in 1 .. 6
        BY <2>2
      <3> HIDE DEF n
      <3>2. step' <= n
        BY <1>7, <3>1
      <3>3. QED
        BY <3>2 DEF n
    <2>4. waiting' = FALSE /\ op' \in Op \cup {None}
      BY <2>1
    <2>5. QED
      BY <1>8, <2>1, <2>3, <2>4 DEF CommandSound
  <1>10. WriteSound' /\ ClaimIsBacked'
    BY <1>7 DEF WriteSound, ClaimIsBacked, Succeeded
  <1>11. DeviceSound'
    BY <1>1, DeviceKeeps DEF Sound
  <1>12. QED
    BY <1>2, <1>5, <1>9, <1>10, <1>11 DEF Sound

LEMMA IssuesSound ==
    ASSUME Sound, Issues
    PROVE  Sound'
  <1> DEFINE m == [kind |-> "EXEC", cid |-> cid + 1,
                   cmd |-> [do |-> Now, p |-> proc,
                            target |-> IF op.do = "run" THEN NoFile ELSE op.target]]
  <1>1. /\ Running /\ Now # "deliver" /\ cid' = cid + 1 /\ cid < MaxCids /\ waiting' = TRUE
        /\ out' = NoOut /\ toDev' = PutAll(toDev, <<m>>, DevCap)
        /\ UNCHANGED <<toHost, inbox>> /\ UNCHANGED procVars /\ UNCHANGED deviceVars
    BY DEF Issues, ExecSends
  <1>2. /\ op \in Op /\ proc \in Procs /\ step \in 1 .. Len(Steps(op.do))
        /\ Now \in Does \cup {"deliver"}
    BY <1>1, RunningCommand DEF Sound
  <1>3. m.cmd.do # "probe" => m.cmd.target \in Target
    BY <1>2, StepKinds, CommandKinds DEF Now
  <1>4. m.cmd \in ShellCommand
    BY <1>1, <1>2, CommandKinds DEF ShellCommand
  <1>5. cid + 1 \in Cids
    BY <1>1, ExecAssumption DEF Sound, ExecSound, Cids
  <1>6. m \in Issued
    BY <1>3, <1>4, <1>5, CommandsAssumption DEF Issued, ExecMsg
  <1>7. <<m>> \in Seq(Issued) /\ toDev \in Seq(Issued)
    BY <1>6 DEF Sound, LineSound
  <1>8. toDev' \in Seq(Issued)
    <2> HIDE DEF m
    <2>1. QED
      BY <1>1, <1>7, PutAllOf, ExecAssumption
  <1>9. /\ readBack' = readBack /\ codec' = codec /\ got' = got /\ left' = left
        /\ UNCHANGED <<proc, op, step, exit>>
    BY <1>1 DEF procVars, deviceVars
  <1>10. LineSound'
    BY <1>1, <1>8, <1>9 DEF Sound, LineSound
  <1>11. cid' \in 0 .. MaxCids /\ out' \in [FrameSeq -> Piece \cup {NoPiece}]
    BY <1>1, <1>5 DEF Cids, NoOut
  <1>12. ExecSound'
    BY <1>1, <1>9, <1>11 DEF Sound, ExecSound
  <1>13. CommandSound' /\ WriteSound' /\ ClaimIsBacked'
    BY <1>1, <1>9, StaysSound DEF Sound
  <1>14. DeviceSound'
    BY <1>1, DeviceKeeps DEF Sound
  <1>15. QED
    BY <1>10, <1>12, <1>13, <1>14 DEF Sound

LEMMA PumpsSound ==
    ASSUME Sound, Pumps
    PROVE  Sound'
  <1> USE DEF Sound
  <1>1. UNCHANGED procVars /\ UNCHANGED deviceVars /\ waiting /\ waiting' = waiting /\ cid' = cid
    BY DEF Pumps, ExecPumps, TakesOut
  <1>2. /\ readBack' = readBack /\ codec' = codec /\ got' = got /\ left' = left
        /\ UNCHANGED <<proc, op, step, exit>>
    BY <1>1 DEF procVars, deviceVars
  <1>3. CommandSound' /\ WriteSound' /\ ClaimIsBacked'
    BY <1>1, <1>2, StaysSound DEF CommandSound
  <1>4. DeviceSound'
    BY <1>1, DeviceKeeps
  <1>5. LineSound' /\ out' \in [FrameSeq -> Piece \cup {NoPiece}]
    <2>1. CASE ExecPumps
      <3>1. Head(toHost) \in BackedBy(readBack) /\ toHost' \in Seq(BackedBy(readBack))
        BY <2>1, TailOf DEF ExecPumps, LineSound
      <3>2. Append(inbox, Head(toHost)) \in Seq(BackedBy(readBack))
        BY <3>1, AppendProperties DEF LineSound
      <3>3. inbox' \in Seq(BackedBy(readBack))
        BY <2>1, <3>2 DEF ExecPumps, LineSound
      <3>4. QED
        BY <2>1, <3>1, <3>3, <1>2 DEF ExecPumps, LineSound, ExecSound
    <2>2. ASSUME NEW i \in DOMAIN inbox, TakesOut(i)
          PROVE  LineSound' /\ out' \in [FrameSeq -> Piece \cup {NoPiece}]
      <3>1. inbox' \in Seq(BackedBy(readBack)) /\ inbox[i] \in BackedBy(readBack)
        BY <2>2, RemoveAtOf DEF TakesOut, LineSound
      <3>2. inbox[i].seq \in FrameSeq /\ inbox[i].b64 \in Piece
        BY <2>2, <3>1, AnswerFields DEF TakesOut
      <3>3. out' \in [FrameSeq -> Piece \cup {NoPiece}]
        BY <2>2, <3>2 DEF TakesOut, ExecSound
      <3>4. QED
        BY <2>2, <3>1, <3>3, <1>2 DEF TakesOut, LineSound, line
    <2>3. QED
      BY <2>1, <2>2 DEF Pumps
  <1>6. ExecSound'
    BY <1>1, <1>2, <1>5 DEF ExecSound
  <1>7. QED
    BY <1>3, <1>4, <1>5, <1>6

\* An answer ends the exec; a write that passes names what was read back.
LEMMA AnsweredSound ==
    ASSUME Sound, Answered
    PROVE  Sound'
  <1> USE DEF Sound
  <1>0. PICK i \in DOMAIN inbox :
           /\ TakesExit(i)
           /\ IF Intact(inbox[i]) /\ Passes(Answer(i))
              THEN Concludes(Answer(i))
              ELSE /\ IF Now = "tidy" THEN GoesOn ELSE Fails
                   /\ UNCHANGED <<codec, got>>
           /\ UNCHANGED <<proc, op, left, deviceVars>>
    BY DEF Answered
  <1>1. /\ waiting /\ waiting' = FALSE /\ UNCHANGED <<toDev, toHost, cid, out, proc, op, left>>
        /\ UNCHANGED deviceVars /\ readBack' = readBack
    BY <1>0 DEF TakesExit, line, deviceVars
  <1>2. Running
    BY <1>1 DEF CommandSound
  <1>3. op \in Op /\ step \in 1 .. Len(Steps(op.do)) /\ Now \in Does \cup {"deliver"}
    BY <1>2, RunningCommand
  <1>4. inbox' \in Seq(BackedBy(readBack)) /\ inbox[i] \in BackedBy(readBack)
    BY <1>0, RemoveAtOf DEF TakesExit, LineSound
  <1>5. /\ inbox[i].code \in Nat /\ inbox[i].sha \in Seq(Piece)
        /\ \A c \in Content : inbox[i].sha = <<Wrote(TRUE, c)>> => c \in readBack
    BY <1>0, <1>4, AnswerFields DEF TakesExit
  <1>6. LineSound'
    BY <1>1, <1>4 DEF LineSound
  <1>7. DeviceSound'
    BY <1>1, DeviceKeeps
  <1>8. CASE Intact(inbox[i]) /\ Passes(Answer(i))
    <2>1. Answer(i).stdout = inbox[i].sha /\ Answer(i).code = inbox[i].code /\ Concludes(Answer(i))
      BY <1>0, <1>8 DEF Intact, Answer
    <2>2. codec' \in {"zstd", "gzip"} /\ got' \in Seq(Piece)
      BY <1>5, <2>1 DEF Concludes, ExecSound
    <2>3. CommandSound' /\ WriteSound' /\ ClaimIsBacked'
      <3>1. CASE Now = "probe"
        <4>1. step' = step /\ exit' \in Nat
          BY <1>5, <2>1, <3>1 DEF Concludes
        <4>2. op.do = "run"
          BY <1>3, <3>1, StepKinds DEF Now
        <4>3. QED
          BY <1>1, <1>2, <4>1, <4>2, StopsSound
      <3>2. CASE Now # "probe"
        <4>1. GoesOn
          BY <2>1, <3>2 DEF Concludes
        <4>2. ASSUME Now = "write", op.do \in {"flash", "delta"} PROVE op.image \in readBack
          <5>1. Answer(i).stdout = <<Wrote(TRUE, op.image)>>
            BY <1>8, <4>2 DEF Passes, WritePasses
          <5>2. op.image \in Content
            BY <1>3, <4>2, CommandKinds DEF Content
          <5>3. QED
            BY <1>5, <2>1, <5>1, <5>2
        <4>3. QED
          BY <1>1, <1>2, <4>1, <4>2, GoesOnSound
      <3>3. QED
        BY <3>1, <3>2
    <2>4. ExecSound'
      BY <1>1, <2>2 DEF ExecSound
    <2>5. QED
      BY <1>6, <1>7, <2>3, <2>4
  <1>9. CASE ~(Intact(inbox[i]) /\ Passes(Answer(i)))
    <2>1. codec' = codec /\ got' = got
      BY <1>0, <1>9
    <2>2. ExecSound'
      BY <1>1, <2>1 DEF ExecSound
    <2>3. CASE Now = "tidy"
      <3>1. GoesOn
        BY <1>0, <1>9, <2>3
      <3>2. CommandSound' /\ WriteSound' /\ ClaimIsBacked'
        BY <1>1, <1>2, <2>3, <3>1, GoesOnSound
      <3>3. QED
        BY <1>6, <1>7, <2>2, <3>2
    <2>4. CASE Now # "tidy"
      <3>1. Fails
        BY <1>0, <1>9, <2>4
      <3>2. CommandSound' /\ WriteSound' /\ ClaimIsBacked'
        BY <1>1, <1>2, <3>1, FailsSound
      <3>3. QED
        BY <1>6, <1>7, <2>2, <3>2
    <2>5. QED
      BY <2>3, <2>4
  <1>10. QED
    BY <1>8, <1>9

\* A deadline, and a link that fails, end the exec without an answer.
LEMMA GivesUpSound ==
    ASSUME Sound, Running, waiting' = FALSE, IF Now = "tidy" THEN GoesOn ELSE Fails,
           UNCHANGED <<line, inbox, cid, out, proc, op, codec, got, left, deviceVars>>
    PROVE  Sound'
  <1> USE DEF Sound
  <1>1. UNCHANGED deviceVars /\ UNCHANGED <<toDev, toHost>> /\ readBack' = readBack
    BY DEF line, deviceVars
  <1>2. LineSound' /\ ExecSound'
    BY <1>1 DEF LineSound, ExecSound
  <1>3. DeviceSound'
    BY <1>1, DeviceKeeps
  <1>4. CommandSound' /\ WriteSound' /\ ClaimIsBacked'
    <2>1. CASE Now = "tidy"
      BY <1>1, <2>1, GoesOnSound
    <2>2. CASE Now # "tidy"
      BY <1>1, <2>2, FailsSound
    <2>3. QED
      BY <2>1, <2>2
  <1>5. QED
    BY <1>2, <1>3, <1>4

LEMMA DeliversSound ==
    ASSUME Sound, Delivers
    PROVE  Sound'
  <1> USE DEF Sound
  <1>1. Running /\ Now = "deliver" /\ waiting = FALSE /\ waiting' = FALSE
    BY DEF Delivers, CommandSound, ExecSound
  <1>2. /\ op \in Op /\ proc \in Procs /\ step \in 1 .. Len(Steps(op.do))
    BY <1>1, RunningCommand
  <1>3. op.do \notin {"run", "pull"}
    BY <1>1, <1>2, StepKinds DEF Now
  <1>4. Payload \in Blob
    <2>1. op.image \in Image /\ (op.do = "delta" => op.base \in Image)
      BY <1>2, <1>3, CommandKinds
    <2>2. CASE op.do = "delta"
      BY <2>1, <2>2 DEF Payload, Blob
    <2>3. CASE op.do # "delta"
      BY <2>1, <2>3 DEF Payload, Blob, ExecSound
    <2>4. QED
      BY <2>2, <2>3
  <1>5. DeviceSound'
    BY <1>4 DEF Delivers, DeviceSound
  <1>6. LineSound'
    <2>1. inbox' \in Seq(BackedBy(readBack))
      BY ConcatProperties DEF Delivers, LineSound
    <2>2. toHost' \in Seq(BackedBy(readBack)) /\ toDev' = toDev /\ readBack' = readBack
      BY EmptySeq DEF Delivers
    <2>3. QED
      BY <2>1, <2>2 DEF LineSound
  <1>7. ExecSound'
    BY DEF Delivers, ExecSound
  <1>8. CommandSound' /\ WriteSound' /\ ClaimIsBacked'
    <2>1. GoesOn /\ UNCHANGED <<proc, op, readBack>>
      BY DEF Delivers
    <2>2. QED
      BY <1>1, <2>1, GoesOnSound
  <1>9. QED
    BY <1>5, <1>6, <1>7, <1>8

LEMMA HostSound ==
    ASSUME Sound, Host
    PROVE  Sound'
  <1>1. CASE TimesOut
    <2>1. waiting /\ Running
      BY <1>1 DEF TimesOut, Deadline, Sound, CommandSound
    <2>2. QED
      BY <1>1, <2>1, GivesUpSound DEF TimesOut, Deadline
  <1>2. CASE DeliveryFails
    <2>1. Running /\ Now = "deliver" /\ waiting' = FALSE
      BY <1>2 DEF DeliveryFails, Sound, CommandSound, ExecSound, execVars
    <2>2. QED
      BY <1>2, <2>1, GivesUpSound DEF DeliveryFails, execVars
  <1>3. CASE LinkFails
    BY <1>3, GivesUpSound DEF LinkFails
  <1>4. QED
    BY <1>1, <1>2, <1>3, StartSound, IssuesSound, PumpsSound, AnsweredSound, DeliversSound DEF Host
-----------------------------------------------------------------------------
\* The OUT frames of a stream, and its EXIT.
LEMMA OutsOf ==
    ASSUME NEW R, NEW c \in Cids, NEW stream \in {1, 2},
           NEW pieces \in Seq(Piece), Len(pieces) <= MaxFrames
    PROVE  Outs(c, stream, pieces) \in Seq(BackedBy(R))
  <1>1. Len(pieces) \in Nat /\ MaxFrames \in Nat
    BY LenProperties, ExecAssumption
  <1>2. ASSUME NEW i \in 1 .. Len(pieces)
        PROVE  [kind |-> "OUT", cid |-> c, stream |-> stream, seq |-> i - 1, b64 |-> pieces[i]]
                  \in BackedBy(R)
    <2>1. i - 1 \in FrameSeq
      BY <1>1 DEF FrameSeq
    <2>2. pieces[i] \in Piece
      BY ElementOfSeq
    <2>3. QED
      BY <2>1, <2>2 DEF BackedBy, Reply, OutMsg
  <1>3. Outs(c, stream, pieces) \in [1 .. Len(pieces) -> BackedBy(R)]
    BY <1>2 DEF Outs
  <1>4. QED
    BY <1>1, <1>3, SeqDef

LEMMA ExitOf ==
    ASSUME NEW R, NEW c \in Cids, NEW code \in Nat, NEW nb \in Nat, NEW stdout \in Seq(Piece),
           \A d \in Content : stdout = <<Wrote(TRUE, d)>> => d \in R
    PROVE  Exit(c, code, nb, stdout) \in BackedBy(R)
  BY DEF Exit, BackedBy, Reply, ExitMsg

LEMMA AnswerLine ==
    ASSUME Sound, toDev # <<>>, UNCHANGED execVars, readBack \subseteq readBack',
           NEW outs \in Seq(BackedBy(readBack')),
           NEW code \in Nat, NEW nb \in Nat, NEW stdout \in Seq(Piece),
           \A d \in Content : stdout = <<Wrote(TRUE, d)>> => d \in readBack',
           toDev' = Tail(toDev),
           toHost' = PutAll(toHost, outs \o <<Exit(Head(toDev).cid, code, nb, stdout)>>, HostCap)
    PROVE  LineSound'
  <1> DEFINE c == Head(toDev).cid
             B == BackedBy(readBack')
  <1>1. toDev \in Seq(Issued) /\ toHost \in Seq(B) /\ inbox \in Seq(B)
    BY BackedGrows DEF Sound, LineSound
  <1>2. toDev' \in Seq(Issued) /\ c \in Cids
    BY <1>1, TailOf DEF Issued, ExecMsg
  <1> HIDE DEF B, c
  <1>3. Exit(c, code, nb, stdout) \in B
    BY <1>2, ExitOf DEF B
  <1>4. <<Exit(c, code, nb, stdout)>> \in Seq(B)
    BY <1>3
  <1>5. outs \o <<Exit(c, code, nb, stdout)>> \in Seq(B)
    BY <1>4, ConcatProperties DEF B
  <1>6. toHost' \in Seq(B)
    BY <1>1, <1>5, PutAllOf, ExecAssumption DEF c
  <1>7. inbox' = inbox
    BY DEF execVars
  <1>8. QED
    BY <1>1, <1>2, <1>6, <1>7 DEF LineSound, B

LEMMA AnswersSound ==
    ASSUME Sound, toDev # <<>>, UNCHANGED execVars, readBack \subseteq readBack',
           NEW code \in Nat, NEW stdout \in Seq(Piece), NEW stderr \in Seq(Piece),
           Len(stdout) <= 2, Len(stderr) <= 2, Answers(code, stdout, stderr),
           \A d \in Content : stdout = <<Wrote(TRUE, d)>> => d \in readBack'
    PROVE  LineSound'
  <1>1. /\ Len(stdout) \in Nat /\ Len(stdout) <= MaxFrames
        /\ Len(stderr) \in Nat /\ Len(stderr) <= MaxFrames
    BY LenProperties, ExecAssumption, CommandsAssumption
  <1>2. Head(toDev).cid \in Cids
    BY TailOf DEF Sound, LineSound, Issued, ExecMsg
  <1> DEFINE outs == Outs(Head(toDev).cid, 1, stdout) \o Outs(Head(toDev).cid, 2, stderr)
  <1>3. outs \in Seq(BackedBy(readBack'))
    BY <1>1, <1>2, OutsOf, ConcatProperties
  <1>4. /\ toDev' = Tail(toDev)
        /\ toHost' = PutAll(toHost,
              outs \o <<Exit(Head(toDev).cid, code, Len(stdout), stdout)>>, HostCap)
    BY DEF Answers
  <1> HIDE DEF outs
  <1>5. QED
    BY <1>1, <1>3, <1>4, AnswerLine

\* The answer that is cut short: its digest is that of the whole.
LEMMA ShortAnswerSound ==
    ASSUME Sound, toDev # <<>>, UNCHANGED execVars, readBack \subseteq readBack',
           NEW stdout \in Seq(Piece), Len(stdout) <= 2, AnswersShort(0, stdout),
           \A d \in Content : stdout = <<Wrote(TRUE, d)>> => d \in readBack'
    PROVE  LineSound'
  <1>1. Len(stdout) \in Nat /\ 2 <= MaxFrames /\ MaxFrames \in Nat
    BY LenProperties, ExecAssumption, CommandsAssumption
  <1>2. PICK k \in 0 .. Len(stdout) - 1 :
           /\ toDev' = Tail(toDev)
           /\ toHost' = PutAll(toHost,
                 Outs(Head(toDev).cid, 1, SubSeq(stdout, 1, k))
                     \o <<Exit(Head(toDev).cid, 0, k, stdout)>>, HostCap)
    BY DEF AnswersShort
  <1>3. k \in Nat /\ k <= MaxFrames /\ \A i \in 1 .. k : stdout[i] \in Piece
    BY <1>1, ElementOfSeq
  <1>4. SubSeq(stdout, 1, k) \in Seq(Piece) /\ Len(SubSeq(stdout, 1, k)) <= MaxFrames
    BY <1>1, <1>3, SubSeqProperties
  <1>5. Head(toDev).cid \in Cids
    BY TailOf DEF Sound, LineSound, Issued, ExecMsg
  <1> DEFINE outs == Outs(Head(toDev).cid, 1, SubSeq(stdout, 1, k))
  <1>6. outs \in Seq(BackedBy(readBack'))
    BY <1>4, <1>5, OutsOf
  <1>7. toHost' = PutAll(toHost, outs \o <<Exit(Head(toDev).cid, 0, k, stdout)>>, HostCap)
    BY <1>2
  <1> HIDE DEF outs
  <1>8. QED
    BY <1>2, <1>3, <1>6, <1>7, AnswerLine, 0 \in Nat

\* One piece, or none.
LEMMA OnePiece ==
    ASSUME Sound, toDev # <<>>, UNCHANGED execVars, readBack \subseteq readBack',
           NEW p \in Piece, Ok(<<p>>),
           \A d \in Content : p = Wrote(TRUE, d) => d \in readBack'
    PROVE  LineSound'
  <1>1. <<p>> \in Seq(Piece) /\ Len(<<p>>) <= 2 /\ <<>> \in Seq(Piece) /\ Len(<<>>) <= 2
    OBVIOUS
  <1>2. \A d \in Content : <<p>> = <<Wrote(TRUE, d)>> => d \in readBack'
    OBVIOUS
  <1>3. QED
    BY <1>1, <1>2, AnswersSound DEF Ok

LEMMA NoPieceOut ==
    ASSUME Sound, toDev # <<>>, UNCHANGED execVars, readBack \subseteq readBack',
           Ok(<<>>) \/ Error
    PROVE  LineSound'
  <1>0. Text \in Piece
    BY PrintedPieces
  <1>1. <<>> \in Seq(Piece) /\ Len(<<>>) <= 2 /\ <<Text>> \in Seq(Piece) /\ Len(<<Text>>) <= 2
    BY <1>0
  <1>2. \A d : <<>> # <<Wrote(TRUE, d)>>
    OBVIOUS
  <1>3. Ok(<<>>) => LineSound'
    BY <1>1, <1>2, AnswersSound, 0 \in Nat DEF Ok
  <1>4. Error => LineSound'
    BY <1>1, <1>2, AnswersSound, 1 \in Nat DEF Error
  <1>5. QED
    BY <1>3, <1>4

\* What an action of the device leaves alone.
LEMMA DeviceEnds ==
    ASSUME Sound, UNCHANGED execVars, UNCHANGED procVars, readBack \subseteq readBack',
           LineSound', DeviceSound'
    PROVE  Sound'
  <1> USE DEF Sound
  <1>1. /\ UNCHANGED <<proc, op, step, exit, codec, got, left>>
        /\ UNCHANGED <<cid, waiting, out>>
    BY DEF execVars, procVars
  <1>2. ExecSound'
    BY <1>1 DEF ExecSound
  <1>3. CommandSound' /\ WriteSound' /\ ClaimIsBacked'
    BY <1>1, StaysSound DEF CommandSound
  <1>4. QED
    BY <1>2, <1>3
-----------------------------------------------------------------------------
LEMMA Singletons == \A x, y : <<x>> = <<y>> => x = y
  OBVIOUS

\* The parts of the device that an action may change.
LEMMA DeviceParts ==
    ASSUME DeviceSound, UNCHANGED <<zstd, up>>, Fault \/ UNCHANGED faults,
           target' \in [Target -> Content], blob' = blob, raw' \in [Procs -> Content],
           loaded' \subseteq Content, readBack' \subseteq Content
    PROVE  DeviceSound'
  <1>1. faults' \in 0 .. MaxFaults
    BY CommandsAssumption DEF DeviceSound, Fault
  <1>2. zstd' \in BOOLEAN /\ up' \in BOOLEAN /\ blob' \in [Procs -> Blob \cup {NoFile}]
    BY DEF DeviceSound
  <1>3. QED
    BY <1>1, <1>2 DEF DeviceSound

\* The command at the head of the line.
LEMMA CommandAtHead ==
    ASSUME Sound, toDev # <<>>
    PROVE  /\ cmd \in ShellCommand /\ cmd.p \in Procs
           /\ cmd.do # "probe" => cmd.target \in Target /\ target[cmd.target] \in Content
           /\ raw[cmd.p] \in Content
           /\ blob[cmd.p] \in Blob \cup {NoFile}
  <1>1. Head(toDev) \in Issued
    BY TailOf DEF Sound, LineSound
  <1>2. cmd \in ShellCommand /\ (cmd.do # "probe" => cmd.target \in Target)
    BY <1>1, CommandsAssumption DEF cmd, Issued, ExecMsg
  <1>3. QED
    BY <1>2 DEF ShellCommand, Sound, DeviceSound

\* The halves of a file.
LEMMA Halves ==
    ASSUME NEW c \in Content
    PROVE  /\ [k \in 1 .. 2 |-> Part(c, k)] \in Seq(Piece)
           /\ Len([k \in 1 .. 2 |-> Part(c, k)]) = 2
           /\ \A d : [k \in 1 .. 2 |-> Part(c, k)] # <<Wrote(TRUE, d)>>
  <1> DEFINE s == [k \in 1 .. 2 |-> Part(c, k)]
  <1>1. s \in [1 .. 2 -> Piece]
    BY PrintedPieces
  <1>2. s \in Seq(Piece) /\ Len(s) = 2
    BY <1>1, SeqDef
  <1>3. ASSUME NEW d, s = <<Wrote(TRUE, d)>> PROVE FALSE
    <2>1. Len(<<Wrote(TRUE, d)>>) = 1
      OBVIOUS
    <2> HIDE DEF s
    <2>2. QED
      BY <1>2, <1>3, <2>1
  <1>4. QED
    BY <1>2, <1>3

LEMMA ProbesSound ==
    ASSUME Sound, Probes
    PROVE  Sound'
  <1>1. toDev # <<>> /\ UNCHANGED execVars /\ UNCHANGED procVars /\ readBack' = readBack
    BY DEF Probes, Runs, Unchanged
  <1>2. DeviceSound'
    BY DEF Probes, Unchanged, Sound, DeviceSound
  <1>3. LineSound'
    <2>1. CASE Runs("codec") /\ Ok(<<Has(zstd)>>)
      <3>1. Has(zstd) \in Piece
        BY PrintedPieces DEF Sound, DeviceSound
      <3>2. QED
        BY <1>1, <2>1, <3>1, OnePiece, OtherPieces
    <2>2. ASSUME Runs("probe"), NEW code \in 0 .. 1, Answers(code, <<Text>>, <<Text>>)
          PROVE  LineSound'
      <3>1. Text \in Piece /\ \A d : Text # Wrote(TRUE, d)
        BY PrintedPieces, OtherPieces
      <3>2. \A d : <<Text>> # <<Wrote(TRUE, d)>>
        BY <3>1, Singletons
      <3>5. <<Text>> \in Seq(Piece) /\ Len(<<Text>>) <= 2
        BY <3>1
      <3>3. code \in Nat
        OBVIOUS
      <3>4. QED
        BY <1>1, <2>2, <3>2, <3>3, <3>5, AnswersSound
    <2>3. CASE Runs("base") /\ Ok(<<Sha(target[cmd.target])>>)
      <3>1. Sha(target[cmd.target]) \in Piece
        BY <1>1, <2>3, CommandAtHead, PrintedPieces DEF Runs
      <3>2. QED
        BY <1>1, <2>3, <3>1, OnePiece, OtherPieces
    <2>4. CASE /\ Runs("sum")
               /\ Ok(IF target[cmd.target] = NoFile THEN <<>> ELSE <<Sha(target[cmd.target])>>)
      <3>1. Sha(target[cmd.target]) \in Piece
        BY <1>1, <2>4, CommandAtHead, PrintedPieces DEF Runs
      <3>2. CASE target[cmd.target] = NoFile
        BY <1>1, <2>4, <3>2, NoPieceOut
      <3>3. CASE target[cmd.target] # NoFile
        BY <1>1, <2>4, <3>1, <3>3, OnePiece, OtherPieces
      <3>4. QED
        BY <3>2, <3>3
    <2>5. QED
      BY <2>1, <2>2, <2>3, <2>4 DEF Probes
  <1>4. QED
    BY <1>1, <1>2, <1>3, DeviceEnds

LEMMA ReadsSound ==
    ASSUME Sound, Reads \/ ReadCut
    PROVE  Sound'
  <1>1. /\ toDev # <<>> /\ UNCHANGED execVars /\ UNCHANGED procVars /\ readBack' = readBack
        /\ cmd.do = "read"
    BY DEF Reads, ReadCut, Runs, Unchanged
  <1>2. DeviceSound'
    <2>1. /\ UNCHANGED <<zstd, up, target, blob, raw, loaded, readBack>>
          /\ Fault \/ UNCHANGED faults
      BY DEF Reads, ReadCut, Unchanged
    <2>2. QED
      BY <2>1, DeviceParts DEF Sound, DeviceSound
  <1> DEFINE c == target[cmd.target]
             s == [k \in 1 .. 2 |-> Part(c, k)]
  <1>3. c \in Content
    BY <1>1, CommandAtHead
  <1>4. s \in Seq(Piece) /\ Len(s) <= 2 /\ \A d : s # <<Wrote(TRUE, d)>>
    <2>1. s \in Seq(Piece) /\ Len(s) = 2 /\ \A d : s # <<Wrote(TRUE, d)>>
      BY <1>3, Halves, Zenon
    <2> HIDE DEF s
    <2>2. Len(s) = 2 => Len(s) <= 2
      OBVIOUS
    <2>3. QED
      BY <2>1, <2>2, Zenon
  <1>5. <<>> \in Seq(Piece) /\ Len(<<>>) <= 2
    OBVIOUS
  <1>6. CASE Reads
    <2>1. Error \/ Ok(s)
      BY <1>6 DEF Reads
    <2> HIDE DEF s
    <2>2. Ok(s) => LineSound'
      BY <1>1, <1>4, <1>5, AnswersSound, 0 \in Nat DEF Ok
    <2>3. LineSound'
      BY <1>1, <2>1, <2>2, NoPieceOut
    <2>4. QED
      BY <1>1, <1>2, <2>3, DeviceEnds
  <1>7. CASE ReadCut
    <2>1. AnswersShort(0, s)
      BY <1>7 DEF ReadCut
    <2> HIDE DEF s
    <2>2. LineSound'
      BY <1>1, <1>4, <2>1, ShortAnswerSound
    <2>3. QED
      BY <1>1, <1>2, <2>2, DeviceEnds
  <1>8. QED
    BY <1>6, <1>7

\* Unpacking and patching leave the image, or a torn file.
LEMMA UnpacksSound ==
    ASSUME Sound, Unpacks \/ UnpackFails
    PROVE  Sound'
  <1>1. /\ toDev # <<>> /\ UNCHANGED execVars /\ UNCHANGED procVars
        /\ UNCHANGED <<zstd, up, target, blob, loaded, readBack>>
        /\ Fault \/ UNCHANGED faults
    BY DEF Unpacks, UnpackFails, Runs, Unchanged
  <1>2. Torn \in Content
    BY DEF Content
  <1>3. Unpacked \in Content
    BY <1>1, <1>2, CommandAtHead DEF Unpacked, Blob, Content
  <1>4. raw' \in [Procs -> Content]
    BY <1>2, <1>3 DEF Unpacks, UnpackFails, Sound, DeviceSound
  <1>5. DeviceSound'
    BY <1>1, <1>4, DeviceParts DEF Sound, DeviceSound
  <1>6. ASSUME NEW c \in Content, Ok(<<Sha(c)>>) PROVE LineSound'
    <2>1. Sha(c) \in Piece
      BY PrintedPieces
    <2>2. QED
      BY <1>1, <1>6, <2>1, OnePiece, OtherPieces
  <1>7. Error \/ Ok(<<Sha(Unpacked)>>) \/ Ok(<<Sha(Torn)>>)
    BY DEF Unpacks, UnpackFails
  <1>8. LineSound'
    BY <1>1, <1>2, <1>3, <1>6, <1>7, NoPieceOut
  <1>9. QED
    BY <1>1, <1>5, <1>8, DeviceEnds

\* A write reads back what the target holds then.
LEMMA WritesSound ==
    ASSUME Sound, Writes \/ WriteFails
    PROVE  Sound'
  <1>1. /\ toDev # <<>> /\ cmd.do = "write" /\ UNCHANGED execVars /\ UNCHANGED procVars
        /\ UNCHANGED <<zstd, up, blob, raw, loaded>>
        /\ Fault \/ UNCHANGED faults
    BY DEF Writes, WriteFails, Runs, Unchanged
  <1>2. Torn \in Content /\ raw[cmd.p] \in Content
    BY <1>1, CommandAtHead DEF Content
  <1>3. PICK c \in Content, all \in BOOLEAN :
           /\ Puts(c) \/ UNCHANGED target
           /\ \/ Error /\ UNCHANGED readBack
              \/ readBack' = readBack \cup {c} /\ Ok(<<Wrote(all, c)>>)
    <2>1. CASE Writes
      <3>1. CASE raw[cmd.p] = NoFile
        BY <1>2, <2>1, <3>1 DEF Writes
      <3>2. CASE raw[cmd.p] # NoFile
        <4>1. /\ Puts(raw[cmd.p])
              /\ readBack' = readBack \cup {raw[cmd.p]}
              /\ Ok(<<Wrote(raw[cmd.p] \in Image, raw[cmd.p])>>)
          BY <2>1, <3>2 DEF Writes
        <4>2. (raw[cmd.p] \in Image) \in BOOLEAN
          OBVIOUS
        <4>3. QED
          BY <1>2, <4>1, <4>2, Zenon
      <3>3. QED
        BY <3>1, <3>2
    <2>2. CASE WriteFails
      BY <1>2, <2>2 DEF WriteFails
    <2>3. QED
      BY <2>1, <2>2
  <1>4. target' \in [Target -> Content]
    BY <1>3 DEF Puts, Sound, DeviceSound
  <1>5. readBack' \subseteq Content /\ readBack \subseteq readBack'
    BY <1>3 DEF Sound, DeviceSound
  <1>6. DeviceSound'
    BY <1>1, <1>4, <1>5, DeviceParts DEF Sound, DeviceSound
  <1>7. LineSound'
    <2>1. CASE Error
      BY <1>1, <1>5, <2>1, NoPieceOut
    <2>2. CASE readBack' = readBack \cup {c} /\ Ok(<<Wrote(all, c)>>)
      <3>1. Wrote(all, c) \in Piece
        BY PrintedPieces
      <3>2. \A d \in Content : Wrote(all, c) = Wrote(TRUE, d) => d \in readBack'
        BY <2>2, OtherPieces
      <3>3. QED
        BY <1>1, <1>5, <2>2, <3>1, <3>2, OnePiece
    <2>3. QED
      BY <1>3, <2>1, <2>2
  <1>8. QED
    BY <1>1, <1>5, <1>6, <1>7, DeviceEnds

\* The other commands print nothing that could pass for a read-back.
LEMMA CopiesSound ==
    ASSUME Sound, Copies \/ CopyFails \/ Loads \/ Tidies
    PROVE  Sound'
  <1>1. /\ toDev # <<>> /\ UNCHANGED execVars /\ UNCHANGED procVars
        /\ UNCHANGED <<zstd, up, blob, readBack>>
        /\ Fault \/ UNCHANGED faults
    BY DEF Copies, CopyFails, Loads, Tidies, Runs, Unchanged
  <1>2. /\ Torn \in Content /\ NoFile \in Content /\ raw[cmd.p] \in Content
        /\ cmd.do # "probe" => target[cmd.target] \in Content
    BY <1>1, CommandAtHead DEF Content
  <1>3. target' \in [Target -> Content]
    BY <1>2 DEF Copies, CopyFails, Loads, Tidies, Puts, Unchanged, Sound, DeviceSound
  <1>4. raw' \in [Procs -> Content]
    BY <1>2 DEF Copies, CopyFails, Loads, Tidies, Unchanged, Sound, DeviceSound
  <1>5. loaded' \subseteq Content
    BY <1>2 DEF Copies, CopyFails, Loads, Tidies, Runs, Unchanged, Sound, DeviceSound
  <1>6. DeviceSound'
    BY <1>1, <1>3, <1>4, <1>5, DeviceParts DEF Sound, DeviceSound
  <1>7. Error \/ Ok(<<>>) \/ Ok(<<Text>>)
    BY DEF Copies, CopyFails, Loads, Tidies
  <1>8. Text \in Piece /\ \A d : Text # Wrote(TRUE, d)
    BY PrintedPieces, OtherPieces
  <1>9. LineSound'
    BY <1>1, <1>7, <1>8, NoPieceOut, OnePiece
  <1>10. QED
    BY <1>1, <1>6, <1>9, DeviceEnds

LEMMA CrashesSound ==
    ASSUME Sound, Crashes \/ Boots
    PROVE  Sound'
  <1>1. /\ UNCHANGED execVars /\ UNCHANGED procVars
        /\ UNCHANGED <<zstd, loaded, readBack>> /\ up' \in BOOLEAN
        /\ Fault \/ UNCHANGED faults
    BY DEF Crashes, Boots
  <1>2. target' \in [Target -> Content]
    <2>1. ASSUME toDev # <<>>, cmd.do \in {"write", "copy"},
                 NEW content \in {Torn, raw[cmd.p]}, Puts(content)
          PROVE  target' \in [Target -> Content]
      <3>1. content \in Content
        BY <2>1, CommandAtHead DEF Content
      <3>2. QED
        BY <2>1, <3>1 DEF Puts, Sound, DeviceSound
    <2>2. QED
      BY <2>1 DEF Crashes, Boots, Sound, DeviceSound
  <1>3. blob' \in [Procs -> Blob \cup {NoFile}] /\ raw' \in [Procs -> Content]
    BY DEF Crashes, Boots, Sound, DeviceSound, Content
  <1>4. faults' \in 0 .. MaxFaults
    BY <1>1, CommandsAssumption DEF Fault, Sound, DeviceSound
  <1>5. DeviceSound'
    BY <1>1, <1>2, <1>3, <1>4 DEF Sound, DeviceSound
  <1>6. toDev' \in Seq(Issued) /\ toHost' = toHost
    <2>1. \/ toDev' = toDev /\ toHost' = toHost
          \/ toDev # <<>> /\ toDev' = Tail(toDev) /\ toHost' = toHost
      BY DEF Crashes, Boots, line
    <2>2. QED
      BY <2>1, TailOf DEF Sound, LineSound
  <1>7. LineSound'
    BY <1>1, <1>6 DEF Sound, LineSound, execVars
  <1>8. QED
    BY <1>1, <1>5, <1>7, DeviceEnds

LEMMA LossSound ==
    ASSUME Sound, Loss
    PROVE  Sound'
  <1>1. UNCHANGED execVars /\ UNCHANGED procVars /\ UNCHANGED deviceVars
    BY DEF Loss
  <1>2. DeviceSound' /\ readBack' = readBack
    BY <1>1, DeviceKeeps DEF Sound, deviceVars
  <1>3. LineSound'
    <2>1. toDev' \in Seq(Issued)
      BY TailOf DEF Loss, ExecLoses, Sound, LineSound
    <2>2. toHost' \in Seq(BackedBy(readBack))
      BY TailOf DEF Loss, ExecLoses, Sound, LineSound
    <2>3. QED
      BY <1>1, <1>2, <2>1, <2>2 DEF Sound, LineSound, execVars
  <1>4. QED
    BY <1>1, <1>2, <1>3, DeviceEnds
-----------------------------------------------------------------------------
LEMMA SoundStep == Sound /\ [Next]_vars => Sound'
  <1> SUFFICES ASSUME Sound, [Next]_vars PROVE Sound'
    OBVIOUS
  <1>1. CASE Device
    BY <1>1, ProbesSound, ReadsSound, UnpacksSound, WritesSound, CopiesSound, CrashesSound
    DEF Device
  <1>2. CASE UNCHANGED vars
    <2>1. UNCHANGED execVars /\ UNCHANGED procVars /\ UNCHANGED deviceVars /\ UNCHANGED line
      BY <1>2 DEF vars
    <2>2. DeviceSound' /\ readBack' = readBack
      BY <2>1, DeviceKeeps DEF Sound, deviceVars
    <2>3. LineSound'
      BY <2>1, <2>2 DEF Sound, LineSound, execVars, line
    <2>4. QED
      BY <2>1, <2>2, <2>3, DeviceEnds
  <1>3. QED
    BY <1>1, <1>2, HostSound, LossSound DEF Next

\* Every variable of the commands keeps its type, whatever is lost and however
\* late an answer is.
THEOREM TypeCorrect == Spec => []TypeOK
  <1>1. Sound => TypeOK
    <2> SUFFICES ASSUME Sound PROVE TypeOK
      OBVIOUS
    <2>1. Issued \subseteq ExecMsg /\ BackedBy(readBack) \subseteq Reply
      BY DEF Issued, BackedBy
    <2>2. toDev \in Seq(ExecMsg) /\ toHost \in Seq(Reply) /\ inbox \in Seq(Reply)
      BY <2>1, SeqMonotonic DEF Sound, LineSound
    <2>3. ExecTypeOK
      BY <2>2 DEF Sound, ExecSound, ExecTypeOK
    <2>4. QED
      BY <2>3 DEF Sound, ExecSound, CommandSound, DeviceSound, TypeOK
  <1>2. QED
    BY <1>1, Initially, SoundStep, PTL DEF Spec

\* uartfs flash reports success only for an image that the device has read back
\* from a target (commands.rs:138, the read-back gate), also when the answer
\* it takes is that of an earlier process.
THEOREM ClaimBacked == Spec => []ClaimIsBacked
  <1>1. Sound => ClaimIsBacked
    BY DEF Sound
  <1>2. QED
    BY <1>1, Initially, SoundStep, PTL DEF Spec
=============================================================================
