---------------------------- MODULE CommandsQuietProofs ------------------------
(***************************************************************************)
(* What holds of the commands of Commands for as long as no process ended  *)
(* with frames on the line: every answer that a process takes is the       *)
(* answer to its own command, and tells what the device holds.             *)
(***************************************************************************)
EXTENDS CommandsProofs

\* The two halves of a file, as read prints them.
Halved(c) == [k \in 1 .. 2 |-> Part(c, k)]

\* The EXEC frame of the current step.
Given ==
    [kind |-> "EXEC", cid |-> cid,
     cmd |-> [do |-> Now, p |-> proc, target |-> IF op.do = "run" THEN NoFile ELSE op.target]]

\* What the current step prints, with its exit code, holds still of the file or
\* the target it is about.
Tells(code, stdout) ==
    /\ Now = "read" /\ code = 0 => stdout = Halved(target[op.target])
    /\ \A c \in Content :
          /\ Now \in {"unpack", "patch"} /\ stdout = <<Sha(c)>> => raw[proc] \in {c, NoFile}
          /\ Now = "sum" /\ stdout = <<Sha(c)>> => c = target[op.target]
          /\ Now = "write" /\ stdout = <<Wrote(TRUE, c)>> => c = target[op.target]

\* Answers to this process, and to the command it waits for.
Own ==
    {m \in Reply : /\ m.cid <= cid
                   /\ waiting /\ m.kind = "EXIT" /\ m.cid = cid =>
                         toDev = <<>> /\ Tells(m.code, m.sha)}

\* At most the current command is on its way to the device, and it stays there
\* only when its answer is not waited for any more.
OneAtATime ==
    /\ toDev = <<>> \/ toDev = <<Given>>
    /\ toDev # <<>> => waiting \/ ~Running
    /\ toDev # <<>> /\ exit = 0 => Now = "tidy" /\ op.do = "delta"

\* What the steps that are done have established.
Gated == Now \in {"write", "copy"} => raw[proc] \in {op.image, NoFile}

InPlace ==
    Now \in {"load", "tidy"} \/ Succeeded({"push", "flash", "delta", "install"})
        => op.image \in Image /\ target[op.target] = op.image

Fetched == Succeeded({"pull"}) => got = Halved(target[op.target])

Quiet ==
    /\ toHost \in Seq(Own)
    /\ inbox \in Seq(Own)
    /\ OneAtATime
    /\ proc > 0 => Gated /\ InPlace
    /\ Fetched
    /\ loaded \subseteq Image

Undisturbed == ~left => Quiet
-----------------------------------------------------------------------------
\* The order of the steps of a command.
LEMMA StepOrder ==
    ASSUME NEW o \in Op
    PROVE  /\ \A k \in 1 .. Len(Steps(o.do)) :
                 /\ k + 1 <= Len(Steps(o.do)) =>
                       /\ Steps(o.do)[k + 1] \in {"write", "copy"} =>
                             Steps(o.do)[k] \in {"unpack", "patch"}
                       /\ Steps(o.do)[k + 1] = "load" => Steps(o.do)[k] = "sum"
                       /\ Steps(o.do)[k + 1] = "tidy" => Steps(o.do)[k] = "write"
                 /\ Steps(o.do)[k] = "read" => o.do = "pull"
                 /\ Steps(o.do)[k] \in {"unpack", "patch", "sum", "write", "copy", "load", "tidy"} =>
                       o.do \notin {"run", "pull"}
                 /\ k = Len(Steps(o.do)) =>
                       /\ o.do = "push" => Steps(o.do)[k] = "sum"
                       /\ o.do = "flash" => Steps(o.do)[k] = "write"
                       /\ o.do = "install" => Steps(o.do)[k] = "load"
                       /\ o.do = "delta" => Steps(o.do)[k] = "tidy"
                       /\ o.do = "pull" => Steps(o.do)[k] = "read"
           /\ Steps(o.do)[1] \notin {"write", "copy", "load", "tidy"}
  <1>1. CASE o.do = "push"
    BY <1>1 DEF Steps, InstallSteps
  <1>2. CASE o.do = "flash"
    BY <1>2 DEF Steps, InstallSteps
  <1>3. CASE o.do = "install"
    BY <1>3 DEF Steps, InstallSteps
  <1>4. CASE o.do = "delta"
    BY <1>4 DEF Steps, InstallSteps
  <1>5. CASE o.do = "pull"
    BY <1>5 DEF Steps, InstallSteps
  <1>6. CASE o.do = "run"
    BY <1>6 DEF Steps, InstallSteps
  <1>7. QED
    BY <1>1, <1>2, <1>3, <1>4, <1>5, <1>6, CommandKinds

\* What an answer prints that is about no file tells nothing.
LEMMA TellsNothing ==
    ASSUME NEW code \in Nat, NEW s, code # 0 \/ Now' # "read",
           \A c : s # <<Sha(c)>> /\ s # <<Wrote(TRUE, c)>>
    PROVE  Tells(code, s)'
  BY DEF Tells

LEMMA NothingToTell ==
    /\ \A c : <<>> # <<Sha(c)>> /\ <<>> # <<Wrote(TRUE, c)>>
    /\ \A c : <<Text>> # <<Sha(c)>> /\ <<Text>> # <<Wrote(TRUE, c)>>
    /\ \A y, c : <<Has(y)>> # <<Sha(c)>> /\ <<Has(y)>> # <<Wrote(TRUE, c)>>
  <1>1. \A c : Text # Sha(c) /\ Text # Wrote(TRUE, c)
    BY DEF Text, Sha, Wrote
  <1>2. \A y, c : Has(y) # Sha(c) /\ Has(y) # Wrote(TRUE, c)
    BY DEF Has, Sha, Wrote
  <1>3. QED
    BY <1>1, <1>2, Singletons
-----------------------------------------------------------------------------
\* The answers stay those of this process when the exec has ended, and when
\* nothing that they tell of changes.
LEMMA IdsAreNat == ExecSound => cid \in Nat /\ \A m \in Reply : m.cid \in Nat
  BY ExecAssumption DEF ExecSound, Reply, OutMsg, ExitMsg, Cids

LEMMA OwnAfter ==
    ASSUME ExecSound, waiting' = FALSE, cid' = cid
    PROVE  Own \subseteq Own'
  BY DEF Own

LEMMA OwnUnanswered ==
    ASSUME toDev # <<>>, waiting' = waiting, cid' = cid
    PROVE  Own \subseteq Own'
  BY DEF Own

LEMMA OwnStays ==
    ASSUME UNCHANGED <<toDev, waiting, cid, proc, op, step, target>>,
           raw' = raw \/ (proc \in Procs /\ raw' = [p \in Procs |-> NoFile])
    PROVE  Own \subseteq Own'
  <1>1. Now' = Now
    BY DEF Now
  <1>2. ASSUME NEW code, NEW s, Tells(code, s) PROVE Tells(code, s)'
    BY <1>1, <1>2 DEF Tells
  <1>3. QED
    BY <1>2 DEF Own

\* The frame at the head of the line is that of the current step.
LEMMA HeadIsCurrent ==
    ASSUME Sound, Quiet, toDev # <<>>
    PROVE  /\ Head(toDev) = Given /\ Tail(toDev) = <<>>
           /\ cmd.do = Now /\ cmd.p = proc /\ (op.do # "run" => cmd.target = op.target)
           /\ Head(toDev).cid = cid
           /\ proc \in Procs /\ op \in Op
           /\ Now # "probe" => cmd.target = op.target /\ op.target \in Target
           /\ exit = 0 => Now = "tidy" /\ op.do = "delta"
  <1>1. toDev = <<Given>> /\ (exit = 0 => Now = "tidy" /\ op.do = "delta")
    BY DEF Quiet, OneAtATime
  <1>2. Head(toDev) = Given /\ Tail(toDev) = <<>>
    BY <1>1
  <1>3. cmd.do = Now /\ cmd.p = proc /\ (op.do # "run" => cmd.target = op.target)
        /\ Head(toDev).cid = cid
    BY <1>2 DEF cmd, Given
  <1>4. proc \in Procs
    BY <1>3, CommandAtHead
  <1>5. op \in Op
    BY <1>4, CommandsAssumption DEF Procs, Sound, CommandSound
  <1>6. cmd.target = IF op.do = "run" THEN NoFile ELSE op.target
    BY <1>2 DEF cmd, Given
  <1>7. ASSUME Now # "probe" PROVE cmd.target = op.target /\ op.target \in Target
    <2>1. cmd.target \in Target
      BY <1>3, <1>7, CommandAtHead
    <2>2. QED
      BY <1>6, <2>1, CommandsAssumption
  <1>8. QED
    BY <1>1, <1>2, <1>3, <1>4, <1>5, <1>7
-----------------------------------------------------------------------------
\* A command that ends badly, or stays where it is, claims nothing new.
LEMMA KeepsPlace ==
    ASSUME Gated, InPlace, Fetched, UNCHANGED <<op, step, proc, target, raw>>,
           (exit' = exit /\ got' = got) \/ exit' # 0
    PROVE  Gated' /\ InPlace' /\ Fetched'
  <1>1. Now' = Now
    BY DEF Now
  <1>2. QED
    BY <1>1 DEF Gated, InPlace, Fetched, Succeeded

LEMMA InitQuiet ==
    ASSUME Init
    PROVE  Quiet
  <1>1. toDev = <<>> /\ toHost = <<>> /\ inbox = <<>> /\ proc = 0 /\ loaded = {}
    BY DEF Init, ExecInit
  <1>2. OneAtATime
    BY <1>1 DEF OneAtATime
  <1>3. Fetched
    BY <1>1 DEF Fetched, Succeeded
  <1>4. QED
    BY <1>1, <1>2, <1>3, EmptySeq DEF Quiet

LEMMA StartQuiet ==
    ASSUME Sound, loaded \subseteq Image, NEW o \in Ops, Start(o), ~left'
    PROVE  Quiet'
  <1>1. toDev' = <<>> /\ toHost' = <<>> /\ inbox' = <<>>
    <2>1. line = <<<<>>, <<>>>> /\ line' = line
      BY DEF Start, ExecFresh
    <2>2. QED
      BY <2>1 DEF line, Start, ExecFresh
  <1>2. OneAtATime'
    BY <1>1 DEF OneAtATime
  <1>3. exit' # 0 /\ op' = o /\ step' = 1 /\ o \in Op
    BY CommandsAssumption DEF Start
  <1>4. Now' \notin {"write", "copy", "load", "tidy"}
    BY <1>3, StepOrder DEF Now
  <1>5. Gated' /\ InPlace' /\ Fetched'
    BY <1>3, <1>4 DEF Gated, InPlace, Fetched, Succeeded
  <1>6. loaded' = loaded
    BY DEF Start, deviceVars
  <1>7. QED
    BY <1>1, <1>2, <1>5, <1>6, EmptySeq DEF Quiet

LEMMA IssuesQuiet ==
    ASSUME Sound, Quiet, Issues
    PROVE  Quiet'
  <1> DEFINE m == [kind |-> "EXEC", cid |-> cid + 1,
                   cmd |-> [do |-> Now, p |-> proc,
                            target |-> IF op.do = "run" THEN NoFile ELSE op.target]]
  <1>1. /\ Running /\ ~waiting /\ cid' = cid + 1 /\ waiting' = TRUE
        /\ toDev' = PutAll(toDev, <<m>>, DevCap)
        /\ UNCHANGED <<toHost, inbox>> /\ UNCHANGED procVars /\ UNCHANGED deviceVars
    BY DEF Issues, ExecSends
  <1>2. /\ UNCHANGED <<op, step, proc, exit, got, target, raw, loaded>>
    BY <1>1 DEF procVars, deviceVars
  <1>3. Now' = Now
    BY <1>2 DEF Now
  <1>4. m = Given'
    BY <1>1, <1>2, <1>3 DEF Given
  <1>5. toDev = <<>>
    BY <1>1 DEF Quiet, OneAtATime
  <1>6. toDev' = <<>> \/ toDev' = <<m>>
    <2> HIDE DEF m
    <2>1. <<>> \o <<m>> = <<m>> /\ Len(<<m>>) = 1
      OBVIOUS
    <2>2. CASE 1 <= DevCap
      BY <1>1, <1>5, <2>1, <2>2 DEF PutAll
    <2>3. CASE ~(1 <= DevCap)
      <3>1. DevCap = 0
        BY <2>3, ExecAssumption
      <3>2. toDev' = SubSeq(<<m>>, 1, 0)
        BY <1>1, <1>5, <2>1, <2>3, <3>1 DEF PutAll
      <3>3. QED
        BY <3>2
    <2>4. QED
      BY <2>2, <2>3
  <1>7. Running' /\ exit' # 0
    BY <1>1, <1>2, CommandsAssumption DEF Running
  <1>8. OneAtATime'
    <2>1. toDev' = <<>> \/ toDev' = <<Given'>>
      BY <1>4, <1>6
    <2>2. QED
      BY <1>1, <1>7, <2>1 DEF OneAtATime
  <1>9. Own \subseteq Own'
    <2>1. cid \in Nat /\ \A x \in Reply : x.cid \in Nat
      BY IdsAreNat DEF Sound
    <2>2. \A x \in Own : x \in Reply /\ x.cid <= cid
      BY DEF Own
    <2>3. \A x \in Own : x.cid <= cid' /\ x.cid # cid'
      BY <1>1, <2>1, <2>2
    <2>4. QED
      BY <2>2, <2>3 DEF Own
  <1>10. toHost' \in Seq(Own') /\ inbox' \in Seq(Own')
    BY <1>1, <1>9, SeqMonotonic DEF Quiet
  <1>11. (proc' > 0 => Gated' /\ InPlace') /\ Fetched'
    BY <1>2, <1>3 DEF Quiet, Gated, InPlace, Fetched, Succeeded
  <1>12. QED
    BY <1>2, <1>8, <1>10, <1>11 DEF Quiet

LEMMA PumpsQuiet ==
    ASSUME Sound, Quiet, Pumps
    PROVE  Quiet'
  <1>1. /\ UNCHANGED procVars /\ UNCHANGED deviceVars
        /\ UNCHANGED <<waiting, cid, toDev>>
    BY DEF Pumps, ExecPumps, TakesOut, line
  <1>2. UNCHANGED <<op, step, proc, exit, got, target, raw, loaded>>
    BY <1>1 DEF procVars, deviceVars
  <1>3. Own \subseteq Own'
    BY <1>1, <1>2, OwnStays
  <1>4. toHost' \in Seq(Own) /\ inbox' \in Seq(Own)
    <2>1. CASE ExecPumps
      <3>1. Head(toHost) \in Own /\ toHost' \in Seq(Own)
        BY <2>1, TailOf DEF ExecPumps, Quiet
      <3>2. Append(inbox, Head(toHost)) \in Seq(Own)
        BY <3>1, AppendProperties DEF Quiet
      <3>3. QED
        BY <2>1, <3>1, <3>2 DEF ExecPumps, Quiet
    <2>2. ASSUME NEW i \in DOMAIN inbox, TakesOut(i)
          PROVE  toHost' \in Seq(Own) /\ inbox' \in Seq(Own)
      BY <2>2, RemoveAtOf DEF TakesOut, Quiet, line
    <2>3. QED
      BY <2>1, <2>2 DEF Pumps
  <1>5. toHost' \in Seq(Own') /\ inbox' \in Seq(Own')
    BY <1>3, <1>4, SeqMonotonic
  <1>6. Given' = Given /\ Now' = Now
    BY <1>1, <1>2 DEF Given, Now
  <1>7. OneAtATime'
    BY <1>1, <1>2, <1>6 DEF Quiet, OneAtATime, Running
  <1>8. (proc' > 0 => Gated' /\ InPlace') /\ Fetched'
    BY <1>2, <1>6 DEF Quiet, Gated, InPlace, Fetched, Succeeded
  <1>9. QED
    BY <1>2, <1>5, <1>7, <1>8 DEF Quiet

\* A step that succeeded has established what the next one, or the exit code 0,
\* relies on.
LEMMA GoesOnQuiet ==
    ASSUME Sound, Running, Gated, InPlace, GoesOn,
           UNCHANGED <<proc, op, target, raw>>,
           Now \in {"unpack", "patch"} => raw[proc] \in {op.image, NoFile},
           Now \in {"sum", "write"} => target[op.target] = op.image,
           Now = "read" => got' = Halved(target[op.target])
    PROVE  Gated' /\ InPlace' /\ Fetched'
  <1>1. /\ op \in Op /\ step \in 1 .. Len(Steps(op.do)) /\ exit = None
        /\ Len(Steps(op.do)) \in 1 .. 6
    BY RunningCommand, StepKinds DEF Sound, Running
  <1>0. Now \in {"sum", "write", "load", "tidy"} => op.do \notin {"run", "pull"}
    BY <1>1, StepOrder DEF Now
  <1>5. op.do \notin {"run", "pull"} => op.image \in Image
    BY <1>1, CommandKinds
  <1>2. CASE step < Len(Steps(op.do))
    <2>1. step' = step + 1 /\ exit' = None /\ step + 1 <= Len(Steps(op.do))
      BY <1>1, <1>2 DEF GoesOn
    <2>2. /\ Now' \in {"write", "copy"} => Now \in {"unpack", "patch"}
          /\ Now' = "load" => Now = "sum"
          /\ Now' = "tidy" => Now = "write"
      BY <1>1, <2>1, StepOrder DEF Now
    <2>3. exit' # 0
      BY <2>1, CommandsAssumption
    <2>4. QED
      BY <1>0, <1>5, <2>2, <2>3 DEF Gated, InPlace, Fetched, Succeeded
  <1>3. CASE ~(step < Len(Steps(op.do)))
    <2>1. step' = step /\ exit' = 0 /\ step = Len(Steps(op.do))
      BY <1>1, <1>3 DEF GoesOn
    <2>2. Now' = Now
      BY <2>1 DEF Now
    <2>3. /\ op.do = "push" => Now = "sum"
          /\ op.do = "flash" => Now = "write"
          /\ op.do = "install" => Now = "load"
          /\ op.do = "delta" => Now = "tidy"
          /\ op.do = "pull" => Now = "read"
      BY <1>1, <2>1, StepOrder DEF Now
    <2>4. QED
      BY <1>0, <1>5, <2>2, <2>3 DEF Gated, InPlace, Fetched, Succeeded
  <1>4. QED
    BY <1>2, <1>3

\* The answer that a process takes is the one to its current command.
LEMMA AnsweredQuiet ==
    ASSUME Sound, Quiet, Answered
    PROVE  Quiet'
  <1>0. PICK i \in DOMAIN inbox :
           /\ TakesExit(i)
           /\ IF Intact(inbox[i]) /\ Passes(Answer(i))
              THEN Concludes(Answer(i))
              ELSE /\ IF Now = "tidy" THEN GoesOn ELSE Fails
                   /\ UNCHANGED <<codec, got>>
           /\ UNCHANGED <<proc, op, left, deviceVars>>
    BY DEF Answered
  <1>1. /\ waiting /\ waiting' = FALSE /\ UNCHANGED <<toDev, toHost, cid, out, proc, op, left>>
        /\ inbox[i].kind = "EXIT" /\ inbox[i].cid = cid
        /\ UNCHANGED <<target, raw, loaded>>
    BY <1>0 DEF TakesExit, Mine, line, deviceVars
  <1>2. Running /\ proc > 0
    BY <1>1 DEF Sound, CommandSound
  <1>3. op \in Op /\ step \in 1 .. Len(Steps(op.do))
    BY <1>2, RunningCommand DEF Sound
  <1>4. inbox' \in Seq(Own) /\ inbox[i] \in Own
    BY <1>0, RemoveAtOf DEF TakesExit, Quiet
  <1>5. toDev = <<>> /\ Tells(inbox[i].code, inbox[i].sha)
    BY <1>1, <1>4 DEF Own
  <1>6. toHost' \in Seq(Own') /\ inbox' \in Seq(Own')
    <2>1. Own \subseteq Own'
      BY <1>1, OwnAfter DEF Sound
    <2>2. QED
      BY <1>1, <1>4, <2>1, SeqMonotonic DEF Quiet
  <1>7. OneAtATime'
    BY <1>1, <1>5 DEF OneAtATime
  <1>8. Gated /\ InPlace /\ Fetched
    BY <1>2 DEF Quiet
  <1>9. CASE Intact(inbox[i]) /\ Passes(Answer(i))
    <2>1. Answer(i).stdout = inbox[i].sha /\ Answer(i).code = inbox[i].code /\ Concludes(Answer(i))
      BY <1>0, <1>9 DEF Intact, Answer
    <2>2. CASE Now = "probe"
      <3>1. op.do = "run"
        BY <1>3, <2>2, StepKinds DEF Now
      <3>2. step' = step /\ Now' = Now
        BY <1>1, <2>1, <2>2 DEF Concludes, Now
      <3>3. Gated' /\ InPlace' /\ Fetched'
        BY <1>1, <2>2, <3>1, <3>2 DEF Gated, InPlace, Fetched, Succeeded
      <3>4. QED
        BY <1>1, <1>6, <1>7, <3>3 DEF Quiet
    <2>3. CASE Now # "probe"
      <3>1. GoesOn
        BY <2>1, <2>3 DEF Concludes
      <3>2. ASSUME Now \in {"unpack", "patch"} PROVE raw[proc] \in {op.image, NoFile}
        <4>1. inbox[i].sha = <<Sha(op.image)>>
          BY <1>9, <2>1, <3>2 DEF Passes, DigestPasses
        <4>2. op.image \in Content
          BY <1>3, <3>2, StepOrder, CommandKinds DEF Now, Content
        <4>3. QED
          BY <1>5, <3>2, <4>1, <4>2 DEF Tells
      <3>3. ASSUME Now \in {"sum", "write"} PROVE target[op.target] = op.image
        <4>1. op.image \in Content
          BY <1>3, <3>3, StepOrder, CommandKinds DEF Now, Content
        <4>2. CASE Now = "sum"
          <5>1. inbox[i].sha = <<Sha(op.image)>>
            BY <1>9, <2>1, <4>2 DEF Passes, DigestPasses
          <5>2. QED
            BY <1>5, <4>1, <4>2, <5>1 DEF Tells
        <4>3. CASE Now = "write"
          <5>1. inbox[i].sha = <<Wrote(TRUE, op.image)>>
            BY <1>9, <2>1, <4>3 DEF Passes, WritePasses
          <5>2. QED
            BY <1>5, <4>1, <4>3, <5>1 DEF Tells
        <4>4. QED
          BY <3>3, <4>2, <4>3
      <3>4. ASSUME Now = "read" PROVE got' = Halved(target[op.target])
        <4>1. got' = inbox[i].sha
          BY <2>1, <3>4 DEF Concludes
        <4>2. inbox[i].code = 0
          BY <1>9, <2>1, <3>4 DEF Passes
        <4>3. QED
          BY <1>5, <3>4, <4>1, <4>2 DEF Tells
      <3>5. Gated' /\ InPlace' /\ Fetched'
        BY <1>1, <1>2, <1>8, <3>1, <3>2, <3>3, <3>4, GoesOnQuiet
      <3>6. QED
        BY <1>1, <1>6, <1>7, <3>5 DEF Quiet
    <2>4. QED
      BY <2>2, <2>3
  <1>10. CASE ~(Intact(inbox[i]) /\ Passes(Answer(i)))
    <2>1. Gated' /\ InPlace' /\ Fetched'
      <3>1. CASE Now = "tidy"
        BY <1>0, <1>1, <1>2, <1>8, <1>10, <3>1, GoesOnQuiet
      <3>2. CASE Now # "tidy"
        <4>1. exit' # 0 /\ step' = step
          BY <1>0, <1>10, <3>2 DEF Fails
        <4>2. QED
          BY <1>1, <1>8, <4>1, KeepsPlace
      <3>3. QED
        BY <3>1, <3>2
    <2>2. QED
      BY <1>1, <1>6, <1>7, <2>1 DEF Quiet
  <1>11. QED
    BY <1>9, <1>10

\* A process that gives up leaves its command on the line: it ends there, but
\* for the clean-up after a delta.
LEMMA GivesUpQuiet ==
    ASSUME Sound, Quiet, Running, waiting' = FALSE, IF Now = "tidy" THEN GoesOn ELSE Fails,
           UNCHANGED <<line, inbox, cid, out, proc, op, codec, got, left, deviceVars>>
    PROVE  Quiet'
  <1>1. UNCHANGED <<toDev, toHost, target, raw, loaded>>
    BY DEF line, deviceVars
  <1>2. proc > 0 /\ op \in Op /\ step \in 1 .. Len(Steps(op.do)) /\ Len(Steps(op.do)) \in 1 .. 6
    BY RunningCommand, StepKinds DEF Sound, CommandSound
  <1>3. step' = step /\ exit' # None /\ (exit' = 0 => Now = "tidy" /\ op.do = "delta")
    <2>1. CASE Now = "tidy"
      <3>1. op.do = "delta" /\ step = 6 /\ Len(Steps(op.do)) = 6
        BY <1>2, <2>1, StepKinds DEF Now
      <3>2. exit' = 0 /\ step' = step
        <4>1. GoesOn
          BY <2>1, Zenon
        <4>2. ~(6 < 6)
          OBVIOUS
        <4>3. ~(step < Len(Steps(op.do)))
          BY <3>1, <4>2, Zenon
        <4>4. QED
          BY <4>1, <4>3 DEF GoesOn
      <3>3. QED
        BY <2>1, <3>1, <3>2, CommandsAssumption
    <2>2. CASE Now # "tidy"
      <3>1. step' = step /\ exit' \in Nat /\ exit' # 0
        BY <2>2 DEF Fails
      <3>2. QED
        BY <3>1, CommandsAssumption
    <2>3. QED
      BY <2>1, <2>2
  <1>4. Now' = Now /\ Given' = Given
    BY <1>3 DEF Now, Given
  <1>5. OneAtATime'
    BY <1>1, <1>3, <1>4 DEF Quiet, OneAtATime, Running
  <1>6. toHost' \in Seq(Own') /\ inbox' \in Seq(Own')
    <2>1. Own \subseteq Own'
      BY OwnAfter DEF Sound
    <2>2. QED
      BY <1>1, <2>1, SeqMonotonic DEF Quiet
  <1>7. Gated' /\ InPlace' /\ Fetched'
    <2>1. Gated /\ InPlace /\ Fetched
      BY <1>2 DEF Quiet
    <2>2. CASE Now = "tidy"
      BY <1>1, <2>1, <2>2, GoesOnQuiet
    <2>3. CASE Now # "tidy"
      BY <1>1, <1>3, <2>1, <2>3, KeepsPlace
    <2>4. QED
      BY <2>2, <2>3
  <1>8. QED
    BY <1>1, <1>5, <1>6, <1>7 DEF Quiet

LEMMA DeliversQuiet ==
    ASSUME Sound, Quiet, Delivers
    PROVE  Quiet'
  <1>1. Running /\ Now = "deliver" /\ waiting = FALSE /\ waiting' = FALSE
        /\ toDev = <<>> /\ toDev' = <<>> /\ GoesOn
        /\ UNCHANGED <<cid, proc, op, got, target, raw, loaded>>
    BY DEF Delivers, Sound, CommandSound, ExecSound
  <1>2. OneAtATime'
    BY <1>1 DEF OneAtATime
  <1>3. Own \subseteq Own'
    BY <1>1, OwnAfter DEF Sound
  <1>4. toHost' \in Seq(Own') /\ inbox' \in Seq(Own')
    <2>1. inbox' \in Seq(Own)
      BY ConcatProperties DEF Delivers, Quiet
    <2>2. toHost' = <<>>
      BY DEF Delivers
    <2>3. QED
      BY <1>3, <2>1, <2>2, SeqMonotonic, EmptySeq
  <1>5. Gated /\ InPlace
    BY <1>1 DEF Quiet, Sound, CommandSound
  <1>6. Gated' /\ InPlace' /\ Fetched'
    BY <1>1, <1>5, GoesOnQuiet
  <1>7. QED
    BY <1>1, <1>2, <1>4, <1>6 DEF Quiet

LEMMA HostQuiet ==
    ASSUME Sound, Host, ~left', ~left => Quiet
    PROVE  Quiet'
  <1>1. ASSUME NEW o \in Ops, Start(o) PROVE Quiet'
    <2>1. ~left
      BY <1>1 DEF Start
    <2>2. QED
      BY <1>1, <2>1, StartQuiet DEF Quiet
  <1>2. CASE Issues \/ Pumps \/ Answered \/ TimesOut \/ Delivers \/ DeliveryFails \/ LinkFails
    <2>1. left' = left
      BY <1>2 DEF Issues, Pumps, Answered, TimesOut, Delivers, DeliveryFails, LinkFails, procVars
    <2>2. Quiet
      BY <2>1
    <2>3. CASE TimesOut
      <3>1. waiting /\ Running
        BY <2>3 DEF TimesOut, Deadline, Sound, CommandSound
      <3>2. QED
        BY <2>2, <2>3, <3>1, GivesUpQuiet DEF TimesOut, Deadline
    <2>4. CASE DeliveryFails
      <3>1. Running /\ Now = "deliver" /\ waiting' = FALSE
        BY <2>4 DEF DeliveryFails, Sound, CommandSound, ExecSound, execVars
      <3>2. QED
        BY <2>2, <2>4, <3>1, GivesUpQuiet DEF DeliveryFails, execVars
    <2>5. CASE LinkFails
      BY <2>2, <2>5, GivesUpQuiet DEF LinkFails
    <2>6. QED
      BY <1>2, <2>2, <2>3, <2>4, <2>5, IssuesQuiet, PumpsQuiet, AnsweredQuiet, DeliversQuiet
  <1>3. QED
    BY <1>1, <1>2 DEF Host
-----------------------------------------------------------------------------
\* The frames of an answer to the current command.
OutsNow == {m \in OutMsg : m.cid = cid}

LEMMA OutsNowOf ==
    ASSUME cid \in Cids, NEW stream \in {1, 2},
           NEW pieces \in Seq(Piece), Len(pieces) <= MaxFrames
    PROVE  Outs(cid, stream, pieces) \in Seq(OutsNow)
  <1>1. Len(pieces) \in Nat /\ MaxFrames \in Nat
    BY LenProperties, ExecAssumption
  <1>2. ASSUME NEW i \in 1 .. Len(pieces)
        PROVE  [kind |-> "OUT", cid |-> cid, stream |-> stream, seq |-> i - 1, b64 |-> pieces[i]]
                  \in OutsNow
    <2>1. i - 1 \in FrameSeq
      BY <1>1 DEF FrameSeq
    <2>2. pieces[i] \in Piece
      BY ElementOfSeq
    <2>3. QED
      BY <2>1, <2>2 DEF OutsNow, OutMsg
  <1>3. Outs(cid, stream, pieces) \in [1 .. Len(pieces) -> OutsNow]
    BY <1>2 DEF Outs
  <1>4. QED
    BY <1>1, <1>3, SeqDef

\* The device is done with the current command and answers it.
LEMMA AnswerQuiet ==
    ASSUME Sound, Quiet, toDev # <<>>, UNCHANGED execVars, UNCHANGED procVars,
           NEW outs \in Seq(OutsNow),
           NEW code \in Nat, NEW nb \in Nat, NEW stdout \in Seq(Piece),
           Tells(code, stdout)',
           toDev' = Tail(toDev),
           toHost' = PutAll(toHost, outs \o <<Exit(Head(toDev).cid, code, nb, stdout)>>, HostCap),
           Gated', InPlace', loaded' \subseteq Image
    PROVE  Quiet'
  <1>1. toDev' = <<>> /\ Head(toDev).cid = cid /\ op \in Op
        /\ (exit = 0 => op.do = "delta")
    BY HeadIsCurrent
  <1>2. UNCHANGED <<inbox, cid, waiting, op, step, proc, exit>>
    BY DEF execVars, procVars
  <1>3. OneAtATime'
    BY <1>1 DEF OneAtATime
  <1>4. Own \subseteq Own'
    BY <1>2, OwnUnanswered
  <1>5. toHost \in Seq(Own') /\ inbox' \in Seq(Own')
    BY <1>2, <1>4, SeqMonotonic DEF Quiet
  <1>6. cid \in Cids
    BY <1>1, TailOf DEF Sound, LineSound, Issued, ExecMsg
  <1>7. OutsNow \subseteq Own'
    <2>1. \A m \in OutsNow : m \in Reply /\ m.kind = "OUT" /\ m.cid = cid
      BY DEF OutsNow, Reply, OutMsg
    <2>2. cid <= cid
      BY <1>6, ExecAssumption DEF Cids
    <2>3. QED
      BY <1>2, <2>1, <2>2 DEF Own
  <1>8. Exit(cid, code, nb, stdout) \in Own'
    <2> DEFINE m == Exit(cid, code, nb, stdout)
    <2>1. m \in Reply /\ m.cid = cid /\ m.code = code /\ m.sha = stdout
      BY <1>6 DEF Exit, Reply, ExitMsg
    <2>2. cid <= cid
      BY <1>6, ExecAssumption DEF Cids
    <2> HIDE DEF m
    <2>3. m \in Own'
      BY <1>1, <1>2, <2>1, <2>2 DEF Own
    <2>4. QED
      BY <2>3 DEF m
  <1> DEFINE x == Exit(cid, code, nb, stdout)
             O == Own'
  <1>9. toHost' \in Seq(Own')
    <2>1. x \in O /\ outs \in Seq(O) /\ toHost \in Seq(O)
      BY <1>5, <1>7, <1>8, SeqMonotonic
    <2>2. toHost' = PutAll(toHost, outs \o <<x>>, HostCap)
      BY <1>1
    <2> HIDE DEF x, O
    <2>3. <<x>> \in Seq(O)
      BY <2>1
    <2>4. outs \o <<x>> \in Seq(O)
      BY <2>1, <2>3, ConcatProperties
    <2>5. toHost' \in Seq(O)
      BY <2>1, <2>2, <2>4, PutAllOf, ExecAssumption
    <2>6. QED
      BY <2>5 DEF O
  <1>10. Fetched'
    BY <1>1, <1>2 DEF Fetched, Succeeded
  <1>11. QED
    BY <1>3, <1>5, <1>9, <1>10 DEF Quiet

LEMMA AnswersQuiet ==
    ASSUME Sound, Quiet, toDev # <<>>, UNCHANGED execVars, UNCHANGED procVars,
           NEW code \in Nat, NEW stdout \in Seq(Piece), NEW stderr \in Seq(Piece),
           Len(stdout) <= 2, Len(stderr) <= 2, Answers(code, stdout, stderr),
           Tells(code, stdout)', Gated', InPlace', loaded' \subseteq Image
    PROVE  Quiet'
  <1>1. /\ Len(stdout) \in Nat /\ Len(stdout) <= MaxFrames
        /\ Len(stderr) \in Nat /\ Len(stderr) <= MaxFrames
    BY LenProperties, ExecAssumption, CommandsAssumption
  <1>2. cid \in Cids /\ Head(toDev).cid = cid
    BY HeadIsCurrent, TailOf DEF Sound, LineSound, Issued, ExecMsg
  <1> DEFINE outs == Outs(cid, 1, stdout) \o Outs(cid, 2, stderr)
  <1>3. outs \in Seq(OutsNow)
    BY <1>1, <1>2, OutsNowOf, ConcatProperties
  <1>4. /\ toDev' = Tail(toDev)
        /\ toHost' = PutAll(toHost,
              outs \o <<Exit(Head(toDev).cid, code, Len(stdout), stdout)>>, HostCap)
    BY <1>2 DEF Answers
  <1> HIDE DEF outs
  <1>5. QED
    BY <1>1, <1>3, <1>4, AnswerQuiet

LEMMA ShortAnswerQuiet ==
    ASSUME Sound, Quiet, toDev # <<>>, UNCHANGED execVars, UNCHANGED procVars,
           NEW stdout \in Seq(Piece), Len(stdout) <= 2, AnswersShort(0, stdout),
           Tells(0, stdout)', Gated', InPlace', loaded' \subseteq Image
    PROVE  Quiet'
  <1>1. Len(stdout) \in Nat /\ 2 <= MaxFrames /\ MaxFrames \in Nat
    BY LenProperties, ExecAssumption, CommandsAssumption
  <1>2. PICK k \in 0 .. Len(stdout) - 1 :
           /\ toDev' = Tail(toDev)
           /\ toHost' = PutAll(toHost,
                 Outs(Head(toDev).cid, 1, SubSeq(stdout, 1, k))
                     \o <<Exit(Head(toDev).cid, 0, k, stdout)>>, HostCap)
    BY DEF AnswersShort
  <1>3. k \in Nat /\ k <= MaxFrames /\ \A i \in 1 .. k : stdout[i] \in Piece
    BY <1>1, ElementOfSeq
  <1>4. SubSeq(stdout, 1, k) \in Seq(Piece) /\ Len(SubSeq(stdout, 1, k)) <= MaxFrames
    BY <1>1, <1>3, SubSeqProperties
  <1>5. cid \in Cids /\ Head(toDev).cid = cid
    BY HeadIsCurrent, TailOf DEF Sound, LineSound, Issued, ExecMsg
  <1> DEFINE outs == Outs(cid, 1, SubSeq(stdout, 1, k))
  <1>6. outs \in Seq(OutsNow)
    BY <1>4, <1>5, OutsNowOf
  <1>7. toHost' = PutAll(toHost, outs \o <<Exit(Head(toDev).cid, 0, k, stdout)>>, HostCap)
    BY <1>2, <1>5
  <1> HIDE DEF outs
  <1>8. QED
    BY <1>2, <1>3, <1>6, <1>7, AnswerQuiet, 0 \in Nat

\* One piece, or none.
LEMMA OnePieceQuiet ==
    ASSUME Sound, Quiet, toDev # <<>>, UNCHANGED execVars, UNCHANGED procVars,
           NEW p \in Piece, Ok(<<p>>),
           Tells(0, <<p>>)', Gated', InPlace', loaded' \subseteq Image
    PROVE  Quiet'
  <1>1. <<p>> \in Seq(Piece) /\ Len(<<p>>) <= 2 /\ <<>> \in Seq(Piece) /\ Len(<<>>) <= 2
    OBVIOUS
  <1>2. 0 \in Nat /\ Answers(0, <<p>>, <<>>)
    BY DEF Ok
  <1> DEFINE s == <<p>>
             e == <<>>
  <1>3. s \in Seq(Piece) /\ Len(s) <= 2 /\ e \in Seq(Piece) /\ Len(e) <= 2
        /\ Tells(0, s)' /\ Answers(0, s, e)
    BY <1>1, <1>2
  <1> HIDE DEF s, e
  <1>4. QED
    BY <1>2, <1>3, AnswersQuiet

LEMMA SilentQuiet ==
    ASSUME Sound, Quiet, toDev # <<>>, UNCHANGED execVars, UNCHANGED procVars,
           Error \/ (Ok(<<>>) /\ Now' # "read"),
           Gated', InPlace', loaded' \subseteq Image
    PROVE  Quiet'
  <1>1. Text \in Piece
    BY PrintedPieces
  <1> DEFINE t == <<Text>>
             e == <<>>
  <1>2. t \in Seq(Piece) /\ Len(t) <= 2 /\ e \in Seq(Piece) /\ Len(e) <= 2
    BY <1>1
  <1>3. Error => Answers(1, e, t)
    BY DEF Error
  <1>4. Ok(<<>>) => Answers(0, e, e)
    BY DEF Ok
  <1>5. \A c : e # <<Sha(c)>> /\ e # <<Wrote(TRUE, c)>>
    BY NothingToTell
  <1> HIDE DEF t, e
  <1>6. CASE Error
    <2>1. 1 \in Nat /\ 1 # 0
      OBVIOUS
    <2>2. Tells(1, e)'
      BY <1>5, <2>1, TellsNothing
    <2>3. QED
      BY <1>2, <1>3, <1>6, <2>1, <2>2, AnswersQuiet
  <1>7. CASE Ok(<<>>) /\ Now' # "read"
    <2>1. 0 \in Nat
      OBVIOUS
    <2>2. Tells(0, e)'
      BY <1>5, <1>7, <2>1, TellsNothing
    <2>3. QED
      BY <1>2, <1>4, <1>7, <2>1, <2>2, AnswersQuiet
  <1>8. QED
    BY <1>6, <1>7
-----------------------------------------------------------------------------
\* What is known when the device runs the current command.
LEMMA DeviceRuns ==
    ASSUME Sound, Quiet, toDev # <<>>, UNCHANGED procVars
    PROVE  /\ Now' = Now /\ UNCHANGED <<op, step, proc, exit, got>>
           /\ cmd.do = Now /\ cmd.p = proc /\ proc \in Procs
           /\ Now # "probe" =>
                 /\ cmd.target = op.target /\ op.target \in Target
                 /\ target[op.target] \in Content
           /\ raw[proc] \in Content
           /\ Gated /\ InPlace /\ Fetched /\ loaded \subseteq Image
           /\ exit = 0 => Now = "tidy"
  <1>1. UNCHANGED <<op, step, proc, exit, got>>
    BY DEF procVars
  <1>2. Now' = Now
    BY <1>1 DEF Now
  <1>3. cmd.do = Now /\ cmd.p = proc /\ proc \in Procs
        /\ (Now # "probe" => cmd.target = op.target /\ op.target \in Target)
        /\ (exit = 0 => Now = "tidy")
    BY HeadIsCurrent
  <1>4. raw[proc] \in Content /\ (Now # "probe" => target[op.target] \in Content)
    BY <1>3 DEF Sound, DeviceSound
  <1>5. proc > 0
    BY <1>3, CommandsAssumption DEF Procs
  <1>6. QED
    BY <1>1, <1>2, <1>3, <1>4, <1>5 DEF Quiet

\* A device that changes no target and no file in its scratch directory.
LEMMA LooksQuiet ==
    ASSUME Sound, Quiet, toDev # <<>>, UNCHANGED procVars, UNCHANGED <<target, raw>>
    PROVE  Gated' /\ InPlace'
  BY DeviceRuns, KeepsPlace

LEMMA ProbesQuiet ==
    ASSUME Sound, Quiet, Probes
    PROVE  Quiet'
  <1>1. /\ toDev # <<>> /\ UNCHANGED execVars /\ UNCHANGED procVars
        /\ UNCHANGED <<target, raw, loaded>>
    BY DEF Probes, Runs, Unchanged
  <1>2. Gated' /\ InPlace'
    BY <1>1, LooksQuiet
  <1>3. /\ Now' = Now /\ cmd.do = Now /\ loaded' \subseteq Image
        /\ Now # "probe" => cmd.target = op.target /\ target[op.target] \in Content
    BY <1>1, DeviceRuns
  <1>4. CASE Runs("codec") /\ Ok(<<Has(zstd)>>)
    <2>1. PICK p \in Piece : p = Has(zstd)
      BY PrintedPieces DEF Sound, DeviceSound
    <2>2. Now' = "codec" /\ Ok(<<p>>)
      BY <1>3, <1>4, <2>1 DEF Runs
    <2>3. \A c : <<p>> # <<Sha(c)>> /\ <<p>> # <<Wrote(TRUE, c)>>
      BY <2>1, NothingToTell
    <2>4. Tells(0, <<p>>)'
      BY <2>2, <2>3 DEF Tells
    <2>5. QED
      BY <1>1, <1>2, <1>3, <2>2, <2>4, OnePieceQuiet
  <1>5. ASSUME Runs("probe"), NEW code \in 0 .. 1, Answers(code, <<Text>>, <<Text>>)
        PROVE  Quiet'
    <2> DEFINE t == <<Text>>
    <2>1. t \in Seq(Piece) /\ Len(t) <= 2
      BY PrintedPieces
    <2>2. \A c : t # <<Sha(c)>> /\ t # <<Wrote(TRUE, c)>>
      BY NothingToTell
    <2>3. Answers(code, t, t) /\ Now' = "probe" /\ code \in Nat
      BY <1>3, <1>5 DEF Runs
    <2> HIDE DEF t
    <2>4. Tells(code, t)'
      BY <2>2, <2>3, TellsNothing
    <2>5. QED
      BY <1>1, <1>2, <1>3, <2>1, <2>3, <2>4, AnswersQuiet
  <1>6. ASSUME Runs("base") \/ Runs("sum"), Ok(<<Sha(target[cmd.target])>>)
        PROVE  Quiet'
    <2>1. Now' \in {"base", "sum"} /\ Now' = Now
      BY <1>3, <1>6 DEF Runs
    <2>2. PICK c \in Content : c = target[cmd.target] /\ c = target[op.target]
      BY <1>3, <2>1
    <2>3. PICK p \in Piece : p = Sha(c)
      BY PrintedPieces
    <2>4. \A d : p = Sha(d) => d = c
      BY <2>3 DEF Sha
    <2>5. \A d : <<p>> = <<Sha(d)>> => d = c
      BY <2>4, Singletons
    <2>6. target'[op'.target] = c
      BY <1>1, <2>2 DEF procVars
    <2>7. Tells(0, <<p>>)'
      BY <2>1, <2>5, <2>6 DEF Tells
    <2>8. Ok(<<p>>)
      BY <1>6, <2>2, <2>3
    <2>9. QED
      BY <1>1, <1>2, <1>3, <2>7, <2>8, OnePieceQuiet
  <1>7. CASE Runs("sum") /\ Ok(<<>>)
    <2>1. Now' # "read"
      BY <1>3, <1>7 DEF Runs
    <2>2. QED
      BY <1>1, <1>2, <1>3, <1>7, <2>1, SilentQuiet
  <1>8. CASE /\ Runs("sum")
             /\ Ok(IF target[cmd.target] = NoFile THEN <<>> ELSE <<Sha(target[cmd.target])>>)
    <2>1. CASE target[cmd.target] = NoFile
      BY <1>7, <1>8, <2>1
    <2>2. CASE target[cmd.target] # NoFile
      BY <1>6, <1>8, <2>2
    <2>3. QED
      BY <2>1, <2>2
  <1>9. QED
    BY <1>4, <1>5, <1>6, <1>8 DEF Probes

LEMMA ReadsQuiet ==
    ASSUME Sound, Quiet, Reads \/ ReadCut
    PROVE  Quiet'
  <1>1. /\ toDev # <<>> /\ UNCHANGED execVars /\ UNCHANGED procVars /\ cmd.do = "read"
        /\ UNCHANGED <<target, raw, loaded>>
    BY DEF Reads, ReadCut, Runs, Unchanged
  <1>2. Gated' /\ InPlace'
    BY <1>1, LooksQuiet
  <1>3. /\ Now' = "read" /\ op' = op /\ loaded' \subseteq Image
        /\ cmd.target = op.target /\ target[op.target] \in Content
    BY <1>1, DeviceRuns
  <1>4. PICK c \in Content : c = target[cmd.target] /\ c = target[op.target]
    BY <1>3
  <1> DEFINE s == [k \in 1 .. 2 |-> Part(c, k)]
  <1>5. s = Halved(c)
    BY DEF Halved
  <1>6. s \in Seq(Piece) /\ Len(s) <= 2
    <2>1. s \in Seq(Piece) /\ Len(s) = 2
      BY Halves, Zenon
    <2> HIDE DEF s
    <2>2. Len(s) = 2 => Len(s) <= 2
      OBVIOUS
    <2>3. QED
      BY <2>1, <2>2, Zenon
  <1>7. \A d : s # <<Sha(d)>> /\ s # <<Wrote(TRUE, d)>>
    <2>1. Len(s) = 2
      BY Halves, Zenon
    <2> HIDE DEF s
    <2>2. \A x : Len(<<x>>) = 1
      OBVIOUS
    <2>3. \A x : s # <<x>>
      BY <2>1, <2>2
    <2>4. QED
      BY <2>3
  <1>8. target'[op'.target] = c
    BY <1>1, <1>3, <1>4
  <1>9. Reads => Error \/ Ok(s)
    BY <1>4 DEF Reads
  <1>10. ReadCut => AnswersShort(0, s)
    BY <1>4 DEF ReadCut
  <1> HIDE DEF s
  <1>11. Tells(0, s)'
    BY <1>3, <1>5, <1>7, <1>8 DEF Tells
  <1>12. CASE Error
    BY <1>1, <1>2, <1>3, <1>12, SilentQuiet
  <1>13. CASE Ok(s)
    <2> DEFINE e == <<>>
    <2>1. e \in Seq(Piece) /\ Len(e) <= 2 /\ Answers(0, s, e) /\ 0 \in Nat
      BY <1>13 DEF Ok
    <2> HIDE DEF e
    <2>2. QED
      BY <1>1, <1>2, <1>3, <1>6, <1>11, <2>1, AnswersQuiet
  <1>14. CASE ReadCut
    BY <1>1, <1>2, <1>3, <1>6, <1>10, <1>11, <1>14, ShortAnswerQuiet
  <1>15. QED
    BY <1>9, <1>12, <1>13, <1>14

LEMMA UnpacksQuiet ==
    ASSUME Sound, Quiet, Unpacks \/ UnpackFails
    PROVE  Quiet'
  <1>1. /\ toDev # <<>> /\ UNCHANGED execVars /\ UNCHANGED procVars
        /\ cmd.do \in {"unpack", "patch"} /\ UNCHANGED <<target, loaded>>
    BY DEF Unpacks, UnpackFails, Runs, Unchanged
  <1>2. /\ Now' = Now /\ Now \in {"unpack", "patch"} /\ proc \in Procs /\ cmd.p = proc
        /\ UNCHANGED <<op, exit, proc>> /\ loaded' \subseteq Image /\ exit # 0
    BY <1>1, DeviceRuns
  <1>3. Gated' /\ InPlace'
    BY <1>2 DEF Gated, InPlace, Succeeded
  <1>4. raw \in [Procs -> Content]
    BY DEF Sound, DeviceSound
  <1>5. ASSUME NEW c \in Content, Ok(<<Sha(c)>>), raw' = [raw EXCEPT ![proc] = c]
        PROVE  Quiet'
    <2>1. raw'[proc'] = c
      BY <1>2, <1>4, <1>5
    <2>2. PICK p \in Piece : p = Sha(c)
      BY PrintedPieces
    <2>3. \A d : p = Sha(d) => d = c
      BY <2>2 DEF Sha
    <2>4. \A d : <<p>> = <<Sha(d)>> => d = c
      BY <2>3, Singletons
    <2>5. Tells(0, <<p>>)'
      BY <1>2, <2>1, <2>4 DEF Tells
    <2>6. Ok(<<p>>)
      BY <1>5, <2>2
    <2>7. QED
      BY <1>1, <1>2, <1>3, <2>5, <2>6, OnePieceQuiet
  <1>6. CASE Error
    BY <1>1, <1>2, <1>3, <1>6, SilentQuiet
  <1>7. Torn \in Content
    BY DEF Content
  <1>8. Unpacked \in Content
    BY <1>1, <1>7, CommandAtHead DEF Unpacked, Blob, Content
  <1>9. PICK u \in Content : u = Unpacked
    BY <1>8
  <1>10. CASE Unpacks
    BY <1>2, <1>5, <1>6, <1>9, <1>10 DEF Unpacks
  <1>11. CASE UnpackFails
    BY <1>2, <1>5, <1>6, <1>7, <1>11 DEF UnpackFails
  <1>12. QED
    BY <1>10, <1>11

LEMMA WritesQuiet ==
    ASSUME Sound, Quiet, Writes \/ WriteFails
    PROVE  Quiet'
  <1>1. /\ toDev # <<>> /\ cmd.do = "write" /\ UNCHANGED execVars /\ UNCHANGED procVars
        /\ UNCHANGED <<raw, loaded>>
    BY DEF Writes, WriteFails, Runs, Unchanged
  <1>2. /\ Now' = Now /\ Now = "write" /\ proc \in Procs /\ cmd.p = proc
        /\ cmd.target = op.target /\ op.target \in Target /\ raw[proc] \in Content
        /\ UNCHANGED <<op, exit, proc>> /\ loaded' \subseteq Image /\ exit # 0 /\ Gated
    BY <1>1, DeviceRuns
  <1>3. Gated' /\ InPlace'
    BY <1>1, <1>2 DEF Gated, InPlace, Succeeded
  <1>4. target \in [Target -> Content]
    BY DEF Sound, DeviceSound
  <1>5. CASE Error
    BY <1>1, <1>2, <1>3, <1>5, SilentQuiet
  <1>6. ASSUME NEW c \in Content, NEW all \in BOOLEAN, Ok(<<Wrote(all, c)>>),
               target' = [target EXCEPT ![op.target] = c]
        PROVE  Quiet'
    <2>1. target'[op'.target] = c
      BY <1>2, <1>4, <1>6
    <2>2. PICK p \in Piece : p = Wrote(all, c)
      BY PrintedPieces
    <2>3. \A d : p = Wrote(TRUE, d) => d = c
      BY <2>2, OtherPieces
    <2>4. \A d : <<p>> = <<Wrote(TRUE, d)>> => d = c
      BY <2>3, Singletons
    <2>5. Tells(0, <<p>>)'
      BY <1>2, <2>1, <2>4 DEF Tells
    <2>6. Ok(<<p>>)
      BY <1>6, <2>2
    <2>7. QED
      BY <1>1, <1>2, <1>3, <2>5, <2>6, OnePieceQuiet
  <1>7. CASE Writes
    <2>1. CASE raw[cmd.p] = NoFile
      BY <1>5, <1>7, <2>1 DEF Writes
    <2>2. CASE raw[cmd.p] # NoFile
      <3>1. PICK c \in Content : c = raw[cmd.p]
        BY <1>2
      <3>2. (c \in Image) \in BOOLEAN
        OBVIOUS
      <3>3. Puts(raw[cmd.p]) /\ Ok(<<Wrote(raw[cmd.p] \in Image, raw[cmd.p])>>)
        BY <1>7, <2>2 DEF Writes
      <3>4. \E all \in BOOLEAN : Ok(<<Wrote(all, c)>>)
        BY <3>1, <3>2, <3>3, Zenon
      <3>5. target' = [target EXCEPT ![op.target] = c]
        BY <1>2, <3>1, <3>3 DEF Puts
      <3>6. QED
        BY <1>6, <3>4, <3>5
    <2>3. QED
      BY <2>1, <2>2
  <1>8. CASE WriteFails
    <2>1. Torn \in Content
      BY DEF Content
    <2>2. target' = [target EXCEPT ![op.target] = Torn]
      BY <1>2, <1>8 DEF WriteFails, Puts
    <2>3. Error \/ \E all \in BOOLEAN : Ok(<<Wrote(all, Torn)>>)
      BY <1>8 DEF WriteFails
    <2>4. QED
      BY <1>5, <1>6, <2>1, <2>2, <2>3
  <1>9. QED
    BY <1>7, <1>8

LEMMA CopiesQuiet ==
    ASSUME Sound, Quiet, Copies \/ CopyFails
    PROVE  Quiet'
  <1>1. /\ toDev # <<>> /\ cmd.do = "copy" /\ UNCHANGED execVars /\ UNCHANGED procVars
        /\ UNCHANGED <<raw, loaded>>
        /\ Error \/ Ok(<<Text>>)
    BY DEF Copies, CopyFails, Runs, Unchanged
  <1>2. /\ Now' = Now /\ Now = "copy" /\ loaded' \subseteq Image /\ exit # 0 /\ Gated
        /\ UNCHANGED <<op, exit, proc>>
    BY <1>1, DeviceRuns
  <1>3. Gated' /\ InPlace'
    BY <1>1, <1>2 DEF Gated, InPlace, Succeeded
  <1>4. CASE Error
    BY <1>1, <1>2, <1>3, <1>4, SilentQuiet
  <1>5. CASE Ok(<<Text>>)
    <2>1. PICK p \in Piece : p = Text
      BY PrintedPieces
    <2>2. \A c : <<p>> # <<Sha(c)>> /\ <<p>> # <<Wrote(TRUE, c)>>
      BY <2>1, NothingToTell
    <2>3. Tells(0, <<p>>)'
      BY <1>2, <2>2 DEF Tells
    <2>4. Ok(<<p>>)
      BY <1>5, <2>1
    <2>5. QED
      BY <1>1, <1>2, <1>3, <2>3, <2>4, OnePieceQuiet
  <1>6. QED
    BY <1>1, <1>4, <1>5

\* A module is loaded when the copy was read back.
LEMMA LoadsQuiet ==
    ASSUME Sound, Quiet, Loads \/ Tidies
    PROVE  Quiet'
  <1>1. /\ toDev # <<>> /\ cmd.do \in {"load", "tidy"}
        /\ UNCHANGED execVars /\ UNCHANGED procVars /\ target' = target
        /\ Error \/ Ok(<<>>)
    BY DEF Loads, Tidies, Runs, Unchanged
  <1>2. /\ Now' = Now /\ cmd.do = Now /\ Now \in {"load", "tidy"} /\ InPlace
        /\ UNCHANGED <<op, exit, proc>> /\ loaded \subseteq Image /\ cmd.target = op.target
    BY <1>1, DeviceRuns
  <1>3. op.image \in Image /\ target[op.target] = op.image
    BY <1>2 DEF InPlace
  <1>4. Gated' /\ InPlace'
    BY <1>1, <1>2, <1>3 DEF Gated, InPlace
  <1>5. loaded' \subseteq Image
    BY <1>2, <1>3 DEF Loads, Tidies, Unchanged
  <1>6. QED
    BY <1>1, <1>2, <1>4, <1>5, SilentQuiet

\* A crash takes the files of the scratch directory, and the target of a command
\* that was not done yet.
LEMMA CrashesQuiet ==
    ASSUME Sound, Quiet, Crashes \/ Boots
    PROVE  Quiet'
  <1>1. /\ UNCHANGED execVars /\ UNCHANGED procVars /\ loaded' = loaded /\ toHost' = toHost
    BY DEF Crashes, Boots, line
  <1>2. UNCHANGED <<inbox, cid, waiting, op, step, proc, exit, got>>
    BY <1>1 DEF execVars, procVars
  <1>3. Now' = Now /\ Given' = Given /\ Running' = Running
    BY <1>2 DEF Now, Given, Running
  <1>4. raw' = raw \/ raw' = [p \in Procs |-> NoFile]
    BY DEF Crashes, Boots
  <1>5. proc > 0 => proc \in Procs
    BY DEF Sound, CommandSound, Procs
  <1>6. proc > 0 => Gated'
    BY <1>2, <1>3, <1>4, <1>5 DEF Quiet, Gated
  <1>7. CASE UNCHANGED <<toDev, target>>
    <2>1. Own \subseteq Own'
      <3>1. CASE proc > 0 \/ raw' = raw
        BY <1>2, <1>4, <1>5, <1>7, <3>1, OwnStays
      <3>2. CASE ~(proc > 0)
        <4>1. ~waiting
          BY <3>2 DEF Sound, CommandSound
        <4>2. QED
          BY <1>2, <4>1 DEF Own
      <3>3. QED
        BY <3>1, <3>2
    <2>2. toHost' \in Seq(Own') /\ inbox' \in Seq(Own')
      BY <1>1, <1>2, <2>1, SeqMonotonic DEF Quiet
    <2>3. OneAtATime'
      BY <1>2, <1>3, <1>7 DEF Quiet, OneAtATime
    <2>4. (proc' > 0 => Gated' /\ InPlace') /\ Fetched'
      BY <1>2, <1>3, <1>6, <1>7 DEF Quiet, InPlace, Fetched, Succeeded
    <2>5. QED
      BY <1>1, <2>2, <2>3, <2>4 DEF Quiet
  <1>8. CASE toDev # <<>> /\ cmd.do \in {"write", "copy"} /\ toDev' = Tail(toDev)
    <2>1. toDev' = <<>> /\ Now \in {"write", "copy"} /\ exit # 0
      BY <1>1, <1>8, HeadIsCurrent, DeviceRuns
    <2>2. Own \subseteq Own'
      BY <1>2, <1>8, OwnUnanswered
    <2>3. toHost' \in Seq(Own') /\ inbox' \in Seq(Own')
      BY <1>1, <1>2, <2>2, SeqMonotonic DEF Quiet
    <2>4. OneAtATime'
      BY <2>1 DEF OneAtATime
    <2>5. (proc' > 0 => Gated' /\ InPlace') /\ Fetched'
      BY <1>2, <1>3, <1>6, <2>1 DEF InPlace, Fetched, Succeeded
    <2>6. QED
      BY <1>1, <2>3, <2>4, <2>5 DEF Quiet
  <1>9. QED
    BY <1>7, <1>8 DEF Crashes, Boots, line

LEMMA LossQuiet ==
    ASSUME Sound, Quiet, Loss
    PROVE  Quiet'
  <1>1. UNCHANGED execVars /\ UNCHANGED procVars /\ UNCHANGED deviceVars
    BY DEF Loss
  <1>2. /\ UNCHANGED <<inbox, cid, waiting, op, step, proc, exit, got>>
        /\ UNCHANGED <<target, raw, loaded>>
    BY <1>1 DEF execVars, procVars, deviceVars
  <1>3. Now' = Now /\ Given' = Given /\ Running' = Running
    BY <1>2 DEF Now, Given, Running
  <1>4. (proc' > 0 => Gated' /\ InPlace') /\ Fetched'
    BY <1>2, <1>3 DEF Quiet, Gated, InPlace, Fetched, Succeeded
  <1>5. CASE toDev # <<>> /\ toDev' = Tail(toDev) /\ UNCHANGED toHost
    <2>1. toDev' = <<>>
      BY <1>5, HeadIsCurrent
    <2>2. Own \subseteq Own'
      BY <1>2, <1>5, OwnUnanswered
    <2>3. toHost' \in Seq(Own') /\ inbox' \in Seq(Own')
      BY <1>2, <1>5, <2>2, SeqMonotonic DEF Quiet
    <2>4. OneAtATime'
      BY <2>1 DEF OneAtATime
    <2>5. QED
      BY <1>2, <1>4, <2>3, <2>4 DEF Quiet
  <1>6. CASE toHost # <<>> /\ toHost' = Tail(toHost) /\ UNCHANGED toDev
    <2>1. toHost' \in Seq(Own)
      BY <1>6, TailOf DEF Quiet
    <2>2. Own \subseteq Own'
      BY <1>2, <1>6, OwnStays
    <2>3. toHost' \in Seq(Own') /\ inbox' \in Seq(Own')
      BY <1>2, <2>1, <2>2, SeqMonotonic DEF Quiet
    <2>4. OneAtATime'
      BY <1>2, <1>3, <1>6 DEF Quiet, OneAtATime
    <2>5. QED
      BY <1>2, <1>4, <2>3, <2>4 DEF Quiet
  <1>7. QED
    BY <1>5, <1>6 DEF Loss, ExecLoses

LEMMA StutterQuiet ==
    ASSUME Quiet, UNCHANGED vars
    PROVE  Quiet'
  <1>1. /\ UNCHANGED <<toDev, toHost, inbox, cid, waiting, op, step, proc, exit, got>>
        /\ UNCHANGED <<target, raw, loaded>>
    BY DEF vars, line, execVars, procVars, deviceVars
  <1>2. Now' = Now /\ Given' = Given /\ Running' = Running
    BY <1>1 DEF Now, Given, Running
  <1>3. Own \subseteq Own'
    BY <1>1, OwnStays
  <1>4. toHost' \in Seq(Own') /\ inbox' \in Seq(Own')
    BY <1>1, <1>3, SeqMonotonic DEF Quiet
  <1>5. OneAtATime'
    BY <1>1, <1>2 DEF Quiet, OneAtATime
  <1>6. (proc' > 0 => Gated' /\ InPlace') /\ Fetched'
    BY <1>1, <1>2 DEF Quiet, Gated, InPlace, Fetched, Succeeded
  <1>7. QED
    BY <1>1, <1>4, <1>5, <1>6 DEF Quiet
-----------------------------------------------------------------------------
\* The inductive invariant.
SoundAndQuiet == Sound /\ (~left => Quiet)

LEMMA QuietStep == SoundAndQuiet /\ [Next]_vars => SoundAndQuiet'
  <1> SUFFICES ASSUME SoundAndQuiet, [Next]_vars PROVE SoundAndQuiet'
    OBVIOUS
  <1>1. Sound /\ (~left => Quiet) /\ Sound'
    BY SoundStep DEF SoundAndQuiet
  <1>2. SUFFICES ASSUME ~left' PROVE Quiet'
    BY <1>1 DEF SoundAndQuiet
  <1>3. CASE Host
    BY <1>1, <1>2, <1>3, HostQuiet
  <1>4. CASE Device
    <2>1. left' = left
      BY <1>4
      DEF Device, Probes, Reads, ReadCut, Unpacks, UnpackFails, Writes, WriteFails, Copies,
          CopyFails, Loads, Tidies, Crashes, Boots, Unchanged, procVars
    <2>2. Quiet
      BY <1>1, <1>2, <2>1
    <2>3. QED
      BY <1>1, <1>4, <2>2, ProbesQuiet, ReadsQuiet, UnpacksQuiet, WritesQuiet, CopiesQuiet,
         LoadsQuiet, CrashesQuiet
      DEF Device
  <1>5. CASE Loss
    <2>1. left' = left
      BY <1>5 DEF Loss, procVars
    <2>2. QED
      BY <1>1, <1>2, <1>5, <2>1, LossQuiet
  <1>6. CASE UNCHANGED vars
    <2>1. left' = left
      BY <1>6 DEF vars, procVars
    <2>2. QED
      BY <1>1, <1>2, <1>6, <2>1, StutterQuiet
  <1>7. QED
    BY <1>3, <1>4, <1>5, <1>6 DEF Next

LEMMA QuietFirst == Init => SoundAndQuiet
  BY Initially, InitQuiet DEF SoundAndQuiet

\* As long as no process ended with frames on the line, a command that reports
\* success has put the image on its target, whatever was lost, and whenever
\* the device crashed (uartfs/README.md:48-49).
THEOREM SuccessMeansInPlace == Spec => []SuccessIsInPlace
  <1>1. SoundAndQuiet => SuccessIsInPlace
    <2> SUFFICES ASSUME SoundAndQuiet, ~left,
                        Succeeded({"push", "flash", "delta", "install"})
                 PROVE  target[op.target] = op.image
      BY DEF SuccessIsInPlace, NoFalseSuccess
    <2>1. proc > 0 /\ Quiet
      BY DEF SoundAndQuiet, Succeeded
    <2>2. QED
      BY <2>1 DEF Quiet, InPlace
  <1>2. QED
    BY <1>1, QuietFirst, QuietStep, PTL DEF Spec

\* A pull that reports success has fetched the whole of what the target holds.
THEOREM PullsExactly == Spec => []PullIsExact
  <1>1. SoundAndQuiet => PullIsExact
    BY DEF SoundAndQuiet, PullIsExact, Quiet, Fetched, Halved
  <1>2. QED
    BY <1>1, QuietFirst, QuietStep, PTL DEF Spec

\* The file that a write or a copy takes has passed the digest gate
\* (commands.rs:232), or is gone after a crash.
THEOREM PayloadsAreGated == Spec => []OnlyGatedPayloads
  <1>1. SoundAndQuiet => OnlyGatedPayloads
    <2> SUFFICES ASSUME SoundAndQuiet, ~left, Running, waiting, Now \in {"write", "copy"}
                 PROVE  raw[proc] \in {op.image, NoFile}
      BY DEF OnlyGatedPayloads
    <2>1. proc > 0 /\ Quiet
      BY DEF SoundAndQuiet, Sound, CommandSound
    <2>2. QED
      BY <2>1 DEF Quiet, Gated
  <1>2. QED
    BY <1>1, QuietFirst, QuietStep, PTL DEF Spec

\* Only what was read back as a whole module is loaded into the kernel.
THEOREM WholeModulesLoaded == Spec => []LoadsWholeModules
  <1>1. SoundAndQuiet => LoadsWholeModules
    BY DEF SoundAndQuiet, LoadsWholeModules, Quiet
  <1>2. QED
    BY <1>1, QuietFirst, QuietStep, PTL DEF Spec
=============================================================================
