------------------------------- MODULE Commands -------------------------------
(***************************************************************************)
(* The uartfs commands of crates/uartfs/src/commands.rs over exec and over *)
(* verified deliveries: push, pull, flash, flash with a delta, install-    *)
(* module and run, one command per uartfs process (src/main.rs).           *)
(*                                                                         *)
(* A command is a list of steps (Steps); a step is one exec whose answer   *)
(* must pass a check (Passes), or a delivery of a blob.  A delivery does   *)
(* what Delivery promises: it succeeds only with the blob in the scratch   *)
(* directory of its transfer id, which is new for every process (now_id).  *)
(*                                                                         *)
(* A file's content stands for its own digest; Torn is a content that no   *)
(* host asked for: a file cut short, or a write that went wrong.           *)
(***************************************************************************)
EXTENDS Exec

CONSTANTS
    Image,      \* the contents users push and flash
    Target,     \* partitions and destination files on the device
    Ops,        \* the commands users may give
    MaxProcs,   \* bound on the uartfs processes, one after the other
    MaxFaults,  \* bound on the device's write failures and crashes
    Torn,
    NoFile,     \* a file that does not exist
    None        \* no command yet, no exit code yet

Procs   == 1 .. MaxProcs
Content == Image \cup {Torn, NoFile}

\* What is delivered: a compressed image, or a patch from one image to another.
Blob == [form : {"zstd", "gzip"}, of : Image] \cup [form : {"patch"}, of : Image, base : Image]

Op == [do : {"push", "flash", "install"}, image : Image, target : Target]
      \cup [do : {"delta"}, image : Image, base : Image, target : Target]
      \cup [do : {"pull"}, target : Target]
      \cup [do : {"run"}]

\* The shell commands, p being the process and so the scratch directory.
Does == {"codec", "unpack", "write", "copy", "sum", "load", "base", "patch", "tidy", "read", "probe"}
ShellCommand == [do : Does, p : Procs, target : Target \cup {NoFile}]

\* What they print: the answer to the zstd probe, a digest, the two lines of
\* the write and read-back, one of the two halves of a file, or some text.
Has(yes)          == [is |-> "zstd", yes |-> yes]
Sha(content)      == [is |-> "sha", of |-> content]
Wrote(all, back)  == [is |-> "wrote", all |-> all, back |-> back]
Part(content, k)  == [is |-> "part", of |-> content, k |-> k]
Text              == [is |-> "text"]

Printed == {Has(y) : y \in BOOLEAN} \cup {Sha(c) : c \in Content}
           \cup {Wrote(a, c) : a \in BOOLEAN, c \in Content}
           \cup {Part(c, k) : c \in Content, k \in 1 .. 2} \cup {Text}

ASSUME CommandsAssumption ==
    /\ MaxProcs \in Nat
    /\ MaxFaults \in Nat
    /\ MaxFrames >= 2
    /\ Ops \subseteq Op
    /\ None \notin Op \cup Nat
    /\ Torn \notin Image
    /\ NoFile \notin Image \cup {Torn} \cup Target \cup Blob
    /\ Command = ShellCommand
    /\ Piece = Printed

VARIABLES
    proc,       \* the current process, 0 before the first
    op,         \* its command
    step,       \* the step of the command it is at
    codec,      \* the compression it has picked
    exit,       \* its exit code, None while it runs
    got,        \* what pull has fetched
    target,     \* the targets' contents
    blob, raw,  \* <scratch>/<xid>/out; the unpacked or patched file beside it
    zstd,       \* the device has zstd
    up,         \* the agent is running
    faults,     \* device failures so far
    loaded,     \* history: contents loaded into the kernel
    readBack,   \* history: contents whose digest the device read back from a
                \* target after writing it
    left        \* history: a process ended with frames still on the line

procVars   == <<proc, op, step, codec, exit, got, left>>
deviceVars == <<target, blob, raw, zstd, up, faults, loaded, readBack>>
vars == <<line, execVars, procVars, deviceVars>>

Init ==
    /\ ExecInit
    /\ proc = 0
    /\ op = None
    /\ step = 1
    /\ codec = "gzip"
    /\ exit = 0
    /\ got = <<>>
    /\ target \in [Target -> Image \cup {NoFile}]
    /\ blob = [p \in Procs |-> NoFile]
    /\ raw = [p \in Procs |-> NoFile]
    /\ zstd \in BOOLEAN
    /\ up = TRUE
    /\ faults = 0
    /\ loaded = {}
    /\ readBack = {}
    /\ left = FALSE
-----------------------------------------------------------------------------
\* The host.

\* Mutant: the module is loaded before the copy is read back.
InstallStepsLoadFirst == <<"codec", "deliver", "unpack", "copy", "load", "sum">>

InstallSteps == <<"codec", "deliver", "unpack", "copy", "sum", "load">>

Steps(do) ==
    [push    |-> <<"codec", "deliver", "unpack", "copy", "sum">>,
     flash   |-> <<"codec", "deliver", "unpack", "write">>,
     install |-> InstallSteps,
     delta   |-> <<"codec", "base", "deliver", "patch", "write", "tidy">>,
     pull    |-> <<"read">>,
     run     |-> <<"probe">>][do]

Now == Steps(op.do)[step]

Running == exit = None

\* A user starts the next process, whatever the last one was doing: it may
\* have ended, or be killed.
Start(o) ==
    /\ proc < MaxProcs
    /\ proc' = proc + 1
    /\ op' = o
    /\ step' = 1
    /\ exit' = None
    /\ codec' = "gzip"
    /\ got' = <<>>
    /\ left' = (left \/ line # <<<<>>, <<>>>>)
    /\ ExecFresh
    /\ UNCHANGED deviceVars

\* The step succeeded: the next one, or exit code 0.
GoesOn ==
    IF step < Len(Steps(op.do))
    THEN step' = step + 1 /\ UNCHANGED exit
    ELSE exit' = 0 /\ UNCHANGED step

\* Any error ends the command; main prints it and exits, with 2 after run,
\* with 3 after the transfers.
Fails == exit' = (IF op.do = "run" THEN 2 ELSE 3) /\ UNCHANGED step

Issues ==
    /\ Running
    /\ Now # "deliver"
    /\ ExecSends([do |-> Now, p |-> proc, target |-> IF op.do = "run" THEN NoFile ELSE op.target])
    /\ UNCHANGED <<procVars, deviceVars>>

Pumps ==
    \/ ExecPumps /\ UNCHANGED <<procVars, deviceVars>>
    \/ \E i \in DOMAIN inbox : TakesOut(i) /\ UNCHANGED <<procVars, deviceVars>>

\* Mutant: the unpacked image is used without a look at its digest.
DigestPassesUngated(a) == Now \in {"sum", "patch"} => a.stdout = <<Sha(op.image)>>

\* The digest of the unpacked, patched or copied file is that of the image.
DigestPasses(a) == Now \in {"unpack", "sum", "patch"} => a.stdout = <<Sha(op.image)>>

\* Mutant: the byte count of dd is checked, the digest read back is not.
WritePassesByCount(a) == Now = "write" => \E c \in Content : a.stdout = <<Wrote(TRUE, c)>>

\* dd has moved all bytes, and what was read back is the image.
WritePasses(a) == Now = "write" => a.stdout = <<Wrote(TRUE, op.image)>>

\* What the answer of a step must be for the command to go on.  Nobody looks
\* at the exit code of the zstd probe and of the final clean-up; a delta needs
\* zstd on the device and the base on the target.
Passes(a) ==
    /\ Now \notin {"codec", "probe", "tidy"} => a.code = 0
    /\ op.do = "delta" /\ Now = "codec" => a.stdout = <<Has(TRUE)>>
    /\ Now = "base" => a.stdout = <<Sha(op.base)>>
    /\ DigestPasses(a)
    /\ WritePasses(a)

\* The zstd probe picks the codec, pull keeps stdout, run exits with the code
\* of its command.
Concludes(a) ==
    /\ codec' = IF Now = "codec" /\ a.stdout = <<Has(TRUE)>> THEN "zstd" ELSE codec
    /\ got' = IF Now = "read" THEN a.stdout ELSE got
    /\ IF Now = "probe" THEN exit' = a.code /\ UNCHANGED step ELSE GoesOn

Answered ==
    \E i \in DOMAIN inbox :
        /\ TakesExit(i)
        /\ IF Intact(inbox[i]) /\ Passes(Answer(i))
           THEN Concludes(Answer(i))
           ELSE /\ IF Now = "tidy" THEN GoesOn ELSE Fails
                /\ UNCHANGED <<codec, got>>
        /\ UNCHANGED <<proc, op, left, deviceVars>>

\* The clean-up after a delta is best effort.
TimesOut ==
    /\ Deadline
    /\ IF Now = "tidy" THEN GoesOn ELSE Fails
    /\ UNCHANGED <<proc, op, codec, got, left, deviceVars>>

Payload ==
    IF op.do = "delta"
    THEN [form |-> "patch", of |-> op.image, base |-> op.base]
    ELSE [form |-> codec, of |-> op.image]

\* send_blob is Ok: its answers came after everything that was on the line,
\* which is in the inbox now.
Delivers ==
    /\ Running
    /\ Now = "deliver"
    /\ up
    /\ toDev = <<>>
    /\ blob' = [blob EXCEPT ![proc] = Payload]
    /\ inbox' = inbox \o toHost
    /\ toHost' = <<>>
    /\ GoesOn
    /\ UNCHANGED <<toDev, cid, waiting, out, proc, op, codec, got, left,
                   target, raw, zstd, up, faults, loaded, readBack>>

\* send_blob ends in an error.
DeliveryFails ==
    /\ Running
    /\ Now = "deliver"
    /\ Fails
    /\ UNCHANGED <<line, execVars, proc, op, codec, got, left, deviceVars>>

\* The daemon is gone, or the port is not connected.
LinkFails ==
    /\ Running
    /\ Now # "deliver"
    /\ waiting' = FALSE
    /\ IF Now = "tidy" THEN GoesOn ELSE Fails
    /\ UNCHANGED <<line, inbox, cid, out, proc, op, codec, got, left, deviceVars>>

Host ==
    \/ \E o \in Ops : Start(o)
    \/ Issues \/ Pumps \/ Answered \/ TimesOut \/ Delivers \/ DeliveryFails \/ LinkFails
-----------------------------------------------------------------------------
\* The device runs the command at the head of the line.
cmd == Head(toDev).cmd

Runs(do) == up /\ toDev # <<>> /\ cmd.do = do

Fault == faults < MaxFaults /\ faults' = faults + 1

Ok(stdout)  == Answers(0, stdout, <<>>)
Error       == Answers(1, <<>>, <<Text>>)
Unchanged(v) == UNCHANGED <<v, zstd, up, execVars, procVars>>

\* Commands that only look, or whose effect does not matter here.
Probes ==
    /\ \/ Runs("codec") /\ Ok(<<Has(zstd)>>)
       \/ Runs("probe") /\ \E code \in 0 .. 1 : Answers(code, <<Text>>, <<Text>>)
       \/ Runs("base") /\ Ok(<<Sha(target[cmd.target])>>)
       \/ Runs("sum") /\ Ok(IF target[cmd.target] = NoFile THEN <<>> ELSE <<Sha(target[cmd.target])>>)
    /\ Unchanged(<<target, blob, raw, faults, loaded, readBack>>)

\* cat of a file, or dd of a slice of a partition.
Reads ==
    /\ Runs("read")
    /\ IF target[cmd.target] = NoFile THEN Error
       ELSE Ok([k \in 1 .. 2 |-> Part(target[cmd.target], k)])
    /\ Unchanged(<<target, blob, raw, faults, loaded, readBack>>)

\* A tmpfs fills up while the answer is prepared.
ReadCut ==
    /\ Runs("read")
    /\ target[cmd.target] # NoFile
    /\ AnswersShort(0, [k \in 1 .. 2 |-> Part(target[cmd.target], k)])
    /\ Fault
    /\ Unchanged(<<target, blob, raw, loaded, readBack>>)

\* The file that the blob of the command's process gives: the image it packs,
\* or the image it patches the content of the target to.  Without zstd only
\* gzip is unpacked, and a patch against another base fails.
Unpacked ==
    LET b == blob[cmd.p]
    IN IF \/ b = NoFile
          \/ b.form # "gzip" /\ ~zstd
          \/ b.form = "patch" /\ target[cmd.target] # b.base
       THEN Torn ELSE b.of

Unpacks ==
    /\ Runs("unpack") \/ Runs("patch")
    /\ raw' = [raw EXCEPT ![cmd.p] = Unpacked]
    /\ IF Unpacked = Torn THEN Error ELSE Ok(<<Sha(Unpacked)>>)
    /\ Unchanged(<<target, blob, faults, loaded, readBack>>)

\* The scratch directory is full, or what was unpacked is not what was packed.
UnpackFails ==
    /\ Runs("unpack") \/ Runs("patch")
    /\ raw' = [raw EXCEPT ![cmd.p] = Torn]
    /\ Error \/ Ok(<<Sha(Torn)>>)
    /\ Fault
    /\ Unchanged(<<target, blob, loaded, readBack>>)

\* The content is put on the target of the command.
Puts(content) == target' = [target EXCEPT ![cmd.target] = content]

\* dd, sync, the byte count, and the digest of what the target holds then.
Writes ==
    /\ Runs("write")
    /\ IF raw[cmd.p] = NoFile
       THEN Error /\ UNCHANGED <<target, readBack>>
       ELSE /\ Puts(raw[cmd.p])
            /\ readBack' = readBack \cup {raw[cmd.p]}
            /\ Ok(<<Wrote(raw[cmd.p] \in Image, raw[cmd.p])>>)
    /\ Unchanged(<<blob, raw, faults, loaded>>)

\* A write that ends early or goes wrong: dd fails, or reports the bytes it
\* moved, or moved them all but not to where they are read from.
WriteFails ==
    /\ Runs("write")
    /\ raw[cmd.p] # NoFile
    /\ Puts(Torn)
    /\ \/ Error /\ UNCHANGED readBack
       \/ /\ readBack' = readBack \cup {Torn}
          /\ \E all \in BOOLEAN : Ok(<<Wrote(all, Torn)>>)
    /\ Fault
    /\ Unchanged(<<blob, raw, loaded>>)

\* cp into place; install-module also prints the path.
Copies ==
    /\ Runs("copy")
    /\ IF raw[cmd.p] = NoFile THEN Error /\ UNCHANGED target
       ELSE Puts(raw[cmd.p]) /\ Ok(<<Text>>)
    /\ Unchanged(<<blob, raw, faults, loaded, readBack>>)

CopyFails ==
    /\ Runs("copy")
    /\ raw[cmd.p] # NoFile
    /\ Puts(Torn)
    /\ Error \/ Ok(<<Text>>)
    /\ Fault
    /\ Unchanged(<<blob, raw, loaded, readBack>>)

\* depmod or insmod of the installed file.
Loads ==
    /\ Runs("load")
    /\ IF target[cmd.target] = NoFile THEN Error /\ UNCHANGED loaded
       ELSE loaded' = loaded \cup {target[cmd.target]} /\ Ok(<<>>)
    /\ Unchanged(<<target, blob, raw, faults, readBack>>)

\* rm of the scratch files of a delta.
Tidies ==
    /\ Runs("tidy")
    /\ raw' = [raw EXCEPT ![cmd.p] = NoFile]
    /\ Ok(<<>>)
    /\ Unchanged(<<target, blob, faults, loaded, readBack>>)

\* The device dies, perhaps inside a command that has done part of its work,
\* and perhaps loses a scratch directory that is a tmpfs.
Crashes ==
    /\ up
    /\ Fault
    /\ up' = FALSE
    /\ \/ UNCHANGED <<line, target>>
       \/ /\ toDev # <<>>
          /\ cmd.do \in {"write", "copy"} /\ raw[cmd.p] # NoFile
          /\ \E content \in {Torn, raw[cmd.p]} : Puts(content)
          /\ toDev' = Tail(toDev) /\ UNCHANGED toHost
    /\ \/ UNCHANGED <<blob, raw>>
       \/ blob' = [p \in Procs |-> NoFile] /\ raw' = [p \in Procs |-> NoFile]
    /\ UNCHANGED <<zstd, loaded, readBack, execVars, procVars>>

Boots ==
    /\ ~up
    /\ up' = TRUE
    /\ UNCHANGED <<line, target, blob, raw, zstd, faults, loaded, readBack, execVars, procVars>>

Device ==
    \/ Probes \/ Reads \/ ReadCut \/ Unpacks \/ UnpackFails \/ Writes \/ WriteFails
    \/ Copies \/ CopyFails \/ Loads \/ Tidies \/ Crashes \/ Boots

Loss == ExecLoses /\ UNCHANGED <<execVars, procVars, deviceVars>>

Next == Host \/ Device \/ Loss

Spec == Init /\ [][Next]_vars
-----------------------------------------------------------------------------
\* Every variable holds a value of its type.
TypeOK ==
    /\ ExecTypeOK
    /\ proc \in 0 .. MaxProcs
    /\ op \in Op \cup {None}
    /\ step \in 1 .. 6
    /\ codec \in {"zstd", "gzip"}
    /\ exit \in Nat \cup {None}
    /\ got \in Seq(Piece)
    /\ target \in [Target -> Content]
    /\ blob \in [Procs -> Blob \cup {NoFile}]
    /\ raw \in [Procs -> Content]
    /\ zstd \in BOOLEAN
    /\ up \in BOOLEAN
    /\ faults \in 0 .. MaxFaults
    /\ loaded \subseteq Content
    /\ readBack \subseteq Content
    /\ left \in BOOLEAN

Succeeded(kinds) == exit = 0 /\ proc > 0 /\ op.do \in kinds

\* A flash that reports success is backed by a read-back: the device has read
\* the digest of that image back from a partition it had just written, however
\* many frames were lost and whatever earlier processes left on the line.
ClaimIsBacked == Succeeded({"flash", "delta"}) => op.image \in readBack

\* The target of a command that reports success holds the image: "It never
\* claims success on a short or corrupt write" (uartfs/README.md:48-49).
NoFalseSuccess ==
    Succeeded({"push", "flash", "delta", "install"}) => target[op.target] = op.image

\* NoFalseSuccess, as long as no process ended with frames on the line.
SuccessIsInPlace == ~left => NoFalseSuccess

\* A pull that succeeds has fetched what the target holds, all of it, unless
\* an earlier process left frames on the line.
PullIsExact ==
    ~left /\ Succeeded({"pull"}) => got = [k \in 1 .. 2 |-> Part(target[op.target], k)]

\* A payload is used only after its decompressed form was found to be the
\* image (commands.rs:232): the file that a write or a copy on its way to the
\* device takes is the image, or is gone after a crash.
OnlyGatedPayloads ==
    ~left /\ Running /\ waiting /\ Now \in {"write", "copy"} => raw[proc] \in {op.image, NoFile}

\* Only a whole module is ever loaded into the kernel.
LoadsWholeModules == ~left => loaded \subseteq Image

\* Every command ends, whatever becomes of its frames.
CommandReturns == Running ~> ~Running

FairSpec ==
    Spec /\ WF_vars(Issues \/ Pumps \/ Answered \/ TimesOut \/ Delivers \/ DeliveryFails)
=============================================================================
