------------------------------ MODULE Verified ------------------------------
(***************************************************************************)
(* uart run and uart login, crates/uart-core/src/verified.rs: a command    *)
(* that carries its own checksum, over a console that drops characters,    *)
(* and no agent on the device.                                             *)
(*                                                                         *)
(* A line typed at the device arrives, is lost, or loses characters.  What *)
(* that does to a command depends on where it strikes: in the payload, the *)
(* device sees that the sum is wrong; in the shell text around it, which   *)
(* no sum covers, anything may come of it, also an answer that has a right *)
(* sum and is not the command's.  On the way back, characters are missing  *)
(* from the output, from the exit code, or from the marker with its nonce, *)
(* and then the line is not recognised.                                    *)
(*                                                                         *)
(* The drain buffer of the daemon drops its oldest text when it is full.   *)
(* The echo of a command, whose text holds the marker too, is left out: it *)
(* has no number where the exit code is.                                   *)
(***************************************************************************)
EXTENDS Naturals, Sequences, FiniteSets

CONSTANTS
    Code,       \* exit codes
    Out,        \* outputs
    Results,    \* what the command of uart run may end with
    Strays,     \* what a one-liner with damaged shell text may answer
    Misread,    \* what an exit code reads like when a digit is lost
    Empty,      \* no output
    CmdCorrupt, \* CMD_CORRUPT_MSG
    Retries,    \* RunOpts.retries, 4 by default
    MaxCalls,   \* bound on the uart run and uart login processes
    MaxMishaps, \* bound on the lines lost or damaged and the reboots
    DevCap,     \* bound on the lines typed ahead of the device
    HostCap     \* capacity of the drain buffer, in lines

CmdCorruptRc == 251

Result == [code : Code, out : Out]

\* 251 and what it reads like with digits missing: none of that is a 0.
Refusals(Z) == CmdCorruptRc \in Z /\ 0 \notin Z /\ \A c \in Z : Misread[c] \subseteq Z

ASSUME VerifiedAssumption ==
    /\ Results \subseteq Result
    /\ Strays \subseteq Result
    /\ Misread \in [Code -> SUBSET Code]
    /\ \E Z \in SUBSET Code : Refusals(Z)
    /\ {0, CmdCorruptRc} \subseteq Code
    /\ {Empty, CmdCorrupt} \subseteq Out
    /\ Retries \in Nat
    /\ MaxCalls \in Nat
    /\ MaxMishaps \in Nat
    /\ DevCap \in Nat \ {0}
    /\ HostCap \in Nat \ {0}

VARIABLES
    toDev,      \* lines for the device that it has not read
    unsent,     \* how many of them, the last ones, the host has yet to send
    toHost,     \* the drain buffer and what is on its way to it
    step,       \* what the host waits for
    caller,     \* who called run
    nonce,      \* the nonce of the last attempt
    attempt,    \* attempts of the current run before this one
    outcome,    \* how the last uart run or uart login ended
    calls,      \* uart run and uart login processes so far
    mode,       \* who reads the device's tty
    mishaps,    \* lines lost or damaged and reboots so far
    ran,        \* history: what shells have answered to one-liners
    hurried     \* history: login went on before the device had dealt with its probe

\* What the host's progress consists of, but for the probe's history.
stageVars == <<step, caller, nonce, attempt, outcome, calls>>
hostVars == <<stageVars, unsent, hurried>>
vars == <<toDev, toHost, hostVars, mode, mishaps, ran>>

\* Text typed at the device; all but the user name ends in a newline.  ^U with
\* its newline is "kill".  Of a one-liner, the payload is whole or not, and so
\* is the shell text around it.
TypedText == [kind : {"kill", "enter", "user", "pass"}]
TypedCommand == [kind : {"cmd"}, nonce : Nat, cmd : {"command", "true"},
                 whole : BOOLEAN, text : BOOLEAN]

\* An answer: of which command, whether its shell text was whole, and whether
\* the command itself ended like this.
Answer == [nonce : Nat, cmd : {"command", "true"}, text : BOOLEAN, own : BOOLEAN,
           code : Code, out : Out]

\* Text of the device, as far as login looks for it, and the line of the END
\* marker.
Shown == [kind : {"login:", "user", "assword"}]
EndLine == [kind : {"end"}, nonce : Nat, code : Code, out : Out, sum : BOOLEAN]

Failures == {"none", "io", "failed", "no login prompt", "not confirmed"}
NoResult == [code |-> 0, out |-> Empty]
NoOutcome == [how |-> "none", result |-> NoResult]

\* A getty may have shown its prompt before the host looks; and a shell may have
\* that prompt left in the buffer from before somebody logged in.
Init ==
    /\ toDev = <<>>
    /\ unsent = 0
    /\ toHost \in {<<>>, <<[kind |-> "login:"]>>}
    /\ step = "idle"
    /\ caller = "nobody"
    /\ nonce = 0
    /\ attempt = 0
    /\ outcome = NoOutcome
    /\ calls = 0
    /\ mode \in {"login", "shell"}
    /\ mishaps = 0
    /\ ran = {}
    /\ hurried = FALSE

\* What the host has sent.  It sends a number of texts, each with a request of
\* its own, before it reads again; when one fails the rest is not sent.
Typed == SubSeq(toDev, 1, Len(toDev) - unsent)

Types(texts) ==
    /\ toDev' = Typed \o texts
    /\ unsent' = Len(texts)

\* Console::send returns once the daemon has written the text.
Sends ==
    /\ unsent > 0
    /\ Len(Typed) < DevCap
    /\ unsent' = unsent - 1
    /\ UNCHANGED <<toDev, toHost, stageVars, hurried>>

Text(kind) == [kind |-> kind]

EndsWith(how, r) ==
    /\ Types(<<>>)
    /\ step' = "idle"
    /\ outcome' = [how |-> how, result |-> r]
    /\ UNCHANGED <<caller, nonce, attempt, calls, hurried>>

Ends(how) == EndsWith(how, NoResult)

\* Console::read: what has arrived, and that is the buffer as it is now.
ReadsOn(n) == unsent = 0 /\ toHost' = SubSeq(toHost, n + 1, Len(toHost))

\* A deadline is looked at where the host reads.
PassesOver(waiting) == unsent = 0 /\ step = waiting /\ UNCHANGED toHost
-----------------------------------------------------------------------------
\* ^U and the one-liner of run, after the password or after nothing.
OneLiner(who, n) == <<Text("kill"),
    [kind |-> "cmd", nonce |-> n, cmd |-> IF who = "run" THEN "command" ELSE "true",
     whole |-> TRUE, text |-> TRUE]>>

\* One attempt of run, with a fresh nonce.
TriesAfter(before, who, n) ==
    /\ nonce' = nonce + 1
    /\ Types(before \o OneLiner(who, nonce + 1))
    /\ step' = "run"
    /\ caller' = who
    /\ attempt' = n
    /\ outcome' = NoOutcome
    /\ UNCHANGED hurried

Tries(who, n) == TriesAfter(<<>>, who, n)

TypesAndWaits(kind, waiting) ==
    /\ Types(<<Text(kind)>>)
    /\ step' = waiting
    /\ UNCHANGED <<caller, nonce, attempt, outcome, calls>>

\* login nudges a quiet getty and waits for its prompt.  Its probe may not have
\* been dealt with by then: a line of it is unread, or what came of one.
Nudges ==
    /\ TypesAndWaits("enter", "prompt")
    /\ hurried' = (hurried \/ Typed # <<>> \/ toHost' # <<>>)

TypesUser == TypesAndWaits("user", "echo") /\ UNCHANGED hurried

\* run ends without a result, or with one that is no shell's.
RunFails ==
    \/ caller = "run" /\ Ends("failed")
    \/ caller = "probe" /\ Nudges
    \/ caller = "confirm" /\ Ends("not confirmed")

\* Mutant: login takes any answer of its confirming run for a shell.
RunSucceedsAlways(r) ==
    \/ caller = "run" /\ EndsWith("ok", r)
    \/ caller # "run" /\ Ends("logged in")

RunSucceeds(r) ==
    \/ caller = "run" /\ EndsWith("ok", r)
    \/ caller # "run" /\ r.code = 0 /\ Ends("logged in")
    \/ caller # "run" /\ r.code # 0 /\ RunFails

\* The probe of login has no retries.
Limit == IF caller = "probe" THEN 0 ELSE Retries

\* Mutant: one attempt too many.
AttemptFailsLate ==
    IF attempt <= Limit THEN Tries(caller, attempt + 1) /\ UNCHANGED calls ELSE RunFails

AttemptFails ==
    IF attempt < Limit THEN Tries(caller, attempt + 1) /\ UNCHANGED calls ELSE RunFails

\* Mutant: the checksum of the output is not compared.
ParsedUnchecked(e) ==
    IF e.code = CmdCorruptRc /\ e.out = CmdCorrupt
    THEN AttemptFails
    ELSE RunSucceeds([code |-> e.code, out |-> IF e.sum THEN e.out ELSE Empty])

\* parse_result has found the END line of this attempt's nonce: its output may
\* be damaged, or it may say that the command was.
Parsed(e) ==
    IF ~e.sum \/ (e.code = CmdCorruptRc /\ e.out = CmdCorrupt)
    THEN AttemptFails
    ELSE RunSucceeds([code |-> e.code, out |-> e.out])

IsMine(e) == e.kind = "end" /\ e.nonce = nonce

\* What is read tells nothing yet: the next wait of the poll loop.
ReadsInVain == UNCHANGED <<toDev, unsent, stageVars, hurried>>

RunReads(n) ==
    /\ step = "run"
    /\ ReadsOn(n)
    /\ \/ \E i \in 1 .. n :
             /\ IsMine(toHost[i])
             /\ \A j \in 1 .. i - 1 : ~IsMine(toHost[j])
             /\ Parsed(toHost[i])
       \/ (\A i \in 1 .. n : ~IsMine(toHost[i])) /\ ReadsInVain

\* Mutant: the deadline is looked at only when something was read.
RunTimesOutOnText == PassesOver("run") /\ toHost # <<>> /\ AttemptFails

RunTimesOut == PassesOver("run") /\ AttemptFails
-----------------------------------------------------------------------------
\* uart run, and uart login: a process of its own each.
UartRun ==
    /\ step = "idle"
    /\ calls < MaxCalls
    /\ calls' = calls + 1
    /\ Tries("run", 0)
    /\ UNCHANGED toHost

UartLogin ==
    /\ step = "idle"
    /\ calls < MaxCalls
    /\ calls' = calls + 1
    /\ step' = "peek"
    /\ outcome' = NoOutcome
    /\ UNCHANGED <<toDev, unsent, toHost, caller, nonce, attempt, hurried>>

Shows(n, kind) == \E i \in 1 .. n : toHost[i].kind = kind

\* read_for: a prompt, or else a probe for a shell.
Peeks(n) ==
    /\ step = "peek"
    /\ ReadsOn(n)
    /\ IF Shows(n, "login:") THEN TypesUser ELSE Tries("probe", 0) /\ UNCHANGED calls

\* wait_for: reads until the text shows; what was read with it is gone as well.
StillWaits(waiting, n, kind) ==
    /\ step = waiting
    /\ ReadsOn(n)
    /\ ~Shows(n, kind)
    /\ ReadsInVain

PromptShows(n) ==
    /\ step = "prompt"
    /\ ReadsOn(n)
    /\ Shows(n, "login:")
    /\ TypesUser

TypesEnter == TypesAndWaits("enter", "password") /\ UNCHANGED hurried

EchoShows(n) ==
    /\ step = "echo"
    /\ ReadsOn(n)
    /\ Shows(n, "user")
    /\ TypesEnter

\* The echo is waited for as a courtesy only.
EchoTimesOut == PassesOver("echo") /\ TypesEnter

\* Mutant: any text is taken for the prompt.
PasswordAskedByAnything(n) ==
    /\ step = "password"
    /\ ReadsOn(n)
    /\ TriesAfter(<<Text("pass")>>, "confirm", 0)
    /\ UNCHANGED calls

\* The password, blind, and the run that confirms the login.
PasswordAsked(n) ==
    /\ step = "password"
    /\ ReadsOn(n)
    /\ Shows(n, "assword")
    /\ TriesAfter(<<Text("pass")>>, "confirm", 0)
    /\ UNCHANGED calls

\* Neither prompt: NoLoginPrompt.
PromptTimesOut ==
    /\ PassesOver("prompt") \/ PassesOver("password")
    /\ Ends("no login prompt")

\* A request fails, since the daemon does not answer or the port is not
\* connected.  That ends the process, unless it is run's and login called it:
\* the probe has failed then, or the confirmation.  Or the process is killed.
LinkFails ==
    /\ step # "idle"
    /\ UNCHANGED toHost
    /\ Ends("io") \/ (step = "run" /\ caller # "run" /\ RunFails)

Calls == UartRun \/ UartLogin

Reads ==
    \/ Peeks(0)
    \/ \E n \in 1 .. Len(toHost) :
          \/ RunReads(n) \/ Peeks(n) \/ PromptShows(n) \/ EchoShows(n) \/ PasswordAsked(n)
          \/ StillWaits("prompt", n, "login:")
          \/ StillWaits("echo", n, "user")
          \/ StillWaits("password", n, "assword")

TimesOut == RunTimesOut \/ EchoTimesOut \/ PromptTimesOut

Host ==
    /\ Calls \/ Sends \/ Reads \/ TimesOut \/ LinkFails
    /\ UNCHANGED <<mode, mishaps, ran>>
-----------------------------------------------------------------------------
\* The device prints a line; the drain buffer makes room for it.
Prints(m) ==
    toHost' = IF Len(toHost) < HostCap THEN Append(toHost, m) ELSE Append(Tail(toHost), m)

\* getty and login: in a mode, a line leads to a mode and to a text.  "named"
\* is a user name without its Enter, "wrong" the password prompt for a name
\* that is no user's, or with something typed at it already.  The password is
\* right, and the login ends in "Last login: ...", or it is not.
Getty ==
    {<<"login", "kill", "login", "login:">>, <<"login", "enter", "login", "login:">>,
     <<"login", "user", "named", "user">>, <<"login", "cmd", "wrong", "assword">>,
     <<"login", "pass", "wrong", "assword">>,
     <<"named", "kill", "login", "login:">>, <<"named", "enter", "password", "assword">>,
     <<"named", "cmd", "wrong", "assword">>, <<"named", "pass", "wrong", "assword">>,
     <<"named", "user", "named", "user">>,
     <<"password", "pass", "shell", "login:">>, <<"password", "pass", "login", "login:">>,
     <<"password", "kill", "login", "login:">>,
     <<"password", "enter", "login", "login:">>, <<"password", "cmd", "login", "login:">>}
    \cup {<<"wrong", kind, "login", "login:">> : kind \in {"kill", "enter", "cmd", "pass"}}

Line == Head(toDev)
TakesLine == Len(Typed) > 0 /\ toDev' = Tail(toDev)
TakesCommand == TakesLine /\ mode = "shell" /\ Line.kind = "cmd"

GettyReads ==
    /\ TakesLine
    /\ \E move \in Getty :
          /\ move[1] = mode
          /\ move[2] = Line.kind
          /\ mode' = move[3]
          /\ Prints([kind |-> move[4]])
    /\ UNCHANGED ran

\* The user's name, typed at a password prompt.
GettyReadsBlind ==
    /\ TakesLine
    /\ mode \in {"password", "wrong"}
    /\ Line.kind = "user"
    /\ mode' = "wrong"
    /\ UNCHANGED <<toHost, ran>>

Reply(n, r) == Prints([kind |-> "end", nonce |-> n, code |-> r.code, out |-> r.out, sum |-> TRUE])

\* What a command may end with.
Endings(cmd) == IF cmd = "true" THEN {NoResult} ELSE Results

\* The one-liner at hand is answered with r, which is what its own command has
\* ended with or is not.
Answers(r, own) ==
    /\ ran' = ran \cup {[nonce |-> Line.nonce, cmd |-> Line.cmd, text |-> Line.text,
                          own |-> own, code |-> r.code, out |-> r.out]}
    /\ Reply(Line.nonce, r)

\* The device says that the payload is damaged.
Refuses == Reply(Line.nonce, [code |-> CmdCorruptRc, out |-> CmdCorrupt]) /\ UNCHANGED ran

\* Mutant: the payload is run without a look at its sum.
ShellRunsUnchecked ==
    /\ TakesCommand
    /\ Line.text
    /\ \E r \in Endings(Line.cmd) : Answers(r, Line.whole)
    /\ UNCHANGED mode

\* The one-liner has arrived whole: the payload runs, to whatever result.
ShellRuns ==
    /\ TakesCommand
    /\ Line.text
    /\ Line.whole
    /\ \E r \in Endings(Line.cmd) : Answers(r, Line.whole)
    /\ UNCHANGED mode

\* With its payload damaged, and that only.
ShellRefuses ==
    /\ TakesCommand
    /\ Line.text
    /\ ~Line.whole
    /\ Refuses
    /\ UNCHANGED mode

\* The shell text around the payload is damaged.  Nothing comes of it, or
\* nothing that is recognised, and a quote may be left open; or the loss does
\* not matter; or the check of the payload fails; or what is answered, with its
\* right sum, is something else: sh was given another text than the payload, or
\* OUT or rc was not set to what came of it.
ShellMisreads ==
    /\ TakesCommand
    /\ ~Line.text
    /\ \/ mode' \in {"shell", "quoted"} /\ UNCHANGED <<toHost, ran>>
       \/ Line.whole /\ (\E r \in Endings(Line.cmd) : Answers(r, TRUE)) /\ UNCHANGED mode
       \/ Refuses /\ UNCHANGED mode
       \/ (\E r \in Strays : Answers(r, FALSE)) /\ UNCHANGED mode

\* A shell takes anything else for a command it has not got.
ShellIgnores ==
    /\ TakesLine
    /\ mode = "shell"
    /\ Line.kind # "cmd"
    /\ UNCHANGED <<toHost, mode, ran>>

\* One that waits for the end of a quoted text takes everything for text; the
\* quotes of a one-liner may end it.
ShellReadsQuoted ==
    /\ TakesLine
    /\ mode = "quoted"
    /\ mode' = "quoted" \/ (Line.kind = "cmd" /\ mode' = "shell")
    /\ UNCHANGED <<toHost, ran>>

Device ==
    /\ \/ GettyReads \/ GettyReadsBlind
       \/ ShellRuns \/ ShellRefuses \/ ShellMisreads \/ ShellIgnores \/ ShellReadsQuoted
    /\ UNCHANGED <<hostVars, mishaps>>
-----------------------------------------------------------------------------
LineLost == TakesLine /\ UNCHANGED <<toHost, mode>>

CommandArrives == Len(Typed) > 0 /\ Line.kind = "cmd"

PayloadDamaged ==
    /\ CommandArrives
    /\ toDev' = [toDev EXCEPT ![1].whole = FALSE]
    /\ UNCHANGED <<toHost, mode>>

ShellTextDamaged ==
    /\ CommandArrives
    /\ toDev' = [toDev EXCEPT ![1].text = FALSE]
    /\ UNCHANGED <<toHost, mode>>

TextLost == toHost # <<>> /\ toHost' = Tail(toHost) /\ UNCHANGED <<toDev, mode>>

LastShown == Len(toHost)

OutputDamaged ==
    /\ toHost # <<>>
    /\ toHost[LastShown].kind = "end"
    /\ toHost' = [toHost EXCEPT ![LastShown].sum = FALSE]
    /\ UNCHANGED <<toDev, mode>>

\* The checksum is that of the output; the exit code has none.
CodeDamaged ==
    /\ toHost # <<>>
    /\ toHost[LastShown].kind = "end"
    /\ \E c \in Misread[toHost[LastShown].code] : toHost' = [toHost EXCEPT ![LastShown].code = c]
    /\ UNCHANGED <<toDev, mode>>

Reboot == mode' = "login" /\ Prints([kind |-> "login:"]) /\ UNCHANGED toDev

Mishap ==
    /\ mishaps < MaxMishaps
    /\ mishaps' = mishaps + 1
    /\ \/ LineLost \/ PayloadDamaged \/ ShellTextDamaged
       \/ TextLost \/ OutputDamaged \/ CodeDamaged
       \/ Reboot
    /\ UNCHANGED <<hostVars, ran>>

Next == Host \/ Device \/ Mishap

Spec == Init /\ [][Next]_vars

\* A process runs, its waits have deadlines, and the device reads its tty.
FairSpec ==
    /\ Spec
    /\ WF_vars((Sends \/ Reads) /\ UNCHANGED <<mode, mishaps, ran>>)
    /\ WF_vars(TimesOut /\ UNCHANGED <<mode, mishaps, ran>>)
    /\ WF_vars(Device)
-----------------------------------------------------------------------------
\* Every variable holds a value of its type; the host has sent what it is no
\* longer sending.
TypeOK ==
    /\ toDev \in Seq(TypedText \cup TypedCommand)
    /\ unsent \in 0 .. Len(toDev)
    /\ toHost \in Seq(Shown \cup EndLine)
    /\ Len(toHost) <= HostCap
    /\ step \in {"idle", "peek", "run", "prompt", "echo", "password"}
    /\ caller \in {"nobody", "run", "probe", "confirm"}
    /\ nonce \in Nat
    /\ attempt \in 0 .. Retries
    /\ outcome \in [how : Failures \cup {"ok", "logged in"}, result : Result]
    /\ calls \in 0 .. MaxCalls
    /\ mode \in {"login", "named", "password", "wrong", "shell", "quoted"}
    /\ mishaps \in 0 .. MaxMishaps
    /\ ran \subseteq Answer
    /\ hurried \in BOOLEAN

\* What run returns as output is all of what a shell has answered to this very
\* attempt: not to an earlier one that is answered late, and with nothing
\* missing.  And it is what the command has printed, unless the shell text of
\* the one-liner was damaged; a damaged payload alone never leads to a result.
\* (CMD_CORRUPT_MSG is returned once its code is misread.)
OutputIsGenuine ==
    outcome.how = "ok" =>
        \/ \E e \in ran : /\ e.nonce = nonce /\ e.cmd = "command"
                          /\ e.out = outcome.result.out
                          /\ e.own \/ ~e.text
        \/ outcome.result.out = CmdCorrupt

\* login reports a shell only if one has answered this login's own command, and
\* with 0, unless the shell text of the one-liner was damaged.
LoginIsConfirmed ==
    outcome.how = "logged in" =>
        \E e \in ran : e.nonce = nonce /\ e.cmd = "true" /\ (e.code = 0 \/ ~e.text)

\* The password is on its way to the device, or waits there to be read, and the
\* device echoes what arrives, and what it reads, and the log keeps it.
Exposed ==
    /\ mode \notin {"password", "wrong"}
    /\ \E i \in 1 .. Len(toDev) - unsent : toDev[i].kind = "pass"

\* The password is typed only where it is not echoed: by a login with nothing
\* lost, at a console that nobody has typed at before, once what its probe has
\* stirred up has been seen.  However late the prompts and the echo are after
\* that, the one that is answered is the one that was asked for.
PasswordUnseen == mishaps = 0 /\ calls = 1 /\ ~hurried => ~Exposed

\* uart run and uart login come back.
RunReturns == step # "idle" ~> step = "idle"

\* "nothing can be mistaken for success, because success requires the random
\* end-nonce AND a matching output sum" (verified.rs:10-11): an exit code of 0 is
\* one that a shell has ended the command itself with, at this attempt.
NothingMistakenForSuccess ==
    outcome.how = "ok" /\ outcome.result.code = 0 =>
        \E e \in ran : e.nonce = nonce /\ e.own /\ e.code = 0
=============================================================================
