--------------------------- MODULE VerifiedProofs ---------------------------
(***************************************************************************)
(* Theorems about Verified, for every number of retries, calls and mishaps *)
(* and every capacity of the console.                                      *)
(***************************************************************************)
EXTENDS Verified, SequenceTheorems, TLAPS

\* The command that run was last called with.
Asked == IF caller = "run" THEN "command" ELSE "true"

\* A refused command's exit code, also with digits missing.
Refused == CHOOSE Z \in SUBSET Code : Refusals(Z)

\* What is on its way to the device: commands carry the nonce of their attempt,
\* and those of the current attempt are what the caller asked for.
Sent == {m \in TypedText \cup TypedCommand :
            m.kind = "cmd" => m.nonce <= nonce /\ (m.nonce = nonce => m.cmd = Asked)}

\* What shells have answered: to commands that were sent, and with what these
\* have ended with, if the shell text was whole.
Run == {e \in Answer :
           /\ e.nonce <= nonce
           /\ e.nonce = nonce => e.cmd = Asked
           /\ e.own \/ ~e.text
           /\ e.cmd = "true" => e.code = 0 \/ ~e.text}

\* What is on its way back: an END line is the refusal of a damaged command, or
\* shows what a shell has answered to its nonce, whatever its exit code reads like.
Told == {m \in Shown \cup EndLine :
            m.kind = "end" => \/ m.out = CmdCorrupt /\ m.code \in Refused
                              \/ \E e \in ran : e.nonce = m.nonce /\ e.out = m.out}

Steps == {"idle", "peek", "run", "prompt", "echo", "password"}
Modes == {"login", "named", "password", "wrong", "shell", "quoted"}
Outcomes == [how : Failures \cup {"ok", "logged in"}, result : Result]

\* What a finished process claims is on record.
Backed(n, o) ==
    \E e \in ran : e.nonce = n /\ e.cmd = "command" /\ e.out = o /\ (e.own \/ ~e.text)
Confirmed(n) ==
    \E e \in ran : e.nonce = n /\ e.cmd = "true" /\ (e.code = 0 \/ ~e.text)
Claims == OutputIsGenuine /\ LoginIsConfirmed

\* The inductive invariant.
HostSound ==
    /\ step \in Steps
    /\ caller \in {"nobody", "run", "probe", "confirm"}
    /\ nonce \in Nat
    /\ attempt \in 0 .. Retries
    /\ outcome \in Outcomes
    /\ calls \in 0 .. MaxCalls
    /\ step = "run" => caller # "nobody"
    /\ hurried \in BOOLEAN
    /\ Claims

\* The host has sent what it is no longer sending.
Sending == toDev \in Seq(Sent) /\ unsent \in 0 .. Len(toDev)

Sound ==
    /\ Sending
    /\ toHost \in Seq(Told)
    /\ Len(toHost) <= HostCap
    /\ HostSound
    /\ mode \in Modes
    /\ mishaps \in 0 .. MaxMishaps
    /\ ran \subseteq Run

LEMMA RefusedCodes == Refused \subseteq Code /\ Refusals(Refused)
  <1>1. \E Z \in SUBSET Code : Refusals(Z)
    BY VerifiedAssumption
  <1>2. QED
    BY <1>1, Zenon DEF Refused
-----------------------------------------------------------------------------
\* What an operation on a line of text does to what it holds.
LEMMA TailOf ==
    ASSUME NEW S, NEW s \in Seq(S), s # <<>>
    PROVE  Tail(s) \in Seq(S) /\ Head(s) \in S /\ Len(Tail(s)) = Len(s) - 1 /\ Len(s) \in Nat
  BY HeadTailProperties, LenProperties

LEMMA RestOf ==
    ASSUME NEW S, NEW s \in Seq(S), NEW n \in 0 .. Len(s)
    PROVE  /\ SubSeq(s, n + 1, Len(s)) \in Seq(S)
           /\ Len(SubSeq(s, n + 1, Len(s))) <= Len(s)
  <1>1. Len(s) \in Nat /\ n \in Nat
    BY LenProperties
  <1>2. \A i \in n + 1 .. Len(s) : s[i] \in S
    BY <1>1, ElementOfSeq
  <1>3. /\ SubSeq(s, n + 1, Len(s)) \in Seq(S)
        /\ Len(SubSeq(s, n + 1, Len(s))) = IF n + 1 <= Len(s) THEN Len(s) - (n + 1) + 1 ELSE 0
    BY <1>1, <1>2, SubSeqProperties
  <1>4. QED
    BY <1>1, <1>3

LEMMA AppendOf ==
    ASSUME NEW S, NEW s \in Seq(S), NEW m \in S
    PROVE  Append(s, m) \in Seq(S) /\ Len(Append(s, m)) = Len(s) + 1
  BY AppendProperties

LEMMA TypedOf ==
    ASSUME NEW S, toDev \in Seq(S), unsent \in 0 .. Len(toDev)
    PROVE  /\ Typed \in Seq(S)
           /\ Len(Typed) = Len(toDev) - unsent
           /\ \A i \in 1 .. Len(Typed) : Typed[i] = toDev[i]
  <1>1. PICK k \in Nat : k = Len(toDev)
    BY LenProperties
  <1>2. PICK u \in 0 .. k : u = unsent
    BY <1>1
  <1>3. k - u \in 0 .. k /\ k - u \in Int /\ 1 .. k - u \subseteq 1 .. k
    BY <1>2
  <1>4. \A i \in 1 .. k - u : toDev[i] \in S
    BY <1>1, <1>3, ElementOfSeq
  <1> DEFINE s == SubSeq(toDev, 1, k - u)
  <1>5. /\ s \in Seq(S)
        /\ Len(s) = IF 1 <= k - u THEN k - u - 1 + 1 ELSE 0
        /\ \A i \in 1 .. k - u - 1 + 1 : s[i] = toDev[1 + i - 1]
    BY <1>3, <1>4, SubSeqProperties
  <1> HIDE DEF s
  <1>6. Len(s) = k - u /\ \A i \in 1 .. Len(s) : s[i] = toDev[i]
    <2>1. Len(s) = k - u
      BY <1>3, <1>5
    <2>2. \A i \in 1 .. k - u : i \in 1 .. k - u - 1 + 1 /\ 1 + i - 1 = i
      BY <1>3
    <2>3. QED
      BY <1>5, <2>1, <2>2
  <1>7. Typed = s
    BY <1>1, <1>2 DEF Typed, s
  <1>8. QED
    BY <1>1, <1>2, <1>5, <1>6, <1>7

\* The lines that are typed come after those that have been sent.
LEMMA TypesOf ==
    ASSUME NEW S, toDev \in Seq(S), unsent \in 0 .. Len(toDev), NEW T, S \subseteq T,
           NEW texts \in Seq(T), Types(texts)
    PROVE  toDev' \in Seq(T) /\ unsent' \in 0 .. Len(toDev')
  <1>1. Typed \in Seq(T)
    BY TypedOf, SeqMonotonic
  <1>2. Typed \o texts \in Seq(T) /\ Len(Typed \o texts) = Len(Typed) + Len(texts)
    BY <1>1, ConcatProperties
  <1>3. Len(Typed) \in Nat /\ Len(texts) \in Nat
    BY <1>1, LenProperties
  <1>4. \A a, b \in Nat : b \in 0 .. a + b
    OBVIOUS
  <1>5. QED
    BY <1>2, <1>3, <1>4 DEF Types

\* What the device prints fits into the buffer, which loses older text for it.
LEMMA PrintsFits ==
    ASSUME NEW S, toHost \in Seq(S), NEW m \in S, Len(toHost) <= HostCap, Prints(m)
    PROVE  toHost' \in Seq(S) /\ Len(toHost') <= HostCap
  <1>0. Len(toHost) \in Nat /\ HostCap \in Nat \ {0}
    BY LenProperties, VerifiedAssumption
  <1>1. CASE Len(toHost) < HostCap
    <2>1. toHost' = Append(toHost, m)
      BY <1>1 DEF Prints
    <2>2. toHost' \in Seq(S) /\ Len(toHost') = Len(toHost) + 1
      BY <2>1, AppendOf
    <2>3. QED
      BY <1>0, <1>1, <2>2
  <1>2. CASE ~(Len(toHost) < HostCap)
    <2>1. toHost' = Append(Tail(toHost), m)
      BY <1>2 DEF Prints
    <2>2. toHost # <<>>
      BY <1>0, <1>2, EmptySeq
    <2>3. Tail(toHost) \in Seq(S) /\ Len(Tail(toHost)) = Len(toHost) - 1
      BY <2>2, TailOf
    <2>4. toHost' \in Seq(S) /\ Len(toHost') = Len(Tail(toHost)) + 1
      BY <2>1, <2>3, AppendOf
    <2>5. QED
      BY <1>0, <2>3, <2>4
  <1>3. QED
    BY <1>1, <1>2
-----------------------------------------------------------------------------
LEMMA SoundInit == Init => Sound
  <1> SUFFICES ASSUME Init PROVE Sound
    OBVIOUS
  <1>1. Sending
    BY EmptySeq DEF Init, Sending
  <1>2. [kind |-> "login:"] \in Told
    BY DEF Told, Shown
  <1>3. toHost \in Seq(Told) /\ Len(toHost) <= HostCap
    <2>1. <<>> \in Seq(Told) /\ Len(<<>>) = 0
      BY EmptySeq
    <2>2. <<[kind |-> "login:"]>> \in Seq(Told) /\ Len(<<[kind |-> "login:"]>>) = 1
      BY <1>2
    <2>3. HostCap \in Nat \ {0}
      BY VerifiedAssumption
    <2>4. toHost = <<>> \/ toHost = <<[kind |-> "login:"]>>
      BY DEF Init
    <2>5. toHost \in Seq(Told)
      BY <2>1, <2>2, <2>4
    <2>6. Len(toHost) \in {0, 1}
      BY <2>1, <2>2, <2>4
    <2>7. QED
      BY <2>3, <2>5, <2>6
  <1>4. NoOutcome \in Outcomes /\ NoOutcome.how = "none"
    BY VerifiedAssumption DEF NoOutcome, NoResult, Outcomes, Result, Failures
  <1>5. HostSound
    BY <1>4, VerifiedAssumption
    DEF Init, HostSound, Steps, Claims, OutputIsGenuine, LoginIsConfirmed
  <1>6. mode \in Modes /\ mishaps \in 0 .. MaxMishaps /\ ran \subseteq Run
    BY VerifiedAssumption DEF Init, Modes
  <1>7. QED
    BY <1>1, <1>3, <1>5, <1>6 DEF Sound
-----------------------------------------------------------------------------
\* What the host's operations establish: commands sent and claims made are
\* sound again.
Acts == Sending' /\ HostSound' /\ Run \subseteq Run'

LEMMA SameCall ==
    ASSUME UNCHANGED <<nonce, caller>>
    PROVE  Sent' = Sent /\ Run' = Run
  <1>1. Asked' = Asked
    BY DEF Asked
  <1>2. QED
    BY <1>1 DEF Sent, Run

LEMMA TypesTyped ==
    ASSUME Sending, NEW texts \in Seq(Sent), Types(texts), UNCHANGED <<nonce, caller>>
    PROVE  Sending'
  <1>1. toDev' \in Seq(Sent) /\ unsent' \in 0 .. Len(toDev')
    BY TypesOf DEF Sending
  <1>2. QED
    BY <1>1, SameCall DEF Sending

LEMMA OneLinerTyped ==
    ASSUME nonce \in Nat, nonce' = nonce + 1, caller' \in {"run", "probe", "confirm"},
           NEW before \in {<<>>, <<Text("pass")>>}, Sending,
           Types(before \o OneLiner(caller', nonce + 1))
    PROVE  Sending'
  <1> DEFINE c == [kind |-> "cmd", nonce |-> nonce + 1,
                   cmd |-> IF caller' = "run" THEN "command" ELSE "true",
                   whole |-> TRUE, text |-> TRUE]
  <1>1. c \in TypedCommand
    BY DEF TypedCommand
  <1>2. c.cmd = Asked' /\ c.nonce = nonce'
    BY DEF Asked
  <1>3. c \in Sent' /\ Text("kill") \in Sent' /\ Text("pass") \in Sent'
    BY <1>1, <1>2 DEF Sent, Text, TypedText
  <1>4. OneLiner(caller', nonce + 1) = <<Text("kill"), c>>
    BY DEF OneLiner
  <1>5. <<Text("kill"), c>> \in Seq(Sent')
    BY <1>3
  <1>6. before \in Seq(Sent')
    <2>1. <<>> \in Seq(Sent')
      BY EmptySeq
    <2>2. <<Text("pass")>> \in Seq(Sent')
      BY <1>3
    <2>3. before = <<>> \/ before = <<Text("pass")>>
      OBVIOUS
    <2>4. QED
      BY <2>1, <2>2, <2>3
  <1>7. before \o OneLiner(caller', nonce + 1) \in Seq(Sent')
    BY <1>4, <1>5, <1>6, ConcatProperties
  <1>8. \A k \in Nat : k <= nonce => k <= nonce + 1 /\ k # nonce + 1
    OBVIOUS
  <1>9. Sent \subseteq Sent'
    <2> SUFFICES ASSUME NEW m \in Sent PROVE m \in Sent'
      OBVIOUS
    <2>1. m.kind = "cmd" => m.nonce \in Nat
      BY DEF Sent, TypedText, TypedCommand
    <2>2. m \in TypedText \cup TypedCommand /\ (m.kind = "cmd" => m.nonce <= nonce)
      BY DEF Sent
    <2>3. m.kind = "cmd" => m.nonce <= nonce' /\ m.nonce # nonce'
      BY <1>8, <2>1, <2>2
    <2>4. QED
      BY <2>2, <2>3 DEF Sent
  <1>10. toDev' \in Seq(Sent') /\ unsent' \in 0 .. Len(toDev')
    BY <1>7, <1>9, TypesOf DEF Sending
  <1>11. QED
    BY <1>10 DEF Sending

\* A new attempt.
LEMMA TriesActs ==
    ASSUME Sound, NEW before \in {<<>>, <<Text("pass")>>},
           NEW who \in {"run", "probe", "confirm"}, NEW n \in 0 .. Retries,
           TriesAfter(before, who, n), calls' \in 0 .. MaxCalls
    PROVE  Acts
  <1>1. nonce \in Nat /\ nonce' = nonce + 1 /\ nonce' \in Nat /\ caller' = who
    BY DEF Sound, HostSound, TriesAfter
  <1>2. Sending'
    <2>1. Types(before \o OneLiner(caller', nonce + 1)) /\ Sending
      BY <1>1 DEF TriesAfter, Sound
    <2>2. QED
      BY <1>1, <2>1, OneLinerTyped
  <1>3. outcome' = NoOutcome /\ NoOutcome \in Outcomes /\ NoOutcome.how = "none"
    BY VerifiedAssumption DEF TriesAfter, NoOutcome, NoResult, Outcomes, Result, Failures
  <1>4. hurried' \in BOOLEAN /\ attempt' \in 0 .. Retries /\ step' = "run"
    BY DEF Sound, HostSound, TriesAfter
  <1>5. Claims'
    BY <1>3 DEF Claims, OutputIsGenuine, LoginIsConfirmed
  <1>6. HostSound'
    BY <1>1, <1>3, <1>4, <1>5 DEF HostSound, Steps
  <1>7. Run \subseteq Run'
    <2> SUFFICES ASSUME NEW e \in Run PROVE e \in Run'
      OBVIOUS
    <2>1. \A k \in Nat : k <= nonce => k <= nonce + 1 /\ k # nonce + 1
      BY <1>1
    <2>2. e.nonce \in Nat /\ e.nonce <= nonce
      BY DEF Run, Answer
    <2>3. e.nonce <= nonce' /\ e.nonce # nonce'
      BY <1>1, <2>1, <2>2
    <2>4. QED
      BY <2>3 DEF Run
  <1>8. QED
    BY <1>2, <1>6, <1>7 DEF Acts

\* A wait for the next text; the lines on their way have been seen to.
LEMMA WaitsActs ==
    ASSUME Sound, Sending', step' \in Steps, step' = "run" => step = "run",
           hurried' \in BOOLEAN, UNCHANGED <<caller, nonce, attempt, outcome, calls, ran>>
    PROVE  Acts
  <1>1. Run' = Run
    BY SameCall
  <1>2. Claims'
    BY DEF Sound, HostSound, Claims, OutputIsGenuine, LoginIsConfirmed
  <1>3. QED
    BY <1>1, <1>2 DEF Sound, HostSound, Acts

\* The end of a process, with what it claims.
LEMMA EndsActs ==
    ASSUME Sound, NEW how \in Failures \cup {"ok", "logged in"}, NEW r \in Result,
           EndsWith(how, r), UNCHANGED ran,
           how = "ok" => Backed(nonce, r.out) \/ r.out = CmdCorrupt,
           how = "logged in" => Confirmed(nonce)
    PROVE  Acts
  <1>1. UNCHANGED <<caller, nonce, attempt, calls, hurried>> /\ step' = "idle"
    BY DEF EndsWith
  <1>2. Run' = Run
    BY <1>1, SameCall
  <1>3. Sending'
    <2>1. Sending /\ Types(<<>>) /\ <<>> \in Seq(Sent)
      BY EmptySeq DEF Sound, EndsWith
    <2>2. QED
      BY <1>1, <2>1, TypesTyped
  <1>4. outcome' = [how |-> how, result |-> r]
    BY DEF EndsWith
  <1>5. outcome' \in Outcomes /\ outcome'.how = how /\ outcome'.result = r
    BY <1>4 DEF Outcomes
  <1>6. Claims'
    <2>1. /\ outcome'.how = "ok" =>
                 Backed(nonce', outcome'.result.out) \/ outcome'.result.out = CmdCorrupt
          /\ outcome'.how = "logged in" => Confirmed(nonce')
      BY <1>1, <1>5
    <2>2. \A n, o : Backed(n, o)' = Backed(n, o) /\ Confirmed(n)' = Confirmed(n)
      BY DEF Backed, Confirmed
    <2>3. OutputIsGenuine'
      BY <2>1, <2>2, Zenon DEF OutputIsGenuine, Backed
    <2>4. LoginIsConfirmed'
      BY <2>1, <2>2, Zenon DEF LoginIsConfirmed, Confirmed
    <2>5. QED
      BY <2>3, <2>4 DEF Claims
  <1>7. QED
    BY <1>1, <1>2, <1>3, <1>5, <1>6 DEF Sound, HostSound, Acts, Steps

\* The end of a process that has failed.
LEMMA FailureActs ==
    ASSUME Sound, NEW how \in Failures, Ends(how), UNCHANGED ran
    PROVE  Acts
  <1>1. how # "ok" /\ how # "logged in" /\ NoResult \in Result
    BY VerifiedAssumption DEF Failures, NoResult, Result
  <1>2. QED
    BY <1>1, EndsActs DEF Ends

\* A line of login's, and the wait for what it leads to.
LEMMA TypesAndWaitsActs ==
    ASSUME Sound, NEW kind \in {"enter", "user"}, NEW waiting \in {"prompt", "echo", "password"},
           TypesAndWaits(kind, waiting), hurried' \in BOOLEAN, UNCHANGED ran
    PROVE  Acts
  <1>1. UNCHANGED <<caller, nonce, attempt, outcome, calls>> /\ step' \in Steps /\ step' # "run"
    BY DEF TypesAndWaits, Steps
  <1>2. <<Text(kind)>> \in Seq(Sent)
    <2>1. Text(kind) \in Sent
      BY DEF Text, Sent, TypedText
    <2>2. QED
      BY <2>1
  <1>3. Sending'
    BY <1>1, <1>2, TypesTyped DEF TypesAndWaits, Sound
  <1>4. QED
    BY <1>1, <1>3, WaitsActs

LEMMA NudgesActs == ASSUME Sound, Nudges, UNCHANGED ran PROVE Acts
  <1>1. hurried' \in BOOLEAN
    BY DEF Nudges, Sound, HostSound
  <1>2. TypesAndWaits("enter", "prompt")
    BY DEF Nudges
  <1>3. QED
    BY <1>1, <1>2, TypesAndWaitsActs

LEMMA TypesUserActs == ASSUME Sound, TypesUser, UNCHANGED ran PROVE Acts
  <1>1. hurried' \in BOOLEAN /\ TypesAndWaits("user", "echo")
    BY DEF TypesUser, Sound, HostSound
  <1>2. QED
    BY <1>1, TypesAndWaitsActs

LEMMA TypesEnterActs == ASSUME Sound, TypesEnter, UNCHANGED ran PROVE Acts
  <1>1. hurried' \in BOOLEAN /\ TypesAndWaits("enter", "password")
    BY DEF TypesEnter, Sound, HostSound
  <1>2. QED
    BY <1>1, TypesAndWaitsActs
-----------------------------------------------------------------------------
\* run: an attempt that fails, and an answer.
LEMMA RunFailsActs == ASSUME Sound, RunFails, UNCHANGED ran PROVE Acts
  <1>1. CASE caller = "run" /\ Ends("failed")
    BY <1>1, FailureActs DEF Failures
  <1>2. CASE caller = "probe" /\ Nudges
    BY <1>2, NudgesActs
  <1>3. CASE caller = "confirm" /\ Ends("not confirmed")
    BY <1>3, FailureActs DEF Failures
  <1>4. QED
    BY <1>1, <1>2, <1>3 DEF RunFails

LEMMA AttemptFailsActs ==
    ASSUME Sound, step = "run", AttemptFails, UNCHANGED ran
    PROVE  Acts
  <1>1. CASE attempt < Limit
    <2>1. Tries(caller, attempt + 1) /\ UNCHANGED calls
      BY <1>1 DEF AttemptFails
    <2>2. \A k \in 0 .. Retries : k < Limit => k + 1 \in 0 .. Retries
      BY VerifiedAssumption DEF Limit
    <2>3. attempt + 1 \in 0 .. Retries /\ calls' \in 0 .. MaxCalls
      BY <1>1, <2>1, <2>2 DEF Sound, HostSound
    <2>4. caller \in {"run", "probe", "confirm"}
      BY DEF Sound, HostSound
    <2>5. QED
      BY <2>1, <2>3, <2>4, TriesActs DEF Tries
  <1>2. CASE ~(attempt < Limit)
    BY <1>2, RunFailsActs DEF AttemptFails
  <1>3. QED
    BY <1>1, <1>2

\* An answer of this attempt: what it claims is on record.
LEMMA RunSucceedsActs ==
    ASSUME Sound, NEW r \in Result, RunSucceeds(r), UNCHANGED ran,
           \/ r.out = CmdCorrupt /\ r.code \in Refused
           \/ \E e \in ran : e.nonce = nonce /\ e.out = r.out
    PROVE  Acts
  <1>1. CASE caller = "run" /\ EndsWith("ok", r)
    <2>1. \A e \in ran : e.nonce = nonce => e.cmd = "command" /\ (e.own \/ ~e.text)
      BY <1>1 DEF Sound, Run, Asked
    <2>2. Backed(nonce, r.out) \/ r.out = CmdCorrupt
      BY <2>1, Zenon DEF Backed
    <2>3. QED
      BY <1>1, <2>2, EndsActs
  <1>2. CASE caller # "run" /\ r.code = 0 /\ Ends("logged in")
    <2>1. r.code \notin Refused
      BY <1>2, RefusedCodes DEF Refusals
    <2>2. \A e \in ran : e.nonce = nonce => e.cmd = "true" /\ (e.code = 0 \/ ~e.text)
      BY <1>2 DEF Sound, Run, Asked
    <2>3. Confirmed(nonce)
      BY <2>1, <2>2, Zenon DEF Confirmed
    <2>4. NoResult \in Result
      BY VerifiedAssumption DEF NoResult, Result
    <2>5. QED
      BY <1>2, <2>3, <2>4, EndsActs DEF Ends
  <1>3. CASE RunFails
    BY <1>3, RunFailsActs
  <1>4. QED
    BY <1>1, <1>2, <1>3 DEF RunSucceeds

LEMMA VainActs == ASSUME Sound, ReadsInVain, UNCHANGED ran PROVE Acts
  <1>1. UNCHANGED <<toDev, unsent, step, caller, nonce, attempt, outcome, calls, hurried>>
    BY DEF ReadsInVain, stageVars
  <1>2. Sending' /\ step' \in Steps /\ hurried' \in BOOLEAN
    BY <1>1, SameCall DEF Sound, HostSound, Sending
  <1>3. QED
    BY <1>1, <1>2, WaitsActs

LEMMA RunReadsActs ==
    ASSUME Sound, NEW n \in 1 .. Len(toHost), RunReads(n), UNCHANGED ran
    PROVE  Acts
  <1>1. ASSUME NEW i \in 1 .. n, IsMine(toHost[i]), Parsed(toHost[i])
        PROVE  Acts
    <2> DEFINE m == toHost[i]
    <2>1. i \in 1 .. Len(toHost) /\ toHost \in Seq(Told)
      BY LenProperties DEF Sound
    <2>2. m \in Told
      BY <2>1, ElementOfSeq
    <2>3. m.kind = "end" /\ m.nonce = nonce
      BY <1>1 DEF IsMine
    <2>4. m \in EndLine
      BY <2>2, <2>3 DEF Told, Shown
    <2>5. [code |-> m.code, out |-> m.out] \in Result
      BY <2>4 DEF EndLine, Result
    <2>6. \/ m.out = CmdCorrupt /\ m.code \in Refused
          \/ \E e \in ran : e.nonce = nonce /\ e.out = m.out
      BY <2>2, <2>3 DEF Told
    <2>7. CASE AttemptFails
      BY <2>7, AttemptFailsActs DEF RunReads
    <2>8. CASE RunSucceeds([code |-> m.code, out |-> m.out])
      BY <2>5, <2>6, <2>8, RunSucceedsActs
    <2>9. QED
      BY <1>1, <2>7, <2>8 DEF Parsed
  <1>2. CASE ReadsInVain
    BY <1>2, VainActs
  <1>3. QED
    BY <1>1, <1>2 DEF RunReads
-----------------------------------------------------------------------------
\* Every step of the host.
LEMMA ReadActs ==
    ASSUME Sound, Reads, UNCHANGED ran
    PROVE  Acts
  <1>1. ASSUME NEW n, Peeks(n) PROVE Acts
    <2>1. CASE TypesUser
      BY <2>1, TypesUserActs
    <2>2. CASE Tries("probe", 0) /\ UNCHANGED calls
      <3>1. calls' \in 0 .. MaxCalls /\ 0 \in 0 .. Retries
        BY <2>2, VerifiedAssumption DEF Sound, HostSound
      <3>2. QED
        BY <2>2, <3>1, TriesActs DEF Tries
    <2>3. QED
      BY <1>1, <2>1, <2>2 DEF Peeks
  <1>2. ASSUME NEW n, PromptShows(n) PROVE Acts
    BY <1>2, TypesUserActs DEF PromptShows
  <1>3. ASSUME NEW n, EchoShows(n) PROVE Acts
    BY <1>3, TypesEnterActs DEF EchoShows
  <1>4. ASSUME NEW n, PasswordAsked(n) PROVE Acts
    <2>1. TriesAfter(<<Text("pass")>>, "confirm", 0) /\ UNCHANGED calls
      BY <1>4 DEF PasswordAsked
    <2>2. calls' \in 0 .. MaxCalls /\ 0 \in 0 .. Retries
      BY <2>1, VerifiedAssumption DEF Sound, HostSound
    <2>3. QED
      BY <2>1, <2>2, TriesActs
  <1>5. ASSUME NEW waiting, NEW n, NEW kind, StillWaits(waiting, n, kind) PROVE Acts
    BY <1>5, VainActs DEF StillWaits
  <1>6. QED
    BY <1>1, <1>2, <1>3, <1>4, <1>5, RunReadsActs DEF Reads

LEMMA SendsActs == ASSUME Sound, Sends, UNCHANGED ran PROVE Acts
  <1>1. UNCHANGED <<toDev, step, caller, nonce, attempt, outcome, calls, hurried>>
    BY DEF Sends, stageVars
  <1>2. unsent' \in 0 .. Len(toDev)
    <2>1. PICK k \in Nat : k = Len(toDev)
      BY LenProperties DEF Sound, Sending
    <2>2. PICK u \in 0 .. k : u = unsent
      BY <2>1 DEF Sound, Sending
    <2>3. u > 0 /\ unsent' = u - 1
      BY <2>2 DEF Sends
    <2>4. u - 1 \in 0 .. k
      BY <2>3
    <2>5. QED
      BY <2>1, <2>3, <2>4
  <1>3. Sending' /\ step' \in Steps /\ hurried' \in BOOLEAN
    BY <1>1, <1>2, SameCall DEF Sound, HostSound, Sending
  <1>4. QED
    BY <1>1, <1>3, WaitsActs

LEMMA HostActs ==
    ASSUME Sound, Calls \/ Sends \/ Reads \/ TimesOut \/ LinkFails, UNCHANGED ran
    PROVE  Acts
  <1>1. CASE UartRun
    <2>1. calls' \in 0 .. MaxCalls
      <3>1. \A k \in 0 .. MaxCalls : k < MaxCalls => k + 1 \in 0 .. MaxCalls
        BY VerifiedAssumption
      <3>2. QED
        BY <1>1, <3>1 DEF UartRun, Sound, HostSound
    <2>2. 0 \in 0 .. Retries
      BY VerifiedAssumption
    <2>3. QED
      BY <1>1, <2>1, <2>2, TriesActs DEF UartRun, Tries
  <1>2. CASE UartLogin
    <2>1. calls' \in 0 .. MaxCalls
      <3>1. \A k \in 0 .. MaxCalls : k < MaxCalls => k + 1 \in 0 .. MaxCalls
        BY VerifiedAssumption
      <3>2. QED
        BY <1>2, <3>1 DEF UartLogin, Sound, HostSound
    <2>2. outcome' \in Outcomes /\ outcome'.how = "none"
      BY <1>2, VerifiedAssumption DEF UartLogin, NoOutcome, NoResult, Outcomes, Result, Failures
    <2>3. Sending' /\ Run' = Run
      BY <1>2, SameCall DEF UartLogin, Sound, Sending
    <2>4. Claims'
      BY <2>2 DEF Claims, OutputIsGenuine, LoginIsConfirmed
    <2>5. QED
      BY <1>2, <2>1, <2>2, <2>3, <2>4 DEF UartLogin, Sound, HostSound, Steps, Acts
  <1>3. CASE Reads
    BY <1>3, ReadActs
  <1>4. CASE RunTimesOut
    BY <1>4, AttemptFailsActs DEF RunTimesOut, PassesOver
  <1>5. CASE EchoTimesOut
    BY <1>5, TypesEnterActs DEF EchoTimesOut
  <1>6. CASE PromptTimesOut
    BY <1>6, FailureActs DEF PromptTimesOut, Failures
  <1>7. CASE LinkFails
    BY <1>7, FailureActs, RunFailsActs DEF LinkFails, Failures
  <1>8. CASE Sends
    BY <1>8, SendsActs
  <1>9. QED
    BY <1>1, <1>2, <1>3, <1>4, <1>5, <1>6, <1>7, <1>8 DEF Calls, TimesOut

\* What the host has read is gone from the buffer, the rest stays.
LEMMA HostReads ==
    ASSUME Sound, Calls \/ Sends \/ Reads \/ TimesOut \/ LinkFails
    PROVE  toHost' \in Seq(Told) /\ Len(toHost') <= HostCap
  <1>0. toHost \in Seq(Told) /\ Len(toHost) \in Nat /\ HostCap \in Nat /\ Len(toHost) <= HostCap
    BY LenProperties, VerifiedAssumption DEF Sound
  <1>1. ASSUME NEW n \in 0 .. Len(toHost), ReadsOn(n)
        PROVE  toHost' \in Seq(Told) /\ Len(toHost') <= HostCap
    <2>1. SubSeq(toHost, n + 1, Len(toHost)) \in Seq(Told)
          /\ Len(SubSeq(toHost, n + 1, Len(toHost))) <= Len(toHost)
      BY <1>0, RestOf
    <2>2. toHost' \in Seq(Told) /\ Len(toHost') <= Len(toHost)
      BY <1>1, <2>1 DEF ReadsOn
    <2>3. Len(toHost') \in Nat
      BY <2>2, LenProperties
    <2>4. QED
      BY <1>0, <2>2, <2>3
  <1>2. CASE Reads
    <2>1. \E n \in 0 .. Len(toHost) : ReadsOn(n)
      <3>1. 0 \in 0 .. Len(toHost) /\ \A n \in 1 .. Len(toHost) : n \in 0 .. Len(toHost)
        BY <1>0
      <3>2. QED
        BY <1>2, <3>1
        DEF Reads, Peeks, RunReads, PromptShows, EchoShows, PasswordAsked, StillWaits
    <2>2. QED
      BY <1>1, <2>1
  <1>3. CASE Calls \/ Sends \/ TimesOut \/ LinkFails
    <2>1. UNCHANGED toHost
      BY <1>3 DEF Calls, UartRun, UartLogin, Sends, TimesOut, RunTimesOut, EchoTimesOut,
                  PromptTimesOut, PassesOver, LinkFails
    <2>2. QED
      BY <1>0, <2>1
  <1>4. QED
    BY <1>2, <1>3

LEMMA HostStep ==
    ASSUME Sound, Host
    PROVE  Sound'
  <1>1. UNCHANGED <<mode, mishaps, ran>>
    BY DEF Host
  <1>2. Acts
    BY <1>1, HostActs DEF Host
  <1>3. toHost' \in Seq(Told) /\ Len(toHost') <= HostCap
    BY HostReads DEF Host
  <1>4. Told' = Told
    BY <1>1 DEF Told
  <1>5. ran' \subseteq Run' /\ Sending' /\ HostSound'
    BY <1>1, <1>2 DEF Acts, Sound
  <1>6. mode' \in Modes /\ mishaps' \in 0 .. MaxMishaps
    BY <1>1 DEF Sound
  <1>7. QED
    BY <1>3, <1>4, <1>5, <1>6 DEF Sound
-----------------------------------------------------------------------------
\* The device and the mishaps leave the host alone, and what has been run stays
\* on record.
LEMMA HostKept ==
    ASSUME Sound, UNCHANGED hostVars, ran \subseteq ran'
    PROVE  HostSound' /\ Sent' = Sent /\ Run' = Run /\ Told \subseteq Told'
  <1>1. UNCHANGED <<step, caller, nonce, attempt, outcome, calls, hurried>>
    BY DEF hostVars, stageVars
  <1>2. Sent' = Sent /\ Run' = Run
    BY <1>1, SameCall
  <1>3. Told \subseteq Told'
    BY DEF Told
  <1>4. Claims'
    BY <1>1 DEF Sound, HostSound, Claims, OutputIsGenuine, LoginIsConfirmed
  <1>5. QED
    BY <1>1, <1>2, <1>3, <1>4 DEF Sound, HostSound

\* Only what has been sent is read.
LEMMA LineTaken ==
    ASSUME Sound, TakesLine, UNCHANGED unsent
    PROVE  toDev # <<>> /\ toDev' \in Seq(Sent) /\ Line \in Sent /\ unsent' \in 0 .. Len(toDev')
  <1>1. PICK k \in Nat : k = Len(toDev)
    BY LenProperties DEF Sound, Sending
  <1>2. PICK u \in 0 .. k : u = unsent
    BY <1>1 DEF Sound, Sending
  <1>3. k - u > 0
    BY <1>1, <1>2, TypedOf DEF TakesLine, Sound, Sending
  <1>4. toDev # <<>>
    BY <1>1, <1>2, <1>3, EmptySeq
  <1>5. toDev' \in Seq(Sent) /\ Line \in Sent /\ Len(toDev') = Len(toDev) - 1
    BY <1>4, TailOf DEF Sound, Sending, TakesLine, Line
  <1>6. u \in 0 .. k - 1
    BY <1>2, <1>3
  <1>7. QED
    BY <1>1, <1>2, <1>4, <1>5, <1>6

\* A line of the device that says nothing of a command.
LEMMA ShownTold ==
    ASSUME NEW kind \in {"login:", "user", "assword"}
    PROVE  [kind |-> kind] \in Told
  BY DEF Told, Shown

LEMMA EndTyped ==
    ASSUME NEW n \in Nat, NEW code \in Code, NEW o \in Out
    PROVE  [kind |-> "end", nonce |-> n, code |-> code, out |-> o, sum |-> TRUE] \in EndLine
  BY DEF EndLine

LEMMA CommandTaken ==
    ASSUME Sound, TakesCommand, UNCHANGED unsent
    PROVE  /\ Line \in TypedCommand /\ Line.nonce \in Nat /\ Line.cmd \in {"command", "true"}
           /\ Line.nonce <= nonce /\ (Line.nonce = nonce => Line.cmd = Asked)
           /\ Line.text \in BOOLEAN /\ Line.whole \in BOOLEAN
  <1>1. Line \in Sent /\ Line.kind = "cmd"
    BY LineTaken DEF TakesCommand
  <1>2. Line \in TypedCommand
    BY <1>1 DEF Sent, TypedText
  <1>3. QED
    BY <1>1, <1>2 DEF Sent, TypedCommand

\* What a command may end with: true ends with 0.
LEMMA EndingsOf ==
    ASSUME NEW cmd \in {"command", "true"}, NEW r \in Endings(cmd)
    PROVE  r \in Result /\ (cmd = "true" => r.code = 0)
  <1>1. CASE cmd = "true"
    <2>1. r = [code |-> 0, out |-> Empty]
      BY <1>1 DEF Endings, NoResult
    <2>2. QED
      BY <2>1, VerifiedAssumption DEF Result
  <1>2. CASE cmd # "true"
    BY <1>2, VerifiedAssumption DEF Endings
  <1>3. QED
    BY <1>1, <1>2

\* An answer is on record when it is told.
LEMMA AnswersSound ==
    ASSUME Sound, TakesCommand, UNCHANGED hostVars, NEW r \in Result, NEW own \in BOOLEAN,
           Answers(r, own), own \/ ~Line.text, Line.cmd = "true" => r.code = 0 \/ ~Line.text
    PROVE  /\ ran \subseteq ran'
           /\ ran' \subseteq Run
           /\ toHost' \in Seq(Told') /\ Len(toHost') <= HostCap
  <1>1. /\ Line.nonce \in Nat /\ Line.cmd \in {"command", "true"} /\ Line.text \in BOOLEAN
        /\ Line.nonce <= nonce /\ (Line.nonce = nonce => Line.cmd = Asked)
    BY CommandTaken DEF hostVars
  <1>2. r.code \in Code /\ r.out \in Out
    BY DEF Result
  <1> DEFINE e == [nonce |-> Line.nonce, cmd |-> Line.cmd, text |-> Line.text, own |-> own,
                   code |-> r.code, out |-> r.out]
             m == [kind |-> "end", nonce |-> Line.nonce, code |-> r.code, out |-> r.out,
                   sum |-> TRUE]
  <1>3. e \in Run
    <2>1. e \in Answer
      BY <1>1, <1>2 DEF Answer
    <2>2. e.nonce <= nonce /\ (e.nonce = nonce => e.cmd = Asked)
      BY <1>1
    <2>3. e.own \/ ~e.text
      BY Zenon
    <2>4. e.cmd = "true" => e.code = 0 \/ ~e.text
      BY Zenon
    <2>5. QED
      BY <2>1, <2>2, <2>3, <2>4, Zenon DEF Run
  <1>4. ran' = ran \cup {e}
    BY DEF Answers
  <1>5. ran \subseteq ran' /\ ran' \subseteq Run /\ e \in ran'
    BY <1>3, <1>4 DEF Sound
  <1>6. m \in Told'
    <2>1. m \in EndLine
      BY <1>1, <1>2, EndTyped
    <2>2. e.nonce = m.nonce /\ e.out = m.out
      OBVIOUS
    <2>3. QED
      BY <1>5, <2>1, <2>2 DEF Told
  <1>7. toHost \in Seq(Told')
    <2>1. Told \subseteq Told'
      BY <1>5, HostKept
    <2>2. QED
      BY <2>1, SeqMonotonic DEF Sound
  <1>8. Prints(m)
    BY DEF Answers, Reply
  <1>9. QED
    BY <1>5, <1>6, <1>7, <1>8, PrintsFits DEF Sound

\* What a shell makes of a one-liner leaves what is recorded sound: silence, a
\* refusal, the command's own answer, or a stray one to damaged shell text.
LEMMA RefusesTold ==
    ASSUME Sound, TakesCommand, UNCHANGED unsent, Refuses
    PROVE  ran' = ran /\ toHost' \in Seq(Told) /\ Len(toHost') <= HostCap
  <1> DEFINE m == [kind |-> "end", nonce |-> Line.nonce, code |-> CmdCorruptRc,
                   out |-> CmdCorrupt, sum |-> TRUE]
  <1>1. Line.nonce \in Nat
    BY CommandTaken
  <1>2. m \in EndLine
    BY <1>1, EndTyped, VerifiedAssumption
  <1>3. m.out = CmdCorrupt /\ m.code \in Refused
    BY RefusedCodes DEF Refusals
  <1>4. m \in Told
    BY <1>2, <1>3 DEF Told
  <1>5. Prints(m)
    BY DEF Refuses, Reply
  <1>6. QED
    BY <1>4, <1>5, PrintsFits DEF Sound, Refuses

LEMMA ShellSound ==
    ASSUME Sound, UNCHANGED hostVars, ShellRuns \/ ShellRefuses \/ ShellMisreads
    PROVE  /\ ran \subseteq ran'
           /\ ran' \subseteq Run
           /\ toHost' \in Seq(Told') /\ Len(toHost') <= HostCap
  <1>0. TakesCommand /\ UNCHANGED unsent
    BY DEF ShellRuns, ShellRefuses, ShellMisreads, hostVars
  <1>1. Line.cmd \in {"command", "true"}
    BY <1>0, CommandTaken
  <1>2. ASSUME UNCHANGED ran, toHost' \in Seq(Told), Len(toHost') <= HostCap
        PROVE  /\ ran \subseteq ran'
               /\ ran' \subseteq Run
               /\ toHost' \in Seq(Told') /\ Len(toHost') <= HostCap
    BY <1>2 DEF Told, Sound
  <1>3. CASE Refuses
    BY <1>0, <1>2, <1>3, RefusesTold
  <1>4. CASE UNCHANGED <<toHost, ran>>
    BY <1>2, <1>4 DEF Sound
  <1>5. ASSUME NEW r \in Endings(Line.cmd), Answers(r, TRUE)
        PROVE  /\ ran \subseteq ran'
               /\ ran' \subseteq Run
               /\ toHost' \in Seq(Told') /\ Len(toHost') <= HostCap
    <2>1. r \in Result /\ (Line.cmd = "true" => r.code = 0)
      BY <1>1, EndingsOf
    <2>2. QED
      BY <1>0, <1>5, <2>1, AnswersSound, Zenon
  <1>6. ASSUME NEW r \in Strays, Answers(r, FALSE), ~Line.text
        PROVE  /\ ran \subseteq ran'
               /\ ran' \subseteq Run
               /\ toHost' \in Seq(Told') /\ Len(toHost') <= HostCap
    <2>1. r \in Result
      BY VerifiedAssumption
    <2>2. QED
      BY <1>0, <1>6, <2>1, AnswersSound, Zenon
  <1>7. CASE ShellRuns
    <2>1. Line.whole = TRUE
      BY <1>0, <1>7, CommandTaken DEF ShellRuns
    <2>2. \E r \in Endings(Line.cmd) : Answers(r, TRUE)
      BY <1>7, <2>1 DEF ShellRuns
    <2>3. QED
      BY <1>5, <2>2
  <1>8. CASE ShellRefuses
    BY <1>3, <1>8 DEF ShellRefuses
  <1>9. CASE ShellMisreads
    BY <1>3, <1>4, <1>5, <1>6, <1>9, Zenon DEF ShellMisreads
  <1>10. QED
    BY <1>7, <1>8, <1>9

LEMMA DeviceStep ==
    ASSUME Sound, Device
    PROVE  Sound'
  <1>0. UNCHANGED hostVars /\ UNCHANGED mishaps /\ UNCHANGED unsent
    BY DEF Device, hostVars
  <1>1. TakesLine
    BY DEF Device, GettyReads, GettyReadsBlind, ShellRuns, ShellRefuses, ShellMisreads,
           ShellIgnores, ShellReadsQuoted, TakesCommand
  <1>2. mode' \in Modes
    <2>1. CASE GettyReads
      <3>1. \A move \in Getty : move[3] \in Modes
        BY DEF Getty, Modes
      <3>2. QED
        BY <2>1, <3>1 DEF GettyReads
    <2>2. CASE GettyReadsBlind
      BY <2>2 DEF GettyReadsBlind, Modes
    <2>3. CASE ShellRuns \/ ShellRefuses \/ ShellIgnores
      BY <2>3 DEF ShellRuns, ShellRefuses, ShellIgnores, Sound
    <2>4. CASE ShellMisreads \/ ShellReadsQuoted
      BY <2>4 DEF ShellMisreads, ShellReadsQuoted, Modes, Sound
    <2>5. QED
      BY <2>1, <2>2, <2>3, <2>4 DEF Device
  <1>3. /\ ran \subseteq ran'
        /\ ran' \subseteq Run
        /\ toHost' \in Seq(Told') /\ Len(toHost') <= HostCap
    <2>1. CASE ShellRuns \/ ShellRefuses \/ ShellMisreads
      BY <1>0, <2>1, ShellSound
    <2>2. CASE GettyReads
      <3>1. UNCHANGED ran
        BY <2>2 DEF GettyReads
      <3>2. PICK move \in Getty : Prints([kind |-> move[4]])
        BY <2>2 DEF GettyReads
      <3>3. move[4] \in {"login:", "user", "assword"}
        BY DEF Getty
      <3>4. toHost' \in Seq(Told) /\ Len(toHost') <= HostCap
        BY <3>2, <3>3, ShownTold, PrintsFits DEF Sound
      <3>5. QED
        BY <3>1, <3>4 DEF Told, Sound
    <2>3. CASE GettyReadsBlind \/ ShellIgnores \/ ShellReadsQuoted
      <3>1. UNCHANGED <<toHost, ran>>
        BY <2>3 DEF GettyReadsBlind, ShellIgnores, ShellReadsQuoted
      <3>2. QED
        BY <3>1 DEF Told, Sound
    <2>4. QED
      BY <2>1, <2>2, <2>3 DEF Device
  <1>4. HostSound' /\ Sent' = Sent /\ Run' = Run
    BY <1>0, <1>3, HostKept
  <1>5. Sending'
    BY <1>0, <1>1, <1>4, LineTaken DEF Sending
  <1>6. mishaps' \in 0 .. MaxMishaps
    BY <1>0 DEF Sound
  <1>7. QED
    BY <1>2, <1>3, <1>4, <1>5, <1>6 DEF Sound
-----------------------------------------------------------------------------
\* Damage to what was typed: the command's nonce stays.
LEMMA DamagedSent ==
    ASSUME Sound, PayloadDamaged \/ ShellTextDamaged
    PROVE  toDev' \in Seq(Sent) /\ Len(toDev') = Len(toDev)
  <1>1. toDev \in Seq(Sent) /\ toDev[1].kind = "cmd" /\ Len(Typed) > 0
    BY DEF Sound, Sending, PayloadDamaged, ShellTextDamaged, CommandArrives, Line
  <1>2. 1 \in 1 .. Len(toDev)
    <2>1. PICK k \in Nat : k = Len(toDev)
      BY <1>1, LenProperties
    <2>2. PICK u \in 0 .. k : u = unsent
      BY <2>1 DEF Sound, Sending
    <2>3. k - u > 0
      BY <1>1, <2>1, <2>2, TypedOf DEF Sound, Sending
    <2>4. QED
      BY <2>1, <2>2, <2>3
  <1>3. toDev[1] \in Sent
    BY <1>1, <1>2, ElementOfSeq
  <1>4. toDev[1] \in TypedCommand
    BY <1>1, <1>3 DEF Sent, TypedText
  <1>5. ASSUME NEW m \in TypedCommand, m.nonce = toDev[1].nonce, m.cmd = toDev[1].cmd,
               toDev' = [toDev EXCEPT ![1] = m]
        PROVE  toDev' \in Seq(Sent) /\ Len(toDev') = Len(toDev)
    <2>1. m \in Sent
      BY <1>1, <1>3, <1>5 DEF Sent
    <2>2. QED
      BY <1>1, <1>2, <1>5, <2>1, ExceptSeq
  <1>6. CASE PayloadDamaged
    <2> DEFINE m == [toDev[1] EXCEPT !.whole = FALSE]
    <2>1. m \in TypedCommand /\ m.nonce = toDev[1].nonce /\ m.cmd = toDev[1].cmd
      BY <1>4 DEF TypedCommand
    <2>2. toDev' = [toDev EXCEPT ![1] = m]
      BY <1>6 DEF PayloadDamaged
    <2>3. QED
      BY <1>5, <2>1, <2>2
  <1>7. CASE ShellTextDamaged
    <2> DEFINE m == [toDev[1] EXCEPT !.text = FALSE]
    <2>1. m \in TypedCommand /\ m.nonce = toDev[1].nonce /\ m.cmd = toDev[1].cmd
      BY <1>4 DEF TypedCommand
    <2>2. toDev' = [toDev EXCEPT ![1] = m]
      BY <1>7 DEF ShellTextDamaged
    <2>3. QED
      BY <1>5, <2>1, <2>2
  <1>8. QED
    BY <1>6, <1>7

\* Damage to an END line: its output and its nonce stay, and a refusal does not
\* become a success.
LEMMA EndDamagedTold ==
    ASSUME Sound, OutputDamaged \/ CodeDamaged
    PROVE  toHost' \in Seq(Told) /\ Len(toHost') = Len(toHost)
  <1> DEFINE k == LastShown
  <1>1. toHost \in Seq(Told) /\ toHost # <<>> /\ toHost[k].kind = "end"
    BY DEF Sound, OutputDamaged, CodeDamaged
  <1>2. k \in 1 .. Len(toHost)
    BY <1>1, EmptySeq DEF LastShown
  <1>3. toHost[k] \in Told
    BY <1>1, <1>2, ElementOfSeq
  <1>4. toHost[k] \in EndLine
    BY <1>1, <1>3 DEF Told, Shown
  <1>5. CASE OutputDamaged
    <2> DEFINE m == [toHost[k] EXCEPT !.sum = FALSE]
    <2>1. m \in EndLine /\ m.nonce = toHost[k].nonce /\ m.out = toHost[k].out
          /\ m.code = toHost[k].code
      BY <1>4 DEF EndLine
    <2>2. m \in Told
      BY <1>1, <1>3, <2>1 DEF Told
    <2>3. toHost' = [toHost EXCEPT ![k] = m]
      BY <1>5 DEF OutputDamaged
    <2>4. QED
      BY <1>1, <1>2, <2>2, <2>3, ExceptSeq
  <1>6. CASE CodeDamaged
    <2>1. PICK c \in Misread[toHost[k].code] : toHost' = [toHost EXCEPT ![k].code = c]
      BY <1>6 DEF CodeDamaged
    <2>2. toHost[k].code \in Code
      BY <1>4 DEF EndLine
    <2>3. Misread[toHost[k].code] \subseteq Code
      BY <2>2, VerifiedAssumption
    <2>4. toHost[k].code \in Refused => c \in Refused
      BY <2>1, RefusedCodes DEF Refusals
    <2> DEFINE m == [toHost[k] EXCEPT !.code = c]
    <2>5. m \in EndLine /\ m.nonce = toHost[k].nonce /\ m.out = toHost[k].out /\ m.code = c
      BY <1>4, <2>1, <2>3 DEF EndLine
    <2>6. m \in Told
      BY <1>1, <1>3, <2>4, <2>5 DEF Told
    <2>7. toHost' = [toHost EXCEPT ![k] = m]
      BY <2>1
    <2>8. QED
      BY <1>1, <1>2, <2>6, <2>7, ExceptSeq
  <1>7. QED
    BY <1>5, <1>6

LEMMA MishapStep ==
    ASSUME Sound, Mishap
    PROVE  Sound'
  <1>0. UNCHANGED hostVars /\ UNCHANGED ran /\ UNCHANGED unsent
    BY DEF Mishap, hostVars
  <1>1. HostSound' /\ Sent' = Sent /\ Run' = Run
    BY <1>0, HostKept
  <1>2. Told' = Told
    BY <1>0 DEF Told
  <1>3. mishaps' \in 0 .. MaxMishaps
    <2>1. \A k \in 0 .. MaxMishaps : k < MaxMishaps => k + 1 \in 0 .. MaxMishaps
      BY VerifiedAssumption
    <2>2. QED
      BY <2>1 DEF Mishap, Sound
  <1>4. mode' \in Modes
    BY DEF Mishap, LineLost, PayloadDamaged, ShellTextDamaged, TextLost, OutputDamaged,
           CodeDamaged, Reboot, Modes, Sound
  <1>5. Sending'
    <2>1. CASE LineLost
      BY <1>0, <1>1, <2>1, LineTaken DEF LineLost, Sending
    <2>2. CASE PayloadDamaged \/ ShellTextDamaged
      BY <1>0, <1>1, <2>2, DamagedSent DEF Sound, Sending
    <2>3. CASE TextLost \/ OutputDamaged \/ CodeDamaged \/ Reboot
      BY <1>0, <1>1, <2>3 DEF TextLost, OutputDamaged, CodeDamaged, Reboot, Sound, Sending
    <2>4. QED
      BY <2>1, <2>2, <2>3 DEF Mishap
  <1>6. toHost' \in Seq(Told) /\ Len(toHost') <= HostCap
    <2>0. toHost \in Seq(Told) /\ Len(toHost) \in Nat /\ HostCap \in Nat /\ Len(toHost) <= HostCap
      BY LenProperties, VerifiedAssumption DEF Sound
    <2>1. CASE LineLost \/ PayloadDamaged \/ ShellTextDamaged
      BY <2>0, <2>1 DEF LineLost, PayloadDamaged, ShellTextDamaged
    <2>2. CASE TextLost
      <3>1. toHost' \in Seq(Told) /\ Len(toHost') = Len(toHost) - 1
        BY <2>0, <2>2, TailOf DEF TextLost
      <3>2. Len(toHost') \in Nat
        BY <3>1, LenProperties
      <3>3. QED
        BY <2>0, <3>1, <3>2
    <2>3. CASE OutputDamaged \/ CodeDamaged
      BY <2>0, <2>3, EndDamagedTold
    <2>4. CASE Reboot
      <3>1. Prints([kind |-> "login:"]) /\ [kind |-> "login:"] \in Told
        BY <2>4, ShownTold DEF Reboot
      <3>2. QED
        BY <2>0, <3>1, PrintsFits
    <2>5. QED
      BY <2>1, <2>2, <2>3, <2>4 DEF Mishap
  <1>7. ran' \subseteq Run'
    BY <1>0, <1>1 DEF Sound
  <1>8. QED
    BY <1>1, <1>2, <1>3, <1>4, <1>5, <1>6, <1>7 DEF Sound
-----------------------------------------------------------------------------
LEMMA SoundNext == Sound /\ [Next]_vars => Sound'
  <1> SUFFICES ASSUME Sound, [Next]_vars PROVE Sound'
    OBVIOUS
  <1>1. CASE Next
    BY <1>1, HostStep, DeviceStep, MishapStep DEF Next
  <1>2. CASE UNCHANGED vars
    <2>1. UNCHANGED <<toDev, unsent, toHost, hostVars, mode, mishaps, ran>>
      BY <1>2 DEF vars, hostVars
    <2>2. HostSound' /\ Sent' = Sent /\ Run' = Run
      BY <2>1, HostKept
    <2>3. Told' = Told
      BY <2>1 DEF Told
    <2>4. QED
      BY <2>1, <2>2, <2>3 DEF Sound, Sending
  <1>3. QED
    BY <1>1, <1>2

LEMMA SoundAlways == Spec => []Sound
  BY SoundInit, SoundNext, PTL DEF Spec

LEMMA SoundTyped == Sound => TypeOK
  <1> SUFFICES ASSUME Sound PROVE TypeOK
    OBVIOUS
  <1>1. Sent \subseteq TypedText \cup TypedCommand /\ Told \subseteq Shown \cup EndLine
    BY DEF Sent, Told
  <1>2. toDev \in Seq(TypedText \cup TypedCommand) /\ toHost \in Seq(Shown \cup EndLine)
    BY <1>1, SeqMonotonic DEF Sound, Sending
  <1>3. ran \subseteq Answer
    BY DEF Sound, Run
  <1>4. QED
    BY <1>2, <1>3 DEF Sound, Sending, HostSound, TypeOK, Steps, Modes, Outcomes

\* Every variable of verified.rs keeps its type; in particular the attempts stay
\* within RunOpts.retries, whichever calls of run are mixed.
THEOREM TypeCorrect == Spec => []TypeOK
  BY SoundAlways, SoundTyped, PTL

\* What uart run returns as output a shell has answered to this attempt, and it
\* is the command's own if the shell text of the one-liner was whole; or it is
\* the message of a refusal whose code was misread (verified.rs:98-130).
THEOREM OutputGenuine == Spec => []OutputIsGenuine
  <1>1. Sound => OutputIsGenuine
    BY DEF Sound, HostSound, Claims
  <1>2. QED
    BY <1>1, SoundAlways, PTL

\* uart login claims a shell only if one has answered this login's command, with
\* 0 if its shell text was whole (verified.rs:276-321); here it matters that no misreading of 251 is a 0.
THEOREM LoginConfirmed == Spec => []LoginIsConfirmed
  <1>1. Sound => LoginIsConfirmed
    BY DEF Sound, HostSound, Claims
  <1>2. QED
    BY <1>1, SoundAlways, PTL
-----------------------------------------------------------------------------
(***************************************************************************)
(* The password.  Of a first call with nothing lost, what the host waits   *)
(* for says which lines are on their way and who reads them: the invariant *)
(* of PasswordHidden is that each stage of login finds the console where   *)
(* the next line belongs.                                                  *)
(***************************************************************************)

\* A console at which no name has been typed.
Unnamed == {"login", "wrong", "shell", "quoted"}

Holds(s, kinds) == \A i \in 1 .. Len(s) : s[i].kind \in kinds

NotShown(kind) == \A i \in 1 .. Len(toHost) : toHost[i].kind # kind

\* Nothing has been typed yet.
Fresh ==
    /\ step = "peek" \/ (step = "idle" /\ calls = 0)
    /\ toDev = <<>>
    /\ mode \in {"login", "shell"}
    /\ NotShown("assword")

\* The probe.
Probing ==
    /\ step = "run" /\ caller = "probe"
    /\ Holds(toDev, {"kill", "cmd"})
    /\ mode \in Unnamed

\* A probe that was dealt with is followed by the nudge alone; a getty's prompt
\* can only come from that.
Nudged ==
    /\ step = "prompt"
    /\ \/ toDev = <<Text("enter")>> /\ toHost = <<>> /\ mode \in Unnamed
       \/ toDev = <<>> /\ mode = "login" /\ NotShown("assword")
       \/ toDev = <<>> /\ toHost = <<>> /\ mode \in {"shell", "quoted"}

\* The user's name, and its Enter; in a shell they are taken for commands.
Echoing ==
    /\ step = "echo"
    /\ NotShown("assword")
    /\ \/ mode = "login" /\ toDev = <<Text("user")>>
       \/ mode = "named" /\ toDev = <<>>
       \/ mode = "shell" /\ Holds(toDev, {"user"})

Prompting ==
    /\ step = "password"
    /\ \/ mode = "login" /\ toDev = <<Text("user"), Text("enter")>> /\ NotShown("assword")
       \/ mode = "named" /\ toDev = <<Text("enter")>> /\ NotShown("assword")
       \/ mode = "password" /\ toDev = <<>>
       \/ mode = "shell" /\ Holds(toDev, {"user", "enter"}) /\ NotShown("assword")

\* No other line is between the password and its prompt.
PassFirst == \A i \in 1 .. Len(toDev) : toDev[i].kind = "pass" => i = 1 /\ mode = "password"

\* A run that nudges nobody, and no process any more.
Past ==
    /\ (step = "idle" /\ calls > 0) \/ (step = "run" /\ caller # "probe")
    /\ PassFirst

Phase == Fresh \/ Probing \/ Nudged \/ Echoing \/ Prompting \/ Past

Quiet == mishaps = 0 /\ calls <= 1 /\ ~hurried

Placed == Quiet => Phase /\ (step # "idle" => calls = 1)

LEMMA PlacedInit == Init => Placed
  <1> SUFFICES ASSUME Init PROVE Placed
    OBVIOUS
  <1>1. toHost = <<>> \/ toHost = <<[kind |-> "login:"]>>
    BY DEF Init
  <1>2. NotShown("assword")
    <2>1. CASE toHost = <<>>
      BY <2>1 DEF NotShown
    <2>2. CASE toHost = <<[kind |-> "login:"]>>
      <3>1. Len(toHost) = 1 /\ toHost[1].kind = "login:"
        BY <2>2
      <3>2. QED
        BY <3>1 DEF NotShown
    <2>3. QED
      BY <1>1, <2>1, <2>2
  <1>3. Fresh
    BY <1>2 DEF Init, Fresh
  <1>4. QED
    BY <1>3 DEF Placed, Phase, Init
-----------------------------------------------------------------------------
\* What the device reads is the first of the lines; the others move up.
LEMMA Taken ==
    ASSUME Sound, TakesLine, UNCHANGED unsent
    PROVE  /\ toDev # <<>> /\ Line = toDev[1] /\ 1 \in 1 .. Len(toDev)
           /\ \A i \in 1 .. Len(toDev') : /\ toDev'[i] = toDev[i + 1]
                                          /\ i + 1 \in 1 .. Len(toDev) /\ i + 1 # 1
           /\ Len(toDev) = 1 => toDev' = <<>>
  <1>1. toDev # <<>> /\ toDev \in Seq(Sent) /\ toDev' = Tail(toDev)
    BY LineTaken DEF Sound, Sending, TakesLine
  <1>2. PICK k \in Nat : k = Len(toDev)
    BY <1>1, LenProperties
  <1>3. k # 0
    BY <1>1, <1>2, EmptySeq
  <1>4. toDev' \in Seq(Sent) /\ Len(toDev') = k - 1 /\ \A i \in 1 .. Len(toDev') : toDev'[i] = toDev[i + 1]
    BY <1>1, <1>2, HeadTailProperties
  <1>5. \A i \in 1 .. k - 1 : i + 1 \in 1 .. k /\ i + 1 # 1
    BY <1>3
  <1>6. Line = toDev[1]
    BY <1>1 DEF Line
  <1>7. k = 1 => toDev' = <<>>
    BY <1>4, EmptySeq
  <1>8. QED
    BY <1>1, <1>2, <1>3, <1>4, <1>5, <1>6, <1>7

LEMMA HoldsTaken ==
    ASSUME Sound, TakesLine, UNCHANGED unsent, NEW kinds, Holds(toDev, kinds)
    PROVE  Holds(toDev', kinds) /\ Line.kind \in kinds
  BY Taken DEF Holds

\* What the device prints is shown, and nothing else.
LEMMA PrintsShown ==
    ASSUME Sound, NEW kind, NotShown(kind), NEW m \in Shown \cup EndLine, m.kind # kind, Prints(m)
    PROVE  NotShown(kind)'
  <1>1. toHost \in Seq(Told) /\ Told \subseteq Shown \cup EndLine
    BY DEF Sound, Told
  <1>2. toHost \in Seq(Shown \cup EndLine)
    BY <1>1, SeqMonotonic
  <1>3. ASSUME NEW s \in Seq(Shown \cup EndLine), \A i \in 1 .. Len(s) : s[i].kind # kind,
               toHost' = Append(s, m)
        PROVE  NotShown(kind)'
    <2>1. PICK k \in Nat : k = Len(s)
      BY LenProperties
    <2>2. Len(toHost') = k + 1 /\ toHost'[k + 1] = m /\ \A i \in 1 .. k : toHost'[i] = s[i]
      BY <1>3, <2>1, AppendProperties
    <2>3. \A i \in 1 .. k + 1 : i \in 1 .. k \/ i = k + 1
      BY <2>1
    <2>4. QED
      BY <1>3, <2>1, <2>2, <2>3 DEF NotShown
  <1>4. CASE Len(toHost) < HostCap
    BY <1>2, <1>3, <1>4 DEF Prints, NotShown
  <1>5. CASE ~(Len(toHost) < HostCap)
    <2>1. toHost # <<>>
      <3>1. HostCap \in Nat \ {0}
        BY VerifiedAssumption
      <3>2. QED
        BY <1>5, <3>1, EmptySeq
    <2>2. PICK k \in Nat : k = Len(toHost)
      BY <1>2, LenProperties
    <2>3. /\ Tail(toHost) \in Seq(Shown \cup EndLine) /\ Len(Tail(toHost)) = k - 1
          /\ \A i \in 1 .. Len(Tail(toHost)) : Tail(toHost)[i] = toHost[i + 1]
      BY <1>2, <2>1, <2>2, HeadTailProperties
    <2>4. \A i \in 1 .. k - 1 : i + 1 \in 1 .. k
      BY <2>2
    <2>5. \A i \in 1 .. Len(Tail(toHost)) : Tail(toHost)[i].kind # kind
      BY <2>2, <2>3, <2>4 DEF NotShown
    <2>6. QED
      BY <1>3, <1>5, <2>3, <2>5 DEF Prints
  <1>6. QED
    BY <1>4, <1>5

\* The first move of the device that fits: from where, at what, to where.
LEMMA GettyMoves ==
    ASSUME GettyReads
    PROVE  \E move \in Getty : /\ move[1] = mode /\ move[2] = Line.kind /\ mode' = move[3]
                               /\ [kind |-> move[4]] \in Shown /\ Prints([kind |-> move[4]])
  <1>1. \A move \in Getty : [kind |-> move[4]] \in Shown
    BY DEF Getty, Shown
  <1>2. QED
    BY <1>1 DEF GettyReads

\* A line that is no command: the getty takes it, or a shell does in silence.
LEMMA TextTaken ==
    ASSUME Device, Line.kind \in {"user", "enter"}
    PROVE  \/ GettyReads
           \/ GettyReadsBlind
           \/ mode = "shell" /\ UNCHANGED <<toHost, mode>>
           \/ mode = "quoted" /\ mode' = "quoted" /\ UNCHANGED toHost
  BY DEF Device, ShellRuns, ShellRefuses, ShellMisreads, ShellIgnores, ShellReadsQuoted,
         TakesCommand

LEMMA ProbingDevice == ASSUME Sound, Probing, Device PROVE Probing'
  <1>1. TakesLine /\ UNCHANGED <<unsent, step, caller>>
    BY DEF Device, GettyReads, GettyReadsBlind, ShellRuns, ShellRefuses, ShellMisreads,
           ShellIgnores, ShellReadsQuoted, TakesCommand, hostVars, stageVars
  <1>2. Holds(toDev', {"kill", "cmd"}) /\ Line.kind \in {"kill", "cmd"}
    BY <1>1, HoldsTaken DEF Probing
  <1>3. mode' \in Unnamed
    <2>1. CASE GettyReads
      <3>1. PICK move \in Getty : move[1] = mode /\ move[2] = Line.kind /\ mode' = move[3]
        BY <2>1, GettyMoves
      <3>2. move[1] \in Unnamed /\ move[2] \in {"kill", "cmd"}
        BY <1>2, <3>1 DEF Probing
      <3>3. move[3] \in {"login", "wrong"}
        BY <3>2 DEF Getty, Unnamed
      <3>4. QED
        BY <3>1, <3>3 DEF Unnamed
    <2>2. CASE ~GettyReads
      BY <1>2, <2>2
      DEF Device, GettyReadsBlind, ShellRuns, ShellRefuses, ShellMisreads, ShellIgnores,
          ShellReadsQuoted, TakesCommand, Unnamed
    <2>3. QED
      BY <2>1, <2>2
  <1>4. QED
    BY <1>1, <1>2, <1>3 DEF Probing

LEMMA NudgedDevice == ASSUME Sound, Nudged, Device PROVE Nudged'
  <1>1. TakesLine /\ UNCHANGED <<unsent, step>>
    BY DEF Device, GettyReads, GettyReadsBlind, ShellRuns, ShellRefuses, ShellMisreads,
           ShellIgnores, ShellReadsQuoted, TakesCommand, hostVars, stageVars
  <1>2. toDev = <<Text("enter")>> /\ toHost = <<>> /\ mode \in Unnamed
    BY <1>1, Taken DEF Nudged
  <1>3. Line.kind = "enter" /\ toDev' = <<>>
    <2>1. Len(toDev) = 1 /\ toDev[1].kind = "enter"
      BY <1>2 DEF Text
    <2>2. QED
      BY <1>1, <2>1, Taken
  <1>4. CASE GettyReads
    <2>1. PICK move \in Getty : /\ move[1] = mode /\ move[2] = Line.kind /\ mode' = move[3]
                                /\ [kind |-> move[4]] \in Shown /\ Prints([kind |-> move[4]])
      BY <1>4, GettyMoves
    <2>2. move[1] \in Unnamed /\ move[2] = "enter"
      BY <1>2, <1>3, <2>1
    <2>3. move[3] = "login" /\ move[4] = "login:"
      BY <2>2 DEF Getty, Unnamed
    <2>4. NotShown("assword")
      BY <1>2 DEF NotShown
    <2>5. NotShown("assword")'
      <3>1. [kind |-> move[4]].kind # "assword"
        BY <2>3
      <3>2. QED
        BY <2>1, <2>4, <3>1, PrintsShown
    <2>6. QED
      BY <1>1, <1>3, <2>1, <2>3, <2>5 DEF Nudged
  <1>5. CASE ~GettyReads
    <2>1. ~GettyReadsBlind
      BY <1>3 DEF GettyReadsBlind
    <2>2. toHost' = <<>> /\ mode' \in {"shell", "quoted"}
      BY <1>2, <1>3, <1>5, <2>1, TextTaken
    <2>3. QED
      BY <1>1, <1>3, <2>2 DEF Nudged
  <1>6. QED
    BY <1>4, <1>5

\* The name is read at the login prompt, its Enter after the name.
LEMMA NameTaken ==
    ASSUME Sound, Device, mode = "login", Line.kind = "user", NotShown("assword")
    PROVE  mode' = "named" /\ NotShown("assword")'
  <1>1. GettyReads
    BY TextTaken DEF GettyReadsBlind
  <1>2. PICK move \in Getty : /\ move[1] = mode /\ move[2] = Line.kind /\ mode' = move[3]
                              /\ [kind |-> move[4]] \in Shown /\ Prints([kind |-> move[4]])
    BY <1>1, GettyMoves
  <1>3. move[3] = "named" /\ move[4] = "user"
    BY <1>2 DEF Getty
  <1>4. [kind |-> move[4]].kind # "assword"
    BY <1>3
  <1>5. NotShown("assword")'
    BY <1>2, <1>4, PrintsShown
  <1>6. QED
    BY <1>2, <1>3, <1>5

LEMMA EnterTaken ==
    ASSUME Device, mode = "named", Line.kind = "enter"
    PROVE  mode' = "password"
  <1>1. GettyReads
    BY TextTaken DEF GettyReadsBlind
  <1>2. PICK move \in Getty : move[1] = mode /\ move[2] = Line.kind /\ mode' = move[3]
    BY <1>1, GettyMoves
  <1>3. QED
    BY <1>2 DEF Getty

\* A shell that was there before: it ignores the name.
LEMMA ShellDevice ==
    ASSUME Sound, Device, TakesLine, UNCHANGED unsent, mode = "shell",
           NEW kinds \in {{"user"}, {"user", "enter"}}, Holds(toDev, kinds), NotShown("assword")
    PROVE  mode' = "shell" /\ Holds(toDev', kinds) /\ NotShown("assword")'
  <1>1. Holds(toDev', kinds) /\ Line.kind \in kinds
    BY HoldsTaken
  <1>2. Line.kind \in {"user", "enter"}
    BY <1>1
  <1>3. ~GettyReadsBlind
    BY DEF GettyReadsBlind
  <1>4. ~GettyReads
    <2>1. \A move \in Getty : move[1] # "shell"
      BY DEF Getty
    <2>2. QED
      BY <2>1 DEF GettyReads
  <1>5. UNCHANGED <<toHost, mode>>
    BY <1>2, <1>3, <1>4, TextTaken
  <1>6. QED
    BY <1>1, <1>5 DEF NotShown

LEMMA EchoingDevice == ASSUME Sound, Echoing, Device PROVE Echoing'
  <1>1. TakesLine /\ UNCHANGED <<unsent, step>>
    BY DEF Device, GettyReads, GettyReadsBlind, ShellRuns, ShellRefuses, ShellMisreads,
           ShellIgnores, ShellReadsQuoted, TakesCommand, hostVars, stageVars
  <1>2. toDev # <<>>
    BY <1>1, Taken
  <1>3. CASE mode = "login" /\ toDev = <<Text("user")>>
    <2>1. Len(toDev) = 1 /\ toDev[1].kind = "user"
      BY <1>3 DEF Text
    <2>2. Line.kind = "user" /\ toDev' = <<>>
      BY <1>1, <2>1, Taken
    <2>3. mode' = "named" /\ NotShown("assword")'
      BY <1>3, <2>2, NameTaken DEF Echoing
    <2>4. QED
      BY <1>1, <2>2, <2>3 DEF Echoing
  <1>4. CASE mode = "shell" /\ Holds(toDev, {"user"})
    BY <1>1, <1>4, ShellDevice DEF Echoing
  <1>5. QED
    BY <1>2, <1>3, <1>4 DEF Echoing

LEMMA PromptingDevice == ASSUME Sound, Prompting, Device PROVE Prompting'
  <1>1. TakesLine /\ UNCHANGED <<unsent, step>>
    BY DEF Device, GettyReads, GettyReadsBlind, ShellRuns, ShellRefuses, ShellMisreads,
           ShellIgnores, ShellReadsQuoted, TakesCommand, hostVars, stageVars
  <1>2. toDev # <<>>
    BY <1>1, Taken
  <1>3. CASE mode = "login" /\ toDev = <<Text("user"), Text("enter")>> /\ NotShown("assword")
    <2>1. toDev[1].kind = "user"
      BY <1>3 DEF Text
    <2>2. Line.kind = "user"
      BY <1>1, <2>1, Taken
    <2>3. toDev' = <<Text("enter")>>
      BY <1>1, <1>3 DEF TakesLine
    <2>4. mode' = "named" /\ NotShown("assword")'
      BY <1>3, <2>2, NameTaken
    <2>5. QED
      BY <1>1, <2>3, <2>4 DEF Prompting
  <1>4. CASE mode = "named" /\ toDev = <<Text("enter")>>
    <2>1. Len(toDev) = 1 /\ toDev[1].kind = "enter"
      BY <1>4 DEF Text
    <2>2. Line.kind = "enter" /\ toDev' = <<>>
      BY <1>1, <2>1, Taken
    <2>3. mode' = "password"
      BY <1>4, <2>2, EnterTaken
    <2>4. QED
      BY <1>1, <2>2, <2>3 DEF Prompting
  <1>5. CASE mode = "shell" /\ Holds(toDev, {"user", "enter"}) /\ NotShown("assword")
    BY <1>1, <1>5, ShellDevice DEF Prompting
  <1>6. QED
    BY <1>2, <1>3, <1>4, <1>5 DEF Prompting

LEMMA PhaseDevice == ASSUME Sound, Phase, Device PROVE Phase'
  <1>1. TakesLine /\ UNCHANGED <<unsent, step, caller, calls>>
    BY DEF Device, GettyReads, GettyReadsBlind, ShellRuns, ShellRefuses, ShellMisreads,
           ShellIgnores, ShellReadsQuoted, TakesCommand, hostVars, stageVars
  <1>2. ~Fresh
    BY <1>1, Taken DEF Fresh
  <1>3. CASE Past
    <2>1. PassFirst'
      BY <1>1, <1>3, Taken DEF Past, PassFirst
    <2>2. QED
      BY <1>1, <1>3, <2>1 DEF Past, Phase
  <1>4. QED
    BY <1>2, <1>3, ProbingDevice, NudgedDevice, EchoingDevice, PromptingDevice DEF Phase
-----------------------------------------------------------------------------
\* Lines that have been sent are among those typed; what follows is new.
LEMMA TypesKept ==
    ASSUME Sound, NEW texts \in Seq(TypedText \cup TypedCommand), Types(texts)
    PROVE  \A i \in 1 .. Len(toDev') :
              \/ i \in 1 .. Len(toDev) /\ toDev'[i] = toDev[i]
              \/ \E j \in 1 .. Len(texts) : toDev'[i] = texts[j]
  <1>1. /\ Typed \in Seq(Sent) /\ Len(Typed) = Len(toDev) - unsent
        /\ \A i \in 1 .. Len(Typed) : Typed[i] = toDev[i]
    BY TypedOf DEF Sound, Sending
  <1>2. Typed \in Seq(TypedText \cup TypedCommand)
    <2>1. Sent \subseteq TypedText \cup TypedCommand
      BY DEF Sent
    <2>2. QED
      BY <1>1, <2>1, SeqMonotonic
  <1>3. PICK k \in Nat : k = Len(toDev)
    BY LenProperties DEF Sound, Sending
  <1>4. PICK u \in 0 .. k : u = unsent
    BY <1>3 DEF Sound, Sending
  <1>5. PICK p \in Nat : p = Len(Typed) /\ p = k - u
    BY <1>1, <1>2, <1>3, <1>4, LenProperties
  <1>6. PICK q \in Nat : q = Len(texts)
    BY LenProperties
  <1>7. toDev' = Typed \o texts
    BY DEF Types
  <1>8. /\ Len(toDev') = p + q
        /\ \A i \in 1 .. p + q : toDev'[i] = IF i <= p THEN Typed[i] ELSE texts[i - p]
    <2>1. /\ Len(Typed \o texts) = Len(Typed) + Len(texts)
          /\ \A i \in 1 .. Len(Typed) + Len(texts) : (Typed \o texts)[i] =
                 IF i <= Len(Typed) THEN Typed[i] ELSE texts[i - Len(Typed)]
      BY <1>2, ConcatProperties
    <2>2. QED
      BY <1>5, <1>6, <1>7, <2>1
  <1> SUFFICES ASSUME NEW i \in 1 .. p + q
               PROVE  \/ i \in 1 .. Len(toDev) /\ toDev'[i] = toDev[i]
                      \/ \E j \in 1 .. q : toDev'[i] = texts[j]
    BY <1>6, <1>8
  <1>9. CASE i <= p
    <2>1. i \in 1 .. p /\ i \in 1 .. k
      BY <1>4, <1>5, <1>9
    <2>2. toDev'[i] = Typed[i] /\ Typed[i] = toDev[i]
      BY <1>1, <1>5, <1>8, <1>9, <2>1
    <2>3. QED
      BY <1>3, <2>1, <2>2
  <1>10. CASE ~(i <= p)
    <2>1. i - p \in 1 .. q /\ toDev'[i] = texts[i - p]
      BY <1>8, <1>10
    <2>2. QED
      BY <2>1
  <1>11. QED
    BY <1>9, <1>10

\* With nothing sent that is unread, the new lines are all there is.
LEMMA TypesAlone ==
    ASSUME NEW texts \in Seq(TypedText \cup TypedCommand), Typed = <<>>, Types(texts)
    PROVE  toDev' = texts
  BY ConcatEmptySeq DEF Types

LEMMA NothingTyped == ASSUME Sound, toDev = <<>> PROVE Typed = <<>>
  <1>1. Typed \in Seq(Sent) /\ Len(Typed) = Len(toDev) - unsent
    BY TypedOf DEF Sound, Sending
  <1>2. Len(toDev) = 0 /\ unsent \in 0 .. Len(toDev)
    BY EmptySeq DEF Sound, Sending
  <1>3. Len(Typed) = 0
    BY <1>1, <1>2
  <1>4. QED
    BY <1>1, <1>3, EmptySeq

LEMMA AllTyped == ASSUME Sound, unsent = 0 PROVE Typed = toDev
  <1>1. /\ Typed \in Seq(Sent) /\ Len(Typed) = Len(toDev) - unsent
        /\ \A i \in 1 .. Len(Typed) : Typed[i] = toDev[i]
    BY TypedOf DEF Sound, Sending
  <1>2. toDev \in Seq(Sent) /\ Len(toDev) \in Nat
    BY LenProperties DEF Sound, Sending
  <1>3. Len(Typed) = Len(toDev)
    BY <1>1, <1>2
  <1>4. QED
    BY <1>1, <1>2, <1>3, SeqEqual

LEMMA LineTyped ==
    ASSUME NEW kind \in {"kill", "enter", "user", "pass"}
    PROVE  <<Text(kind)>> \in Seq(TypedText \cup TypedCommand)
  <1>1. Text(kind) \in TypedText
    BY DEF Text, TypedText
  <1>2. QED
    BY <1>1

LEMMA OneLinerOf ==
    ASSUME NEW who, NEW n \in Nat
    PROVE  /\ OneLiner(who, n) \in Seq(TypedText \cup TypedCommand)
           /\ Holds(OneLiner(who, n), {"kill", "cmd"})
  <1> DEFINE c == [kind |-> "cmd", nonce |-> n,
                   cmd |-> IF who = "run" THEN "command" ELSE "true",
                   whole |-> TRUE, text |-> TRUE]
  <1>1. c \in TypedCommand /\ c.kind = "cmd"
    BY DEF TypedCommand
  <1>2. Text("kill") \in TypedText /\ Text("kill").kind = "kill"
    BY DEF Text, TypedText
  <1> HIDE DEF c
  <1>3. OneLiner(who, n) = <<Text("kill"), c>>
    BY DEF OneLiner, c
  <1>4. <<Text("kill"), c>> \in Seq(TypedText \cup TypedCommand)
    BY <1>1, <1>2
  <1>5. \A i \in 1 .. Len(<<Text("kill"), c>>) : <<Text("kill"), c>>[i].kind \in {"kill", "cmd"}
    BY <1>1, <1>2
  <1>6. QED
    BY <1>3, <1>4, <1>5 DEF Holds

\* The buffer loses what is read, and gains nothing.
LEMMA ReadsShown ==
    ASSUME Sound, NEW n \in 0 .. Len(toHost), ReadsOn(n)
    PROVE  /\ \A kind : NotShown(kind) => NotShown(kind)'
           /\ toHost = <<>> => toHost' = <<>>
  <1>1. PICK k \in Nat : k = Len(toHost) /\ toHost \in Seq(Told)
    BY LenProperties DEF Sound
  <1>2. n + 1 \in Int /\ k \in Int /\ n \in 0 .. k
    BY <1>1
  <1>3. \A i \in n + 1 .. k : i \in 1 .. k
    BY <1>2
  <1>4. \A i \in n + 1 .. k : toHost[i] \in Told
    BY <1>1, <1>3, ElementOfSeq
  <1>5. toHost' = SubSeq(toHost, n + 1, k)
    BY <1>1 DEF ReadsOn
  <1>6. /\ toHost' \in Seq(Told)
        /\ Len(toHost') = IF n + 1 <= k THEN k - (n + 1) + 1 ELSE 0
        /\ \A i \in 1 .. k - (n + 1) + 1 : toHost'[i] = toHost[n + 1 + i - 1]
    BY <1>2, <1>4, <1>5, SubSeqProperties
  <1>7. Len(toHost') = k - n
    BY <1>2, <1>6
  <1>8. \A i \in 1 .. k - n : i \in 1 .. k - (n + 1) + 1 /\ n + 1 + i - 1 \in 1 .. k
    BY <1>2
  <1>9. \A i \in 1 .. k - n : \E j \in 1 .. k : toHost'[i] = toHost[j]
    BY <1>6, <1>8
  <1>10. ASSUME NEW kind, NotShown(kind) PROVE NotShown(kind)'
    BY <1>1, <1>7, <1>9, <1>10 DEF NotShown
  <1>11. toHost = <<>> => toHost' = <<>>
    <2>1. ASSUME toHost = <<>> PROVE toHost' = <<>>
      <3>1. k = 0
        BY <1>1, <2>1, EmptySeq
      <3>2. n = 0
        BY <1>2, <3>1
      <3>3. Len(toHost') = 0
        BY <1>7, <3>1, <3>2
      <3>4. QED
        BY <1>6, <3>3, EmptySeq
    <2>2. QED
      BY <2>1
  <1>12. QED
    BY <1>10, <1>11
-----------------------------------------------------------------------------
\* In every stage the password is the first line, at its prompt.
LEMMA PhasePass == Phase => PassFirst
  <1> SUFFICES ASSUME Phase PROVE PassFirst
    OBVIOUS
  <1>1. CASE toDev = <<>>
    BY <1>1 DEF PassFirst
  <1>2. CASE Holds(toDev, {"kill", "cmd"}) \/ Holds(toDev, {"user"}) \/ Holds(toDev, {"user", "enter"})
    BY <1>2 DEF PassFirst, Holds
  <1>3. ASSUME NEW kind \in {"enter", "user"}, toDev = <<Text(kind)>> PROVE PassFirst
    BY <1>3 DEF PassFirst, Text
  <1>4. CASE toDev = <<Text("user"), Text("enter")>>
    <2>1. Len(toDev) = 2 /\ toDev[1].kind = "user" /\ toDev[2].kind = "enter"
      BY <1>4 DEF Text
    <2>2. QED
      BY <2>1 DEF PassFirst
  <1>5. QED
    BY <1>1, <1>2, <1>3, <1>4 DEF Phase, Fresh, Probing, Nudged, Echoing, Prompting, Past

\* Lines other than the password may follow.
LEMMA PassFirstTyped ==
    ASSUME Sound, PassFirst, UNCHANGED mode,
           NEW texts \in Seq(TypedText \cup TypedCommand), Types(texts),
           \A j \in 1 .. Len(texts) : texts[j].kind # "pass"
    PROVE  PassFirst'
  BY TypesKept DEF PassFirst

LEMMA EndsPast ==
    ASSUME Sound, Phase, calls = 1, UNCHANGED mode, NEW how, NEW r, EndsWith(how, r)
    PROVE  Past'
  <1>1. Types(<<>>) /\ step' = "idle" /\ calls' = 1
    BY DEF EndsWith
  <1>2. PICK texts \in Seq(TypedText \cup TypedCommand) : texts = <<>> /\ Len(texts) = 0
    BY EmptySeq
  <1>3. Types(texts) /\ \A j \in 1 .. Len(texts) : texts[j].kind # "pass"
    BY <1>1, <1>2
  <1>4. PassFirst'
    BY <1>3, PhasePass, PassFirstTyped
  <1>5. QED
    BY <1>1, <1>4 DEF Past

\* Another attempt, of run or of the confirmation.
LEMMA TriesPast ==
    ASSUME Sound, Phase, UNCHANGED mode, NEW who \in {"run", "confirm"}, NEW n, Tries(who, n)
    PROVE  Past'
  <1>1. Types(<<>> \o OneLiner(who, nonce + 1)) /\ step' = "run" /\ caller' = who
    BY DEF Tries, TriesAfter
  <1>2. nonce + 1 \in Nat
    BY DEF Sound, HostSound
  <1>3. /\ OneLiner(who, nonce + 1) \in Seq(TypedText \cup TypedCommand)
        /\ Holds(OneLiner(who, nonce + 1), {"kill", "cmd"})
    BY <1>2, OneLinerOf
  <1>4. Types(OneLiner(who, nonce + 1))
    BY <1>1, <1>3, ConcatEmptySeq
  <1>5. \A j \in 1 .. Len(OneLiner(who, nonce + 1)) : OneLiner(who, nonce + 1)[j].kind # "pass"
    BY <1>3 DEF Holds
  <1>6. PassFirst'
    BY <1>3, <1>4, <1>5, PhasePass, PassFirstTyped
  <1>7. QED
    BY <1>1, <1>6 DEF Past

\* The nudge: the probe was dealt with, so the Enter is alone.
LEMMA NudgesNudged ==
    ASSUME Sound, Phase, UNCHANGED mode, step = "run", caller = "probe", Nudges, ~hurried'
    PROVE  Nudged'
  <1>1. Probing
    BY DEF Phase, Fresh, Nudged, Echoing, Prompting, Past
  <1>2. Typed = <<>> /\ toHost' = <<>>
    BY DEF Nudges
  <1>3. Types(<<Text("enter")>>) /\ step' = "prompt"
    BY DEF Nudges, TypesAndWaits
  <1>4. toDev' = <<Text("enter")>>
    BY <1>2, <1>3, TypesAlone, LineTyped
  <1>5. QED
    BY <1>1, <1>2, <1>3, <1>4 DEF Nudged, Probing, Unnamed

LEMMA RunFailsPhase ==
    ASSUME Sound, Phase, calls = 1, UNCHANGED mode, step = "run", RunFails, ~hurried'
    PROVE  Phase'
  <1>1. CASE caller = "run" /\ Ends("failed")
    BY <1>1, EndsPast DEF Ends, Phase
  <1>2. CASE caller = "probe" /\ Nudges
    BY <1>2, NudgesNudged DEF Phase
  <1>3. CASE caller = "confirm" /\ Ends("not confirmed")
    BY <1>3, EndsPast DEF Ends, Phase
  <1>4. QED
    BY <1>1, <1>2, <1>3 DEF RunFails

LEMMA AttemptFailsPhase ==
    ASSUME Sound, Phase, calls = 1, UNCHANGED mode, step = "run", AttemptFails, ~hurried'
    PROVE  Phase'
  <1>1. CASE attempt < Limit
    <2>1. Tries(caller, attempt + 1)
      BY <1>1 DEF AttemptFails
    <2>2. caller # "probe"
      BY <1>1 DEF Limit, Sound, HostSound
    <2>3. caller \in {"run", "confirm"}
      BY <2>2 DEF Sound, HostSound
    <2>4. QED
      BY <2>1, <2>3, TriesPast DEF Phase
  <1>2. CASE ~(attempt < Limit)
    BY <1>2, RunFailsPhase DEF AttemptFails
  <1>3. QED
    BY <1>1, <1>2

LEMMA ParsedPhase ==
    ASSUME Sound, Phase, calls = 1, UNCHANGED mode, step = "run", NEW e, Parsed(e), ~hurried'
    PROVE  Phase'
  <1>1. CASE AttemptFails
    BY <1>1, AttemptFailsPhase
  <1>2. ASSUME NEW r, RunSucceeds(r) PROVE Phase'
    <2>1. CASE EndsWith("ok", r) \/ Ends("logged in")
      BY <2>1, EndsPast DEF Ends, Phase
    <2>2. CASE RunFails
      BY <2>2, RunFailsPhase
    <2>3. QED
      BY <1>2, <2>1, <2>2 DEF RunSucceeds
  <1>3. QED
    BY <1>1, <1>2 DEF Parsed

\* Only the buffer has changed, and lost some of its text.
LEMMA VainPhase ==
    ASSUME Phase, UNCHANGED mode, UNCHANGED <<toDev, stageVars>>,
           NotShown("assword") => NotShown("assword")', toHost = <<>> => toHost' = <<>>
    PROVE  Phase'
  <1>1. UNCHANGED <<step, caller, calls>>
    BY DEF stageVars
  <1>2. CASE Fresh
    BY <1>1, <1>2 DEF Fresh, Phase
  <1>3. CASE Probing
    BY <1>1, <1>3 DEF Probing, Phase
  <1>4. CASE Nudged
    BY <1>1, <1>4 DEF Nudged, Phase
  <1>5. CASE Echoing
    BY <1>1, <1>5 DEF Echoing, Phase
  <1>6. CASE Prompting
    BY <1>1, <1>6 DEF Prompting, Phase
  <1>7. CASE Past
    BY <1>1, <1>7 DEF Past, PassFirst, Phase
  <1>8. QED
    BY <1>2, <1>3, <1>4, <1>5, <1>6, <1>7 DEF Phase
-----------------------------------------------------------------------------
\* The name, at a login prompt or in the shell that was there.
LEMMA TypesUserEchoing ==
    ASSUME Sound, UNCHANGED mode, toDev = <<>>, mode \in {"login", "shell"},
           TypesUser, NotShown("assword")'
    PROVE  Echoing'
  <1>1. Types(<<Text("user")>>) /\ step' = "echo"
    BY DEF TypesUser, TypesAndWaits
  <1>2. toDev' = <<Text("user")>>
    BY <1>1, NothingTyped, TypesAlone, LineTyped
  <1>3. Holds(toDev', {"user"})
    <2>1. Len(toDev') = 1 /\ toDev'[1].kind = "user"
      BY <1>2 DEF Text
    <2>2. QED
      BY <2>1 DEF Holds
  <1>4. QED
    BY <1>1, <1>2, <1>3 DEF Echoing

LEMMA PeeksPhase ==
    ASSUME Sound, Phase, UNCHANGED mode, NEW n \in 0 .. Len(toHost), Peeks(n)
    PROVE  Phase'
  <1>1. Fresh
    BY DEF Peeks, Phase, Probing, Nudged, Echoing, Prompting, Past
  <1>2. NotShown("assword")'
    BY <1>1, ReadsShown DEF Peeks, Fresh
  <1>3. CASE TypesUser
    BY <1>1, <1>2, <1>3, TypesUserEchoing DEF Fresh, Phase
  <1>4. CASE Tries("probe", 0)
    <2>1. Types(<<>> \o OneLiner("probe", nonce + 1)) /\ step' = "run" /\ caller' = "probe"
      BY <1>4 DEF Tries, TriesAfter
    <2>2. nonce + 1 \in Nat
      BY DEF Sound, HostSound
    <2>3. /\ OneLiner("probe", nonce + 1) \in Seq(TypedText \cup TypedCommand)
          /\ Holds(OneLiner("probe", nonce + 1), {"kill", "cmd"})
      BY <2>2, OneLinerOf
    <2>4. Types(OneLiner("probe", nonce + 1))
      BY <2>1, <2>3, ConcatEmptySeq
    <2>5. toDev' = OneLiner("probe", nonce + 1)
      BY <1>1, <2>3, <2>4, NothingTyped, TypesAlone DEF Fresh
    <2>6. Holds(toDev', {"kill", "cmd"})
      BY <2>3, <2>5
    <2>7. QED
      BY <1>1, <2>1, <2>6 DEF Probing, Fresh, Unnamed, Phase
  <1>5. QED
    BY <1>3, <1>4 DEF Peeks

LEMMA PromptShowsPhase ==
    ASSUME Sound, Phase, UNCHANGED mode, NEW n \in 1 .. Len(toHost), PromptShows(n)
    PROVE  Phase'
  <1>1. toHost # <<>>
    BY EmptySeq
  <1>2. toDev = <<>> /\ mode = "login" /\ NotShown("assword")
    BY <1>1 DEF PromptShows, Phase, Fresh, Probing, Nudged, Echoing, Prompting, Past
  <1>3. n \in 0 .. Len(toHost)
    <2>1. Len(toHost) \in Nat
      BY LenProperties DEF Sound
    <2>2. QED
      BY <2>1
  <1>4. NotShown("assword")'
    BY <1>2, <1>3, ReadsShown DEF PromptShows
  <1>5. QED
    BY <1>2, <1>4, TypesUserEchoing DEF PromptShows, Phase

LEMMA PairOf == ASSUME NEW S, NEW a \in S, NEW b \in S PROVE <<a>> \o <<b>> = <<a, b>>
  <1> DEFINE x == <<a>>
             y == <<b>>
             z == <<a, b>>
             s == x \o y
  <1>1. x \in Seq(S) /\ Len(x) = 1 /\ x[1] = a
    OBVIOUS
  <1>2. y \in Seq(S) /\ Len(y) = 1 /\ y[1] = b
    OBVIOUS
  <1>3. z \in Seq(S) /\ Len(z) = 2 /\ z[1] = a /\ z[2] = b
    OBVIOUS
  <1> HIDE DEF x, y, z
  <1>4. /\ s \in Seq(S)
        /\ Len(s) = Len(x) + Len(y)
        /\ \A i \in 1 .. Len(x) + Len(y) : s[i] = IF i <= Len(x) THEN x[i] ELSE y[i - Len(x)]
    BY <1>1, <1>2, ConcatProperties
  <1> HIDE DEF s
  <1>5. Len(s) = 2 /\ s[1] = a /\ s[2] = b
    BY <1>1, <1>2, <1>4
  <1>6. \A i \in 1 .. Len(s) : s[i] = z[i]
    BY <1>3, <1>5
  <1>7. s = z
    BY <1>3, <1>4, <1>5, <1>6, SeqEqual
  <1>8. QED
    BY <1>7 DEF s, x, y, z

\* The Enter after the name, whether or not the name has been read.
LEMMA TypesEnterPrompting ==
    ASSUME Sound, Echoing, UNCHANGED mode, unsent = 0, TypesEnter, NotShown("assword")'
    PROVE  Prompting'
  <1>1. Types(<<Text("enter")>>) /\ step' = "password"
    BY DEF TypesEnter, TypesAndWaits
  <1>2. toDev' = toDev \o <<Text("enter")>>
    BY <1>1, AllTyped DEF Types
  <1>3. CASE mode = "login" /\ toDev = <<Text("user")>>
    <2>1. Text("user") \in TypedText /\ Text("enter") \in TypedText
      BY DEF Text, TypedText
    <2>2. toDev' = <<Text("user"), Text("enter")>>
      BY <1>2, <1>3, <2>1, PairOf
    <2>3. QED
      BY <1>1, <1>3, <2>2 DEF Prompting
  <1>4. CASE mode = "named" /\ toDev = <<>>
    <2>1. toDev' = <<Text("enter")>>
      BY <1>1, <1>4, NothingTyped, TypesAlone, LineTyped
    <2>2. QED
      BY <1>1, <1>4, <2>1 DEF Prompting
  <1>5. CASE mode = "shell" /\ Holds(toDev, {"user"})
    <2>1. Len(<<Text("enter")>>) = 1 /\ <<Text("enter")>>[1].kind = "enter"
      BY DEF Text
    <2>2. \A i \in 1 .. Len(toDev') :
             \/ i \in 1 .. Len(toDev) /\ toDev'[i] = toDev[i]
             \/ \E j \in 1 .. Len(<<Text("enter")>>) : toDev'[i] = <<Text("enter")>>[j]
      BY <1>1, TypesKept, LineTyped
    <2>3. \A i \in 1 .. Len(toDev') :
             (i \in 1 .. Len(toDev) /\ toDev'[i] = toDev[i]) \/ toDev'[i].kind = "enter"
      BY <2>1, <2>2
    <2>4. Holds(toDev', {"user", "enter"})
      BY <1>5, <2>3 DEF Holds
    <2>5. QED
      BY <1>1, <1>5, <2>4 DEF Prompting
  <1>6. QED
    BY <1>3, <1>4, <1>5 DEF Echoing

\* The password, at the prompt that was asked for.
LEMMA PasswordAskedPast ==
    ASSUME Sound, Phase, UNCHANGED mode, NEW n \in 1 .. Len(toHost), PasswordAsked(n)
    PROVE  Past'
  <1>1. ~NotShown("assword")
    <2>1. PICK i \in 1 .. n : toHost[i].kind = "assword"
      BY DEF PasswordAsked, Shows
    <2>2. Len(toHost) \in Nat
      BY LenProperties DEF Sound
    <2>3. i \in 1 .. Len(toHost)
      BY <2>2
    <2>4. QED
      BY <2>1, <2>3 DEF NotShown
  <1>2. mode = "password" /\ toDev = <<>>
    BY <1>1 DEF PasswordAsked, Phase, Fresh, Probing, Nudged, Echoing, Prompting, Past
  <1>3. PICK c \in Seq(TypedText \cup TypedCommand) :
           /\ c = OneLiner("confirm", nonce + 1) /\ Holds(c, {"kill", "cmd"})
    <2>1. nonce + 1 \in Nat
      BY DEF Sound, HostSound
    <2>2. QED
      BY <2>1, OneLinerOf
  <1>4. Types(<<Text("pass")>> \o c) /\ step' = "run" /\ caller' = "confirm"
    BY <1>3 DEF PasswordAsked, TriesAfter
  <1>5. PICK k \in Nat : k = Len(c)
    BY LenProperties
  <1>6. <<Text("pass")>> \in Seq(TypedText \cup TypedCommand) /\ Len(<<Text("pass")>>) = 1
    BY LineTyped
  <1> DEFINE texts == <<Text("pass")>> \o c
  <1>7. /\ texts \in Seq(TypedText \cup TypedCommand)
        /\ Len(texts) = 1 + k
        /\ \A i \in 1 .. 1 + k : texts[i] = IF i <= 1 THEN <<Text("pass")>>[i] ELSE c[i - 1]
    BY <1>5, <1>6, ConcatProperties
  <1> HIDE DEF texts
  <1>8. toDev' = texts
    BY <1>2, <1>4, <1>7, NothingTyped, TypesAlone DEF texts
  <1>9. ASSUME NEW i \in 1 .. 1 + k, toDev'[i].kind = "pass" PROVE i = 1
    <2> SUFFICES ASSUME i # 1 PROVE FALSE
      OBVIOUS
    <2>1. i - 1 \in 1 .. k /\ ~(i <= 1)
      OBVIOUS
    <2>2. toDev'[i] = c[i - 1]
      BY <1>7, <1>8, <2>1
    <2>3. c[i - 1].kind \in {"kill", "cmd"}
      BY <1>3, <1>5, <2>1 DEF Holds
    <2>4. QED
      BY <1>9, <2>2, <2>3
  <1>10. PassFirst'
    BY <1>2, <1>7, <1>8, <1>9 DEF PassFirst
  <1>11. QED
    BY <1>4, <1>10 DEF Past

\* run and login come to no other stage than the next.
LEMMA ReadsPhase ==
    ASSUME Sound, Phase, calls = 1, UNCHANGED mode, Reads, ~hurried'
    PROVE  Phase'
  <1>0. \A n \in 1 .. Len(toHost) : n \in 0 .. Len(toHost)
    <2>1. Len(toHost) \in Nat
      BY LenProperties DEF Sound
    <2>2. QED
      BY <2>1
  <1>1. ASSUME NEW n \in 1 .. Len(toHost), ReadsOn(n), ReadsInVain PROVE Phase'
    BY <1>0, <1>1, ReadsShown, VainPhase DEF ReadsInVain
  <1>2. ASSUME NEW n \in 1 .. Len(toHost), RunReads(n) PROVE Phase'
    BY <1>1, <1>2, ParsedPhase DEF RunReads
  <1>3. ASSUME NEW n \in 0 .. Len(toHost), Peeks(n) PROVE Phase'
    BY <1>3, PeeksPhase
  <1>4. ASSUME NEW n \in 1 .. Len(toHost), EchoShows(n) PROVE Phase'
    <2>1. Echoing /\ unsent = 0
      BY <1>4 DEF EchoShows, ReadsOn, Phase, Fresh, Probing, Nudged, Prompting, Past
    <2>2. NotShown("assword")'
      BY <1>0, <1>4, <2>1, ReadsShown DEF EchoShows, Echoing
    <2>3. QED
      BY <1>4, <2>1, <2>2, TypesEnterPrompting DEF EchoShows, Phase
  <1>5. ASSUME NEW n \in 1 .. Len(toHost), NEW waiting, NEW kind, StillWaits(waiting, n, kind)
        PROVE  Phase'
    BY <1>1, <1>5 DEF StillWaits
  <1>6. 0 \in 0 .. Len(toHost)
    BY LenProperties DEF Sound
  <1>7. ASSUME NEW n \in 1 .. Len(toHost), PasswordAsked(n) PROVE Phase'
    BY <1>7, PasswordAskedPast DEF Phase
  <1>8. QED
    BY <1>0, <1>2, <1>3, <1>4, <1>5, <1>6, <1>7, PromptShowsPhase DEF Reads

LEMMA TimesOutPhase ==
    ASSUME Sound, Phase, calls = 1, UNCHANGED mode, TimesOut, ~hurried'
    PROVE  Phase'
  <1>1. CASE RunTimesOut
    BY <1>1, AttemptFailsPhase DEF RunTimesOut, PassesOver
  <1>2. CASE EchoTimesOut
    <2>1. Echoing /\ unsent = 0 /\ UNCHANGED toHost
      BY <1>2 DEF EchoTimesOut, PassesOver, Phase, Fresh, Probing, Nudged, Prompting, Past
    <2>2. NotShown("assword")'
      BY <2>1 DEF Echoing, NotShown
    <2>3. QED
      BY <1>2, <2>1, <2>2, TypesEnterPrompting DEF EchoTimesOut, Phase
  <1>3. CASE PromptTimesOut
    BY <1>3, EndsPast DEF PromptTimesOut, Ends, Phase
  <1>4. QED
    BY <1>1, <1>2, <1>3 DEF TimesOut
-----------------------------------------------------------------------------
\* A call counts, a hurried login stays one, and a process that does something
\* is one that was called.
LEMMA EndsCounted ==
    ASSUME NEW how, NEW r, EndsWith(how, r)
    PROVE  UNCHANGED calls /\ (hurried => hurried')
  <1>1. UNCHANGED calls /\ UNCHANGED hurried
    BY DEF EndsWith
  <1>2. QED
    BY <1>1, Zenon

LEMMA FailureCounted ==
    ASSUME RunFails
    PROVE  UNCHANGED calls /\ (hurried => hurried')
  <1>1. ASSUME NEW how, Ends(how) PROVE UNCHANGED calls /\ (hurried => hurried')
    BY <1>1, EndsCounted DEF Ends
  <1>2. ASSUME Nudges PROVE UNCHANGED calls /\ (hurried => hurried')
    <2>1. UNCHANGED calls
      BY <1>2 DEF Nudges, TypesAndWaits
    <2>2. hurried => hurried'
      BY <1>2, Zenon DEF Nudges
    <2>3. QED
      BY <2>1, <2>2
  <1>3. QED
    BY <1>1, <1>2, Zenon DEF RunFails

LEMMA ReadsCounted ==
    ASSUME Reads \/ TimesOut \/ LinkFails
    PROVE  UNCHANGED calls /\ (hurried => hurried') /\ step # "idle"
  <1>1. ASSUME AttemptFails PROVE UNCHANGED calls /\ (hurried => hurried')
    BY <1>1, FailureCounted DEF AttemptFails, Tries, TriesAfter
  <1>2. ASSUME NEW e, Parsed(e) PROVE UNCHANGED calls /\ (hurried => hurried')
    <2>1. ASSUME NEW r, RunSucceeds(r) PROVE UNCHANGED calls /\ (hurried => hurried')
      BY <2>1, FailureCounted, EndsCounted, Zenon DEF RunSucceeds, Ends
    <2>2. QED
      BY <1>1, <1>2, <2>1 DEF Parsed
  <1>3. CASE Reads
    <2>1. ASSUME ReadsInVain PROVE UNCHANGED calls /\ (hurried => hurried')
      BY <2>1 DEF ReadsInVain, stageVars
    <2>2. ASSUME NEW n, RunReads(n) PROVE UNCHANGED calls /\ (hurried => hurried') /\ step # "idle"
      BY <1>2, <2>1, <2>2 DEF RunReads
    <2>3. ASSUME NEW n, Peeks(n) PROVE UNCHANGED calls /\ (hurried => hurried') /\ step # "idle"
      BY <2>3 DEF Peeks, TypesUser, TypesAndWaits, Tries, TriesAfter
    <2>4. ASSUME NEW n, PromptShows(n) \/ EchoShows(n) \/ PasswordAsked(n)
          PROVE  UNCHANGED calls /\ (hurried => hurried') /\ step # "idle"
      BY <2>4 DEF PromptShows, EchoShows, PasswordAsked, TypesUser, TypesEnter, TypesAndWaits,
                  TriesAfter
    <2>5. ASSUME NEW waiting \in {"prompt", "echo", "password"}, NEW n, NEW kind,
                 StillWaits(waiting, n, kind)
          PROVE  UNCHANGED calls /\ (hurried => hurried') /\ step # "idle"
      BY <2>1, <2>5 DEF StillWaits
    <2>6. QED
      BY <1>3, <2>2, <2>3, <2>4, <2>5 DEF Reads
  <1>4. CASE TimesOut
    <2>1. step # "idle"
      BY <1>4 DEF TimesOut, RunTimesOut, EchoTimesOut, PromptTimesOut, PassesOver
    <2>2. CASE RunTimesOut
      BY <1>1, <2>1, <2>2 DEF RunTimesOut
    <2>3. CASE EchoTimesOut
      BY <2>1, <2>3 DEF EchoTimesOut, TypesEnter, TypesAndWaits
    <2>4. CASE PromptTimesOut
      BY <2>1, <2>4, EndsCounted DEF PromptTimesOut, Ends
    <2>5. QED
      BY <1>4, <2>2, <2>3, <2>4 DEF TimesOut
  <1>5. CASE LinkFails
    BY <1>5, FailureCounted, EndsCounted DEF LinkFails, Ends
  <1>6. QED
    BY <1>3, <1>4, <1>5

LEMMA CallsPhase ==
    ASSUME Sound, Phase, UNCHANGED mode, Calls, calls' <= 1
    PROVE  Phase' /\ calls' = 1
  <1>1. step = "idle" /\ calls' = calls + 1 /\ calls \in Nat
    BY VerifiedAssumption DEF Calls, UartRun, UartLogin, Sound, HostSound
  <1>2. calls = 0 /\ calls' = 1
    BY <1>1
  <1>3. CASE UartRun
    BY <1>2, <1>3, TriesPast DEF UartRun, Phase
  <1>4. CASE UartLogin
    <2>1. Fresh
      BY <1>1, <1>2 DEF Phase, Probing, Nudged, Echoing, Prompting, Past
    <2>2. QED
      BY <1>2, <1>4, <2>1 DEF UartLogin, Fresh, NotShown, Phase
  <1>5. QED
    BY <1>2, <1>3, <1>4 DEF Calls

LEMMA PlacedNext == Sound /\ Placed /\ [Next]_vars => Placed'
  <1> SUFFICES ASSUME Sound, Placed, [Next]_vars, Quiet'
               PROVE  Phase' /\ (step' # "idle" => calls' = 1)
    BY DEF Placed
  <1>1. CASE Mishap
    <2>1. mishaps \in Nat /\ mishaps' = mishaps + 1 /\ mishaps' = 0
      BY <1>1, VerifiedAssumption DEF Mishap, Sound, Quiet
    <2>2. QED
      BY <2>1
  <1>2. CASE Device
    <2>1. UNCHANGED <<mishaps, calls, hurried, step>>
      BY <1>2 DEF Device, hostVars, stageVars
    <2>2. Phase /\ (step # "idle" => calls = 1)
      BY <2>1 DEF Placed, Quiet
    <2>3. QED
      BY <1>2, <2>1, <2>2, PhaseDevice
  <1>3. CASE Host
    <2>1. UNCHANGED <<mode, mishaps>>
      BY <1>3 DEF Host
    <2>2. CASE Calls
      <3>1. calls \in Nat /\ calls' = calls + 1 /\ UNCHANGED hurried
        BY <2>2, VerifiedAssumption DEF Calls, UartRun, UartLogin, Tries, TriesAfter, Sound, HostSound
      <3>2. calls <= 1 /\ calls' <= 1
        BY <3>1 DEF Quiet
      <3>3. Phase
        BY <2>1, <3>1, <3>2 DEF Placed, Quiet
      <3>4. QED
        BY <2>1, <2>2, <3>2, <3>3, CallsPhase
    <2>3. CASE Sends
      <3>1. UNCHANGED <<toDev, toHost, stageVars, hurried>>
        BY <2>3 DEF Sends
      <3>2. UNCHANGED <<calls, step>>
        BY <3>1 DEF stageVars
      <3>3. Phase /\ (step # "idle" => calls = 1)
        BY <2>1, <3>1, <3>2 DEF Placed, Quiet
      <3>4. NotShown("assword") => NotShown("assword")'
        BY <3>1 DEF NotShown
      <3>5. Phase'
        BY <2>1, <3>1, <3>3, <3>4, VainPhase
      <3>6. QED
        BY <3>2, <3>3, <3>5
    <2>4. CASE Reads \/ TimesOut \/ LinkFails
      <3>1. UNCHANGED calls /\ (hurried => hurried') /\ step # "idle"
        BY <2>4, ReadsCounted
      <3>2. ~hurried' /\ Quiet
        BY <2>1, <3>1 DEF Quiet
      <3>3. Phase /\ calls = 1
        BY <3>1, <3>2 DEF Placed
      <3>4. CASE Reads
        BY <2>1, <3>1, <3>2, <3>3, <3>4, ReadsPhase
      <3>5. CASE TimesOut
        BY <2>1, <3>1, <3>2, <3>3, <3>5, TimesOutPhase
      <3>6. CASE LinkFails
        <4>1. CASE Ends("io")
          BY <2>1, <3>1, <3>3, <4>1, EndsPast DEF Ends, Phase
        <4>2. CASE step = "run" /\ RunFails
          BY <2>1, <3>1, <3>2, <3>3, <4>2, RunFailsPhase
        <4>3. QED
          BY <3>6, <4>1, <4>2 DEF LinkFails
      <3>7. QED
        BY <2>4, <3>4, <3>5, <3>6
    <2>5. QED
      BY <1>3, <2>2, <2>3, <2>4 DEF Host
  <1>4. CASE UNCHANGED vars
    <2>1. UNCHANGED <<toDev, toHost, stageVars, mode, mishaps, calls, hurried, step>>
      BY <1>4 DEF vars, hostVars, stageVars
    <2>2. Phase /\ (step # "idle" => calls = 1)
      BY <2>1 DEF Placed, Quiet
    <2>3. NotShown("assword") => NotShown("assword")'
      BY <2>1 DEF NotShown
    <2>4. Phase'
      BY <2>1, <2>2, <2>3, VainPhase
    <2>5. QED
      BY <2>1, <2>2, <2>4
  <1>5. QED
    BY <1>1, <1>2, <1>3, <1>4 DEF Next

LEMMA PlacedUnseen == Sound /\ Placed => PasswordUnseen
  <1> SUFFICES ASSUME Sound, Placed, mishaps = 0, calls = 1, ~hurried, Exposed PROVE FALSE
    BY DEF PasswordUnseen
  <1>1. PassFirst
    BY PhasePass DEF Placed, Quiet
  <1>2. PICK k \in Nat : k = Len(toDev)
    BY LenProperties DEF Sound, Sending
  <1>3. PICK u \in 0 .. k : u = unsent
    BY <1>2 DEF Sound, Sending
  <1>4. PICK i \in 1 .. k - u : toDev[i].kind = "pass"
    BY <1>2, <1>3 DEF Exposed
  <1>5. i \in 1 .. Len(toDev)
    BY <1>2, <1>3
  <1>6. QED
    BY <1>1, <1>4, <1>5 DEF PassFirst, Exposed

\* The password of a first login with nothing lost is not on its way to, nor
\* does it wait at, a console that echoes, once the device had dealt with the
\* probe when login went on (verified.rs:288-314).
THEOREM PasswordHidden == Spec => []PasswordUnseen
  <1>1. Init => Sound /\ Placed
    BY SoundInit, PlacedInit
  <1>2. Sound /\ Placed /\ [Next]_vars => Sound' /\ Placed'
    BY SoundNext, PlacedNext
  <1>3. Sound /\ Placed => PasswordUnseen
    BY PlacedUnseen
  <1>4. QED
    BY <1>1, <1>2, <1>3, PTL DEF Spec
=============================================================================
