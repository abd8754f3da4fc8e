# uartd and uartfs: TLA+ models and proofs

`uartd` owns a serial console, captures everything it says and serves clients over a
Unix socket. `uart` is its client; with `uart run` and `uart login` it drives a bare
shell. `uartfs` rides on the same console: it moves files to the device, runs commands
on it and flashes it, although the line loses bytes and the device reboots. This
directory holds TLA+ models of all of them, checked with TLC, and theorems proved with
TLAPS.

## The system

| component | state | operations |
|---|---|---|
| drain buffer (`uart-core/src/buffer.rs`) | chunks, `len`, `dropped` | push with eviction, drain, peek |
| line framer and forensic log (`lines.rs`, `daemon.rs`) | unfinished line, log file | push, notes for connects |
| reader thread (`daemon.rs`) | the open port, `first`, the chunk being ingested | open, announce, capture, ingest, reconnect |
| write side (`daemon.rs`, `pacer.rs`) | write handle under a mutex | paced sends of handlers and auto-login |
| auto-login (`login.rs`) | window, `awaiting_password` | feed, rearm |
| connection handlers (`daemon.rs`, `expect.rs`) | one request each; for wait and expect a channel and a matcher | read, peek, status, log, send, expect, wait, stop |
| acceptor, shutdown (`daemon.rs`, `uartd/src/main.rs`) | `shutdown` flag | accept, stop, signal, join and exit |
| `uart` CLI (`uart/src/main.rs`, `client.rs`) | none | one connection, one request; `start`, `run`, `login` |
| verified run and login (`verified.rs`) | nonce, attempt, collected output | run a command between markers, log in |
| wire (`uartfs/src/frame.rs`, `msg.rs`, `chunk.rs`) | partial line | encode, parse, resync |
| host transport (`transport.rs`) | inbox, next command id, the current call | ping, stat, send_blob, exec |
| shell agent (`agent/uartfs-agent.sh`) | files under `$UARTFS_DIR/<xid>` | OPEN, STAT, DATA, CLOSE, EXEC, PING |
| front-end (`uartfs-frontend/src/main.rs`) | transfers in memory, a pty session | the same frames, and ATTACH, DETACH, AIN, AWINCH |
| commands (`commands.rs`, `delta.rs`, `uartfs/src/main.rs`) | the step they are at | push, pull, flash, delta flash, install-module, run |
| attach (`attach.rs`) | terminal mode | bridge a terminal to the front-end |
| configuration (`config.rs`) | none | layer defaults, file, environment, flags |

How they interact: the reader thread, the acceptor, one thread per connection and the
main thread share `Shared`: the buffer, log, framer, writer, subscriber list and login,
each behind a mutex of its own, and three atomics. A `uartfs` process is a client of
the daemon: every frame it sends is a `send` request, and it receives by polling `read`.
On the device the agent reads the console line by line. So each end sees the other
through a FIFO that loses frames: a line is damaged by noise or by another writer, bytes
overrun the device's tty or the drain buffer, or another client's `read` takes them. A
frame carries a checksum, so a damaged frame is lost and never becomes another frame.
`uart run` has no frames: it types a line at a shell and looks for its own markers.

What is hard about it: steps of several threads between two critical sections; the
port that vanishes at any point; answers that come after the question was asked again,
or after the process that asked has gone; files that an interrupted frame or command
leaves behind; a checksum that covers one part of an answer and not another. The file
`PROJECT.json` lists each such hazard with its line.

What makes each component correct:

- drain buffer: no byte is lost without being reported, none is reported twice;
- log: complete and in order, whatever else happens to the bytes;
- waiters: a wait hears every byte from its start on, without taking it from `read`, and
  finds its prompt wherever the reads and the cuts of its window fall;
- write side: no write handle is kept beyond the loss of its port; sends do not mix;
- auto-login: a password is typed only where one was asked for;
- handlers: nobody waits for somebody else's wait; stop always works;
- transfer: success means that the device has exactly that blob; a failure costs
  time but never content, and trying again gets there;
- exec: the output is that of one run of the command, and all of it;
- commands: a success is backed by what the device read back; nothing unverified is
  written to a target or loaded into the kernel; every command ends;
- front-end: the promise of a transfer although its chunks live in memory; a session
  that is over does not keep the console;
- verified run: output is of this attempt and complete; a damaged payload never runs;
  a login is one that a shell has confirmed, and the password is not echoed.

## The modules

Transfer:

- `UfsWire`: the frames of a transfer and the two directions of the console. A blob is
  the sequence of its chunks and stands for its own sha256: digests do not collide.
- `ShellAgent`: one action per frame kind. `disk[x]` is the directory of transfer `x`:
  `.n`, `.sha`, `c.<seq>` and `out`. A frame is one step, since the shell is
  single-threaded. Restarts, full file systems and crashes in the middle of a frame are
  actions (`Reboot`, `DataWriteFails`, `CrashInOpen`, `CrashInData`, `CrashInClose`) that
  leave the files as the redirections would, truncated first.
- `SendBlob`: `stat` and `send_blob` with the inbox of `recv_match`. `pc` is the answer
  awaited. A deadline may pass at any moment in which the inbox holds no match.
- `Transfer`: the two ends and the line, with the properties. `Delivery` is what the
  caller is promised; `Transfer` implements it (`Promise`, with `calling <- pc # "idle"`
  and `delivered <- verdict = "ok"`).
- `FrontendAgent`: the front-end's handlers over `transfers`, which a CLOSE consumes and
  a restart forgets, and its attach loop (`session`), in which every frame but those of
  the session is ignored.
- `Frontend`: `SendBlob` against `FrontendAgent`, with `attach` processes between the
  deliveries. It implements the same `Delivery`.
- `MCTransfer`, `MCFrontend`: instances. `TransferProofs`, `FrontendProofs`: the theorems.
  `SendBlobProofs`: the lemmas about `SendBlob` that both rest on, for any agent.

Commands:

- `Exec`: `Transport::exec` and EXEC on the device: command ids, OUT frames filed by
  number, EXIT with their count and digest.
- `Commands`: one `uartfs` process after the other. `Steps` lists the execs and the
  delivery of each command, `Passes` what the answer of a step must be; one action per
  shell command on the device, with its ways to fail (`UnpackFails`, `WriteFails`,
  `CopyFails`, `ReadCut`, `Crashes`). A delivery inside a command is one step that does
  what `Delivery` promises, which is what `Transfer` and `Frontend` are shown to
  implement. `readBack`, `loaded` and `left` are history variables.
- `MCCommands`: instances. `CommandsProofs`: the theorems about every run;
  `CommandsQuietProofs`: those about processes that find the line empty.

Daemon:

- `DrainBuffer`: buffer, framer and log. A captured byte is its position in the stream,
  so that a gap, a repetition or a swap shows. `cursor` is a history variable: what reads
  have returned or reported lost.
- `UartdPort`: the device node (numbered at each appearance), the write handle, paced
  sends as `PlanLen` writes, auto-login.
- `UartdReader`: the reader thread, one step per critical section or store that another
  thread may see. `"evict"` is the part of `ingest` that holds the buffer lock; `"lost"`
  is the moment in which the port is closed and its write handle is still there.
- `UartdHandlers`: acceptor, handlers, main thread. `read` is two steps, since the
  published length is cleared after the buffer lock is released; a wait has a channel
  (`queue`), an entry in the subscriber list (`subscribed`) and a matcher (`acc`).
- `Uartd`: the threads together, with the properties. `MCUartd`: instances.
  `UartdProofs`: the theorems about the buffer, the write side and the auto-login;
  `UartdStreamProofs`: those about the log and the waiters.

Verified run:

- `Verified`: `run` and `login` of `verified.rs`, and the device as a getty that becomes
  a shell (`mode`). `toDev` holds the lines the device has not read; the last `unsent` of
  them the host has yet to send, one request each (`Sends`), so that a failure or a kill
  (`LinkFails`) may fall between two of them. The damage of a one-liner depends on where
  it strikes. In the payload (`PayloadDamaged`) the shell refuses to run it. In the shell
  text around it (`ShellTextDamaged`, `ShellMisreads`), which no checksum covers, nothing
  is answered and a quote may be left open; or the loss does not matter; or the payload is
  refused; or something else is answered, with its right sum: one of `Strays`. A shown
  line loses characters of the output, the code or the marker. The password is exposed
  (`Exposed`) while it is sent and the console is where it echoes, whatever will have been
  read before it: a tty echoes what arrives. `ran` and `hurried` are history variables:
  what shells have answered, and whether login went on with a line of its probe unread,
  or with what came of it unseen.
- `MCVerified`: instances. `VerifiedProofs`: the theorems.

A definition that begins "Mutant:" is a faulty variant of the definition after it. No
specification uses it; it shows that the property named with it in `PROJECT.json` would
notice the fault.

## The runs

| run | shows |
|---|---|
| `transfer_one` | `PrefixHeld`: the chunks that send_blob has moved past are on the device; `RebuiltStays`, `NeverMisverified`, `ChunksPersist`: retries and reboots never damage what is held; `CallReturns`: every call ends |
| `transfer_faults` | `DeliveredMeansRebuilt` and the refinement `DeliversBlobs` with torn files, lost directories, host restarts and two blobs under one xid |
| `transfer_live` | `EventuallyDelivered`: running a failed delivery again gets there |
| `frontend` | `DeliveredInPlace`, `InPlaceStays`, `DeliversBlobs`: the promise kept by an agent that forgets; `VerifyHasReason`: the three reasons for which a delivery may fail verification; `DetachFrees`: no session without an attached host |
| `commands` | `ClaimIsBacked`: a flash that reports success was read back; `SuccessIsInPlace`, `PullIsExact`: what a command reports is so; `OnlyGatedPayloads`, `LoadsWholeModules`: the gates; `CommandReturns` |
| `uartd_sinks` | `Accounting`, `BufferBounded`: the drain buffer; `LogComplete`, `MarkersPair`: the log; `WaiterHears`: the waiters |
| `uartd_login` | `PasswordAsked`, `WriterFollowsPort` across reconnects; `PromptHeard`: an expect whose window overflows does not miss its prompt |
| `uartd_live` | `QuickAnswered`, `ShutsDown`, `Answered` |
| `verified` | `OutputIsGenuine`: a result is this attempt's and complete, and the command's own unless the shell text was damaged; `LoginIsConfirmed`; `PasswordUnseen`: the password does not meet an echo; `RunReturns` |
| `transfer_splice` | violated: an OPEN of another blob does not clear the old chunks (`set -f` turns off the glob of `rm -f "$d"/c.*`) |
| `flash_stale` | violated: a flash takes the answer that an earlier process's flash left behind, since command ids start at 1 in every process, and reports a target it never wrote |
| `verified_success` | violated: exit code 10 with a digit lost is returned as a verified 0, since the checksum covers only the output; a lost character of the shell text is another way to the same |

Bounds. Transfers use one or two chunks per blob: one chunk has a first and a last,
with two there is a chunk already confirmed while the next is retried, and the proofs
cover any number. `DevCap` frames fit on the way to the device and `HostCap` on the way back; a
second frame on its way is what lets the answer to a retransmission arrive after the
answer it repeats, and the inbox of the host has no such bound. `StatTries` and
`CloseTries` are at least one, `Retries` is zero or one, so that both the retry and the
giving up happen. `MaxReboots`, `MaxFaults` and `MaxCalls` bound the restarts, the interrupted
writes and the calls of one process (new processes are unbounded). The front-end has two
xids, one for each process, one restart, one failed write and one attach (`MaxAttaches`);
`CloseTries` is two, since a CLOSE that is repeated is the case that matters there.

Commands are two processes (`MaxProcs`), which is what it takes for one to meet the
leavings of another, of all seven kinds (flash with two images); one device failure
(`MaxFaults`), which may strike any step; `MaxFrames` is two OUT frames, so that one of
two can be missing; `MaxCids` is five, as many execs as the longest command has. The
console may lose any number of frames.

The daemon captures at most `MaxBytes` bytes, in reads of up to `ReadBuf`, with a buffer
smaller than that (`Cap`), so that eviction, a partial line and a prompt over two chunks
happen; newlines are the second and the third byte (`Newlines`), so that there is an
empty line and a chunk may end in one; `MaxPlugs` is two, one reconnect; `MaxServed` connections are accepted.
In `uartd_sinks` the window of a matcher (`ExpectCap`) is as small as a read, so that it
forgets what it could have matched; in `uartd_login` it is six bytes, half of which hold
a read and one byte (`HalfHoldsRead`), as half of 262144 holds a read of 8192 and a prompt,
and the prompt ends in the seventh byte captured, so that the window is cut before it.

Verified runs are two calls (`MaxCalls`) with one retry and two mishaps (`MaxMishaps`):
one that spoils an attempt and one that spoils the next, or the next call. The device
takes 3 lines typed ahead (`DevCap`), the most that login sends in a row, and the drain
buffer 3 lines (`HostCap`), so that it overflows. `Strays` are the two answers that the
losses named above give: code 0 and no output, and code 0 and the command's output.

Deadlock is checked in `transfer_one`, `transfer_faults` and `transfer_splice`. Everywhere
else the system does stop: the daemon ends, the processes of an instance have all run,
the bytes and reconnects run out, a delivery that has succeeded is not repeated.

Fairness. `HostFairSpec`: send_blob polls and its deadlines pass; nothing is assumed
of the device. `ResumeSpec`: the caller runs a failed delivery again and waits long
enough, the agent restarts after a reboot, and strong fairness per kind of frame says
that the console does not lose the same kind every time; without it nothing arrives.
There the caller uses the same xid, as the transport's test of a resumed transfer does;
the `uartfs` command line draws a new xid for each process and so starts over.
`FairSpec` of `Commands`: a process that can go on does, and its deadlines pass; nothing
is assumed of the device, of the console, or of users.
`FairSpec` of `Verified`: the process reads and its deadlines pass (`Timeouts` are
finite), and the device reads its tty. `FairSpec` of the daemon: the reader, the
acceptor, the main thread and the quick
handlers run, as the operating system lets runnable threads run; no deadline needs to
pass and no send to go on for `QuickAnswered` and `ShutsDown`. A paced send of the
reader itself is bounded by its plan. `Answered` adds that deadlines pass.

## The proofs

`TransferProofs` proves, for every set of xids, blobs and chunks and every bound:

- `TypeCorrect`, `Spec => []TypeOK`. The inductive invariant adds `InRange`: while a chunk
  is being sent it is one of the blob's, without which a retransmission could read past
  the end.
- `DeliveryIsSafe`, `Spec => []DeliveredMeansRebuilt`. The invariant `Backed` says that
  every DONE ok in flight or in the inbox names a blob the device has rebuilt under that
  xid (`Claims`), that `rebuilt` only grows, and that a reported success is one of them.
  It holds with torn files and reused xids, because the digest is compared twice.
- `TransferDelivers`, `Spec => DeliversBlobs`: the refinement of `Delivery`, step by step.
- `NothingSkipped`, `RebuiltIsFinal`, `NoFalseAlarm`: `PrefixHeld`, `RebuiltStays` and
  `NeverMisverified` hold as long as no write was interrupted (`faults = 0`);
  `ResumableTransfer`: `ChunksPersist` holds of a device where none ever is. All four are
  about callers that draw a new xid for every blob (`FreshXids`) and a device whose
  directory survives a restart (`KeepsFiles`); `transfer_one` is such an instance. The
  invariant `Resumable` says what each frame is a witness of: an ACK that its chunk is on
  the device, a HAVE that all chunks below are, a CLOSE on the line that there is nothing
  left to send (`Genuine`, `Truthful`, `Complete`). These facts stay true of frames that
  are late, since no chunk is ever lost; that is why a stale answer does no harm.

What these proofs say about `send_blob` alone is in `SendBlobProofs`: its steps keep their
types whatever frames come back (`HostKeeps`), and a success is the answer to a DONE with
ok and the digest of the blob (`SuccessIsTold`).

`FrontendProofs` proves, for every set of xids, blobs and chunks and every bound on the
retries, restarts, failed writes and sessions:

- `TypeCorrect`, `Spec => []TypeOK`.
- `ReportedIsInPlace`, `Spec => []DeliveredInPlace`, and `WrittenOnce`, `Spec => InPlaceStays`.
  That the front-end reconstructed the blob once (`rebuilt`, as for the shell agent) is
  not enough here: `out` could be overwritten later. The invariant `Sound` says that it
  cannot be: on the line no OPEN of a transfer follows a CLOSE of it (`Ordered`: the host
  sends OPEN only before its first CLOSE, and an xid is used once), so that whatever is
  in place has no entry in `transfers` and no OPEN on its way (`PutOnce`), and without an
  entry no CLOSE writes. It needs the order of the console, not only what is on it.
- `FrontendDelivers`, `Spec => DeliversBlobs`.
- `DetachGivesBack`, `Spec => []DetachFrees`. The invariant `Handed` says what the
  frames on the line tell of the session: one that nobody is attached to has its DETACH
  on the way, an AEND on the way means that it is over, and no DETACH overtakes its
  ATTACH (`Handover`).
- `FailureHasReason`, `Spec => []VerifyHasReason`. The invariant `Agreed` is about a
  front-end that neither restarts nor fails a write (`Unharmed`): what the host has been
  told is held (`Stored`), the entry holds chunks of this blob only (`Entered`), and until
  CLOSE is sent a second time there is one CLOSE on the line at most, which finds all
  chunks there (`Closing`). It assumes `NeverEmpty`: no blob is without chunks. What uartfs delivers
  is compressed or is a patch, so this is the case; a blob without chunks would have no
  NAK to show that its OPEN was lost, and its CLOSE would fail.

`CommandsProofs` proves, for every set of images and targets, any number of processes
and failures and every capacity of the console:

- `TypeCorrect`, `Spec => []TypeOK`.
- `ClaimBacked`, `Spec => []ClaimIsBacked`. The invariant `Sound` says that every EXIT on
  the line or in an inbox whose digest is that of one content names a content of `readBack`
  (`BackedBy`), whichever process asked for it, and that a delta flash at its clean-up
  step has had its image read back (`WriteSound`), since its last answer is not the one
  that counts.

`CommandsQuietProofs` proves, for the same constants, what holds for as long as no
process has ended with frames on the line (`left`): `SuccessMeansInPlace`, `PullsExactly`,
`PayloadsAreGated` and `WholeModulesLoaded`, that is `SuccessIsInPlace`, `PullIsExact`,
`OnlyGatedPayloads` and `LoadsWholeModules`. The invariant `Quiet` says that at most the
current command is on its way to the device (`OneAtATime`), that an EXIT of the current
command id tells what the device holds now (`Own`, `Tells`), and what the steps already
passed have established (`Gated`, `InPlace`, `Fetched`), by the order of the steps of each
command (`StepOrder`).

`UartdProofs` proves, for every buffer capacity, read size, plan, window, set of
connections and of prompts:

- `WriterIsCurrent`, `Spec => []WriterFollowsPort`, which is inductive by itself.
- `NothingLostSilently` and `BufferIsBounded`, `Spec => []Accounting` and
  `Spec => []BufferBounded`. The invariant `Sound` adds to the two that the chunk being
  ingested is the last of the captured bytes (`Streamed`) and that there is always a
  chunk left during an eviction. `Accounting` is an equation of integers, so that it
  needs no induction over the chunks: a push extends it at one end, an eviction moves
  the first chunk from `len` to `dropped`, a drain moves `cursor` to its end.
- `PasswordIsAsked`, `Spec => []PasswordAsked`. The invariant `Watching` says that the
  window holds only bytes of this connection that have been fed (`Fed`), and, while a
  password is awaited, only bytes after the login prompt that was answered: the prompt
  clears the window, and opening the port clears both.

`UartdStreamProofs` proves, for the same constants:

- `DaemonTyped`, `Spec => []TypeOK`. The invariant `Whole` adds that the chunks of the
  buffer are in the order of the stream (`InOrder`) and that those of the channels end
  within it.
- `MarkersAlternate`, `Spec => []MarkersPair`. The invariant `Marked` says which marker is
  the last one at each step of the reader, and that `first` is spent once a connect
  has been announced.
- `NothingMissed`, `Spec => []WaiterHears`. The invariant `Hearing` says of each live
  subscription that window, channel and what is about to be broadcast follow each other
  (`Tuned`), and that a subscription lives only while its handler sends or waits.
- `NoPromptMissed`, `Spec => []PromptHeard`, from the same invariant: the window holds the
  newest half of the cap, which is more than the chunk just added (`Paced`), so the byte
  before that chunk is still there, and a prompt that ends in the chunk shows.
- `NothingUnlogged`, `Spec => []LogComplete`. The log of a chunk is cut at its newlines,
  the log as a whole at those of the stream: the k-th newline of the stream is one of the
  old ones, or one of those in the chunk. This needs lemmas about the rank of a number in
  a finite set (`Rank`), which rest on `LeastElement`: a set of naturals has a least
  element, since strict inclusion of finite sets is well founded.

`VerifiedProofs` proves, for every set of outputs, codes and misreadings, every number
of retries, calls and mishaps and every buffer size:

- `TypeCorrect`, `Spec => []TypeOK`.
- `OutputGenuine`, `Spec => []OutputIsGenuine`; `LoginConfirmed`, `Spec =>
  []LoginIsConfirmed`. The invariant `Sound` says what may be on the line: every command
  on its way was sent by an attempt of this or an earlier call (`Sent`), what shells have
  answered is the command's own unless its shell text was damaged (`Run`), and every END
  line on its way is the refusal of a damaged command or shows what is in `ran` for its
  nonce (`Told`). The nonce only grows, so that an answer to this nonce is of this attempt.
  `HostSound` adds what follows for a host that has just returned. `LoginConfirmed` needs
  that no misreading of 251 is a 0, which is so for decimal numbers and is an assumption
  (`Refusals`): without it a refused `true` would pass for a shell.
- `PasswordHidden`, `Spec => []PasswordUnseen`. The host types ahead of a console that is
  slow, so the place where it types a line is not the one where the line is read. The
  invariant `Placed` has one part for each stage of login (`Fresh`, `Probing`, `Nudged`,
  `Echoing`, `Prompting`, `Past`), which says which lines are unread, where the console is
  and which prompts can be on their way; so the prompt that is answered is the one of the
  user name, and no line is between the password and it (`PassFirst`). The hypothesis is
  that the probe was dealt with when login went on (`~hurried`): without it the claim is
  false, as TLC shows in a few seconds (Known gaps).

They rest on the assumptions on the constants (`WireAssumption`, `AgentAssumption`,
`HostAssumption`, `FrontendAssumption`, `AttachAssumption`; `ExecAssumption`,
`CommandsAssumption`; `BufferAssumption`, `PortAssumption`, `ReaderAssumption`;
`VerifiedAssumption`), which TLC evaluates in the runs.

## Model-checked only

Every invariant and every action property that a passing run checks is a theorem.
Liveness (`CallReturns`, `EventuallyDelivered`, `QuickAnswered`, `ShutsDown`, `Answered`,
`CommandReturns`, `RunReturns`) is out of the prover's reach and is checked on the
instances above.

Some of the theorems have conditions, which are part of the claim. `NeverMisverified`,
`RebuiltStays`, `PrefixHeld` and `ChunksPersist` are claims about a working disk and a
fresh xid per blob: a torn chunk file, or chunks of another blob, makes them false, and
`transfer_faults` does not check them. What remains true there is that such a transfer
is reported as failed (`DeliveryIsSafe`). `SuccessIsInPlace`, `PullIsExact`,
`OnlyGatedPayloads` and `LoadsWholeModules` are claims about processes that find the line
empty; `flash_stale` shows what happens otherwise, and `ClaimIsBacked` what remains true.
`DetachFrees` and `PasswordUnseen` are claims about a first session and a first call with
nothing lost; `PasswordUnseen` moreover about a login whose probe was dealt with before it
went on, without which it is false (Known gaps). `OutputIsGenuine` and `LoginIsConfirmed`
say less of a one-liner whose shell text was damaged, for the same reason.
`PromptHeard` is about windows of which half holds a read and a byte more.
`WriterFollowsPort` excepts the moment between the loss of the port and the drop of its
handle, in which a send is swallowed.

## Not modelled

- `uartfs` bootstrap, ping and quit: they type a script, or send one frame, and wait
  for READY; they promise nothing that another step relies on.
- Configuration, the clock, rendering, and `uart start`: pure, or process plumbing.
- The text codec of the frames and the cuts of `pacer::plan`: a damaged line is a lost
  frame, and no property depends on where a send is cut.
- The regex engine (a prompt is two bytes that may be split between chunks), lossy UTF-8
  decoding, the bytes and window sizes of an attach session, two daemons on one socket.

Known gaps, seen while modelling. No property of a passing run claims the opposite of
any of them.

Daemon:
- two paced sends interleave (`daemon.rs:123`; plan.md:47-48 says they do not);
- an expect matches what came before its own send (`daemon.rs:450`; plan.md:39-40);
- a login prompt that reappears is not answered while a password is awaited
  (`login.rs:59`; login.rs:6-7 says it re-triggers);
- the unfinished line is dropped at shutdown, and the drop marker goes to reads but not
  to the log (plan.md, decision 1, says both);
- a send in the moment between the loss of the port and the drop of its write handle
  (`daemon.rs:295-297`) is swallowed and answered with ok;
- `read` empties the buffer before its answer is written, may clear the published
  length after a later chunk was counted, and the answer to `stop` races with the exit.

Transfer and front-end:
- a DONE of an earlier call of the same xid is taken for this call's (`transport.rs:281`,
  where recv_match matches the xid only; the commands use a new xid per delivery);
- a `uartfs` process draws a new xid, so that running a failed command again starts over
  (uartfs/README.md:33-36 says that transfers resume);
- the front-end's CLOSE consumes the transfer: if DONE is lost, the CLOSE that is sent
  again fails verification, though transport.rs:274-276 takes CLOSE to be idempotent;
- the front-end's OPEN of another blob keeps the entry of the first;
- a blob without chunks whose OPEN is lost fails verification at the front-end, since no
  NAK asks for the OPEN again (no command delivers one);
- the AEND of a session left with Ctrl-] ends the next attach at once (`attach.rs:73`) and
  leaves its session behind; a lost DETACH leaves the device deaf to all other frames.

Commands and verified run:
- `run` may return, as verified, what the command did not print (`verified.rs:75-77`;
  verified.rs:8-9 says that a corrupted command refuses to run and that the host knows it
  got the output intact). No checksum covers the shell text that decodes and runs the
  payload: without the `D` of the second `"$D"`, or the `-` of `-d`, sh reads nothing and
  ends with 0; without a letter of `"$OUT"` the output is empty. The model has both
  (`ShellMisreads`, `Strays`), and `OutputIsGenuine` is false of it without its last
  condition (`e.own \/ ~e.text`);
- an exit code other than 0 may be returned with a digit missing as well: 251, the code
  of a refused command, as 25;
- `login` may type the password where it is echoed, with nothing lost and at a console
  nobody has typed at (`verified.rs:311`; verified.rs:275 says that it "sends the password
  blind (echo is off)"). The getty is slow and quiet; the probe's one-liner is still
  unread when its 3 seconds are over (282-297), and is read as a user name after the
  prompt that login answers; login answers the password prompt of that, with the nudge,
  the user name and its Enter still unread, and the password arrives when the console is
  back at `login:`. `PasswordUnseen` is false of the model without its condition
  `~hurried`, and this is the counterexample;
- exec checks stdout only: stderr may have holes;
- uartfs/README.md says exit code 1 for a failed device command, `run` exits with the
  command's own code;
- a lost quote of a one-liner leaves the shell in a continuation that ^U does not clear,
  so that the retries of `uart run` may fail as well;
- a command may run once per attempt;
- a command that really ends with 251 and prints `cmd-corrupt` is taken for a refusal;
- `login` may find a `login:` that is old, or part of `Last login:`, and types the user's
  name into a shell (verified.rs:273-274 says it is idempotent); a `uart run` that gave up
  at a getty leaves a prompt too many, and the next login types the password where it is
  echoed.

## Plan

Done: the transfer, the daemon, the front-end, exec and the commands, the verified run,
and the proofs of all their invariants and action properties.
Left, in this order:

1. Pure parts as operators against a reference definition: `pacer::plan`, `FrameReader`,
   the layering of the configuration.
2. The bytes of an attach session, and bootstrap.
3. Proofs of what the mishaps leave standing: `PasswordUnseen` after a `uart run` that
   succeeded, `DetachFrees` over several sessions without a race of AENDs.
4. The device's own half of a send that is swallowed: which answers of `send` the text
   has reached the device for.
