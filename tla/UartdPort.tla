----------------------------- MODULE UartdPort -----------------------------
(***************************************************************************)
(* The serial port, the paced writers and the auto-login state machine of  *)
(* the daemon: Shared::writer and send_paced of                            *)
(* crates/uart-core/src/daemon.rs, and crates/uart-core/src/login.rs.      *)
(*                                                                         *)
(* The device node may vanish and come back; each appearance is numbered.  *)
(* A send is a plan of PlanLen writes (pacer.rs).  Each write takes the    *)
(* writer mutex by itself, so the writes of several senders interleave.    *)
(***************************************************************************)
EXTENDS DrainBuffer

CONSTANTS
    Conns,      \* the connections a client may open, one request each
    Reader,     \* the reader thread
    PlanLen,    \* the writes of one send
    MaxPlugs,   \* bound on the appearances of the device node
    LoginEnds,  \* where a "login:" prompt ends, after one byte before it
    PassEnds,   \* where a "password:" prompt ends, likewise
    Window,     \* login.rs WINDOW: the bytes the matcher looks back
    AutoLogin   \* credentials are configured

ASSUME PortAssumption ==
    /\ Reader \notin Conns
    /\ PlanLen \in Nat \ {0}
    /\ MaxPlugs \in Nat \ {0}
    /\ LoginEnds \subseteq 2 .. MaxBytes
    /\ PassEnds \subseteq 2 .. MaxBytes
    /\ Window \in Nat
    /\ AutoLogin \in BOOLEAN

Senders == Conns \cup {Reader}

VARIABLES
    plug,       \* the number of the device node present, 0 when there is none
    plugs,      \* appearances of the device node so far
    writer,     \* the node the write handle refers to, 0 for None
    step,       \* writes of its plan that a sender has done
    awaiting,   \* AutoLogin.awaiting_password
    window      \* AutoLogin.window

portVars   == <<plug, plugs, writer>>
sendVars   == <<step>>
loginVars  == <<awaiting, window>>
serialVars == <<portVars, sendVars, loginVars>>

PortTypeOK ==
    /\ plug \in 0 .. MaxPlugs
    /\ plugs \in 0 .. MaxPlugs
    /\ writer \in 0 .. MaxPlugs
    /\ step \in [Senders -> 0 .. PlanLen]
    /\ awaiting \in BOOLEAN
    /\ window \in Seq(1 .. MaxBytes)

PortInit ==
    /\ plug \in {0, 1}
    /\ plugs = plug
    /\ writer = 0
    /\ step = [s \in Senders |-> 0]
    /\ awaiting = FALSE
    /\ window = <<>>
-----------------------------------------------------------------------------
Unplug == plug # 0 /\ plug' = 0 /\ UNCHANGED <<plugs, writer>>

Replug ==
    /\ plug = 0
    /\ plugs < MaxPlugs
    /\ plugs' = plugs + 1
    /\ plug' = plugs'
    /\ UNCHANGED writer

\* One write of s's plan, under the writer mutex.  What is written to a node
\* that has gone either fails or is swallowed.
WriteStep(s) ==
    /\ step[s] < PlanLen
    /\ writer # 0
    /\ step' = [step EXCEPT ![s] = @ + 1]

\* There is no write handle, or the write fails: the send ends in an error.
WriteFails(s) ==
    /\ step[s] < PlanLen
    /\ writer = 0 \/ writer # plug
    /\ step' = [step EXCEPT ![s] = 0]

\* Every write is done.
WritesDone(s) ==
    /\ step[s] = PlanLen
    /\ step' = [step EXCEPT ![s] = 0]
-----------------------------------------------------------------------------
\* The text holds a two-byte prompt that ends at one of the given positions.
Shows(text, ends) ==
    \E i \in 2 .. Len(text) : text[i] \in ends /\ text[i - 1] = text[i] - 1

LastOf(text, n) == IF Len(text) > n THEN SubSeq(text, Len(text) - n + 1, Len(text)) ELSE text

\* Mutant: only the window is reset.
RearmWindowOnly == window' = <<>> /\ UNCHANGED awaiting

Rearm == awaiting' = FALSE /\ window' = <<>>

\* feed: the window takes the bytes b; the prompt it waits for clears the
\* window and is answered.
Prompted(b) ==
    LET seen == LastOf(window \o b, Window)
    IN Shows(seen, IF awaiting THEN PassEnds ELSE LoginEnds)

Feed(b) ==
    IF Prompted(b)
    THEN awaiting' = ~awaiting /\ window' = <<>>
    ELSE window' = LastOf(window \o b, Window) /\ UNCHANGED awaiting
=============================================================================
