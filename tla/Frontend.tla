------------------------------- MODULE Frontend -------------------------------
(***************************************************************************)
(* The console front-end and its hosts: send_blob of crates/uartfs/src/    *)
(* transport.rs, unchanged, and attach of src/attach.rs, one uartfs        *)
(* process at a time.  A process delivers under an xid of its own          *)
(* (now_id), or attaches.                                                  *)
(***************************************************************************)
EXTENDS SendBlob, FrontendAgent

CONSTANT MaxAttaches    \* bound on the attach processes

ASSUME AttachAssumption == MaxAttaches \in Nat

VARIABLES
    attached,   \* an attach process is in its loop
    attaches,   \* attach processes so far
    used,       \* history: the xids of the deliveries so far
    reclosed,   \* history: the deliveries whose CLOSE was sent again
    mishap      \* history: a frame was lost, the line was full, or an attach
                \* process ended without a word

attachVars == <<attached, attaches>>
historyVars == <<used, reclosed, mishap>>
vars == <<line, hostVars, deviceVars, attachVars, historyVars>>

Init ==
    /\ LineInit
    /\ HostInit
    /\ FrontendInit
    /\ attached = FALSE
    /\ attaches = 0
    /\ used = {}
    /\ reclosed = {}
    /\ mishap = FALSE

Full == Len(toDev) = DevCap \/ Len(toHost) = HostCap
-----------------------------------------------------------------------------
\* send_blob, while nobody is attached.
Transfers ==
    /\ ~attached
    /\ \/ /\ \E x \in Xids \ used : \E b \in Payloads[x] : Call(x, b) /\ used' = used \cup {x}
          /\ UNCHANGED reclosed
       \/ /\ \/ Pump \/ Receives \/ LinkFails \/ NewProcess
             \/ StatTimeout \/ StatGivesUp \/ ChunkTimeout \/ DoneGivesUp
          /\ UNCHANGED <<used, reclosed>>
       \/ DoneTimeout /\ reclosed' = reclosed \cup {xid} /\ UNCHANGED used
    /\ mishap' = (mishap \/ Full)
    /\ UNCHANGED <<deviceVars, attachVars>>

\* attach: one ATTACH, and then its loop.
AttachBegins ==
    /\ ~attached
    /\ pc = "idle"
    /\ attaches < MaxAttaches
    /\ attaches' = attaches + 1
    /\ attached' = TRUE
    /\ Send([kind |-> "ATTACH"])
    /\ UNCHANGED toHost

AttachEnds == attached' = FALSE /\ UNCHANGED attaches

\* Mutant: Ctrl-] ends the loop before DETACH is sent.
AttachDetachesSilently ==
    /\ attached
    /\ AttachEnds
    /\ UNCHANGED line

\* Ctrl-]: DETACH is sent, and attach returns without waiting for AEND.
AttachDetaches ==
    /\ attached
    /\ Send([kind |-> "DETACH"])
    /\ AttachEnds
    /\ UNCHANGED toHost

\* The next frame off the line: AEND ends the loop, output is printed, the
\* rest is ignored.
AttachReceives ==
    /\ attached
    /\ toHost # <<>>
    /\ toHost' = Tail(toHost)
    /\ IF Head(toHost).kind = "AEND" THEN AttachEnds ELSE UNCHANGED attachVars
    /\ UNCHANGED toDev

\* An io error, or a signal.
AttachAborts == attached /\ AttachEnds /\ UNCHANGED line

Attach ==
    /\ \/ /\ AttachBegins \/ AttachDetaches \/ AttachReceives
          /\ mishap' = (mishap \/ Full)
       \/ AttachAborts /\ mishap' = TRUE
    /\ UNCHANGED <<hostVars, deviceVars, used, reclosed>>

Device ==
    /\ Serves \/ Bridges \/ FrontendFails
    /\ mishap' = (mishap \/ Full)
    /\ UNCHANGED <<hostVars, attachVars, used, reclosed>>

Loss ==
    /\ LoseToDev \/ LoseToHost
    /\ mishap' = TRUE
    /\ UNCHANGED <<hostVars, deviceVars, attachVars, used, reclosed>>

Next == Transfers \/ Attach \/ Device \/ Loss

Spec == Init /\ [][Next]_vars
-----------------------------------------------------------------------------
\* Every variable holds a value of its type.
TypeOK ==
    /\ toDev \in Seq(ToDevice \cup SessionToDevice)
    /\ toHost \in Seq(ToHost \cup SessionToHost)
    /\ inbox \in Seq(ToHost \cup SessionToHost)
    /\ FrontendTypeOK
    /\ pc \in {"idle", "stat", "data", "close"}
    /\ xid \in Xids
    /\ blob \in Blobs
    /\ seq \in 0 .. MaxChunks
    /\ tries \in Nat
    /\ verdict \in Verdicts
    /\ attached \in BOOLEAN
    /\ attaches \in 0 .. MaxAttaches
    /\ used \subseteq Xids
    /\ reclosed \subseteq Xids
    /\ mishap \in BOOLEAN

\* A delivery that send_blob reports is in place on the device, also after a
\* restart in the middle that lost the chunks the host had moved past, and
\* with a session in between that ignored its frames.
DeliveredInPlace == verdict = "ok" => out[xid] = blob

\* A blob that was put in place stays: neither a CLOSE that is sent again, nor
\* a restart, nor a delivery under another xid removes or changes it.
InPlaceStays ==
    [][\A x \in Xids : out[x] \in Blobs => out'[x] = out[x]]_vars

\* A delivery fails verification only for a reason: the front-end restarted or
\* could not write, or CLOSE was sent again to a front-end that had already
\* consumed the transfer (transport.rs:274-276 takes CLOSE to be idempotent).
VerifyHasReason ==
    verdict = "verify" => restarts > 0 \/ faults > 0 \/ xid \in reclosed

\* A user who detaches gives the console back: as long as nothing was lost, no
\* session is on without a host that is attached to it, or the DETACH that
\* ends it on its way.  (A second attach may take the AEND of the first for
\* its own, and leave its session behind.)
DetachFrees ==
    session /\ ~attached /\ ~mishap /\ attaches <= 1 =>
        \E i \in DOMAIN toDev : toDev[i].kind = "DETACH"

\* The front-end keeps the contract of the shell agent: with it as well, every
\* transfer does what delivering a blob promises.
Promise == INSTANCE Delivery WITH calling <- pc # "idle", delivered <- verdict = "ok"
DeliversBlobs == Promise!Spec
=============================================================================
