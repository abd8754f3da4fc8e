------------------------------ MODULE Delivery ------------------------------
(***************************************************************************)
(* What delivering a blob promises (uartfs/README.md, "Reliable            *)
(* delivery"): a caller is told that a blob was delivered only if the      *)
(* device has reconstructed exactly that blob under that xid; every other  *)
(* call ends in an error.                                                  *)
(***************************************************************************)
CONSTANTS Xids, Blobs

VARIABLES
    rebuilt,    \* the blobs the device has reconstructed, per xid
    calling,    \* a delivery is under way
    xid, blob,  \* what is being, or was last, delivered
    delivered   \* the last delivery was reported as successful

vars == <<rebuilt, calling, xid, blob, delivered>>

Init ==
    /\ rebuilt = [x \in Xids |-> {}]
    /\ calling = FALSE
    /\ xid \in Xids
    /\ blob \in Blobs
    /\ delivered = FALSE

Begin(x, b) ==
    /\ ~calling
    /\ calling' = TRUE
    /\ xid' = x
    /\ blob' = b
    /\ delivered' = FALSE
    /\ UNCHANGED rebuilt

Rebuild(x, b) ==
    /\ rebuilt' = [rebuilt EXCEPT ![x] = @ \cup {b}]
    /\ UNCHANGED <<calling, xid, blob, delivered>>

Succeed ==
    /\ calling
    /\ blob \in rebuilt[xid]
    /\ calling' = FALSE
    /\ delivered' = TRUE
    /\ UNCHANGED <<rebuilt, xid, blob>>

\* A call fails, or the process is gone and with it what it was told.
Fail ==
    /\ calling' = FALSE
    /\ delivered' = FALSE
    /\ UNCHANGED <<rebuilt, xid, blob>>

Next ==
    \/ \E x \in Xids, b \in Blobs : Begin(x, b) \/ Rebuild(x, b)
    \/ Succeed
    \/ Fail

Spec == Init /\ [][Next]_vars
=============================================================================
