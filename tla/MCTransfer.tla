----------------------------- MODULE MCTransfer -----------------------------
(***************************************************************************)
(* Instances of Transfer for TLC.                                          *)
(***************************************************************************)
EXTENDS Transfer

CONSTANTS x1, x2, c1, c2

\* One blob of two chunks, as when one process delivers one file.
OneBlob == {<<c1, c2>>}
OnePayload == [x \in Xids |-> OneBlob]

\* Two blobs that a caller delivers under one xid, one of them empty.
ShortAndEmpty == {<<c1>>, <<>>}

\* Two blobs of different lengths that a caller delivers under one xid.
LongAndShort == {<<c1, c2>>, <<c2>>}
AnyPayload == [x \in Xids |-> Blobs]
=============================================================================
