------------------------------ MODULE MCFrontend ------------------------------
(***************************************************************************)
(* Instances of Frontend for TLC.                                          *)
(***************************************************************************)
EXTENDS Frontend

CONSTANTS x1, x2, c1, c2

\* A blob of two chunks and one of one, each under the xid of its process.
LongAndShort == {<<c1, c2>>, <<c2>>}
OneEach == [x \in Xids |-> IF x = x1 THEN {<<c1, c2>>} ELSE {<<c2>>}]
=============================================================================
