------------------------------ MODULE MCVerified ------------------------------
(***************************************************************************)
(* Instances of Verified for TLC.                                          *)
(***************************************************************************)
EXTENDS Verified

\* A success, a failure, and a command that prints what a damaged one does.
CommandEnds ==
    {[code |-> 0, out |-> "text"], [code |-> 10, out |-> "text"],
     [code |-> 251, out |-> "cmd-corrupt"]}

Codes == {0, 1, 10, 25, 251}

\* What shell text with a character missing has made of a command: printf %s "$"
\* gives sh nothing to run; ? is no number, and so the 10 of a command is a 0.
Strayed == {[code |-> 0, out |-> ""], [code |-> 0, out |-> "text"]}

\* Decimal numbers with a digit missing.
DigitLost ==
    [c \in Codes |-> CASE c = 10 -> {0, 1} [] c = 251 -> {25} [] OTHER -> {}]
=============================================================================
