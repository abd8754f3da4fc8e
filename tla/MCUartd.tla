------------------------------ MODULE MCUartd ------------------------------
(***************************************************************************)
(* Instances of Uartd for TLC.                                             *)
(***************************************************************************)
EXTENDS Uartd

CONSTANTS h1, h2

\* One client that sends and waits for the response, and one that reads.
ExpectAndRead == [h \in Conns |-> IF h = h1 THEN {"expect"} ELSE {"read"}]

\* A waiter, and a client that reads, looks or stops the daemon.
WaitAndOthers ==
    [h \in Conns |-> IF h = h1 THEN {"wait", "expect"} ELSE {"read", "peek", "status", "stop"}]

\* Clients that send, and wait for the response or do not.
SendOrExpect == [h \in Conns |-> {"send", "expect"}]
=============================================================================
