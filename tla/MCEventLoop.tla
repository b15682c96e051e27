----------------------------- MODULE MCEventLoop -----------------------------
(***************************************************************************)
(* Instances of EventLoop.                                                 *)
(***************************************************************************)
EXTENDS EventLoop, TLC

CONSTANTS c1, c2, c3

\* A transaction and a client that quits; one given up, with a nested MULTI; and
\* one that a request that does not parse cuts off from its EXEC.
Transactions == c1 :> <<"MULTI", "PLAIN", "EXEC", "EXEC", "QUIT">>
             @@ c2 :> <<"PLAIN", "MULTI", "PLAIN", "MULTI", "DISCARD">>
             @@ c3 :> <<"BAD", "MULTI", "PLAIN", "GARBLED", "EXEC">>
Plain == [c \in Conns |-> <<"PLAIN", "PLAIN">>]

TwoAhead == [c \in Conns |-> 2]

=============================================================================
