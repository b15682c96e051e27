------------------------------ MODULE MCServer -------------------------------
(***************************************************************************)
(* Instances of Server: a transaction of two commands and a single one.    *)
(***************************************************************************)
EXTENDS Server, TLC

CONSTANTS c1, c2

Clients == c1 :> <<"MULTI", "PLAIN", "PLAIN", "EXEC">> @@ c2 :> <<"PLAIN">>

OneAhead == [c \in Conns |-> 1]
OneDB    == {0}

=============================================================================
