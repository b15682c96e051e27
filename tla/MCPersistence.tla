---------------------------- MODULE MCPersistence ----------------------------
(***************************************************************************)
(* Instances of Persistence.  Databases, commands and entries are numbers: *)
(* there are no model values to declare.                                   *)
(***************************************************************************)
EXTENDS Persistence

OneDB  == {0}
TwoDBs == {0, 1}

=============================================================================
