------------------------------- MODULE MCScan --------------------------------
(***************************************************************************)
(* An instance of Scan alone.                                              *)
(***************************************************************************)
EXTENDS Scan

CONSTANTS k1, k2, k3

All == {Key}

=============================================================================
