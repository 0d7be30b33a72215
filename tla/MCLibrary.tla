----------------------------- MODULE MCLibrary ------------------------------
(***************************************************************************)
(* Library with small values for its constants; those that are no literals *)
(* are defined here.                                                       *)
(***************************************************************************)
EXTENDS Library

\* Two words of two bits, of different parity.
MCWords == {<<FALSE, TRUE>>, <<TRUE, TRUE>>}

MCOwnerOf == [n1 |-> "t1", n2 |-> "t2", n3 |-> "t3"]
=============================================================================
