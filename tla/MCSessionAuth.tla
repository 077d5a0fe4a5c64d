--------------------------- MODULE MCSessionAuth ---------------------------
(***************************************************************************)
(* Small instances of SessionAuth for TLC.                                 *)
(***************************************************************************)
EXTENDS SessionAuth, TLC

Symmetry == Permutations(Reqs)
=============================================================================
