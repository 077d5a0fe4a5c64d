--------------------------- MODULE MCPropagation ---------------------------
(***************************************************************************)
(* Row 0 is a folder all chains share (files), 2 and 3 are a folder and a  *)
(* folder inside it that a MOVE re-keys with a bulk statement, 1 is a      *)
(* folder next to them.  The hashes do not follow the depth of the paths.  *)
(***************************************************************************)
EXTENDS Propagation

CONSTANTS p1, p2, p3, b1

MCChain ==
    [t \in Txns |->
        CASE t = p1 -> {0, 2, 3}
          [] t = p2 -> {0, 2}
          [] t = p3 -> {0, 1, 3}
          [] t = b1 -> {2, 3}]
=============================================================================
