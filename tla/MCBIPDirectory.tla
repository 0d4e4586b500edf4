--------------------------- MODULE MCBIPDirectory ---------------------------
(* Instances of BIPDirectory for TLC.                                       *)
EXTENDS BIPDirectory, TLC

CONSTANTS h, a, b, i1, i2

(* The nodes other than Home are alike, and so are the message numbers.     *)
Symmetry == Permutations(Node \ {Home}) \cup Permutations(MsgID)
=============================================================================
