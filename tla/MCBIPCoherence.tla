--------------------------- MODULE MCBIPCoherence ---------------------------
(* Instances of BIPCoherence for TLC.                                       *)
EXTENDS BIPCoherence, TLC

CONSTANTS h, a, i1, i2, i3, x, y

(* The nodes other than Home are alike, and so are the message numbers.     *)
Symmetry == Permutations(Node \ {Home}) \cup Permutations(MsgID)
=============================================================================
