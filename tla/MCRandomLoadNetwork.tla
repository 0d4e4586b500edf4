------------------------ MODULE MCRandomLoadNetwork -------------------------
(* Instances of RandomLoadNetwork for TLC.                                  *)
EXTENDS RandomLoadNetwork, TLC

CONSTANTS n1, n2

Symmetry == Permutations(Node)
=============================================================================
