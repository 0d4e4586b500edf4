--------------------------- MODULE MCEventManager ---------------------------
(* Instances of EventManager for TLC.                                       *)
EXTENDS EventManager, TLC

CONSTANTS f1, f2, f3, f4, c1, c2, c3

(* Vectors are alike.                                                       *)
Symmetry == Permutations(Container) \cup Permutations(Function)
=============================================================================
