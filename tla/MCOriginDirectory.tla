------------------------- MODULE MCOriginDirectory -------------------------
(* Instances of OriginDirectory for TLC.                                     *)
EXTENDS OriginDirectory, TLC

CONSTANTS n1, n2, n3

(* MemGen.cs generates latencies from 100 to 110 times networkMultiplyFactor, *)
(* and 0 to 1 if the factor is 0 (58-75), as it is in Main (540).            *)
Generated == [maxReads |-> [n \in Node |-> 1], latencies |-> {0, 1}]

(* Two nodes away from home over a network in which the spread, but not the  *)
(* least latency, is that of a factor of 2.                                  *)
Slow == [maxReads |-> (n1 :> 0 @@ n2 :> 2 @@ n3 :> 1), latencies |-> {0, 20}]

Away == [maxReads |-> (n1 :> 0 @@ n2 :> 2 @@ n3 :> 1), latencies |-> {0, 1}]

Networks == {Generated, Slow}
OnlyAway == {Away}
=============================================================================
