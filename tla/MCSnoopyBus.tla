----------------------------- MODULE MCSnoopyBus -----------------------------
(* Instances of SnoopyBus for TLC, with caches of any of the classes.       *)
EXTENDS SnoopyBus, TLC

CONSTANTS cpu1, cpu2, cpu3, x, y

Oldest  == INSTANCE MSICache
Older   == INSTANCE MESICache
Current == INSTANCE MOESICache

MSI   == Oldest!MSI
MESI  == Older!MESI
MOESI == Current!MOESI

(* Tags are alike.  Caches are not: they are asked in some order.           *)
Symmetry == Permutations(Tag)
=============================================================================
