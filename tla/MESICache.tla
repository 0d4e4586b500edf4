--------------------------------- MODULE MESICache --------------------------
(***************************************************************************)
(* src/src/MemSys/Devices/MESICache.cpp: no Owned state, so a block that is *)
(* read from below is no longer dirty, and dirty data from above leaves a  *)
(* Shared block as it is.                                                  *)
(***************************************************************************)
EXTENDS Naturals

CONSTANTS Tag, Associativity, NoBlock, NoID,
          hitTime, missTime, evictionTime, invalidateTime, evictionPolicy

Dirty == {"Modified"}
NeedsExclusive == {"Shared"}
GrantsExclusive == {"Exclusive", "Modified"}
ExclusiveFill == "Exclusive"
AfterRead == [Modified |-> "Shared", Exclusive |-> "Shared", Shared |-> "Shared"]

AfterMerge == [Modified |-> "Modified", Exclusive |-> "Modified", Shared |-> "Shared",
               Invalid |-> "Invalid"]
EvictsSurplus == FALSE

MESI == [Dirty |-> Dirty, NeedsExclusive |-> NeedsExclusive, GrantsExclusive |-> GrantsExclusive,
         ExclusiveFill |-> ExclusiveFill, AfterRead |-> AfterRead, AfterMerge |-> AfterMerge,
         EvictsSurplus |-> EvictsSurplus]

INSTANCE CacheFamily WITH class <- MESI
=============================================================================
