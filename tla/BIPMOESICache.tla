--------------------------- MODULE BIPMOESICache ---------------------------
(***************************************************************************)
(* src/src/MemSys/Devices/BIPMOESICache.cpp, the cache of the              *)
(* configurations with a BIPDirectory.  A response nobody waits for goes   *)
(* back to the directory as an eviction.                                   *)
(***************************************************************************)
EXTENDS Naturals

CONSTANTS Tag, Associativity, NoBlock, NoID,
          hitTime, missTime, evictionTime, invalidateTime, evictionPolicy

Dirty == {"Modified", "Owned"}
NeedsExclusive == {"Shared", "Owned"}
GrantsExclusive == {"Exclusive", "Modified"}
ExclusiveFill == "Exclusive"
AfterRead == [Modified |-> "Owned", Owned |-> "Owned", Exclusive |-> "Shared", Shared |-> "Shared"]
AfterMerge == [Modified |-> "Modified", Owned |-> "Owned", Exclusive |-> "Modified",
               Shared |-> "Owned", Invalid |-> "Invalid"]
EvictsSurplus == TRUE

BIPMOESI == [Dirty |-> Dirty, NeedsExclusive |-> NeedsExclusive, GrantsExclusive |-> GrantsExclusive,
             ExclusiveFill |-> ExclusiveFill, AfterRead |-> AfterRead, AfterMerge |-> AfterMerge,
             EvictsSurplus |-> EvictsSurplus]

INSTANCE CacheFamily WITH class <- BIPMOESI
=============================================================================
