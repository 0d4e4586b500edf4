-------------------------------- MODULE MOESICache --------------------------
(***************************************************************************)
(* src/src/MemSys/Devices/MOESICache.cpp, the cache of the configurations  *)
(* with a bus, a Directory or an OriginDirectory.  A response nobody waits *)
(* for is thrown away.                                                     *)
(***************************************************************************)
EXTENDS Naturals

CONSTANTS Tag, Associativity, NoBlock, NoID,
          hitTime, missTime, evictionTime, invalidateTime, evictionPolicy

Dirty == {"Modified", "Owned"}
NeedsExclusive == {"Shared", "Owned"}
GrantsExclusive == {"Exclusive", "Modified"}
ExclusiveFill == "Exclusive"

AfterRead == [Modified |-> "Owned", Owned |-> "Owned", Exclusive |-> "Shared", Shared |-> "Shared"]
AfterMerge == [Modified |-> "Modified", Owned |-> "Owned", Exclusive |-> "Modified",
               Shared |-> "Owned", Invalid |-> "Invalid"]
EvictsSurplus == FALSE

MOESI == [Dirty |-> Dirty, NeedsExclusive |-> NeedsExclusive, GrantsExclusive |-> GrantsExclusive,
          ExclusiveFill |-> ExclusiveFill, AfterRead |-> AfterRead, AfterMerge |-> AfterMerge,
          EvictsSurplus |-> EvictsSurplus]

INSTANCE CacheFamily WITH class <- MOESI
=============================================================================
