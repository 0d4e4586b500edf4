--------------------------------- MODULE MSICache ---------------------------
(***************************************************************************)
(* src/src/MemSys/Devices/MSICache.cpp: a block that arrives exclusively is *)
(* Modified, and whatever gets dirty data from above becomes Modified.     *)
(***************************************************************************)
EXTENDS Naturals

CONSTANTS Tag, Associativity, NoBlock, NoID,
          hitTime, missTime, evictionTime, invalidateTime, evictionPolicy

Dirty == {"Modified"}
NeedsExclusive == {"Shared"}
GrantsExclusive == {"Modified"}
ExclusiveFill == "Modified"
AfterRead == [Modified |-> "Shared", Shared |-> "Shared"]
AfterMerge == [Modified |-> "Modified", Shared |-> "Modified", Invalid |-> "Modified"]
EvictsSurplus == FALSE

MSI == [Dirty |-> Dirty, NeedsExclusive |-> NeedsExclusive, GrantsExclusive |-> GrantsExclusive,
        ExclusiveFill |-> ExclusiveFill, AfterRead |-> AfterRead, AfterMerge |-> AfterMerge,
        EvictsSurplus |-> EvictsSurplus]

INSTANCE CacheFamily WITH class <- MSI
=============================================================================
