---------------------------- MODULE MCCacheStack ----------------------------
(* Instances of CacheStack for TLC, with caches of each of the classes.      *)
EXTENDS CacheStack, TLC

CONSTANTS x, y, z

OfMSI      == INSTANCE MSICache WITH Associativity <- Associativity1, hitTime <- hitTime1, missTime <- missTime1
OfMESI     == INSTANCE MESICache WITH Associativity <- Associativity1, hitTime <- hitTime1, missTime <- missTime1
OfMOESI    == INSTANCE MOESICache WITH Associativity <- Associativity1, hitTime <- hitTime1, missTime <- missTime1
OfBIPMOESI == INSTANCE BIPMOESICache WITH Associativity <- Associativity1, hitTime <- hitTime1, missTime <- missTime1

MSI      == OfMSI!MSI
MESI     == OfMESI!MESI
MOESI    == OfMOESI!MOESI
BIPMOESI == OfBIPMOESI!BIPMOESI

OnlyBIPMOESI == {BIPMOESI}
AllClasses == {MSI, MESI, MOESI, BIPMOESI}

(* Tags are alike.                                                          *)
Symmetry == Permutations(Tag)
=============================================================================
