--------------------------- MODULE MCUCCatalogSet ---------------------------
(***************************************************************************)
(* Small instances of UCCatalogSet.  The server's catalog "cat" always has *)
(* the schemas "r" and "s", and the schema "s" the tables "r" and "s"; the *)
(* schema or table "v" comes and goes.  The server has no catalog "other". *)
(***************************************************************************)
EXTENDS UCCatalogSetContract, TLC

MCListings == Catalogs \cup TableSets
Kept == [l \in MCListings |-> IF l = "other" THEN {} ELSE {"r", "s"} \cap Names]
Changing == [l \in MCListings |-> IF l = "other" THEN {} ELSE {"v"} \cap Names]

ThreadSymmetry == Permutations(Threads)
=============================================================================
