------------------------ MODULE UCCatalogSetContract ------------------------
(***************************************************************************)
(* UCCatalogSet implements CatalogContract when no thread clears the       *)
(* cache: the contract's map is the entries, its answers are the pointers  *)
(* a call holds when it has returned.                                      *)
(***************************************************************************)
EXTENDS UCCatalogSet

Contract == INSTANCE CatalogContract WITH
    map <- entries,
    request <- call,
    busy <- [t \in Threads |-> pc[t] # "idle"],
    outcome <- answer,
    found <- [t \in Threads |-> IF pc[t] = "idle" THEN held[t] ELSE NoEntries],
    NoRequest <- [op |-> "Scan", set |-> Root, name |-> NoName]

\* Every behaviour of the sets is one the contract allows: calls of several
\* threads look as if each took place at one instant, on a map that only grows.
ImplementsContract == Contract!Spec
=============================================================================
