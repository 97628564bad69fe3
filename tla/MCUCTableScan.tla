--------------------------- MODULE MCUCTableScan ---------------------------
(***************************************************************************)
(* Small instances of UCTableScan: the location of "lake" contains that of *)
(* "part", "disk" is on the local file system, "csv" has another format.   *)
(***************************************************************************)
EXTENDS UCTableScan, TLC

MCLocation ==
    [x \in Tables |-> CASE x = "lake" -> <<"s3:", "lake">>
                        [] x = "part" -> <<"s3:", "lake", "part">>
                        [] x = "csv"  -> <<"s3:", "csv">>
                        [] x = "disk" -> <<"file:", "disk">>]

ThreadSymmetry == Permutations(Threads)
=============================================================================
