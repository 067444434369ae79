--------------------------- MODULE MCWatchdogRecords ---------------------------
(* Two records, one with two files that may be written twice. *)
EXTENDS WatchdogRecords

MCFilesOf == [r \in {"r1", "r2"} |-> IF r = "r1" THEN {"a", "b"} ELSE {"c"}]
MCMaxVersion == [f \in {"a", "b", "c"} |-> IF f = "c" THEN 1 ELSE 2]
=============================================================================
