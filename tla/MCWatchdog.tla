------------------------------ MODULE MCWatchdog ------------------------------
(* A file "f" that two devices match, the first of which waits for files to
   reappear and the second of which stages files, in a folder "s"; and a folder
   "d" that is empty first, is recognised by a device of its own with its second
   version and gets its sentinel with its third. *)
EXTENDS Watchdog

MCPaths == {"f", "d", "s"}
MCCandidates ==
    [p \in MCPaths |-> [v \in 1..3 |->
        CASE p = "f" -> <<"d1", "d2">> [] p = "d" /\ v >= 2 -> <<"d3">> [] OTHER -> <<>>]]
MCMaxVersion == [p \in MCPaths |-> CASE p = "f" -> 2 [] p = "d" -> 3 [] OTHER -> 1]
MCSentinel == [p \in MCPaths |-> IF p = "d" THEN 3 ELSE 0]
=============================================================================
