-------------------------- MODULE MCIngestionEngine --------------------------
(* An instance of IngestionEngine for TLC: the ingestion table with a cycle
   (route back to stabilize), a stage without a handler (archive) and a stage
   without a policy (audit) added. Handlers may return anything. *)
EXTENDS IngestionEngine

LooseNextStages ==
    [s \in RequiredStages \cup {"archive"} |->
        CASE s = "route"   -> {"persist", "stabilize", "archive"}
          [] s = "persist" -> {"post_persist", "audit"}
          [] s = "archive" -> {}
          [] OTHER         -> DefaultNextStages[s]]

LooseTerminalOutcomes ==
    [s \in DOMAIN LooseNextStages |->
        IF s = "archive" THEN Terminals ELSE DefaultTerminalOutcomes[s]]
=============================================================================
