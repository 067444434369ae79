------------------------------ MODULE MCPlugins ------------------------------
(* Plugin modules for TLC: a device for every profile (1), a device (2) and a
   PC (3) for some profiles, a second module claiming id 2, and one whose
   manifest breaks the contract (a device that cannot process). *)

DeviceManifest(id, profiles) ==
    [id |-> id, family |-> "device", namespace |-> "device",
     profiles |-> profiles, major |-> 2, can_process |-> TRUE,
     preprocess |-> FALSE, batch |-> FALSE, sync |-> FALSE, builds |-> TRUE,
     devices |-> {},
     exports |-> {"metadata", "capabilities", "create_processor",
                  "validate_settings"}]

MCModules == {"dev1", "dev2", "dev2copy", "pc3", "broken"}
MCManifest ==
    [m \in MCModules |->
        CASE m = "dev1" -> DeviceManifest(1, {})
          [] m = "dev2" -> DeviceManifest(2, {"prod"})
          [] m = "dev2copy" -> DeviceManifest(2, {"test"})
          [] m = "broken" -> [DeviceManifest(4, {"prod"})
                                EXCEPT !.can_process = FALSE, !.batch = TRUE]
          [] m = "pc3" ->
               [DeviceManifest(3, {"prod", "test"}) EXCEPT
                  !.family = "pc", !.namespace = "pc", !.can_process = FALSE,
                  !.sync = TRUE, !.devices = {1, 2},
                  !.exports = {"metadata", "capabilities",
                               "create_sync_adapter", "prepare_sync_payload"}]]
=============================================================================
