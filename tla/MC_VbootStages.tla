---------------------------- MODULE MC_VbootStages ----------------------------
(* The engine results: success, the two special requests and one generic   *)
(* failure, which stands for every other VbError_t.                        *)
EXTENDS VbootStages

CONSTANTS GENERIC_FAILURE

MCEngineResults == {SUCCESS, EC_REBOOT_TO_RO, SHUTDOWN_REQUESTED, GENERIC_FAILURE}
=============================================================================
