--------------------------- MODULE MCFleetAutomation ---------------------------
(* FleetAutomation for TLC. *)
EXTENDS FleetAutomation
=============================================================================
