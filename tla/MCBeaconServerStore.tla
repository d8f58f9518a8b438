-------------------------- MODULE MCBeaconServerStore -------------------------
(* The instance of MCBeaconServer, with the faults that                     *)
(* OnlyFragileRequestsKill allows, but for signals.                         *)
EXTENDS BeaconServerStore, MCBeaconServer

CalmFaults == {"startup", "hangup", "reset", "write"}
=============================================================================
