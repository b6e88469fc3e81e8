------------------------ MODULE MC_HostFirmwareUpdate ------------------------
(* Three hosts, two updates at a time, two firmware configurations. *)
EXTENDS HostFirmwareUpdate
=============================================================================
