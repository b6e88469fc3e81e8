------------------------ MODULE MC_DeviceController ------------------------
(* One switch and one rack, one worker, one crash. *)
EXTENDS DeviceController
=============================================================================
