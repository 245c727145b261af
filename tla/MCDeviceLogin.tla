--------------------------- MODULE MCDeviceLogin ---------------------------
(***************************************************************************)
(* One account that is connected to Twitch, on small bounds.               *)
(***************************************************************************)
EXTENDS DeviceLogin

=============================================================================
