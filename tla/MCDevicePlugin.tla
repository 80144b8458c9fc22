--------------------------- MODULE MCDevicePlugin ---------------------------
(* Constants of the run "device_plugin": the default, fewer devices, and a *)
(* count that is refused.                                                  *)
EXTENDS DevicePlugin

MCFlags == {0, 2, -1}
=============================================================================
