----------------------------- MODULE MCDeviceApp -----------------------------
(***************************************************************************)
(* DeviceApp for TLC: two-byte messages numbered modulo 3; OUT packets of  *)
(* up to two messages of two bytes.  The ring has as many slots as they    *)
(* have bytes, which is just enough (with one slot less it overruns); the  *)
(* firmware's 64 slots face 48 bytes.                                      *)
(***************************************************************************)
EXTENDS DeviceApp
=============================================================================
