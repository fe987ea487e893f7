--------------------------- MODULE MCNativeEvents ---------------------------
(* Instance of NativeEvents for TLC. *)
EXTENDS NativeEvents

MCMarker == {"motion_alarm"}
MCSlots == 0..1
=============================================================================
