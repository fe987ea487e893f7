-------------------------- MODULE MCNativePipeline --------------------------
(* Instance of NativePipeline for TLC: its bounds are numbers, given in the *)
(* configuration files.                                                      *)
EXTENDS NativePipeline
=============================================================================
