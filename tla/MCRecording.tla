---------------------------- MODULE MCRecording -----------------------------
(* Instance of Recording for TLC: its bounds are numbers, given in the      *)
(* configuration file.                                                       *)
EXTENDS Recording
=============================================================================
