--------------------------- MODULE MCH264Grabber ----------------------------
(* Instance of H264Grabber for TLC: its bounds are numbers, given in the    *)
(* configuration file.                                                       *)
EXTENDS H264Grabber
=============================================================================
