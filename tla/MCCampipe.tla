------------------------------ MODULE MCCampipe ------------------------------
(* Instance of Campipe for TLC: everything on with calls that fail, and then *)
(* each of the data paths with its thread alone.                             *)
EXTENDS Campipe

Only(what, codec0, load0, signals0, taken0) ==
  [md |-> FALSE, ao |-> what = "ao", codec |-> codec0, ldc |-> FALSE, load |-> load0,
   maxFails |-> 0, maxSignals |-> signals0, maxTaken |-> taken0]

MCConfigs ==
  { [md |-> TRUE, ao |-> TRUE, codec |-> "aac", ldc |-> TRUE, load |-> "none",
     maxFails |-> 1, maxSignals |-> 2, maxTaken |-> 0],
    Only("", "off", "video", 2, 0),
    Only("", "off", "snap", 1, 0),
    Only("ao", "off", "speaker", 1, 0),
    Only("", "aac", "wire", 0, 6), Only("", "g711", "wire", 1, 3),
    Only("", "aac", "mute", 1, 5) }
=============================================================================
