----------------------------- MODULE MCIpc2file -----------------------------
(* Instance of Ipc2file for TLC. *)
EXTENDS Ipc2file

MCMarker == {File[k] : k \in DOMAIN File}
MCKind == {"motion_start", "motion_stop", "human", "baby", "sound"}

\* One detector only, the configuration mqttv4's callback_command enforces.
MCOneDetector == {"motion_start", "motion_stop", "baby", "sound"}
=============================================================================
