-------------------------- MODULE MCCameraSettings --------------------------
(* A small instance of CameraSettings for TLC. *)
EXTENDS CameraSettings

MCPlaces == {<<1234, 777>>}
MCKey == {"motion_detection", "ai_human_detection", "ai_animal_detection",
          "ai_vehicle_detection", "mic"}
MCStrtol == [x \in {"50", "55", "8080"} |-> CASE x = "50" -> 50 [] x = "55" -> 55 [] OTHER -> 8080]
MCArgv ==
  {<<<<"aimotiondetection", "on">>, <<"mic", "off">>>>,
   <<<<"aihumandetection", "yes">>, <<"aianimaldetection", "yes">>>>,
   <<<<"get_pos", 1>>, <<"mic", "on">>>>,
   <<<<"jump_rel", <<100, -100>>>>, <<"babycrying", "bad">>>>,
   <<<<"start", 60>>>>,
   <<<<"move_reverse", "up">>, <<"set_home_position", 1>>>>}
Req(s, k, p) == [section |-> s, key |-> k, payload |-> p]
MCRequest ==
  {Req("camera", "mic", "no"), Req("Camera", "ai_vehicle_detection", "on"),
   Req("camera", "ai_vehicle_detection", "on"),
   Req("camera", "sensitivity", "yes"), Req("camera", "sound_sensitivity", "55"),
   Req("camera", "", ""), Req("file", "port", "8080")}
MCFolded == [x \in {"Camera"} |-> "camera"]
MCLocked == {<<"camera", "ai_vehicle_detection">>}
MCValue == {"yes", "no"}
MCCaller == {"web", "mqtt"}
=============================================================================
