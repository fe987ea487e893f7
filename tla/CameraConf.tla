----------------------------- MODULE CameraConf -----------------------------
(***************************************************************************)
(* The settings side of mqttv4: its queue thread recognises the commands   *)
(* among the messages of the stock queue and, for each, brings camera.conf *)
(* and the stat topic of the setting up to date (callback_command).        *)
(*                                                                         *)
(* camera.conf is rewritten by config_replace in steps between which a     *)
(* reader may open it and the power may fail: a changed copy is made, the  *)
(* file is removed, and the copy is copied back.  Each of these may fail,  *)
(* which nobody looks at, and mqttv4 may be stopped between them.          *)
(* conf2mqtt.sh reads the file and publishes every line of it.             *)
(***************************************************************************)
EXTENDS Integers, Sequences

CONSTANTS
  Key,       \* the settings in camera.conf
  Value,     \* what they may be set to
  MaxCuts    \* bound: power cuts

\* The file as installed has a line for the microphone.
ASSUME ConfAssumption == "mic" \in Key /\ MaxCuts \in Nat

VARIABLES
  exists,    \* camera.conf exists
  conf,      \* its lines, a function on the keys it has
  mq,        \* mqttv4's queue /ipc_dispatch_1
  todo,      \* the settings callback_command has yet to handle, the first in hand
  at,        \* where in it the queue thread is
  tmp,       \* the changed copy
  online,    \* mqttv4 is connected to the broker
  stat,      \* the last message on each stat topic, a function on those that had one
  snap,      \* the lines conf2mqtt.sh has yet to publish
  torn,      \* what was broken off or failed: the rewriting of camera.conf, "conf", or of
             \* a service's file, "svc"; the handling of a setting and of those that go
             \* off with it, "rules" (history)
  missed,    \* a stat message was not sent, or sent before an older line of
             \* conf2mqtt.sh (history)
  cuts

confVars == <<exists, conf, mq, todo, at, tmp, online, stat, snap, torn, missed, cuts>>

NoLines == [k \in {} |-> 0]
Lines == UNION {[S -> Value] : S \in SUBSET Key}

\* f with f[k] = v.
With(f, k, v) == [x \in DOMAIN f \cup {k} |-> IF x = k THEN v ELSE f[x]]

\* A file in which the line of a key is changed; a key without a line is not added.
Changed(lines, k, v) == IF k \in DOMAIN lines THEN [lines EXCEPT ![k] = v] ELSE lines

\* What may be left of lines of which not all could be written.
Parts(lines) == {[k \in S |-> lines[k]] : S \in SUBSET DOMAIN lines}

ConfTypeOK ==
  /\ exists \in BOOLEAN
  /\ conf \in Lines /\ tmp \in Lines /\ stat \in Lines /\ snap \in Lines
  /\ at \in {"down", "idle", "read", "remove", "create", "write", "publish"}
  /\ (at \in {"down", "idle"}) = (todo = <<>>)
  /\ \A k \in DOMAIN todo : todo[k] \in Key \X Value
  /\ online \in BOOLEAN /\ torn \subseteq {"conf", "svc", "rules"} /\ missed \in BOOLEAN
  /\ cuts \in 0..MaxCuts

\* At the start the detectors do not contradict each other.
ConfInit ==
  /\ exists = TRUE
  /\ conf = [k \in Key |-> IF k \in {"motion_detection", "mic"} THEN "yes" ELSE "no"]
  /\ mq = <<>> /\ todo = <<>> /\ at = "idle" /\ tmp = NoLines
  /\ online = TRUE /\ stat = conf /\ snap = NoLines
  /\ torn = {} /\ missed = FALSE /\ cuts = 0

-----------------------------------------------------------------------------
(* parse_message *)

\* ipc_cmd_params: the setting a message is about,
KeyOf ==
  [switch |-> "switch_on", save |-> "save_video_on_motion",
   aimotiondetection |-> "motion_detection", sensitivity |-> "sensitivity",
   aihumandetection |-> "ai_human_detection", aivehicledetection |-> "ai_vehicle_detection",
   aianimaldetection |-> "ai_animal_detection", facedetection |-> "face_detection",
   motiontracking |-> "motion_tracking", babycrying |-> "baby_crying_detect",
   sounddetection |-> "sound_detection", soundsensitivity |-> "sound_sensitivity",
   led |-> "led", ir |-> "ir", rotate |-> "rotate", cruise |-> "cruise", mic |-> "mic"]

\* and the value it gives it.
ValueOf(m) ==
  CASE m.val[1] \in {"off", "always"} -> "no"
    [] m.val[1] \in {"on", "detect"} -> "yes"
    [] OTHER -> m.val[1]

\* The messages parse_message takes for commands: what the camera watches for,
WatchCommand ==
  ({"switch", "aimotiondetection", "aihumandetection", "aivehicledetection",
    "aianimaldetection", "facedetection", "motiontracking", "babycrying", "sounddetection"}
     \X {<<"off">>, <<"on">>})
  \cup ({"save"} \X {<<"always">>, <<"detect">>})
  \cup ({"sensitivity"} \X {<<"high">>, <<"medium">>, <<"low">>})

\* how loud a sound has to be,
LevelCommand ==
  {"soundsensitivity"}
    \X {<<"30">>, <<"35">>, <<"40">>, <<"45">>, <<"50">>, <<"60">>, <<"70">>, <<"80">>, <<"90">>}

\* and its parts.
DeviceCommand ==
  ({"led", "ir", "mic", "rotate"} \X {<<"off">>, <<"on">>})
  \cup ({"cruise"} \X {<<"off">>, <<"on">>, <<"presets">>, <<"360">>})

Command == WatchCommand \cup LevelCommand \cup DeviceCommand

IsCommand(m) == <<m.name, m.val>> \in Command
ParamOf(m) == <<KeyOf[m.name], ValueOf(m)>>

-----------------------------------------------------------------------------
(* callback_command *)

Ai == <<"ai_human_detection", "ai_vehicle_detection", "ai_animal_detection">>

\* Mutant: only the detectors before the last are switched off with motion detection.
FollowUpsTwo(p) ==
  IF p[1] = "motion_detection" /\ p[2] = "yes"
  THEN [k \in 1..2 |-> <<Ai[k], "no">>]
  ELSE IF p[1] \in {Ai[k] : k \in 1..3} /\ p[2] = "yes"
       THEN <<<<"motion_detection", "no">>>>
       ELSE <<>>

\* The settings that go off with this one; they are handled under dont_loop, so
\* that they have no such consequences of their own.
FollowUps(p) ==
  IF p[1] = "motion_detection" /\ p[2] = "yes"
  THEN [k \in 1..3 |-> <<Ai[k], "no">>]
  ELSE IF p[1] \in {Ai[k] : k \in 1..3} /\ p[2] = "yes"
       THEN <<<<"motion_detection", "no">>>>
       ELSE <<>>

\* The queue thread takes a message; motion and events are not of this module.
Receive ==
  /\ at = "idle" /\ mq # <<>>
  /\ mq' = Tail(mq)
  /\ IF IsCommand(Head(mq))
     THEN LET p == ParamOf(Head(mq))
          IN  todo' = <<p>> \o FollowUps(p) /\ at' = "read"
     ELSE UNCHANGED <<todo, at>>
  /\ UNCHANGED <<exists, conf, tmp, online, stat, snap, torn, missed, cuts>>

\* config_replace copies the file with the new value: it is done if there is no
\* file, or if the value is there already.
ReplaceRead ==
  LET k == todo[1][1]
      v == todo[1][2]
      same == k \in DOMAIN conf /\ conf[k] = v
  IN  /\ at = "read"
      /\ at' = IF exists /\ ~same THEN "remove" ELSE "publish"
      /\ tmp' = IF ~exists \/ same THEN tmp
                ELSE Changed(conf, k, v)
      /\ UNCHANGED <<exists, conf, mq, todo, online, stat, snap, torn, missed, cuts>>

\* There is no room for the copy: config_replace gives up.
ReplaceReadFails ==
  /\ at = "read" /\ exists
  /\ at' = "publish"
  /\ torn' = torn \cup {"rules"}
  /\ UNCHANGED <<exists, conf, mq, todo, tmp, online, stat, snap, missed, cuts>>

ReplaceRemove ==
  /\ at = "remove"
  /\ at' = "create"
  /\ exists' = FALSE /\ conf' = NoLines
  /\ UNCHANGED <<mq, todo, tmp, online, stat, snap, torn, missed, cuts>>

\* Mutant: cp opens the file it has read from for writing.
CopyBackEmpty ==
  /\ at \in {"create", "write"}
  /\ at' = IF at = "create" THEN "write" ELSE "publish"
  /\ exists' = TRUE
  /\ conf' = NoLines
  /\ UNCHANGED <<mq, todo, tmp, online, stat, snap, torn, missed, cuts>>

\* cp: the file is created, which fails if it is there, and then written.
CopyBack ==
  /\ at \in {"create", "write"}
  /\ at' = IF at = "create" THEN "write" ELSE "publish"
  /\ exists' = TRUE
  /\ conf' = IF at = "create" THEN NoLines ELSE tmp
  /\ UNCHANGED <<mq, todo, tmp, online, stat, snap, torn, missed, cuts>>

\* cp fails, or the lines do not all get into the copy or the file: nobody looks, and
\* the copy is removed.
CopyBackFails ==
  /\ at \in {"create", "write"}
  /\ at' = "publish"
  /\ IF at = "create" THEN UNCHANGED conf ELSE conf' \in Parts(tmp)
  /\ torn' = torn \cup {"conf"}
  /\ UNCHANGED <<exists, mq, todo, tmp, online, stat, snap, missed, cuts>>

\* The value goes out on the stat topic, whatever became of the file, if the broker
\* is there; then it is the next setting's turn.
PublishStat ==
  LET k == todo[1][1]
  IN  /\ at = "publish"
      /\ stat' = IF online THEN With(stat, k, todo[1][2]) ELSE stat
      /\ missed' = (missed \/ ~online \/ (k \in DOMAIN snap /\ snap[k] # todo[1][2]))
      /\ todo' = Tail(todo)
      /\ at' = IF Len(todo) = 1 THEN "idle" ELSE "read"
      /\ tmp' = NoLines
      /\ UNCHANGED <<exists, conf, mq, online, snap, torn, cuts>>

CommandNext == Receive \/ ReplaceRead \/ ReplaceRemove \/ CopyBack \/ PublishStat

\* What is lost of camera.conf when the queue thread does not get any further.
TornHere ==
  torn \cup (IF at \in {"create", "write"} THEN {"conf"} ELSE {})
       \cup (IF at \notin {"idle", "down"} THEN {"rules"} ELSE {})

\* service.sh stops mqttv4, which does not catch the signal.
MqttStopped ==
  /\ at # "down"
  /\ at' = "down" /\ todo' = <<>> /\ tmp' = NoLines
  /\ online' = FALSE
  /\ torn' = TornHere
  /\ UNCHANGED <<exists, conf, mq, stat, snap, missed, cuts>>

\* It is started, finds the broker and empties its queue.
MqttStarted ==
  /\ at = "down"
  /\ at' = "idle" /\ online' = TRUE
  /\ mq' = <<>>
  /\ UNCHANGED <<exists, conf, todo, tmp, stat, snap, torn, missed, cuts>>

-----------------------------------------------------------------------------
(* The surroundings *)

\* conf2mqtt.sh opens the file, and keeps what it opened when the file is replaced,
DumpOpen ==
  /\ snap = NoLines /\ exists
  /\ snap' = conf
  /\ UNCHANGED <<exists, conf, mq, todo, at, tmp, online, stat, torn, missed, cuts>>

\* and publishes line after line, in the order of the file; mosquitto_pub may fail.
DumpLine ==
  /\ snap # NoLines
  /\ LET k == CHOOSE k \in DOMAIN snap : TRUE
     IN  /\ stat' \in {With(stat, k, snap[k]), stat}
         /\ snap' = [x \in DOMAIN snap \ {k} |-> snap[x]]
  /\ UNCHANGED <<exists, conf, mq, todo, at, tmp, online, torn, missed, cuts>>
=============================================================================
