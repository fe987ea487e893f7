----------------------------- MODULE MqttConfig -----------------------------
(***************************************************************************)
(* mqtt-config, the daemon that lets a broker's clients change settings.   *)
(* It has one thread: it connects, subscribes to <prefix>/cmnd/#, and in   *)
(* mosquitto_loop handles one packet at a time.  A setting that is valid   *)
(* and not locked is made with ipc_cmd, if the camera has to be told, or   *)
(* written to the configuration file of its section; an empty payload asks *)
(* for a dump of the section.  system() waits for what it runs.            *)
(*                                                                         *)
(* Keys are in the case of the tables: the program converts that of a      *)
(* topic.  A section is kept as it is written, for the locks are compared  *)
(* with it as it is and config_params without regard to case.  One file    *)
(* stands for all the sections that are files, with one key for each kind  *)
(* of row of config_params; set_configs.sh, with which the web page saves  *)
(* it, knows nothing of mqtt-config.                                       *)
(***************************************************************************)
EXTENDS IpcCmd, CameraConf

CONSTANTS
  Request,   \* the messages clients publish: [section, key, payload]
  Folded,    \* the sections not in lower case, and what they are in lower case
  Strtol,    \* the payloads that begin with a number, and the number
  Locked,    \* the <<section, key>> in locked.conf
  MaxLosses  \* bound: how often the connection is lost or refused

ASSUME MqttConfigAssumption ==
  /\ "mqtt" \in Caller
  /\ MaxLosses \in Nat

VARIABLES
  mc,          \* where mqtt-config is
  back,        \* where it goes on after message_callback
  inMain,      \* mqtt_connect was called by mqtt_check_connection
  connState,   \* conn_state
  run,         \* run
  prefixSet,   \* conf.mqtt_prefix_cmnd is not NULL
  brokerUp,    \* the broker accepts connections
  link,        \* the connection as the broker knows it
  subscribed,  \* the broker has the subscription
  inbox,       \* messages on their way to mqtt-config
  msg,         \* the message in message_callback
  svc,         \* the configuration file of a service
  svcTmp,      \* config_replace's changed copy of it
  page,        \* the new file sed is about to put in its place, if any
  refused,     \* settings validated here that ipc_cmd refused (history)
  losses

mcVars == <<mc, back, inMain, connState, run, prefixSet, brokerUp, link, subscribed,
            inbox, msg, svc, svcTmp, page, refused, losses>>

-----------------------------------------------------------------------------
(* validate.c *)

FileKey == {"enabled", "port", "user", "stream"}

\* The rows of the section camera: the option of ipc_cmd that makes the setting.
OptionOf ==
  [switch_on |-> "switch", save_video_on_motion |-> "save",
   motion_detection |-> "aimotiondetection", sensitivity |-> "sensitivity",
   ai_human_detection |-> "aihumandetection", ai_vehicle_detection |-> "aivehicledetection",
   ai_animal_detection |-> "aianimaldetection", face_detection |-> "facedetection",
   baby_crying_detect |-> "babycrying", led |-> "led", rotate |-> "rotate", ir |-> "ir",
   mic |-> "mic", sound_detection |-> "sounddetection",
   sound_sensitivity |-> "soundsensitivity", motion_tracking |-> "motiontracking",
   cruise |-> "cruise"]

Bool == {"yes", "no", "on", "off"}

\* Mutant: the sensitivity is a row of type string.
CameraAllowsString(key, p) ==
  CASE key = "sensitivity" -> TRUE
    [] key = "cruise" -> p \in {"no", "presets", "360"}
    [] key = "sound_sensitivity" -> p \in DOMAIN Strtol /\ Strtol[p] \in 30..90
    [] OTHER -> key \in DOMAIN OptionOf /\ p \in Bool

\* The rows of config_params: what the type and the limits of a row allow.
CameraAllows(key, p) ==
  CASE key = "sensitivity" -> p \in {"low", "medium", "high"}
    [] key = "cruise" -> p \in {"no", "presets", "360"}
    [] key = "sound_sensitivity" -> p \in DOMAIN Strtol /\ Strtol[p] \in 30..90
    [] OTHER -> key \in DOMAIN OptionOf /\ p \in Bool

PtzAllows(key, p) ==
  CASE key = "move" -> p \in DOMAIN Opposite
    [] key \in {"goto_preset", "remove_preset"} -> p \in DOMAIN Strtol /\ Strtol[p] \in 0..7
    [] OTHER -> key \in {"add_preset", "set_home_position"}

FileAllows(key, p) ==
  CASE key = "enabled" -> p \in Bool
    [] key = "port" -> p \in DOMAIN Strtol /\ Strtol[p] \in 1..65535
    [] key = "stream" -> p \in {"high", "low"}
    [] OTHER -> key = "user"

\* The section of a request, for config_params and for the name of the file.
Section(r) == IF r.section \in DOMAIN Folded THEN Folded[r.section] ELSE r.section

\* validate_param: the first row with this section and this key decides.
Validate(r) ==
  CASE Section(r) = "camera" -> CameraAllows(r.key, r.payload)
    [] Section(r) = "ptz" -> PtzAllows(r.key, r.payload)
    [] OTHER -> FileAllows(r.key, r.payload)

-----------------------------------------------------------------------------
(* Connection *)

McInit ==
  /\ mc = "init" /\ back = "main" /\ inMain = FALSE
  /\ connState = "disconnected" /\ run = TRUE /\ prefixSet = FALSE
  /\ brokerUp = TRUE /\ link = "none" /\ subscribed = FALSE
  /\ inbox = <<>> /\ msg = <<>>
  /\ svc = [k \in FileKey |-> "old"] /\ svcTmp = NoLines /\ page = <<>>
  /\ refused = {} /\ losses = 0

McTypeOK ==
  /\ mc \in {"init", "connect", "subscribe", "first", "main", "loop", "handle", "system",
             "dump", "truncate", "copy", "orphan", "dead", "stopped"}
  /\ back \in {"main", "loop"} /\ inMain \in BOOLEAN
  /\ connState \in {"disconnected", "connecting", "connected"}
  /\ run \in BOOLEAN /\ prefixSet \in BOOLEAN /\ brokerUp \in BOOLEAN
  /\ link \in {"none", "tcp", "acked", "lost"} /\ subscribed \in BOOLEAN
  /\ Len(msg) <= 1 /\ Len(page) <= 1 /\ losses \in 0..MaxLosses

\* mqtt_init_conf and main: without mqtt.conf the daemon ends, without identity.conf
\* there is no prefix.
LoadConf ==
  /\ mc = "init"
  /\ \/ mc' = "stopped" /\ UNCHANGED prefixSet
     \/ mc' = "connect" /\ prefixSet' \in BOOLEAN
  /\ UNCHANGED <<back, inMain, connState, run, brokerUp, link, subscribed, inbox, msg,
                 svc, svcTmp, page, refused, losses>>

\* mosquitto_connect is tried until it succeeds, whatever run says.
McConnect ==
  /\ mc = "connect" /\ brokerUp
  /\ mc' = "subscribe" /\ link' = "tcp" /\ subscribed' = FALSE
  /\ connState' = "connecting"
  /\ UNCHANGED <<back, inMain, run, prefixSet, brokerUp, inbox, msg, svc, svcTmp, page, refused,
                 losses>>

Return == IF inMain THEN "loop" ELSE "main"

\* Mutant: a subscription is made for the first connection only.
SubscribeOnce ==
  /\ mc = "subscribe"
  /\ \/ /\ prefixSet
        /\ mc' = "first" /\ connState' = "connected"
        /\ subscribed' = (link = "tcp" /\ ~inMain)
     \/ /\ ~prefixSet \/ link = "lost"
        /\ mc' = Return /\ UNCHANGED <<connState, subscribed>>
  /\ UNCHANGED <<back, inMain, run, prefixSet, brokerUp, link, inbox, msg, svc, svcTmp, page,
                 refused, losses>>

\* The subscription; the state is connected already before the broker has said so.
\* It fails without a prefix, or when the connection is known to be lost.
Subscribe ==
  /\ mc = "subscribe"
  /\ \/ /\ prefixSet
        /\ mc' = "first" /\ connState' = "connected"
        /\ subscribed' = (link = "tcp")
     \/ /\ ~prefixSet \/ link = "lost"
        /\ mc' = Return /\ UNCHANGED <<connState, subscribed>>
  /\ UNCHANGED <<back, inMain, run, prefixSet, brokerUp, link, inbox, msg, svc, svcTmp, page,
                 refused, losses>>

\* After a mosquitto_loop: in mqtt_connect the loop goes on with the connection it
\* has, or with a new one; in main it is run that is looked at next.
AfterLoop(state) ==
  IF mc = "loop" THEN "main"
  ELSE IF state = "connected" THEN Return ELSE "connect"

\* mosquitto_loop with nothing to read, with the broker's answer to the connection,
\* or with its loss.
LoopPacket ==
  /\ mc \in {"first", "loop"}
  /\ \/ link' = link /\ connState' = connState
     \/ link = "tcp" /\ link' = "acked" /\ connState' = "connected"
     \/ /\ link = "tcp" /\ losses < MaxLosses
        /\ link' = "none" /\ connState' = "disconnected"
     \/ link = "lost" /\ link' = "none" /\ connState' = "disconnected"
  /\ subscribed' = (subscribed /\ link' # "none")
  /\ losses' = IF link = "tcp" /\ link' = "none" THEN losses + 1 ELSE losses
  /\ inbox' = IF link' = "none" THEN <<>> ELSE inbox
  /\ mc' = AfterLoop(connState')
  /\ UNCHANGED <<back, inMain, run, prefixSet, brokerUp, msg, svc, svcTmp, page, refused>>

\* mosquitto_loop with a message.
LoopMessage ==
  /\ mc \in {"first", "loop"} /\ link \in {"acked", "lost"} /\ inbox # <<>>
  /\ msg' = <<Head(inbox)>> /\ inbox' = Tail(inbox)
  /\ mc' = "handle" /\ back' = AfterLoop(connState)
  /\ UNCHANGED <<inMain, connState, run, prefixSet, brokerUp, link, subscribed, svc, svcTmp, page,
                 refused, losses>>

\* Mutant: while (1).
McMainForever ==
  /\ mc = "main"
  /\ mc' = IF connState = "connected" THEN "loop" ELSE "connect"
  /\ connState' = IF mc' = "connect" THEN "disconnected" ELSE connState
  /\ inMain' = TRUE
  /\ UNCHANGED <<back, run, prefixSet, brokerUp, link, subscribed, inbox, msg, svc, svcTmp, page,
                 refused, losses>>

\* main: while (run), with mqtt_check_connection.
McMain ==
  /\ mc = "main"
  /\ mc' = IF ~run THEN "stopped"
           ELSE IF connState = "connected" THEN "loop" ELSE "connect"
  /\ connState' = IF mc' = "connect" THEN "disconnected" ELSE connState
  /\ inMain' = TRUE
  /\ UNCHANGED <<back, run, prefixSet, brokerUp, link, subscribed, inbox, msg, svc, svcTmp, page,
                 refused, losses>>

-----------------------------------------------------------------------------
(* message_callback *)

Quietly == <<inMain, connState, run, prefixSet, brokerUp, link, subscribed, inbox, page, losses>>

Done == mc' = back /\ msg' = <<>>

\* Locked or not valid: nothing happens.  A valid ptz request runs a script that
\* moves the camera (external).
Ignore ==
  LET r == msg[1]
  IN  /\ mc = "handle" /\ r.payload # ""
      /\ <<r.section, r.key>> \in Locked \/ ~Validate(r) \/ Section(r) = "ptz"
      /\ Done
      /\ UNCHANGED <<back, svc, svcTmp, refused>> /\ UNCHANGED Quietly
      /\ UNCHANGED ipcVars /\ UNCHANGED confVars

Accepted(section) ==
  /\ mc = "handle" /\ msg[1].payload # ""
  /\ <<msg[1].section, msg[1].key>> \notin Locked /\ Validate(msg[1])
  /\ Section(msg[1]) = section

\* The command line is made in a buffer of two bytes, ipc_cmd_param: what lies next
\* to it is overwritten, and the daemon may not survive that.
RunIpcCmd ==
  LET argv == <<<<OptionOf[msg[1].key], msg[1].payload>>>>
  IN  /\ Accepted("camera")
      /\ \/ /\ IpcCall("mqtt", argv) /\ UNCHANGED calls
            /\ mc' = "system"
            /\ refused' = IF Parse(argv) = <<>>
                          THEN refused \cup {<<msg[1].key, msg[1].payload>>} ELSE refused
         \/ /\ mc' = "dead"
            /\ UNCHANGED ipcVars /\ UNCHANGED refused
      /\ UNCHANGED <<back, msg, svc, svcTmp>> /\ UNCHANGED Quietly
      /\ UNCHANGED confVars

\* system() returns when ipc_cmd does, and conf2mqtt.sh when it has published.
SystemReturns ==
  /\ \/ mc = "system" /\ ipc["mqtt"] = Idle
     \/ mc = "dump" /\ snap = NoLines
  /\ Done
  /\ UNCHANGED <<back, svc, svcTmp, refused>> /\ UNCHANGED Quietly
  /\ UNCHANGED ipcVars /\ UNCHANGED confVars

\* A dump of the section camera.
RunDump ==
  /\ mc = "handle" /\ msg[1].payload = ""
  /\ mc' = "dump"
  /\ IF exists THEN DumpOpen ELSE UNCHANGED confVars
  /\ UNCHANGED <<back, msg, svc, svcTmp, refused>> /\ UNCHANGED Quietly
  /\ UNCHANGED ipcVars

\* config_replace of this program: the changed copy is made,
ReplaceCopy ==
  /\ Accepted("file")
  /\ svcTmp' = Changed(svc, msg[1].key, msg[1].payload)
  /\ mc' = "truncate"
  /\ UNCHANGED <<back, msg, svc, refused>> /\ UNCHANGED Quietly
  /\ UNCHANGED ipcVars /\ UNCHANGED confVars

\* the file is opened for writing, which empties it, and written again; if sed has
\* replaced it in the meantime, what is written is no longer the file.
ReplaceInPlace ==
  /\ \/ mc = "truncate" /\ mc' = "copy" /\ svc' = NoLines /\ UNCHANGED <<msg, svcTmp>>
     \/ mc = "copy" /\ Done /\ svc' = svcTmp /\ svcTmp' = NoLines
     \/ mc = "orphan" /\ Done /\ svcTmp' = NoLines /\ UNCHANGED svc
  /\ UNCHANGED <<back, refused>> /\ UNCHANGED Quietly
  /\ UNCHANGED ipcVars /\ UNCHANGED confVars

\* A file cannot be opened, the copy not even after the file was emptied; or the
\* lines do not all get into the copy or the file.
ReplaceFails ==
  /\ \/ /\ Accepted("file") \/ mc = "truncate"
        /\ UNCHANGED <<svc, torn>>
     \/ /\ mc = "copy" /\ svc' \in Parts(svcTmp)
        /\ torn' = torn \cup {"svc"}
  /\ Done /\ svcTmp' = NoLines
  /\ UNCHANGED <<back, refused>> /\ UNCHANGED Quietly
  /\ UNCHANGED ipcVars
  /\ UNCHANGED <<exists, conf, mq, todo, at, tmp, online, stat, snap, missed, cuts>>

-----------------------------------------------------------------------------
(* The web page, the broker and the user of mqtt-config *)

\* set_configs.sh changes a line with sed -i, unless it has the value already: sed
\* reads the file, even one that mqtt-config has just emptied,
SedRead ==
  /\ page = <<>>
  /\ \E k \in FileKey : /\ k \in DOMAIN svc => svc[k] # "page"
                        /\ page' = <<Changed(svc, k, "page")>>
  /\ torn' = IF mc = "copy" THEN torn \cup {"svc"} ELSE torn
  /\ UNCHANGED <<mc, back, inMain, connState, run, prefixSet, brokerUp, link, subscribed,
                 inbox, msg, svc, svcTmp, refused, losses>>
  /\ UNCHANGED <<exists, conf, mq, todo, at, tmp, online, stat, snap, missed, cuts>>

\* and puts the new one in its place.
SedRename ==
  /\ page # <<>>
  /\ svc' = page[1] /\ page' = <<>>
  /\ mc' = IF mc = "copy" THEN "orphan" ELSE mc
  /\ UNCHANGED <<back, inMain, connState, run, prefixSet, brokerUp, link, subscribed,
                 inbox, msg, svcTmp, refused, losses>>
  /\ UNCHANGED confVars

\* The broker goes away, and with it the connections of both daemons,
BrokerDown ==
  /\ brokerUp /\ losses < MaxLosses
  /\ losses' = losses + 1
  /\ brokerUp' = FALSE /\ online' = FALSE /\ subscribed' = FALSE
  /\ link' = IF link = "none" THEN "none" ELSE "lost"
  /\ UNCHANGED <<mc, back, inMain, connState, run, prefixSet, inbox, msg, svc, svcTmp, page, refused>>
  /\ UNCHANGED <<exists, conf, mq, todo, at, tmp, stat, snap, torn, missed, cuts>>

\* comes back, or is found again by mqttv4 (mqtt_check_connection).
BrokerBack ==
  /\ \/ ~brokerUp /\ brokerUp' = TRUE /\ UNCHANGED online
     \/ brokerUp /\ ~online /\ at # "down" /\ online' = TRUE /\ UNCHANGED brokerUp
  /\ UNCHANGED <<mc, back, inMain, connState, run, prefixSet, link, subscribed, inbox, msg,
                 svc, svcTmp, page, refused, losses>>
  /\ UNCHANGED <<exists, conf, mq, todo, at, tmp, stat, snap, torn, missed, cuts>>

Sigterm ==
  /\ run /\ mc \notin {"init", "stopped"}
  /\ run' = FALSE
  /\ UNCHANGED <<mc, back, inMain, connState, prefixSet, brokerUp, link, subscribed, inbox,
                 msg, svc, svcTmp, page, refused, losses>>
  /\ UNCHANGED confVars

McConnection == LoadConf \/ McConnect \/ Subscribe \/ LoopPacket \/ LoopMessage \/ McMain

McCallback == Ignore \/ RunIpcCmd \/ SystemReturns \/ RunDump \/ ReplaceCopy \/ ReplaceInPlace
=============================================================================
