--------------------------- MODULE CameraSettings ---------------------------
(***************************************************************************)
(* How a setting travels: a web page or a broker's client asks for it, the *)
(* latter through mqtt-config; ipc_cmd sends it to the stock software,     *)
(* whose queue ipc_multiplex copies for mqttv4; mqttv4 writes camera.conf  *)
(* and the stat topic.  The power may be cut at any point, mqttv4 be       *)
(* stopped and started, and a call on a file fail.                         *)
(***************************************************************************)
EXTENDS MqttConfig

CONSTANTS
  Argv,      \* the command lines of the web interface
  MaxFaults, \* bound: how often mqttv4 is stopped or a call on a file fails
  MaxEvents  \* bound: calls, losses of a connection, signals, faults and power cuts
             \* together

ASSUME SettingsAssumption ==
  /\ "web" \in Caller
  /\ \A argv \in Argv : argv \in Seq(ToSet(argv))
  /\ MaxFaults \in Nat /\ MaxEvents \in Nat

VARIABLES
  cam,       \* what the stock software was last told of each setting
  camMotion, \* the motion event the stock software was told of
  lost,      \* a command did not reach mqttv4 (history)
  faults

camVars == <<cam, camMotion, lost, faults>>

vars == <<ipcVars, confVars, mcVars, camVars>>

Init ==
  /\ IpcInit /\ ConfInit /\ McInit
  /\ cam = conf /\ camMotion = FALSE /\ lost = FALSE /\ faults = 0

-----------------------------------------------------------------------------
(* The stock software and its queue *)

Moves(m) == m.name \in {"move", "jump", "goto_preset", "cruise"}

\* The stock software takes a message (external), of which ipc_multiplex has left a
\* copy in mqttv4's queue, unless that is full.
Dispatch ==
  LET m == Head(queue)
  IN  /\ queue # <<>>
      /\ queue' = Tail(queue)
      /\ cam' = IF IsCommand(m) /\ KeyOf[m.name] \in Key
                THEN [cam EXCEPT ![KeyOf[m.name]] = ValueOf(m)] ELSE cam
      /\ camMotion' = IF m.name = "motion" THEN m.val = <<"start">> ELSE camMotion
      /\ IF Moves(m)
         THEN pos' \in Places /\ reported' = IF pos' = pos THEN reported ELSE <<>>
         ELSE UNCHANGED <<pos, reported>>
      /\ mq' = IF Len(mq) < QueueLen THEN Append(mq, m) ELSE mq
      /\ lost' = (lost \/ (IsCommand(m) /\ Len(mq) = QueueLen))
      /\ UNCHANGED <<stock, calls, ipc, daemons, micOff, micRace, forkFailed>>
      /\ UNCHANGED <<exists, conf, todo, at, tmp, online, stat, snap, torn, missed, cuts>>
      /\ UNCHANGED mcVars /\ UNCHANGED faults

-----------------------------------------------------------------------------
(* Who asks, and what goes wrong *)

Budget == calls + losses + cuts + faults + (IF run THEN 0 ELSE 1) < MaxEvents

\* A page of the web interface runs ipc_cmd; one of them goes to where the camera
\* says it is.
WebCall ==
  /\ Budget /\ calls < MaxCalls /\ calls' = calls + 1
  /\ \E argv \in Argv \cup (IF reported = <<>> THEN {} ELSE {<<<<"jump_abs", reported>>>>}) :
       IpcCall("web", argv)
  /\ UNCHANGED confVars /\ UNCHANGED mcVars /\ UNCHANGED camVars

\* A client publishes a message under <prefix>/cmnd, which the broker passes on.
Publish ==
  /\ Budget /\ calls < MaxCalls /\ calls' = calls + 1
  /\ subscribed /\ link = "acked"
  /\ \E r \in Request : inbox' = Append(inbox, r)
  /\ UNCHANGED <<stock, ipc, daemons, queue, micOff, micRace, forkFailed, pos, reported>>
  /\ UNCHANGED <<mc, back, inMain, connState, run, prefixSet, brokerUp, link, subscribed,
                 msg, svc, svcTmp, page, refused, losses>>
  /\ UNCHANGED confVars /\ UNCHANGED camVars

\* The web page saves the settings of a service.
WebSave ==
  /\ Budget /\ calls < MaxCalls /\ calls' = calls + 1
  /\ SedRead
  /\ UNCHANGED <<stock, ipc, daemons, queue, micOff, micRace, forkFailed, pos, reported>>
  /\ UNCHANGED camVars

\* A call on a file fails, or mqttv4 is stopped.
Fault ==
  /\ Budget /\ faults < MaxFaults /\ faults' = faults + 1
  /\ \/ ReplaceFails /\ UNCHANGED lost
     \/ /\ ReplaceReadFails \/ CopyBackFails
        /\ UNCHANGED ipcVars /\ UNCHANGED mcVars /\ UNCHANGED lost
     \/ /\ MqttStopped /\ lost' = (lost \/ at # "idle")
        /\ UNCHANGED ipcVars /\ UNCHANGED mcVars
  /\ UNCHANGED <<cam, camMotion>>

\* mqttv4 is started; what was in its queue does not reach it.
MqttStart ==
  /\ brokerUp /\ MqttStarted /\ lost' = (lost \/ mq # <<>>)
  /\ UNCHANGED ipcVars /\ UNCHANGED mcVars /\ UNCHANGED <<cam, camMotion, faults>>

\* Everything but the files and what the camera knows is gone.
PowerCut ==
  /\ Budget /\ cuts < MaxCuts /\ cuts' = cuts + 1
  /\ torn' = TornHere \cup (IF mc = "copy" THEN {"svc"} ELSE {})
  /\ lost' = (lost \/ at \notin {"idle", "down"} \/ mq # <<>>)
  /\ ipc' = [c \in Caller |-> Idle] /\ daemons' = <<>> /\ queue' = <<>>
  /\ mq' = <<>> /\ todo' = <<>> /\ at' = "down" /\ tmp' = NoLines /\ snap' = NoLines
  /\ online' = FALSE
  /\ mc' = "init" /\ back' = "main" /\ inMain' = FALSE /\ connState' = "disconnected"
  /\ run' = TRUE /\ prefixSet' = FALSE /\ link' = "none" /\ subscribed' = FALSE
  /\ inbox' = <<>> /\ msg' = <<>> /\ svcTmp' = NoLines /\ page' = <<>>
  /\ micOff' = FALSE /\ camMotion' = FALSE
  /\ UNCHANGED <<stock, calls, micRace, forkFailed, pos, reported, exists, conf,
                 stat, missed, brokerUp, svc, refused, losses, cam, faults>>

-----------------------------------------------------------------------------

IpcNext ==
  /\ (\E c \in Caller : IpcStep(c)) \/ \E k \in 1..MaxCalls : DaemonSends(k)
  /\ UNCHANGED confVars /\ UNCHANGED mcVars /\ UNCHANGED camVars

\* mqttv4's queue thread and conf2mqtt.sh.
ConfNext ==
  /\ CommandNext \/ DumpLine
  /\ UNCHANGED ipcVars /\ UNCHANGED mcVars /\ UNCHANGED camVars

CallbackNext == McCallback /\ UNCHANGED camVars

ConnectionNext ==
  /\ McConnection
  /\ UNCHANGED ipcVars /\ UNCHANGED confVars /\ UNCHANGED camVars

Environment ==
  \/ WebCall \/ WebSave \/ Publish \/ Fault \/ MqttStart \/ PowerCut
  \/ /\ (Budget /\ (BrokerDown \/ Sigterm)) \/ BrokerBack \/ SedRename
     /\ UNCHANGED ipcVars /\ UNCHANGED camVars

Next ==
  \/ IpcNext \/ Dispatch \/ ConfNext \/ CallbackNext \/ ConnectionNext \/ Environment

\* A process that can go on does: the kernel runs each of them.  Nobody has to ask
\* for anything, and the broker may stay away.
Fairness ==
  /\ \A c \in Caller : WF_vars(IpcStep(c) /\ IpcNext)
  /\ \A k \in 1..MaxCalls : WF_vars(DaemonSends(k) /\ IpcNext)
  /\ WF_vars(Dispatch) /\ WF_vars(CommandNext /\ ConfNext) /\ WF_vars(DumpLine /\ ConfNext)
  /\ WF_vars(CallbackNext) /\ WF_vars(ConnectionNext)

Spec == Init /\ [][Next]_vars /\ Fairness

-----------------------------------------------------------------------------
(* Properties *)

\* Nothing that was asked for is still on its way.
AtRest ==
  /\ \A c \in Caller : ipc[c] = Idle
  /\ queue = <<>> /\ mq = <<>> /\ at = "idle" /\ snap = NoLines
  /\ mc \notin {"handle", "system", "dump", "truncate", "copy", "orphan"}

\* The type invariant of the three programs and the files between them.
TypeOK ==
  /\ IpcTypeOK /\ ConfTypeOK /\ McTypeOK
  /\ cam \in [Key -> Value] /\ camMotion \in BOOLEAN /\ lost \in BOOLEAN
  /\ faults \in 0..MaxFaults

\* callback_command never leaves motion detection and a detector of its own kind on
\* together in camera.conf, however the commands of several callers were mixed,
\* whichever of them were lost on the way and whatever became of the copies; only a
\* power cut or a stop of mqttv4 between the settings that go together can, or a
\* copy that could not be begun.
DetectorsExclusive ==
  at = "idle" /\ "rules" \notin torn =>
    \A k \in 1..3 : ~(/\ {"motion_detection", Ai[k]} \subseteq DOMAIN conf
                      /\ conf["motion_detection"] = "yes" /\ conf[Ai[k]] = "yes")

FileFollows ==
  \A k \in Key : \/ conf[k] = cam[k]
                 \/ /\ k \in {"motion_detection"} \cup {Ai[i] : i \in 1..3}
                    /\ conf[k] = "no"

StatFollows == \A k \in Key : stat[k] = conf[k]

MarkerFollows == micOff = (cam["mic"] = "no")

\* Once everything has been handled, camera.conf says of each setting what the stock
\* software was last told, except that a detector it was told to use may be off in
\* the file for another's sake; the stat topics say what camera.conf says; and so
\* does the marker campipe looks at of the microphone.  The exceptions are what
\* ipc_multiplex dropped or mqttv4 was not there to receive, messages that missed the
\* broker, settings that were broken off or failed, and calls of ipc_cmd that
\* overlapped: the marker is written before the message is sent.
SettingsAgree ==
  AtRest =>
    /\ ~lost /\ torn \subseteq {"svc"} => FileFollows
    /\ ~missed /\ torn \subseteq {"svc"} => StatFollows
    /\ stock /\ ~micRace /\ cuts = 0 => MarkerFollows

\* The files are whole whenever nobody writes them, whatever mqttv4, mqtt-config and
\* the web page do at the same time.  A line of camera.conf is lost only if cp fails,
\* or mqttv4 is stopped or the power cut, between the removal of the file and the end
\* of cp; one of a service's file only if mqtt-config fails, or the power is cut, or
\* sed reads the file, between its emptying and the end of its writing.
FilesIntact ==
  /\ "conf" \notin torn /\ at \notin {"create", "write"} => exists /\ DOMAIN conf = Key
  /\ "svc" \notin torn /\ mc # "copy" => DOMAIN svc = FileKey

\* What the table of mqtt-config lets through is understood by ipc_cmd, except a
\* sound sensitivity between the steps that ipc_cmd knows.
ValidatedIsUnderstood == \A r \in refused : r[1] = "sound_sensitivity"

\* A connection that mqtt-config takes for connected and that the broker has
\* acknowledged carries the subscription, so that the daemon is not deaf: after a
\* loss it subscribes again.  Without a prefix it is deaf for ever.
Hears ==
  prefixSet /\ link = "acked" /\ connState = "connected" => subscribed

\* jump_abs to the angles get_pos has just printed does not move the camera: both
\* conversions round, and turn the vertical axis round, in the same way.
JumpToReportedStays ==
  [][\A c \in Caller :
       (/\ reported # <<>> /\ Running(c, "jump_abs") /\ Arg(c) = reported
        /\ Len(queue') > Len(queue) /\ ipc'[c] # ipc[c])
         => queue'[Len(queue')].val = <<50, 50>>]_vars

\* The motion of a --start is over some time, whoever else starts and stops one in
\* the meantime, if its daemon could be forked.
ManualMotionEnds == <>[](camMotion => forkFailed)

\* SIGTERM ends mqtt-config, unless the broker is away: then it tries to connect for
\* ever, whatever run says.
SigtermEnds == ~run ~> (run \/ mc \in {"stopped", "dead"} \/ ~brokerUp)
=============================================================================
