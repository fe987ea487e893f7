---------------------------- MODULE StockEvents -----------------------------
(***************************************************************************)
(* Events in the stock pipeline, end to end: dispatch with the multiplexer *)
(* feeds two message queues, ipc2file's and mqttv4's; ipc2file's markers   *)
(* reach mqttv4 on the inotify path, the other events on the queue path,   *)
(* handled by two threads of mqttv4 that share the slots of filesThread.   *)
(***************************************************************************)
EXTENDS Ipc2file, Mqttv4

vars == <<busVars, i2fVars, mqttVars>>

mqttRest == <<main, ncb, conn, ino, queueUp, call, slot, worker, lists, shown,
              stale, faults, restarts, drops>>

Init == BusInit /\ I2fInit /\ MqttInit

\* dispatch's first mq_receive creates the queues.
CreateQueues ==
  /\ ~mqReady
  /\ mqReady' = TRUE
  /\ UNCHANGED mq
  /\ UNCHANGED <<busVars, i2fVars, mqttRest>>

\* One message of dispatch, copied to both queues.
Dispatch(m) ==
  /\ mqReady
  /\ Multiplex(m)
  /\ mq' = Forward(mq, m)
  /\ UNCHANGED mqReady
  /\ UNCHANGED mqttRest

Next ==
  \/ CreateQueues
  \/ \E m \in Kind : Dispatch(m)
  \/ I2fStart(mqReady) /\ UNCHANGED mqttVars
  \/ I2fNext /\ UNCHANGED mqttVars
  \/ MotionNext /\ UNCHANGED i2fVars
  \/ (QueueNext \/ QueueWild) /\ UNCHANGED i2fVars

\* The threads of the two daemons are runnable tasks; a sleep of 60 s ends.
Fairness ==
  /\ WF_vars(I2fProcess /\ UNCHANGED mqttVars)
  /\ WF_vars(SoundStop /\ UNCHANGED mqttVars)
  /\ WF_vars((Connect \/ IpcInit \/ InstallCallback \/ Reconnect) /\ UNCHANGED i2fVars)
  /\ WF_vars(InotifyNext /\ UNCHANGED i2fVars)
  /\ WF_vars(QueueNext /\ UNCHANGED i2fVars)

Spec == Init /\ [][Next]_vars /\ Fairness

-----------------------------------------------------------------------------
TypeOK == BusTypeOK /\ I2fTypeOK /\ MqttTypeOK /\ Len(mq) <= QueueLen

\* With both threads of mqttv4 caught up, a motion_start or motion_stop the
\* broker was told last agrees with the marker, however the queue thread's
\* messages on the same topic fell between the inotify thread's.
BrokerAgrees ==
  (/\ ino = "poll" /\ evq = <<>> /\ ~stale
   /\ \A t \in Thread : call[t].pc = "idle")
    => /\ shown = "motion_start" => "motion_alarm" \in files
       /\ shown = "motion_stop" => "motion_alarm" \notin files
=============================================================================
