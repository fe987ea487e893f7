---------------------------- MODULE NativeEvents ----------------------------
(***************************************************************************)
(* Motion in the native pipeline, end to end: campipe's detector and       *)
(* mqttv4, which share nothing but the marker file and the inotify queue.  *)
(***************************************************************************)
EXTENDS CampipeMd, Mqttv4

vars == <<busVars, mdVars, mqttVars>>

Init == BusInit /\ MdInit /\ MqttInit

Next ==
  \/ MdNext /\ UNCHANGED mqttVars
  \/ MotionNext /\ UNCHANGED mdVars

\* campipe's threads and mqttv4's threads are runnable tasks of a preemptive
\* scheduler and time passes.  The set-up of the detector may fail and a daemon
\* that is stopped need not be started; a broker that is gone is retried for ever.
Fairness ==
  /\ WF_vars(MdTick /\ UNCHANGED mqttVars)
  /\ WF_vars(Second /\ UNCHANGED mqttVars)
  /\ WF_vars((Connect \/ IpcInit \/ InstallCallback \/ Reconnect) /\ UNCHANGED mdVars)
  /\ WF_vars(InotifyNext /\ UNCHANGED mdVars)

Spec == Init /\ [][Next]_vars /\ Fairness

-----------------------------------------------------------------------------
(* Properties *)

TypeOK == BusTypeOK /\ MdTypeOK /\ MqttTypeOK

\* campipe holds motion_alarm only between its start and its stop edge: as long
\* as it never died without its exit path, a marker on the bus means the running
\* detector is in motion (md_thread creates on start, removes on stop and exit).
MarkerOnlyInMotion ==
  crashes = 0 => ("motion_alarm" \in files => up /\ motion)

\* The inotify thread has nothing left to read and no callback to finish.
Drained == ino = "poll" /\ call["inotify"].pc = "idle" /\ evq = <<>>

\* Once inotify_thread has caught up, what the broker was last told agrees with
\* the marker, unless an edge could not be published: the watch, the stat after
\* it and the events in their order leave no gap in which an edge is missed.
BrokerAgrees ==
  Drained /\ ~stale => (shown = "motion_start" <=> "motion_alarm" \in files)

\* The recordings callback_motion_stop announces are those of one motion: the
\* start and the stop of a slot belong together, through any number of motions,
\* full slots and workers that take 70 s; only the two startup races break it.
FileListsExact ==
  faults = {} =>
    /\ \A l \in lists : l[1] = l[2]
    /\ \A i \in Slots : slot[i].running = "running" => slot[i].start = slot[i].stop

\* A slot of filesThread is worked on by at most one send_files_list thread, and
\* exactly while it is marked running: no later motion gets hold of it meanwhile.
OneWorkerPerSlot ==
  \A i \in Slots : worker[i] = (IF slot[i].running = "running" THEN 1 ELSE 0)

\* At most one slot waits for its stop: a motion_stop cannot close the slot of
\* another motion.
OneOpenMotion ==
  faults = {} => Cardinality({i \in Slots : slot[i].running = "waiting"}) <= 1

\* When the scene stays quiet and campipe is not killed, the broker is told that
\* the motion is over, unless mqttv4 is down, or was when the edge had to be sent.
QuietReachesBroker ==
  (<>[](~scene) /\ [](crashes = 0))
    => <>[](main = "loop" /\ ~stale => shown # "motion_start")

\* What the comment in inotify_thread promises ("fire a start so we're not stuck
\* clear"): with a connection that never broke, once the thread has caught up a
\* marker that is there has been reported.
StartupRecovers ==
  Drained /\ drops = 0 /\ restarts = 0
    => ("motion_alarm" \in files => shown = "motion_start")
=============================================================================
