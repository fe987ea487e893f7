------------------------------ MODULE Ipc2file ------------------------------
(***************************************************************************)
(* The stock side of the event bus.  ipc_multiplex, preloaded into the     *)
(* vendor's dispatch, copies every message dispatch receives to a set of   *)
(* message queues; ipc2file reads its own, /ipc_dispatch_2, and turns the  *)
(* messages into marker files.                                             *)
(***************************************************************************)
EXTENDS EventBus

CONSTANTS
  QueueLen,     \* capacity of a message queue, 64 in the code
  Kind,         \* the messages dispatch sends in this instance
  MaxMessages   \* bound: how many messages dispatch sends

ASSUME Ipc2fileAssumption ==
  /\ QueueLen \in Nat \ {0}
  /\ MaxMessages \in Nat

\* process_event: the marker of each message but motion_stop.
File == [motion_start |-> "motion_alarm",    human  |-> "human_detection",
         vehicle      |-> "vehicle_detection", animal |-> "animal_detection",
         baby         |-> "baby_crying",     sound  |-> "sound_detection"]

ASSUME KindAssumption ==
  /\ Kind \subseteq DOMAIN File \cup {"motion_stop"}
  /\ {File[k] : k \in DOMAIN File} \subseteq Marker

NoAlarm == "none"   \* last_alarm = -1

VARIABLES
  sent,        \* how many messages dispatch has sent
  mq2,         \* the message queue /ipc_dispatch_2
  overflowed,  \* a message did not fit into mq2 (history)
  i2f,         \* ipc2file: waited for by the boot script, running, or gone
  lastAlarm,   \* last_alarm
  timers,      \* how many sound_stop_threads sleep
  noTimer,     \* a sound_stop_thread could not be created (history)
  overtaken    \* markers whose event was followed by another kind (history)

i2fVars == <<sent, mq2, overflowed, i2f, lastAlarm, timers, noTimer, overtaken>>

I2fTypeOK ==
  /\ sent \in 0..MaxMessages
  /\ mq2 \in Seq(Kind) /\ Len(mq2) <= QueueLen
  /\ overflowed \in BOOLEAN
  /\ i2f \in {"waiting", "running", "gone"}
  /\ lastAlarm \in Kind \cup {NoAlarm}
  /\ timers \in 0..MaxMessages
  /\ noTimer \in BOOLEAN
  /\ overtaken \subseteq Marker

I2fInit ==
  /\ sent = 0 /\ mq2 = <<>> /\ overflowed = FALSE
  /\ i2f = "waiting" /\ lastAlarm = NoAlarm
  /\ timers = 0 /\ noTimer = FALSE /\ overtaken = {}

\* The multiplexer's mq_send on a queue opened with O_NONBLOCK: EAGAIN on a
\* full queue is not an error, the message is just not in it.
Forward(q, m) == IF Len(q) < QueueLen THEN Append(q, m) ELSE q

\* dispatch's mq_receive returns m; the copy for ipc2file.
Multiplex(m) ==
  /\ sent < MaxMessages
  /\ sent' = sent + 1
  /\ mq2' = Forward(mq2, m)
  /\ overflowed' = (overflowed \/ Len(mq2) = QueueLen)
  /\ UNCHANGED <<i2f, lastAlarm, timers, noTimer, overtaken>>
  /\ UNCHANGED busVars

\* The boot script waits for the queue, for 120 s; ipc2file opens and empties
\* it, and exits when it is not there.
I2fStart(queueThere) ==
  /\ i2f = "waiting"
  /\ i2f' = IF queueThere THEN "running" ELSE "gone"
  /\ mq2' = <<>>
  /\ UNCHANGED <<sent, overflowed, lastAlarm, timers, noTimer, overtaken>>
  /\ UNCHANGED busVars

\* Mutant: a sound is taken for the alarm the next stop ends.
AfterCountsSound(m) == m

\* last_alarm after m.
After(m) == IF m = "sound" THEN lastAlarm ELSE m

\* The marker of the alarm before m stays behind when m is another alarm.
Overtaken(m) ==
  IF /\ lastAlarm \in DOMAIN File
     /\ m \notin {"motion_stop", "sound", lastAlarm}
  THEN overtaken \cup {File[lastAlarm]}
  ELSE overtaken

I2fRest == UNCHANGED <<sent, overflowed, i2f>>

\* A message that opens an alarm: process_event creates its marker.
I2fAlarm ==
  /\ i2f = "running" /\ mq2 # <<>>
  /\ Head(mq2) \in DOMAIN File \ {"sound"}
  /\ mq2' = Tail(mq2)
  /\ Touch(File[Head(mq2)])
  /\ lastAlarm' = After(Head(mq2))
  /\ overtaken' = Overtaken(Head(mq2))
  /\ UNCHANGED <<timers, noTimer>>
  /\ I2fRest

\* Mutant: the marker is created and no timer is started for it.
I2fSoundNoTimer(started) ==
  /\ i2f = "running" /\ mq2 # <<>> /\ Head(mq2) = "sound"
  /\ mq2' = Tail(mq2)
  /\ Touch(File["sound"])
  /\ lastAlarm' = After("sound")
  /\ UNCHANGED <<timers, noTimer, overtaken>>
  /\ I2fRest

\* A sound: the marker, and a thread that removes it after 60 s.
I2fSound(started) ==
  /\ i2f = "running" /\ mq2 # <<>> /\ Head(mq2) = "sound"
  /\ mq2' = Tail(mq2)
  /\ Touch(File["sound"])
  /\ timers' = IF started THEN timers + 1 ELSE timers
  /\ noTimer' = (noTimer \/ ~started)
  /\ lastAlarm' = After("sound")
  /\ UNCHANGED overtaken
  /\ I2fRest

\* fopen fails: process_event returns before it notes the alarm.
I2fNoFile ==
  /\ i2f = "running" /\ mq2 # <<>> /\ Head(mq2) \in DOMAIN File
  /\ mq2' = Tail(mq2)
  /\ UNCHANGED <<lastAlarm, timers, noTimer, overtaken>>
  /\ UNCHANGED busVars
  /\ I2fRest

\* motion_stop ends whatever alarm came last.
I2fStop ==
  /\ i2f = "running" /\ mq2 # <<>> /\ Head(mq2) = "motion_stop"
  /\ mq2' = Tail(mq2)
  /\ IF lastAlarm \in DOMAIN File
     THEN /\ Unlink(File[lastAlarm])
          /\ overtaken' = overtaken \ {File[lastAlarm]}
     ELSE UNCHANGED busVars /\ UNCHANGED overtaken
  /\ lastAlarm' = After("motion_stop")
  /\ UNCHANGED <<timers, noTimer>>
  /\ I2fRest

\* sound_stop_thread wakes up.
SoundStop ==
  /\ i2f = "running" /\ timers > 0
  /\ timers' = timers - 1
  /\ Unlink(File["sound"])
  /\ UNCHANGED <<mq2, lastAlarm, noTimer, overtaken>>
  /\ I2fRest

\* SIGTERM: the main loop ends, the timers die with the process.
I2fExit ==
  /\ i2f = "running"
  /\ i2f' = "gone"
  /\ timers' = 0
  /\ UNCHANGED <<sent, mq2, overflowed, lastAlarm, noTimer, overtaken>>
  /\ UNCHANGED busVars

I2fProcess == I2fAlarm \/ (\E started \in BOOLEAN : I2fSound(started)) \/ I2fNoFile \/ I2fStop

I2fNext == I2fProcess \/ SoundStop \/ I2fExit

\* The bridge on its own: dispatch sends what it likes, the queue was there in
\* time or was not.
BridgeInit == BusInit /\ I2fInit

BridgeNext ==
  \/ \E m \in Kind : Multiplex(m)
  \/ \E queueThere \in BOOLEAN : I2fStart(queueThere)
  \/ I2fNext

bridgeVars == <<busVars, i2fVars>>

\* ipc2file's main loop and its timer threads are runnable tasks; a sleep ends.
BridgeSpec ==
  /\ BridgeInit /\ [][BridgeNext]_bridgeVars
  /\ WF_bridgeVars(I2fProcess) /\ WF_bridgeVars(SoundStop)

-----------------------------------------------------------------------------
\* A marker other than the sound's is the one the next motion_stop removes, or
\* its alarm was overtaken by another kind: a sound in between, a stop without a
\* start or a message that could not be written never orphans it.
MarkersAccounted ==
  i2f = "running" =>
    \A m \in files \ {"sound_detection"} :
      m \in overtaken \/ (lastAlarm \in DOMAIN File /\ m = File[lastAlarm])

\* No sound marker stays for ever while ipc2file lives, whatever else is queued
\* and however the sounds overlap.
SoundEnds ==
  []("sound_detection" \in files
       => <>(i2f = "gone" \/ noTimer \/ "sound_detection" \notin files))

\* What ipc.c says of the bus: ipc2file "creates motion_alarm on the start edge
\* and removes it on stop".
StopRemovesAlarm ==
  i2f = "running" /\ lastAlarm = "motion_stop" => "motion_alarm" \notin files
=============================================================================
