------------------------- MODULE NativeEventsProofs -------------------------
(***************************************************************************)
(* Proofs about NativeEvents, for every number of motions, slots, crashes, *)
(* restarts and lost connections, and for every debounce.                  *)
(***************************************************************************)
EXTENDS NativeEvents, FiniteSetTheorems, SequenceTheorems, WellFoundedInduction, TLAPS

\* Outside a motion the counter has not reached the threshold yet.
TicksBelow == ~motion => onTicks < StartTicks

\* main starts the inotify thread and then installs the callbacks, up to the last.
Installing ==
  /\ main \in {"off", "connect", "ipc_init"} => ncb = 0 /\ ino = "none"
  /\ main = "callbacks" => ncb < Len(CallbackOrder)

\* Without a message queue only the inotify thread is ever in a callback, and
\* between its look at a slot and its use nobody else changes that slot's state.
SlotHeld ==
  /\ call["queue"].pc = "idle"
  /\ ino # "poll" => call["inotify"].pc = "idle"
  /\ call["inotify"].pc = "mark" =>
       /\ call["inotify"].ti \in Slots
       /\ slot[call["inotify"].ti].running = "available"
  /\ call["inotify"].pc = "spawn" =>
       /\ call["inotify"].ti \in Slots
       /\ slot[call["inotify"].ti].running = "waiting"

MqttInv == MqttTypeOK /\ Installing /\ SlotHeld /\ OneWorkerPerSlot

IInv == BusTypeOK /\ MdTypeOK /\ TicksBelow /\ MarkerOnlyInMotion /\ MqttInv

USE BusAssumption, MdAssumption, MqttAssumption

-----------------------------------------------------------------------------
\* There are eight callbacks.
LEMMA CallbackCount == Len(CallbackOrder) = 8
  BY DEF CallbackOrder

\* The messages by name.
LEMMA MsgNames ==
  Msg = {"motion_start", "motion_stop", "human", "vehicle", "animal", "baby",
         "sound", "command"}
  BY DEF Msg, CallbackOrder

\* The empty queue is a queue of anything.
LEMMA EmptyQueue == ASSUME NEW S PROVE <<>> \in Seq(S)
  OBVIOUS

\* A callback that is not running fits the type of call.
LEMMA IdleType ==
  Idle \in [pc : {"idle", "pick", "mark", "send", "image", "spawn"},
            msg : Msg, ep : Stamp, ti : Slots \cup {NoSlot}]
  BY MsgNames DEF Idle, Stamp, QueueStamp

\* So does a slot that was handed back fit the type of slot.
LEMMA FreeType ==
  Free \in [running : {"available", "waiting", "running"}, start : Stamp, stop : Stamp]
  BY DEF Free, Stamp, QueueStamp

-----------------------------------------------------------------------------
(* The marker and the detector *)

\* Creating the marker keeps the bus well-formed and puts the marker there.
LEMMA TouchBus ==
  ASSUME BusTypeOK, Touch("motion_alarm")
  PROVE  BusTypeOK' /\ files' = files \cup {"motion_alarm"}
<1>1. CASE "motion_alarm" \in files
  BY <1>1 DEF Touch, BusTypeOK, busVars
<1>2. CASE "motion_alarm" \notin files
  <2>1. /\ episode < MaxEpisodes /\ episode' = episode + 1
        /\ files' = files \cup {"motion_alarm"} /\ watched' = watched
        /\ evq' = IF watched
                  THEN Append(evq, [op |-> "create", file |-> "motion_alarm",
                                    ep |-> episode'])
                  ELSE evq
    BY <1>2 DEF Touch
  <2>2. episode' \in 0..MaxEpisodes
    BY <2>1 DEF BusTypeOK
  <2>3. [op |-> "create", file |-> "motion_alarm", ep |-> episode'] \in Event
    BY <2>2 DEF Event
  <2>4. evq' \in Seq(Event)
    BY <2>1, <2>3 DEF BusTypeOK
  <2> QED BY <2>1, <2>2, <2>4 DEF BusTypeOK
<1> QED BY <1>1, <1>2

\* Removing it does, too, and leaves no marker.
LEMMA UnlinkBus ==
  ASSUME BusTypeOK, Unlink("motion_alarm")
  PROVE  BusTypeOK' /\ files' = files \ {"motion_alarm"}
<1>1. [op |-> "delete", file |-> "motion_alarm", ep |-> episode] \in Event
  BY DEF Event, BusTypeOK
<1>2. evq' \in Seq(Event)
  BY <1>1 DEF Unlink, BusTypeOK
<1> QED BY <1>2 DEF Unlink, BusTypeOK

\* The detector's flags and its numbers.
MdFlags == /\ scene \in BOOLEAN /\ up \in BOOLEAN
           /\ havePrev \in BOOLEAN /\ motion \in BOOLEAN

MdNums == /\ onTicks \in 0..StartTicks /\ quiet \in 0..StopQuiet
          /\ crashes \in 0..MaxCrashes

\* Together they are the type invariant.
LEMMA MdTypeParts == MdTypeOK <=> MdFlags /\ MdNums
  BY Zenon DEF MdTypeOK, MdFlags, MdNums

\* What the detector's steps have to preserve.
MdInv == BusTypeOK /\ MdTypeOK /\ TicksBelow /\ MarkerOnlyInMotion

\* Every step of the detector and of its environment preserves it.
LEMMA MdStep == MdInv /\ MdNext => MdInv'
<1> SUFFICES ASSUME MdInv, MdNext PROVE MdInv'
  OBVIOUS
<1>0. MdFlags /\ MdNums
  BY MdTypeParts DEF MdInv
<1>a. MdFlags' /\ MdNums' => MdTypeOK'
  BY Zenon DEF MdTypeOK, MdFlags, MdNums
<1> USE DEF MdInv
<1>1. CASE MdStart
  <2>1. MdFlags'
    BY <1>0, <1>1, Zenon DEF MdStart, Fresh, MdFlags
  <2>2. MdNums' /\ TicksBelow' /\ BusTypeOK' /\ MarkerOnlyInMotion'
    BY <1>0, <1>1 DEF MdStart, Fresh, busVars, BusTypeOK, MdNums, TicksBelow,
                      MarkerOnlyInMotion
  <2> QED BY <2>1, <2>2, <1>a
<1>2. CASE MdSeed \/ SceneChange \/ Second
  <2>1. MdFlags'
    <3>1. (~scene) \in BOOLEAN
      OBVIOUS
    <3> QED BY <1>0, <1>2, <3>1, Zenon DEF MdSeed, SceneChange, Second, MdFlags
  <2>2. MdNums' /\ TicksBelow' /\ BusTypeOK' /\ MarkerOnlyInMotion'
    BY <1>0, <1>2 DEF MdSeed, SceneChange, Second, busVars, BusTypeOK, MdNums,
                      TicksBelow, MarkerOnlyInMotion
  <2> QED BY <2>1, <2>2, <1>a
<1>3. ASSUME NEW created \in BOOLEAN, MdMoved(created) PROVE MdInv'
  <2>0. up /\ quiet' = 0 /\ UNCHANGED <<scene, up, havePrev, crashes>>
    BY <1>3 DEF MdMoved
  <2>1. CASE motion
    <3>1. motion' = motion /\ onTicks' = onTicks /\ UNCHANGED busVars
      BY <1>3, <2>1 DEF MdMoved
    <3>2. MdFlags'
      BY <1>0, <2>0, <3>1, Zenon DEF MdFlags
    <3>3. MdNums' /\ TicksBelow' /\ BusTypeOK' /\ MarkerOnlyInMotion'
      BY <1>0, <2>0, <3>1 DEF busVars, BusTypeOK, MdNums, TicksBelow, MarkerOnlyInMotion
    <3> QED BY <3>2, <3>3, <1>a
  <2>2. CASE ~motion
    <3>1. onTicks' = onTicks + 1 /\ motion' = (onTicks + 1 >= StartTicks)
      BY <1>3, <2>2 DEF MdMoved
    <3>2. MdFlags'
      <4>1. (onTicks + 1 >= StartTicks) \in BOOLEAN
        OBVIOUS
      <4> QED BY <1>0, <2>0, <3>1, <4>1, Zenon DEF MdFlags
    <3>3. MdNums' /\ TicksBelow'
      <4>1. ~motion' => ~(onTicks + 1 >= StartTicks)
        BY <3>1, Zenon
      <4>2. onTicks \in Int /\ 0 <= onTicks /\ onTicks < StartTicks
        BY <1>0, <2>2 DEF MdNums, TicksBelow
      <4>3. MdNums'
        BY <1>0, <2>0, <3>1, <4>2 DEF MdNums
      <4>4. TicksBelow'
        BY <3>1, <4>1, <4>2 DEF TicksBelow
      <4> QED BY <4>3, <4>4
    <3>4. CASE motion' /\ created
      <4>1. Touch("motion_alarm")
        BY <1>3, <2>2, <3>4 DEF MdMoved
      <4> QED BY <2>0, <3>2, <3>3, <3>4, <4>1, <1>a, TouchBus DEF MarkerOnlyInMotion
    <3>5. CASE ~(motion' /\ created)
      <4>1. UNCHANGED busVars
        BY <1>3, <2>2, <3>5 DEF MdMoved
      <4>2. BusTypeOK' /\ MarkerOnlyInMotion'
        BY <2>0, <2>2, <4>1 DEF busVars, BusTypeOK, MarkerOnlyInMotion
      <4> QED BY <3>2, <3>3, <4>2, <1>a
    <3> QED BY <3>4, <3>5
  <2> QED BY <2>1, <2>2
<1>4. CASE MdStill
  <2>1. onTicks' = 0 /\ UNCHANGED <<scene, up, havePrev, quiet, crashes>>
    BY <1>4 DEF MdStill
  <2>2. MdNums' /\ TicksBelow'
    BY <1>0, <2>1 DEF MdNums, TicksBelow
  <2>3. CASE motion /\ quiet >= StopQuiet
    <3>1. motion' = FALSE /\ Unlink("motion_alarm")
      BY <1>4, <2>3 DEF MdStill
    <3>2. MdFlags'
      BY <1>0, <2>1, <3>1, Zenon DEF MdFlags
    <3> QED BY <2>2, <3>1, <3>2, <1>a, UnlinkBus DEF MarkerOnlyInMotion
  <2>4. CASE ~(motion /\ quiet >= StopQuiet)
    <3>1. motion' = motion /\ UNCHANGED busVars
      BY <1>4, <2>4 DEF MdStill
    <3>2. MdFlags'
      BY <1>0, <2>1, <3>1, Zenon DEF MdFlags
    <3>3. BusTypeOK' /\ MarkerOnlyInMotion'
      BY <2>1, <3>1 DEF busVars, BusTypeOK, MarkerOnlyInMotion
    <3> QED BY <2>2, <3>2, <3>3, <1>a
  <2> QED BY <2>3, <2>4
<1>5. CASE MdExit
  <2>1. up' = FALSE /\ Fresh /\ UNCHANGED <<scene, crashes>>
    BY <1>5 DEF MdExit
  <2>2. MdFlags'
    BY <1>0, <2>1, Zenon DEF Fresh, MdFlags
  <2>3. MdNums' /\ TicksBelow'
    BY <1>0, <2>1 DEF Fresh, MdNums, TicksBelow
  <2>4. CASE motion
    <3>1. Unlink("motion_alarm")
      BY <1>5, <2>4 DEF MdExit
    <3> QED BY <2>2, <2>3, <3>1, <1>a, UnlinkBus DEF MarkerOnlyInMotion
  <2>5. CASE ~motion
    <3>1. UNCHANGED busVars
      BY <1>5, <2>5 DEF MdExit
    <3>2. BusTypeOK' /\ MarkerOnlyInMotion'
      BY <2>1, <2>5, <3>1 DEF busVars, BusTypeOK, MarkerOnlyInMotion
    <3> QED BY <2>2, <2>3, <3>2, <1>a
  <2> QED BY <2>4, <2>5
<1>6. CASE MdCrash
  <2>1. up' = FALSE /\ Fresh /\ crashes' = crashes + 1 /\ crashes < MaxCrashes
        /\ scene' = scene /\ UNCHANGED busVars
    BY <1>6 DEF MdCrash
  <2>2. MdFlags'
    BY <1>0, <2>1, Zenon DEF Fresh, MdFlags
  <2>3. crashes' # 0 /\ MdNums' /\ TicksBelow'
    BY <1>0, <2>1 DEF Fresh, MdNums, TicksBelow
  <2>4. BusTypeOK' /\ MarkerOnlyInMotion'
    BY <2>1, <2>3 DEF busVars, BusTypeOK, MarkerOnlyInMotion
  <2> QED BY <2>2, <2>3, <2>4, <1>a
<1> QED BY <1>1, <1>2, <1>3, <1>4, <1>5, <1>6 DEF MdNext, MdTick

-----------------------------------------------------------------------------
(* mqttv4 *)

\* The parts of mqttv4's type invariant, by what the provers need for them.
MqFlags == conn \in BOOLEAN /\ queueUp \in BOOLEAN /\ mqReady \in BOOLEAN /\ stale \in BOOLEAN

MqNames ==
  /\ main \in {"off", "connect", "ipc_init", "callbacks", "loop"}
  /\ ino \in {"none", "watch", "stat", "poll", "gone"}
  /\ mq \in Seq(Msg)
  /\ lists \in SUBSET (Stamp \X Stamp)
  /\ shown \in OnMotionTopic \cup {"none"}
  /\ faults \in SUBSET {"lost", "double"}

MqNums ==
  /\ ncb \in 0..Len(CallbackOrder)
  /\ restarts \in 0..MaxRestarts
  /\ drops \in 0..MaxDrops

CallType == [pc : {"idle", "pick", "mark", "send", "image", "spawn"},
             msg : Msg, ep : Stamp, ti : Slots \cup {NoSlot}]
SlotType == [running : {"available", "waiting", "running"}, start : Stamp, stop : Stamp]

MqCalls ==
  /\ call \in [Thread -> CallType]
  /\ slot \in [Slots -> SlotType]
  /\ worker \in [Slots -> Nat]

\* Together they are the type invariant.
LEMMA MqTypeParts == MqttTypeOK <=> MqFlags /\ MqNames /\ MqNums /\ MqCalls
  BY Zenon DEF MqttTypeOK, MqFlags, MqNames, MqNums, MqCalls, CallType, SlotType

\* And they are so after a step.
LEMMA MqTypePartsPrime == MqFlags' /\ MqNames' /\ MqNums' /\ MqCalls' => MqttTypeOK'
  BY Zenon DEF MqttTypeOK, MqFlags, MqNames, MqNums, MqCalls, CallType, SlotType

\* What mqttv4's steps do to the bus: they only take events off it.
LEMMA MotionBus ==
  ASSUME BusTypeOK, MotionNext
  PROVE  BusTypeOK' /\ files' = files
<1>1. CASE UNCHANGED busVars
  BY <1>1 DEF busVars, BusTypeOK
<1>2. CASE Gone
  <2>1. evq' = <<>> /\ watched' = FALSE /\ UNCHANGED <<files, episode>>
    BY <1>2 DEF Gone
  <2>2. <<>> \in Seq(Event)
    BY EmptyQueue
  <2> QED BY <2>1, <2>2, Zenon DEF BusTypeOK
<1>3. CASE InoWatch
  BY <1>3 DEF InoWatch, BusTypeOK
<1>4. CASE InoStat
  BY <1>4 DEF InoStat, InoRest, BusTypeOK
<1>5. CASE InoEvent
  <2>1. evq # <<>> /\ evq' = Tail(evq) /\ UNCHANGED <<files, watched, episode>>
    BY <1>5 DEF InoEvent, InoRest
  <2>2. evq \in Seq(Event)
    BY DEF BusTypeOK
  <2>3. evq' \in Seq(Event)
    BY <2>1, <2>2
  <2> QED BY <2>1, <2>3 DEF BusTypeOK
<1>6. MainNext \/ Disconnect => UNCHANGED busVars
  BY DEF MainNext, Start, Connect, IpcInit, InstallCallback, Reconnect, Disconnect
<1>7. CallbackStep("inotify") \/ (\E i \in Slots : FilesDone(i)) => UNCHANGED busVars
  BY DEF CallbackStep, PickSlot, MarkSlot, SendMessage, SendImage, SpawnFiles, FilesDone,
         CallRest
<1>8. Killed \/ InoWild => Gone
  BY DEF Killed, InoWild, WildCall
<1> QED BY <1>1, <1>2, <1>3, <1>4, <1>5, <1>6, <1>7, <1>8 DEF MotionNext, InotifyNext

\* main's steps and the loss of the connection.
LEMMA MainStep ==
  ASSUME MqttInv, MainNext \/ Disconnect
  PROVE  MqttInv'
<1> USE DEF MqttInv
<1>1. MqFlags /\ MqNames /\ MqNums /\ MqCalls
  BY MqTypeParts
<1>2. UNCHANGED <<call, slot, worker, mqReady, lists, shown, stale, faults, restarts>>
  BY DEF MainNext, Start, Connect, IpcInit, InstallCallback, Reconnect, Disconnect
<1>3. MqCalls' /\ SlotHeld' /\ OneWorkerPerSlot'
  <2>1. ino' = ino \/ ino = "none"
    BY DEF MainNext, Start, Connect, IpcInit, InstallCallback, Reconnect, Disconnect,
           Installing
  <2> QED BY <1>1, <1>2, <2>1 DEF MqCalls, SlotHeld, OneWorkerPerSlot
<1>4. MqFlags'
  BY <1>1, Zenon DEF MqFlags, MainNext, Start, Connect, IpcInit, InstallCallback, Reconnect,
                     Disconnect
<1>5. MqNames'
  <2>1. mq' \in Seq(Msg)
    <3>1. mq' = mq \/ mq' = <<>>
      BY DEF MainNext, Start, Connect, IpcInit, InstallCallback, Reconnect, Disconnect
    <3>2. mq \in Seq(Msg)
      BY <1>1 DEF MqNames
    <3>3. <<>> \in Seq(Msg)
      BY EmptyQueue
    <3> QED BY <3>1, <3>2, <3>3, Zenon
  <2>2. /\ main' \in {"off", "connect", "ipc_init", "callbacks", "loop"}
        /\ ino' \in {"none", "watch", "stat", "poll", "gone"}
    BY <1>1 DEF MqNames, MainNext, Start, Connect, IpcInit, InstallCallback, Reconnect,
                Disconnect
  <2> QED BY <1>1, <1>2, <2>1, <2>2, Zenon DEF MqNames
<1>6. MqNums' /\ Installing'
  <2>1. CASE Start \/ Connect \/ IpcInit \/ Reconnect
    BY <1>1, <2>1, CallbackCount DEF Start, Connect, IpcInit, Reconnect, MqNums, Installing
  <2>2. CASE InstallCallback
    BY <1>1, <2>2, CallbackCount DEF InstallCallback, MqNums, Installing
  <2>3. CASE Disconnect
    BY <1>1, <2>3, CallbackCount DEF Disconnect, MqNums, Installing
  <2> QED BY <2>1, <2>2, <2>3 DEF MainNext
<1> QED BY <1>3, <1>4, <1>5, <1>6, MqTypePartsPrime

\* A process that is gone leaves mqttv4 as it was before it was started.
LEMMA GoneStep ==
  ASSUME MqttInv, Killed \/ InoWild
  PROVE  MqttInv'
<1> USE DEF MqttInv
<1>1. MqFlags /\ MqNames /\ MqNums /\ MqCalls
  BY MqTypeParts
<1>2. Gone /\ mq' = mq
  BY DEF Killed, InoWild, WildCall
<1>3. restarts' \in 0..MaxRestarts
  BY <1>1 DEF Killed, InoWild, WildCall, MqNums
<1>4. MqFlags'
  BY <1>1, <1>2, Zenon DEF Gone, MqFlags
<1>5. MqNames'
  BY <1>1, <1>2 DEF Gone, MqNames
<1>6. MqNums' /\ Installing'
  BY <1>1, <1>2, <1>3, CallbackCount DEF Gone, MqNums, Installing
<1>7. MqCalls' /\ SlotHeld' /\ OneWorkerPerSlot'
  <2>1. /\ call' = [t \in Thread |-> Idle] /\ slot' = [i \in Slots |-> Free]
        /\ worker' = [i \in Slots |-> 0]
    BY <1>2 DEF Gone
  <2>2. Idle \in CallType /\ Free \in SlotType
    BY IdleType, FreeType DEF CallType, SlotType
  <2>3. MqCalls'
    BY <2>1, <2>2 DEF MqCalls
  <2>4. SlotHeld' /\ OneWorkerPerSlot'
    BY <2>1 DEF SlotHeld, OneWorkerPerSlot, Idle, Free, Thread
  <2> QED BY <2>3, <2>4
<1> QED BY <1>4, <1>5, <1>6, <1>7, MqTypePartsPrime

\* call_callback by the inotify thread, on a message of the motion topic.
LEMMA CallbackCalled ==
  ASSUME MqttInv, call["inotify"].pc = "idle",
         NEW msg \in {"motion_start", "motion_stop"}, NEW ep \in Stamp,
         NEW race \in SUBSET {"lost", "double"},
         CallCallback("inotify", msg, ep, race),
         UNCHANGED <<slot, worker>>, ino' = "poll"
  PROVE  /\ MqCalls' /\ SlotHeld' /\ OneWorkerPerSlot'
         /\ stale' \in BOOLEAN /\ faults' \in SUBSET {"lost", "double"}
<1> USE DEF MqttInv
<1>1. MqFlags /\ MqNames /\ MqCalls
  BY MqTypeParts
<1>2. CASE Installed(msg)
  <2> DEFINE c == [pc |-> IF msg \in Opening THEN "pick" ELSE "send",
                   msg |-> msg, ep |-> ep, ti |-> NoSlot]
  <2>1. /\ call' = [call EXCEPT !["inotify"] = c]
        /\ faults' = faults \cup race /\ stale' = stale
    BY <1>2 DEF CallCallback
  <2>2. c \in CallType /\ c.pc \in {"pick", "send"}
    BY MsgNames DEF CallType
  <2>3. MqCalls' /\ SlotHeld' /\ OneWorkerPerSlot'
    <3> HIDE DEF c
    <3> QED BY <1>1, <2>1, <2>2 DEF MqCalls, SlotHeld, OneWorkerPerSlot, Thread
  <2>4. faults' \in SUBSET {"lost", "double"}
    BY <1>1, <2>1 DEF MqNames
  <2> QED BY <1>1, <2>1, <2>3, <2>4, Zenon DEF MqFlags
<1>3. CASE ~Installed(msg)
  <2>1. /\ stale' = (stale \/ msg \in OnMotionTopic)
        /\ faults' = faults \cup {"lost"} /\ call' = call
    BY <1>3 DEF CallCallback
  <2>2. MqCalls' /\ SlotHeld' /\ OneWorkerPerSlot'
    BY <1>1, <2>1 DEF MqCalls, SlotHeld, OneWorkerPerSlot
  <2>3. faults' \in SUBSET {"lost", "double"}
    BY <1>1, <2>1 DEF MqNames
  <2>4. (stale \/ msg \in OnMotionTopic) \in BOOLEAN
    OBVIOUS
  <2> QED BY <2>1, <2>2, <2>3, <2>4, Zenon
<1> QED BY <1>2, <1>3

\* The inotify thread's steps outside a callback.
LEMMA InotifyStep ==
  ASSUME BusTypeOK, MqttInv, InoWatch \/ InoStat \/ InoEvent
  PROVE  MqttInv'
<1> USE DEF MqttInv
<1>1. MqFlags /\ MqNames /\ MqNums /\ MqCalls
  BY MqTypeParts
<1>2. /\ UNCHANGED <<main, ncb, conn, queueUp, mqReady, mq, slot, worker, lists, shown,
                     restarts, drops>>
      /\ ino' \in {"none", "watch", "stat", "poll", "gone"}
  BY <1>1 DEF InoWatch, InoStat, InoEvent, InoRest, MqNames
<1>3. MqNums' /\ Installing'
  BY <1>1, <1>2 DEF MqNums, Installing, InoWatch, InoStat, InoEvent
<1>4. episode \in Stamp
  BY DEF BusTypeOK, Stamp, QueueStamp
<1>5. CASE UNCHANGED <<call, stale, faults>> /\ (ino' = "poll" \/ call["inotify"].pc = "idle")
  <2>1. MqCalls' /\ SlotHeld' /\ OneWorkerPerSlot'
    BY <1>1, <1>2, <1>5 DEF MqCalls, SlotHeld, OneWorkerPerSlot
  <2>2. MqFlags' /\ MqNames'
    BY <1>1, <1>2, <1>5, Zenon DEF MqFlags, MqNames
  <2> QED BY <1>3, <2>1, <2>2, MqTypePartsPrime
<1>6. ASSUME call["inotify"].pc = "idle", ino' = "poll",
             NEW msg \in {"motion_start", "motion_stop"}, NEW ep \in Stamp,
             NEW race \in SUBSET {"lost", "double"},
             CallCallback("inotify", msg, ep, race)
      PROVE  MqttInv'
  <2>1. /\ MqCalls' /\ SlotHeld' /\ OneWorkerPerSlot'
        /\ stale' \in BOOLEAN /\ faults' \in SUBSET {"lost", "double"}
    BY <1>2, <1>6, CallbackCalled
  <2>2. MqFlags' /\ MqNames'
    BY <1>1, <1>2, <2>1, Zenon DEF MqFlags, MqNames
  <2> QED BY <1>3, <2>1, <2>2, MqTypePartsPrime
<1>7. CASE InoWatch
  BY <1>5, <1>7 DEF InoWatch, SlotHeld
<1>8. CASE InoStat
  <2>1. CASE "motion_alarm" \in files
    <3>1. PICK race \in SUBSET {"lost", "double"} :
            CallCallback("inotify", "motion_start", episode, race)
      BY <1>8, <2>1 DEF InoStat
    <3> QED BY <1>4, <1>6, <1>8, <3>1 DEF InoStat, SlotHeld
  <2>2. CASE "motion_alarm" \notin files
    BY <1>5, <1>8, <2>2 DEF InoStat
  <2> QED BY <2>1, <2>2
<1>9. CASE InoEvent
  <2>1. CASE Head(evq).file = "motion_alarm"
    <3>1. Head(evq) \in Event
      BY <1>9 DEF InoEvent, BusTypeOK
    <3>2. Head(evq).ep \in Stamp
      BY <3>1 DEF Event, Stamp, QueueStamp
    <3>3. PICK msg \in {"motion_start", "motion_stop"} :
            CallCallback("inotify", msg, Head(evq).ep, {})
      BY <1>9, <2>1 DEF InoEvent
    <3> QED BY <1>6, <1>9, <3>2, <3>3 DEF InoEvent
  <2>2. CASE Head(evq).file # "motion_alarm"
    BY <1>5, <1>9, <2>2 DEF InoEvent
  <2> QED BY <2>1, <2>2
<1> QED BY <1>7, <1>8, <1>9

\* A set of slot numbers has a least one.
LEMMA LeastOf ==
  ASSUME NEW S \in SUBSET Nat, S # {}
  PROVE  \E i \in S : \A j \in S : i <= j
<1>1. PICK i \in S : \A j \in S : ~(<<j, i>> \in OpToRel(<, Nat))
  BY NatLessThanWellFounded, WFMin, Zenon
<1>2. \A j \in S : ~(j < i)
  BY <1>1 DEF OpToRel
<1> QED BY <1>2

\* get_thread_index returns a slot in that state, or none.
LEMMA ThreadIndexFound ==
  ASSUME NEW state, ThreadIndex(state) # NoSlot
  PROVE  ThreadIndex(state) \in Slots /\ slot[ThreadIndex(state)].running = state
<1> DEFINE S == {i \in Slots : slot[i].running = state}
<1>1. S # {}
  BY DEF ThreadIndex
<1>2. ThreadIndex(state) = CHOOSE i \in S : \A j \in S : i <= j
  BY <1>1 DEF ThreadIndex
<1>3. \E i \in S : \A j \in S : i <= j
  <2>1. S \subseteq Nat
    OBVIOUS
  <2> HIDE DEF S
  <2> QED BY <1>1, <2>1, LeastOf
<1>4. ThreadIndex(state) \in S
  BY <1>2, <1>3, Zenon
<1> QED BY <1>4

\* The steps of a callback on the inotify thread, and the workers' end.
LEMMA CallbackInv ==
  ASSUME MqttInv, CallbackStep("inotify") \/ (\E i \in Slots : FilesDone(i))
  PROVE  MqttInv'
<1> USE DEF MqttInv
<1>1. MqFlags /\ MqNames /\ MqNums /\ MqCalls
  BY MqTypeParts
<1>2. UNCHANGED <<main, ncb, conn, ino, queueUp, mqReady, mq, faults, restarts, drops>>
  BY DEF CallbackStep, PickSlot, MarkSlot, SendMessage, SendImage, SpawnFiles, FilesDone,
         CallRest
<1>3. MqNums' /\ Installing'
  BY <1>1, <1>2 DEF MqNums, Installing
<1>4. /\ stale' \in BOOLEAN
      /\ shown' \in OnMotionTopic \cup {"none"}
      /\ lists' \in SUBSET (Stamp \X Stamp)
      /\ MqCalls' /\ SlotHeld' /\ OneWorkerPerSlot'
      => MqttInv'
  <2> HAVE /\ stale' \in BOOLEAN
           /\ shown' \in OnMotionTopic \cup {"none"}
           /\ lists' \in SUBSET (Stamp \X Stamp)
           /\ MqCalls' /\ SlotHeld' /\ OneWorkerPerSlot'
  <2>1. MqFlags' /\ MqNames'
    BY <1>1, <1>2, Zenon DEF MqFlags, MqNames
  <2> QED BY <1>3, <2>1, MqTypePartsPrime
<1>5. CASE PickSlot("inotify")
  <2>1. UNCHANGED <<slot, worker, lists, shown, stale>>
    BY <1>5 DEF PickSlot
  <2> DEFINE opens == call["inotify"].msg \in Opening
             ti == ThreadIndex(IF opens THEN "available" ELSE "waiting")
  <2>2. CASE ti # NoSlot
    <3>1. /\ ti \in Slots
          /\ slot[ti].running = (IF opens THEN "available" ELSE "waiting")
      BY <2>2, ThreadIndexFound
    <3>2. call' = [call EXCEPT !["inotify"].ti = ti,
                               !["inotify"].pc = IF opens THEN "mark" ELSE "spawn"]
      BY <1>5, <2>2 DEF PickSlot
    <3>3. ino = "poll"
      BY <1>5 DEF PickSlot, At, SlotHeld
    <3> HIDE DEF ti, opens
    <3>4. MqCalls'
      BY <1>1, <2>1, <3>1, <3>2 DEF MqCalls, CallType, Thread
    <3>5. SlotHeld' /\ OneWorkerPerSlot'
      BY <1>1, <1>2, <2>1, <3>1, <3>2, <3>3
         DEF MqCalls, CallType, Thread, SlotHeld, OneWorkerPerSlot
    <3> QED BY <1>1, <1>4, <2>1, <3>4, <3>5 DEF MqFlags, MqNames
  <2>3. CASE ti = NoSlot
    <3>1. \/ call' = [call EXCEPT !["inotify"].pc = "send"]
          \/ call' = [call EXCEPT !["inotify"] = Idle]
      BY <1>5, <2>3 DEF PickSlot, Goto, Return
    <3>2. Idle \in CallType /\ Idle.pc = "idle"
      BY IdleType DEF CallType, Idle
    <3>3. ino = "poll"
      BY <1>5 DEF PickSlot, At, SlotHeld
    <3>4. MqCalls'
      BY <1>1, <2>1, <3>1, <3>2 DEF MqCalls, CallType, Thread
    <3>5. SlotHeld' /\ OneWorkerPerSlot'
      BY <1>1, <1>2, <2>1, <3>1, <3>2, <3>3
         DEF MqCalls, CallType, Thread, SlotHeld, OneWorkerPerSlot
    <3> QED BY <1>1, <1>4, <2>1, <3>4, <3>5 DEF MqFlags, MqNames
  <2> QED BY <2>2, <2>3
<1>6. CASE MarkSlot("inotify")
  <2>1. /\ UNCHANGED <<worker, lists, shown, stale>>
        /\ slot' = [slot EXCEPT ![call["inotify"].ti].start = call["inotify"].ep,
                                ![call["inotify"].ti].running = "waiting"]
        /\ call' = [call EXCEPT !["inotify"].pc = "send"]
        /\ call["inotify"].pc = "mark"
    BY <1>6 DEF MarkSlot, At, Goto
  <2>2. /\ call["inotify"].ti \in Slots /\ slot[call["inotify"].ti].running = "available"
        /\ ino = "poll" /\ call["queue"].pc = "idle"
    BY <2>1 DEF SlotHeld
  <2>3. MqCalls'
    BY <1>1, <2>1, <2>2 DEF MqCalls, CallType, SlotType, Thread
  <2>4. SlotHeld' /\ OneWorkerPerSlot'
    BY <1>1, <1>2, <2>1, <2>2
       DEF MqCalls, CallType, SlotType, Thread, SlotHeld, OneWorkerPerSlot
  <2> QED BY <1>1, <1>4, <2>1, <2>3, <2>4 DEF MqFlags, MqNames
<1>7. ASSUME NEW published \in BOOLEAN, SendMessage("inotify", published)
      PROVE  MqttInv'
  <2>1. UNCHANGED <<slot, worker, lists>> /\ call["inotify"].pc = "send"
    BY <1>7 DEF SendMessage, At
  <2>2. stale' \in BOOLEAN /\ shown' \in OnMotionTopic \cup {"none"}
    <3>1. (~published) \in BOOLEAN
      OBVIOUS
    <3> QED BY <1>1, <1>7, <3>1, Zenon DEF SendMessage, MqFlags, MqNames
  <2>3. \/ call' = [call EXCEPT !["inotify"].pc = "image"]
        \/ call' = [call EXCEPT !["inotify"].pc = "pick"]
        \/ call' = [call EXCEPT !["inotify"] = Idle]
    BY <1>7 DEF SendMessage, Goto, Return
  <2>4. Idle \in CallType /\ Idle.pc = "idle"
    BY IdleType DEF CallType, Idle
  <2>5. MqCalls'
    BY <1>1, <2>1, <2>3, <2>4 DEF MqCalls, CallType, Thread
  <2>6. SlotHeld' /\ OneWorkerPerSlot'
    BY <1>1, <1>2, <2>1, <2>3, <2>4
       DEF MqCalls, CallType, Thread, SlotHeld, OneWorkerPerSlot
  <2> QED BY <1>1, <1>4, <2>1, <2>2, <2>5, <2>6 DEF MqNames
<1>8. CASE SendImage("inotify")
  <2>1. /\ UNCHANGED <<slot, worker, lists, shown, stale>>
        /\ call' = [call EXCEPT !["inotify"] = Idle]
    BY <1>8 DEF SendImage, Return
  <2>2. Idle \in CallType /\ Idle.pc = "idle"
    BY IdleType DEF CallType, Idle
  <2>3. MqCalls' /\ SlotHeld' /\ OneWorkerPerSlot'
    BY <1>1, <1>2, <2>1, <2>2 DEF MqCalls, Thread, SlotHeld, OneWorkerPerSlot
  <2> QED BY <1>1, <1>4, <2>1, <2>3 DEF MqFlags, MqNames
<1>9. ASSUME NEW started \in BOOLEAN, SpawnFiles("inotify", started)
      PROVE  MqttInv'
  <2> DEFINE ti == call["inotify"].ti
  <2>1. /\ UNCHANGED <<lists, shown, stale>>
        /\ call' = [call EXCEPT !["inotify"] = Idle]
        /\ call["inotify"].pc = "spawn"
    BY <1>9 DEF SpawnFiles, At, Return
  <2>2. ti \in Slots /\ slot[ti].running = "waiting" /\ worker[ti] = 0
    BY <2>1 DEF SlotHeld, OneWorkerPerSlot
  <2>3. Idle \in CallType /\ Idle.pc = "idle" /\ Free \in SlotType
        /\ Free.running = "available" /\ call["inotify"].ep \in Stamp
    BY <1>1, IdleType, FreeType DEF CallType, SlotType, Idle, Free, MqCalls, Thread
  <2>4. \/ /\ slot' = [slot EXCEPT ![ti].stop = call["inotify"].ep,
                                   ![ti].running = "running"]
           /\ worker' = [worker EXCEPT ![ti] = @ + 1]
        \/ slot' = [slot EXCEPT ![ti] = Free] /\ worker' = worker
    BY <1>9 DEF SpawnFiles
  <2> HIDE DEF ti
  <2>5. MqCalls'
    BY <1>1, <2>1, <2>2, <2>3, <2>4 DEF MqCalls, SlotType, Thread
  <2>6. SlotHeld'
    BY <1>1, <1>2, <2>1, <2>3 DEF MqCalls, Thread, SlotHeld
  <2>7. OneWorkerPerSlot'
    BY <1>1, <2>2, <2>3, <2>4 DEF MqCalls, SlotType, OneWorkerPerSlot
  <2> QED BY <1>1, <1>4, <2>1, <2>5, <2>6, <2>7 DEF MqFlags, MqNames
<1>10. ASSUME NEW i \in Slots, FilesDone(i) PROVE MqttInv'
  <2>1. /\ worker[i] > 0 /\ UNCHANGED <<call, shown, stale>>
        /\ slot' = [slot EXCEPT ![i] = Free]
        /\ worker' = [worker EXCEPT ![i] = @ - 1]
        /\ lists' \in {lists, lists \cup {<<slot[i].start, slot[i].stop>>}}
    BY <1>10 DEF FilesDone
  <2>2. slot[i].running = "running" /\ worker[i] = 1
    BY <1>1, <2>1 DEF MqCalls, OneWorkerPerSlot
  <2>3. Free \in SlotType /\ Free.running = "available"
    BY FreeType DEF SlotType, Free
  <2>4. slot[i].start \in Stamp /\ slot[i].stop \in Stamp
    BY <1>1 DEF MqCalls, SlotType
  <2>5. lists' \in SUBSET (Stamp \X Stamp)
    BY <1>1, <2>1, <2>4 DEF MqNames
  <2>6. MqCalls'
    BY <1>1, <2>1, <2>2, <2>3 DEF MqCalls
  <2>7. SlotHeld' /\ OneWorkerPerSlot'
    BY <1>1, <1>2, <2>1, <2>2, <2>3 DEF MqCalls, SlotHeld, OneWorkerPerSlot
  <2> QED BY <1>1, <1>4, <2>1, <2>5, <2>6, <2>7 DEF MqFlags, MqNames
<1> QED BY <1>5, <1>6, <1>7, <1>8, <1>9, <1>10 DEF CallbackStep

-----------------------------------------------------------------------------
(* The two processes together *)

\* Nothing runs and no marker exists at boot.
LEMMA InitIInv == Init => IInv
<1> SUFFICES ASSUME Init PROVE IInv
  OBVIOUS
<1> USE DEF Init
<1>1. BusTypeOK
  <2>1. <<>> \in Seq(Event)
    BY EmptyQueue
  <2>2. 0 \in 0..MaxEpisodes /\ {} \in SUBSET Marker
    OBVIOUS
  <2> QED BY <2>1, <2>2, Zenon DEF BusInit, BusTypeOK
<1>2. MdTypeOK
  <2>1. MdFlags
    BY Zenon DEF MdInit, MdFlags
  <2>2. MdNums
    BY DEF MdInit, MdNums
  <2> QED BY <2>1, <2>2, MdTypeParts
<1>3. TicksBelow /\ MarkerOnlyInMotion
  BY DEF BusInit, MdInit, TicksBelow, MarkerOnlyInMotion
<1>4. MqFlags /\ MqNums /\ Installing
  <2>1. MqFlags
    BY Zenon DEF MqttInit, MqFlags
  <2>2. MqNums /\ Installing
    BY CallbackCount DEF MqttInit, MqNums, Installing
  <2> QED BY <2>1, <2>2
<1>5. MqNames
  <2>1. <<>> \in Seq(Msg)
    BY EmptyQueue
  <2> QED BY <2>1, Zenon DEF MqttInit, MqNames
<1>6. MqCalls /\ SlotHeld /\ OneWorkerPerSlot
  <2>1. Idle \in CallType /\ Free \in SlotType
    BY IdleType, FreeType DEF CallType, SlotType
  <2>2. MqCalls
    BY <2>1 DEF MqttInit, MqCalls
  <2> QED BY <2>2 DEF MqttInit, SlotHeld, OneWorkerPerSlot, Idle, Free, Thread
<1> QED BY <1>1, <1>2, <1>3, <1>4, <1>5, <1>6, MqTypeParts DEF IInv, MqttInv

\* Every step of either process preserves the invariant: what one keeps, the other
\* does not touch.
LEMMA NextIInv == IInv /\ [Next]_vars => IInv'
<1> SUFFICES ASSUME IInv, [Next]_vars PROVE IInv'
  OBVIOUS
<1> USE DEF IInv
<1>1. CASE MdNext /\ UNCHANGED mqttVars
  <2>1. MdInv'
    BY <1>1, MdStep DEF MdInv
  <2>2. MqttInv'
    BY <1>1 DEF MqttInv, mqttVars, MqttTypeOK, Installing, SlotHeld, OneWorkerPerSlot
  <2> QED BY <2>1, <2>2 DEF MdInv
<1>2. CASE MotionNext /\ UNCHANGED mdVars
  <2>1. BusTypeOK' /\ files' = files
    BY <1>2, MotionBus
  <2>2. MdTypeOK' /\ TicksBelow' /\ MarkerOnlyInMotion'
    BY <1>2, <2>1 DEF mdVars, MdTypeOK, TicksBelow, MarkerOnlyInMotion
  <2>3. MqttInv'
    BY <1>2, MainStep, GoneStep, InotifyStep, CallbackInv DEF MotionNext, InotifyNext
  <2> QED BY <2>1, <2>2, <2>3
<1>3. CASE UNCHANGED vars
  <2>1. UNCHANGED <<busVars, mdVars, mqttVars>>
    BY <1>3 DEF vars
  <2>2. BusTypeOK' /\ MdTypeOK' /\ TicksBelow' /\ MarkerOnlyInMotion'
    BY <2>1 DEF busVars, mdVars, BusTypeOK, MdTypeOK, TicksBelow, MarkerOnlyInMotion
  <2>3. MqttInv'
    BY <2>1 DEF MqttInv, mqttVars, MqttTypeOK, Installing, SlotHeld, OneWorkerPerSlot
  <2> QED BY <2>2, <2>3
<1> QED BY <1>1, <1>2, <1>3 DEF Next

\* The invariant holds in every reachable state.
THEOREM Invariance == Spec => []IInv
  BY InitIInv, NextIInv, PTL DEF Spec

\* The event bus, the detector and mqttv4 keep their types: the debounce counter
\* stays within its threshold, no callback is installed beyond the last, and no
\* slot index leaves the slots, through any sequence of crashes and restarts.
THEOREM TypeCorrect == Spec => []TypeOK
<1>1. IInv => TypeOK
  BY DEF IInv, MqttInv, TypeOK
<1> QED BY <1>1, Invariance, PTL

\* For every debounce and any number of motions, a campipe that never died without
\* its exit path leaves no marker behind outside a motion.
THEOREM Marked == Spec => []MarkerOnlyInMotion
<1>1. IInv => MarkerOnlyInMotion
  BY DEF IInv
<1> QED BY <1>1, Invariance, PTL

\* For every number of slots, a slot has a worker exactly while it is running, and
\* only one: motion_start and motion_stop callbacks never take it meanwhile.
THEOREM OneWorker == Spec => []OneWorkerPerSlot
<1>1. IInv => OneWorkerPerSlot
  BY DEF IInv, MqttInv
<1> QED BY <1>1, Invariance, PTL
-----------------------------------------------------------------------------
(* The edges of the motion on their way to the broker *)

\* The marker exists.
MarkerThere == "motion_alarm" \in files

\* The k-th queued event is the start of a motion.
Opens(k) == evq[k].op = "create"

\* The queue holds, in order and without a gap, the edges of the marker since the
\* watch was added; the last of them is the state the marker is in.
EdgesQueued ==
  /\ watched <=> ino \in {"stat", "poll"}
  /\ ~watched => evq = <<>>
  /\ \A k \in 1..Len(evq) : evq[k].file = "motion_alarm"
  /\ \A k \in 1..(Len(evq) - 1) :
       /\ Opens(k) <=> ~Opens(k + 1)
       /\ Opens(k) => evq[k + 1].ep = evq[k].ep
  /\ evq # <<>> => (Opens(Len(evq)) <=> MarkerThere) /\ evq[Len(evq)].ep = episode

\* The callback the inotify thread is in.
cb == call["inotify"]

\* The callbacks of the inotify thread are those of the two edges.
EdgeCalls ==
  /\ cb.pc # "idle" => cb.msg \in {"motion_start", "motion_stop"}
  /\ cb.pc \in {"mark", "image"} => cb.msg = "motion_start"
  /\ cb.pc = "spawn" => cb.msg = "motion_stop"

\* The edge the thread is in has not been published yet.
Unsent == cb.pc \in {"mark", "send"} \/ (cb.pc = "pick" /\ cb.msg = "motion_start")

\* With an empty queue, what the broker was told or is about to be told is the
\* state of the marker; before the thread reads, it was not told of a motion.
Told ==
  IF ino = "poll"
  THEN evq = <<>> =>
         IF Unsent THEN cb.msg = "motion_start" <=> MarkerThere
                   ELSE ~stale => (shown = "motion_start" <=> MarkerThere)
  ELSE stale \/ shown = "none"

\* The thread has read the start of a motion and not its stop, and of which one.
MotionOpen == IF evq = <<>> THEN MarkerThere ELSE ~Opens(1)
OpenEpisode == IF evq = <<>> THEN episode ELSE evq[1].ep

\* The slots that wait for a stop, and the edge whose callback runs.
Waiting == {i \in Slots : slot[i].running = "waiting"}
Starting == cb.pc # "idle" /\ cb.msg = "motion_start"
Stopping == cb.pc # "idle" /\ cb.msg = "motion_stop"

\* A slot waits only for the stop of the motion that took it, which is the one the
\* thread has open or is closing, and no other slot waits then.
OwnMotion ==
  /\ ino # "poll" => Waiting = {}
  /\ Starting => MotionOpen /\ cb.ep = OpenEpisode
  /\ Stopping => ~MotionOpen
  /\ \A i \in Waiting :
       /\ ~(Starting /\ cb.pc \in {"pick", "mark"})
       /\ IF Stopping THEN slot[i].start = cb.ep
                      ELSE MotionOpen /\ slot[i].start = OpenEpisode
  /\ \A i, j \in Waiting : i = j

\* What the edges on their way have to keep.
EdgeInv == EdgesQueued /\ EdgeCalls /\ Told /\ (faults = {} => OwnMotion) /\ FileListsExact

\* An edge of the marker that is queued keeps the queue in order, and the thread
\* has not read more for it.
LEMMA EdgeAppended ==
  ASSUME BusTypeOK, EdgesQueued, NEW op \in {"create", "delete"},
         watched, UNCHANGED <<watched, ino>>,
         op = "create" <=> ~MarkerThere, op = "create" <=> MarkerThere',
         op = "delete" => episode' = episode,
         evq' = Append(evq, [op |-> op, file |-> "motion_alarm", ep |-> episode'])
  PROVE  /\ EdgesQueued' /\ evq' # <<>>
         /\ MotionOpen' <=> MotionOpen
         /\ MotionOpen => OpenEpisode' = OpenEpisode
<1> DEFINE e == [op |-> op, file |-> "motion_alarm", ep |-> episode']
           n == Len(evq)
<1>1. evq \in Seq(Event) /\ n \in Nat /\ (evq = <<>> <=> n = 0)
  BY DEF BusTypeOK
<1>2. /\ Len(evq') = n + 1 /\ evq'[n + 1] = e
      /\ \A k \in 1..n : evq'[k] = evq[k]
  BY <1>1
<1>3. /\ e.op = op /\ e.file = "motion_alarm" /\ e.ep = episode'
  OBVIOUS
<1>4. evq' # <<>>
  BY <1>1
<1> HIDE DEF e, n
<1>5. \A k \in 1..Len(evq') : evq'[k].file = "motion_alarm"
  BY <1>1, <1>2, <1>3 DEF EdgesQueued, n
<1>6. \A k \in 1..(Len(evq') - 1) : /\ Opens(k)' <=> ~Opens(k + 1)'
                                    /\ Opens(k)' => evq'[k + 1].ep = evq'[k].ep
  <2> TAKE k \in 1..(Len(evq') - 1)
  <2>1. CASE k = n
    BY <1>1, <1>2, <1>3, <2>1 DEF EdgesQueued, Opens, n
  <2>2. CASE k < n
    <3>1. k \in 1..(Len(evq) - 1) /\ k \in 1..n /\ k + 1 \in 1..n
      BY <1>1, <1>2, <2>2 DEF n
    <3> QED BY <1>2, <3>1 DEF EdgesQueued, Opens
  <2> QED BY <1>1, <1>2, <2>1, <2>2
<1>7. (evq'[Len(evq')].op = "create" <=> MarkerThere') /\ evq'[Len(evq')].ep = episode'
  BY <1>1, <1>2, <1>3
<1>8. EdgesQueued'
  <2>1. (\A k \in 1..(Len(evq) - 1) :
          /\ Opens(k) <=> ~Opens(k + 1)
          /\ Opens(k) => evq[k + 1].ep = evq[k].ep)'
    BY <1>6 DEF Opens
  <2>2. (Opens(Len(evq)))' <=> MarkerThere'
    BY <1>7 DEF Opens
  <2> QED BY <1>4, <1>5, <2>1, <2>2, <1>7 DEF EdgesQueued
<1>9. (MotionOpen' <=> MotionOpen) /\ (MotionOpen => OpenEpisode' = OpenEpisode)
  <2>1. CASE n = 0
    <3>1. evq = <<>> /\ evq'[1] = e
      BY <1>1, <1>2, <2>1
    <3> QED BY <1>3, <1>4, <3>1 DEF MotionOpen, OpenEpisode, Opens
  <2>2. CASE n > 0
    <3>1. evq # <<>> /\ evq'[1] = evq[1]
      BY <1>1, <1>2, <2>2
    <3> QED BY <1>4, <3>1 DEF MotionOpen, OpenEpisode, Opens
  <2> QED BY <1>1, <2>1, <2>2
<1> QED BY <1>4, <1>8, <1>9

\* Reading the oldest event opens or closes the motion it belongs to; when it was
\* the last one, it is the state of the marker.
LEMMA EdgeTaken ==
  ASSUME BusTypeOK, EdgesQueued, evq # <<>>, evq' = Tail(evq),
         UNCHANGED <<files, watched, episode, ino>>
  PROVE  /\ EdgesQueued'
         /\ Head(evq).file = "motion_alarm" /\ Head(evq).op \in {"create", "delete"}
         /\ Head(evq).op = "create" => ~MotionOpen /\ MotionOpen' /\ OpenEpisode' = Head(evq).ep
         /\ Head(evq).op = "delete" => MotionOpen /\ ~MotionOpen' /\ OpenEpisode = Head(evq).ep
         /\ evq' = <<>> => (Head(evq).op = "create" <=> MarkerThere)
<1> DEFINE n == Len(evq)
<1>1. evq \in Seq(Event) /\ n \in Nat /\ n >= 1 /\ Head(evq) = evq[1] /\ evq[1] \in Event
  BY DEF BusTypeOK
<1>2. /\ Len(evq') = n - 1 /\ (evq' = <<>> <=> n = 1)
      /\ \A k \in 1..(n - 1) : evq'[k] = evq[k + 1]
  <2>1. /\ Tail(evq) \in Seq(Event) /\ Len(Tail(evq)) = Len(evq) - 1
        /\ \A i \in 1..Len(Tail(evq)) : Tail(evq)[i] = evq[i + 1]
    BY <1>1, HeadTailProperties
  <2>2. evq' = <<>> <=> Len(evq') = 0
    BY <2>1, EmptySeq
  <2> QED BY <1>1, <2>1, <2>2
<1> HIDE DEF n
<1>3. \A k \in 1..Len(evq') : evq'[k].file = "motion_alarm"
  BY <1>1, <1>2 DEF EdgesQueued, n
<1>4. \A k \in 1..(Len(evq') - 1) : /\ Opens(k)' <=> ~Opens(k + 1)'
                                    /\ Opens(k)' => evq'[k + 1].ep = evq'[k].ep
  <2> TAKE k \in 1..(Len(evq') - 1)
  <2>1. k + 1 \in 1..(Len(evq) - 1) /\ k \in 1..(n - 1) /\ k + 1 \in 1..(n - 1)
    BY <1>1, <1>2 DEF n
  <2>2. evq'[k] = evq[k + 1] /\ evq'[k + 1] = evq[k + 1 + 1]
    BY <1>2, <2>1
  <2> QED BY <2>1, <2>2 DEF EdgesQueued, Opens
<1>5. evq' # <<>> => evq'[Len(evq')] = evq[n]
  BY <1>1, <1>2
<1>6. EdgesQueued'
  <2>1. (\A k \in 1..(Len(evq) - 1) :
          /\ Opens(k) <=> ~Opens(k + 1)
          /\ Opens(k) => evq[k + 1].ep = evq[k].ep)'
    BY <1>4 DEF Opens
  <2>2. evq' # <<>> => (Opens(Len(evq)) <=> MarkerThere)' /\ evq'[Len(evq')].ep = episode'
    BY <1>5 DEF Opens, EdgesQueued, n, MarkerThere
  <2>3. ~watched' => evq' = <<>>
    BY DEF EdgesQueued
  <2> QED BY <1>3, <2>1, <2>2, <2>3 DEF EdgesQueued
<1>7. Head(evq).file = "motion_alarm" /\ Head(evq).op \in {"create", "delete"}
  BY <1>1 DEF EdgesQueued, Event, n
<1>8. CASE n = 1
  BY <1>1, <1>2, <1>6, <1>7, <1>8 DEF EdgesQueued, MotionOpen, OpenEpisode, Opens,
                                      MarkerThere, n
<1>9. CASE n > 1
  <2>1. evq'[1] = evq[2] /\ evq' # <<>> /\ 1 \in 1..(Len(evq) - 1)
    BY <1>1, <1>2, <1>9 DEF n
  <2>2. (Opens(1) <=> ~Opens(2)) /\ (Opens(1) => evq[2].ep = evq[1].ep)
    BY <2>1 DEF EdgesQueued
  <2> QED BY <1>1, <1>6, <1>7, <2>1, <2>2 DEF MotionOpen, OpenEpisode, Opens
<1> QED BY <1>1, <1>8, <1>9

\* The detector's steps leave the bus alone, or move one edge onto it.
LEMMA MdEdge ==
  ASSUME BusTypeOK, MdNext
  PROVE  \/ UNCHANGED busVars
         \/ \E op \in {"create", "delete"} :
              /\ op = "create" <=> ~MarkerThere
              /\ op = "create" <=> MarkerThere'
              /\ op = "delete" => episode' = episode
              /\ UNCHANGED watched
              /\ evq' = IF watched
                        THEN Append(evq, [op |-> op, file |-> "motion_alarm",
                                          ep |-> episode'])
                        ELSE evq
<1>1. UNCHANGED busVars \/ Touch("motion_alarm") \/ Unlink("motion_alarm")
  BY DEF MdNext, MdTick, MdStart, MdSeed, MdMoved, MdStill, MdExit, MdCrash, SceneChange,
         Second
<1>2. CASE Touch("motion_alarm") /\ ~MarkerThere
  <2>1. "create" = "create" <=> MarkerThere'
    BY <1>2 DEF Touch, MarkerThere
  <2> QED BY <1>2, <2>1 DEF Touch, MarkerThere
<1>3. CASE Unlink("motion_alarm") /\ MarkerThere
  <2>1. ~MarkerThere'
    BY <1>3 DEF Unlink, MarkerThere
  <2> QED BY <1>3, <2>1 DEF Unlink, MarkerThere
<1>4. CASE Touch("motion_alarm") /\ MarkerThere
  BY <1>4 DEF Touch, MarkerThere
<1>5. CASE Unlink("motion_alarm") /\ ~MarkerThere
  BY <1>5 DEF Unlink, MarkerThere, busVars
<1> QED BY <1>1, <1>2, <1>3, <1>4, <1>5

\* A step that touches neither the bus nor mqttv4 changes nothing of it.
LEMMA EdgesStay ==
  ASSUME EdgeInv, UNCHANGED <<busVars, mqttVars>>
  PROVE  EdgeInv'
BY DEF EdgeInv, EdgesQueued, Opens, MarkerThere, EdgeCalls, cb, Told, Unsent, OwnMotion,
       MotionOpen, OpenEpisode, Waiting, Starting, Stopping, FileListsExact, busVars, mqttVars

\* The detector's steps keep the edges in order.
LEMMA MdEdges ==
  ASSUME BusTypeOK, MqttInv, EdgeInv, MdNext, UNCHANGED mqttVars
  PROVE  EdgeInv'
<1>1. CASE UNCHANGED busVars
  BY <1>1, EdgesStay
<1>2. ASSUME NEW op \in {"create", "delete"},
             op = "create" <=> ~MarkerThere,
             op = "create" <=> MarkerThere',
             op = "delete" => episode' = episode,
             UNCHANGED watched,
             evq' = IF watched
                    THEN Append(evq, [op |-> op, file |-> "motion_alarm",
                                      ep |-> episode'])
                    ELSE evq
      PROVE  EdgeInv'
  <2>1. /\ UNCHANGED <<ino, call, cb, slot, faults, stale, shown, lists, Waiting>>
        /\ FileListsExact' /\ EdgeCalls'
    BY DEF mqttVars, EdgeInv, FileListsExact, EdgeCalls, cb, Waiting
  <2>2. CASE watched
    <3>1. /\ EdgesQueued' /\ evq' # <<>>
          /\ MotionOpen' <=> MotionOpen
          /\ MotionOpen => OpenEpisode' = OpenEpisode
      BY <1>2, <2>1, <2>2, EdgeAppended DEF EdgeInv
    <3>2. Told'
      BY <2>1, <2>2, <3>1 DEF EdgeInv, EdgesQueued, Told
    <3>3. faults' = {} => OwnMotion'
      BY <2>1, <3>1 DEF EdgeInv, OwnMotion, Starting, Stopping
    <3> QED BY <2>1, <3>1, <3>2, <3>3 DEF EdgeInv
  <2>3. CASE ~watched
    <3>1. evq = <<>> /\ evq' = <<>> /\ watched' = watched /\ ino # "poll"
      BY <1>2, <2>3 DEF EdgeInv, EdgesQueued
    <3>2. EdgesQueued' /\ Told'
      BY <1>2, <2>1, <2>3, <3>1 DEF EdgeInv, EdgesQueued, Told
    <3>3. cb.pc = "idle"
      BY <3>1 DEF MqttInv, SlotHeld, cb
    <3>4. faults' = {} => OwnMotion'
      BY <2>1, <3>1, <3>3 DEF EdgeInv, OwnMotion, Starting, Stopping
    <3> QED BY <2>1, <3>2, <3>4 DEF EdgeInv
  <2> QED BY <2>2, <2>3
<1> QED BY <1>1, <1>2, MdEdge

\* main, and the loss of the connection, do not touch them.
LEMMA MainEdges ==
  ASSUME MqttInv, EdgeInv, MainNext \/ Disconnect
  PROVE  EdgeInv'
<1>1. /\ UNCHANGED <<call, slot, lists, shown, stale, faults>> /\ UNCHANGED busVars
      /\ ino' = ino \/ (ino = "none" /\ ino' = "watch")
  BY DEF MainNext, Start, Connect, IpcInit, InstallCallback, Reconnect, Disconnect,
         MqttInv, Installing
<1> QED BY <1>1 DEF EdgeInv, EdgesQueued, Opens, MarkerThere, EdgeCalls, cb, Told, Unsent,
              OwnMotion, MotionOpen, OpenEpisode, Waiting, Starting, Stopping, FileListsExact, busVars

\* A process that is gone has read nothing and told nobody.
LEMMA GoneEdges ==
  ASSUME MqttInv, EdgeInv, Killed \/ InoWild
  PROVE  EdgeInv'
<1>1. Gone
  BY DEF Killed, InoWild, WildCall
<1>2. /\ ino' = "none" /\ watched' = FALSE /\ evq' = <<>> /\ stale' /\ lists' = {}
      /\ cb' = Idle /\ \A i \in Slots : slot'[i].running = "available"
  BY <1>1 DEF Gone, cb, Thread, Free
<1>3. EdgesQueued'
  <2>1. Len(<<>>) = 0
    OBVIOUS
  <2> QED BY <1>2, <2>1 DEF EdgesQueued
<1>4. cb'.pc = "idle" /\ Waiting' = {}
  BY <1>2 DEF Idle, Waiting
<1>5. EdgeCalls' /\ Told' /\ OwnMotion' /\ FileListsExact'
  BY <1>2, <1>4 DEF EdgeCalls, Told, OwnMotion, Starting, Stopping, FileListsExact
<1> QED BY <1>3, <1>5 DEF EdgeInv

\* call_callback by the inotify thread: it is in the callback of the edge, or the edge
\* is lost.
LEMMA EdgeCalled ==
  ASSUME MqttInv, NEW msg \in {"motion_start", "motion_stop"}, NEW ep, NEW race,
         CallCallback("inotify", msg, ep, race)
  PROVE  \/ /\ cb' = [pc |-> IF msg = "motion_start" THEN "pick" ELSE "send",
                      msg |-> msg, ep |-> ep, ti |-> NoSlot]
            /\ faults' = faults \cup race /\ stale' = stale
         \/ cb' = cb /\ faults' # {} /\ stale'
<1>1. CASE Installed(msg)
  <2>1. "inotify" \in DOMAIN call
    BY MqTypeParts DEF MqttInv, MqCalls, Thread
  <2>2. msg \in Opening <=> msg = "motion_start"
    BY DEF Opening
  <2> QED BY <1>1, <2>1, <2>2 DEF CallCallback, cb
<1>2. CASE ~Installed(msg)
  BY <1>2 DEF CallCallback, cb, OnMotionTopic, Opening
<1> QED BY <1>1, <1>2

\* Reading the edges, and the look at the marker before, keep them in order.
LEMMA InotifyEdges ==
  ASSUME BusTypeOK, MqttInv, EdgeInv, InoWatch \/ InoStat \/ InoEvent
  PROVE  EdgeInv'
<1>1. UNCHANGED <<slot, lists, shown, files, episode>>
  BY DEF InoWatch, InoStat, InoEvent, InoRest
<1>2. Waiting' = Waiting /\ FileListsExact'
  <2>1. faults' = {} => faults = {}
    BY DEF InoWatch, InoStat, InoEvent, InoRest, CallCallback
  <2> QED BY <1>1, <2>1 DEF Waiting, EdgeInv, FileListsExact
<1>3. MarkerThere' = MarkerThere
  BY <1>1 DEF MarkerThere
<1>4. CASE InoWatch
  <2>1. /\ ino = "watch"
        /\ \/ ino' = "stat" /\ watched' = TRUE
           \/ ino' = "gone" /\ watched' = watched
        /\ UNCHANGED <<call, stale, faults, evq>>
    BY <1>4 DEF InoWatch
  <2>2. EdgesQueued' /\ EdgeCalls' /\ Told'
    BY <1>1, <1>3, <2>1 DEF EdgeInv, EdgesQueued, Opens, EdgeCalls, Told, cb
  <2>3. cb'.pc = "idle"
    BY <2>1 DEF MqttInv, SlotHeld, cb
  <2>4. faults' = {} => OwnMotion'
    BY <1>2, <2>1, <2>3 DEF EdgeInv, OwnMotion, Starting, Stopping
  <2> QED BY <1>2, <2>2, <2>4 DEF EdgeInv
<1>5. CASE InoStat
  <2>1. ino = "stat" /\ ino' = "poll" /\ UNCHANGED <<evq, watched>>
    BY <1>5 DEF InoStat, InoRest
  <2>2. EdgesQueued'
    BY <1>1, <1>3, <2>1 DEF EdgeInv, EdgesQueued, Opens
  <2>3. cb.pc = "idle"
    BY <2>1 DEF MqttInv, SlotHeld, cb
  <2>4. faults = {} => Waiting = {}
    BY <2>1 DEF EdgeInv, OwnMotion
  <2>5. ~stale => shown = "none"
    BY <2>1 DEF EdgeInv, Told
  <2> DEFINE queued == \E k \in 1..Len(evq) : /\ evq[k].op = "create"
                                              /\ evq[k].file = "motion_alarm"
  <2>6. MarkerThere /\ ~queued => evq = <<>>
    <3> SUFFICES ASSUME MarkerThere, evq # <<>> PROVE queued
      OBVIOUS
    <3>1. Len(evq) \in 1..Len(evq)
      BY EmptySeq DEF BusTypeOK
    <3> QED BY <3>1 DEF EdgeInv, EdgesQueued, Opens
  <2>7. CASE MarkerThere
    <3>1. CallCallback("inotify", "motion_start", episode, IF queued THEN {"double"} ELSE {})
      BY <1>5, <2>7 DEF InoStat, MarkerThere
    <3> HIDE DEF queued
    <3>2. CASE /\ cb' = [pc |-> "pick", msg |-> "motion_start", ep |-> episode,
                         ti |-> NoSlot]
               /\ faults' = faults \cup (IF queued THEN {"double"} ELSE {})
      <4>1. EdgeCalls' /\ Told'
        BY <1>3, <2>1, <2>7, <3>2 DEF EdgeCalls, Told, Unsent
      <4>2. faults' = {} => faults = {} /\ evq = <<>>
        BY <2>6, <2>7, <3>2
      <4>3. faults' = {} => OwnMotion'
        BY <1>1, <1>2, <1>3, <2>1, <2>4, <2>7, <3>2, <4>2
           DEF OwnMotion, MotionOpen, OpenEpisode, Starting, Stopping
      <4> QED BY <1>2, <2>2, <4>1, <4>3 DEF EdgeInv
    <3>3. CASE cb' = cb /\ faults' # {} /\ stale'
      <4>1. EdgeCalls' /\ Told'
        BY <2>3, <3>3 DEF EdgeCalls, Told, Unsent
      <4> QED BY <1>2, <2>2, <3>3, <4>1 DEF EdgeInv
    <3> QED BY <3>1, <3>2, <3>3, EdgeCalled
  <2>8. CASE ~MarkerThere
    <3>1. UNCHANGED <<call, stale, faults>>
      BY <1>5, <2>8 DEF InoStat, MarkerThere
    <3>2. cb' = cb
      BY <3>1 DEF cb
    <3>3. EdgeCalls' /\ Told'
      BY <1>1, <1>3, <2>1, <2>3, <2>5, <2>8, <3>1, <3>2 DEF EdgeCalls, Told, Unsent
    <3>4. faults' = {} => OwnMotion'
      BY <1>2, <2>3, <2>4, <3>1, <3>2 DEF OwnMotion, Starting, Stopping
    <3> QED BY <1>2, <2>2, <3>3, <3>4 DEF EdgeInv
  <2> QED BY <2>7, <2>8
<1>6. CASE InoEvent
  <2>1. /\ ino = "poll" /\ ino' = "poll" /\ cb.pc = "idle" /\ evq # <<>> /\ evq' = Tail(evq)
        /\ watched' = watched
    BY <1>6 DEF InoEvent, InoRest, cb
  <2> DEFINE h == Head(evq)
             msg == IF h.op = "create" THEN "motion_start" ELSE "motion_stop"
  <2>2. /\ EdgesQueued'
        /\ h.file = "motion_alarm" /\ h.op \in {"create", "delete"}
        /\ h.op = "create" => ~MotionOpen /\ MotionOpen' /\ OpenEpisode' = h.ep
        /\ h.op = "delete" => MotionOpen /\ ~MotionOpen' /\ OpenEpisode = h.ep
        /\ evq' = <<>> => (h.op = "create" <=> MarkerThere)
    BY <1>1, <2>1, EdgeTaken DEF EdgeInv
  <2>3. CallCallback("inotify", msg, h.ep, {})
    BY <1>6, <2>2 DEF InoEvent
  <2> HIDE DEF h
  <2>4. CASE /\ cb' = [pc |-> IF msg = "motion_start" THEN "pick" ELSE "send",
                       msg |-> msg, ep |-> h.ep, ti |-> NoSlot]
             /\ faults' = faults
    <3>1. cb'.msg = msg /\ cb'.ep = h.ep /\ cb'.pc # "idle"
      BY <2>4
    <3>2. EdgeCalls'
      BY <2>4 DEF EdgeCalls
    <3>3. Told'
      BY <1>3, <2>1, <2>2, <2>4 DEF Told, Unsent
    <3>4. faults' = {} => OwnMotion'
      <4> SUFFICES ASSUME faults = {} PROVE OwnMotion'
        BY <2>4
      <4>1. OwnMotion /\ ~Starting /\ ~Stopping
        BY <2>1 DEF EdgeInv, Starting, Stopping
      <4>2. CASE h.op = "create"
        BY <1>1, <1>2, <2>1, <2>2, <2>4, <4>1, <4>2 DEF OwnMotion, Starting, Stopping
      <4>3. CASE h.op = "delete"
        BY <1>1, <1>2, <2>1, <2>2, <2>4, <4>1, <4>3 DEF OwnMotion, Starting, Stopping
      <4> QED BY <2>2, <4>2, <4>3
    <3> QED BY <1>2, <2>2, <3>2, <3>3, <3>4 DEF EdgeInv
  <2>5. CASE cb' = cb /\ faults' # {} /\ stale'
    <3>1. EdgeCalls' /\ Told'
      BY <2>1, <2>5 DEF EdgeCalls, Told, Unsent
    <3> QED BY <1>2, <2>2, <2>5, <3>1 DEF EdgeInv
  <2> QED BY <2>3, <2>4, <2>5, EdgeCalled
<1> QED BY <1>4, <1>5, <1>6

\* A slot that is looked for and not found is not there.
LEMMA ThreadIndexNone ==
  ASSUME NEW state, ThreadIndex(state) = NoSlot
  PROVE  \A i \in Slots : slot[i].running # state
<1> SUFFICES ASSUME NEW i \in Slots, slot[i].running = state PROVE FALSE
  OBVIOUS
<1> DEFINE S == {k \in Slots : slot[k].running = state}
<1>1. i \in S /\ S \subseteq Nat
  BY MqttAssumption
<1>2. ThreadIndex(state) = CHOOSE k \in S : \A j \in S : k <= j
  BY <1>1 DEF ThreadIndex
<1> HIDE DEF S
<1>3. \E k \in S : \A j \in S : k <= j
  BY <1>1, LeastOf
<1>4. ThreadIndex(state) \in Nat
  BY <1>1, <1>2, <1>3
<1> QED BY <1>4 DEF NoSlot

\* The callbacks keep the edges in order: an edge is published once, its slot is taken
\* and closed by the two callbacks of one motion.
LEMMA CallbackEdges ==
  ASSUME MqttInv, EdgeInv, CallbackStep("inotify")
  PROVE  EdgeInv'
<1>1. UNCHANGED <<ino, faults>> /\ UNCHANGED busVars
  BY DEF CallbackStep, PickSlot, MarkSlot, SendMessage, SendImage, SpawnFiles, CallRest
<1>2. /\ EdgesQueued' /\ MarkerThere' = MarkerThere /\ MotionOpen' = MotionOpen
      /\ OpenEpisode' = OpenEpisode /\ evq' = evq
  BY <1>1 DEF busVars, EdgeInv, EdgesQueued, Opens, MarkerThere, MotionOpen, OpenEpisode
<1>3. call \in [Thread -> CallType] /\ slot \in [Slots -> SlotType] /\ "inotify" \in Thread
  BY MqTypeParts DEF MqttInv, MqCalls, Thread
<1>4. cb.pc # "idle" => ino = "poll"
  BY DEF MqttInv, SlotHeld, cb
<1>5. EdgeCalls /\ Told /\ (faults = {} => OwnMotion) /\ FileListsExact
  BY DEF EdgeInv
<1>6. EdgeCalls' /\ Told' /\ (faults = {} => OwnMotion') /\ FileListsExact' => EdgeInv'
  BY <1>1, <1>2 DEF EdgeInv
<1>7. CASE PickSlot("inotify")
  <2>1. cb.pc = "pick" /\ UNCHANGED <<slot, lists, shown, stale>>
    BY <1>7 DEF PickSlot, At, cb
  <2>2. Waiting' = Waiting /\ FileListsExact'
    BY <1>1, <1>5, <2>1 DEF Waiting, FileListsExact
  <2>3. cb.msg = "motion_start" \/ cb.msg = "motion_stop"
    BY <1>5, <2>1 DEF EdgeCalls
  <2>4. cb.msg \in Opening <=> cb.msg = "motion_start"
    BY <2>3 DEF Opening
  <2> DEFINE ti == ThreadIndex(IF cb.msg \in Opening THEN "available" ELSE "waiting")
  <2>5. CASE cb.msg = "motion_start"
    <3>1. cb'.pc \in {"mark", "send"} /\ cb'.msg = cb.msg /\ cb'.ep = cb.ep
      BY <1>3, <1>7, <2>4, <2>5 DEF PickSlot, Goto, cb, CallType
    <3>2. EdgeCalls' /\ Told'
      BY <1>1, <1>2, <1>5, <2>1, <2>5, <3>1 DEF EdgeCalls, Told, Unsent
    <3>3. faults = {} => OwnMotion'
      BY <1>1, <1>2, <1>5, <2>1, <2>2, <2>5, <3>1 DEF OwnMotion, Starting, Stopping
    <3> QED BY <1>6, <2>2, <3>2, <3>3
  <2>6. CASE cb.msg = "motion_stop" /\ ti # NoSlot
    <3>1. cb'.pc = "spawn" /\ cb'.msg = cb.msg /\ cb'.ep = cb.ep
      BY <1>3, <1>7, <2>4, <2>6 DEF PickSlot, cb, CallType
    <3>2. EdgeCalls' /\ Told'
      BY <1>1, <1>2, <1>5, <2>1, <2>6, <3>1 DEF EdgeCalls, Told, Unsent
    <3>3. faults = {} => OwnMotion'
      BY <1>1, <1>2, <1>5, <2>1, <2>2, <2>6, <3>1 DEF OwnMotion, Starting, Stopping
    <3> QED BY <1>6, <2>2, <3>2, <3>3
  <2>7. CASE cb.msg = "motion_stop" /\ ti = NoSlot
    <3>1. cb'.pc = "idle"
      BY <1>3, <1>7, <2>4, <2>7 DEF PickSlot, Return, cb, Idle
    <3>2. Waiting = {}
      BY <2>4, <2>7, ThreadIndexNone DEF Waiting
    <3>3. EdgeCalls' /\ Told'
      BY <1>1, <1>2, <1>4, <1>5, <2>1, <2>7, <3>1 DEF EdgeCalls, Told, Unsent
    <3>4. faults = {} => OwnMotion'
      BY <2>2, <3>1, <3>2 DEF OwnMotion, Starting, Stopping
    <3> QED BY <1>6, <2>2, <3>3, <3>4
  <2> QED BY <2>3, <2>5, <2>6, <2>7
<1>8. CASE MarkSlot("inotify")
  <2> DEFINE ti == cb.ti
  <2>1. /\ cb.pc = "mark" /\ UNCHANGED <<lists, shown, stale>>
        /\ ti \in Slots
        /\ slot' = [slot EXCEPT ![ti].start = cb.ep, ![ti].running = "waiting"]
    BY <1>8 DEF MarkSlot, At, cb, MqttInv, SlotHeld
  <2>2. cb.msg = "motion_start"
    BY <1>5, <2>1 DEF EdgeCalls
  <2>3. cb'.pc = "send" /\ cb'.msg = cb.msg /\ cb'.ep = cb.ep
    BY <1>3, <1>8 DEF MarkSlot, Goto, cb, CallType
  <2> HIDE DEF ti
  <2>4. /\ slot'[ti].running = "waiting" /\ slot'[ti].start = cb.ep
        /\ \A i \in Slots \ {ti} : slot'[i] = slot[i]
    BY <1>3, <2>1 DEF SlotType
  <2>5. EdgeCalls' /\ Told'
    BY <1>1, <1>2, <1>4, <1>5, <2>1, <2>2, <2>3 DEF EdgeCalls, Told, Unsent
  <2>6. faults = {} => OwnMotion'
    <3> SUFFICES ASSUME faults = {} PROVE OwnMotion'
      OBVIOUS
    <3>1. OwnMotion /\ Starting
      BY <1>5, <2>1, <2>2 DEF Starting
    <3>2. Waiting = {}
      BY <2>1, <3>1 DEF OwnMotion
    <3>3. Waiting' = {ti}
      BY <2>1, <2>4, <3>2 DEF Waiting
    <3> QED BY <1>1, <1>2, <1>4, <2>1, <2>2, <2>3, <2>4, <3>1, <3>3
            DEF OwnMotion, Starting, Stopping
  <2>7. FileListsExact'
    BY <1>1, <1>5, <2>1, <2>4 DEF FileListsExact
  <2> QED BY <1>6, <2>5, <2>6, <2>7
<1>9. ASSUME NEW published \in BOOLEAN, SendMessage("inotify", published)
      PROVE  EdgeInv'
  <2>1. cb.pc = "send" /\ UNCHANGED <<slot, lists>>
    BY <1>9 DEF SendMessage, At, cb
  <2>2. Waiting' = Waiting /\ FileListsExact'
    BY <1>1, <1>5, <2>1 DEF Waiting, FileListsExact
  <2>3. cb.msg \in {"motion_start", "motion_stop"}
    BY <1>5, <2>1 DEF EdgeCalls
  <2>4. stale' \/ shown' = cb.msg
    BY <1>9, <2>3 DEF SendMessage, OnMotionTopic, Opening, cb
  <2>5. /\ cb'.msg = cb.msg /\ cb'.ep = cb.ep
        /\ cb'.pc = (IF cb.msg = "motion_start" THEN "image" ELSE "pick")
    BY <1>3, <1>9, <2>3 DEF SendMessage, Goto, cb, CallType, Opening
  <2>6. EdgeCalls'
    BY <2>3, <2>5 DEF EdgeCalls
  <2>7. Told'
    <3>1. ~Unsent' /\ (shown' = cb.msg => (shown' = "motion_start" <=> cb.msg = "motion_start"))
      BY <2>3, <2>5 DEF Unsent
    <3> QED BY <1>1, <1>2, <1>4, <1>5, <2>1, <2>4, <3>1 DEF Told, Unsent
  <2>8. faults = {} => OwnMotion'
    BY <1>1, <1>2, <1>5, <2>1, <2>2, <2>3, <2>5 DEF OwnMotion, Starting, Stopping
  <2> QED BY <1>6, <2>2, <2>6, <2>7, <2>8
<1>10. CASE SendImage("inotify")
  <2>1. cb.pc = "image" /\ UNCHANGED <<slot, lists, shown, stale>>
    BY <1>10 DEF SendImage, At, cb
  <2>2. cb'.pc = "idle" /\ cb.msg = "motion_start"
    BY <1>3, <1>5, <1>10, <2>1 DEF SendImage, Return, cb, Idle, EdgeCalls
  <2>3. Waiting' = Waiting /\ FileListsExact'
    BY <1>1, <1>5, <2>1 DEF Waiting, FileListsExact
  <2>4. EdgeCalls' /\ Told'
    BY <1>1, <1>2, <1>4, <1>5, <2>1, <2>2 DEF EdgeCalls, Told, Unsent
  <2>5. faults = {} => OwnMotion'
    BY <1>1, <1>2, <1>4, <1>5, <2>1, <2>2, <2>3 DEF OwnMotion, Starting, Stopping
  <2> QED BY <1>6, <2>3, <2>4, <2>5
<1>11. ASSUME NEW started \in BOOLEAN, SpawnFiles("inotify", started)
       PROVE  EdgeInv'
  <2> DEFINE ti == cb.ti
  <2>1. /\ cb.pc = "spawn" /\ UNCHANGED <<lists, shown, stale>>
        /\ ti \in Slots /\ slot[ti].running = "waiting"
    BY <1>11 DEF SpawnFiles, At, cb, MqttInv, SlotHeld
  <2>2. cb'.pc = "idle" /\ cb.msg = "motion_stop"
    BY <1>3, <1>5, <1>11, <2>1 DEF SpawnFiles, Return, cb, Idle, EdgeCalls
  <2>3. \/ slot' = [slot EXCEPT ![ti].stop = cb.ep, ![ti].running = "running"]
        \/ slot' = [slot EXCEPT ![ti] = Free]
    BY <1>11 DEF SpawnFiles, cb
  <2> HIDE DEF ti
  <2>4. /\ \A i \in Slots \ {ti} : slot'[i] = slot[i]
        /\ slot'[ti].running # "waiting"
        /\ slot'[ti].running = "running" => /\ slot'[ti].start = slot[ti].start
                                            /\ slot'[ti].stop = cb.ep
    BY <1>3, <2>1, <2>3 DEF SlotType, Free
  <2>5. EdgeCalls' /\ Told'
    BY <1>1, <1>2, <1>4, <1>5, <2>1, <2>2 DEF EdgeCalls, Told, Unsent
  <2>6. faults = {} => /\ OwnMotion /\ Stopping /\ Waiting = {ti}
                       /\ slot[ti].start = cb.ep
    BY <1>5, <2>1, <2>2 DEF OwnMotion, Waiting, Starting, Stopping
  <2>7. faults = {} => Waiting' = {}
    BY <2>1, <2>4, <2>6 DEF Waiting
  <2>8. faults = {} => OwnMotion'
    BY <2>2, <2>7 DEF OwnMotion, Starting, Stopping
  <2>9. FileListsExact'
    BY <1>1, <1>5, <2>1, <2>4, <2>6 DEF FileListsExact
  <2> QED BY <1>6, <2>5, <2>8, <2>9
<1> QED BY <1>7, <1>8, <1>9, <1>10, <1>11 DEF CallbackStep

\* So does the end of a worker: the list it publishes is that of its slot.
LEMMA WorkerEdges ==
  ASSUME MqttInv, EdgeInv, NEW i \in Slots, FilesDone(i)
  PROVE  EdgeInv'
<1>1. /\ UNCHANGED <<ino, faults, call, shown, stale>> /\ UNCHANGED busVars
      /\ slot' = [slot EXCEPT ![i] = Free] /\ worker[i] > 0
      /\ lists' \in {lists, lists \cup {<<slot[i].start, slot[i].stop>>}}
  BY DEF FilesDone, CallRest
<1>2. slot \in [Slots -> SlotType] /\ slot[i].running = "running"
  BY <1>1, MqTypeParts DEF MqttInv, MqCalls, OneWorkerPerSlot
<1>3. /\ slot'[i].running = "available" /\ \A j \in Slots \ {i} : slot'[j] = slot[j]
  BY <1>1, <1>2 DEF Free
<1>4. Waiting' = Waiting
  BY <1>2, <1>3 DEF Waiting
<1>5. \A j \in Waiting : slot'[j] = slot[j]
  BY <1>2, <1>3 DEF Waiting
<1>6. /\ EdgesQueued' /\ EdgeCalls' /\ Told'
      /\ MarkerThere' = MarkerThere /\ MotionOpen' = MotionOpen
      /\ OpenEpisode' = OpenEpisode /\ cb' = cb
  BY <1>1 DEF busVars, EdgeInv, EdgesQueued, Opens, MarkerThere, MotionOpen, OpenEpisode,
              EdgeCalls, cb, Told, Unsent
<1>7. faults' = {} => OwnMotion'
  BY <1>1, <1>4, <1>5, <1>6 DEF EdgeInv, OwnMotion, Starting, Stopping
<1>8. FileListsExact'
  BY <1>1, <1>2, <1>3 DEF EdgeInv, FileListsExact
<1> QED BY <1>6, <1>7, <1>8 DEF EdgeInv

\* At boot there is no edge and no slot in use.
LEMMA InitEdges == Init => EdgeInv
<1> SUFFICES ASSUME Init PROVE EdgeInv
  OBVIOUS
<1>1. /\ ino = "none" /\ watched = FALSE /\ evq = <<>> /\ shown = "none" /\ lists = {}
      /\ cb = Idle /\ \A i \in Slots : slot[i].running = "available"
  BY DEF Init, BusInit, MqttInit, cb, Thread, Free
<1>2. cb.pc = "idle" /\ Waiting = {}
  BY <1>1 DEF Idle, Waiting
<1>3. Len(<<>>) = 0
  OBVIOUS
<1> QED BY <1>1, <1>2, <1>3 DEF EdgeInv, EdgesQueued, EdgeCalls, Told, OwnMotion, Starting,
                                Stopping, FileListsExact

\* Every step of either process keeps the edges in order.
LEMMA NextEdges == IInv /\ EdgeInv /\ [Next]_vars => EdgeInv'
<1> SUFFICES ASSUME IInv, EdgeInv, [Next]_vars PROVE EdgeInv'
  OBVIOUS
<1> USE DEF IInv
<1>1. CASE MdNext /\ UNCHANGED mqttVars
  BY <1>1, MdEdges
<1>2. CASE MotionNext
  BY <1>2, MainEdges, InotifyEdges, CallbackEdges, WorkerEdges, GoneEdges
     DEF MotionNext, InotifyNext
<1>3. CASE UNCHANGED vars
  BY <1>3, EdgesStay DEF vars
<1> QED BY <1>1, <1>2, <1>3 DEF Next

\* The edges are in order in every reachable state.
THEOREM EdgesInOrder == Spec => []EdgeInv
  BY InitEdges, NextEdges, Invariance, PTL DEF Spec

\* For every number of motions, crashes, restarts and lost connections: an inotify
\* thread that has caught up has told the broker the state the marker is in, unless
\* the edge could not be published.
THEOREM BrokerAgreement == Spec => []BrokerAgrees
<1>1. EdgeInv => BrokerAgrees
  BY DEF EdgeInv, Told, BrokerAgrees, Drained, Unsent, cb, MarkerThere
<1> QED BY <1>1, EdgesInOrder, PTL

\* For every number of slots and motions: a list of recordings is that of one motion,
\* from its start to its stop, as long as neither startup race was met.
THEOREM ListsExact == Spec => []FileListsExact
<1>1. EdgeInv => FileListsExact
  BY DEF EdgeInv
<1> QED BY <1>1, EdgesInOrder, PTL

\* And at most one slot waits for a stop.
THEOREM OneOpen == Spec => []OneOpenMotion
<1>1. EdgeInv => OneOpenMotion
  <2> SUFFICES ASSUME EdgeInv, faults = {} PROVE Cardinality(Waiting) <= 1
    BY DEF OneOpenMotion, Waiting
  <2>1. \A i, j \in Waiting : i = j
    BY DEF EdgeInv, OwnMotion
  <2>2. CASE Waiting = {}
    BY <2>2, FS_EmptySet
  <2>3. CASE Waiting # {}
    <3>1. PICK i : Waiting = {i}
      BY <2>1, <2>3
    <3> QED BY <3>1, FS_Singleton
  <2> QED BY <2>2, <2>3
<1> QED BY <1>1, EdgesInOrder, PTL
=============================================================================
