-------------------------- MODULE StockEventsProofs --------------------------
(***************************************************************************)
(* Proofs about the stock pipeline, for any messages dispatch sends, any   *)
(* queue length and any number of slots: every marker ipc2file leaves is   *)
(* accounted for, and with two threads of mqttv4 publishing on one topic,  *)
(* what the broker was told last of a motion is what the marker says.      *)
(***************************************************************************)
EXTENDS StockEvents, SequenceTheorems, WellFoundedInduction, TLAPS

USE BusAssumption, Ipc2fileAssumption, KindAssumption, MqttAssumption

-----------------------------------------------------------------------------
(* The bus *)

\* The markers ipc2file knows, by message.
LEMMA FileDomain ==
  /\ DOMAIN File = {"motion_start", "human", "vehicle", "animal", "baby", "sound"}
  /\ File["motion_start"] = "motion_alarm" /\ File["sound"] = "sound_detection"
  /\ \A k \in DOMAIN File : File[k] \in Marker
  BY DEF File

\* Creating a marker keeps the bus well-formed; what it queues is its creation.
LEMMA TouchBus ==
  ASSUME BusTypeOK, NEW m \in Marker, Touch(m)
  PROVE  /\ BusTypeOK' /\ files' = files \cup {m} /\ watched' = watched
         /\ \/ evq' = evq /\ (m \in files \/ ~watched)
            \/ /\ watched /\ m \notin files
               /\ \E e \in Event : e.op = "create" /\ e.file = m /\ evq' = Append(evq, e)
<1>1. CASE m \in files
  BY <1>1 DEF Touch, BusTypeOK, busVars
<1>2. CASE m \notin files
  <2>1. /\ m = "motion_alarm" => episode < MaxEpisodes
        /\ episode' = IF m = "motion_alarm" THEN episode + 1 ELSE episode
        /\ files' = files \cup {m} /\ watched' = watched
        /\ evq' = IF watched
                  THEN Append(evq, [op |-> "create", file |-> m, ep |-> episode'])
                  ELSE evq
    BY <1>2 DEF Touch
  <2>2. episode' \in 0..MaxEpisodes
    BY <2>1 DEF BusTypeOK
  <2>3. [op |-> "create", file |-> m, ep |-> episode'] \in Event
    BY <2>2 DEF Event
  <2>4. evq' \in Seq(Event)
    BY <2>1, <2>3 DEF BusTypeOK
  <2>5. BusTypeOK'
    BY <2>1, <2>2, <2>4 DEF BusTypeOK
  <2> QED BY <1>2, <2>1, <2>3, <2>5
<1> QED BY <1>1, <1>2

\* Removing one does, too.
LEMMA UnlinkBus ==
  ASSUME BusTypeOK, NEW m \in Marker, Unlink(m)
  PROVE  /\ BusTypeOK' /\ files' = files \ {m} /\ watched' = watched
         /\ \/ evq' = evq /\ (m \notin files \/ ~watched)
            \/ /\ watched /\ m \in files
               /\ \E e \in Event : e.op = "delete" /\ e.file = m /\ evq' = Append(evq, e)
<1>1. [op |-> "delete", file |-> m, ep |-> episode] \in Event
  BY DEF Event, BusTypeOK
<1>2. evq' \in Seq(Event)
  BY <1>1 DEF Unlink, BusTypeOK
<1>3. BusTypeOK'
  BY <1>2 DEF Unlink, BusTypeOK
<1> QED BY <1>1, <1>3 DEF Unlink

-----------------------------------------------------------------------------
(* ipc2file *)

\* What is inductive about ipc2file: before it reads there is no marker and no
\* timer, a sound never counts as the last alarm, and there are no more timers
\* than messages taken off the queue.
BridgeInv ==
  /\ I2fTypeOK
  /\ timers + Len(mq2) <= sent
  /\ i2f = "waiting" => files = {} /\ timers = 0
  /\ lastAlarm # "sound"
  /\ MarkersAccounted

\* The parts of its type invariant that do not concern numbers.
I2fNames ==
  /\ mq2 \in Seq(Kind)
  /\ overflowed \in BOOLEAN /\ noTimer \in BOOLEAN
  /\ i2f \in {"waiting", "running", "gone"}
  /\ lastAlarm \in Kind \cup {NoAlarm}
  /\ overtaken \subseteq Marker

I2fNums ==
  /\ sent \in 0..MaxMessages /\ timers \in Nat
  /\ Len(mq2) \in Nat /\ Len(mq2) <= QueueLen /\ timers + Len(mq2) <= sent

\* Together they are the type invariant and the bound on the timers.
LEMMA I2fTypeParts == I2fTypeOK /\ timers + Len(mq2) <= sent <=> I2fNames /\ I2fNums
<1>1. mq2 \in Seq(Kind) => Len(mq2) \in Nat
  OBVIOUS
<1>2. /\ sent \in 0..MaxMessages /\ timers \in 0..MaxMessages /\ Len(mq2) \in Nat
      /\ Len(mq2) <= QueueLen /\ timers + Len(mq2) <= sent
      <=> I2fNums
  BY DEF I2fNums
<1> QED BY <1>1, <1>2, Zenon DEF I2fTypeOK, I2fNames

\* And they are so after a step.
LEMMA I2fTypePartsPrime ==
  I2fNames' /\ I2fNums' => I2fTypeOK' /\ timers' + Len(mq2') <= sent'
<1>1. mq2' \in Seq(Kind) => Len(mq2') \in Nat
  OBVIOUS
<1>2. I2fNums' => /\ sent' \in 0..MaxMessages /\ timers' \in 0..MaxMessages
                  /\ Len(mq2') <= QueueLen /\ timers' + Len(mq2') <= sent'
  BY DEF I2fNums
<1> QED BY <1>1, <1>2, Zenon DEF I2fTypeOK, I2fNames

\* Taking the oldest message off the queue.
LEMMA TailMq2 ==
  ASSUME mq2 \in Seq(Kind), mq2 # <<>>
  PROVE  /\ Head(mq2) \in Kind /\ Tail(mq2) \in Seq(Kind)
         /\ Len(Tail(mq2)) = Len(mq2) - 1 /\ Len(mq2) >= 1
  BY HeadTailProperties, EmptySeq

\* A copy that is forwarded, or not.
LEMMA ForwardQueue ==
  ASSUME NEW S, NEW q \in Seq(S), NEW m \in S, Len(q) <= QueueLen
  PROVE  /\ Forward(q, m) \in Seq(S) /\ Len(Forward(q, m)) <= QueueLen
         /\ Len(Forward(q, m)) <= Len(q) + 1
<1>1. Len(q) \in Nat
  OBVIOUS
<1>2. CASE Len(q) < QueueLen
  <2>1. Append(q, m) \in Seq(S) /\ Len(Append(q, m)) = Len(q) + 1
    OBVIOUS
  <2> QED BY <1>1, <1>2, <2>1 DEF Forward
<1>3. CASE ~(Len(q) < QueueLen)
  BY <1>1, <1>3 DEF Forward
<1> QED BY <1>2, <1>3

\* The copy of a message for ipc2file.
LEMMA MultiplexStep ==
  ASSUME BridgeInv, NEW m \in Kind, Multiplex(m)
  PROVE  BridgeInv'
<1>1. I2fNames /\ I2fNums
  BY I2fTypeParts DEF BridgeInv
<1>2. /\ sent < MaxMessages /\ sent' = sent + 1 /\ mq2' = Forward(mq2, m)
      /\ overflowed' = (overflowed \/ Len(mq2) = QueueLen)
      /\ UNCHANGED <<i2f, lastAlarm, timers, noTimer, overtaken, files>>
  BY DEF Multiplex, busVars
<1>3. /\ mq2' \in Seq(Kind) /\ Len(mq2') <= QueueLen /\ Len(mq2') <= Len(mq2) + 1
  BY <1>1, <1>2, ForwardQueue DEF I2fNames, I2fNums
<1>4. I2fNums'
  BY <1>1, <1>2, <1>3 DEF I2fNums
<1>5. I2fNames'
  <2>1. (overflowed \/ Len(mq2) = QueueLen) \in BOOLEAN
    OBVIOUS
  <2> QED BY <1>1, <1>2, <1>3, <2>1, Zenon DEF I2fNames
<1>6. MarkersAccounted'
  BY <1>2 DEF BridgeInv, MarkersAccounted
<1> QED BY <1>2, <1>4, <1>5, <1>6, I2fTypePartsPrime DEF BridgeInv

\* ipc2file is started, or gives up.
LEMMA I2fStartStep ==
  ASSUME BridgeInv, NEW there, I2fStart(there)
  PROVE  BridgeInv'
<1>1. I2fNames /\ I2fNums
  BY I2fTypeParts DEF BridgeInv
<1>2. /\ i2f = "waiting" /\ i2f' \in {"running", "gone"} /\ mq2' = <<>>
      /\ UNCHANGED <<sent, overflowed, lastAlarm, timers, noTimer, overtaken, files>>
  BY DEF I2fStart, busVars
<1>3. <<>> \in Seq(Kind) /\ Len(<<>>) = 0
  BY EmptySeq
<1>4. I2fNums'
  BY <1>1, <1>2, <1>3 DEF I2fNums
<1>5. I2fNames'
  BY <1>1, <1>2, <1>3, Zenon DEF I2fNames
<1>6. MarkersAccounted' /\ i2f' # "waiting"
  BY <1>2 DEF BridgeInv, MarkersAccounted
<1> QED BY <1>2, <1>4, <1>5, <1>6, I2fTypePartsPrime DEF BridgeInv

\* Everything ipc2file does accounts for the markers it leaves.
LEMMA I2fStep ==
  ASSUME BridgeInv, BusTypeOK, I2fNext
  PROVE  BridgeInv'
<1>1. I2fNames /\ I2fNums
  BY I2fTypeParts DEF BridgeInv
<1>2. ASSUME i2f = "running", mq2 # <<>>, mq2' = Tail(mq2),
              UNCHANGED <<sent, overflowed, i2f>>,
             timers' \in {timers, timers + 1},
             noTimer' \in BOOLEAN, lastAlarm' \in Kind \cup {NoAlarm},
             overtaken' \subseteq Marker,
             lastAlarm' # "sound", MarkersAccounted'
      PROVE  BridgeInv'
  <2>1. /\ Tail(mq2) \in Seq(Kind) /\ Len(Tail(mq2)) = Len(mq2) - 1 /\ Len(mq2) >= 1
    BY <1>1, <1>2, TailMq2 DEF I2fNames
  <2>2. I2fNums'
    BY <1>1, <1>2, <2>1 DEF I2fNums
  <2>3. I2fNames'
    BY <1>1, <1>2, <2>1, Zenon DEF I2fNames
  <2> QED BY <1>2, <2>2, <2>3, I2fTypePartsPrime DEF BridgeInv
<1>3. mq2 # <<>> => Head(mq2) \in Kind
  BY <1>1, TailMq2 DEF I2fNames
<1>4. /\ lastAlarm # "sound"
      /\ i2f = "running" =>
           \A m \in files \ {"sound_detection"} :
             m \in overtaken \/ (lastAlarm \in DOMAIN File /\ m = File[lastAlarm])
  BY DEF BridgeInv, MarkersAccounted
<1>5. CASE I2fAlarm
  <2> DEFINE h == Head(mq2)
  <2>1. /\ i2f = "running" /\ mq2 # <<>> /\ h \in DOMAIN File \ {"sound"}
        /\ mq2' = Tail(mq2) /\ Touch(File[h]) /\ lastAlarm' = h
        /\ overtaken' = Overtaken(h)
        /\ UNCHANGED <<timers, noTimer, sent, overflowed, i2f>>
    BY <1>5 DEF I2fAlarm, I2fRest, After
  <2>2. h \in Kind /\ noTimer \in BOOLEAN
    BY <1>1, <1>3, <2>1, Zenon DEF I2fNames
  <2>3. files' = files \cup {File[h]}
    BY <2>1, TouchBus, FileDomain
  <2>4. Overtaken(h) = IF lastAlarm \in DOMAIN File /\ h # lastAlarm
                       THEN overtaken \cup {File[lastAlarm]} ELSE overtaken
    BY <2>1, FileDomain DEF Overtaken
  <2>5. overtaken' \subseteq Marker
    BY <1>1, <2>1, <2>4, FileDomain DEF I2fNames
  <2>6. MarkersAccounted'
    BY <1>4, <2>1, <2>3, <2>4 DEF MarkersAccounted
  <2> HIDE DEF h
  <2> QED BY <1>2, <2>1, <2>2, <2>5, <2>6
<1>6. ASSUME NEW started \in BOOLEAN, I2fSound(started) PROVE BridgeInv'
  <2>1. /\ i2f = "running" /\ mq2 # <<>> /\ mq2' = Tail(mq2) /\ Touch(File["sound"])
        /\ timers' \in {timers, timers + 1} /\ noTimer' = (noTimer \/ ~started)
        /\ lastAlarm' = lastAlarm /\ UNCHANGED <<overtaken, sent, overflowed, i2f>>
    BY <1>6 DEF I2fSound, I2fRest, After
  <2>2. noTimer' \in BOOLEAN
    <3>1. (noTimer \/ ~started) \in BOOLEAN
      OBVIOUS
    <3> QED BY <2>1, <3>1, Zenon
  <2>3. files' = files \cup {"sound_detection"}
    BY <2>1, TouchBus, FileDomain
  <2>4. MarkersAccounted'
    BY <1>4, <2>1, <2>3 DEF MarkersAccounted
  <2> QED BY <1>1, <1>2, <1>4, <2>1, <2>2, <2>4 DEF I2fNames
<1>7. CASE I2fNoFile
  <2>1. /\ i2f = "running" /\ mq2 # <<>> /\ mq2' = Tail(mq2)
        /\ UNCHANGED <<lastAlarm, timers, noTimer, overtaken, files, sent, overflowed, i2f>>
    BY <1>7 DEF I2fNoFile, I2fRest, busVars
  <2>2. MarkersAccounted'
    BY <1>4, <2>1 DEF MarkersAccounted
  <2>3. noTimer' \in BOOLEAN
    BY <1>1, <2>1, Zenon DEF I2fNames
  <2> QED BY <1>1, <1>2, <1>4, <2>1, <2>2, <2>3 DEF I2fNames
<1>8. CASE I2fStop
  <2>1. /\ i2f = "running" /\ mq2 # <<>> /\ Head(mq2) = "motion_stop"
        /\ mq2' = Tail(mq2) /\ lastAlarm' = "motion_stop"
        /\ UNCHANGED <<timers, noTimer, sent, overflowed, i2f>>
    BY <1>8 DEF I2fStop, I2fRest, After
  <2>2. noTimer' \in BOOLEAN /\ "motion_stop" \in Kind
    BY <1>1, <1>3, <2>1, Zenon DEF I2fNames
  <2>3. CASE lastAlarm \in DOMAIN File
    <3>1. /\ Unlink(File[lastAlarm]) /\ overtaken' = overtaken \ {File[lastAlarm]}
      BY <1>8, <2>3 DEF I2fStop
    <3>2. files' = files \ {File[lastAlarm]}
      BY <2>3, <3>1, UnlinkBus, FileDomain
    <3>3. MarkersAccounted'
      BY <1>4, <2>1, <3>1, <3>2 DEF MarkersAccounted
    <3> QED BY <1>1, <1>2, <2>1, <2>2, <3>1, <3>3 DEF I2fNames
  <2>4. CASE lastAlarm \notin DOMAIN File
    <3>1. UNCHANGED <<files, overtaken>>
      BY <1>8, <2>4 DEF I2fStop, busVars
    <3>2. MarkersAccounted'
      BY <1>4, <2>1, <2>4, <3>1 DEF MarkersAccounted
    <3> QED BY <1>1, <1>2, <2>1, <2>2, <3>1, <3>2 DEF I2fNames
  <2> QED BY <2>3, <2>4
<1>9. CASE SoundStop
  <2>1. /\ i2f = "running" /\ timers > 0 /\ timers' = timers - 1
        /\ Unlink("sound_detection")
        /\ UNCHANGED <<mq2, lastAlarm, noTimer, overtaken, sent, overflowed, i2f>>
    BY <1>9, FileDomain DEF SoundStop, I2fRest
  <2>2. files' = files \ {"sound_detection"}
    BY <2>1, UnlinkBus, FileDomain
  <2>3. MarkersAccounted'
    BY <1>4, <2>1, <2>2 DEF MarkersAccounted
  <2>4. I2fNums'
    BY <1>1, <2>1 DEF I2fNums
  <2>5. I2fNames'
    BY <1>1, <2>1, Zenon DEF I2fNames
  <2> QED BY <1>4, <2>1, <2>3, <2>4, <2>5, I2fTypePartsPrime DEF BridgeInv
<1>10. CASE I2fExit
  <2>1. /\ i2f' = "gone" /\ timers' = 0
        /\ UNCHANGED <<sent, mq2, overflowed, lastAlarm, noTimer, overtaken>>
    BY <1>10 DEF I2fExit
  <2>2. I2fNums'
    BY <1>1, <2>1 DEF I2fNums
  <2>3. I2fNames'
    BY <1>1, <2>1, Zenon DEF I2fNames
  <2>4. MarkersAccounted'
    BY <2>1 DEF MarkersAccounted
  <2> QED BY <1>4, <2>1, <2>2, <2>3, <2>4, I2fTypePartsPrime DEF BridgeInv
<1> QED BY <1>5, <1>6, <1>7, <1>8, <1>9, <1>10 DEF I2fNext, I2fProcess

\* What ipc2file does to the bus keeps it well-formed.
LEMMA I2fBus ==
  ASSUME BusTypeOK, I2fNext
  PROVE  BusTypeOK'
<1>1. UNCHANGED busVars \/ (\E m \in Marker : Touch(m) \/ Unlink(m))
  BY FileDomain
     DEF I2fNext, I2fProcess, I2fAlarm, I2fSound, I2fNoFile, I2fStop, SoundStop, I2fExit
<1>2. CASE UNCHANGED busVars
  BY <1>2 DEF busVars, BusTypeOK
<1> QED BY <1>1, <1>2, TouchBus, UnlinkBus

\* Nothing is on the bus at boot.
LEMMA InitBus == BusInit => BusTypeOK
<1> SUFFICES ASSUME BusInit PROVE BusTypeOK
  OBVIOUS
<1>1. <<>> \in Seq(Event)
  BY EmptySeq
<1>2. 0 \in 0..MaxEpisodes /\ {} \in SUBSET Marker
  OBVIOUS
<1> QED BY <1>1, <1>2, Zenon DEF BusInit, BusTypeOK

\* And ipc2file has not read anything.
LEMMA InitBridgeInv == BusInit /\ I2fInit => BridgeInv
<1> SUFFICES ASSUME BusInit, I2fInit PROVE BridgeInv
  OBVIOUS
<1>1. <<>> \in Seq(Kind) /\ Len(<<>>) = 0
  BY EmptySeq
<1>2. I2fNums
  BY <1>1 DEF I2fInit, I2fNums
<1>3. I2fNames
  BY <1>1, Zenon DEF I2fInit, I2fNames
<1>4. files = {} /\ timers = 0 /\ lastAlarm # "sound" /\ MarkersAccounted
  BY DEF BusInit, I2fInit, NoAlarm, MarkersAccounted
<1> QED BY <1>2, <1>3, <1>4, I2fTypeParts DEF BridgeInv

\* Every step of the bridge on its own.
LEMMA BridgeStep ==
  BusTypeOK /\ BridgeInv /\ [BridgeNext]_bridgeVars => BusTypeOK' /\ BridgeInv'
<1> SUFFICES ASSUME BusTypeOK, BridgeInv, [BridgeNext]_bridgeVars
             PROVE  BusTypeOK' /\ BridgeInv'
  OBVIOUS
<1>1. ASSUME NEW m \in Kind, Multiplex(m) PROVE BusTypeOK' /\ BridgeInv'
  BY <1>1, MultiplexStep DEF Multiplex, busVars, BusTypeOK
<1>2. ASSUME NEW there \in BOOLEAN, I2fStart(there) PROVE BusTypeOK' /\ BridgeInv'
  BY <1>2, I2fStartStep DEF I2fStart, busVars, BusTypeOK
<1>3. CASE I2fNext
  BY <1>3, I2fStep, I2fBus
<1>4. CASE UNCHANGED bridgeVars
  BY <1>4 DEF bridgeVars, busVars, i2fVars, BusTypeOK, BridgeInv, I2fTypeOK, MarkersAccounted
<1> QED BY <1>1, <1>2, <1>3, <1>4 DEF BridgeNext

\* The bus and ipc2file keep their types, for any queue length and any messages: the
\* timers never outnumber the messages read.
THEOREM BridgeTypes == BridgeSpec => [](BusTypeOK /\ I2fTypeOK)
<1>1. BridgeInit => BusTypeOK /\ BridgeInv
  BY InitBus, InitBridgeInv DEF BridgeInit
<1>2. BridgeInv => I2fTypeOK
  BY DEF BridgeInv
<1> QED BY <1>1, <1>2, BridgeStep, PTL DEF BridgeSpec

\* A marker other than the sound's is the one the next motion_stop removes, or its
\* alarm was overtaken by another kind: for any messages in any order, through full
\* queues and markers that could not be created.
THEOREM Accounted == BridgeSpec => []MarkersAccounted
<1>1. BridgeInit => BusTypeOK /\ BridgeInv
  BY InitBus, InitBridgeInv DEF BridgeInit
<1>2. BridgeInv => MarkersAccounted
  BY DEF BridgeInv
<1> QED BY <1>1, <1>2, BridgeStep, PTL DEF BridgeSpec

-----------------------------------------------------------------------------
(* mqttv4, with both reading threads *)

\* What a thread of mqttv4 holds of a call, and a slot of the motion's times.
CallType == [pc : {"idle", "pick", "mark", "send", "image", "spawn"},
             msg : Msg, ep : Stamp, ti : Slots \cup {NoSlot}]
SlotType == [running : {"available", "waiting", "running"}, start : Stamp, stop : Stamp]

\* The parts of mqttv4's type invariant, by what the provers need for them.
MqFlags ==
  /\ conn \in BOOLEAN /\ queueUp \in BOOLEAN
  /\ mqReady \in BOOLEAN /\ stale \in BOOLEAN

MqNames ==
  /\ main \in {"off", "connect", "ipc_init", "callbacks", "loop"}
  /\ ino \in {"none", "watch", "stat", "poll", "gone"}
  /\ mq \in Seq(Msg)
  /\ lists \in SUBSET (Stamp \X Stamp)
  /\ shown \in OnMotionTopic \cup {"none"}
  /\ faults \in SUBSET {"lost", "double"}

MqNums ==
  /\ ncb \in 0..Len(CallbackOrder)
  /\ restarts \in 0..MaxRestarts
  /\ drops \in 0..MaxDrops

MqCalls ==
  /\ call \in [Thread -> CallType]
  /\ slot \in [Slots -> SlotType]
  /\ worker \in [Slots -> Nat]

\* main starts the inotify thread and then installs the callbacks, up to the last.
Installing ==
  /\ main \in {"off", "connect", "ipc_init"} => ncb = 0 /\ ino = "none"
  /\ main = "callbacks" => ncb < Len(CallbackOrder)

\* A thread of mqttv4 in a callback was called for a message it reads, and works on a
\* slot; the inotify thread takes no callback before it polls.
ThreadCalls ==
  /\ ino # "poll" => call["inotify"].pc = "idle"
  /\ call["inotify"].pc # "idle" => call["inotify"].msg \in {"motion_start", "motion_stop"}
  /\ call["inotify"].pc \in {"mark", "image"} => call["inotify"].msg = "motion_start"
  /\ call["inotify"].pc = "spawn" => call["inotify"].msg = "motion_stop"
  /\ call["queue"].pc # "idle" => call["queue"].msg \in Queued
  /\ \A t \in Thread : call[t].pc \in {"mark", "spawn"} => call[t].ti \in Slots

\* The inductive invariant of mqttv4.
MqInv == MqFlags /\ MqNames /\ MqNums /\ MqCalls /\ Installing /\ ThreadCalls
         /\ Len(mq) <= QueueLen

\* It contains the type invariant.
LEMMA MqTypeParts == MqFlags /\ MqNames /\ MqNums /\ MqCalls => MqttTypeOK
  BY Zenon DEF MqttTypeOK, MqFlags, MqNames, MqNums, MqCalls, CallType, SlotType

\* There are eight callbacks.
LEMMA CallbackCount == Len(CallbackOrder) = 8
  BY DEF CallbackOrder

\* The messages by name, and those the queue thread calls a callback for.
LEMMA MsgNames ==
  /\ Msg = {"motion_start", "motion_stop", "human", "vehicle", "animal", "baby",
            "sound", "command"}
  /\ Queued = {"human", "vehicle", "animal", "baby", "sound"}
<1>1. Msg = {"motion_start", "motion_stop", "human", "vehicle", "animal", "baby",
             "sound", "command"}
  BY DEF Msg, CallbackOrder
<1> QED BY <1>1 DEF Queued

\* What dispatch sends is among them.
LEMMA KindMsg == Kind \subseteq Msg
  BY MsgNames, FileDomain

\* A callback that is not running and a slot that was handed back are of their types.
LEMMA IdleFree ==
  /\ Idle \in CallType /\ Idle.pc = "idle"
  /\ Free \in SlotType /\ Free.running = "available"
  BY MsgNames DEF Idle, Free, CallType, SlotType, Stamp, QueueStamp

\* A set of slot numbers has a least one, so get_thread_index returns a slot or none.
LEMMA ThreadIndexType ==
  ASSUME NEW state
  PROVE  ThreadIndex(state) \in Slots \cup {NoSlot}
<1> DEFINE S == {i \in Slots : slot[i].running = state}
<1>1. CASE S = {}
  BY <1>1 DEF ThreadIndex
<1>2. CASE S # {}
  <2>1. \E i \in S : \A j \in S : i <= j
    <3>1. S \subseteq Nat
      BY MqttAssumption
    <3> HIDE DEF S
    <3>2. PICK i \in S : \A j \in S : ~(<<j, i>> \in OpToRel(<, Nat))
      BY <1>2, <3>1, NatLessThanWellFounded, WFMin, Zenon
    <3>3. \A j \in S : ~(j < i)
      BY <3>1, <3>2 DEF OpToRel
    <3> QED BY <3>1, <3>3
  <2>2. ThreadIndex(state) = CHOOSE i \in S : \A j \in S : i <= j
    BY <1>2 DEF ThreadIndex
  <2>3. ThreadIndex(state) \in S
    BY <2>1, <2>2, Zenon
  <2> QED BY <2>3
<1> QED BY <1>1, <1>2

\* main's steps and the loss of the connection.
LEMMA MainStep ==
  ASSUME MqInv, MainNext \/ Disconnect
  PROVE  MqInv'
<1> USE DEF MqInv
<1>1. UNCHANGED <<call, slot, worker, mqReady, lists, shown, stale, faults, restarts>>
  BY DEF MainNext, Start, Connect, IpcInit, InstallCallback, Reconnect, Disconnect
<1>2. MqCalls' /\ ThreadCalls'
  <2>1. ino' = ino \/ ino = "none"
    BY DEF MainNext, Start, Connect, IpcInit, InstallCallback, Reconnect, Disconnect,
           Installing
  <2> QED BY <1>1, <2>1 DEF MqCalls, ThreadCalls
<1>3. MqFlags'
  BY Zenon DEF MqFlags, MainNext, Start, Connect, IpcInit, InstallCallback, Reconnect,
               Disconnect
<1>4. MqNames' /\ Len(mq') <= QueueLen
  <2>1. mq' \in Seq(Msg) /\ Len(mq') <= QueueLen
    <3>1. mq' = mq \/ mq' = <<>>
      BY DEF MainNext, Start, Connect, IpcInit, InstallCallback, Reconnect, Disconnect
    <3>2. <<>> \in Seq(Msg) /\ Len(<<>>) = 0
      BY EmptySeq
    <3>3. Len(mq) <= QueueLen /\ 0 <= QueueLen /\ mq \in Seq(Msg)
      BY DEF MqNames
    <3> QED BY <3>1, <3>2, <3>3, Zenon
  <2>2. /\ main' \in {"off", "connect", "ipc_init", "callbacks", "loop"}
        /\ ino' \in {"none", "watch", "stat", "poll", "gone"}
    BY DEF MqNames, MainNext, Start, Connect, IpcInit, InstallCallback, Reconnect, Disconnect
  <2> QED BY <1>1, <2>1, <2>2, Zenon DEF MqNames
<1>5. MqNums' /\ Installing'
  <2>1. CASE Start \/ Connect \/ IpcInit \/ Reconnect
    BY <2>1, CallbackCount DEF Start, Connect, IpcInit, Reconnect, MqNums, Installing
  <2>2. CASE InstallCallback
    BY <2>2, CallbackCount DEF InstallCallback, MqNums, Installing
  <2>3. CASE Disconnect
    BY <2>3, CallbackCount DEF Disconnect, MqNums, Installing
  <2> QED BY <2>1, <2>2, <2>3 DEF MainNext
<1> QED BY <1>2, <1>3, <1>4, <1>5

\* A process that is gone leaves mqttv4 as it was before it was started.
LEMMA GoneStep ==
  ASSUME MqInv, Gone, restarts' \in 0..MaxRestarts, mq' \in Seq(Msg), Len(mq') <= QueueLen
  PROVE  MqInv'
<1> USE DEF MqInv
<1>1. MqFlags'
  BY Zenon DEF Gone, MqFlags
<1>2. MqNames'
  BY DEF Gone, MqNames
<1>3. MqNums' /\ Installing'
  BY CallbackCount DEF Gone, MqNums, Installing
<1>4. MqCalls' /\ ThreadCalls'
  <2>1. /\ call' = [t \in Thread |-> Idle] /\ slot' = [i \in Slots |-> Free]
        /\ worker' = [i \in Slots |-> 0]
    BY DEF Gone
  <2>2. MqCalls'
    BY <2>1, IdleFree DEF MqCalls
  <2>3. ThreadCalls'
    BY <2>1, IdleFree DEF ThreadCalls, Thread
  <2> QED BY <2>2, <2>3
<1> QED BY <1>1, <1>2, <1>3, <1>4

\* call_callback by one of the two threads.
LEMMA CallbackCalled ==
  ASSUME MqInv, NEW t \in Thread, NEW msg \in Msg, NEW ep \in Stamp,
         NEW race \in SUBSET {"lost", "double"},
         CallCallback(t, msg, ep, race), UNCHANGED <<slot, worker>>,
         t = "inotify" => ino' = "poll" /\ msg \in {"motion_start", "motion_stop"},
         t = "queue" => ino' = ino /\ msg \in Queued
  PROVE  /\ MqCalls' /\ ThreadCalls'
         /\ stale' \in BOOLEAN /\ faults' \in SUBSET {"lost", "double"}
<1> USE DEF MqInv
<1>1. CASE Installed(msg)
  <2> DEFINE c == [pc |-> IF msg \in Opening THEN "pick" ELSE "send",
                   msg |-> msg, ep |-> ep, ti |-> NoSlot]
  <2>1. /\ call' = [call EXCEPT ![t] = c]
        /\ faults' = faults \cup race /\ stale' = stale
    BY <1>1 DEF CallCallback
  <2>2. c \in CallType /\ c.pc \notin {"mark", "spawn", "image"} /\ c.msg = msg
    BY DEF CallType
  <2>3. MqCalls' /\ ThreadCalls'
    <3> HIDE DEF c
    <3>1. MqCalls'
      BY <2>1, <2>2 DEF MqCalls
    <3>2. call'[t] = c /\ \A u \in Thread \ {t} : call'[u] = call[u]
      BY <2>1 DEF MqCalls
    <3>3. CASE t = "inotify"
      <4>1. call'["inotify"] = c /\ call'["queue"] = call["queue"] /\ ino' = "poll"
        BY <3>2, <3>3 DEF Thread
      <4>2. \A u \in Thread : call'[u].pc \in {"mark", "spawn"} => call'[u].ti \in Slots
        BY <2>2, <4>1 DEF ThreadCalls, Thread
      <4> QED BY <2>2, <3>1, <3>3, <4>1, <4>2 DEF ThreadCalls
    <3>4. CASE t = "queue"
      <4>1. call'["queue"] = c /\ call'["inotify"] = call["inotify"] /\ ino' = ino
        BY <3>2, <3>4 DEF Thread
      <4>2. \A u \in Thread : call'[u].pc \in {"mark", "spawn"} => call'[u].ti \in Slots
        BY <2>2, <4>1 DEF ThreadCalls, Thread
      <4> QED BY <2>2, <3>1, <3>4, <4>1, <4>2 DEF ThreadCalls
    <3> QED BY <3>1, <3>3, <3>4 DEF Thread
  <2>4. faults' \in SUBSET {"lost", "double"}
    BY <2>1 DEF MqNames
  <2> QED BY <2>1, <2>3, <2>4, Zenon DEF MqFlags
<1>2. CASE ~Installed(msg)
  <2>1. /\ stale' = (stale \/ msg \in OnMotionTopic)
        /\ faults' = faults \cup {"lost"} /\ call' = call
    BY <1>2 DEF CallCallback
  <2>2. MqCalls' /\ ThreadCalls'
    BY <2>1 DEF MqCalls, ThreadCalls, Thread
  <2>3. faults' \in SUBSET {"lost", "double"}
    BY <2>1 DEF MqNames
  <2>4. (stale \/ msg \in OnMotionTopic) \in BOOLEAN
    OBVIOUS
  <2> QED BY <2>1, <2>2, <2>3, <2>4, Zenon
<1> QED BY <1>1, <1>2

\* The steps of the two threads outside a callback.
LEMMA ReadStep ==
  ASSUME BusTypeOK, MqInv, InoWatch \/ InoStat \/ InoEvent \/ QueueReceive
  PROVE  MqInv'
<1> USE DEF MqInv
<1>1. /\ UNCHANGED <<main, ncb, conn, queueUp, mqReady, slot, worker, lists, shown,
                     restarts, drops>>
      /\ ino' \in {"none", "watch", "stat", "poll", "gone"}
  BY DEF InoWatch, InoStat, InoEvent, InoRest, QueueReceive, QueueRest, MqNames
<1>2. MqNums' /\ Installing'
  BY <1>1 DEF MqNums, Installing, InoWatch, InoStat, InoEvent, QueueReceive, QueueRest
<1>3. mq' \in Seq(Msg) /\ Len(mq') <= QueueLen
  <2>1. mq' = mq \/ (mq # <<>> /\ mq' = Tail(mq))
    BY DEF InoWatch, InoStat, InoEvent, InoRest, QueueReceive
  <2>2. mq # <<>> => Tail(mq) \in Seq(Msg) /\ Len(Tail(mq)) = Len(mq) - 1
    BY HeadTailProperties DEF MqNames
  <2>3. Len(mq) \in Nat
    BY DEF MqNames
  <2> QED BY <2>1, <2>2, <2>3 DEF MqNames
<1>4. MqCalls' /\ ThreadCalls' /\ stale' \in BOOLEAN /\ faults' \in SUBSET {"lost", "double"}
      => MqInv'
  BY <1>1, <1>2, <1>3, Zenon DEF MqFlags, MqNames
<1>5. CASE UNCHANGED <<call, stale, faults>> /\ (ino' = "poll" \/ ino' = ino \/ ino = "watch")
  <2>1. MqCalls' /\ ThreadCalls'
    BY <1>1, <1>5 DEF MqCalls, ThreadCalls, Thread
  <2> QED BY <1>4, <1>5, <2>1, Zenon DEF MqFlags, MqNames
<1>6. episode \in Stamp /\ QueueStamp \in Stamp /\ \A e \in Event : e.ep \in Stamp
  BY DEF BusTypeOK, Event, Stamp, QueueStamp
<1>7. ASSUME NEW t \in Thread, NEW msg \in Msg, NEW ep \in Stamp,
             NEW race \in SUBSET {"lost", "double"}, CallCallback(t, msg, ep, race),
             t = "inotify" => ino' = "poll" /\ msg \in {"motion_start", "motion_stop"},
             t = "queue" => ino' = ino /\ msg \in Queued
      PROVE  MqInv'
  BY <1>1, <1>4, <1>7, CallbackCalled
<1>8. CASE InoWatch
  BY <1>5, <1>8 DEF InoWatch
<1>9. CASE InoStat
  <2>1. CASE "motion_alarm" \in files
    <3>1. PICK race \in SUBSET {"lost", "double"} :
            CallCallback("inotify", "motion_start", episode, race)
      BY <1>9, <2>1 DEF InoStat
    <3> QED BY <1>6, <1>7, <1>9, <3>1, MsgNames DEF InoStat, Thread
  <2>2. CASE "motion_alarm" \notin files
    BY <1>5, <1>9, <2>2 DEF InoStat
  <2> QED BY <2>1, <2>2
<1>10. CASE InoEvent
  <2>1. CASE Head(evq).file = "motion_alarm"
    <3>1. Head(evq) \in Event
      BY <1>10, HeadTailProperties DEF InoEvent, BusTypeOK
    <3>2. PICK msg \in {"motion_start", "motion_stop"} :
            CallCallback("inotify", msg, Head(evq).ep, {})
      BY <1>10, <2>1 DEF InoEvent
    <3> QED BY <1>6, <1>7, <1>10, <3>1, <3>2, MsgNames DEF InoEvent, Thread
  <2>2. CASE Head(evq).file # "motion_alarm"
    BY <1>5, <1>10, <2>2 DEF InoEvent
  <2> QED BY <2>1, <2>2
<1>11. CASE QueueReceive
  <2>1. CASE Head(mq) \in Queued
    <3>1. CallCallback("queue", Head(mq), QueueStamp, {}) /\ ino' = ino
      BY <1>11, <2>1 DEF QueueReceive, QueueRest
    <3> QED BY <1>6, <1>7, <2>1, <3>1 DEF Thread, Queued
  <2>2. CASE Head(mq) \notin Queued
    BY <1>5, <1>11, <2>2 DEF QueueReceive, QueueRest
  <2> QED BY <2>1, <2>2
<1> QED BY <1>8, <1>9, <1>10, <1>11

\* How one of the two threads goes through its callback: what happens to its call, and
\* to what the broker is shown.
Moves(t, from, to) ==
  /\ call[t].pc = from /\ call'[t].pc = to
  /\ to # "idle" => call'[t].msg = call[t].msg

\* The steps of a callback, on either thread: only a message of the motion topic that
\* was published, or could not be, changes what the broker is taken to know.
LEMMA CallbackMoves ==
  ASSUME MqInv, NEW t \in Thread, CallbackStep(t)
  PROVE  /\ \A u \in Thread \ {t} : call'[u] = call[u]
         /\ \/ /\ \/ Moves(t, "pick", "mark") /\ call[t].msg \in Opening
                  \/ Moves(t, "pick", "spawn") /\ call[t].msg \notin Opening
                  \/ Moves(t, "pick", "send") /\ call[t].msg \in Opening
                  \/ Moves(t, "pick", "idle") /\ call[t].msg \notin Opening
                  \/ Moves(t, "mark", "send")
                  \/ Moves(t, "image", "idle")
                  \/ Moves(t, "spawn", "idle")
               /\ UNCHANGED <<shown, stale>>
            \/ /\ \/ Moves(t, "send", "image") /\ call[t].msg \in Opening
                  \/ Moves(t, "send", "pick") /\ call[t].msg = "motion_stop"
                  \/ Moves(t, "send", "idle") /\ call[t].msg \notin OnMotionTopic
               /\ IF call[t].msg \in OnMotionTopic
                  THEN stale' \in BOOLEAN /\ (stale' \/ shown' = call[t].msg)
                       /\ shown' \in {shown, call[t].msg}
                  ELSE UNCHANGED <<shown, stale>>
         /\ call' \in [Thread -> CallType]
         /\ call'[t].pc \in {"mark", "spawn"} => call'[t].ti \in Slots
<1>1. call \in [Thread -> CallType]
  BY DEF MqInv, MqCalls
<1>2. CASE PickSlot(t)
  <2> DEFINE opens == call[t].msg \in Opening
             ti == ThreadIndex(IF opens THEN "available" ELSE "waiting")
  <2>1. call[t].pc = "pick" /\ UNCHANGED <<shown, stale>>
    BY <1>2 DEF PickSlot, At
  <2>2. ti \in Slots \cup {NoSlot}
    BY ThreadIndexType
  <2>3. CASE ti # NoSlot
    <3>1. call' = [call EXCEPT ![t].ti = ti, ![t].pc = IF opens THEN "mark" ELSE "spawn"]
      BY <1>2, <2>3 DEF PickSlot
    <3> HIDE DEF ti
    <3>2. /\ \A u \in Thread \ {t} : call'[u] = call[u]
          /\ call'[t].ti = ti /\ call'[t].pc = (IF opens THEN "mark" ELSE "spawn")
          /\ call'[t].msg = call[t].msg /\ call' \in [Thread -> CallType]
      BY <1>1, <2>2, <3>1 DEF CallType
    <3> QED BY <2>1, <2>2, <2>3, <3>2 DEF Moves
  <2>4. CASE ti = NoSlot
    <3>1. call' = IF opens THEN [call EXCEPT ![t].pc = "send"] ELSE [call EXCEPT ![t] = Idle]
      BY <1>2, <2>4 DEF PickSlot, Goto, Return
    <3> HIDE DEF ti
    <3>2. /\ \A u \in Thread \ {t} : call'[u] = call[u]
          /\ call'[t].pc = (IF opens THEN "send" ELSE "idle")
          /\ opens => call'[t].msg = call[t].msg
          /\ call' \in [Thread -> CallType]
      BY <1>1, <3>1, IdleFree DEF CallType
    <3> QED BY <2>1, <3>2 DEF Moves
  <2> QED BY <2>3, <2>4
<1>3. CASE MarkSlot(t)
  <2>1. /\ call[t].pc = "mark" /\ UNCHANGED <<shown, stale>>
        /\ call' = [call EXCEPT ![t].pc = "send"]
    BY <1>3 DEF MarkSlot, At, Goto
  <2>2. /\ \A u \in Thread \ {t} : call'[u] = call[u]
        /\ call'[t].pc = "send" /\ call'[t].msg = call[t].msg
        /\ call' \in [Thread -> CallType]
    BY <1>1, <2>1 DEF CallType
  <2> QED BY <2>1, <2>2 DEF Moves
<1>4. ASSUME NEW published \in BOOLEAN, SendMessage(t, published)
      PROVE  /\ \A u \in Thread \ {t} : call'[u] = call[u]
             /\ \/ Moves(t, "send", "image") /\ call[t].msg \in Opening
                \/ Moves(t, "send", "pick") /\ call[t].msg = "motion_stop"
                \/ Moves(t, "send", "idle") /\ call[t].msg \notin OnMotionTopic
             /\ IF call[t].msg \in OnMotionTopic
                THEN stale' \in BOOLEAN /\ (stale' \/ shown' = call[t].msg)
                     /\ shown' \in {shown, call[t].msg}
                ELSE UNCHANGED <<shown, stale>>
             /\ call' \in [Thread -> CallType]
             /\ call'[t].pc \notin {"mark", "spawn"}
  <2>1. call[t].pc = "send"
    BY <1>4 DEF SendMessage, At
  <2>2. \/ call[t].msg \in Opening /\ call' = [call EXCEPT ![t].pc = "image"]
        \/ call[t].msg = "motion_stop" /\ call' = [call EXCEPT ![t].pc = "pick"]
        \/ call[t].msg \notin OnMotionTopic /\ call' = [call EXCEPT ![t] = Idle]
    BY <1>4 DEF SendMessage, Goto, Return, OnMotionTopic
  <2>3. IF call[t].msg \in OnMotionTopic
        THEN stale' \in BOOLEAN /\ (stale' \/ shown' = call[t].msg)
             /\ shown' \in {shown, call[t].msg}
        ELSE UNCHANGED <<shown, stale>>
    <3>1. (~published) \in BOOLEAN
      OBVIOUS
    <3>2. CASE call[t].msg \in OnMotionTopic
      <4>1. stale' = ~published /\ shown' = IF published THEN call[t].msg ELSE shown
        BY <1>4, <3>2 DEF SendMessage
      <4>2. stale' \in BOOLEAN
        BY <3>1, <4>1, Zenon
      <4>3. stale' \/ shown' = call[t].msg
        BY <4>1
      <4> QED BY <3>2, <4>1, <4>2, <4>3
    <3>3. CASE call[t].msg \notin OnMotionTopic
      BY <1>4, <3>3 DEF SendMessage
    <3> QED BY <3>2, <3>3
  <2>4. CASE call' = [call EXCEPT ![t] = Idle]
    <3>1. /\ \A u \in Thread \ {t} : call'[u] = call[u]
          /\ call'[t].pc = "idle" /\ call' \in [Thread -> CallType]
      BY <1>1, <2>4, IdleFree
    <3>2. call[t].msg \notin OnMotionTopic
      BY <1>1, <2>2, <2>4, <3>1 DEF CallType
    <3> QED BY <2>1, <2>3, <3>1, <3>2 DEF Moves
  <2>5. CASE call[t].msg \in Opening /\ call' = [call EXCEPT ![t].pc = "image"]
    <3>1. /\ \A u \in Thread \ {t} : call'[u] = call[u]
          /\ call'[t].pc = "image" /\ call'[t].msg = call[t].msg
          /\ call' \in [Thread -> CallType]
      BY <1>1, <2>5 DEF CallType
    <3> QED BY <2>1, <2>3, <2>5, <3>1 DEF Moves
  <2>6. CASE call[t].msg = "motion_stop" /\ call' = [call EXCEPT ![t].pc = "pick"]
    <3>1. /\ \A u \in Thread \ {t} : call'[u] = call[u]
          /\ call'[t].pc = "pick" /\ call'[t].msg = call[t].msg
          /\ call' \in [Thread -> CallType]
      BY <1>1, <2>6 DEF CallType
    <3> QED BY <2>1, <2>3, <2>6, <3>1 DEF Moves
  <2> QED BY <2>2, <2>4, <2>5, <2>6
<1>5. CASE SendImage(t)
  <2>1. /\ call[t].pc = "image" /\ UNCHANGED <<shown, stale>>
        /\ call' = [call EXCEPT ![t] = Idle]
    BY <1>5 DEF SendImage, At, Return
  <2>2. /\ \A u \in Thread \ {t} : call'[u] = call[u]
        /\ call'[t].pc = "idle" /\ call' \in [Thread -> CallType]
    BY <1>1, <2>1, IdleFree
  <2> QED BY <2>1, <2>2 DEF Moves
<1>6. ASSUME NEW started \in BOOLEAN, SpawnFiles(t, started)
      PROVE  /\ \A u \in Thread \ {t} : call'[u] = call[u]
             /\ Moves(t, "spawn", "idle") /\ UNCHANGED <<shown, stale>>
             /\ call' \in [Thread -> CallType] /\ call'[t].pc = "idle"
  <2>1. /\ call[t].pc = "spawn" /\ UNCHANGED <<shown, stale>>
        /\ call' = [call EXCEPT ![t] = Idle]
    BY <1>6 DEF SpawnFiles, At, Return
  <2>2. /\ \A u \in Thread \ {t} : call'[u] = call[u]
        /\ call'[t].pc = "idle" /\ call' \in [Thread -> CallType]
    BY <1>1, <2>1, IdleFree
  <2> QED BY <2>1, <2>2 DEF Moves
<1> QED BY <1>2, <1>3, <1>4, <1>5, <1>6 DEF CallbackStep

\* The callbacks of both threads, and the end of a worker, keep mqttv4's types.
LEMMA CallbackInv ==
  ASSUME MqInv, (\E t \in Thread : CallbackStep(t)) \/ (\E i \in Slots : FilesDone(i))
  PROVE  MqInv'
<1> USE DEF MqInv
<1>1. UNCHANGED <<main, ncb, conn, ino, queueUp, mqReady, mq, faults, restarts, drops>>
  BY DEF CallbackStep, PickSlot, MarkSlot, SendMessage, SendImage, SpawnFiles, FilesDone,
         CallRest
<1>2. MqNums' /\ Installing'
  BY <1>1 DEF MqNums, Installing
<1>3. /\ stale' \in BOOLEAN
      /\ shown' \in OnMotionTopic \cup {"none"}
      /\ lists' \in SUBSET (Stamp \X Stamp)
      /\ MqCalls' /\ ThreadCalls'
      => MqInv'
  BY <1>1, <1>2, Zenon DEF MqFlags, MqNames
<1>4. ASSUME NEW t \in Thread, CallbackStep(t) PROVE MqInv'
  <2>1. call' \in [Thread -> CallType]
    BY <1>4, CallbackMoves
  <2>2. stale' \in BOOLEAN /\ shown' \in OnMotionTopic \cup {"none"}
    <3>1. \/ UNCHANGED <<shown, stale>>
          \/ /\ call[t].msg \in OnMotionTopic /\ stale' \in BOOLEAN
             /\ shown' \in {shown, call[t].msg}
      BY <1>4, CallbackMoves
    <3>2. CASE UNCHANGED <<shown, stale>>
      BY <3>2, Zenon DEF MqFlags, MqNames
    <3>3. CASE /\ call[t].msg \in OnMotionTopic /\ stale' \in BOOLEAN
               /\ shown' \in {shown, call[t].msg}
      BY <3>3 DEF MqNames
    <3> QED BY <3>1, <3>2, <3>3
  <2>3. lists' = lists
    BY <1>4 DEF CallbackStep, PickSlot, MarkSlot, SendMessage, SendImage, SpawnFiles
  <2>4. slot' \in [Slots -> SlotType] /\ worker' \in [Slots -> Nat]
    <3>1. call[t].ep \in Stamp
      BY DEF MqCalls, CallType
    <3> DEFINE ti == call[t].ti
               ep == call[t].ep
    <3>2. \/ UNCHANGED <<slot, worker>>
          \/ /\ ti \in Slots
             /\ \/ slot' = [slot EXCEPT ![ti].start = ep, ![ti].running = "waiting"]
                \/ slot' = [slot EXCEPT ![ti].stop = ep, ![ti].running = "running"]
                \/ slot' = [slot EXCEPT ![ti] = Free]
             /\ worker' = worker \/ worker' = [worker EXCEPT ![ti] = @ + 1]
      <4>1. MarkSlot(t) \/ (\E started \in BOOLEAN : SpawnFiles(t, started)) => ti \in Slots
        BY DEF MarkSlot, SpawnFiles, At, ThreadCalls
      <4> QED BY <1>4, <4>1
              DEF CallbackStep, PickSlot, MarkSlot, SendMessage, SendImage, SpawnFiles
    <3> HIDE DEF ti, ep
    <3>3. slot' \in [Slots -> SlotType]
      <4>1. ep \in Stamp
        BY <3>1 DEF ep
      <4>2. CASE slot' = slot
        BY <4>2 DEF MqCalls
      <4>3. CASE ti \in Slots /\ slot' = [slot EXCEPT ![ti].start = ep, ![ti].running = "waiting"]
        BY <4>1, <4>3 DEF MqCalls, SlotType
      <4>4. CASE ti \in Slots /\ slot' = [slot EXCEPT ![ti].stop = ep, ![ti].running = "running"]
        BY <4>1, <4>4 DEF MqCalls, SlotType
      <4>5. CASE slot' = [slot EXCEPT ![ti] = Free]
        BY <4>5, IdleFree DEF MqCalls
      <4> QED BY <3>2, <4>2, <4>3, <4>4, <4>5
    <3>4. worker' \in [Slots -> Nat]
      <4>1. CASE worker' = worker
        BY <4>1 DEF MqCalls
      <4>2. CASE ti \in Slots /\ worker' = [worker EXCEPT ![ti] = @ + 1]
        <5>1. worker[ti] + 1 \in Nat
          BY <4>2 DEF MqCalls
        <5> QED BY <4>2, <5>1 DEF MqCalls
      <4> QED BY <3>2, <4>1, <4>2
    <3> QED BY <3>3, <3>4
  <2>5. ThreadCalls'
    <3>1. \A u \in Thread \ {t} : call'[u] = call[u]
      BY <1>4, CallbackMoves
    <3>2. \A u \in Thread : call'[u].pc \in {"mark", "spawn"} => call'[u].ti \in Slots
      BY <1>4, <3>1, CallbackMoves DEF ThreadCalls
    <3>3. CASE t = "inotify"
      <4>1. call'["queue"] = call["queue"]
        BY <3>1, <3>3 DEF Thread
      <4>2. \E from \in {"pick", "mark", "send", "image", "spawn"} :
              call["inotify"].pc = from
        BY <1>4, <3>3, CallbackMoves DEF Moves
      <4>3. call["inotify"].msg \in {"motion_start", "motion_stop"} /\ ino = "poll"
        BY <4>2 DEF ThreadCalls
      <4>4. call["inotify"].msg \in Opening <=> call["inotify"].msg = "motion_start"
        BY <4>3 DEF Opening
      <4>5. /\ call'["inotify"].pc # "idle" => call'["inotify"].msg = call["inotify"].msg
            /\ call'["inotify"].pc \in {"mark", "image"} =>
                 call["inotify"].msg = "motion_start"
            /\ call'["inotify"].pc = "spawn" => call["inotify"].msg = "motion_stop"
        BY <1>4, <3>3, <4>3, <4>4, CallbackMoves DEF Moves
      <4> QED BY <1>1, <3>2, <4>1, <4>3, <4>5 DEF ThreadCalls
    <3>4. CASE t = "queue"
      <4>1. call'["inotify"] = call["inotify"]
        BY <3>1, <3>4 DEF Thread
      <4>2. call["queue"].pc # "idle"
        BY <1>4, <3>4, CallbackMoves DEF Moves
      <4>3. call'["queue"].pc # "idle" => call'["queue"].msg = call["queue"].msg
        BY <1>4, <3>4, CallbackMoves DEF Moves
      <4> QED BY <1>1, <3>2, <4>1, <4>2, <4>3 DEF ThreadCalls
    <3> QED BY <3>3, <3>4 DEF Thread
  <2> QED BY <1>3, <2>1, <2>2, <2>3, <2>4, <2>5 DEF MqCalls, MqNames
<1>5. ASSUME NEW i \in Slots, FilesDone(i) PROVE MqInv'
  <2>1. /\ worker[i] > 0 /\ UNCHANGED <<call, shown, stale>>
        /\ slot' = [slot EXCEPT ![i] = Free]
        /\ worker' = [worker EXCEPT ![i] = @ - 1]
        /\ lists' \in {lists, lists \cup {<<slot[i].start, slot[i].stop>>}}
    BY <1>5 DEF FilesDone
  <2>2. slot[i].start \in Stamp /\ slot[i].stop \in Stamp
    BY DEF MqCalls, SlotType
  <2>3. lists' \in SUBSET (Stamp \X Stamp)
    BY <2>1, <2>2 DEF MqNames
  <2>4. MqCalls'
    <3>1. worker[i] - 1 \in Nat
      BY <2>1 DEF MqCalls
    <3>2. worker' \in [Slots -> Nat]
      BY <2>1, <3>1 DEF MqCalls
    <3>3. slot' \in [Slots -> SlotType]
      BY <2>1, IdleFree DEF MqCalls
    <3> QED BY <2>1, <3>2, <3>3 DEF MqCalls
  <2>5. ThreadCalls'
    BY <1>1, <2>1 DEF ThreadCalls, Thread
  <2> QED BY <1>3, <2>1, <2>3, <2>4, <2>5 DEF MqFlags, MqNames
<1> QED BY <1>4, <1>5

\* Every step of mqttv4.
LEMMA MqttStep ==
  ASSUME BusTypeOK, MqInv, MotionNext \/ QueueNext \/ QueueWild
  PROVE  MqInv'
<1>1. CASE MainNext \/ Disconnect
  BY <1>1, MainStep
<1>2. CASE InoWatch \/ InoStat \/ InoEvent \/ QueueReceive
  BY <1>2, ReadStep
<1>3. CASE (\E t \in Thread : CallbackStep(t)) \/ (\E i \in Slots : FilesDone(i))
  BY <1>3, CallbackInv
<1>4. CASE Killed \/ InoWild
  <2>1. Gone /\ mq' = mq /\ restarts' \in 0..MaxRestarts
    BY <1>4 DEF Killed, InoWild, WildCall, MqInv, MqNums
  <2> QED BY <2>1, GoneStep DEF MqInv, MqNames
<1>5. CASE QueueWild
  <2>1. Gone /\ mq # <<>> /\ mq' = Tail(mq) /\ restarts' = restarts
    BY <1>5 DEF QueueWild, WildCall
  <2>2. mq \in Seq(Msg) /\ restarts \in 0..MaxRestarts /\ Len(mq) <= QueueLen
    BY DEF MqInv, MqNames, MqNums
  <2>3. Tail(mq) \in Seq(Msg) /\ Len(Tail(mq)) = Len(mq) - 1 /\ Len(mq) \in Nat
    BY <2>1, <2>2, HeadTailProperties
  <2> QED BY <2>1, <2>2, <2>3, GoneStep
<1> QED BY <1>1, <1>2, <1>3, <1>4, <1>5 DEF MotionNext, InotifyNext, QueueNext, Thread

\* What mqttv4's steps do to the bus: they only take events off it.
LEMMA MqttBus ==
  ASSUME BusTypeOK, MotionNext \/ QueueNext \/ QueueWild
  PROVE  /\ BusTypeOK' /\ files' = files
         /\ UNCHANGED busVars \/ Gone \/ InoWatch \/ InoStat \/ InoEvent
<1>1. CASE UNCHANGED busVars
  BY <1>1 DEF busVars, BusTypeOK
<1>2. CASE Gone
  <2>1. evq' = <<>> /\ watched' = FALSE /\ UNCHANGED <<files, episode>>
    BY <1>2 DEF Gone
  <2>2. <<>> \in Seq(Event)
    BY EmptySeq
  <2> QED BY <1>2, <2>1, <2>2, Zenon DEF BusTypeOK
<1>3. CASE InoWatch
  BY <1>3 DEF InoWatch, BusTypeOK
<1>4. CASE InoStat
  BY <1>4 DEF InoStat, InoRest, BusTypeOK
<1>5. CASE InoEvent
  <2>1. evq # <<>> /\ evq' = Tail(evq) /\ UNCHANGED <<files, watched, episode>>
    BY <1>5 DEF InoEvent, InoRest
  <2>2. evq' \in Seq(Event)
    BY <2>1, HeadTailProperties DEF BusTypeOK
  <2> QED BY <1>5, <2>1, <2>2 DEF BusTypeOK
<1>6. MainNext \/ Disconnect => UNCHANGED busVars
  BY DEF MainNext, Start, Connect, IpcInit, InstallCallback, Reconnect, Disconnect
<1>7. (\E t \in Thread : CallbackStep(t)) \/ (\E i \in Slots : FilesDone(i))
      => UNCHANGED busVars
  BY DEF CallbackStep, PickSlot, MarkSlot, SendMessage, SendImage, SpawnFiles, FilesDone,
         CallRest
<1>8. Killed \/ InoWild \/ QueueWild => Gone
  BY DEF Killed, InoWild, QueueWild, WildCall
<1>9. QueueReceive => UNCHANGED busVars
  BY DEF QueueReceive, QueueRest
<1> QED BY <1>1, <1>2, <1>3, <1>4, <1>5, <1>6, <1>7, <1>8, <1>9
        DEF MotionNext, InotifyNext, QueueNext, Thread

-----------------------------------------------------------------------------
(* The edges of the motion among the events of all markers *)

\* The marker of a motion exists.
MarkerThere == "motion_alarm" \in files

\* The k-th queued event is an edge of it.
IsEdge(k) == evq[k].file = "motion_alarm"

\* No queued event is.
NoEdge == \A k \in 1..Len(evq) : ~IsEdge(k)

\* The last queued edge is the state the marker is in.
EdgesQueued ==
  /\ watched <=> ino \in {"stat", "poll"}
  /\ ~watched => evq = <<>>
  /\ \A k \in 1..Len(evq) :
       (IsEdge(k) /\ \A j \in (k + 1)..Len(evq) : ~IsEdge(j))
         => (evq[k].op = "create" <=> MarkerThere)

\* The call the inotify thread is in.
cb == call["inotify"]

\* The edge the inotify thread is in has not been published yet.
Unsent == cb.pc \in {"mark", "send"} \/ (cb.pc = "pick" /\ cb.msg = "motion_start")

\* With no edge queued, the edge about to be published, or else the last one that was,
\* is the state of the marker, whatever the queue thread published meanwhile.
Told ==
  IF ino = "poll"
  THEN NoEdge =>
         IF Unsent THEN cb.msg = "motion_start" <=> MarkerThere
         ELSE ~stale => /\ shown = "motion_start" => MarkerThere
                        /\ shown = "motion_stop" => ~MarkerThere
  ELSE stale \/ shown \notin {"motion_start", "motion_stop"}

\* An event that is queued keeps the last edge what the marker is.
LEMMA EventAppended ==
  ASSUME BusTypeOK, EdgesQueued, NEW e \in Event, watched, UNCHANGED <<watched, ino>>,
         evq' = Append(evq, e),
         IF e.file = "motion_alarm" THEN e.op = "create" <=> MarkerThere'
                                    ELSE MarkerThere' <=> MarkerThere
  PROVE  /\ EdgesQueued'
         /\ IF e.file = "motion_alarm" THEN ~NoEdge' ELSE NoEdge' => NoEdge
<1> DEFINE n == Len(evq)
<1>1. evq \in Seq(Event) /\ n \in Nat
  BY DEF BusTypeOK
<1>2. /\ Len(evq') = n + 1 /\ evq'[n + 1] = e
      /\ \A k \in 1..n : evq'[k] = evq[k]
  BY <1>1
<1>3. n + 1 \in 1..(n + 1)
  BY <1>1
<1> HIDE DEF n
<1>4. ASSUME NEW k \in 1..Len(evq'), evq'[k].file = "motion_alarm",
             \A j \in (k + 1)..Len(evq') : ~(evq'[j].file = "motion_alarm")
      PROVE  evq'[k].op = "create" <=> MarkerThere'
  <2>1. CASE k = n + 1
    BY <1>1, <1>2, <1>4, <2>1
  <2>2. CASE k # n + 1
    <3>1. k \in 1..n /\ n + 1 \in (k + 1)..Len(evq')
      BY <1>1, <1>2, <2>2
    <3>2. e.file # "motion_alarm"
      BY <1>2, <1>4, <3>1
    <3>3. \A j \in (k + 1)..n : evq'[j] = evq[j] /\ j \in (k + 1)..Len(evq')
      BY <1>1, <1>2, <3>1
    <3>4. evq[k].op = "create" <=> MarkerThere
      BY <1>2, <1>4, <3>1, <3>3 DEF EdgesQueued, IsEdge, n
    <3> QED BY <1>2, <3>1, <3>2, <3>4
  <2> QED BY <2>1, <2>2
<1>5. EdgesQueued'
  BY <1>4 DEF EdgesQueued, IsEdge
<1>6. IF e.file = "motion_alarm" THEN ~NoEdge' ELSE NoEdge' => NoEdge
  <2>1. CASE e.file = "motion_alarm"
    BY <1>2, <1>3, <2>1 DEF NoEdge, IsEdge
  <2>2. CASE e.file # "motion_alarm"
    BY <1>1, <1>2, <2>2 DEF NoEdge, IsEdge, n
  <2> QED BY <2>1, <2>2
<1> QED BY <1>5, <1>6

\* Reading the oldest event: when it was the last edge, it is the state of the marker.
LEMMA EventTaken ==
  ASSUME BusTypeOK, EdgesQueued, evq # <<>>, evq' = Tail(evq),
         UNCHANGED <<files, watched, ino>>
  PROVE  /\ EdgesQueued' /\ Head(evq) \in Event
         /\ NoEdge' => IF Head(evq).file = "motion_alarm"
                       THEN Head(evq).op = "create" <=> MarkerThere
                       ELSE NoEdge
<1> DEFINE n == Len(evq)
<1>1. evq \in Seq(Event) /\ n \in Nat /\ n >= 1 /\ Head(evq) = evq[1] /\ evq[1] \in Event
  BY EmptySeq DEF BusTypeOK
<1>2. Len(evq') = n - 1 /\ \A k \in 1..(n - 1) : evq'[k] = evq[k + 1]
  BY <1>1, HeadTailProperties
<1> HIDE DEF n
<1>3. ASSUME NEW k \in 1..Len(evq'), evq'[k].file = "motion_alarm",
             \A j \in (k + 1)..Len(evq') : ~(evq'[j].file = "motion_alarm")
      PROVE  evq'[k].op = "create" <=> MarkerThere'
  <2>1. k + 1 \in 1..n /\ evq'[k] = evq[k + 1]
    BY <1>1, <1>2
  <2>2. ASSUME NEW j \in ((k + 1) + 1)..n PROVE ~(evq[j].file = "motion_alarm")
    <3>1. j - 1 \in (k + 1)..Len(evq') /\ evq'[j - 1] = evq[(j - 1) + 1] /\ (j - 1) + 1 = j
      BY <1>1, <1>2
    <3> QED BY <1>3, <3>1
  <2>3. evq[k + 1].op = "create" <=> MarkerThere
    BY <1>3, <2>1, <2>2 DEF EdgesQueued, IsEdge, n
  <2> QED BY <2>1, <2>3 DEF MarkerThere
<1>4. EdgesQueued'
  <2>1. ~watched' => evq' = <<>>
    BY DEF EdgesQueued
  <2> QED BY <1>3, <2>1 DEF EdgesQueued, IsEdge
<1>5. ASSUME NoEdge'
      PROVE  IF Head(evq).file = "motion_alarm"
             THEN Head(evq).op = "create" <=> MarkerThere
             ELSE NoEdge
  <2>1. ASSUME NEW j \in 2..n PROVE ~(evq[j].file = "motion_alarm")
    <3>1. j - 1 \in 1..Len(evq') /\ evq'[j - 1] = evq[(j - 1) + 1] /\ (j - 1) + 1 = j
      BY <1>1, <1>2
    <3> QED BY <1>5, <3>1 DEF NoEdge, IsEdge
  <2>2. CASE evq[1].file = "motion_alarm"
    <3>1. 1 \in 1..n /\ 1 + 1 = 2
      BY <1>1
    <3> QED BY <1>1, <2>1, <2>2, <3>1 DEF EdgesQueued, IsEdge, n
  <2>3. CASE evq[1].file # "motion_alarm"
    <3>1. \A j \in 1..n : j = 1 \/ j \in 2..n
      BY <1>1
    <3> QED BY <1>1, <2>1, <2>3, <3>1 DEF NoEdge, IsEdge, n
  <2> QED BY <2>2, <2>3
<1> QED BY <1>1, <1>4, <1>5

\* ipc2file's steps keep the edges in order, and mqttv4 has read nothing for them.
LEMMA I2fEdges ==
  ASSUME BusTypeOK, EdgesQueued, Told, ThreadCalls, I2fNext \/ UNCHANGED busVars,
         UNCHANGED <<ino, call, stale, shown>>
  PROVE  EdgesQueued' /\ Told'
<1>1. UNCHANGED busVars \/ (\E m \in Marker : Touch(m) \/ Unlink(m))
  BY FileDomain
     DEF I2fNext, I2fProcess, I2fAlarm, I2fSound, I2fNoFile, I2fStop, SoundStop, I2fExit
<1>2. Unsent' <=> Unsent
  BY DEF Unsent, cb
<1>3. ASSUME MarkerThere' <=> MarkerThere, evq' = evq, watched' = watched
      PROVE  EdgesQueued' /\ Told'
  BY <1>2, <1>3 DEF EdgesQueued, Told, NoEdge, IsEdge, cb
<1>4. ASSUME NEW e \in Event, watched, watched' = watched, evq' = Append(evq, e),
             IF e.file = "motion_alarm" THEN e.op = "create" <=> MarkerThere'
                                        ELSE MarkerThere' <=> MarkerThere
      PROVE  EdgesQueued' /\ Told'
  <2>1. /\ EdgesQueued'
        /\ IF e.file = "motion_alarm" THEN ~NoEdge' ELSE NoEdge' => NoEdge
    BY <1>4, EventAppended
  <2> QED BY <1>2, <1>4, <2>1 DEF Told, cb
<1>5. ASSUME watched' = watched, evq' = evq, ~watched PROVE EdgesQueued' /\ Told'
  <2>1. evq = <<>> /\ ino # "poll"
    BY <1>5 DEF EdgesQueued
  <2>2. Len(<<>>) = 0
    OBVIOUS
  <2> QED BY <1>5, <2>1, <2>2 DEF EdgesQueued, Told
<1>6. CASE UNCHANGED busVars
  BY <1>3, <1>6 DEF busVars, MarkerThere
<1>7. ASSUME NEW m \in Marker, Touch(m) PROVE EdgesQueued' /\ Told'
  <2>1. /\ files' = files \cup {m} /\ watched' = watched
        /\ \/ evq' = evq /\ (m \in files \/ ~watched)
           \/ /\ watched /\ m \notin files
              /\ \E e \in Event : e.op = "create" /\ e.file = m /\ evq' = Append(evq, e)
    BY <1>7, TouchBus
  <2>2. CASE evq' = evq /\ m \in files
    BY <1>3, <2>1, <2>2 DEF MarkerThere
  <2>3. CASE evq' = evq /\ ~watched
    BY <1>5, <2>1, <2>3
  <2>4. CASE watched /\ \E e \in Event : e.op = "create" /\ e.file = m /\ evq' = Append(evq, e)
    BY <1>4, <2>1, <2>4 DEF MarkerThere
  <2> QED BY <2>1, <2>2, <2>3, <2>4
<1>8. ASSUME NEW m \in Marker, Unlink(m) PROVE EdgesQueued' /\ Told'
  <2>1. /\ files' = files \ {m} /\ watched' = watched
        /\ \/ evq' = evq /\ (m \notin files \/ ~watched)
           \/ /\ watched /\ m \in files
              /\ \E e \in Event : e.op = "delete" /\ e.file = m /\ evq' = Append(evq, e)
    BY <1>8, UnlinkBus
  <2>2. CASE evq' = evq /\ m \notin files
    BY <1>3, <2>1, <2>2 DEF MarkerThere
  <2>3. CASE evq' = evq /\ ~watched
    BY <1>5, <2>1, <2>3
  <2>4. CASE watched /\ \E e \in Event : e.op = "delete" /\ e.file = m /\ evq' = Append(evq, e)
    BY <1>4, <2>1, <2>4 DEF MarkerThere
  <2> QED BY <2>1, <2>2, <2>3, <2>4
<1> QED BY <1>1, <1>6, <1>7, <1>8

\* call_callback by the inotify thread: it is in the callback of the edge, or the edge
\* is lost.
LEMMA EdgeCalled ==
  ASSUME MqInv, NEW msg \in {"motion_start", "motion_stop"}, NEW ep, NEW race,
         CallCallback("inotify", msg, ep, race)
  PROVE  \/ /\ cb'.msg = msg
            /\ cb'.pc = (IF msg = "motion_start" THEN "pick" ELSE "send")
         \/ cb' = cb /\ stale'
<1>1. CASE Installed(msg)
  <2>1. "inotify" \in DOMAIN call
    BY DEF MqInv, MqCalls, Thread
  <2>2. msg \in Opening <=> msg = "motion_start"
    BY DEF Opening
  <2> QED BY <1>1, <2>1, <2>2 DEF CallCallback, cb
<1>2. CASE ~Installed(msg)
  BY <1>2 DEF CallCallback, cb, OnMotionTopic, Opening
<1> QED BY <1>1, <1>2

\* mqttv4's steps keep the edges in order: each is published once, by the inotify thread,
\* and what the queue thread publishes is not an edge.
LEMMA MqttEdges ==
  ASSUME BusTypeOK, MqInv, EdgesQueued, Told, MotionNext \/ QueueNext \/ QueueWild
  PROVE  EdgesQueued' /\ Told'
<1>1. ThreadCalls /\ "inotify" \in Thread /\ "queue" \in Thread
  BY DEF MqInv, Thread
<1>2. CASE MainNext \/ Disconnect
  <2>1. /\ UNCHANGED <<call, stale, shown>> /\ UNCHANGED busVars
        /\ ino' = ino \/ (ino = "none" /\ ino' = "watch")
    BY <1>2 DEF MainNext, Start, Connect, IpcInit, InstallCallback, Reconnect, Disconnect,
                MqInv, Installing
  <2> QED BY <2>1 DEF EdgesQueued, Told, NoEdge, IsEdge, Unsent, cb, MarkerThere, busVars
<1>3. CASE Gone
  <2>1. /\ ino' = "none" /\ watched' = FALSE /\ evq' = <<>> /\ stale'
    BY <1>3 DEF Gone
  <2>2. Len(<<>>) = 0
    OBVIOUS
  <2> QED BY <2>1, <2>2 DEF EdgesQueued, Told
<1>4. CASE InoWatch
  <2>1. /\ ino = "watch"
        /\ \/ ino' = "stat" /\ watched' = TRUE
           \/ ino' = "gone" /\ watched' = watched
        /\ UNCHANGED <<call, stale, shown, evq, files>>
    BY <1>4 DEF InoWatch
  <2> QED BY <2>1 DEF EdgesQueued, Told, IsEdge, MarkerThere
<1>5. CASE InoStat
  <2>1. ino = "stat" /\ ino' = "poll" /\ UNCHANGED <<evq, watched, files, shown>>
    BY <1>5 DEF InoStat, InoRest
  <2>2. EdgesQueued'
    BY <2>1 DEF EdgesQueued, IsEdge, MarkerThere
  <2>3. cb.pc = "idle" /\ (stale \/ shown \notin {"motion_start", "motion_stop"})
    BY <1>1, <2>1 DEF ThreadCalls, Told, cb
  <2>4. CASE MarkerThere
    <3>1. \E race : CallCallback("inotify", "motion_start", episode, race)
      BY <1>5, <2>4 DEF InoStat, MarkerThere
    <3>2. \/ cb'.msg = "motion_start" /\ cb'.pc = "pick"
          \/ cb' = cb /\ stale'
      BY <3>1, EdgeCalled
    <3> QED BY <2>1, <2>2, <2>3, <2>4, <3>2 DEF Told, Unsent, MarkerThere
  <2>5. CASE ~MarkerThere
    <3>1. UNCHANGED <<call, stale>>
      BY <1>5, <2>5 DEF InoStat, MarkerThere
    <3>2. cb' = cb
      BY <3>1 DEF cb
    <3> QED BY <2>1, <2>2, <2>3, <3>1, <3>2 DEF Told, Unsent
  <2> QED BY <2>4, <2>5
<1>6. CASE InoEvent
  <2>1. /\ ino = "poll" /\ ino' = "poll" /\ cb.pc = "idle" /\ evq # <<>> /\ evq' = Tail(evq)
        /\ UNCHANGED <<watched, files, shown>>
    BY <1>6 DEF InoEvent, InoRest, cb
  <2>2. /\ EdgesQueued' /\ Head(evq) \in Event
        /\ NoEdge' => IF Head(evq).file = "motion_alarm"
                      THEN Head(evq).op = "create" <=> MarkerThere
                      ELSE NoEdge
    BY <2>1, EventTaken
  <2>3. MarkerThere' <=> MarkerThere
    BY <2>1 DEF MarkerThere
  <2>4. CASE Head(evq).file = "motion_alarm"
    <3> DEFINE msg == IF Head(evq).op = "create" THEN "motion_start" ELSE "motion_stop"
    <3>1. CallCallback("inotify", msg, Head(evq).ep, {})
      BY <1>6, <2>4 DEF InoEvent
    <3>2. \/ /\ cb'.msg = msg
             /\ cb'.pc = (IF msg = "motion_start" THEN "pick" ELSE "send")
          \/ cb' = cb /\ stale'
      BY <3>1, EdgeCalled
    <3> QED BY <2>1, <2>2, <2>3, <2>4, <3>2 DEF Told, Unsent
  <2>5. CASE Head(evq).file # "motion_alarm"
    <3>1. UNCHANGED <<call, stale>>
      BY <1>6, <2>5 DEF InoEvent
    <3>2. cb' = cb
      BY <3>1 DEF cb
    <3> QED BY <2>1, <2>2, <2>3, <2>5, <3>1, <3>2 DEF Told, Unsent
  <2> QED BY <2>4, <2>5
<1>7. CASE QueueReceive
  <2>1. UNCHANGED <<ino, shown>> /\ UNCHANGED busVars
    BY <1>7 DEF QueueReceive, QueueRest
  <2>2. cb' = cb /\ (stale => stale')
    <3>1. "queue" # "inotify" /\ call \in [Thread -> CallType]
      BY DEF MqInv, MqCalls
    <3> QED BY <1>1, <1>7, <3>1 DEF QueueReceive, CallCallback, cb
  <2> QED BY <2>1, <2>2 DEF EdgesQueued, Told, NoEdge, IsEdge, Unsent, MarkerThere, busVars
<1>8. CASE \E i \in Slots : FilesDone(i)
  <2>1. UNCHANGED <<ino, shown, stale, call>> /\ UNCHANGED busVars
    BY <1>8 DEF FilesDone, CallRest
  <2> QED BY <2>1 DEF EdgesQueued, Told, NoEdge, IsEdge, Unsent, cb, MarkerThere, busVars
<1>9. ASSUME NEW t \in Thread, CallbackStep(t) PROVE EdgesQueued' /\ Told'
  <2>1. ino' = ino /\ UNCHANGED busVars
    BY <1>9 DEF CallbackStep, PickSlot, MarkSlot, SendMessage, SendImage, SpawnFiles, CallRest
  <2>2. EdgesQueued' /\ (MarkerThere' <=> MarkerThere) /\ (NoEdge' <=> NoEdge)
    BY <2>1 DEF EdgesQueued, NoEdge, IsEdge, MarkerThere, busVars
  <2>3. CASE t = "inotify"
    <3>1. cb.pc # "idle"
      BY <1>9, <2>3, CallbackMoves DEF Moves, cb
    <3>2. /\ ino = "poll" /\ cb.msg \in {"motion_start", "motion_stop"}
          /\ cb.pc \in {"mark", "image"} => cb.msg = "motion_start"
          /\ cb.pc = "spawn" => cb.msg = "motion_stop"
      BY <1>1, <3>1 DEF ThreadCalls, cb
    <3>3. cb.msg \in OnMotionTopic /\ (cb.msg \in Opening <=> cb.msg = "motion_start")
      BY <3>2 DEF OnMotionTopic, Opening
    <3>4. CASE cb.pc = "send"
      <4>1. /\ cb'.pc = (IF cb.msg = "motion_start" THEN "image" ELSE "pick")
            /\ cb'.msg = cb.msg /\ (stale' \/ shown' = cb.msg)
        BY <1>9, <2>3, <3>2, <3>3, <3>4, CallbackMoves DEF Moves, cb
      <4> QED BY <2>1, <2>2, <3>2, <3>4, <4>1 DEF Told, Unsent
    <3>5. CASE cb.pc # "send"
      <4>1. /\ UNCHANGED <<shown, stale>>
            /\ Unsent' <=> Unsent
            /\ Unsent => cb'.msg = cb.msg
        BY <1>9, <2>3, <3>2, <3>3, <3>5, CallbackMoves DEF Moves, cb, Unsent
      <4> QED BY <2>1, <2>2, <3>2, <4>1 DEF Told
    <3> QED BY <3>4, <3>5
  <2>4. CASE t = "queue"
    <3>1. cb' = cb
      BY <1>1, <1>9, <2>4, CallbackMoves DEF cb
    <3>2. call["queue"].msg \in Queued
      BY <1>1, <1>9, <2>4, CallbackMoves DEF ThreadCalls, Moves
    <3>3. call["queue"].msg \notin {"motion_start", "motion_stop"}
      BY <3>2 DEF Queued
    <3>4. \/ UNCHANGED <<shown, stale>>
          \/ stale' \/ shown' \notin {"motion_start", "motion_stop"}
      BY <1>9, <2>4, <3>3, CallbackMoves
    <3> QED BY <2>1, <2>2, <3>1, <3>4 DEF Told, Unsent
  <2> QED BY <2>3, <2>4 DEF Thread
<1>10. Killed \/ InoWild \/ QueueWild => Gone
  BY DEF Killed, InoWild, QueueWild, WildCall
<1> QED BY <1>1, <1>2, <1>3, <1>4, <1>5, <1>6, <1>7, <1>8, <1>9, <1>10
        DEF MotionNext, InotifyNext, QueueNext

-----------------------------------------------------------------------------
(* The pipeline as a whole *)

\* The inductive invariant of the composition.
StockInv == BusTypeOK /\ BridgeInv /\ MqInv /\ EdgesQueued /\ Told

\* Nothing has run at boot.
LEMMA InitStockInv == Init => StockInv
<1> SUFFICES ASSUME Init PROVE StockInv
  OBVIOUS
<1> USE DEF Init
<1>1. BusTypeOK /\ BridgeInv
  BY InitBus, InitBridgeInv
<1>2. <<>> \in Seq(Msg) /\ Len(<<>>) = 0
  BY EmptySeq
<1>3. MqFlags
  BY Zenon DEF MqttInit, MqFlags
<1>4. MqNums /\ Installing
  BY CallbackCount DEF MqttInit, MqNums, Installing
<1>5. MqNames /\ Len(mq) <= QueueLen
  <2>1. MqNames
    BY <1>2, Zenon DEF MqttInit, MqNames
  <2>2. mq = <<>>
    BY DEF MqttInit
  <2> QED BY <1>2, <2>1, <2>2
<1>6. MqCalls /\ ThreadCalls
  <2>1. MqCalls
    BY IdleFree DEF MqttInit, MqCalls
  <2> QED BY <2>1, IdleFree DEF MqttInit, ThreadCalls, Thread
<1>7. EdgesQueued /\ Told
  BY <1>2 DEF BusInit, MqttInit, EdgesQueued, Told
<1> QED BY <1>1, <1>3, <1>4, <1>5, <1>6, <1>7 DEF StockInv, MqInv

\* What mqttv4 and the bus share with ipc2file is the bus; the rest stays.
LEMMA MqInvStays ==
  ASSUME MqInv, UNCHANGED mqttVars
  PROVE  MqInv'
  BY DEF MqInv, mqttVars, MqFlags, MqNames, MqNums, MqCalls, Installing, ThreadCalls

\* Whoever leaves ipc2file and its queue alone keeps its invariant.
LEMMA BridgeInvStays ==
  ASSUME BridgeInv, UNCHANGED <<files, i2fVars>>
  PROVE  BridgeInv'
  BY DEF BridgeInv, i2fVars, I2fTypeOK, MarkersAccounted

\* Every step of the pipeline preserves the invariant.
LEMMA NextStockInv == StockInv /\ [Next]_vars => StockInv'
<1> SUFFICES ASSUME StockInv, [Next]_vars PROVE StockInv'
  OBVIOUS
<1> USE DEF StockInv
<1>0. ThreadCalls
  BY DEF MqInv
<1>1. CASE CreateQueues
  <2>1. UNCHANGED <<busVars, i2fVars, mq, mqttRest>> /\ mqReady' = TRUE
    BY <1>1 DEF CreateQueues
  <2>2. MqInv'
    <3>1. MqFlags'
      BY <2>1, Zenon DEF MqInv, MqFlags, mqttRest
    <3>2. MqNames' /\ MqNums' /\ MqCalls' /\ Installing' /\ ThreadCalls' /\ Len(mq') <= QueueLen
      BY <2>1 DEF MqInv, mqttRest, MqNames, MqNums, MqCalls, Installing, ThreadCalls
    <3> QED BY <3>1, <3>2 DEF MqInv
  <2>3. BusTypeOK' /\ BridgeInv'
    BY <2>1, BridgeInvStays DEF busVars, BusTypeOK
  <2>4. EdgesQueued' /\ Told'
    BY <1>0, <2>1, I2fEdges DEF mqttRest
  <2> QED BY <2>2, <2>3, <2>4
<1>2. ASSUME NEW m \in Kind, Dispatch(m) PROVE StockInv'
  <2>1. Multiplex(m) /\ mq' = Forward(mq, m) /\ UNCHANGED <<mqReady, mqttRest>>
        /\ UNCHANGED busVars
    BY <1>2 DEF Dispatch, Multiplex
  <2>2. mq' \in Seq(Msg) /\ Len(mq') <= QueueLen
    BY <2>1, KindMsg, ForwardQueue DEF MqInv, MqNames
  <2>3. MqInv'
    <3>1. MqFlags' /\ MqNames'
      BY <2>1, <2>2, Zenon DEF MqInv, MqFlags, MqNames, mqttRest
    <3>2. MqNums' /\ MqCalls' /\ Installing' /\ ThreadCalls'
      BY <2>1 DEF MqInv, mqttRest, MqNums, MqCalls, Installing, ThreadCalls
    <3> QED BY <2>2, <3>1, <3>2 DEF MqInv
  <2>4. BusTypeOK' /\ BridgeInv'
    BY <2>1, MultiplexStep DEF busVars, BusTypeOK
  <2>5. EdgesQueued' /\ Told'
    BY <1>0, <2>1, I2fEdges DEF mqttRest
  <2> QED BY <2>3, <2>4, <2>5
<1>3. CASE I2fStart(mqReady) /\ UNCHANGED mqttVars
  <2>1. UNCHANGED busVars
    BY <1>3 DEF I2fStart
  <2>2. BusTypeOK' /\ BridgeInv' /\ MqInv'
    BY <1>3, <2>1, I2fStartStep, MqInvStays DEF busVars, BusTypeOK
  <2>3. EdgesQueued' /\ Told'
    BY <1>0, <1>3, <2>1, I2fEdges DEF mqttVars
  <2> QED BY <2>2, <2>3
<1>4. CASE I2fNext /\ UNCHANGED mqttVars
  <2>1. BusTypeOK' /\ BridgeInv' /\ MqInv'
    BY <1>4, I2fStep, I2fBus, MqInvStays
  <2>2. EdgesQueued' /\ Told'
    BY <1>0, <1>4, I2fEdges DEF mqttVars
  <2> QED BY <2>1, <2>2
<1>5. CASE (MotionNext \/ QueueNext \/ QueueWild) /\ UNCHANGED i2fVars
  <2>1. BusTypeOK' /\ files' = files
    BY <1>5, MqttBus
  <2>2. BridgeInv' /\ MqInv'
    BY <1>5, <2>1, BridgeInvStays, MqttStep
  <2>3. EdgesQueued' /\ Told'
    BY <1>5, MqttEdges
  <2> QED BY <2>1, <2>2, <2>3
<1>6. CASE UNCHANGED vars
  <2>1. UNCHANGED <<busVars, i2fVars, mqttVars>>
    BY <1>6 DEF vars
  <2>2. BusTypeOK' /\ BridgeInv' /\ MqInv'
    BY <2>1, BridgeInvStays, MqInvStays DEF busVars, BusTypeOK
  <2>3. EdgesQueued' /\ Told'
    BY <1>0, <2>1, I2fEdges DEF mqttVars
  <2> QED BY <2>2, <2>3
<1> QED BY <1>1, <1>2, <1>3, <1>4, <1>5, <1>6 DEF Next

\* The invariant holds in every reachable state.
LEMMA StockInvariance == Spec => []StockInv
  BY InitStockInv, NextStockInv, PTL DEF Spec

\* dispatch's queues, ipc2file and both threads of mqttv4 stay within their types, for
\* any messages, queue lengths and slots: neither queue is ever longer than its limit.
THEOREM TypeCorrect == Spec => []TypeOK
<1>1. StockInv => TypeOK
  BY MqTypeParts DEF StockInv, TypeOK, BridgeInv, MqInv
<1> QED BY <1>1, StockInvariance, PTL

\* With both threads publishing on one topic, a motion_start or motion_stop that the
\* broker was told last agrees with the marker, for any number of slots and messages.
THEOREM BrokerAgreement == Spec => []BrokerAgrees
<1>1. StockInv => BrokerAgrees
  <2> SUFFICES ASSUME StockInv, ino = "poll", evq = <<>>, ~stale,
                      \A t \in Thread : call[t].pc = "idle"
               PROVE  /\ shown = "motion_start" => "motion_alarm" \in files
                      /\ shown = "motion_stop" => "motion_alarm" \notin files
    BY DEF BrokerAgrees
  <2>1. NoEdge
    BY DEF NoEdge
  <2>2. cb.pc = "idle"
    BY DEF cb, Thread
  <2> QED BY <2>1, <2>2 DEF StockInv, Told, Unsent, MarkerThere
<1> QED BY <1>1, StockInvariance, PTL

\* In the whole pipeline, too, every marker is accounted for: what mqttv4 does with the
\* events leaves them alone.
THEOREM StockAccounted == Spec => []MarkersAccounted
<1>1. StockInv => MarkersAccounted
  BY DEF StockInv, BridgeInv
<1> QED BY <1>1, StockInvariance, PTL
=============================================================================
