------------------------------- MODULE Mqttv4 -------------------------------
(***************************************************************************)
(* mqttv4, the daemon that turns camera events into MQTT messages.         *)
(*                                                                         *)
(*  - main connects to the broker, calls ipc_init, which starts up to two  *)
(*    threads, and only then installs the callbacks those threads call;    *)
(*  - the inotify thread watches /tmp/ipc, looks once whether motion_alarm *)
(*    exists already, then turns its creation and deletion into            *)
(*    callback_motion_start and callback_motion_stop;                      *)
(*  - the queue thread (stock mode only) reads dispatch's message queue;   *)
(*  - a motion_stop starts a detached send_files_list thread on one of     *)
(*    three slots, which 70 s later publishes the recordings of the motion *)
(*    and frees the slot.                                                  *)
(*                                                                         *)
(* A callback runs on the thread that read the event, in the steps between *)
(* which another thread can run.  time() is abstracted to the number of    *)
(* the motion (EventBus!episode) whose callback reads it.                  *)
(***************************************************************************)
EXTENDS EventBus, FiniteSets

CONSTANTS
  Slots,        \* the slots of filesThread, 0..2 in the code
  MaxRestarts,  \* bound: how often mqttv4 is stopped
  MaxDrops      \* bound: how often the broker connection is lost

ASSUME MqttAssumption ==
  /\ Slots \in SUBSET Nat /\ Slots # {}
  /\ MaxRestarts \in Nat
  /\ MaxDrops \in Nat

\* ipc_set_callback calls of main, in order.
CallbackOrder ==
  <<"motion_start", "motion_stop", "human", "vehicle", "animal", "baby", "sound",
    "command">>

Opening == {"motion_start", "human", "vehicle", "animal", "baby"}  \* take a slot
OnMotionTopic == Opening \cup {"motion_stop"}                      \* published on topic_motion
Msg == {CallbackOrder[i] : i \in 1..Len(CallbackOrder)}
Thread == {"inotify", "queue"}
QueueStamp == -1   \* the time at which the queue thread's callback ran
NoSlot == -1       \* get_thread_index found none
Stamp == QueueStamp..MaxEpisodes

VARIABLES
  main,      \* where main is
  ncb,       \* how many callbacks main has installed
  conn,      \* conn_state = CONN_CONNECTED
  ino,       \* where the inotify thread is; "gone": it could not watch
  queueUp,   \* the queue thread runs (ipc_mq_ok)
  mqReady,   \* dispatch has created the message queue
  mq,        \* the message queue /ipc_dispatch_1
  call,      \* the callback each thread is in
  slot,      \* filesThread
  worker,    \* how many send_files_list threads work on each slot
  lists,     \* the file lists published, as <<timeStart, timeStop>>
  shown,     \* the last message the broker got on topic_motion
  stale,     \* since then a motion edge was not published (history)
  faults,    \* startup races this process went through (history)
  restarts, drops

mqttVars == <<main, ncb, conn, ino, queueUp, mqReady, mq, call, slot, worker,
              lists, shown, stale, faults, restarts, drops>>

Idle == [pc |-> "idle", msg |-> "sound", ep |-> 0, ti |-> NoSlot]
Free == [running |-> "available", start |-> 0, stop |-> 0]

MqttTypeOK ==
  /\ main \in {"off", "connect", "ipc_init", "callbacks", "loop"}
  /\ ncb \in 0..Len(CallbackOrder)
  /\ conn \in BOOLEAN
  /\ ino \in {"none", "watch", "stat", "poll", "gone"}
  /\ queueUp \in BOOLEAN
  /\ mqReady \in BOOLEAN
  /\ mq \in Seq(Msg)
  /\ call \in [Thread -> [pc : {"idle", "pick", "mark", "send", "image", "spawn"},
                          msg : Msg, ep : Stamp, ti : Slots \cup {NoSlot}]]
  /\ slot \in [Slots -> [running : {"available", "waiting", "running"},
                         start : Stamp, stop : Stamp]]
  /\ worker \in [Slots -> Nat]
  /\ lists \in SUBSET (Stamp \X Stamp)
  /\ shown \in OnMotionTopic \cup {"none"}
  /\ stale \in BOOLEAN
  /\ faults \in SUBSET {"lost", "double"}
  /\ restarts \in 0..MaxRestarts
  /\ drops \in 0..MaxDrops

MqttInit ==
  /\ main = "off" /\ ncb = 0 /\ conn = FALSE
  /\ ino = "none" /\ queueUp = FALSE
  /\ mqReady = FALSE /\ mq = <<>>
  /\ call = [t \in Thread |-> Idle]
  /\ slot = [i \in Slots |-> Free]
  /\ worker = [i \in Slots |-> 0]
  /\ lists = {} /\ shown = "none" /\ stale = FALSE /\ faults = {}
  /\ restarts = 0 /\ drops = 0

-----------------------------------------------------------------------------
(* main *)

Start ==
  /\ main = "off"
  /\ main' = "connect"
  /\ UNCHANGED <<ncb, conn, ino, queueUp, mqReady, mq, call, slot, worker,
                 lists, shown, stale, faults, restarts, drops>>
  /\ UNCHANGED busVars

\* mqtt_connect blocks until the broker accepts.
Connect ==
  /\ main = "connect"
  /\ main' = "ipc_init"
  /\ conn' = TRUE
  /\ UNCHANGED <<ncb, ino, queueUp, mqReady, mq, call, slot, worker,
                 lists, shown, stale, faults, restarts, drops>>
  /\ UNCHANGED busVars

\* ipc_init: an absent message queue is tolerated, once and for all; one that
\* is there is emptied.
IpcInit ==
  /\ main = "ipc_init"
  /\ main' = "callbacks"
  /\ queueUp' = mqReady
  /\ mq' = <<>>
  /\ ino' = "watch"
  /\ UNCHANGED <<ncb, conn, mqReady, call, slot, worker, lists, shown, stale,
                 faults, restarts, drops>>
  /\ UNCHANGED busVars

\* One ipc_set_callback.
InstallCallback ==
  /\ main = "callbacks"
  /\ ncb' = ncb + 1
  /\ main' = IF ncb' = Len(CallbackOrder) THEN "loop" ELSE "callbacks"
  /\ UNCHANGED <<conn, ino, queueUp, mqReady, mq, call, slot, worker, lists,
                 shown, stale, faults, restarts, drops>>
  /\ UNCHANGED busVars

\* mqtt_check_connection in main's loop: mqtt_connect again.
Reconnect ==
  /\ main = "loop" /\ ~conn
  /\ conn' = TRUE
  /\ UNCHANGED <<main, ncb, ino, queueUp, mqReady, mq, call, slot, worker,
                 lists, shown, stale, faults, restarts, drops>>
  /\ UNCHANGED busVars

\* mqtt_loop finds the connection gone: disconnect_callback.
Disconnect ==
  /\ conn /\ main = "loop" /\ drops < MaxDrops
  /\ conn' = FALSE
  /\ drops' = drops + 1
  /\ UNCHANGED <<main, ncb, ino, queueUp, mqReady, mq, call, slot, worker,
                 lists, shown, stale, faults, restarts>>
  /\ UNCHANGED busVars

\* Everything a dead process takes with it.  What the broker shows stays, and
\* nobody is left to publish the end of a motion it shows.
Gone ==
  /\ main' = "off" /\ ncb' = 0 /\ conn' = FALSE
  /\ ino' = "none" /\ queueUp' = FALSE
  /\ call' = [t \in Thread |-> Idle]
  /\ slot' = [i \in Slots |-> Free]
  /\ worker' = [i \in Slots |-> 0]
  /\ lists' = {} /\ faults' = {} /\ stale' = TRUE
  /\ watched' = FALSE /\ evq' = <<>>
  /\ UNCHANGED <<files, episode, mqReady, shown, drops>>

\* The daemon is stopped or killed; it may be started again.
Killed ==
  /\ main # "off" /\ restarts < MaxRestarts
  /\ restarts' = restarts + 1
  /\ Gone
  /\ UNCHANGED mq

-----------------------------------------------------------------------------
(* Reading events: call_callback on the entry for msg.  ipc_callbacks is    *)
(* malloc'ed and never cleared, so an entry main has not set yet is NULL,   *)
(* and the event is ignored, or it is garbage, and the call kills mqttv4.   *)

Installed(msg) == \E k \in 1..ncb : CallbackOrder[k] = msg

CallCallback(t, msg, ep, race) ==
  IF Installed(msg)
  THEN /\ call' = [call EXCEPT ![t] =
                     [pc |-> IF msg \in Opening THEN "pick" ELSE "send",
                      msg |-> msg, ep |-> ep, ti |-> NoSlot]]
       /\ faults' = faults \cup race
       /\ UNCHANGED stale
  ELSE /\ stale' = (stale \/ msg \in OnMotionTopic)
       /\ faults' = faults \cup {"lost"}
       /\ UNCHANGED call

WildCall(msg) ==
  /\ ~Installed(msg)
  /\ Gone
  /\ UNCHANGED restarts

\* inotify_init1 and inotify_add_watch; when one fails the thread is over, and the
\* process goes on without it.
InoWatch ==
  /\ ino = "watch"
  /\ \/ ino' = "stat" /\ watched' = TRUE
     \/ ino' = "gone" /\ UNCHANGED watched
  /\ UNCHANGED <<main, ncb, conn, queueUp, mqReady, mq, call, slot, worker,
                 lists, shown, stale, faults, restarts, drops>>
  /\ UNCHANGED <<files, evq, episode>>

InoRest == /\ UNCHANGED <<main, ncb, conn, queueUp, mqReady, mq, slot, worker,
                          lists, shown, restarts, drops>>
           /\ UNCHANGED <<files, watched, episode>>

\* Mutant: the marker that is there already is not looked for.
InoStatSkipped ==
  /\ ino = "stat"
  /\ ino' = "poll"
  /\ UNCHANGED <<call, stale, faults, evq>>
  /\ InoRest

\* stat on the marker: a motion that is on already fires a start.  If it began
\* after the watch was added, its creation is in the queue as well.
InoStat ==
  /\ ino = "stat"
  /\ ino' = "poll"
  /\ IF "motion_alarm" \in files
     THEN LET queued == \E k \in 1..Len(evq) : /\ evq[k].op = "create"
                                               /\ evq[k].file = "motion_alarm"
          IN  CallCallback("inotify", "motion_start", episode,
                           IF queued THEN {"double"} ELSE {})
     ELSE UNCHANGED <<call, stale, faults>>
  /\ UNCHANGED evq
  /\ InoRest

\* One event of a batch.  Reading a batch at once and handling it one by one is
\* the same: only this thread takes from the queue.
InoEvent ==
  /\ ino = "poll" /\ call["inotify"].pc = "idle" /\ evq # <<>>
  /\ evq' = Tail(evq)
  /\ IF Head(evq).file = "motion_alarm"
     THEN CallCallback("inotify",
            IF Head(evq).op = "create" THEN "motion_start" ELSE "motion_stop",
            Head(evq).ep, {})
     ELSE UNCHANGED <<call, stale, faults>>
  /\ UNCHANGED ino
  /\ InoRest

\* A read event meets an entry that holds garbage.
InoWild ==
  /\ \/ ino = "stat" /\ "motion_alarm" \in files /\ WildCall("motion_start")
     \/ /\ ino = "poll" /\ call["inotify"].pc = "idle" /\ evq # <<>>
        /\ Head(evq).file = "motion_alarm"
        /\ WildCall(IF Head(evq).op = "create" THEN "motion_start" ELSE "motion_stop")
  /\ UNCHANGED mq

-----------------------------------------------------------------------------
(* The callbacks, on the thread t that read the event *)

CallRest == /\ UNCHANGED <<main, ncb, conn, ino, queueUp, mqReady, mq, faults,
                           restarts, drops>>
            /\ UNCHANGED busVars

At(t, pc) == call[t].pc = pc
Goto(t, pc) == call' = [call EXCEPT ![t].pc = pc]
Return(t) == call' = [call EXCEPT ![t] = Idle]

\* get_thread_index: the first slot in that state.
ThreadIndex(state) ==
  LET S == {i \in Slots : slot[i].running = state}
  IN  IF S = {} THEN NoSlot ELSE CHOOSE i \in S : \A j \in S : i <= j

PickSlot(t) ==
  /\ At(t, "pick")
  /\ LET opens == call[t].msg \in Opening
         ti == ThreadIndex(IF opens THEN "available" ELSE "waiting")
     IN  IF ti # NoSlot
         THEN call' = [call EXCEPT ![t].ti = ti,
                                   ![t].pc = IF opens THEN "mark" ELSE "spawn"]
         ELSE IF opens THEN Goto(t, "send") ELSE Return(t)
  /\ UNCHANGED <<slot, worker, lists, shown, stale>>
  /\ CallRest

MarkSlot(t) ==
  /\ At(t, "mark")
  /\ slot' = [slot EXCEPT ![call[t].ti].start = call[t].ep,
                          ![call[t].ti].running = "waiting"]
  /\ Goto(t, "send")
  /\ UNCHANGED <<worker, lists, shown, stale>>
  /\ CallRest

\* mqtt_send_message: without a connection the message is dropped; with one,
\* mosquitto_publish may fail or find a dead socket, and nobody tries again.
SendMessage(t, published) ==
  /\ At(t, "send")
  /\ published => conn
  /\ IF call[t].msg \notin OnMotionTopic
     THEN UNCHANGED <<shown, stale>>
     ELSE /\ shown' = IF published THEN call[t].msg ELSE shown
          /\ stale' = ~published
  /\ CASE call[t].msg \in Opening -> Goto(t, "image")
       [] call[t].msg = "motion_stop" -> Goto(t, "pick")
       [] OTHER -> Return(t)
  /\ UNCHANGED <<slot, worker, lists>>
  /\ CallRest

\* The snapshot is taken and published on another topic, or fails.
SendImage(t) ==
  /\ At(t, "image")
  /\ Return(t)
  /\ UNCHANGED <<slot, worker, lists, shown, stale>>
  /\ CallRest

\* Mutant: the slot a worker was started on still counts as waiting.
SpawnFilesUnmarked(t, started) ==
  LET ti == call[t].ti
  IN  /\ At(t, "spawn")
      /\ IF slot[ti].start # 0 /\ started
         THEN /\ slot' = [slot EXCEPT ![ti].stop = call[t].ep]
              /\ worker' = [worker EXCEPT ![ti] = @ + 1]
         ELSE /\ slot' = [slot EXCEPT ![ti] = Free]
              /\ UNCHANGED worker
      /\ Return(t)
      /\ UNCHANGED <<lists, shown, stale>>
      /\ CallRest

\* Mutant: when no thread can be created the slot is not handed back.
SpawnFilesLeaks(t, started) ==
  LET ti == call[t].ti
  IN  /\ At(t, "spawn")
      /\ IF slot[ti].start # 0 /\ started
         THEN /\ slot' = [slot EXCEPT ![ti].stop = call[t].ep,
                                      ![ti].running = "running"]
              /\ worker' = [worker EXCEPT ![ti] = @ + 1]
         ELSE UNCHANGED <<slot, worker>>
      /\ Return(t)
      /\ UNCHANGED <<lists, shown, stale>>
      /\ CallRest

\* The tail of callback_motion_stop.  started is what pthread_create says.
SpawnFiles(t, started) ==
  LET ti == call[t].ti
  IN  /\ At(t, "spawn")
      /\ IF slot[ti].start # 0 /\ started
         THEN /\ slot' = [slot EXCEPT ![ti].stop = call[t].ep,
                                      ![ti].running = "running"]
              /\ worker' = [worker EXCEPT ![ti] = @ + 1]
         ELSE /\ slot' = [slot EXCEPT ![ti] = Free]
              /\ UNCHANGED worker
      /\ Return(t)
      /\ UNCHANGED <<lists, shown, stale>>
      /\ CallRest

\* Mutant: the slot is handed back without its times being cleared, and still
\* counts as waiting for its stop.
FilesDoneStillWaiting(i) ==
  /\ worker[i] > 0
  /\ lists' = IF conn THEN lists \cup {<<slot[i].start, slot[i].stop>>} ELSE lists
  /\ slot' = [slot EXCEPT ![i].running = "waiting"]
  /\ worker' = [worker EXCEPT ![i] = @ - 1]
  /\ UNCHANGED <<call, shown, stale>>
  /\ CallRest

\* send_files_list wakes up after files_delay: the list is published, unless
\* there is no file or no connection, and the slot is handed back.
FilesDone(i) ==
  /\ worker[i] > 0
  /\ lists' \in {lists} \cup
       (IF conn THEN {lists \cup {<<slot[i].start, slot[i].stop>>}} ELSE {})
  /\ slot' = [slot EXCEPT ![i] = Free]
  /\ worker' = [worker EXCEPT ![i] = @ - 1]
  /\ UNCHANGED <<call, shown, stale>>
  /\ CallRest

CallbackStep(t) ==
  \/ PickSlot(t)
  \/ MarkSlot(t)
  \/ \E published \in BOOLEAN : SendMessage(t, published)
  \/ SendImage(t)
  \/ \E started \in BOOLEAN : SpawnFiles(t, started)

-----------------------------------------------------------------------------
(* The queue thread (stock mode): parse_message ignores the motion messages, *)
(* which the queue carries too.                                              *)

\* Mutant: motion is taken from the queue as well.
QueuedMotion == Msg \ {"command"}

Queued == Msg \ {"motion_start", "motion_stop", "command"}

QueueRest == /\ UNCHANGED <<main, ncb, conn, ino, queueUp, mqReady, slot, worker,
                            lists, shown, restarts, drops>>
             /\ UNCHANGED busVars

QueueReceive ==
  /\ queueUp /\ call["queue"].pc = "idle" /\ mq # <<>>
  /\ mq' = Tail(mq)
  /\ IF Head(mq) \in Queued
     THEN CallCallback("queue", Head(mq), QueueStamp, {})
     ELSE UNCHANGED <<call, stale, faults>>
  /\ QueueRest

QueueWild ==
  /\ queueUp /\ call["queue"].pc = "idle" /\ mq # <<>>
  /\ Head(mq) \in Queued
  /\ mq' = Tail(mq)
  /\ WildCall(Head(mq))

-----------------------------------------------------------------------------
MainNext == Start \/ Connect \/ IpcInit \/ InstallCallback \/ Reconnect

InotifyNext == InoWatch \/ InoStat \/ InoEvent \/ CallbackStep("inotify")

QueueNext == QueueReceive \/ CallbackStep("queue")

\* What mqttv4 does, and what may happen to it, when no message queue exists.
MotionNext ==
  \/ MainNext \/ InotifyNext \/ (\E i \in Slots : FilesDone(i))
  \/ Disconnect \/ Killed \/ InoWild
=============================================================================
