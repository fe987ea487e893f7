# A TLA+ model of yi-hack-v6

yi-hack-v6 replaces or wraps the vendor firmware of a family of small Linux
cameras.  This directory models the parts of it that run concurrently and have
to agree on something: the daemons, threads and scripts that turn movement in
front of the lens into an MQTT message, that keep the video pipeline alive, carry
pictures and sound to and from it, bring a setting from a client to the camera and
back, and record, upload and clean up.  The modules are checked with TLC on small
instances and, where it says so, proved with TLAPS for every value of the
constants.

Run everything from this directory:

    tlc -config motion_native.cfg MCNativeEvents     # a run (see the table below)
    tlapm NativeEventsProofs.tla                     # the proofs of a module

## 1. The system

The camera works in one of two pipeline modes.  In *stock* mode the vendor's
processes (`rmm`, `dispatch`) own the hardware and the project listens in on
them; in *native* mode the project's own `campipe` owns it.

| Component | State it keeps | Operations | Talks to |
|---|---|---|---|
| campipe `md_thread` | reference frame, `motion`, `on_ticks`, `last_move` | a tick, the start and stop edge, exit | creates and removes `/tmp/ipc/motion_alarm` |
| campipe `ao_thread` | frame buffer, `fill`, `amp`, `idle_ticks` | read, send a frame, flush, switch the amplifier | reads `/tmp/audio_out_fifo`, the AO device |
| campipe `main` | which calls of the bring-up are behind it, `g_stop`, the threads | bring up, spawn, pause, join, take down | its threads, signals, the media system |
| campipe `stream_thread` | the FIFO, the frame in hand | replace the FIFO, open, write what fits, drop a frame | rRTSPServer, through a FIFO |
| campipe `ai_thread` | `pcm` and `fill`, `muted`, `mute_countdown`, the FIFO | take a captured frame, encode a block, write a frame or nothing, look at the mute marker | the audio device, the codec, rRTSPServer |
| `native_pipeline.sh` | where its loop is | start campipe, kill and start rRTSPServer, wait for the audio FIFO | pids and FIFOs |
| rRTSPServer | open FIFOs, whether there is an audio track, the frame length of the last header | start, open (blocking), drain, sync, read, resync, close | FIFOs, RTSP clients |
| hwsnap, `take_snapshot.sh` | none; the JPEG channel's pictures | ask for a picture, wait, take, stop; run again on failure | the media system, other snapshots, rmm |
| `ipc_multiplex` (preloaded into `dispatch`) | its queues | copy every message to them | message queues |
| ipc2file | `last_alarm`, sound timers | one message, one timer, exit | a message queue in, marker files out |
| mqttv4 | callbacks, connection, `filesThread` slots, workers | two reading threads, eight callbacks, 70 s workers, connect and reconnect | inotify, a message queue, the broker |
| ipc_cmd | the mute marker | parse options, send messages in an order of its own, leave a daemon | the queue of `dispatch`, campipe |
| mqttv4 `callback_command` | camera.conf, stat topics | replace a value, switch contradicting detectors off, publish | `ipc_multiplex`, the broker |
| mqtt-config | `conn_state`, configuration files of services | connect, subscribe, validate a request, call ipc_cmd, replace a value | the broker, ipc_cmd, files |
| h264grabber | position in rmm's ring | find the newest record, follow the ring | shared memory, a FIFO |
| recording scripts, events page | hour directories, an upload watermark | record, prepare the next hour, upload, clean, delete | the card, an FTP server |
| web pages of the services | none | change a line of a service's file, stop and start daemons | the files of mqtt-config, mqttv4 |
| `wd_rtsp.sh` | failure counter | test, restart, reboot | processes, sockets |
| boot scripts | mounts, symlinks, flash configuration | mount, choose a payload, merge configuration | share, card, flash |

What is hard about it: mqttv4 handles events on up to two threads and in
detached workers, without locks and with a callback table that is filled after
the threads have started; producer and consumer of an event share nothing but a
file; campipe and rRTSPServer meet on named pipes that are unlinked and remade
while the other side may be opening them, and that take less than a frame; a
setting passes through four processes, a queue that drops, and files that are
rewritten in steps; every process may die at any time and
is restarted by a script that sees only pids; and the broker may be gone when
something has to be said.  `PROJECT.json` lists each of these hazards at its
line.

What makes it correct, in one sentence each: the broker is told what the marker
says; recordings announced for a motion are those of that motion; the stream has
a server that reads the FIFOs of the campipe that lives, and what it reads is whole
frames in order; campipe ends when it is told to and never has a thread on hardware
that is down; a muted microphone is silent soon; what is played is what
was written, and the amplifier is on exactly then; what a client asked for, what the
camera was told, what camera.conf says and what the broker shows are the same thing
once everything has been handled.

## 2. The modules

    EventBus --- CampipeMd ---- NativeEvents --- NativeEventsProofs
        |                          |  \--- MCNativeEvents
        +------- Mqttv4 -----------+
        |            \-------------+
        +------- Ipc2file ----- StockEvents --- StockEventsProofs, MCStockEvents
                     \--- MCIpc2file

    NativePipeline --- NativePipelineProofs, MCNativePipeline

    CampipeMain -+- VideoFifo -+--------- FifoProofs ----+
                 +- MicFifo ---+                         +--- CampipeProofs
                 +- Hwsnap ----+--------- Campipe -------+
       Speaker <== AudioOut ---+            \--- MCCampipe

    IpcCmd ----+- MqttConfig --- CameraSettings --- CameraSettingsProofs,
    CameraConf +                                    MCCameraSettings

    H264Grabber --- H264GrabberProofs, MCH264Grabber
    Recording --- RecordingProofs, MCRecording         (<== implements)

**EventBus.**  The marker files (`files`) and mqttv4's inotify queue (`evq`,
`watched`).  inotify is the kernel's; the module holds what the daemons rely on:
no create event for a file that exists, no delete event for one that does not,
nothing before the watch.  `episode` numbers the existences of `motion_alarm`
and stands for the wall-clock times from which the code tells motions apart.

**CampipeMd.**  `md_thread`.  `MdMoved`, `MdStill` and `MdSeed` are the three
outcomes of a tick, `MdExit` the exit path, `MdCrash` a death without it.  The
clock is the number of quiet seconds, counted up to the threshold it is compared
with.  A failed `fopen` of the marker, which the code does not look at, is an
outcome of `MdMoved`.

**Mqttv4.**  `main` is a program counter (`Start`, `Connect`, `IpcInit`, one
`InstallCallback` per `ipc_set_callback`, the loop).  The inotify thread is
`InoWatch` (which may fail, and the thread is over), `InoStat`, `InoEvent`; the queue
thread is `QueueReceive`.  A
callback runs on the thread that read the event, in the steps between which
another thread can run: pick a slot, mark it, send, take the image, start the
worker (`call[t].pc`).  A callback that is not installed yet is NULL, so the
event is lost, or garbage, so the process is gone (`WildCall`): the table comes
from `malloc`.  `FilesDone` is the wake-up of a `send_files_list` worker.
`shown` is what the broker last received on the motion topic; `stale` records
that an edge after it was not published; `faults` records which of the two
startup races a process went through.

**NativeEvents** composes CampipeMd and Mqttv4, **StockEvents** Ipc2file and
Mqttv4 with its queue thread.

**Ipc2file.**  The multiplexer's copy into a bounded queue (`Forward`, dropping
when full), `process_event` by kind of message, the 60 s sound timers.
`overtaken` records the alarms that were followed by another kind.

**NativePipeline.**  The supervise loop as a program counter (`sup`), campipe's
bring-up, the feeding threads' `unlink` and `mkfifo` as two steps each, their
failures before and after `mkfifo`, and rRTSPServer's `stat`, blocking `open`
and service.  An inode is named by the campipe instance that made it, which is
what tells a FIFO from its successor at the same path.

**Speaker** says what audio output promises; **AudioOut** is `ao_thread`.  Bytes
are numbered, so that order, loss and alignment can be stated.

**CampipeMain.**  `main`: `BringUp` is the sequence of calls into the media system
with the part each belongs to, `CallWorks` and `CallFails` (to the `err_` label, or
without an optional part), `Spawn`, the loop on `g_stop` and `pause` in its three
steps, `Join`, and `TakeDown` label by label.  The environment campipe is started
in is `cfg`; it is also where the bounds on failures and signals are, so that a run can
give each configuration the events it is about.

**VideoFifo.**  `stream_thread` and `ByteStreamFifoSource` at the two ends of a
pipe that is smaller than two frames.  A unit is a run of bytes of a frame; `open`,
`write` and `read` return what the state of the other end makes them return, with
the window between EPIPE and `close` in which a new reader may come.

**MicFifo.**  `ai_thread` with its G.711 and its AAC loop, and the source at the
other end, `ADTSAudioFifoSource` or `ByteStreamFifoSource`.  Samples are numbered;
so are the frames the encoder makes.  `SFrame`, `SNoSync` and `SResync` are the
branches of `doReadFromFile`; the length that `SNoSync` reads from bytes that are no
header may be anything.  `SSkip` is the first frame's skip through stdio.  `MuteTick`
is `mic_mute_tick`; `exposed` counts the live frames taken since the marker came.

**Hwsnap.**  A JPEG channel that owes at most one picture (`wanted`) and holds the
encoded ones (`ready`), and any number of processes that run `hwsnap || hwsnap`.

**Campipe** composes these over one `CampipeMain`.  The threads of campipe share
`g_stop`, the joins and the media system, and no data; so in one behaviour the
thread named by `cfg.load` has data to deal with and the others run and end.

**IpcCmd.**  One call as parse, mute marker, `ipc_start`, and a program of messages
in the order of `main`.  Of an option given twice the last decides (`Settings`).  The
program maps a place in `Order` to the steps it stands for, so that what is still to
do (`Rest`) and what is in hand (`InHand`) can be said by place.  `JumpAbs`, `JumpRel` and `GetPos` are the arithmetic
with its roundings on tenths of degrees, `Downwards` the models whose vertical
axis is turned round.  What a tie between doubles rounds to is left open.

**CameraConf.**  `parse_message`'s recognition of commands, `callback_command` with
its calls of itself, `config_replace` in its steps (read, remove, create, write), the
stat topic, and `conf2mqtt.sh`.  The copy may not be begun (`ReplaceReadFails`); `cp` may
fail, which nobody looks at, and lines may not all be written (`CopyBackFails`); and
mqttv4 may be stopped between any two of these steps and started again (`MqttStopped`,
`MqttStarted`).  `torn` records which of these befell what.

**MqttConfig.**  The connection loop with the callbacks that run inside
`mosquitto_loop`, the validation table, the call of ipc_cmd through `system()`, the
dump, and this program's own `config_replace`, which empties a file and fills it, or
fails before or after it was emptied (`ReplaceFails`).  The same files are saved by a
web page: `SedRead` and `SedRename` are the two steps of the `sed -i` of
`set_configs.sh`, which takes no notice of mqtt-config.  A section keeps the case it was
written in, since the locks are compared with it as it is.

**CameraSettings** composes the three with `dispatch`, `ipc_multiplex`'s copy, a web
page that calls ipc_cmd beside mqtt-config, one that saves a service's settings,
failing calls and stops (`Fault`), and power cuts.

**H264Grabber.**  The reader of rmm's ring.  rmm is external and modelled from
what the reader relies on: a record has a stamp and a place (offset and length),
and while it is replaced one of them is old.  `Search`, `Look`, `Take` and `Write`
are the reader's loops with a step for each access to the ring, for video (counter
of 16 bits, window of 10) and audio (timestamp of 32 bits, window of two packets).
Frames are numbered, a stamp is the number modulo `Wrap`; `base`, `last` and
`wrapped` are histories.  A stamp is read in one step although the code reads it
byte by byte, and a frame's bytes are not in the model.

**Recording.**  The hour directories in the order of their modification times
(`age`), the segments in them, `wd_record.sh` (`WdTick`), ffmpeg opening a segment
or ending without a directory, and `ftppush.sh` as a program counter with its list and
its watermark.  A write to the watermark's file is two steps, since the redirection
empties it first (`FtpMark`, `FtpWrite`); between them it is `Lost`.  A second call,
`start` or `stop`, reads the watermark and writes it back (`CallRead`, `CallCut`,
`CallWrite`) before it is refused by the lock or kills the service.  `rm -rf` is two
steps too, the entries and then the directory if nothing has come into it: of
`clean_records.sh`, started by cron, after it has picked a directory (`CleanPick`,
`CleanUnlink`, `CleanRmdir`), and of the events page (`WebUnlink`, `WebRmdir`), which
also deletes single clips (`WebDelete`).  `seen` is what was in the directory when the
cleaner picked it.

## 3. What TLC checks

| Run | Question | Bounds | Distinct states |
|---|---|---|---|
| motion_native | Do detector and mqttv4 agree on the marker, the broker and the recordings, whatever crashes, restarts and drops? Does a quiet scene reach the broker? (safety and liveness) | 2 motions, 2 slots, 1 campipe crash, 1 mqttv4 stop, 1 lost connection | 1.8 million |
| ipc2file | Does every marker have something that will remove it? | 6 messages, queue of 2, five kinds | 28 thousand |
| stock_events | Do two publishing threads confuse the broker? | 3 messages, queue of 2, three kinds, 2 slots | 1.5 million |
| native_pipeline | Does the supervisor keep server and pipeline matched? (safety and liveness) | 2 deaths, 1 failed bring-up, 1 server crash, 2 rounds of waiting | 26 thousand |
| campipe | Does campipe end when told to, with its threads only on what is up; do its FIFOs carry whole frames and samples in order; is mute mute; is every snapshot accounted for; is every byte for the speaker played once? (safety, refinement, liveness) | seven environments, see below | 487 thousand |
| settings | Do client, camera, camera.conf and broker end up with the same setting, are the files whole, do the daemons stay reachable, does a manual motion end, and mqtt-config when told to? (safety and liveness) | 2 calls of ipc_cmd or of a page, 2 events (calls, power cut, fault, lost broker, SIGTERM) in all, 1 of each; queues of 2; 5 settings, 1 position | 426 thousand |
| h264grabber | Does the reader copy the right frames, each once, and find back? (safety and liveness) | ring of 4, stamps modulo 9, window of 2, 3 bad stamps, 20 frames | 154 thousand |
| recording | Is the directory there at the top of the hour, do the oldest recordings go first, what is sent, and what is passed by? | 2 hours of 1 minute; uploads on and off; 1 death of ffmpeg, call of ftppush.sh or deletion on the events page | 3.9 million |

Four runs are expected to fail; each states what a comment or a document of the
repository says and shows that the code does otherwise (`findings` in `PROJECT.json`):

* **startup_recovery**: a motion in progress when mqttv4 starts may go
  unreported, because the inotify thread can look before the callback is there.
* **ipc2file_stop**: a motion's stop does not remove `motion_alarm` if another
  kind of alarm came in between.
* **new_fifos**: after a campipe death rRTSPServer may be started against the
  dead instance's FIFO and block on it for ever.
* **cleaner_claim**: at the top of the hour the cleaner can pick the empty directory
  that ffmpeg is about to open its segment in, and remove the newest recording.

Why the bounds are enough.  Two motions are what it takes to confuse one with
another, and two slots both to have one free and to run out.  One crash, stop or
drop can fall between any two steps.  A queue of two can be empty, partly full
and full.  Frames of six bytes have room for an odd tail in the middle of a
frame, and thirteen bytes for two frames and an odd byte in every split.  Two rounds of
waiting tell a wait that ends early from one that runs out.  Constants are scaled
down only where the code compares and never computes with them (`START_TICKS`
keeps its value 2; the 3 s of quiet, 3 slots, 64 messages, 640 bytes, 30 rounds
become 1, 2, 2, 6, 2).  The ring keeps the order of sizes the code has (window <
ring < wrap), and twenty frames go five times round it and twice through the
stamps.  In
`recording` a change of the hour is the first change of the minute, with a
run of the cleaner, an hour of recordings older than the one in use and the next one's
directory made in advance; up to three clips can be listed, sent, failed or removed, two
of them of one minute when ffmpeg dies.  One death, call or deletion can fall between any
two steps of the others; what two of them do together, and hours of several minutes, are
left to the theorems, which hold for any number of either.

The `campipe` run starts in one of seven environments, `MCConfigs`.  The first has
everything on, one call that fails and two signals: it is about bring-up and
shutdown.  The others each give one thread data: a video client (pipe of 3 units,
frames of 2, so that a pipe can hold the end of one frame and the start of the next),
snapshots (two callers, two snapshots), the speaker, the microphone's
FIFO under AAC and under G.711 (frames of 3 units, room for two and a bit, captured
frames of 2 samples and blocks of 3, which have no common measure), and muting (a look every 2
rounds, a device of depth 1, two changes of the marker).  In `settings` two events are enough for two commands
to overlap and for any one of them to meet a power cut, a failing call, a stop of mqttv4,
a page that saves or a lost broker at every step; the rules between detectors need two
of them.

Deadlock is checked in the motion, pipeline, h264grabber and recording runs, where
something can always happen.  It is off where the bound on messages, bytes or events
ends the behaviour, or where campipe has exited.

Fairness.  Weak fairness on what a runnable thread does next: the scheduler is
preemptive, sleeps and timeouts end, a broker that is gone is retried for ever,
the supervisor's loop and the grabber's have no exit, and rmm completes a record it
has begun; campipe's calls return and its threads run, each process a setting passes
through goes on when it can.  None on what the environment or a failure does: nobody
has to move, connect, write, read, ask, die, send a signal, save, or restart mqttv4, the
broker need not come back, and the detector's set-up need not succeed.

Limits of the properties, all visible in their formulas: `MarkerOnlyInMotion`
holds until campipe is killed without its exit path (the marker then stays);
`FileListsExact` and `OneOpenMotion` hold for a process that did not go through a
startup race; `BrokerAgrees` speaks of the last edge that could be published;
`OneWorkerPerSlot` and the file lists are native-mode properties, because in
stock mode AI events take slots that no motion stop belongs to, and two threads
race for them; `OpensReturn` excludes a thread that gave up on the FIFO it made; `RightFrame` and
`NoGap` hold for a reader that rmm has not lapped, `RepeatsOnlyAtWrap` for a search
that did not meet a wrap in the ring; `RolloverReady` holds with uploads off (with
them, `ftppush.sh` may remove the directory `wd_record.sh` made in advance just
before the hour) and until an `rm` has removed the hour's directory;
`OldestFirst` is about what was in the directory when the cleaner picked it, since the
segment opened after that goes as well (cleaner_claim), and about times in which neither
`ftppush.sh` nor the events page deletes files, which makes an old directory look new;
`NoDoubleUpload` holds until ftppush.sh is killed, and what was uploaded may be a
clip that ffmpeg had not finished; it and `PassedIsKnown` hold until a second call has met
the service over a write of the watermark (`raced`), which either can undo, and
`PassedIsKnown` while the watermark is whole; `StopEnds` names the two ways in which campipe
does not end (a signal between the test and `pause`; a client that holds a full pipe
and does not read); `SourceInSync` excludes a source whose own first skip cut a frame
in two (`overrun`), which from then on delivers what the stale length makes of it;
`MutedSoon` excludes a codec that could not be opened, which the code takes for muted;
`SnapsAccounted` allows the picture of a failed attempt to be given to the next
snapshot; `FilesIntact` excludes, for camera.conf, a `cp` that failed and a power cut or
a stop of mqttv4 between the removal and the end of `cp`, and for a service's file a
failing mqtt-config, a power cut or a `sed` that reads while the file is empty
(`config_replace` has a comment, config.c:176-179, that says there is no power-loss risk);
`DetectorsExclusive` excludes a power cut or stop between settings that belong together,
and a copy that could not be begun; `SettingsAgree` excludes what `ipc_multiplex`
dropped or found no mqttv4 for, what missed the broker, replacements that failed or were
broken off, and calls of ipc_cmd that overlapped on the microphone;
`ValidatedIsUnderstood` excludes sound sensitivities between ipc_cmd's steps, which
mqtt-config accepts and ipc_cmd refuses; `Hears` needs a configured prefix; and
`SigtermEnds` and `ManualMotionEnds` exclude a broker that stays away and a fork that
failed.

## 4. What is proved

| Module | Theorems | Obligations |
|---|---|---|
| NativeEventsProofs | `TypeCorrect`, `Marked`, `OneWorker`, `BrokerAgreement`, `ListsExact`, `OneOpen` | 1576 |
| StockEventsProofs | `BridgeTypes`, `Accounted` (of Ipc2file alone), `TypeCorrect`, `BrokerAgreement`, `StockAccounted` | 1475 |
| NativePipelineProofs | `TypeCorrect`, `Attached`, `Silent` | 382 |
| FifoProofs | `VideoTypes`, `Unspliced`, `MicTypes`, `InSync`, `InOrder`, `MuteBound` | 2020 |
| CampipeProofs | `TypeCorrect`, `BufferOrder`, `AmpCovers`, `Refinement` (AudioOut), `MainTypes`, `OnWhatIsUp`, `SnapTypes`, `Accounted`, `Components`, and the properties of the parts as theorems of `CampipeSpec` | 1100 |
| CameraSettingsProofs | `DetectorsApart`, `FilesWhole`, `NotDeaf`, `RefusedOnlySounds`, `StaysPut`, `Agreement` | 3150 |
| H264GrabberProofs | `TypeCorrect`, `Right`, `NoRepeat`, `Gapless` | 1259 |
| RecordingProofs | `TypeCorrect`, `Rollover`, `SentOnce`, `NothingSkipped`, `OldestGoesFirst` | 1534 |

They hold for all values of the constants that satisfy the assumptions in the
modules that declare them: thresholds, sizes and bounds are natural numbers, there is
at least one slot, a speaker frame has an even number of bytes, a captured frame is
shorter than an encoder block, stdio's buffer holds a frame's payload, rmm's ring is
larger than the reader's window and the two together less than the range of the stamps,
camera.conf has a line for the microphone, the web pages are among the callers of
ipc_cmd, and a command line is a sequence.

* **NativeEvents.**  `OneWorkerPerSlot` is not inductive: a stop could start a worker on
  a slot that is not waiting any more.  `SlotHeld` adds what the inotify thread knows
  between picking a slot and using it: while it is at "mark" the slot is still
  available, at "spawn" still waiting, since nobody else changes slots in these states.
  `Installing` ties the number of callbacks to main's position. `MarkerOnlyInMotion`
  needs `TicksBelow`: outside a motion the tick count is below the threshold, so that a
  count never runs on.  The three properties about what is published follow the inotify
  queue (`EdgeInv`).  It holds the creations and deletions of the marker in turn, and
  the last of them is the state the marker is in (`EdgesQueued`); what the inotify
  thread calls is for such an edge (`EdgeCalls`).  So, with the queue empty, what the
  broker was told, or what the callback is about to tell it, is the marker's state
  (`Told`).  `FileListsExact` is inductive with `OwnMotion`: unless a startup race was
  met, the one slot that waits is that of the motion the next deletion in the queue will
  end.
* **StockEvents.**  That ipc2file accounts for its markers needs that nothing is there
  before it reads, that a sound is never the last alarm, and that timers and messages
  under way are no more than what was sent (`BridgeInv`).  Beside it the edges of
  `motion_alarm` are followed through the inotify queue as in NativeEvents; what differs
  is `ThreadCalls`, which says what each of the two threads of mqttv4 can be doing, and
  `Told`, which holds while either may be in the middle of a call.
* **NativePipeline.**  `AttachedIsCurrent` needs to know what a feeding thread has made
  (`FifosFresh`), that feeding threads exist only in a live campipe (`FeedersLive`),
  that instance numbers grow (`GenCounts`) and that a dead server holds nothing
  (`ServerDead`).  `SilentOnlyAfterWait` needs `StartsAfterWait`: a server is started
  only when the wait is over or the FIFO is there, and `FoundStays`: a FIFO that was
  found stays until campipe dies.
* **AudioOut.**  The buffer's contents, the parity of what was sent and the amplifier
  gate are proved together; the refinement then needs that the frame sent is a run of
  consecutive bytes, which is `BufferInOrder`.
* **CampipeMain.**  `ThreadsOnWhatIsUp` is a fact about the bring-up as a whole: the
  invariant says which parts are up after how many calls, that optional parts are wanted
  only if their call has worked, that threads exist only after the last call, and that
  from `Join` on none runs.
* **VideoFifo.**  `NoSplice` speaks of what the client has read, what the pipe holds and
  the unit in hand as one sequence.  The invariant (`Joined`) joins each of its pieces
  to the next, also across an empty pipe, and asks the last to end a frame when none is
  in hand; it adds that between frames the next unit begins one (`AtBoundary`) and that
  a source that opens or drains has seen nothing (`NothingSeen`), so that it starts
  reading on an empty pipe.
* **MicFifo.**  Three arguments.  For `SourceInSync`, the FIFO holds whole frames in
  order, but for the first that may be cut, of numbers not above the last block
  (`Frames`); what a running source took last goes on with them (`Joins`).  A skip that
  takes all there is ends at the end of a frame, and one that does not is `overrun`. For
  `BlocksInOrder`, the samples that wait number less than a block, so one captured frame
  completes at most one.  For `MutedSoon`, until the look at the marker the frames
  exposed and the rounds still to go (`ToLook`) make no more than `MutePeriod`; at the
  look the codec goes off, and from then on the live frames are those at the head of the
  device's queue (`LiveUpTo`), at most `AiDepth`.
* **Hwsnap.**  The invariant counts the hwsnaps between their request and their picture;
  a step moves one of them at most, in or out of that set, which the library's facts on
  cardinalities decide.  That the channel is left stopped needs that a wanted picture
  has somebody at a place from which every way leads through `StopRecvPic`.
* **Campipe.**  `Components` shows step by step that the composition, seen through the
  variables of a part, does a step of that part or none.  The invariants of the parts
  are thereby invariants of the whole, and the speaker's refinement holds in it too.
* **CameraSettings.**  `CoreInv` is about the one command in callback_command's hands
  and the commands it calls itself for: what remains of them (`TodoShape`), the two
  replacements of the files (`FileShape`, `FileInv`), whole or broken off, the detectors that the remaining
  commands still have to switch off (`RulesInv`), and the stat topics (`StatInv`).
  `McInv` is mqtt-config's connection and its own file.  `PosInv` is about the angles
  ipc_cmd prints and rests on lemmas on the roundings.  `SettingsAgree` speaks of a
  system at rest only and is far from inductive; it needs three invariants about what is
  under way.  `ProgInv` says what steps of a call can be left at each place: only the
  place of the microphone sends its message, and a daemon's calls are about the motor
  and nothing else.  `CamInv` (`Told`) follows each setting: the last message about it
  in dispatch's queue to mqttv4 or, without one, the list in hand or, without that,
  camera.conf says what the camera was told.  `MicInv` does the same for the mute
  marker, which ipc_cmd changes before it sends: at most one call is between the two,
  and then the marker is its own; else the last message for the microphone decides.
* **H264Grabber.**  Two layers.  `RmmInv`: each record of the ring holds the newest
  frame whose number it can hold, with the stamp and the place of that frame, but for
  the one rmm is replacing (`Numbered`, `Placed`).  `ReaderInv`: what the reader has
  found is a frame of the ring while it was not lapped (`Held`, `Searched`), and the
  next frame it takes is the successor of the last, or rmm is nearly a whole range of
  stamps ahead (`Followed`).  Since stamps and records are numbers modulo `Wrap` and the
  ring's size, the lemmas on quotients and remainders come first; with them a stamp
  inside the window is the stamp of one frame only.
* **Recording.**  `RolloverReady` comes from `Ready`: while ffmpeg records this hour's
  directory has been made, and once `wd_record.sh` has run in a minute the next hour's
  too, unless an rm has removed it, which needs that hours are whole (`HourOf`,
  `HourAfter`).  For the uploads `UploadInv` says of ftppush.sh's list that it holds
  nothing of the future, and of the clip in hand that it is after the watermark
  (`ListInv`), that what was sent is passed by the watermark or is the clip about to be
  marked (`SentPassed`), and that no clip that is there and not in the list is passed
  over (`NoneSkipped`); it also follows the value a second call has read and will write
  back.  `OldestFirst` needs that, while nobody else deletes anything, directories with
  recordings are in the order of the hours (`AgeSorted`), also with the one rm is in the
  middle of.

Only model-checked: liveness (`QuietReachesBroker`, `SoundEnds`, `ZombieKilled`,
`OpensReturn`, `SpeakerGoesQuiet`, `StopEnds`, `CatchesUp`, `ManualMotionEnds`,
`SigtermEnds`), which is out of the prover's reach.  Every safety property of a passing
run is a theorem.  The four properties of the runs that are expected to fail are none, of
course.  The type invariant of CameraSettings (`TypeOK`) has no theorem of its own: the
proofs use the parts of it that its invariants repeat.

## 5. Not modelled

`PROJECT.json` lists every component with its status.

* Data conversions without shared state: imggrabber, water_mark, page output and form
  parsing, the message bytes of the stock queue, encoder and sensor parameters.
* Other people's programs: RTSP and RTP (live555), libmosquitto below its callbacks,
  vendored packages and build recipes.  The media system, rmm, inotify and the broker
  appear as what the code relies on.
* Sequential passes with nothing beside them: the boot scripts (mounts, choice of the
  payload, configuration merge), parts 1 to 3 of `native_pipeline.sh`, the start of
  services by `system.sh`, ipc_read, ipc_notify, aoplay, ledctl.
* `wd_rtsp.sh`: a loop of checks on the output of `top` and `netstat` that restarts
  what is gone; a stop of mqttv4 at any step is in CameraSettings, whoever causes it.
* Saving camera.conf with `set_configs.sh`, which no page of the interface does, the
  upload of a whole configuration (`load.sh`) and its reset (`reset.sh`), which end in a
  reboot, and two instances of mqttv4 at once, which a watchdog that looks at the wrong
  moment could start.
* `ftppush.sh cron`, which nothing calls.
* In modelled components: the directory walk of `files.c`, mqttv4's reading of its own
  configuration, record.sh's choice of the stream, h264grabber's mapping of rmm's
  memory and its unlock thread.

What would come next: `TypeOK` of CameraSettings as a theorem, abstract
specifications of the settings and of the event pipeline (a register that clients
write and the broker shows), and the watchdog and boot scripts as modules.
