------------------------------- MODULE IpcCmd -------------------------------
(***************************************************************************)
(* ipc_cmd, the command line program with which everything else changes    *)
(* the settings of the camera and moves it.  One call parses its options,  *)
(* records a microphone setting in a marker file, opens the stock message  *)
(* queue and sends one message after the other in an order of its own.     *)
(*                                                                         *)
(* Options carry the long names of the program.  A variable of main that   *)
(* may be NONE is a sequence of at most one value.  Angles are in tenths   *)
(* of a degree.  The bytes of a message are abstracted to the name of its  *)
(* macro without the value, and the value.                                 *)
(***************************************************************************)
EXTENDS Integers, Sequences, SequencesExt

CONSTANTS
  Caller,    \* who may call ipc_cmd at the same time
  Family,    \* what is_ptz makes of the model: "V5", "V2", "V2_ALT"
  Places,    \* the positions <<x, y>> the motor may stand at
  QueueLen,  \* mq_maxmsg of /ipc_dispatch and of the copies made of it
  MaxCalls   \* bound: how often ipc_cmd is called

MaxPtzX == 4100
MaxPtzY == 1250

ASSUME IpcCmdAssumption ==
  /\ Family \in {"V5", "V2", "V2_ALT"}
  /\ Places \subseteq (0..MaxPtzX) \X (0..MaxPtzY)
  /\ QueueLen \in Nat \ {0} /\ MaxCalls \in Nat

VARIABLES
  stock,     \* the stock pipeline runs, and with it the message queue
  calls,     \* how many calls were asked for
  ipc,       \* each caller's ipc_cmd: where it is and what it has to do
  daemons,   \* what the daemons left by --start have to do
  queue,     \* /ipc_dispatch
  micOff,    \* /tmp/ipc/mic_off exists
  forkFailed,\* a --start has left no daemon (history)
  micRace,   \* a call has set the marker before another's message went out (history)
  pos,       \* the position read_ptz reads
  reported   \* what get_pos printed last, <<>> once pos changed (history)

ipcVars == <<stock, calls, ipc, daemons, queue, micOff, micRace, forkFailed, pos, reported>>

-----------------------------------------------------------------------------
(* Options *)

OnOff == {"switch", "led", "ir", "rotate", "aihumandetection", "aivehicledetection",
          "aianimaldetection", "aimotiondetection", "facedetection", "motiontracking",
          "mic", "sounddetection", "babycrying"}

\* The variables of main, in the order in which main looks at them.
Order ==
  <<"switch", "sensitivity", "led", "save", "ir", "rotate", "setalertallowstate_human",
    "aihumandetection", "aivehicledetection", "aianimaldetection", "aimotiondetection",
    "facedetection", "motiontracking", "mic", "sounddetection", "babycrying",
    "soundsensitivity", "move", "jump_abs", "jump_rel", "preset", "add_preset",
    "get_pos", "set_home_position", "remove_preset", "cruise", "file", "start", "stop",
    "xxx">>

\* <<>> stands for print_usage and exit(EXIT_FAILURE).
Listed(a, values) == IF a \in values THEN <<a>> ELSE <<>>

SwitchArg(a) ==
  CASE a \in {"off", "no"} -> <<"off">>
    [] a \in {"on", "yes"} -> <<"on">>
    [] OTHER -> <<>>

PictureArg(o, a) ==
  CASE o \in OnOff -> SwitchArg(a)
    [] o = "sensitivity" -> Listed(a, {"low", "medium", "high"})
    [] o = "save" -> CASE a \in {"always", "off", "no"} -> <<"always">>
                       [] a \in {"detect", "on", "yes"} -> <<"detect">>
                       [] OTHER -> <<>>
    [] o = "setalertallowstate_human" -> <<1>>

DetectorArg(o, a) ==
  IF o = "soundsensitivity"
  THEN Listed(a, {"30", "35", "40", "45", "50", "60", "70", "80", "90"})
  ELSE SwitchArg(a)

Opposite == [right |-> "left", left |-> "right", down |-> "up", up |-> "down",
             stop |-> "stop"]

\* --jump_abs and --jump_rel share the variables x and y of main.
InRange(o, xy) ==
  IF o = "jump_abs"
  THEN xy[1] \in 0..3600 /\ xy[2] \in 0..1800
  ELSE xy[1] \in -3600..3600 /\ xy[2] \in -1800..1800

PtzArg(o, a) ==
  CASE o = "move" -> Listed(a, DOMAIN Opposite)
    [] o = "move_reverse" -> IF a \in DOMAIN Opposite THEN <<Opposite[a]>> ELSE <<>>
    [] o \in {"jump_abs", "jump_rel"} -> IF InRange(o, a) THEN <<1>> ELSE <<>>
    [] o = "preset" -> <<a>>
    [] o = "remove_preset" -> Listed(a, 0..7 \cup {255})
    [] o = "cruise" -> IF a \in {"presets", "360"} THEN <<a>> ELSE SwitchArg(a)
    [] OTHER -> <<1>>

\* --file takes a readable file or not; --start takes 1 to 300 seconds, which the
\* model does not count.
OtherArg(o, a) ==
  CASE o = "file" -> <<a>>
    [] o = "start" -> Listed(a, 1..300)
    [] OTHER -> <<1>>

Picture == {"switch", "sensitivity", "led", "save", "ir", "rotate",
            "setalertallowstate_human"}
Detector == (OnOff \cup {"soundsensitivity"}) \ Picture
Ptz == {"move", "move_reverse", "jump_abs", "jump_rel", "preset", "remove_preset",
        "cruise", "get_pos", "add_preset", "set_home_position"}

ArgOf(o, a) ==
  CASE o \in Picture -> PictureArg(o, a)
    [] o \in Detector -> DetectorArg(o, a)
    [] o \in Ptz -> PtzArg(o, a)
    [] OTHER -> OtherArg(o, a)

\* A bad argument ends the program, except that of --babycrying, which is passed over.
IsBad(oa) == oa[1] # "babycrying" /\ ArgOf(oa[1], oa[2]) = <<>>

\* The variable an option is for: the two directions of a move share one.
VarOf(o) == IF o = "move_reverse" THEN "move" ELSE o

\* Where among the options argv one of the variables is set.
Settings(argv, vars) ==
  {k \in DOMAIN argv : VarOf(argv[k][1]) \in vars /\ ArgOf(argv[k][1], argv[k][2]) # <<>>}

\* The last option decides; preset -1 is NONE.
ParseVar(argv, var) ==
  LET oa == argv[Max(Settings(argv, {var}))]
  IN  IF Settings(argv, {var}) = {} \/ (var = "preset" /\ oa[2] = -1) THEN <<>>
      ELSE ArgOf(oa[1], oa[2])

ParseXY(argv) ==
  LET set == Settings(argv, {"jump_abs", "jump_rel"})
  IN  IF set = {} THEN <<>> ELSE argv[Max(set)][2]

\* The variables after the options argv, as a sequence of one; or none, when usage
\* was printed.
Parse(argv) ==
  IF argv = <<>> \/ (\E k \in DOMAIN argv : IsBad(argv[k])) THEN <<>>
  ELSE <<[var \in ToSet(Order) \cup {"xy"} |->
            IF var = "xy" THEN ParseXY(argv) ELSE ParseVar(argv, var)]>>

-----------------------------------------------------------------------------
(* What is sent *)

Msg(name, val) == [name |-> name, val |-> val]
Do(what, m) == [do |-> what, arg |-> m]
Send(name, val) == Do("send", Msg(name, val))

Moved(dir) ==
  IF Family = "V2" \/ (Family = "V2_ALT" /\ dir \in {"left", "right"})
  THEN Opposite[dir] ELSE dir

RemovePreset(n) ==
  IF n = 255 THEN [i \in 1..8 |-> Send("remove_preset", <<i - 1>>)]
  ELSE <<Send("remove_preset", <<n>>)>>

SetHomePosition == <<Send("remove_preset", <<0>>), Send("add_preset", <<>>)>>

Cruise(mode) ==
  IF mode \in {"off", "on"} THEN <<Send("cruise", <<mode>>)>>
  ELSE <<Send("cruise", <<"on">>), Send("cruise", <<mode>>)>>

\* Mutant: the daemon of --start forgets what it was left for.
StartNoStop == <<Send("motion", <<"start">>), Do("fork", <<>>)>>

\* --start: a motion that a daemon ends after time_to_stop.
StartMotion == <<Send("motion", <<"start">>), Do("fork", <<>>), Send("motion", <<"stop">>)>>

\* What main does for one of its variables that is not NONE.
Steps(o, v) ==
  CASE o = "move" -> <<Send("move", <<Moved(v[o][1])>>)>>
    [] o \in {"jump_abs", "jump_rel", "get_pos", "file"} -> <<Do(o, v[IF o = "file" THEN o ELSE "xy"])>>
    [] o = "preset" -> <<Send("goto_preset", <<v[o][1] % 256>>)>>
    [] o = "add_preset" -> <<Send("add_preset", <<>>)>>
    [] o = "set_home_position" -> SetHomePosition
    [] o = "remove_preset" -> RemovePreset(v[o][1])
    [] o = "cruise" -> Cruise(v[o][1])
    [] o = "start" -> StartMotion
    [] o = "stop" -> <<Send("motion", <<"stop">>)>>
    [] OTHER -> <<Send(o, v[o])>>

\* What is left to do, by the place of the variable in the order of main; nothing
\* left is the empty function, <<>>.
Program(v) ==
  [k \in {i \in DOMAIN Order : v[Order[i]] # <<>>} |-> Steps(Order[k], v)]

\* The step in hand, and what is left after it.
InHand(prog) == Head(prog[Min(DOMAIN prog)])

Rest(prog) ==
  LET k == Min(DOMAIN prog)
  IN  IF Len(prog[k]) = 1 THEN [i \in DOMAIN prog \ {k} |-> prog[i]]
      ELSE [prog EXCEPT ![k] = Tail(@)]

\* round(n / d); at a tie the doubles of the code may fall to either side.
Rounded(n, d) == {k \in {n \div d, n \div d + 1} : 2 * (k * d - n) \in -d..d}

\* Mutant: the vertical axis is not turned round for the models that have it so.
DownwardsNever(y) == y

Downwards(y) == IF Family = "V2_ALT" THEN 1800 - y ELSE y

\* The relative position sent to get from pos to the angles xy: 50 is no move.
JumpAbs(xy) ==
  UNION {UNION {Rounded((fx - pos[1]) * 100 + 50 * 911, 911)
                  \X Rounded((fy - pos[2]) * 100 + 50 * 694, 694) :
                fy \in Rounded(Downwards(xy[2]) * MaxPtzY, 1800)} :
         fx \in Rounded(xy[1] * MaxPtzX, 3600)}

JumpRel(xy) ==
  LET y == IF Family = "V2_ALT" THEN -xy[2] ELSE xy[2]
  IN  UNION {UNION {Rounded(fx * 100 + 50 * 911, 911)
                      \X Rounded(fy * 100 + 50 * 694, 694) :
                    fy \in Rounded(y * MaxPtzY, 1800)} :
             fx \in Rounded(xy[1] * MaxPtzX, 3600)}

\* The angles get_pos prints, with one decimal.
GetPos ==
  LET y == IF Family = "V2_ALT" THEN 1800 * MaxPtzY - pos[2] * 1800 ELSE pos[2] * 1800
  IN  Rounded(pos[1] * 3600, MaxPtzX) \X Rounded(y, MaxPtzY)

-----------------------------------------------------------------------------
(* A call of ipc_cmd *)

Idle == [at |-> "idle", mic |-> <<>>, prog |-> <<>>]

IpcInit ==
  /\ stock \in BOOLEAN
  /\ calls = 0
  /\ ipc = [c \in Caller |-> Idle]
  /\ daemons = <<>>
  /\ queue = <<>>
  /\ micOff = FALSE /\ micRace = FALSE /\ forkFailed = FALSE
  /\ pos \in Places /\ reported = <<>>

IpcTypeOK ==
  /\ stock \in BOOLEAN /\ calls \in 0..MaxCalls
  /\ \A c \in Caller : ipc[c].at \in {"idle", "mark", "open", "run"}
  /\ Len(daemons) <= MaxCalls
  /\ Len(queue) <= QueueLen
  /\ micOff \in BOOLEAN /\ micRace \in BOOLEAN /\ forkFailed \in BOOLEAN
  /\ pos \in Places /\ Len(reported) \in {0, 2}

\* The options are parsed; a bad argument ends the call.
IpcCall(c, argv) ==
  /\ ipc[c] = Idle
  /\ LET v == Parse(argv)
     IN  ipc' = [ipc EXCEPT ![c] =
           IF v = <<>> THEN Idle
           ELSE [at |-> IF v[1]["mic"] = <<>> THEN "open" ELSE "mark",
                 mic |-> v[1]["mic"], prog |-> Program(v[1])]]
  /\ UNCHANGED <<stock, daemons, queue, micOff, micRace, forkFailed, pos, reported>>

SendsMic(prog) == \E k \in DOMAIN prog : Order[k] = "mic"

\* Mutant: the marker is made but never removed.
MarkOnlyOff(c) ==
  /\ ipc[c].at = "mark"
  /\ micOff' = (micOff \/ ipc[c].mic = <<"off">>)
  /\ micRace' = (micRace \/ (\E d \in Caller \ {c} : SendsMic(ipc[d].prog)))
  /\ ipc' = [ipc EXCEPT ![c].at = "open"]
  /\ UNCHANGED <<stock, calls, daemons, queue, forkFailed, pos, reported>>

\* A microphone setting is put on the marker bus, whether or not there is a queue.
MarkMic(c) ==
  /\ ipc[c].at = "mark"
  /\ micOff' = (ipc[c].mic = <<"off">>)
  /\ micRace' = (micRace \/ (\E d \in Caller \ {c} : SendsMic(ipc[d].prog)))
  /\ ipc' = [ipc EXCEPT ![c].at = "open"]
  /\ UNCHANGED <<stock, calls, daemons, queue, forkFailed, pos, reported>>

\* ipc_start: in native mode there is no queue and the call ends here.
IpcStart(c) ==
  /\ ipc[c].at = "open"
  /\ ipc' = [ipc EXCEPT ![c] = IF stock /\ @.prog # <<>> THEN [@ EXCEPT !.at = "run"] ELSE Idle]
  /\ UNCHANGED <<stock, calls, daemons, queue, micOff, micRace, forkFailed, pos, reported>>

Goes(c) ==
  LET rest == Rest(ipc[c].prog)
  IN  [ipc EXCEPT ![c] = IF rest = <<>> THEN Idle ELSE [@ EXCEPT !.prog = rest]]
Ends(c) == [ipc EXCEPT ![c] = Idle]
Running(c, what) == ipc[c].at = "run" /\ InHand(ipc[c].prog).do = what
Arg(c) == InHand(ipc[c].prog).arg

\* mq_send, which waits while the queue is full.
Sends(m) == Len(queue) < QueueLen /\ queue' = Append(queue, m)

SendOne(c) ==
  /\ Running(c, "send") /\ Sends(Arg(c))
  /\ ipc' = Goes(c)
  /\ UNCHANGED <<stock, calls, daemons, micOff, micRace, forkFailed, pos, reported>>

\* A jump needs the position of the motor, a failure to read it ends the call.
Jump(c) ==
  /\ \/ Running(c, "jump_abs") /\ \E xy \in JumpAbs(Arg(c)) : Sends(Msg("jump", xy))
     \/ Running(c, "jump_rel") /\ \E xy \in JumpRel(Arg(c)) : Sends(Msg("jump", xy))
  /\ ipc' = Goes(c)
  /\ UNCHANGED <<stock, calls, daemons, micOff, micRace, forkFailed, pos, reported>>

PrintPos(c) ==
  /\ Running(c, "get_pos")
  /\ reported' \in GetPos
  /\ ipc' = Goes(c)
  /\ UNCHANGED <<stock, calls, daemons, queue, micOff, micRace, forkFailed, pos>>

ReadPtzFails(c) ==
  /\ \E what \in {"jump_abs", "jump_rel", "get_pos"} : Running(c, what)
  /\ ipc' = Ends(c)
  /\ UNCHANGED <<stock, calls, daemons, queue, micOff, micRace, forkFailed, pos, reported>>

\* --file: the file is sent as it is, or cannot be read, which ends the call.
SendFile(c) ==
  /\ Running(c, "file")
  /\ IF Arg(c) = <<TRUE>>
     THEN Sends(Msg("raw", <<>>)) /\ ipc' = Goes(c)
     ELSE ipc' = Ends(c) /\ UNCHANGED queue
  /\ UNCHANGED <<stock, calls, daemons, micOff, micRace, forkFailed, pos, reported>>

\* The call returns to its caller and leaves a daemon, or cannot fork.
Fork(c) ==
  /\ Running(c, "fork")
  /\ ipc' = Ends(c)
  /\ \/ /\ daemons' = IF Rest(ipc[c].prog) = <<>> THEN daemons
                      ELSE Append(daemons, Rest(ipc[c].prog))
        /\ UNCHANGED forkFailed
     \/ forkFailed' = TRUE /\ UNCHANGED daemons
  /\ UNCHANGED <<stock, calls, queue, micOff, micRace, pos, reported>>

\* A daemon, after its sleep.
DaemonSends(k) ==
  /\ k \in DOMAIN daemons
  /\ Sends(InHand(daemons[k]).arg)
  /\ daemons' = IF Rest(daemons[k]) = <<>> THEN RemoveAt(daemons, k)
                ELSE [daemons EXCEPT ![k] = Rest(@)]
  /\ UNCHANGED <<stock, calls, ipc, micOff, micRace, forkFailed, pos, reported>>

IpcStep(c) ==
  \/ MarkMic(c) \/ IpcStart(c) \/ SendOne(c) \/ Jump(c) \/ PrintPos(c)
  \/ ReadPtzFails(c) \/ SendFile(c) \/ Fork(c)
=============================================================================
