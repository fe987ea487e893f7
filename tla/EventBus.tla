------------------------------ MODULE EventBus ------------------------------
(***************************************************************************)
(* The local event plumbing of the camera: the marker files under /tmp/ipc *)
(* that a producer (campipe or ipc2file) creates and removes, and the      *)
(* inotify queue through which a watcher of that directory learns of it.   *)
(*                                                                         *)
(* inotify is the kernel's: only what the daemons rely on is modelled.  A  *)
(* file that already exists yields no IN_CREATE when it is opened for      *)
(* writing again, a file that does not exist yields no IN_DELETE, and      *)
(* nothing is queued before the watch is added.                            *)
(***************************************************************************)
EXTENDS Integers, Sequences

CONSTANTS
  Marker,        \* the marker files a producer may write
  MaxEpisodes    \* bound: how often motion_alarm is created in one behaviour

ASSUME BusAssumption ==
  /\ "motion_alarm" \in Marker
  /\ MaxEpisodes \in Nat

VARIABLES
  files,    \* the marker files that exist
  watched,  \* TRUE once mqttv4's inotify watch is in place
  evq,      \* the inotify events queued for mqttv4, oldest first
  episode   \* how often motion_alarm came into existence: names the motion

busVars == <<files, watched, evq, episode>>

Event == [op : {"create", "delete"}, file : Marker, ep : 0..MaxEpisodes]

BusTypeOK ==
  /\ files \in SUBSET Marker
  /\ watched \in BOOLEAN
  /\ evq \in Seq(Event)
  /\ episode \in 0..MaxEpisodes

BusInit ==
  /\ files = {}
  /\ watched = FALSE
  /\ evq = <<>>
  /\ episode = 0

(***************************************************************************)
(* fopen(marker, "w"): creates the file unless it exists already.          *)
(***************************************************************************)
Touch(m) ==
  IF m \in files
  THEN UNCHANGED busVars
  ELSE /\ m = "motion_alarm" => episode < MaxEpisodes
       /\ files' = files \cup {m}
       /\ episode' = IF m = "motion_alarm" THEN episode + 1 ELSE episode
       /\ evq' = IF watched
                 THEN Append(evq, [op |-> "create", file |-> m, ep |-> episode'])
                 ELSE evq
       /\ UNCHANGED watched

(***************************************************************************)
(* remove(marker): a no-op on a file that is not there.                    *)
(***************************************************************************)
Unlink(m) ==
  /\ files' = files \ {m}
  /\ evq' = IF watched /\ m \in files
            THEN Append(evq, [op |-> "delete", file |-> m, ep |-> episode])
            ELSE evq
  /\ UNCHANGED <<watched, episode>>
=============================================================================
