------------------------------ MODULE CampipeMd ------------------------------
(***************************************************************************)
(* The motion detector thread of campipe (md_thread): it compares frames   *)
(* at about 7 Hz, debounces the result into start and stop edges, and      *)
(* creates and removes motion_alarm on them.                               *)
(*                                                                         *)
(* The wall clock is abstracted to "quiet", the seconds since the last     *)
(* tick that saw movement, counted up to the threshold the code compares   *)
(* it with.  The blob areas are abstracted to whether the tick counts as   *)
(* movement.                                                               *)
(***************************************************************************)
EXTENDS EventBus

CONSTANTS
  StartTicks,    \* START_TICKS, 2 in the code
  StopQuiet,     \* STOP_QUIET_S, 3 in the code
  MaxCrashes     \* bound: how often campipe dies without running its exit path

ASSUME MdAssumption ==
  /\ StartTicks \in Nat \ {0}
  /\ StopQuiet \in Nat
  /\ MaxCrashes \in Nat

VARIABLES
  scene,     \* is something moving in front of the camera
  up,        \* md_thread is in its loop
  havePrev,  \* have_prev: a reference frame is held
  motion,    \* motion: the detector is between a start and a stop edge
  onTicks,   \* on_ticks
  quiet,     \* time(NULL) - last_move, capped at StopQuiet
  crashes    \* how often campipe died without running its exit path

mdVars == <<scene, up, havePrev, motion, onTicks, quiet, crashes>>

MdTypeOK ==
  /\ scene \in BOOLEAN
  /\ up \in BOOLEAN
  /\ havePrev \in BOOLEAN
  /\ motion \in BOOLEAN
  /\ onTicks \in 0..StartTicks
  /\ quiet \in 0..StopQuiet
  /\ crashes \in 0..MaxCrashes

\* last_move is 0 at thread start, so the clock shows the scene long quiet.
Fresh ==
  /\ havePrev' = FALSE
  /\ motion' = FALSE
  /\ onTicks' = 0
  /\ quiet' = StopQuiet

MdInit ==
  /\ scene = FALSE
  /\ up = FALSE
  /\ havePrev = FALSE
  /\ motion = FALSE
  /\ onTicks = 0
  /\ quiet = StopQuiet
  /\ crashes = 0

\* The supervisor starts campipe and md_thread gets through its set-up, which it
\* need not: then there is no detector for the life of this campipe.
MdStart ==
  /\ ~up
  /\ up' = TRUE
  /\ Fresh
  /\ UNCHANGED <<scene, crashes>>
  /\ UNCHANGED busVars

\* First frame: it only seeds the reference.
MdSeed ==
  /\ up /\ ~havePrev
  /\ havePrev' = TRUE
  /\ UNCHANGED <<scene, up, motion, onTicks, quiet, crashes>>
  /\ UNCHANGED busVars

\* A tick that saw movement.  created is whether fopen on the marker worked;
\* the thread enters the motion state either way.
MdMoved(created) ==
  /\ up /\ havePrev /\ scene
  /\ quiet' = 0
  /\ IF motion
     THEN UNCHANGED <<onTicks, motion>> /\ UNCHANGED busVars
     ELSE /\ onTicks' = onTicks + 1
          /\ motion' = (onTicks + 1 >= StartTicks)
          /\ IF motion' /\ created THEN Touch("motion_alarm")
                                   ELSE UNCHANGED busVars
  /\ UNCHANGED <<scene, up, havePrev, crashes>>

\* Mutant: the stop edge resets the state and leaves the marker in place.
MdStillKeepsMarker ==
  /\ up /\ havePrev
  /\ onTicks' = 0
  /\ motion' = (motion /\ quiet < StopQuiet)
  /\ UNCHANGED busVars
  /\ UNCHANGED <<scene, up, havePrev, quiet, crashes>>

\* A tick that saw none, or on which the IVE call failed.
MdStill ==
  /\ up /\ havePrev
  /\ onTicks' = 0
  /\ IF motion /\ quiet >= StopQuiet
     THEN motion' = FALSE /\ Unlink("motion_alarm")
     ELSE UNCHANGED motion /\ UNCHANGED busVars
  /\ UNCHANGED <<scene, up, havePrev, quiet, crashes>>

\* Mutant: the exit path forgets the marker.
MdExitKeepsMarker ==
  /\ up
  /\ up' = FALSE
  /\ Fresh
  /\ UNCHANGED busVars
  /\ UNCHANGED <<scene, crashes>>

\* SIGTERM: the loop ends and the exit path runs.
MdExit ==
  /\ up
  /\ up' = FALSE
  /\ Fresh
  /\ IF motion THEN Unlink("motion_alarm") ELSE UNCHANGED busVars
  /\ UNCHANGED <<scene, crashes>>

\* SIGKILL or a fault: the thread's state is gone, the marker file is not.
MdCrash ==
  /\ up /\ crashes < MaxCrashes
  /\ up' = FALSE
  /\ Fresh
  /\ crashes' = crashes + 1
  /\ UNCHANGED scene
  /\ UNCHANGED busVars

\* The environment: movement starts or ends, a second passes.
SceneChange ==
  /\ scene' = ~scene
  /\ UNCHANGED <<up, havePrev, motion, onTicks, quiet, crashes>>
  /\ UNCHANGED busVars

Second ==
  /\ quiet < StopQuiet
  /\ quiet' = quiet + 1
  /\ UNCHANGED <<scene, up, havePrev, motion, onTicks, crashes>>
  /\ UNCHANGED busVars

MdTick == MdSeed \/ (\E created \in BOOLEAN : MdMoved(created)) \/ MdStill

MdNext == MdStart \/ MdTick \/ MdExit \/ MdCrash \/ SceneChange \/ Second

=============================================================================
