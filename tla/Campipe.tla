------------------------------- MODULE Campipe -------------------------------
(***************************************************************************)
(* campipe with its threads, and rRTSPServer at the other end of its       *)
(* FIFOs: main's life (CampipeMain), the high stream (VideoFifo), the      *)
(* microphone (MicFifo), the speaker (AudioOut) with those who feed it,    *)
(* and the snapshots taken from its JPEG channels (Hwsnap).                *)
(* The low stream is a second VideoFifo and the motion detector is         *)
(* CampipeMd; here they only run and end.                                  *)
(*                                                                         *)
(* The threads share g_stop and the order in which main waits for them,    *)
(* nothing else, so in one behaviour one of them has data to deal with:    *)
(* cfg.load says which.                                                    *)
(***************************************************************************)
EXTENDS AudioOut, VideoFifo, MicFifo, Hwsnap

CONSTANT BackLen   \* bytes the speaker's FIFO holds

ASSUME BackAssumption == BackLen \in Nat

campipeVars == <<mainVars, videoVars, micVars, snapVars, vars>>

CampipeInit == MainInit /\ VideoInit /\ MicInit /\ SnapInit /\ Init

-----------------------------------------------------------------------------
(* The speaker *)

aoRest == <<videoVars, micVars, snapVars>>

\* ao_thread cannot bring the device up.
AoFails ==
  /\ amp = FALSE /\ got = 0 /\ ~gStop
  /\ ThreadEnds("ao")
  /\ UNCHANGED <<vars, aoRest>>

AoPoll == thread["ao"] = "run" /\ Poll /\ UNCHANGED <<mainVars, aoRest>>

AoStop == gStop /\ Stop /\ ThreadEnds("ao") /\ UNCHANGED aoRest

AoDevice == AoPlayed /\ UNCHANGED <<mainVars, aoRest>>

\* The FIFO opens for writing as long as ao_thread has it open.
SpeakerOpen == cfg.load = "speaker" /\ thread["ao"] = "run"

\* A script writes to it.
Script(n) ==
  /\ SpeakerOpen
  /\ Write(n)
  /\ UNCHANGED <<mainVars, aoRest>>

\* A packet of n samples comes from a client that talks: it is written whole, or
\* dropped if the FIFO is full or nobody has it open.
Packet(n) ==
  /\ SpeakerOpen
  /\ written - got + 2 * n <= BackLen
  /\ Write(2 * n)
  /\ UNCHANGED <<mainVars, aoRest>>

Speakers == \E n \in 1..MaxBytes : Script(n) \/ Packet(n)

-----------------------------------------------------------------------------
(* The other threads among themselves *)

Main == (MainStep \/ CallFails \/ OnSignal) /\ UNCHANGED <<videoVars, micVars, snapVars, vars>>

OtherThread == (ThreadEnds("low") \/ ThreadEnds("md"))
               /\ UNCHANGED <<videoVars, micVars, snapVars, vars>>

Stream == StreamThread /\ UNCHANGED <<micVars, snapVars, vars>>
Client == cfg.load = "video" /\ Source /\ UNCHANGED <<micVars, snapVars, vars>>

Mic == AiThread /\ UNCHANGED <<videoVars, snapVars, vars>>
MicIn == cfg.load \in {"wire", "mute"} /\ Capture /\ UNCHANGED <<videoVars, snapVars, vars>>
MicOut == cfg.load = "wire" /\ AudioSource /\ UNCHANGED <<videoVars, snapVars, vars>>
MicMarker == cfg.load = "mute" /\ ToggleMarker /\ UNCHANGED <<videoVars, snapVars, vars>>

Snap == cfg.load = "snap" /\ Snapshots /\ UNCHANGED <<videoVars, micVars, vars>>

CampipeNext ==
  \/ Main \/ OtherThread
  \/ Stream \/ Client \/ Snap
  \/ Mic \/ MicIn \/ MicOut \/ MicMarker
  \/ AoFails \/ AoPoll \/ AoStop \/ AoDevice \/ Speakers

\* Calls return, threads run, and the device plays.  Nobody has to read, to write
\* or to send a signal.
CampipeFairness ==
  /\ WF_campipeVars(MainStep /\ UNCHANGED <<videoVars, micVars, snapVars, vars>>)
  /\ WF_campipeVars(gStop /\ OtherThread)
  /\ WF_campipeVars(Stream)
  /\ WF_campipeVars(Mic)
  /\ WF_campipeVars(AoPoll) /\ WF_campipeVars(AoStop) /\ WF_campipeVars(AoDevice)

CampipeSpec == CampipeInit /\ [][CampipeNext]_campipeVars /\ CampipeFairness

-----------------------------------------------------------------------------
(* Properties *)

\* Told to stop, campipe exits, whatever its threads are doing and whoever is at the
\* other end, but for two ways not to: the signal came between main's test of g_stop
\* and pause, and no further one did; or the video FIFO
\* is full with somebody at it who does not read, now and always again.
StopEnds ==
  <>gStop => <>(main = "exited") \/ <>[]Overslept \/ []<>HeldByReader
=============================================================================
