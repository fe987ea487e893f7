------------------------------- MODULE Speaker -------------------------------
(***************************************************************************)
(* What campipe's audio output promises whoever writes PCM to its FIFO.    *)
(* The bytes written are numbered from 1.  They are handed to the hardware *)
(* each once and in order, in frames that hold whole samples (two bytes)   *)
(* and are filled up with silence, and the amplifier is on for as long as  *)
(* something is being played.                                              *)
(***************************************************************************)
EXTENDS Integers

CONSTANT FrameBytes   \* bytes of a frame, 640 in the code

VARIABLES
  upto,     \* how many bytes were handed over
  frame,    \* the frame handed over last
  amp,      \* the amplifier is on
  playing   \* the hardware has frames to play

Silence == 0
Offset == 0..(FrameBytes - 1)

\* A frame that continues after byte n with k bytes and then is silent.
FrameOf(n, k) == [i \in Offset |-> IF i < k THEN n + i + 1 ELSE Silence]

SpeakerInit ==
  /\ upto = 0
  /\ frame = [i \in Offset |-> Silence]
  /\ amp = FALSE
  /\ playing = FALSE

Play ==
  \E k \in 1..FrameBytes :
    /\ k % 2 = 0
    /\ frame' = FrameOf(upto, k)
    /\ upto' = upto + k
    /\ amp' = TRUE
    /\ playing' = TRUE

SwitchOn ==
  /\ ~amp /\ amp' = TRUE
  /\ UNCHANGED <<upto, frame, playing>>

Drain ==
  /\ playing /\ playing' = FALSE
  /\ UNCHANGED <<upto, frame, amp>>

\* The amplifier goes off only with nothing left to play, or with the device
\* itself being stopped.
SwitchOff ==
  /\ amp /\ amp' = FALSE
  /\ playing' = FALSE
  /\ UNCHANGED <<upto, frame>>

SpeakerNext == Play \/ SwitchOn \/ Drain \/ SwitchOff

speakerVars == <<upto, frame, amp, playing>>

SpeakerSpec == SpeakerInit /\ [][SpeakerNext]_speakerVars
=============================================================================
