------------------------------ MODULE AudioOut ------------------------------
(***************************************************************************)
(* ao_thread of campipe: PCM that rRTSPServer or a script writes to        *)
(* /tmp/audio_out_fifo, in pieces of any length, is assembled into frames  *)
(* for the AO device, and the speaker amplifier is switched on with the    *)
(* first byte and off once everything was played.                          *)
(*                                                                         *)
(* A byte is its number in the stream, 0 is silence.  The reads, the       *)
(* buffer and the device queue are those of the code; the device plays by  *)
(* itself.  The frame SendFrame cannot queue within its timeout is lost,   *)
(* which the code does not look at.                                        *)
(***************************************************************************)
EXTENDS Integers

CONSTANTS
  FrameBytes,   \* bufbytes, 640 in the code
  IdleTicks,    \* IDLE_TICKS, 3 in the code
  AoDepth,      \* frames the device queues, u32FrmNum, 30 in the code
  MaxBytes,     \* bound: how many bytes are written in one behaviour
  MaxErrors     \* bound: how often HI_MPI_AO_QueryChnStat fails

ASSUME AudioAssumption ==
  /\ FrameBytes \in Nat /\ FrameBytes > 0 /\ FrameBytes % 2 = 0
  /\ IdleTicks \in Nat \ {0}
  /\ AoDepth \in Nat \ {0}
  /\ MaxBytes \in Nat
  /\ MaxErrors \in Nat

VARIABLES
  running,    \* g_stop is not set
  written,    \* bytes written to the FIFO so far
  got,        \* bytes read from it so far
  vir,        \* the frame buffer
  fill,       \* fill: bytes of the frame assembled so far
  amp,        \* amp
  idleTicks,  \* idle_ticks
  busy,       \* u32ChnBusyNum: frames in the device
  sent,       \* bytes handed to the device so far (history)
  frame,      \* the frame handed to the device last (history)
  errors

vars == <<running, written, got, vir, fill, amp, idleTicks, busy, sent, frame, errors>>

Silence == 0
Offset == 0..(FrameBytes - 1)
Byte == 0..MaxBytes

TypeOK ==
  /\ running \in BOOLEAN
  /\ written \in Byte /\ got \in Byte
  /\ vir \in [Offset -> Byte]
  /\ fill \in Offset
  /\ amp \in BOOLEAN
  /\ idleTicks \in 0..(IdleTicks - 1)
  /\ busy \in 0..AoDepth
  /\ sent \in Byte
  /\ frame \in [Offset -> Byte]
  /\ errors \in 0..MaxErrors

Init ==
  /\ running = TRUE
  /\ written = 0 /\ got = 0
  /\ vir = [i \in Offset |-> Silence]
  /\ fill = 0
  /\ amp = FALSE /\ idleTicks = 0
  /\ busy = 0
  /\ sent = 0
  /\ frame = [i \in Offset |-> Silence]
  /\ errors = 0

-----------------------------------------------------------------------------
(* The environment *)

\* A writer puts n more bytes into the FIFO.
Write(n) ==
  /\ written + n <= MaxBytes
  /\ written' = written + n
  /\ UNCHANGED <<running, got, vir, fill, amp, idleTicks, busy, sent, frame, errors>>

\* The device finishes a frame.
AoPlayed ==
  /\ busy > 0
  /\ busy' = busy - 1
  /\ UNCHANGED <<running, written, got, vir, fill, amp, idleTicks, sent, frame, errors>>

-----------------------------------------------------------------------------
(* The loop *)

\* HI_MPI_AO_SendFrame of a buffer that holds k bytes of the stream.
SendFrame(buffer, k) ==
  /\ frame' = buffer
  /\ sent' = sent + k
  /\ busy' = IF busy < AoDepth THEN busy + 1 ELSE busy

\* Mutant: every read is sent as a frame of its own, padded with silence.
ReadPadded(n) ==
  /\ running
  /\ n <= written - got /\ n <= FrameBytes - fill
  /\ got' = got + n
  /\ vir' = [i \in Offset |-> IF i < n THEN got + i + 1 ELSE Silence]
  /\ fill' = 0
  /\ SendFrame(vir', n)
  /\ amp' = TRUE
  /\ idleTicks' = 0
  /\ UNCHANGED <<running, written, errors>>

\* poll reports data and read returns n bytes of it, never more than fit.
Read(n) ==
  /\ running
  /\ n <= written - got /\ n <= FrameBytes - fill
  /\ got' = got + n
  /\ vir' = [i \in Offset |-> IF fill <= i /\ i < fill + n
                              THEN got + (i - fill) + 1
                              ELSE vir[i]]
  /\ amp' = TRUE
  /\ IF fill + n = FrameBytes
     THEN SendFrame(vir', FrameBytes) /\ fill' = 0
     ELSE fill' = fill + n /\ UNCHANGED <<frame, sent, busy>>
  /\ idleTicks' = 0
  /\ UNCHANGED <<running, written, errors>>

\* Mutant: the odd byte is read back after the padding has overwritten it.
FlushTailLate ==
  LET keep == fill % 2
      padded == [i \in Offset |-> IF i < fill - keep THEN vir[i] ELSE Silence]
  IN  /\ running /\ got = written /\ amp /\ fill >= 2
      /\ SendFrame(padded, fill - keep)
      /\ vir' = [padded EXCEPT ![0] = IF keep = 1 THEN padded[fill - 1] ELSE @]
      /\ fill' = keep
      /\ idleTicks' = 0
      /\ UNCHANGED <<running, written, got, amp, errors>>

\* No data within the poll timeout and a partial frame: it is sent, padded with
\* silence, and an odd last byte moves to the front of the buffer.
Flush ==
  LET keep == fill % 2
      padded == [i \in Offset |-> IF i < fill - keep THEN vir[i] ELSE Silence]
  IN  /\ running /\ got = written /\ amp /\ fill >= 2
      /\ SendFrame(padded, fill - keep)
      /\ vir' = [padded EXCEPT ![0] = IF keep = 1 THEN vir[fill - 1] ELSE @]
      /\ fill' = keep
      /\ idleTicks' = 0
      /\ UNCHANGED <<running, written, got, amp, errors>>

\* Mutant: a device that still plays does not reset the count of quiet polls.
QuietNoReset(ok) ==
  /\ running /\ got = written /\ amp /\ fill < 2
  /\ amp' = (idleTicks + 1 < IdleTicks)
  /\ idleTicks' = IF amp' THEN idleTicks + 1 ELSE 0
  /\ UNCHANGED <<running, written, got, vir, fill, busy, sent, frame, errors>>

\* Mutant: the amplifier is never switched off again.
QuietStaysOn(ok) ==
  /\ running /\ got = written /\ amp /\ fill < 2
  /\ UNCHANGED vars

\* No data and nothing to flush: after IdleTicks polls in a row that found the
\* device empty the amplifier goes off.  ok is whether the query worked.
Quiet(ok) ==
  /\ running /\ got = written /\ amp /\ fill < 2
  /\ IF ok /\ busy = 0
     THEN IF idleTicks + 1 >= IdleTicks
          THEN amp' = FALSE /\ idleTicks' = 0
          ELSE idleTicks' = idleTicks + 1 /\ UNCHANGED amp
     ELSE idleTicks' = 0 /\ UNCHANGED amp
  /\ ok \/ errors < MaxErrors
  /\ errors' = IF ok THEN errors ELSE errors + 1
  /\ UNCHANGED <<running, written, got, vir, fill, busy, sent, frame>>

\* g_stop: the amplifier is switched off, the device stopped and disabled.
Stop ==
  /\ running
  /\ running' = FALSE
  /\ amp' = FALSE
  /\ busy' = 0
  /\ UNCHANGED <<written, got, vir, fill, idleTicks, sent, frame, errors>>

Poll == \/ \E n \in 1..FrameBytes : Read(n)
        \/ Flush
        \/ \E ok \in BOOLEAN : Quiet(ok)

Next ==
  \/ \E n \in 1..MaxBytes : Write(n)
  \/ AoPlayed
  \/ Poll
  \/ Stop

\* The thread polls for ever and the device plays what it has.
Fairness == WF_vars(Poll) /\ WF_vars(AoPlayed)

Spec == Init /\ [][Next]_vars /\ Fairness

-----------------------------------------------------------------------------
(* Properties *)

\* The buffer holds, from its start, exactly the bytes read and not yet handed
\* over, in order, and what was handed over ends on a sample boundary: no read of
\* odd length shifts the samples that follow it.
BufferInOrder ==
  /\ got = sent + fill
  /\ sent % 2 = 0
  /\ \A i \in Offset : i < fill => vir[i] = sent + i + 1

\* The amplifier is never off while the device plays, and no whole sample is left
\* in the buffer with the amplifier off (ao_thread's amp gate).
AmpCoversPlayback ==
  ~amp => busy = 0 /\ (running => fill < 2)

Spk == INSTANCE Speaker WITH upto <- sent, playing <- busy > 0

\* ao_thread implements the abstract speaker: its frames hold whole samples, each
\* byte once and in order, and the amplifier covers them.
Implements == Spk!SpeakerSpec

\* When the writers fall silent the amplifier goes off, so that the idle speaker
\* does not hiss, and everything but half a sample was handed to the device.
SpeakerGoesQuiet ==
  <>[](got = written) => <>[](~running \/ (~amp /\ fill < 2))
=============================================================================
