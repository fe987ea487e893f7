------------------------------- MODULE MicFifo -------------------------------
(***************************************************************************)
(* The microphone: campipe's ai_thread takes captured frames from the      *)
(* device, cuts them into blocks for the AAC encoder and writes each       *)
(* encoded frame to a FIFO, whole or not at all; rRTSPServer reads it with *)
(* ADTSAudioFifoSource, or, if it is G.711, with ByteStreamFifoSource.  A  *)
(* marker file mutes the microphone: the thread looks at it every so many  *)
(* rounds and sets the codec.                                              *)
(*                                                                         *)
(* Samples are numbered as they are taken.  A unit of the FIFO is a header *)
(* or a piece of payload as long as the seven bytes of a header; with      *)
(* G.711, which has no headers, it is a packet.  A unit has the number of  *)
(* its frame and its place, 0 for a header.                                *)
(***************************************************************************)
EXTENDS CampipeMain

CONSTANTS
  CaptureLen,   \* samples of a captured frame, AI_PTNUM
  BlockLen,     \* samples of an encoder block, AAC_FRAME
  AiDepth,      \* captured frames the device queues, u32UsrFrmDepth
  MutePeriod,   \* rounds between two looks at the marker, mute_period
  BodyLen,      \* units of payload in a frame
  FifoLen,      \* units the FIFO holds
  StdioLen,     \* units stdio takes in one read
  MaxToggles    \* bound: how often the marker comes or goes

ASSUME MicAssumption ==
  /\ CaptureLen \in Nat \ {0} /\ BlockLen \in Nat /\ CaptureLen < BlockLen
  /\ AiDepth \in Nat \ {0} /\ MutePeriod \in Nat \ {0}
  /\ BodyLen \in Nat \ {0} /\ StdioLen \in Nat /\ BodyLen <= StdioLen
  /\ FifoLen \in Nat /\ MaxToggles \in Nat

VARIABLES
  mic,        \* where ai_thread is
  setup,      \* calls of its set-up behind it
  afd,        \* its fifo_fd is open
  aiq,        \* frames in the device: whether each was captured live
  taken,      \* frames taken from it so far
  pcm,        \* the samples of the block being filled
  blocks,     \* blocks completed so far
  marker,     \* MIC_MUTE_MARKER exists
  muted,      \* muted: what the thread last set, or "unknown"
  countdown,  \* mute_countdown
  adcMuted,   \* the codec's microphone inputs are muted
  fifo,       \* what the FIFO holds
  source,     \* where rRTSPServer's source is
  stale,      \* frame_length of the header that was none, in units
  last,       \* the unit it took last
  overrun,    \* skipping the first frame took a part of another (history)
  exposed,    \* live frames taken since the marker came (history)
  toggles,    \* times the marker came or went
  acodecFails \* times the codec could not be opened

captureVars == <<taken, pcm, blocks>>
muteVars == <<marker, muted, countdown, adcMuted, toggles, acodecFails>>
sourceVars == <<source, stale, last, overrun>>
micVars == <<mic, setup, afd, aiq, captureVars, muteVars, fifo, sourceVars, exposed>>

Aac == cfg.codec = "aac"
First == IF Aac THEN 0 ELSE 1

\* A frame as it is written to the FIFO.
Encoded(b) == [i \in 1..(BodyLen + 1 - First) |-> [frame |-> b, place |-> First + i - 1]]

\* A unit of the FIFO; the source's last one, before it has taken any.
FifoUnit == [frame : Nat, place : 0..BodyLen]
NoUnit0 == [frame |-> 0, place |-> BodyLen]

\* The most live frames that may be taken once the marker is there: those of the
\* rounds until the next look, and those the device holds by then.
MostExposed == MutePeriod + AiDepth

MicTypeOK ==
  /\ mic \in {"start", "loop", "take", "ended"}
  /\ setup \in Nat /\ afd \in BOOLEAN
  /\ aiq \in Seq(BOOLEAN) /\ Len(aiq) <= AiDepth
  /\ taken \in Nat /\ blocks \in Nat /\ pcm \in Seq(Nat)
  /\ marker \in BOOLEAN /\ muted \in {"unknown", "yes", "no"}
  /\ countdown \in 1..MutePeriod /\ adcMuted \in BOOLEAN
  /\ fifo \in Seq(FifoUnit)
  /\ source \in {"none", "opening", "drain", "sync", "skip", "run", "resync", "closed"}
  /\ stale \in Nat /\ last \in FifoUnit /\ overrun \in BOOLEAN
  /\ exposed \in Nat /\ toggles \in 0..MaxToggles /\ acodecFails \in 0..1

MicInit ==
  /\ mic = "start" /\ setup = 0 /\ afd = FALSE
  /\ aiq = <<>> /\ taken = 0 /\ pcm = <<>> /\ blocks = 0
  /\ marker \in (IF cfg.load = "mute" THEN BOOLEAN ELSE {FALSE})
  /\ muted = "unknown" /\ countdown = 1 /\ adcMuted = FALSE
  /\ fifo = <<>>
  /\ source = "none" /\ stale = 0 /\ last = NoUnit0 /\ overrun = FALSE
  /\ exposed = 0 /\ toggles = 0 /\ acodecFails = 0

-----------------------------------------------------------------------------
(* ai_thread *)

\* The calls before the loop.  G.711 is encoded by the media system, AAC here.
AacOpen == <<"GetAACEncAPI", "Init", "SetParam">>
G711Setup == <<"StartAi", "StartAenc", "AencBindAi", "AENC_GetFd", "mkfifo">>
AacSetup == <<"StartAi", "GetChnParam", "SetChnParam">> \o AacOpen \o <<"mkfifo", "AI_GetFd">>

AiCalls == IF Aac THEN AacSetup ELSE G711Setup

FifoMade == \E i \in 1..setup : AiCalls[i] = "mkfifo"

\* The next of them works; what mkfifo says is not looked at.
AiSetup ==
  /\ thread["ai"] = "run" /\ mic = "start"
  /\ setup' = setup + 1
  /\ mic' = IF setup' = Len(AiCalls) THEN "loop" ELSE "start"
  /\ UNCHANGED <<mainVars, afd, aiq, captureVars, muteVars, fifo, sourceVars, exposed>>

\* It fails: no audio, and no FIFO if it has not been made yet.
AiFails ==
  /\ mic = "start" /\ AiCalls[setup + 1] # "mkfifo"
  /\ mic' = "ended"
  /\ ThreadEnds("ai")
  /\ UNCHANGED <<setup, afd, aiq, captureVars, muteVars, fifo, sourceVars, exposed>>

\* The device captures a frame, or drops it.
Capture ==
  /\ mic \in {"loop", "take"} /\ Len(aiq) < AiDepth
  /\ taken + Len(aiq) < cfg.maxTaken
  /\ aiq' = Append(aiq, ~adcMuted)
  /\ UNCHANGED <<setup, mainVars, mic, afd, captureVars, muteVars, fifo, sourceVars, exposed>>

\* acodec_mic_mute.  That the codec could not be opened is forgotten.
SetMicMute(mute, ok) ==
  /\ ok \/ acodecFails = 0
  /\ adcMuted' = IF ok THEN mute ELSE adcMuted
  /\ acodecFails' = IF ok THEN acodecFails ELSE acodecFails + 1

\* The marker is looked at, and the codec is set if it has come or gone.
LookAtMarker(ok) ==
  LET want == IF marker THEN "yes" ELSE "no"
  IN  /\ muted' = want
      /\ IF want # muted THEN SetMicMute(marker, ok)
                         ELSE ok /\ UNCHANGED <<adcMuted, acodecFails>>

\* Mutant: the period is twice the rounds that the sample rate makes of it.
MuteTickLate(ok) ==
  IF countdown > 1
  THEN countdown' = countdown - 1 /\ ok /\ UNCHANGED <<muted, adcMuted, acodecFails>>
  ELSE countdown' = 2 * MutePeriod /\ LookAtMarker(ok)

\* mic_mute_tick.
MuteTick(ok) ==
  IF countdown > 1
  THEN countdown' = countdown - 1 /\ ok /\ UNCHANGED <<muted, adcMuted, acodecFails>>
  ELSE countdown' = MutePeriod /\ LookAtMarker(ok)

\* The first half of a round: the FIFO is opened if there is a reader, which lets
\* a blocked one go, and the marker may be due.
AiRound(ok) ==
  /\ mic = "loop" /\ ~gStop
  /\ afd' = (afd \/ source # "none")
  /\ source' = IF source = "opening" THEN "drain" ELSE source
  /\ MuteTick(ok)
  /\ mic' = "take"
  /\ UNCHANGED <<setup, mainVars, aiq, captureVars, marker, toggles, fifo,
                 stale, last, overrun, exposed>>

\* select times out.
AiNothing ==
  /\ mic = "take" /\ aiq = <<>>
  /\ mic' = "loop"
  /\ UNCHANGED <<setup, mainVars, afd, aiq, captureVars, muteVars, fifo, sourceVars, exposed>>

\* Mutant: of a frame that does not fit, what fits is written.
FifoWritePart(frame) ==
  LET n == IF Len(frame) < FifoLen - Len(fifo) THEN Len(frame) ELSE FifoLen - Len(fifo)
  IN  IF ~afd THEN UNCHANGED <<afd, fifo>>
      ELSE IF source = "none" THEN afd' = FALSE /\ fifo' = <<>>
      ELSE fifo' = fifo \o SubSeq(frame, 1, n) /\ UNCHANGED afd

\* audio_fifo_write: a frame, or nothing if the encoder gave nothing.  One that does
\* not fit is dropped; without a reader the FIFO is closed, and what it holds is lost.
FifoWrite(frame) ==
  IF ~afd \/ frame = <<>> THEN UNCHANGED <<afd, fifo>>
  ELSE IF source = "none" THEN afd' = FALSE /\ fifo' = <<>>
  ELSE /\ fifo' = IF Len(fifo) + Len(frame) <= FifoLen THEN fifo \o frame ELSE fifo
       /\ UNCHANGED afd

\* Mutant: what a captured frame has beyond the block is dropped with it.
ReblockDropRest ==
  LET all == pcm \o [i \in 1..CaptureLen |-> taken * CaptureLen + i]
  IN  pcm' = IF Len(all) < BlockLen THEN all ELSE <<>>

\* The captured samples are appended to those that wait for the encoder; a full
\* block is taken off.
Reblock ==
  LET all == pcm \o [i \in 1..CaptureLen |-> taken * CaptureLen + i]
  IN  pcm' = IF Len(all) < BlockLen THEN all ELSE SubSeq(all, BlockLen + 1, Len(all))

\* The second half: a captured frame.  The AAC loop encodes when a block is full;
\* the G.711 loop has it encoded already and strips the device's header.
AiFrame(encodes) ==
  /\ mic = "take" /\ aiq # <<>>
  /\ mic' = "loop"
  /\ aiq' = Tail(aiq) /\ taken' = taken + 1
  /\ exposed' = IF marker /\ Head(aiq) /\ exposed <= MostExposed THEN exposed + 1
                ELSE exposed
  /\ IF Aac THEN Reblock ELSE UNCHANGED pcm
  /\ LET full == ~Aac \/ Len(pcm) + CaptureLen >= BlockLen
     IN  /\ blocks' = IF full THEN blocks + 1 ELSE blocks
         /\ FifoWrite(IF full /\ encodes THEN Encoded(blocks') ELSE <<>>)
  /\ UNCHANGED <<setup, mainVars, muteVars, sourceVars>>

AiEnd ==
  /\ mic = "loop" /\ gStop
  /\ mic' = "ended"
  /\ afd' = FALSE
  /\ fifo' = IF source = "none" THEN <<>> ELSE fifo
  /\ ThreadEnds("ai")
  /\ UNCHANGED <<setup, aiq, captureVars, muteVars, sourceVars, exposed>>

AiThread ==
  \/ AiSetup \/ AiFails \/ AiNothing \/ AiEnd
  \/ \E ok \in BOOLEAN : AiRound(ok)
  \/ \E encodes \in BOOLEAN : AiFrame(encodes)

\* ipc_cmd mutes or unmutes.
ToggleMarker ==
  /\ toggles < MaxToggles
  /\ toggles' = toggles + 1
  /\ marker' = ~marker
  /\ exposed' = 0
  /\ UNCHANGED <<setup, mainVars, mic, afd, aiq, captureVars, muted, countdown, adcMuted,
                 acodecFails, fifo, sourceVars>>

-----------------------------------------------------------------------------
(* rRTSPServer's source, one for the life of the server *)

sourceRest == <<mainVars, mic, setup, aiq, captureVars, muteVars, exposed>>

\* The open blocks until campipe has the FIFO open.
SOpen ==
  /\ source = "none" /\ FifoMade
  /\ source' = IF afd THEN "drain" ELSE "opening"
  /\ last' = NoUnit0 /\ stale' = 0 /\ overrun' = FALSE
  /\ UNCHANGED <<afd, fifo, sourceRest>>

\* What the FIFO holds from before is thrown away until there is nothing.
SDrain ==
  /\ source = "drain"
  /\ IF fifo # <<>>
     THEN fifo' = <<>> /\ UNCHANGED source
     ELSE /\ source' = CASE Aac -> "sync" [] ~Aac /\ afd -> "run" [] OTHER -> "closed"
          /\ UNCHANGED fifo
  /\ UNCHANGED <<afd, stale, last, overrun, sourceRest>>

\* Byte after byte, until there is the header of a first frame.
SSync ==
  /\ source = "sync" /\ fifo # <<>>
  /\ source' = IF Head(fifo).place = 0 THEN "skip" ELSE "sync"
  /\ last' = Head(fifo)
  /\ fifo' = Tail(fifo)
  /\ UNCHANGED <<afd, stale, overrun, sourceRest>>

\* The rest of that frame is skipped with fread, which takes what there is, up to
\* the size of its buffer; the source reads the descriptor itself from now on.
SSkip ==
  /\ source = "skip" /\ fifo # <<>>
  /\ source' = "run"
  /\ LET n == IF Len(fifo) < StdioLen THEN Len(fifo) ELSE StdioLen
     IN  /\ last' = fifo[n]
         /\ overrun' = (n < Len(fifo))
         /\ fifo' = SubSeq(fifo, n + 1, Len(fifo))
  /\ UNCHANGED <<afd, stale, sourceRest>>

\* The next n units are the payload of the frame delivered, or fewer.
Deliver(n) ==
  LET k == IF n < Len(fifo) THEN n ELSE Len(fifo)
  IN  /\ last' = IF k = 0 THEN last ELSE fifo[k]
      /\ fifo' = SubSeq(fifo, k + 1, Len(fifo))

\* A header, and the payload it announces.
SFrame ==
  /\ source = "run" /\ Aac /\ fifo # <<>> /\ Head(fifo).place = 0
  /\ Deliver(BodyLen + 1)
  /\ UNCHANGED <<afd, source, stale, overrun, sourceRest>>

\* No header: the length in these bytes is kept while the next header is looked
\* for.  Fewer than seven of them are dropped, and an empty frame delivered.
SNoSync(length) ==
  /\ source = "run" /\ Aac /\ fifo # <<>> /\ Head(fifo).place # 0
  /\ Deliver(1)
  /\ source' \in (IF Len(fifo) = 1 THEN {"run", "resync"} ELSE {"resync"})
  /\ stale' = length
  /\ UNCHANGED <<afd, overrun, sourceRest>>

\* The header that is found, or a piece of payload that looks like one, is followed
\* by a read of the length kept.  Meanwhile the server does nothing else.
SResync(looksLike) ==
  /\ source = "resync" /\ fifo # <<>>
  /\ IF Head(fifo).place = 0 \/ looksLike
     THEN source' = "run" /\ Deliver(stale + 1)
     ELSE Deliver(1) /\ UNCHANGED source
  /\ UNCHANGED <<afd, stale, overrun, sourceRest>>

\* G.711: a packet.
SPacket ==
  /\ source = "run" /\ ~Aac /\ fifo # <<>>
  /\ Deliver(1)
  /\ UNCHANGED <<afd, source, stale, overrun, sourceRest>>

\* G.711: a read of 0 bytes closes the source for good.
SEof ==
  /\ source = "run" /\ ~Aac /\ fifo = <<>> /\ ~afd
  /\ source' = "closed"
  /\ UNCHANGED <<afd, fifo, stale, last, overrun, sourceRest>>

\* The server dies, or is killed.
SDies ==
  /\ source # "none"
  /\ source' = "none"
  /\ fifo' = IF afd THEN fifo ELSE <<>>
  /\ UNCHANGED <<afd, stale, last, overrun, sourceRest>>

AudioSource ==
  \/ SOpen \/ SDrain \/ SSync \/ SSkip \/ SFrame \/ SPacket \/ SEof \/ SDies
  \/ \E length \in 0..FifoLen : SNoSync(length)
  \/ \E looksLike \in BOOLEAN : SResync(looksLike)

MicNext == AiThread \/ Capture \/ ToggleMarker \/ AudioSource

MicSpec == MicInit /\ [][MicNext]_<<cfg, micVars>>

-----------------------------------------------------------------------------
(* Properties *)

\* Unit v may come right after u: it continues the frame, or begins a later one
\* after the end of u's.
Continues(u, v) ==
  IF u.place = BodyLen THEN v.place = First /\ v.frame > u.frame
                       ELSE v.place = u.place + 1 /\ v.frame = u.frame

\* What the running source has read and will read is whole frames in their order,
\* whatever was dropped and whoever died, and for AAC it stands at a header: unless
\* the skipping of the first frame cut another one in two, it never has to look for
\* a header again.
SourceInSync ==
  source \in {"run", "resync"} /\ ~overrun =>
    LET read == <<last>> \o fifo
    IN  /\ source = "run"
        /\ Aac => last.place = BodyLen
        /\ \A i \in 1..Len(fifo) : Continues(read[i], read[i + 1])
        /\ fifo # <<>> => fifo[Len(fifo)].place = BodyLen

\* Every sample taken is in exactly one block, in order, although captured frames
\* and encoder blocks have no common measure: those behind the last block wait in
\* pcm.
BlocksInOrder ==
  Aac => /\ Len(pcm) = taken * CaptureLen - blocks * BlockLen
         /\ \A i \in 1..Len(pcm) : pcm[i] = blocks * BlockLen + i

\* Muted means muted soon: of what is captured live, no more than MostExposed frames
\* are taken after the marker came, across restarts of the reader, time-outs and a
\* full device; unless the codec could not be opened once.
MutedSoon == acodecFails = 0 => exposed <= MostExposed
=============================================================================
