--------------------------- MODULE NativePipeline ---------------------------
(***************************************************************************)
(* The native media pipeline under its supervisor: native_pipeline.sh      *)
(* restarts campipe and rRTSPServer, which meet on named pipes.            *)
(*                                                                         *)
(* campipe replaces each FIFO (unlink, mkfifo) when the thread that feeds  *)
(* it starts, which is long after the process exists; it opens a FIFO for  *)
(* writing without blocking, once there is a reader.  rRTSPServer has one  *)
(* thread: it opens the audio FIFO once, at startup, and the video FIFO    *)
(* when a client asks, and both opens block until there is a writer on the *)
(* very inode that was opened.  An inode is named by the campipe instance  *)
(* that made it; the two video FIFOs are treated as one.                   *)
(***************************************************************************)
EXTENDS Integers, FiniteSets

CONSTANTS
  MaxWait,     \* rounds of wait_audio_fifo, 30 in the code
  MaxDeaths,   \* bound: how often a running campipe dies
  MaxFails,    \* bound: how often campipe's bring-up fails
  MaxCrashes   \* bound: how often rRTSPServer dies by itself

ASSUME PipelineAssumption ==
  /\ MaxWait \in Nat /\ MaxDeaths \in Nat
  /\ MaxFails \in Nat /\ MaxCrashes \in Nat

Fifo == {"video", "audio"}
NoInode == 0
MaxGen == 1 + MaxDeaths + MaxFails

VARIABLES
  audioOn,  \* C_AUDIO is aac or g711 (configuration)
  sup,      \* where the supervisor loop is
  waited,   \* _waf_i
  camp,     \* campipe: dead, bringing up, running its threads
  gen,      \* how many instances of campipe were started
  feeder,   \* what the thread that feeds each FIFO has done
  fifo,     \* the inode at each FIFO's path
  rtsp,     \* rRTSPServer: dead, starting, serving, or blocked in an open
  reads,    \* the inode rRTSPServer opened, or is opening, for each FIFO
  silent,   \* rRTSPServer runs without the audio track
  deaths, fails, crashes

vars == <<audioOn, sup, waited, camp, gen, feeder, fifo, rtsp, reads, silent,
          deaths, fails, crashes>>

Inode == NoInode..MaxGen

TypeOK ==
  /\ audioOn \in BOOLEAN
  /\ sup \in {"campipe", "settle", "rtsp", "wait", "sleep"}
  /\ waited \in 0..MaxWait
  /\ camp \in {"dead", "init", "up"}
  /\ gen \in Inode
  /\ feeder \in [Fifo -> {"start", "unlinked", "made", "off"}]
  /\ fifo \in [Fifo -> Inode]
  /\ rtsp \in {"dead", "start", "found", "serve", "video", "audio"}
  /\ reads \in [Fifo -> Inode]
  /\ silent \in BOOLEAN
  /\ deaths \in 0..MaxDeaths /\ fails \in 0..MaxFails /\ crashes \in 0..MaxCrashes

Closed == [f \in Fifo |-> NoInode]

Init ==
  /\ audioOn \in BOOLEAN
  /\ sup = "campipe" /\ waited = 0
  /\ camp = "dead" /\ gen = 0
  /\ feeder = [f \in Fifo |-> "off"]
  /\ fifo = Closed
  /\ rtsp = "dead" /\ reads = Closed /\ silent = FALSE
  /\ deaths = 0 /\ fails = 0 /\ crashes = 0

failures == <<deaths, fails, crashes>>
campVars == <<camp, gen, feeder, fifo>>
rtspVars == <<rtsp, reads, silent>>

-----------------------------------------------------------------------------
(* The supervisor *)

\* Mutant: rRTSPServer is left alone when campipe has to be restarted.
SupCampipeOnly ==
  /\ sup = "campipe"
  /\ IF camp = "dead"
     THEN /\ camp' = "init" /\ gen' = gen + 1
          /\ sup' = "settle"
     ELSE /\ sup' = "rtsp"
          /\ UNCHANGED <<camp, gen>>
  /\ UNCHANGED <<audioOn, waited, feeder, fifo, failures, rtspVars>>

\* pidof campipe: when it is gone rRTSPServer is killed and campipe started.
SupCampipe ==
  /\ sup = "campipe"
  /\ IF camp = "dead"
     THEN /\ rtsp' = "dead" /\ reads' = Closed /\ silent' = FALSE
          /\ camp' = "init" /\ gen' = gen + 1
          /\ sup' = "settle"
     ELSE /\ sup' = "rtsp"
          /\ UNCHANGED <<camp, gen, rtspVars>>
  /\ UNCHANGED <<audioOn, waited, feeder, fifo, failures>>

\* sleep 3
SupSettle ==
  /\ sup = "settle"
  /\ sup' = "rtsp"
  /\ UNCHANGED <<audioOn, waited, campVars, rtspVars, failures>>

SupRtsp ==
  /\ sup = "rtsp"
  /\ IF rtsp = "dead"
     THEN sup' = "wait" /\ waited' = 0
     ELSE sup' = "sleep" /\ UNCHANGED waited
  /\ UNCHANGED <<audioOn, campVars, rtspVars, failures>>

\* Mutant: the FIFO is given a fixed moment instead of being waited for.
SupWaitOnce ==
  /\ sup = "wait"
  /\ sup' = "sleep"
  /\ rtsp' = "start"
  /\ UNCHANGED <<audioOn, waited, campVars, reads, silent, failures>>

\* One round of wait_audio_fifo, and the start of rRTSPServer when it is over.
SupWait ==
  /\ sup = "wait"
  /\ IF audioOn /\ fifo["audio"] = NoInode /\ waited < MaxWait
     THEN /\ waited' = waited + 1
          /\ UNCHANGED <<sup, rtsp>>
     ELSE /\ rtsp' = "start"
          /\ sup' = "sleep"
          /\ UNCHANGED waited
  /\ UNCHANGED <<audioOn, campVars, reads, silent, failures>>

\* sleep 10
SupSleep ==
  /\ sup = "sleep"
  /\ sup' = "campipe"
  /\ UNCHANGED <<audioOn, waited, campVars, rtspVars, failures>>

-----------------------------------------------------------------------------
(* campipe *)

campRest == <<audioOn, sup, waited, rtspVars>>

\* The bring-up ends and the threads are created, or it fails (goto err_...).
CampUp ==
  /\ camp = "init"
  /\ camp' = "up"
  /\ feeder' = [f \in Fifo |-> IF f = "audio" /\ ~audioOn THEN "off" ELSE "start"]
  /\ UNCHANGED <<gen, fifo, failures, campRest>>

CampFail ==
  /\ camp = "init" /\ fails < MaxFails
  /\ camp' = "dead"
  /\ fails' = fails + 1
  /\ UNCHANGED <<gen, feeder, fifo, deaths, crashes, campRest>>

\* A fault, a kill, or the regular exit, which leaves the FIFOs behind as well.
CampDie ==
  /\ camp = "up" /\ deaths < MaxDeaths
  /\ camp' = "dead"
  /\ feeder' = [f \in Fifo |-> "off"]
  /\ deaths' = deaths + 1
  /\ UNCHANGED <<gen, fifo, fails, crashes, campRest>>

\* Mutant: a thread that has no reader yet replaces its FIFO over and over.
FifoUnlinkAgain(f) ==
  /\ feeder[f] \in {"start", "made"}
  /\ fifo' = [fifo EXCEPT ![f] = NoInode]
  /\ feeder' = [feeder EXCEPT ![f] = "unlinked"]
  /\ UNCHANGED <<camp, gen, failures, campRest>>

\* The first thing a feeding thread does, and the second.
FifoUnlink(f) ==
  /\ feeder[f] = "start"
  /\ fifo' = [fifo EXCEPT ![f] = NoInode]
  /\ feeder' = [feeder EXCEPT ![f] = "unlinked"]
  /\ UNCHANGED <<camp, gen, failures, campRest>>

FifoMake(f) ==
  /\ feeder[f] = "unlinked"
  /\ fifo' = [fifo EXCEPT ![f] = gen]
  /\ feeder' = [feeder EXCEPT ![f] = "made"]
  /\ UNCHANGED <<camp, gen, failures, campRest>>

\* The thread gives up after the unlink: mkfifo failed, or made the FIFO and the
\* encoder then has no file descriptor to read from.
FeederFail(f, made) ==
  /\ feeder[f] = "unlinked"
  /\ fifo' = [fifo EXCEPT ![f] = IF made THEN gen ELSE NoInode]
  /\ feeder' = [feeder EXCEPT ![f] = "off"]
  /\ UNCHANGED <<camp, gen, failures, campRest>>

\* StartAi, or the codec before it, fails: the audio FIFO is never touched.
AudioFail ==
  /\ feeder["audio"] = "start"
  /\ feeder' = [feeder EXCEPT !["audio"] = "off"]
  /\ UNCHANGED <<camp, gen, fifo, failures, campRest>>

-----------------------------------------------------------------------------
(* rRTSPServer *)

rtspRest == <<audioOn, sup, waited, campVars>>

\* stat on the audio FIFO decides about the track.
RtspStart ==
  /\ rtsp = "start"
  /\ IF audioOn /\ fifo["audio"] # NoInode
     THEN rtsp' = "found" /\ UNCHANGED silent
     ELSE rtsp' = "serve" /\ silent' = TRUE
  /\ UNCHANGED <<reads, failures, rtspRest>>

\* The replicator opens it, which blocks, or fails if the FIFO has gone meanwhile.
RtspOpen ==
  /\ rtsp = "found"
  /\ IF fifo["audio"] # NoInode
     THEN /\ rtsp' = "audio"
          /\ reads' = [reads EXCEPT !["audio"] = fifo["audio"]]
          /\ UNCHANGED silent
     ELSE /\ rtsp' = "serve"
          /\ silent' = TRUE
          /\ UNCHANGED reads
  /\ UNCHANGED <<failures, rtspRest>>

\* A client's DESCRIBE or SETUP opens the video FIFO, if there is one.
Client ==
  /\ rtsp = "serve" /\ reads["video"] = NoInode /\ fifo["video"] # NoInode
  /\ rtsp' = "video"
  /\ reads' = [reads EXCEPT !["video"] = fifo["video"]]
  /\ UNCHANGED <<silent, failures, rtspRest>>

ClientLeaves ==
  /\ rtsp = "serve" /\ reads["video"] # NoInode
  /\ reads' = [reads EXCEPT !["video"] = NoInode]
  /\ UNCHANGED <<rtsp, silent, failures, rtspRest>>

\* The open returns once campipe has that inode open for writing.
RtspOpened ==
  /\ rtsp \in Fifo
  /\ feeder[rtsp] = "made" /\ reads[rtsp] = fifo[rtsp]
  /\ rtsp' = "serve"
  /\ UNCHANGED <<reads, silent, failures, rtspRest>>

RtspCrash ==
  /\ rtsp # "dead" /\ crashes < MaxCrashes
  /\ rtsp' = "dead" /\ reads' = Closed /\ silent' = FALSE
  /\ crashes' = crashes + 1
  /\ UNCHANGED <<deaths, fails, rtspRest>>

-----------------------------------------------------------------------------
Supervise == SupCampipe \/ SupSettle \/ SupRtsp \/ SupWait \/ SupSleep

FeedFail == AudioFail \/ \E f \in Fifo, made \in BOOLEAN : FeederFail(f, made)

Feed == (\E f \in Fifo : FifoUnlink(f) \/ FifoMake(f)) \/ FeedFail

Serve == RtspStart \/ RtspOpen \/ RtspOpened

Next ==
  \/ Supervise
  \/ CampUp \/ CampFail \/ CampDie \/ Feed
  \/ Serve \/ Client \/ ClientLeaves \/ RtspCrash

\* The loop's sleeps end; campipe's bring-up ends, one way or the other; its
\* threads, which may fail, and rRTSPServer run when they can.  Nobody has to die
\* or to connect.
Fairness ==
  /\ WF_vars(Supervise)
  /\ WF_vars(CampUp)
  /\ WF_vars(Feed)
  /\ WF_vars(Serve)

Spec == Init /\ [][Next]_vars /\ Fairness

-----------------------------------------------------------------------------
Blocked == rtsp \in Fifo

\* No rRTSPServer outlives the campipe whose FIFOs it reads into the life of the
\* next one: what it has open was made by the latest instance.  This is what
\* killing it before campipe is restarted is for.
AttachedIsCurrent ==
  \A f \in Fifo : reads[f] # NoInode /\ rtsp # f => reads[f] = gen

\* Before any campipe has died, a stream runs without its audio track only after
\* wait_audio_fifo has waited in full: rRTSPServer does not win the race.
SilentOnlyAfterWait ==
  audioOn /\ silent /\ deaths = 0 => waited = MaxWait

\* A server left on the FIFOs of a dead campipe is taken down, by the supervisor
\* if nothing else, however long its own startup takes.
ZombieKilled == (camp = "dead" /\ rtsp # "dead") ~> (rtsp = "dead")

\* The running campipe made a FIFO that no thread of its writes to.
Unfed == \E f \in Fifo : camp = "up" /\ feeder[f] = "off" /\ fifo[f] = gen

\* While no campipe has died, and no thread has given up on the FIFO it made, no
\* open of rRTSPServer blocks for ever: what it found will be written to.
OpensReturn == [](deaths = 0 /\ ~Unfed) => [](Blocked => <>(~Blocked))

\* What the supervisor's comment says of a campipe that died: "the next iteration
\* brings it back against the new FIFOs".  Once campipe stays up and feeds every
\* FIFO, rRTSPServer does not stay blocked on a FIFO of an earlier instance.
BackOnNewFifos ==
  <>[](feeder["video"] = "made" /\ (audioOn => feeder["audio"] = "made"))
    => []<>(~Blocked)
=============================================================================
