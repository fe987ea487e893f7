------------------------ MODULE NativePipelineProofs ------------------------
(***************************************************************************)
(* Proofs about NativePipeline, for every wait and every number of deaths, *)
(* failed bring-ups and crashes.                                           *)
(***************************************************************************)
EXTENDS NativePipeline, TLAPS

\* campipe's instances are numbered by what ended the earlier ones.
GenCounts == gen = deaths + fails + (IF camp = "dead" THEN 0 ELSE 1)

\* Only a running campipe has feeding threads; the FIFO one of them has made is
\* the current instance's.
FeedersLive ==
  \A f \in Fifo : /\ feeder[f] # "off" => camp = "up"
                  /\ feeder[f] = "made" => fifo[f] = gen

\* Only the supervisor starts rRTSPServer, and only when there is none.
ServerDead ==
  /\ sup = "wait" => rtsp = "dead"
  /\ rtsp = "dead" => ~silent

\* Before any campipe has died a FIFO exists only once its thread has made it.
FifosFresh ==
  deaths = 0 =>
    \A f \in Fifo :
      fifo[f] # NoInode => camp = "up" /\ feeder[f] \notin {"start", "unlinked"}

\* A server that is about to look for the audio FIFO was started after the wait.
StartsAfterWait ==
  rtsp = "start" /\ audioOn /\ deaths = 0 /\ fifo["audio"] = NoInode => waited = MaxWait

\* Nobody takes the audio FIFO away between stat and open before a campipe died.
FoundStays == rtsp = "found" /\ deaths = 0 => fifo["audio"] # NoInode

IInv == /\ TypeOK /\ GenCounts /\ FeedersLive /\ ServerDead
        /\ FifosFresh /\ StartsAfterWait /\ FoundStays
        /\ AttachedIsCurrent /\ SilentOnlyAfterWait

USE PipelineAssumption

\* Nothing runs and no FIFO exists when the supervisor starts.
LEMMA InitIInv == Init => IInv
<1> SUFFICES ASSUME Init PROVE IInv
  OBVIOUS
<1> USE DEF Init, Closed, Fifo, NoInode
<1>1. TypeOK
  <2>1. 0 \in Inode /\ 0 \in 0..MaxWait /\ 0 \in 0..MaxDeaths /\ 0 \in 0..MaxFails
        /\ 0 \in 0..MaxCrashes
    BY DEF Inode, MaxGen
  <2> QED BY <2>1, Zenon DEF TypeOK
<1>2. GenCounts
  BY DEF GenCounts
<1>3. FeedersLive /\ ServerDead /\ FifosFresh /\ StartsAfterWait /\ FoundStays
  BY DEF FeedersLive, ServerDead, FifosFresh, StartsAfterWait, FoundStays
<1>4. AttachedIsCurrent /\ SilentOnlyAfterWait
  BY DEF AttachedIsCurrent, SilentOnlyAfterWait
<1> QED BY <1>1, <1>2, <1>3, <1>4 DEF IInv

\* The number of the next instance fits: each earlier one died or failed.
LEMMA GenBound == TypeOK /\ GenCounts /\ camp = "dead" => gen + 1 \in Inode
  BY DEF TypeOK, GenCounts, Inode, NoInode, MaxGen

\* The supervisor's steps.
LEMMA SuperviseIInv == IInv /\ Supervise => IInv'
<1> SUFFICES ASSUME IInv, Supervise PROVE IInv'
  OBVIOUS
<1> USE DEF IInv, Fifo, NoInode, Closed, failures, campVars, rtspVars
<1>1. CASE SupCampipe
  <2>1. CASE camp = "dead"
    <3>1. /\ rtsp' = "dead" /\ reads' = Closed /\ silent' = FALSE
          /\ camp' = "init" /\ gen' = gen + 1 /\ sup' = "settle"
          /\ UNCHANGED <<audioOn, waited, feeder, fifo, deaths, fails, crashes>>
      BY <1>1, <2>1 DEF SupCampipe
    <3>2. TypeOK'
      <4>1. gen' \in Inode /\ 0 \in Inode
        BY <2>1, <3>1, GenBound DEF Inode, MaxGen
      <4>2. reads' \in [Fifo -> Inode]
        BY <3>1, <4>1
      <4> QED BY <3>1, <4>1, <4>2, Zenon DEF TypeOK
    <3>3. GenCounts'
      BY <2>1, <3>1 DEF GenCounts, TypeOK
    <3>4. FeedersLive' /\ ServerDead' /\ FifosFresh' /\ StartsAfterWait' /\ FoundStays'
      BY <2>1, <3>1 DEF FeedersLive, ServerDead, FifosFresh, StartsAfterWait, FoundStays, TypeOK
    <3>5. AttachedIsCurrent' /\ SilentOnlyAfterWait'
      BY <3>1 DEF AttachedIsCurrent, SilentOnlyAfterWait
    <3> QED BY <3>2, <3>3, <3>4, <3>5
  <2>2. CASE camp # "dead"
    <3>1. sup' = "rtsp" /\ UNCHANGED <<audioOn, waited, camp, gen, feeder, fifo, rtsp,
                                       reads, silent, deaths, fails, crashes>>
      BY <1>1, <2>2 DEF SupCampipe
    <3> QED BY <3>1 DEF TypeOK, GenCounts, FeedersLive, ServerDead, FifosFresh,
                        StartsAfterWait, FoundStays, AttachedIsCurrent, SilentOnlyAfterWait
  <2> QED BY <2>1, <2>2
<1>2. CASE SupSettle \/ SupSleep
  <2>1. sup' \in {"rtsp", "campipe"}
        /\ UNCHANGED <<audioOn, waited, camp, gen, feeder, fifo, rtsp,
                       reads, silent, deaths, fails, crashes>>
    BY <1>2 DEF SupSettle, SupSleep
  <2> QED BY <2>1 DEF TypeOK, GenCounts, FeedersLive, ServerDead, FifosFresh,
                      StartsAfterWait, FoundStays, AttachedIsCurrent, SilentOnlyAfterWait
<1>3. CASE SupRtsp
  <2>1. UNCHANGED <<audioOn, camp, gen, feeder, fifo, rtsp,
                    reads, silent, deaths, fails, crashes>>
    BY <1>3 DEF SupRtsp
  <2>2. \/ rtsp = "dead" /\ sup' = "wait" /\ waited' = 0
        \/ rtsp # "dead" /\ sup' = "sleep" /\ waited' = waited
    BY <1>3 DEF SupRtsp
  <2>3. TypeOK'
    BY <2>1, <2>2 DEF TypeOK
  <2>4. GenCounts' /\ FeedersLive' /\ FifosFresh' /\ AttachedIsCurrent'
    BY <2>1 DEF GenCounts, FeedersLive, FifosFresh, AttachedIsCurrent
  <2>5. ServerDead' /\ StartsAfterWait' /\ FoundStays' /\ SilentOnlyAfterWait'
    BY <2>1, <2>2 DEF ServerDead, StartsAfterWait, FoundStays, SilentOnlyAfterWait
  <2> QED BY <2>3, <2>4, <2>5
<1>4. CASE SupWait
  <2>1. UNCHANGED <<audioOn, camp, gen, feeder, fifo, reads, silent, deaths, fails, crashes>>
        /\ rtsp = "dead" /\ ~silent
    BY <1>4 DEF SupWait, ServerDead
  <2>2. \/ waited < MaxWait /\ waited' = waited + 1 /\ sup' = sup /\ rtsp' = rtsp
        \/ /\ ~(audioOn /\ fifo["audio"] = NoInode /\ waited < MaxWait)
           /\ rtsp' = "start" /\ sup' = "sleep" /\ waited' = waited
    BY <1>4 DEF SupWait
  <2>3. TypeOK'
    <3>1. waited' \in 0..MaxWait
      BY <2>2 DEF TypeOK
    <3> QED BY <2>1, <2>2, <3>1, Zenon DEF TypeOK
  <2>4. GenCounts' /\ FeedersLive' /\ FifosFresh' /\ AttachedIsCurrent'
    BY <2>1, <2>2 DEF GenCounts, FeedersLive, FifosFresh, AttachedIsCurrent
  <2>5. ServerDead' /\ SilentOnlyAfterWait'
    BY <2>1, <2>2 DEF ServerDead, SilentOnlyAfterWait
  <2>6. StartsAfterWait' /\ FoundStays'
    BY <2>1, <2>2 DEF StartsAfterWait, FoundStays, TypeOK
  <2> QED BY <2>3, <2>4, <2>5, <2>6
<1> QED BY <1>1, <1>2, <1>3, <1>4 DEF Supervise

\* campipe's steps, and those of its feeding threads.
LEMMA CampIInv ==
  ASSUME IInv, CampUp \/ CampFail \/ CampDie \/ Feed
  PROVE  IInv'
<1> USE DEF IInv, Fifo, NoInode, failures, campRest, rtspVars
<1>1. CASE CampUp
  <2>1. /\ camp = "init" /\ camp' = "up"
        /\ feeder' = [f \in Fifo |-> IF f = "audio" /\ ~audioOn THEN "off" ELSE "start"]
        /\ UNCHANGED <<gen, fifo, deaths, fails, crashes, audioOn, sup, waited, rtsp,
                       reads, silent>>
    BY <1>1 DEF CampUp
  <2>2. feeder' \in [Fifo -> {"start", "unlinked", "made", "off"}]
    BY <2>1
  <2>3. TypeOK'
    BY <2>1, <2>2, Zenon DEF TypeOK
  <2>4. GenCounts' /\ FeedersLive' /\ FifosFresh'
    BY <2>1 DEF GenCounts, FeedersLive, FifosFresh
  <2>5. ServerDead' /\ StartsAfterWait' /\ FoundStays' /\ AttachedIsCurrent' /\ SilentOnlyAfterWait'
    BY <2>1 DEF ServerDead, StartsAfterWait, FoundStays, AttachedIsCurrent, SilentOnlyAfterWait
  <2> QED BY <2>3, <2>4, <2>5
<1>2. CASE CampFail
  <2>1. /\ camp = "init" /\ camp' = "dead" /\ fails < MaxFails /\ fails' = fails + 1
        /\ UNCHANGED <<gen, feeder, fifo, deaths, crashes, audioOn, sup, waited, rtsp,
                       reads, silent>>
    BY <1>2 DEF CampFail
  <2>2. TypeOK' /\ GenCounts'
    BY <2>1 DEF TypeOK, GenCounts
  <2>3. FeedersLive' /\ FifosFresh'
    BY <2>1 DEF FeedersLive, FifosFresh
  <2>4. ServerDead' /\ StartsAfterWait' /\ FoundStays' /\ AttachedIsCurrent' /\ SilentOnlyAfterWait'
    BY <2>1 DEF ServerDead, StartsAfterWait, FoundStays, AttachedIsCurrent, SilentOnlyAfterWait
  <2> QED BY <2>2, <2>3, <2>4
<1>3. CASE CampDie
  <2>1. /\ camp = "up" /\ camp' = "dead" /\ deaths < MaxDeaths /\ deaths' = deaths + 1
        /\ feeder' = [f \in Fifo |-> "off"]
        /\ UNCHANGED <<gen, fifo, fails, crashes, audioOn, sup, waited, rtsp,
                       reads, silent>>
    BY <1>3 DEF CampDie
  <2>2. deaths' # 0 /\ feeder' \in [Fifo -> {"start", "unlinked", "made", "off"}]
    BY <2>1 DEF TypeOK
  <2>3. TypeOK' /\ GenCounts'
    BY <2>1, <2>2 DEF TypeOK, GenCounts
  <2>4. FeedersLive'
    BY <2>1 DEF FeedersLive
  <2>5. FifosFresh' /\ ServerDead' /\ StartsAfterWait' /\ FoundStays' /\ AttachedIsCurrent'
        /\ SilentOnlyAfterWait'
    BY <2>1, <2>2
       DEF FifosFresh, ServerDead, StartsAfterWait, FoundStays, AttachedIsCurrent, SilentOnlyAfterWait
  <2> QED BY <2>3, <2>4, <2>5
<1>4. ASSUME NEW f \in Fifo, FifoUnlink(f) PROVE IInv'
  <2>1. /\ feeder[f] = "start"
        /\ fifo' = [fifo EXCEPT ![f] = NoInode]
        /\ feeder' = [feeder EXCEPT ![f] = "unlinked"]
        /\ UNCHANGED <<camp, gen, deaths, fails, crashes, audioOn, sup, waited, rtsp,
                       reads, silent>>
    BY <1>4 DEF FifoUnlink
  <2>2. TypeOK'
    BY <2>1 DEF TypeOK, Inode, MaxGen
  <2>3. FeedersLive' /\ FifosFresh'
    BY <2>1 DEF FeedersLive, FifosFresh, TypeOK
  <2>4. deaths = 0 => fifo[f] = NoInode
    BY <2>1 DEF FifosFresh
  <2>5. StartsAfterWait' /\ FoundStays'
    BY <2>1, <2>4 DEF StartsAfterWait, FoundStays, TypeOK
  <2>6. GenCounts' /\ ServerDead' /\ AttachedIsCurrent' /\ SilentOnlyAfterWait'
    BY <2>1 DEF GenCounts, ServerDead, AttachedIsCurrent, SilentOnlyAfterWait
  <2> QED BY <2>2, <2>3, <2>5, <2>6
<1>5. ASSUME NEW f \in Fifo, FifoMake(f) PROVE IInv'
  <2>1. /\ feeder[f] = "unlinked"
        /\ fifo' = [fifo EXCEPT ![f] = gen]
        /\ feeder' = [feeder EXCEPT ![f] = "made"]
        /\ UNCHANGED <<camp, gen, deaths, fails, crashes, audioOn, sup, waited, rtsp,
                       reads, silent>>
    BY <1>5 DEF FifoMake
  <2>2. TypeOK'
    BY <2>1 DEF TypeOK
  <2>3. FeedersLive' /\ FifosFresh'
    BY <2>1 DEF FeedersLive, FifosFresh, TypeOK
  <2>4. gen # NoInode
    BY <2>1 DEF FeedersLive, GenCounts, TypeOK
  <2>5. StartsAfterWait' /\ FoundStays'
    BY <2>1, <2>4 DEF StartsAfterWait, FoundStays, TypeOK
  <2>6. GenCounts' /\ ServerDead' /\ AttachedIsCurrent' /\ SilentOnlyAfterWait'
    BY <2>1 DEF GenCounts, ServerDead, AttachedIsCurrent, SilentOnlyAfterWait
  <2> QED BY <2>2, <2>3, <2>5, <2>6
<1>6. CASE AudioFail
  <2>1. /\ feeder["audio"] = "start"
        /\ feeder' = [feeder EXCEPT !["audio"] = "off"]
        /\ UNCHANGED <<camp, gen, fifo, deaths, fails, crashes, audioOn, sup, waited,
                       rtsp, reads, silent>>
    BY <1>6 DEF AudioFail
  <2>2. TypeOK'
    BY <2>1 DEF TypeOK
  <2>3. FeedersLive' /\ FifosFresh'
    BY <2>1 DEF FeedersLive, FifosFresh, TypeOK
  <2>4. GenCounts' /\ ServerDead' /\ StartsAfterWait' /\ FoundStays' /\ AttachedIsCurrent'
        /\ SilentOnlyAfterWait'
    BY <2>1 DEF GenCounts, ServerDead, StartsAfterWait, FoundStays, AttachedIsCurrent,
                SilentOnlyAfterWait
  <2> QED BY <2>2, <2>3, <2>4
<1>7. ASSUME NEW f \in Fifo, NEW made \in BOOLEAN, FeederFail(f, made) PROVE IInv'
  <2>1. /\ feeder[f] = "unlinked"
        /\ fifo' = [fifo EXCEPT ![f] = IF made THEN gen ELSE NoInode]
        /\ feeder' = [feeder EXCEPT ![f] = "off"]
        /\ UNCHANGED <<camp, gen, deaths, fails, crashes, audioOn, sup, waited, rtsp,
                       reads, silent>>
    BY <1>7 DEF FeederFail
  <2>2. TypeOK'
    <3>1. (IF made THEN gen ELSE NoInode) \in Inode
      BY DEF TypeOK, Inode, MaxGen
    <3> QED BY <2>1, <3>1 DEF TypeOK
  <2>3. camp = "up" /\ FeedersLive' /\ FifosFresh'
    BY <2>1 DEF FeedersLive, FifosFresh, TypeOK
  <2>4. deaths = 0 => fifo[f] = NoInode
    BY <2>1 DEF FifosFresh
  <2>5. StartsAfterWait' /\ FoundStays'
    BY <2>1, <2>4 DEF StartsAfterWait, FoundStays, TypeOK
  <2>6. GenCounts' /\ ServerDead' /\ AttachedIsCurrent' /\ SilentOnlyAfterWait'
    BY <2>1 DEF GenCounts, ServerDead, AttachedIsCurrent, SilentOnlyAfterWait
  <2> QED BY <2>2, <2>3, <2>5, <2>6
<1> QED BY <1>1, <1>2, <1>3, <1>4, <1>5, <1>6, <1>7 DEF Feed, FeedFail

\* rRTSPServer's steps.
LEMMA RtspIInv ==
  ASSUME IInv, Serve \/ Client \/ ClientLeaves \/ RtspCrash
  PROVE  IInv'
<1> USE DEF IInv, Fifo, NoInode, Closed, failures, campVars, rtspRest
<1>1. UNCHANGED <<audioOn, sup, waited, camp, gen, feeder, fifo, deaths, fails>>
  BY DEF Serve, RtspStart, RtspOpen, RtspOpened, Client, ClientLeaves, RtspCrash
<1>2. GenCounts' /\ FeedersLive' /\ FifosFresh'
  BY <1>1 DEF GenCounts, FeedersLive, FifosFresh
<1>3. CASE RtspStart
  <2>1. /\ crashes' = crashes /\ reads' = reads /\ rtsp = "start"
        /\ \/ audioOn /\ fifo["audio"] # NoInode /\ rtsp' = "found" /\ silent' = silent
           \/ /\ ~(audioOn /\ fifo["audio"] # NoInode)
              /\ rtsp' = "serve" /\ silent' = TRUE
    BY <1>3 DEF RtspStart
  <2>2. TypeOK' /\ AttachedIsCurrent' /\ ServerDead' /\ StartsAfterWait' /\ FoundStays'
    BY <1>1, <2>1 DEF TypeOK, AttachedIsCurrent, ServerDead, StartsAfterWait, FoundStays
  <2>3. SilentOnlyAfterWait'
    BY <1>1, <2>1 DEF StartsAfterWait, SilentOnlyAfterWait
  <2> QED BY <1>2, <2>2, <2>3
<1>8. CASE RtspOpen
  <2>1. crashes' = crashes /\ rtsp = "found"
    BY <1>8 DEF RtspOpen
  <2>2. CASE fifo["audio"] # NoInode
    <3>1. /\ rtsp' = "audio" /\ silent' = silent
          /\ reads' = [reads EXCEPT !["audio"] = fifo["audio"]]
      BY <1>8, <2>2 DEF RtspOpen
    <3>2. TypeOK'
      BY <1>1, <2>1, <3>1 DEF TypeOK
    <3>3. AttachedIsCurrent'
      BY <1>1, <2>1, <3>1 DEF AttachedIsCurrent, TypeOK
    <3>4. ServerDead' /\ StartsAfterWait' /\ FoundStays' /\ SilentOnlyAfterWait'
      BY <1>1, <2>1, <3>1 DEF ServerDead, StartsAfterWait, FoundStays, SilentOnlyAfterWait
    <3> QED BY <1>2, <3>2, <3>3, <3>4
  <2>3. CASE fifo["audio"] = NoInode
    <3>1. /\ rtsp' = "serve" /\ silent' = TRUE /\ reads' = reads
          /\ deaths # 0
      BY <1>8, <2>1, <2>3 DEF RtspOpen, FoundStays
    <3>2. TypeOK' /\ AttachedIsCurrent'
      BY <1>1, <2>1, <3>1 DEF TypeOK, AttachedIsCurrent
    <3>3. ServerDead' /\ StartsAfterWait' /\ FoundStays' /\ SilentOnlyAfterWait'
      BY <1>1, <2>1, <3>1 DEF ServerDead, StartsAfterWait, FoundStays, SilentOnlyAfterWait
    <3> QED BY <1>2, <3>2, <3>3
  <2> QED BY <2>2, <2>3
<1>4. CASE RtspOpened
  <2>1. /\ rtsp \in Fifo /\ feeder[rtsp] = "made" /\ reads[rtsp] = fifo[rtsp]
        /\ rtsp' = "serve" /\ reads' = reads /\ silent' = silent /\ crashes' = crashes
    BY <1>4 DEF RtspOpened
  <2>2. reads[rtsp] = gen
    BY <2>1 DEF FeedersLive
  <2>3. AttachedIsCurrent'
    BY <1>1, <2>1, <2>2 DEF AttachedIsCurrent
  <2>4. TypeOK' /\ ServerDead' /\ StartsAfterWait' /\ FoundStays' /\ SilentOnlyAfterWait'
    BY <1>1, <2>1 DEF TypeOK, ServerDead, StartsAfterWait, FoundStays, SilentOnlyAfterWait
  <2> QED BY <1>2, <2>3, <2>4
<1>5. CASE Client
  <2>1. /\ rtsp = "serve" /\ rtsp' = "video"
        /\ reads' = [reads EXCEPT !["video"] = fifo["video"]]
        /\ silent' = silent /\ crashes' = crashes
    BY <1>5 DEF Client
  <2>2. AttachedIsCurrent'
    BY <1>1, <2>1 DEF AttachedIsCurrent, TypeOK
  <2>3. TypeOK' /\ ServerDead' /\ StartsAfterWait' /\ FoundStays' /\ SilentOnlyAfterWait'
    BY <1>1, <2>1 DEF TypeOK, ServerDead, StartsAfterWait, FoundStays, SilentOnlyAfterWait
  <2> QED BY <1>2, <2>2, <2>3
<1>6. CASE ClientLeaves
  <2>1. /\ reads' = [reads EXCEPT !["video"] = NoInode]
        /\ rtsp' = rtsp /\ silent' = silent /\ crashes' = crashes
    BY <1>6 DEF ClientLeaves
  <2>2. AttachedIsCurrent'
    BY <1>1, <2>1 DEF AttachedIsCurrent, TypeOK
  <2>3. TypeOK'
    BY <1>1, <2>1 DEF TypeOK, Inode, MaxGen
  <2>4. ServerDead' /\ StartsAfterWait' /\ FoundStays' /\ SilentOnlyAfterWait'
    BY <1>1, <2>1 DEF ServerDead, StartsAfterWait, FoundStays, SilentOnlyAfterWait
  <2> QED BY <1>2, <2>2, <2>3, <2>4
<1>7. CASE RtspCrash
  <2>1. /\ rtsp' = "dead" /\ reads' = [f \in Fifo |-> 0] /\ silent' = FALSE
        /\ crashes < MaxCrashes /\ crashes' = crashes + 1
    BY <1>7 DEF RtspCrash
  <2>2. TypeOK'
    <3>1. reads' \in [Fifo -> Inode] /\ crashes' \in 0..MaxCrashes
      BY <2>1 DEF TypeOK, Inode, MaxGen
    <3> QED BY <1>1, <2>1, <3>1, Zenon DEF TypeOK
  <2>3. AttachedIsCurrent'
    BY <2>1 DEF AttachedIsCurrent
  <2>4. ServerDead' /\ StartsAfterWait' /\ FoundStays' /\ SilentOnlyAfterWait'
    BY <1>1, <2>1 DEF ServerDead, StartsAfterWait, FoundStays, SilentOnlyAfterWait
  <2> QED BY <1>2, <2>2, <2>3, <2>4
<1> QED BY <1>3, <1>4, <1>5, <1>6, <1>7, <1>8 DEF Serve

\* Every step of the pipeline preserves the invariant.
LEMMA NextIInv == IInv /\ [Next]_vars => IInv'
<1> SUFFICES ASSUME IInv, [Next]_vars PROVE IInv'
  OBVIOUS
<1>1. CASE Supervise
  BY <1>1, SuperviseIInv
<1>2. CASE CampUp \/ CampFail \/ CampDie \/ Feed
  BY <1>2, CampIInv
<1>3. CASE Serve \/ Client \/ ClientLeaves \/ RtspCrash
  BY <1>3, RtspIInv
<1>4. CASE UNCHANGED vars
  BY <1>4 DEF vars, IInv, TypeOK, GenCounts, FeedersLive, ServerDead, FifosFresh,
              StartsAfterWait, FoundStays, AttachedIsCurrent, SilentOnlyAfterWait
<1> QED BY <1>1, <1>2, <1>3, <1>4 DEF Next

\* The invariant holds in every reachable state.
THEOREM Invariance == Spec => []IInv
  BY InitIInv, NextIInv, PTL DEF Spec

\* The pipeline's variables keep their types; the supervisor never runs out of
\* instance numbers, so no bound of the model disables a restart.
THEOREM TypeCorrect == Spec => []TypeOK
<1>1. IInv => TypeOK
  BY DEF IInv
<1> QED BY <1>1, Invariance, PTL

\* An rRTSPServer never reads the FIFOs of an earlier campipe once it has them
\* open, however often campipe dies and wherever the supervisor is then.
THEOREM Attached == Spec => []AttachedIsCurrent
<1>1. IInv => AttachedIsCurrent
  BY DEF IInv
<1> QED BY <1>1, Invariance, PTL

\* Until a campipe dies, a stream is silent only after the full wait.
THEOREM Silent == Spec => []SilentOnlyAfterWait
<1>1. IInv => SilentOnlyAfterWait
  BY DEF IInv
<1> QED BY <1>1, Invariance, PTL
=============================================================================
