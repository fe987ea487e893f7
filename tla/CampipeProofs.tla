---------------------------- MODULE CampipeProofs ----------------------------
(***************************************************************************)
(* Proofs about campipe: its main (CampipeMain), its speaker (AudioOut)    *)
(* and its snapshots (Hwsnap), each on its own, and then campipe as a      *)
(* whole: it is its components, each of which the others leave alone, so   *)
(* that what has been proved of them holds of it, for every configuration  *)
(* and all sizes.                                                          *)
(***************************************************************************)
EXTENDS Campipe, FifoProofs, FiniteSetTheorems, SequenceTheorems, TLAPS

-----------------------------------------------------------------------------
(* CampipeMain: for any set of configurations, any number of failures and *)
(* signals, a thread runs only on what is up.                             *)

(* What the bring-up contains *)

Parts == {"sys", "vi", "vpss", "md", "venc", "acodec"}

Names == {"SYS_Init", "StartMIPI", "plugin", "AE_Register", "AWB_Register", "AF_Register",
          "MemInit", "SetWDRMode", "SetPubAttr", "ISP_Init", "ISP_Run", "SetDevAttr",
          "EnableDev", "StartChn", "SetLDCAttr", "StartGroup", "VI_BindVpss", "EnableChn",
          "CreateChn", "StartRecvPic", "BindVpss", "CfgAcodec"}

Call == [part : Parts, call : Names]

\* s has a call of a part that every configuration with that part makes.
Makes(s, p) == \E i \in 1..Len(s) : s[i].part = p /\ s[i].call # "SetLDCAttr"

\* A call of the first sequence or of the second is one of both together.
LEMMA MakesConcat ==
  ASSUME NEW s \in Seq(Call), NEW t \in Seq(Call), NEW p, Makes(s, p) \/ Makes(t, p)
  PROVE  Makes(s \o t, p)
<1>1. /\ Len(s) \in Nat /\ Len(t) \in Nat /\ Len(s \o t) = Len(s) + Len(t)
      /\ \A i \in 1..(Len(s) + Len(t)) :
           (s \o t)[i] = IF i <= Len(s) THEN s[i] ELSE t[i - Len(s)]
  BY ConcatProperties, LenProperties
<1>2. CASE Makes(s, p)
  BY <1>1, <1>2 DEF Makes
<1>3. CASE Makes(t, p)
  <2>1. PICK i \in 1..Len(t) : t[i].part = p /\ t[i].call # "SetLDCAttr"
    BY <1>3 DEF Makes
  <2>2. i + Len(s) \in 1..(Len(s) + Len(t)) /\ (s \o t)[i + Len(s)] = t[i]
    BY <1>1
  <2> QED BY <1>1, <2>1, <2>2 DEF Makes
<1> QED BY <1>2, <1>3

\* The calls of a part begin with one that is always made.
LEMMA CallsMake ==
  ASSUME NEW steps \in Seq(Names), Len(steps) > 0, steps[1] # "SetLDCAttr", NEW p \in Parts
  PROVE  Calls(p, steps) \in Seq(Call) /\ Makes(Calls(p, steps), p)
<1>1. DOMAIN steps = 1..Len(steps) /\ Len(steps) \in Nat
  BY LenProperties
<1>2. Calls(p, steps) \in [1..Len(steps) -> Call]
  BY <1>1, ElementOfSeq DEF Calls, Call
<1>3. Calls(p, steps) \in Seq(Call) /\ Len(Calls(p, steps)) = Len(steps)
  BY <1>1, <1>2
<1> QED BY <1>1, <1>3 DEF Calls, Makes

\* A concatenation begins as its first part does.
LEMMA ConcatFirst ==
  ASSUME NEW s \in Seq(Names), NEW t \in Seq(Names), Len(s) > 0
  PROVE  s \o t \in Seq(Names) /\ Len(s \o t) > 0 /\ (s \o t)[1] = s[1]
<1>1. Len(s) \in Nat /\ Len(t) \in Nat
  BY LenProperties
<1> QED BY <1>1, ConcatProperties

\* The bring-up makes a call of every part.
LEMMA BringUpMakes ==
  /\ BringUp \in Seq(Call) /\ Len(BringUp) \in Nat
  /\ \A p \in Parts : Makes(BringUp, p)
<1> DEFINE c1 == Calls("sys", <<"SYS_Init">>)
           c2 == Calls("vi", StartViIsp)
           c3 == Calls("vpss", <<"StartGroup", "VI_BindVpss", "EnableChn", "EnableChn", "EnableChn">>)
           c4 == Calls("md", <<"EnableChn">>)
           c5 == Calls("venc", StartH264 \o StartH264 \o StartJpeg \o StartJpeg)
           c6 == Calls("acodec", <<"CfgAcodec">>)
<1>1. c1 \in Seq(Call) /\ Makes(c1, "sys")
  <2> DEFINE steps == <<"SYS_Init">>
  <2>1. steps \in Seq(Names) /\ Len(steps) > 0 /\ steps[1] # "SetLDCAttr"
    BY DEF Names
  <2> HIDE DEF steps
  <2>2. Calls("sys", steps) \in Seq(Call) /\ Makes(Calls("sys", steps), "sys")
    BY <2>1, CallsMake DEF Parts
  <2> QED BY <2>2 DEF steps
<1>2. c2 \in Seq(Call) /\ Makes(c2, "vi")
  <2> DEFINE a == <<"StartMIPI">>
             b == <<"ISP_Run", "SetDevAttr", "EnableDev", "StartChn", "SetLDCAttr">>
  <2>1. a \in Seq(Names) /\ b \in Seq(Names) /\ Len(a) > 0 /\ a[1] = "StartMIPI"
    BY DEF Names
  <2>2. IspInit \in Seq(Names)
    BY DEF IspInit, Names
  <2> HIDE DEF a, b
  <2>3. a \o IspInit \in Seq(Names) /\ Len(a \o IspInit) > 0 /\ (a \o IspInit)[1] = "StartMIPI"
    BY <2>1, <2>2, ConcatFirst
  <2>4. (a \o IspInit) \o b \in Seq(Names) /\ Len((a \o IspInit) \o b) > 0
        /\ ((a \o IspInit) \o b)[1] = "StartMIPI"
    BY <2>1, <2>3, ConcatFirst
  <2>5. StartViIsp = (a \o IspInit) \o b
    BY DEF StartViIsp, a, b
  <2> QED BY <2>4, <2>5, CallsMake DEF Parts
<1>3. c3 \in Seq(Call) /\ Makes(c3, "vpss")
  <2> DEFINE steps == <<"StartGroup", "VI_BindVpss", "EnableChn", "EnableChn", "EnableChn">>
  <2>1. steps \in Seq(Names) /\ Len(steps) > 0 /\ steps[1] # "SetLDCAttr"
    BY DEF Names
  <2> HIDE DEF steps
  <2>2. Calls("vpss", steps) \in Seq(Call) /\ Makes(Calls("vpss", steps), "vpss")
    BY <2>1, CallsMake DEF Parts
  <2> QED BY <2>2 DEF steps
<1>4. c4 \in Seq(Call) /\ Makes(c4, "md")
  <2> DEFINE steps == <<"EnableChn">>
  <2>1. steps \in Seq(Names) /\ Len(steps) > 0 /\ steps[1] # "SetLDCAttr"
    BY DEF Names
  <2> HIDE DEF steps
  <2>2. Calls("md", steps) \in Seq(Call) /\ Makes(Calls("md", steps), "md")
    BY <2>1, CallsMake DEF Parts
  <2> QED BY <2>2 DEF steps
<1>5. c5 \in Seq(Call) /\ Makes(c5, "venc")
  <2>1. /\ StartH264 \in Seq(Names) /\ StartJpeg \in Seq(Names)
        /\ Len(StartH264) > 0 /\ StartH264[1] = "CreateChn"
    BY DEF StartH264, StartJpeg, Names
  <2> DEFINE v2 == StartH264 \o StartH264
             v3 == v2 \o StartJpeg
             v4 == v3 \o StartJpeg
  <2>2. v2 \in Seq(Names) /\ Len(v2) > 0 /\ v2[1] = "CreateChn"
    BY <2>1, ConcatFirst
  <2> HIDE DEF v2
  <2>3. v3 \in Seq(Names) /\ Len(v3) > 0 /\ v3[1] = "CreateChn"
    BY <2>1, <2>2, ConcatFirst
  <2> HIDE DEF v3
  <2>4. v4 \in Seq(Names) /\ Len(v4) > 0 /\ v4[1] = "CreateChn"
    BY <2>1, <2>3, ConcatFirst
  <2>5. c5 = Calls("venc", v4)
    BY DEF v2, v3
  <2> QED BY <2>4, <2>5, CallsMake DEF Parts
<1>6. c6 \in Seq(Call) /\ Makes(c6, "acodec")
  <2> DEFINE steps == <<"CfgAcodec">>
  <2>1. steps \in Seq(Names) /\ Len(steps) > 0 /\ steps[1] # "SetLDCAttr"
    BY DEF Names
  <2> HIDE DEF steps
  <2>2. Calls("acodec", steps) \in Seq(Call) /\ Makes(Calls("acodec", steps), "acodec")
    BY <2>1, CallsMake DEF Parts
  <2> QED BY <2>2 DEF steps
<1>7. BringUp = ((((c1 \o c2) \o c3) \o c4) \o c5) \o c6
  BY DEF BringUp
<1> HIDE DEF c1, c2, c3, c4, c5, c6
<1>8. /\ c1 \o c2 \in Seq(Call)
      /\ (c1 \o c2) \o c3 \in Seq(Call)
      /\ ((c1 \o c2) \o c3) \o c4 \in Seq(Call)
      /\ (((c1 \o c2) \o c3) \o c4) \o c5 \in Seq(Call)
      /\ ((((c1 \o c2) \o c3) \o c4) \o c5) \o c6 \in Seq(Call)
  BY <1>1, <1>2, <1>3, <1>4, <1>5, <1>6, ConcatProperties
<1>9. Makes(c1 \o c2, "sys") /\ Makes(c1 \o c2, "vi")
  BY <1>1, <1>2, MakesConcat
<1>10. \A p \in {"sys", "vi", "vpss"} : Makes((c1 \o c2) \o c3, p)
  BY <1>3, <1>8, <1>9, MakesConcat
<1>11. \A p \in {"sys", "vi", "vpss", "md"} : Makes(((c1 \o c2) \o c3) \o c4, p)
  BY <1>4, <1>8, <1>10, MakesConcat
<1>12. \A p \in {"sys", "vi", "vpss", "md", "venc"} : Makes((((c1 \o c2) \o c3) \o c4) \o c5, p)
  BY <1>5, <1>8, <1>11, MakesConcat
<1>13. \A p \in Parts : Makes(((((c1 \o c2) \o c3) \o c4) \o c5) \o c6, p)
  BY <1>6, <1>8, <1>12, MakesConcat DEF Parts
<1> QED BY <1>7, <1>8, <1>13, LenProperties

-----------------------------------------------------------------------------
(* The invariant *)

Threads == {"high", "low"} \cup on

\* main has threads; or had them, or was on the way out before.
Serving == {"test", "enter", "pause", "join"}
Leaving == {"stop", "err_vpss", "err_vi", "err_sys", "exited"}

\* Until something is taken down, the calls behind main have brought their parts up.
PartsUp ==
  main \in {"up", "stop"} \cup Serving =>
    \A i \in 1..done : ~Skipped(BringUp[i]) => BringUp[i].part \in up

\* Threads are those that are wanted, run between Spawn and Join only, and are
\* started when the bring-up is complete.
ThreadsInTime ==
  /\ main = "up" => \A t \in Thread : thread[t] = "none"
  /\ main \in Serving => /\ done = Len(BringUp)
                         /\ \A t \in Thread \ Threads : thread[t] = "none"
  /\ main \in Leaving => \A t \in Thread : thread[t] # "run"

MainIInv == MainTypeOK /\ PartsUp /\ ThreadsInTime

\* What a failed call leads to.
LEMMA ErrLabelType == \A c : ErrLabel(c) \in {"exited", "err_sys", "err_vi", "err_vpss"}
  BY Zenon DEF ErrLabel

\* The next call is one of the calls.
LEMMA NextCallType ==
  ASSUME MainTypeOK, done < Len(BringUp)
  PROVE  /\ done + 1 \in 1..Len(BringUp) /\ NextCall \in Call
         /\ NextCall.part \in Parts
<1>1. done \in 0..Len(BringUp) /\ Len(BringUp) \in Nat /\ BringUp \in Seq(Call)
  BY BringUpMakes DEF MainTypeOK
<1>2. done + 1 \in 1..Len(BringUp)
  BY <1>1
<1>3. BringUp[done + 1] \in Call
  BY <1>1, <1>2, ElementOfSeq
<1> QED BY <1>2, <1>3 DEF NextCall, Call

\* With the whole bring-up behind it, everything is up that a wanted thread uses.
LEMMA AllUp ==
  ASSUME MainTypeOK, PartsUp, main \in {"up", "stop"} \cup Serving, done = Len(BringUp)
  PROVE  \A t \in Threads : Uses(t) \subseteq up
<1>1. ASSUME NEW p \in Parts, p = "md" => "md" \in on,
             p = "acodec" => on \cap {"ao", "ai"} # {}
      PROVE  p \in up
  <2>1. PICK i \in 1..Len(BringUp) : BringUp[i].part = p /\ BringUp[i].call # "SetLDCAttr"
    BY BringUpMakes DEF Makes
  <2>2. ~Skipped(BringUp[i])
    BY <1>1, <2>1 DEF Skipped
  <2> QED BY <2>1, <2>2 DEF PartsUp
<1>2. {"sys", "vi", "vpss", "venc"} \subseteq up
  BY <1>1 DEF Parts
<1>3. "md" \in on => "md" \in up
  BY <1>1 DEF Parts
<1>4. on \cap {"ao", "ai"} # {} => "acodec" \in up
  BY <1>1 DEF Parts
<1>5. ASSUME NEW t \in {"high", "low"} PROVE Uses(t) \subseteq up
  BY <1>2, Zenon DEF Uses
<1>6. ASSUME "md" \in on PROVE Uses("md") \subseteq up
  <2>1. Uses("md") = {"sys", "vi", "vpss", "md"}
    BY Zenon DEF Uses
  <2> QED BY <1>2, <1>3, <1>6, <2>1
<1>7. ASSUME NEW t \in {"ao", "ai"}, t \in on PROVE Uses(t) \subseteq up
  <2>1. Uses(t) = {"sys", "acodec"}
    BY Zenon DEF Uses
  <2> QED BY <1>2, <1>4, <1>7, <2>1
<1> QED BY <1>5, <1>6, <1>7 DEF Threads, MainTypeOK

\* Before the first call.
LEMMA InitMainIInv == MainInit => MainIInv
<1> SUFFICES ASSUME MainInit PROVE MainIInv
  OBVIOUS
<1>1. cfg \in Config
  BY MainAssumption DEF MainInit
<1>2. cfg.maxSignals \in Nat /\ cfg.maxFails \in Nat
  BY <1>1 DEF Config
<1>3. on \subseteq {"md", "ao", "ai"}
  BY DEF MainInit, Wanted
<1>4. MainTypeOK
  <2>1. done \in 0..Len(BringUp)
    BY BringUpMakes DEF MainInit
  <2>2. thread \in [Thread -> {"none", "run", "ended"}]
    BY DEF MainInit
  <2>3. cfg \in Configs /\ main = "up" /\ up = {} /\ gStop = FALSE /\ signals = 0 /\ fails = 0
    BY DEF MainInit
  <2>4. signals \in 0..cfg.maxSignals /\ fails \in 0..cfg.maxFails
    BY <1>2, <2>3
  <2>5. gStop \in BOOLEAN /\ up \subseteq Parts
    BY <2>3
  <2> HIDE DEF Thread
  <2> QED BY <1>3, <2>1, <2>2, <2>3, <2>4, <2>5 DEF MainTypeOK, Parts
<1>5. PartsUp /\ ThreadsInTime
  BY DEF MainInit, PartsUp, ThreadsInTime, Serving, Leaving
<1> QED BY <1>4, <1>5 DEF MainIInv

\* The types, step by step.
LEMMA NextMainTypeOK == MainTypeOK /\ [MainNext]_mainVars => MainTypeOK'
<1> SUFFICES ASSUME MainTypeOK, [MainNext]_mainVars PROVE MainTypeOK'
  OBVIOUS
<1> USE DEF MainTypeOK
<1>0. cfg.maxSignals \in Nat /\ cfg.maxFails \in Nat
  BY MainAssumption DEF Config
<1>1. CASE CallWorks
  <2>1. done + 1 \in 0..Len(BringUp) /\ NextCall.part \in Parts
    BY <1>1, NextCallType, BringUpMakes DEF CallWorks
  <2> QED BY <1>1, <2>1 DEF CallWorks, Parts
<1>2. CASE CallFails
  <2>1. done + 1 \in 0..Len(BringUp) /\ fails + 1 \in 0..cfg.maxFails
    BY <1>0, <1>2, NextCallType, BringUpMakes DEF CallFails
  <2>2. on' \subseteq on /\ done' \in 0..Len(BringUp)
    BY <1>2, <2>1 DEF CallFails
  <2>3. main' \in {"up", "exited", "err_sys", "err_vi", "err_vpss"}
    BY <1>2, ErrLabelType DEF CallFails
  <2> QED BY <1>2, <2>1, <2>2, <2>3 DEF CallFails
<1>3. CASE Spawn
  BY <1>3 DEF Spawn
<1>4. CASE StopTest \/ Pause
  BY <1>4 DEF StopTest, Pause
<1>5. CASE OnSignal
  BY <1>0, <1>5 DEF OnSignal
<1>6. CASE Join \/ TakeDown
  BY <1>6 DEF Join, TakeDown
<1>7. CASE \E t \in Thread : ThreadEnds(t)
  BY <1>0, <1>7 DEF ThreadEnds, Ends
<1>8. CASE UNCHANGED mainVars
  BY <1>8 DEF mainVars
<1> QED BY <1>1, <1>2, <1>3, <1>4, <1>5, <1>6, <1>7, <1>8 DEF MainNext, MainStep

\* A part that is up stays up as long as the threads are there; a call that fails
\* takes what depends on it out of what is wanted, so that it is skipped.
LEMMA NextPartsUp == MainIInv /\ [MainNext]_mainVars => PartsUp'
<1> SUFFICES ASSUME MainIInv, [MainNext]_mainVars, main' \in {"up", "stop"} \cup Serving,
                    NEW i \in 1..done', ~Skipped(BringUp[i])'
             PROVE  BringUp[i].part \in up'
  BY DEF PartsUp
<1> USE DEF MainIInv
<1>0. BringUp' = BringUp
  BY DEF BringUp
<1>1. CASE CallWorks
  <2>1. cfg' = cfg /\ on' = on /\ done' = done + 1 /\ main' = main /\ main = "up"
    BY <1>1 DEF CallWorks
  <2>2. ~Skipped(BringUp[i])
    BY <2>1 DEF Skipped
  <2>3. CASE i = done + 1
    BY <1>1, <2>2, <2>3 DEF CallWorks, NextCall
  <2>4. CASE i # done + 1
    BY <1>1, <2>1, <2>2, <2>4 DEF CallWorks, PartsUp, MainTypeOK
  <2> QED BY <2>3, <2>4
<1>2. CASE CallFails
  <2>1. main = "up" /\ up' = up /\ cfg' = cfg /\ on' \subseteq on
    BY <1>2 DEF CallFails
  <2>2. NextCall.part \in {"md", "acodec"}
    BY <1>2, ErrLabelType DEF CallFails, Serving
  <2>3. done' = done + 1 /\ on' = on \ (IF NextCall.part = "md" THEN {"md"} ELSE {"ao", "ai"})
    BY <1>2, <2>2 DEF CallFails
  <2>4. ~Skipped(BringUp[i])
    BY <2>1 DEF Skipped
  <2>5. CASE i = done + 1
    BY <2>2, <2>3, <2>5 DEF Skipped, NextCall
  <2>6. CASE i # done + 1
    BY <2>1, <2>3, <2>4, <2>6 DEF PartsUp, MainTypeOK
  <2> QED BY <2>5, <2>6
<1>3. CASE Spawn \/ StopTest \/ Pause \/ OnSignal \/ Join \/ \E t \in Thread : ThreadEnds(t)
  <2>1. /\ cfg' = cfg /\ on' = on /\ done' = done /\ up' = up
        /\ main \in {"up", "stop"} \cup Serving
    BY <1>3 DEF Spawn, StopTest, Pause, OnSignal, Join, ThreadEnds, Serving
  <2>2. ~Skipped(BringUp[i])
    BY <2>1 DEF Skipped
  <2> QED BY <2>1, <2>2 DEF PartsUp
<1>4. CASE TakeDown
  BY <1>4 DEF TakeDown, Serving
<1>5. CASE UNCHANGED mainVars
  <2>1. ~Skipped(BringUp[i])
    BY <1>5 DEF Skipped, mainVars
  <2> QED BY <1>5, <2>1 DEF PartsUp, mainVars
<1> QED BY <1>1, <1>2, <1>3, <1>4, <1>5 DEF MainNext, MainStep

\* No thread comes but with Spawn, and main leaves only behind the last of them.
LEMMA NextThreadsInTime == MainIInv /\ [MainNext]_mainVars => ThreadsInTime'
<1> SUFFICES ASSUME MainIInv, [MainNext]_mainVars PROVE ThreadsInTime'
  OBVIOUS
<1> USE DEF MainIInv, ThreadsInTime, Serving, Leaving
<1>0. BringUp' = BringUp /\ thread \in [Thread -> {"none", "run", "ended"}]
  BY DEF BringUp, MainTypeOK
<1>1. CASE CallWorks
  BY <1>0, <1>1 DEF CallWorks
<1>2. CASE CallFails
  BY <1>0, <1>2, ErrLabelType DEF CallFails
<1>3. CASE Spawn
  BY <1>0, <1>3 DEF Spawn, Threads
<1>4. CASE StopTest \/ Pause
  BY <1>0, <1>4 DEF StopTest, Pause, Threads
<1>5. CASE OnSignal
  BY <1>0, <1>5 DEF OnSignal, Threads
<1>6. CASE Join
  <2>1. \A t \in Thread : thread[t] # "run"
    BY <1>6 DEF Join, Threads
  <2> QED BY <1>0, <1>6, <2>1 DEF Join
<1>7. CASE TakeDown
  BY <1>0, <1>7 DEF TakeDown
<1>8. ASSUME NEW t \in Thread, ThreadEnds(t) PROVE ThreadsInTime'
  <2>1. /\ main' = main /\ on' = on /\ done' = done
        /\ \A r \in Thread : thread'[r] = IF r = t THEN "ended" ELSE thread[r]
        /\ thread[t] = "run"
    BY <1>0, <1>8 DEF ThreadEnds, Ends
  <2> QED BY <1>0, <2>1 DEF Threads
<1>9. CASE UNCHANGED mainVars
  BY <1>0, <1>9 DEF mainVars, Threads
<1> QED BY <1>1, <1>2, <1>3, <1>4, <1>5, <1>6, <1>7, <1>8, <1>9 DEF MainNext, MainStep

LEMMA NextMainIInv == MainIInv /\ [MainNext]_mainVars => MainIInv'
  BY NextMainTypeOK, NextPartsUp, NextThreadsInTime DEF MainIInv

\* A thread that runs is one of the wanted, and main still serves.
LEMMA MainIInvUp == MainIInv => ThreadsOnWhatIsUp
<1> SUFFICES ASSUME MainIInv, NEW t \in Thread, thread[t] = "run"
             PROVE  Uses(t) \subseteq up
  BY DEF ThreadsOnWhatIsUp
<1>1. main \in Serving /\ t \in Threads /\ done = Len(BringUp)
  BY DEF MainIInv, MainTypeOK, ThreadsInTime, Serving, Leaving
<1> QED BY <1>1, AllUp DEF MainIInv

\* campipe's main stays within its types, whatever fails and whoever signals.
THEOREM MainTypes == MainSpec => []MainTypeOK
<1>1. MainIInv => MainTypeOK
  BY DEF MainIInv
<1> QED BY <1>1, InitMainIInv, NextMainIInv, PTL DEF MainSpec

\* Whatever fails on the way up and whenever the signal comes, no thread uses what is
\* not up.
THEOREM OnWhatIsUp == MainSpec => []ThreadsOnWhatIsUp
  BY InitMainIInv, NextMainIInv, MainIInvUp, PTL DEF MainSpec

-----------------------------------------------------------------------------
(* AudioOut: for every frame size, device depth and number of bytes, the  *)
(* frame buffer is in order, the amplifier covers playback, and ao_thread *)
(* implements the abstract speaker.                                       *)

\* What is inductive: the two invariants need each other's facts about fill, and
\* the bounds of TypeOK need that no more is read than was written.
IInv == TypeOK /\ BufferInOrder /\ AmpCoversPlayback /\ got <= written

USE AudioAssumption

\* ao_thread starts with an empty buffer and the amplifier off.
LEMMA InitIInv == Init => IInv
<1> SUFFICES ASSUME Init PROVE IInv
  OBVIOUS
<1>1. TypeOK
  <2>1. running \in BOOLEAN /\ amp \in BOOLEAN
    BY Zenon DEF Init
  <2>2. 0 \in Offset /\ 0 \in Byte /\ 0 \in 0..(IdleTicks - 1)
        /\ 0 \in 0..AoDepth /\ 0 \in 0..MaxErrors
    BY DEF Offset, Byte
  <2>3. [i \in Offset |-> Silence] \in [Offset -> Byte]
    BY <2>2 DEF Silence
  <2> QED BY <2>1, <2>2, <2>3, Zenon DEF Init, TypeOK
<1>2. BufferInOrder
  BY DEF Init, BufferInOrder, Offset
<1>3. AmpCoversPlayback /\ got <= written
  BY DEF Init, AmpCoversPlayback
<1> QED BY <1>1, <1>2, <1>3 DEF IInv

\* Sums and differences of whole samples are whole samples.
LEMMA EvenSum == \A a, b \in Int : a % 2 = 0 /\ b % 2 = 0 => (a + b) % 2 = 0
  BY SMT

LEMMA OddPred == \A a \in Int : a % 2 = 1 => (a - 1) % 2 = 0
  BY SMT

\* Assembling a frame from a read of n bytes keeps the buffer in order.
LEMMA ReadIInv ==
  ASSUME IInv, NEW n \in 1..FrameBytes, Read(n)
  PROVE  IInv'
<1> USE DEF IInv, Offset, Byte
<1>1. /\ got' = got + n /\ got' \in Byte /\ (got <= written)'
      /\ running' = running /\ written' = written /\ errors' = errors
      /\ amp' = TRUE /\ idleTicks' = 0
  BY DEF Read, TypeOK
<1>2. \A i \in Offset :
        vir'[i] = IF fill <= i /\ i < fill + n THEN got + (i - fill) + 1 ELSE vir[i]
  BY DEF Read
<1>3. \A i \in Offset : i < fill + n => vir'[i] = sent + i + 1
  BY <1>2 DEF TypeOK, BufferInOrder
<1>4. vir' \in [Offset -> Byte]
  <2>1. \A i \in Offset : vir'[i] \in Byte
    BY <1>1, <1>2 DEF TypeOK
  <2> QED BY <2>1 DEF Read
<1>5. CASE fill + n = FrameBytes
  <2>1. frame' = vir' /\ sent' = sent + FrameBytes /\ fill' = 0 /\ busy' \in 0..AoDepth
    BY <1>5 DEF Read, SendFrame, TypeOK
  <2>2. TypeOK'
    BY <1>1, <1>4, <1>5, <2>1 DEF TypeOK, BufferInOrder
  <2>3. BufferInOrder'
    BY <1>1, <1>5, <2>1, EvenSum DEF TypeOK, BufferInOrder
  <2> QED BY <1>1, <2>2, <2>3 DEF AmpCoversPlayback
<1>6. CASE fill + n # FrameBytes
  <2>1. frame' = frame /\ sent' = sent /\ fill' = fill + n /\ busy' = busy
    BY <1>6 DEF Read
  <2>2. TypeOK'
    BY <1>1, <1>4, <1>6, <2>1 DEF TypeOK, Read
  <2>3. BufferInOrder'
    BY <1>1, <1>3, <2>1 DEF TypeOK, BufferInOrder
  <2> QED BY <1>1, <2>2, <2>3 DEF AmpCoversPlayback
<1> QED BY <1>5, <1>6

\* Flushing a partial frame keeps an odd last byte, as the first of the next.
LEMMA FlushIInv == IInv /\ Flush => IInv'
<1> SUFFICES ASSUME IInv, Flush PROVE IInv'
  OBVIOUS
<1> USE DEF IInv, Offset, Byte, Silence
<1>1. fill % 2 \in {0, 1}
  BY DEF TypeOK
<1> DEFINE keep == fill % 2
           padded == [i \in Offset |-> IF i < fill - keep THEN vir[i] ELSE Silence]
<1>2. /\ fill' = keep /\ sent' = sent + (fill - keep) /\ frame' = padded
      /\ vir' = [padded EXCEPT ![0] = IF keep = 1 THEN vir[fill - 1] ELSE @]
      /\ idleTicks' = 0 /\ busy' \in 0..AoDepth
      /\ UNCHANGED <<running, written, got, amp, errors>>
      /\ amp /\ fill >= 2
  BY DEF Flush, SendFrame, TypeOK
<1>3. padded \in [Offset -> Byte]
  BY <1>1 DEF TypeOK
<1>4. /\ vir' \in [Offset -> Byte]
      /\ keep = 1 => vir'[0] = vir[fill - 1]
  <2>1. 0 \in Offset /\ fill - 1 \in Offset
    BY <1>2 DEF TypeOK
  <2>2. vir[fill - 1] \in Byte
    BY <2>1 DEF TypeOK
  <2> HIDE DEF padded, keep
  <2> QED BY <1>2, <1>3, <2>1, <2>2
<1>5. sent' \in Byte /\ fill' \in Offset
  BY <1>1, <1>2 DEF TypeOK, BufferInOrder
<1>6. TypeOK'
  <2> HIDE DEF padded, keep
  <2> QED BY <1>2, <1>3, <1>4, <1>5 DEF TypeOK
<1>7. (got = sent + fill)' /\ (sent % 2 = 0)'
  <2>1. (fill - keep) % 2 = 0
    BY <1>1, OddPred DEF TypeOK
  <2> QED BY <1>1, <1>2, <2>1, EvenSum DEF TypeOK, BufferInOrder
<1>8. \A i \in Offset : i < fill' => vir'[i] = sent' + i + 1
  <2> SUFFICES ASSUME NEW i \in Offset, i < fill' PROVE vir'[i] = sent' + i + 1
    OBVIOUS
  <2>1. keep = 1 /\ i = 0
    BY <1>1, <1>2
  <2>2. vir[fill - 1] = sent + (fill - 1) + 1
    BY <1>2 DEF TypeOK, BufferInOrder
  <2> QED BY <1>2, <1>4, <2>1, <2>2 DEF TypeOK
<1>9. AmpCoversPlayback' /\ (got <= written)'
  BY <1>2 DEF AmpCoversPlayback
<1> QED BY <1>6, <1>7, <1>8, <1>9 DEF BufferInOrder

\* Every step of ao_thread, its writers and the device preserves the invariant.
LEMMA NextIInv == IInv /\ [Next]_vars => IInv'
<1> SUFFICES ASSUME IInv, [Next]_vars PROVE IInv'
  OBVIOUS
<1>1. ASSUME NEW n \in 1..MaxBytes, Write(n) PROVE IInv'
  BY <1>1 DEF Write, IInv, TypeOK, BufferInOrder, AmpCoversPlayback, Offset, Byte
<1>2. CASE AoPlayed
  BY <1>2 DEF AoPlayed, IInv, TypeOK, BufferInOrder, AmpCoversPlayback
<1>3. ASSUME NEW n \in 1..FrameBytes, Read(n) PROVE IInv'
  BY <1>3, ReadIInv
<1>4. CASE Flush
  BY <1>4, FlushIInv
<1>5. ASSUME NEW ok \in BOOLEAN, Quiet(ok) PROVE IInv'
  <2>1. UNCHANGED <<running, written, got, vir, fill, busy, sent, frame>>
    BY <1>5 DEF Quiet
  <2>2. BufferInOrder' /\ (got <= written)'
    BY <2>1 DEF IInv, BufferInOrder
  <2>3. TypeOK'
    <3>1. amp' \in BOOLEAN
      BY <1>5, Zenon DEF Quiet, IInv, TypeOK
    <3>2. idleTicks' \in 0..(IdleTicks - 1)
      <4>1. \/ idleTicks' = 0
            \/ idleTicks' = idleTicks + 1 /\ ~(idleTicks + 1 >= IdleTicks)
        BY <1>5, Zenon DEF Quiet
      <4> QED BY <4>1 DEF IInv, TypeOK
    <3>3. errors' \in 0..MaxErrors
      BY <1>5 DEF Quiet, IInv, TypeOK
    <3> QED BY <2>1, <3>1, <3>2, <3>3, Zenon DEF IInv, TypeOK
  <2>4. AmpCoversPlayback'
    BY <1>5, <2>1 DEF Quiet, IInv, AmpCoversPlayback
  <2> QED BY <2>2, <2>3, <2>4 DEF IInv
<1>6. CASE Stop
  <2>1. BufferInOrder' /\ (got <= written)'
    BY <1>6 DEF Stop, IInv, BufferInOrder
  <2>2. 0 \in 0..AoDepth
    OBVIOUS
  <2>3. TypeOK'
    BY <1>6, <2>2, Zenon DEF Stop, IInv, TypeOK
  <2>4. AmpCoversPlayback'
    BY <1>6 DEF Stop, AmpCoversPlayback
  <2> QED BY <2>1, <2>3, <2>4 DEF IInv
<1>7. CASE UNCHANGED vars
  BY <1>7 DEF vars, IInv, TypeOK, BufferInOrder, AmpCoversPlayback
<1> QED BY <1>1, <1>2, <1>3, <1>4, <1>5, <1>6, <1>7 DEF Next, Poll

\* The invariant holds in every reachable state.
THEOREM Invariance == Spec => []IInv
  BY InitIInv, NextIInv, PTL DEF Spec

\* The variables of ao_thread keep their types; no read overruns the buffer.
THEOREM TypeCorrect == Spec => []TypeOK
<1>1. IInv => TypeOK
  BY DEF IInv
<1> QED BY <1>1, Invariance, PTL

\* The frame buffer is in order and sample-aligned, for every pattern of reads.
THEOREM BufferOrder == Spec => []BufferInOrder
<1>1. IInv => BufferInOrder
  BY DEF IInv
<1> QED BY <1>1, Invariance, PTL

\* The amplifier is on whenever the device plays.
THEOREM AmpCovers == Spec => []AmpCoversPlayback
<1>1. IInv => AmpCoversPlayback
  BY DEF IInv
<1> QED BY <1>1, Invariance, PTL

-----------------------------------------------------------------------------
(* Refinement *)

\* The buffer that is sent when a frame is full is the next frame of the stream.
LEMMA ReadRefines ==
  ASSUME IInv, NEW n \in 1..FrameBytes, Read(n)
  PROVE  [Spk!SpeakerNext]_(Spk!speakerVars)
<1> USE DEF IInv, Offset, Byte
<1>1. CASE fill + n = FrameBytes
  <2>1. \A i \in Offset : vir'[i] = sent + i + 1
    BY <1>1 DEF Read, TypeOK, BufferInOrder
  <2>2. vir' = [i \in Offset |-> vir'[i]]
    BY DEF Read
  <2>3. frame' = Spk!FrameOf(sent, FrameBytes)
    BY <1>1, <2>1, <2>2 DEF Read, SendFrame, Spk!FrameOf, Spk!Offset
  <2>4. sent' = sent + FrameBytes /\ amp' = TRUE /\ (busy' > 0) = TRUE
    BY <1>1 DEF Read, SendFrame, TypeOK
  <2>5. FrameBytes \in 1..FrameBytes /\ FrameBytes % 2 = 0
    OBVIOUS
  <2>6. Spk!Play
    BY <2>3, <2>4, <2>5 DEF Spk!Play
  <2> QED BY <2>6 DEF Spk!SpeakerNext
<1>2. CASE fill + n # FrameBytes
  <2>1. UNCHANGED <<sent, frame, busy>> /\ amp' = TRUE
    BY <1>2 DEF Read
  <2>2. CASE amp
    BY <2>1, <2>2 DEF Spk!speakerVars, TypeOK
  <2>3. CASE ~amp
    BY <2>1, <2>3 DEF Spk!SpeakerNext, Spk!SwitchOn
  <2> QED BY <2>2, <2>3
<1> QED BY <1>1, <1>2

\* So is the padded one, up to the last whole sample.
LEMMA FlushRefines == IInv /\ Flush => Spk!Play
<1> SUFFICES ASSUME IInv, Flush PROVE Spk!Play
  OBVIOUS
<1> USE DEF IInv, Offset, Byte
<1> DEFINE k == fill - (fill % 2)
<1>1. fill % 2 \in {0, 1} /\ fill \in Offset /\ fill >= 2
  BY DEF TypeOK, Flush
<1>2. k \in 1..FrameBytes
  BY <1>1
<1>3. k % 2 = 0
  BY <1>1, OddPred
<1>4. frame' = Spk!FrameOf(sent, k)
  <2>1. \A i \in Offset : i < k => vir[i] = sent + i + 1
    BY <1>1 DEF BufferInOrder
  <2>2. frame' = [i \in Offset |-> IF i < k THEN vir[i] ELSE Silence]
    BY DEF Flush, SendFrame
  <2> QED BY <2>1, <2>2 DEF Spk!FrameOf, Spk!Offset, Silence, Spk!Silence
<1>5. sent' = sent + k /\ amp' = TRUE /\ (busy' > 0) = TRUE
  <2>1. amp' = TRUE
    BY Zenon DEF Flush, TypeOK
  <2>2. sent' = sent + k /\ (busy' > 0) = TRUE
    BY DEF Flush, SendFrame, TypeOK
  <2> QED BY <2>1, <2>2
<1> HIDE DEF k
<1> QED BY <1>2, <1>3, <1>4, <1>5 DEF Spk!Play

\* Every step of ao_thread is a step of the abstract speaker or leaves it alone.
LEMMA NextRefines == IInv /\ [Next]_vars => [Spk!SpeakerNext]_(Spk!speakerVars)
<1> SUFFICES ASSUME IInv, [Next]_vars PROVE [Spk!SpeakerNext]_(Spk!speakerVars)
  OBVIOUS
<1>1. ASSUME NEW n \in 1..MaxBytes, Write(n) PROVE UNCHANGED Spk!speakerVars
  BY <1>1 DEF Write, Spk!speakerVars
<1>2. CASE AoPlayed
  <2>1. UNCHANGED <<sent, frame, amp>> /\ busy > 0 /\ busy' = busy - 1 /\ busy \in Nat
    BY <1>2 DEF AoPlayed, IInv, TypeOK
  <2>2. CASE busy' > 0
    BY <2>1, <2>2 DEF Spk!speakerVars
  <2>3. CASE ~(busy' > 0)
    BY <2>1, <2>3 DEF Spk!SpeakerNext, Spk!Drain
  <2> QED BY <2>2, <2>3
<1>3. ASSUME NEW n \in 1..FrameBytes, Read(n)
      PROVE  [Spk!SpeakerNext]_(Spk!speakerVars)
  BY <1>3, ReadRefines
<1>4. CASE Flush
  BY <1>4, FlushRefines DEF Spk!SpeakerNext
<1>5. ASSUME NEW ok \in BOOLEAN, Quiet(ok)
      PROVE  [Spk!SpeakerNext]_(Spk!speakerVars)
  <2>1. UNCHANGED <<sent, frame, busy>> /\ amp
    BY <1>5 DEF Quiet
  <2>2. amp' = amp \/ (amp' = FALSE /\ busy = 0)
    BY <1>5, Zenon DEF Quiet
  <2>3. CASE amp' = amp
    BY <2>1, <2>3 DEF Spk!speakerVars
  <2>4. CASE amp' = FALSE /\ busy = 0
    BY <2>1, <2>4 DEF Spk!SpeakerNext, Spk!SwitchOff
  <2> QED BY <2>2, <2>3, <2>4
<1>6. CASE Stop
  <2>1. UNCHANGED <<sent, frame>> /\ amp' = FALSE /\ busy' = 0
    BY <1>6 DEF Stop
  <2>2. CASE amp
    BY <2>1, <2>2 DEF Spk!SpeakerNext, Spk!SwitchOff
  <2>3. CASE ~amp
    <3>1. amp' = amp /\ busy = 0
      BY <2>1, <2>3 DEF IInv, TypeOK, AmpCoversPlayback
    <3> QED BY <2>1, <3>1 DEF Spk!speakerVars
  <2> QED BY <2>2, <2>3
<1>7. CASE UNCHANGED vars
  BY <1>7 DEF vars, Spk!speakerVars
<1> QED BY <1>1, <1>2, <1>3, <1>4, <1>5, <1>6, <1>7 DEF Next, Poll

\* ao_thread implements the abstract speaker, for every pattern of writes, reads
\* and pauses.
THEOREM Refinement == Spec => Implements
<1>1. Init => Spk!SpeakerInit
  BY DEF Init, Spk!SpeakerInit, Offset, Spk!Offset, Silence, Spk!Silence
<1> QED BY <1>1, NextRefines, Invariance, PTL DEF Spec, Implements, Spk!SpeakerSpec

-----------------------------------------------------------------------------
(* Hwsnap: for any number of snapshots taken by anybody. *)

USE SnapAssumption

\* Those that wait for a picture.
Waiting == {s \in Snappers : snap[s] \in {"wait", "query", "get"}}

\* What is inductive: a picture is wanted on behalf of a hwsnap that has not yet
\* stopped the channel, and nothing is written before the last step.
SnapIInv ==
  /\ SnapTypeOK
  /\ wanted = 1 => \E s \in Snappers : snap[s] \in Asked
  /\ \A s \in Snappers : output[s] <= IF snap[s] \in {"idle", "done"} THEN 1 ELSE 0
  /\ ready + wanted <= failed + Cardinality(Waiting)

\* One more or one fewer that waits.
LEMMA WaitingCard ==
  ASSUME NEW A \in SUBSET Snappers, NEW s \in Snappers
  PROVE  /\ Cardinality(A) \in Nat
         /\ Cardinality(A \cup {s}) = IF s \in A THEN Cardinality(A) ELSE Cardinality(A) + 1
         /\ Cardinality(A \ {s}) = IF s \in A THEN Cardinality(A) - 1 ELSE Cardinality(A)
<1>1. IsFiniteSet(A)
  BY FS_Subset
<1> QED BY <1>1, FS_CardinalityType, FS_AddElement, FS_RemoveElement

\* Nobody has asked for anything.
LEMMA InitSnapIInv == SnapInit => SnapIInv
<1> SUFFICES ASSUME SnapInit PROVE SnapIInv
  OBVIOUS
<1>1. Waiting = {}
  BY DEF SnapInit, Waiting
<1>2. Cardinality(Waiting) = 0
  BY <1>1, FS_EmptySet
<1> QED BY <1>2 DEF SnapInit, SnapIInv, SnapTypeOK

\* How the set of those that wait changes with a step of s to a place.
LEMMA WaitingAt ==
  ASSUME SnapIInv, NEW s \in Snappers, NEW place \in {"idle", "start"} \cup Asked, At(s, place)
  PROVE  /\ snap' \in [Snappers -> {"idle", "start"} \cup Asked]
         /\ Waiting' = IF place \in {"wait", "query", "get"} THEN Waiting \cup {s}
                                                           ELSE Waiting \ {s}
<1>1. snap' = [snap EXCEPT ![s] = place] /\ snap \in [Snappers -> {"idle", "start"} \cup Asked]
  BY DEF SnapIInv, SnapTypeOK, At
<1>2. \A r \in Snappers : snap'[r] = IF r = s THEN place ELSE snap[r]
  BY <1>1
<1>3. snap' \in [Snappers -> {"idle", "start"} \cup Asked]
  BY <1>1
<1> QED BY <1>2, <1>3 DEF Waiting

\* Every step keeps the account.
LEMMA NextSnapIInv == SnapIInv /\ [Snapshots]_snapVars => SnapIInv'
<1> SUFFICES ASSUME SnapIInv, [Snapshots]_snapVars PROVE SnapIInv'
  OBVIOUS
<1> USE DEF SnapIInv, SnapTypeOK
<1>0. Waiting \in SUBSET Snappers /\ Cardinality(Waiting) \in Nat
  BY FS_Subset, FS_CardinalityType DEF Waiting
<1>1. CASE Encode
  <2>1. Waiting' = Waiting
    BY <1>1 DEF Encode, Waiting
  <2> QED BY <1>0, <1>1, <2>1 DEF Encode
<1>2. ASSUME NEW s \in Snappers, TakeSnapshot(s) PROVE SnapIInv'
  <2>1. snap' = [snap EXCEPT ![s] = "start"] /\ Waiting' = Waiting
    BY <1>2, WaitingAt DEF TakeSnapshot, At, Waiting
  <2> QED BY <1>0, <1>2, <2>1 DEF TakeSnapshot, Asked
<1>3. ASSUME NEW s \in Snappers, SnapDisabled(s) PROVE SnapIInv'
  <2>1. snap' = [snap EXCEPT ![s] = "idle"] /\ Waiting' = Waiting
    BY <1>3, WaitingAt DEF SnapDisabled, At, Waiting
  <2> QED BY <1>0, <1>3, <2>1 DEF SnapDisabled, Asked
<1>4. ASSUME NEW s \in Snappers, SnapRefused(s) PROVE SnapIInv'
  <2>1. PICK place \in {"start", "idle"} : At(s, place)
    BY <1>4 DEF SnapRefused, Again
  <2>2. snap' = [snap EXCEPT ![s] = place] /\ Waiting' = Waiting
    BY <1>4, <2>1, WaitingAt DEF SnapRefused, At, Waiting
  <2> QED BY <1>0, <1>4, <2>1, <2>2 DEF SnapRefused, Again, Asked
<1>5. ASSUME NEW s \in Snappers, SnapStart(s) PROVE SnapIInv'
  <2>1. snap' = [snap EXCEPT ![s] = "wait"] /\ Waiting' = Waiting \cup {s} /\ s \notin Waiting
    BY <1>5, WaitingAt DEF SnapStart, At, Waiting, Asked
  <2>2. Cardinality(Waiting') = Cardinality(Waiting) + 1
    BY <1>0, <2>1, WaitingCard
  <2> QED BY <1>0, <1>5, <2>1, <2>2 DEF SnapStart, Asked
<1>6. ASSUME NEW s \in Snappers, snap[s] \in {"wait", "query", "get"}, SnapFails(s),
             UNCHANGED <<wanted, ready, output, snaps>>
      PROVE  SnapIInv'
  <2>1. snap' = [snap EXCEPT ![s] = "stop"] /\ Waiting' = Waiting \ {s} /\ s \in Waiting
    BY <1>6, WaitingAt DEF SnapFails, At, Waiting, Asked
  <2>2. Cardinality(Waiting') = Cardinality(Waiting) - 1
    BY <1>0, <2>1, WaitingCard
  <2>3. UNCHANGED <<attempt, snaps>>
    BY <1>6 DEF SnapFails
  <2> QED BY <1>0, <1>6, <2>1, <2>2, <2>3 DEF SnapFails, Asked
<1>7. ASSUME NEW s \in Snappers, SnapWait(s) PROVE SnapIInv'
  <2>1. CASE SnapFails(s)
    BY <1>6, <1>7, <2>1 DEF SnapWait
  <2>2. CASE ~SnapFails(s)
    <3>1. PICK place \in {"query", "get"} : At(s, place)
      BY <1>7, <2>2 DEF SnapWait
    <3>2. snap' = [snap EXCEPT ![s] = place] /\ Waiting' = Waiting
      BY <1>7, <3>1, WaitingAt DEF SnapWait, At, Waiting, Asked
    <3> QED BY <1>0, <1>7, <2>2, <3>1, <3>2 DEF SnapWait, Asked
  <2> QED BY <2>1, <2>2
<1>8. ASSUME NEW s \in Snappers, SnapGet(s) PROVE SnapIInv'
  <2>1. CASE SnapFails(s)
    <3>1. CASE ready' = ready
      BY <1>6, <1>8, <2>1, <3>1 DEF SnapGet
    <3>2. CASE ready' # ready
      <4>1. snap' = [snap EXCEPT ![s] = "release"] /\ snap' = [snap EXCEPT ![s] = "stop"]
        BY <1>8, <2>1, <3>2 DEF SnapGet, SnapFails, At
      <4> QED BY <4>1
    <3> QED BY <3>1, <3>2
  <2>2. CASE ~SnapFails(s)
    <3>1. snap' = [snap EXCEPT ![s] = "release"] /\ Waiting' = Waiting \ {s} /\ s \in Waiting
      BY <1>8, <2>2, WaitingAt DEF SnapGet, At, Waiting, Asked
    <3>2. Cardinality(Waiting') = Cardinality(Waiting) - 1
      BY <1>0, <3>1, WaitingCard
    <3> QED BY <1>0, <1>8, <2>2, <3>1, <3>2 DEF SnapGet, Asked
  <2> QED BY <2>1, <2>2
<1>9. ASSUME NEW s \in Snappers, SnapRelease(s) PROVE SnapIInv'
  <2>1. PICK place \in {"write", "stop"} : At(s, place)
    BY <1>9 DEF SnapRelease, SnapFails
  <2>2. snap' = [snap EXCEPT ![s] = place] /\ Waiting' = Waiting
    BY <1>9, <2>1, WaitingAt DEF SnapRelease, At, Waiting, Asked
  <2>3. failed' \in Nat /\ failed' >= failed
    BY <1>9 DEF SnapRelease, SnapFails
  <2>4. UNCHANGED attempt
    BY <1>9 DEF SnapRelease, SnapFails
  <2> QED BY <1>0, <1>9, <2>1, <2>2, <2>3, <2>4 DEF SnapRelease, Asked
<1>10. ASSUME NEW s \in Snappers, SnapWrite(s) PROVE SnapIInv'
  <2>1. snap' = [snap EXCEPT ![s] = "done"] /\ Waiting' = Waiting
    BY <1>10, WaitingAt DEF SnapWrite, At, Waiting, Asked
  <2> QED BY <1>0, <1>10, <2>1 DEF SnapWrite, Asked
<1>11. ASSUME NEW s \in Snappers, SnapStop(s) PROVE SnapIInv'
  <2>1. PICK place \in {"start", "idle"} : At(s, place)
    BY <1>11 DEF SnapStop, Again
  <2>2. snap' = [snap EXCEPT ![s] = place] /\ Waiting' = Waiting
    BY <1>11, <2>1, WaitingAt DEF SnapStop, At, Waiting, Asked
  <2>3. snap[s] = "done" => place = "idle"
    BY <1>11, <2>2 DEF SnapStop, At
  <2> QED BY <1>0, <1>11, <2>2, <2>3 DEF SnapStop, Again, Asked
<1>12. CASE UNCHANGED snapVars
  <2>1. Waiting' = Waiting
    BY <1>12 DEF snapVars, Waiting
  <2> QED BY <1>12, <2>1 DEF snapVars
<1> QED BY <1>1, <1>2, <1>3, <1>4, <1>5, <1>7, <1>8, <1>9, <1>10, <1>11, <1>12 DEF Snapshots

\* SnapsAccounted is a part of it.
LEMMA SnapIInvAccounts == SnapIInv => SnapsAccounted
<1> SUFFICES ASSUME SnapIInv PROVE SnapsAccounted
  OBVIOUS
<1> QED BY DEF SnapIInv, SnapTypeOK, SnapsAccounted, Asked, Waiting

\* Its types too.
THEOREM SnapTypes == SnapSpec => []SnapTypeOK
<1>1. SnapIInv => SnapTypeOK
  BY DEF SnapIInv
<1> QED BY <1>1, InitSnapIInv, NextSnapIInv, PTL DEF SnapSpec

\* Whoever takes snapshots, in any number, leaves the channel stopped, gets one
\* picture, and leaves no more behind than there were failures.
THEOREM Accounted == SnapSpec => []SnapsAccounted
  BY InitSnapIInv, NextSnapIInv, SnapIInvAccounts, PTL DEF SnapSpec

-----------------------------------------------------------------------------
(* campipe as a whole *)

\* Whatever campipe does is a step of main or of one of its threads, of the video
\* FIFO, of the snapshots, or leaves them alone.
LEMMA StepOfParts ==
  [CampipeNext]_campipeVars =>
    /\ [MainNext]_mainVars
    /\ [VideoNext]_videoVars
    /\ [Snapshots]_snapVars
<1> SUFFICES ASSUME [CampipeNext]_campipeVars
             PROVE  /\ [MainNext]_mainVars
                    /\ [VideoNext]_videoVars
                    /\ [Snapshots]_snapVars
  OBVIOUS
<1>0. {"high", "low", "md", "ao", "ai"} = Thread
  BY DEF Thread
<1>1. CASE Main
  BY <1>1 DEF Main, MainNext
<1>2. CASE OtherThread
  BY <1>0, <1>2 DEF OtherThread, MainNext
<1>3. CASE Stream
  <2>1. StreamThread => [MainNext]_mainVars
    <3>1. ASSUME NEW taking \in BOOLEAN, VLoop(taking) PROVE UNCHANGED mainVars
      BY <3>1 DEF VLoop
    <3>2. VMake \/ VWrite \/ VEpipe \/ VClose => UNCHANGED mainVars
      BY DEF VMake, VWrite, VEpipe, VClose
    <3>3. VFail \/ VEnd => ThreadEnds("high")
      BY DEF VFail, VEnd
    <3> QED BY <1>0, <3>1, <3>2, <3>3 DEF StreamThread, MainNext
  <2> QED BY <1>3, <2>1 DEF Stream, VideoNext
<1>4. CASE Client
  <2>1. ASSUME NEW n \in 1..PipeLen, RRead(n) PROVE UNCHANGED mainVars
    BY <2>1 DEF RRead
  <2>2. ROpen \/ RDrain \/ REof \/ RClose \/ SdpComplete => UNCHANGED mainVars
    BY DEF ROpen, RDrain, REof, RClose, SdpComplete
  <2> QED BY <1>4, <2>1, <2>2 DEF Client, Source, VideoNext
<1>5. CASE Snap
  BY <1>5 DEF Snap, Snapshots
<1>6. CASE Mic
  <2>1. ASSUME NEW ok \in BOOLEAN, AiRound(ok) PROVE UNCHANGED mainVars
    BY <2>1 DEF AiRound
  <2>2. ASSUME NEW encodes \in BOOLEAN, AiFrame(encodes) PROVE UNCHANGED mainVars
    BY <2>2 DEF AiFrame
  <2>3. AiSetup \/ AiNothing => UNCHANGED mainVars
    BY DEF AiSetup, AiNothing
  <2>4. AiFails \/ AiEnd => ThreadEnds("ai")
    BY DEF AiFails, AiEnd
  <2> QED BY <1>0, <1>6, <2>1, <2>2, <2>3, <2>4 DEF Mic, AiThread, MainNext
<1>7. CASE MicIn \/ MicMarker
  BY <1>7 DEF MicIn, MicMarker, Capture, ToggleMarker
<1>8. CASE MicOut
  <2>1. ASSUME NEW length \in 0..FifoLen, SNoSync(length) PROVE UNCHANGED mainVars
    BY <2>1 DEF SNoSync, sourceRest
  <2>2. ASSUME NEW looksLike \in BOOLEAN, SResync(looksLike) PROVE UNCHANGED mainVars
    BY <2>2 DEF SResync, sourceRest
  <2>3. SOpen \/ SDrain \/ SSync \/ SSkip => UNCHANGED mainVars
    BY DEF SOpen, SDrain, SSync, SSkip, sourceRest
  <2>4. SFrame \/ SPacket \/ SEof \/ SDies => UNCHANGED mainVars
    BY DEF SFrame, SPacket, SEof, SDies, sourceRest
  <2> QED BY <1>8, <2>1, <2>2, <2>3, <2>4 DEF MicOut, AudioSource
<1>9. CASE AoFails \/ AoPoll \/ AoStop \/ AoDevice
  BY <1>0, <1>9 DEF AoFails, AoPoll, AoStop, AoDevice, aoRest, MainNext
<1>10. CASE Speakers
  <2>1. PICK n \in 1..MaxBytes : Script(n) \/ Packet(n)
    BY <1>10 DEF Speakers
  <2>2. UNCHANGED <<mainVars, aoRest>>
    BY <2>1 DEF Script, Packet
  <2> QED BY <2>2 DEF aoRest
<1>11. CASE UNCHANGED campipeVars
  BY <1>11 DEF campipeVars
<1> QED BY <1>1, <1>2, <1>3, <1>4, <1>5, <1>6, <1>7, <1>8, <1>9, <1>10, <1>11
        DEF CampipeNext

\* It is a step of the speaker, or leaves that alone; a packet is a write of twice
\* as many bytes as it has samples.
LEMMA StepOfSpeaker == IInv /\ [CampipeNext]_campipeVars => [Next]_vars
<1> SUFFICES ASSUME IInv, [CampipeNext]_campipeVars PROVE [Next]_vars
  OBVIOUS
<1>1. CASE Main \/ OtherThread \/ Stream \/ Client \/ Snap
  BY <1>1 DEF Main, OtherThread, Stream, Client, Snap
<1>2. CASE Mic \/ MicIn \/ MicOut \/ MicMarker
  BY <1>2 DEF Mic, MicIn, MicOut, MicMarker
<1>3. CASE AoFails \/ AoPoll \/ AoStop \/ AoDevice
  BY <1>3 DEF AoFails, AoPoll, AoStop, AoDevice, Next
<1>4. CASE Speakers
  <2>1. PICK n \in 1..MaxBytes : Script(n) \/ Packet(n)
    BY <1>4 DEF Speakers
  <2>2. CASE Script(n)
    BY <2>2 DEF Script, Next
  <2>3. CASE Packet(n)
    <3>1. Write(2 * n) /\ written + 2 * n <= MaxBytes
      BY <2>3 DEF Packet, Write
    <3>2. 2 * n \in 1..MaxBytes
      BY <3>1, AudioAssumption DEF IInv, TypeOK, Byte
    <3> QED BY <3>1, <3>2 DEF Next
  <2> QED BY <2>1, <2>2, <2>3
<1>5. CASE UNCHANGED campipeVars
  BY <1>5 DEF campipeVars
<1> QED BY <1>1, <1>2, <1>3, <1>4, <1>5 DEF CampipeNext

\* It is a step of the microphone, or leaves that and the configuration alone.
LEMMA StepOfMic == [CampipeNext]_campipeVars => [MicNext]_<<cfg, micVars>>
<1> SUFFICES ASSUME [CampipeNext]_campipeVars PROVE [MicNext]_<<cfg, micVars>>
  OBVIOUS
<1>1. CASE Mic \/ MicIn \/ MicOut \/ MicMarker
  BY <1>1 DEF Mic, MicIn, MicOut, MicMarker, MicNext
<1>2. CASE Main
  <2>1. MainStep \/ CallFails \/ OnSignal => UNCHANGED cfg
    BY DEF MainStep, CallWorks, Spawn, StopTest, Pause, Join, TakeDown, CallFails, OnSignal
  <2> QED BY <1>2, <2>1 DEF Main
<1>3. \A t : ThreadEnds(t) => UNCHANGED cfg
  BY DEF ThreadEnds
<1>4. CASE OtherThread
  BY <1>3, <1>4 DEF OtherThread
<1>5. CASE Stream
  <2>1. ASSUME NEW taking \in BOOLEAN, VLoop(taking) PROVE UNCHANGED cfg
    BY <2>1 DEF VLoop, mainVars
  <2>2. VMake \/ VWrite \/ VEpipe \/ VClose => UNCHANGED cfg
    BY DEF VMake, VWrite, VEpipe, VClose, mainVars
  <2>3. VFail \/ VEnd => UNCHANGED cfg
    BY <1>3 DEF VFail, VEnd
  <2> QED BY <1>5, <2>1, <2>2, <2>3 DEF Stream, StreamThread
<1>6. CASE Client
  <2>1. ASSUME NEW n \in 1..PipeLen, RRead(n) PROVE UNCHANGED cfg
    BY <2>1 DEF RRead, mainVars
  <2>2. ROpen \/ RDrain \/ REof \/ RClose \/ SdpComplete => UNCHANGED cfg
    BY DEF ROpen, RDrain, REof, RClose, SdpComplete, mainVars
  <2> QED BY <1>6, <2>1, <2>2 DEF Client, Source
<1>7. CASE Snap
  BY <1>7 DEF Snap, Snapshots, mainVars
<1>8. CASE AoFails \/ AoPoll \/ AoStop \/ AoDevice
  BY <1>3, <1>8 DEF AoFails, AoPoll, AoStop, AoDevice, aoRest, mainVars
<1>9. CASE Speakers
  <2>1. PICK n \in 1..MaxBytes : Script(n) \/ Packet(n)
    BY <1>9 DEF Speakers
  <2> QED BY <2>1 DEF Script, Packet, aoRest, mainVars
<1>10. CASE UNCHANGED campipeVars
  BY <1>10 DEF campipeVars, mainVars
<1> QED BY <1>1, <1>2, <1>4, <1>5, <1>6, <1>7, <1>8, <1>9, <1>10 DEF CampipeNext

\* campipe is a main, a video stream, a microphone and snapshots.
THEOREM Components == CampipeSpec => MainSpec /\ VideoSpec /\ MicSpec /\ SnapSpec
  BY StepOfParts, StepOfMic, PTL
     DEF CampipeSpec, CampipeInit, MainSpec, VideoSpec, MicSpec, SnapSpec

\* Whatever fails on the way up and whenever the signal comes, no thread of campipe
\* uses what is not up.
THEOREM CampipeOnWhatIsUp == CampipeSpec => []ThreadsOnWhatIsUp
  BY Components, OnWhatIsUp, PTL

\* Whoever comes, goes or is killed, no client gets spliced frames from campipe.
THEOREM CampipeUnspliced == CampipeSpec => []NoSplice
  BY Components, Unspliced, PTL

\* Whatever campipe drops and whoever reads its microphone, a source in sync stays so.
THEOREM CampipeInSync == CampipeSpec => []SourceInSync
  BY Components, InSync, PTL

\* In campipe, every sample is in one block of the encoder, in order.
THEOREM CampipeInOrder == CampipeSpec => []BlocksInOrder
  BY Components, InOrder, PTL

\* In campipe, a muted microphone is silent within the bound.
THEOREM CampipeMuteBound == CampipeSpec => []MutedSoon
  BY Components, MuteBound, PTL

\* However snapshots of a running or ending campipe overlap and fail, every picture
\* is accounted for and the channel left stopped.
THEOREM CampipeAccounted == CampipeSpec => []SnapsAccounted
  BY Components, Accounted, PTL

\* The speaker, fed by scripts and by clients that talk, and stopped at any time.
LEMMA CampipeSpeaker == CampipeSpec => Init /\ []IInv /\ [][Next]_vars
<1>1. IInv /\ [CampipeNext]_campipeVars => IInv'
  BY StepOfSpeaker, NextIInv
<1> QED BY <1>1, StepOfSpeaker, InitIInv, PTL DEF CampipeSpec, CampipeInit

\* Whoever writes to the speaker's FIFO, the frame buffer is in order.
THEOREM CampipeBufferOrder == CampipeSpec => []BufferInOrder
<1>1. IInv => BufferInOrder
  BY DEF IInv
<1> QED BY <1>1, CampipeSpeaker, PTL

\* Whoever writes to the speaker's FIFO and whenever campipe is stopped, nothing is
\* played with the amplifier off.
THEOREM CampipeAmpCovers == CampipeSpec => []AmpCoversPlayback
<1>1. IInv => AmpCoversPlayback
  BY DEF IInv
<1> QED BY <1>1, CampipeSpeaker, PTL

\* campipe's speaker implements the abstract one.
THEOREM CampipeImplements == CampipeSpec => Implements
<1>1. Init => Spk!SpeakerInit
  BY DEF Init, Spk!SpeakerInit, Offset, Spk!Offset, Silence, Spk!Silence
<1> QED BY <1>1, NextRefines, CampipeSpeaker, PTL DEF Implements, Spk!SpeakerSpec
=============================================================================
