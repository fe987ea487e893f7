----------------------------- MODULE FifoProofs -----------------------------
(***************************************************************************)
(* Proofs about the two FIFOs of campipe, for frames, pipes and queues of  *)
(* any size: what a client gets of the stream is never spliced             *)
(* (VideoFifo, where VideoSpec leaves campipe's main free to do anything), *)
(* and what the microphone's packets become is in order (MicFifo).         *)
(***************************************************************************)
EXTENDS VideoFifo, MicFifo, SequenceTheorems, TLAPS

-----------------------------------------------------------------------------
(* VideoFifo *)

(* The invariant *)

\* Between frames the next unit begins one, and a client that is not reading yet
\* has read nothing.
AtBoundary == writer # "write" => unit.place = 1
NothingSeen == reader \in {"opening", "drain"} => seen = NoUnit

\* The pieces of a session, each joined to the next: what has been read, what is in
\* the pipe, what is written next.  With nothing being written the last of them ends
\* a frame.
Joined ==
  /\ \A i \in 1..(Len(pipe) - 1) : Follows(pipe[i], pipe[i + 1])
  /\ Len(pipe) > 0 /\ seen # NoUnit => Follows(seen, pipe[1])
  /\ Len(pipe) > 0 /\ writer = "write" => Follows(pipe[Len(pipe)], unit)
  /\ Len(pipe) > 0 /\ writer # "write" => pipe[Len(pipe)].place = FrameLen
  /\ Len(pipe) = 0 /\ seen # NoUnit /\ writer = "write" => Follows(seen, unit)
  /\ Len(pipe) = 0 /\ seen # NoUnit /\ writer # "write" => seen.place = FrameLen

VideoIInv ==
  /\ VideoTypeOK /\ AtBoundary /\ NothingSeen
  /\ reader = "read" => Joined

-----------------------------------------------------------------------------
(* Units *)

LEMMA NextUnitType == \A u \in Unit : NextUnit(u) \in Unit /\ NextFrame(u) \in Unit
  BY VideoAssumption DEF Unit, NextUnit, NextFrame

\* After the end of a frame a unit in first place begins the next one.
LEMMA NextOfLast ==
  \A u \in Unit : /\ u.place = FrameLen => NextUnit(u).place = 1
                  /\ NextFrame(u).place = 1
                  /\ Follows(u, NextUnit(u))
  BY VideoAssumption DEF Unit, NextUnit, NextFrame, Follows

\* A sequence without its first n elements.
LEMMA TakeFront ==
  ASSUME NEW S, NEW s \in Seq(S), NEW n \in 1..Len(s)
  PROVE  LET t == SubSeq(s, n + 1, Len(s))
         IN  /\ t \in Seq(S) /\ Len(t) = Len(s) - n /\ Len(t) \in Nat
             /\ \A i \in 1..(Len(s) - n) : t[i] = s[i + n]
<1> DEFINE t == SubSeq(s, n + 1, Len(s))
<1>1. Len(s) \in Nat /\ n \in Nat /\ n >= 1 /\ n <= Len(s)
  BY LenProperties
<1>2. (t = <<>> /\ Len(t) = 0) \/ n + 1 <= Len(s)
  BY <1>1, EmptySeq
<1>3. CASE n + 1 <= Len(s)
  BY <1>1, <1>3, SubSeqProperties
<1>4. CASE n = Len(s)
  BY <1>1, <1>4, EmptySeq
<1> QED BY <1>1, <1>3, <1>4

\* The elements of three sequences joined at their ends.
LEMMA ConcatThree ==
  ASSUME NEW S, NEW a \in Seq(S), NEW p \in Seq(S), NEW b \in Seq(S)
  PROVE  /\ Len((a \o p) \o b) = (Len(a) + Len(p)) + Len(b)
         /\ \A j \in 1..((Len(a) + Len(p)) + Len(b)) :
              ((a \o p) \o b)[j] = IF j <= Len(a) + Len(p)
                                   THEN IF j <= Len(a) THEN a[j] ELSE p[j - Len(a)]
                                   ELSE b[j - (Len(a) + Len(p))]
<1>0. Len(a) \in Nat /\ Len(b) \in Nat /\ Len(p) \in Nat
  <2>1. Len(a) \in Nat
    BY LenProperties
  <2>2. Len(b) \in Nat
    BY LenProperties
  <2>3. Len(p) \in Nat
    BY LenProperties
  <2> QED BY <2>1, <2>2, <2>3
<1> DEFINE ap == a \o p
<1>1. /\ ap \in Seq(S) /\ Len(ap) = Len(a) + Len(p)
      /\ \A j \in 1..(Len(a) + Len(p)) :
           ap[j] = IF j <= Len(a) THEN a[j] ELSE p[j - Len(a)]
  BY ConcatProperties
<1> HIDE DEF ap
<1>2. /\ Len(ap \o b) = Len(ap) + Len(b)
      /\ \A j \in 1..(Len(ap) + Len(b)) :
           (ap \o b)[j] = IF j <= Len(ap) THEN ap[j] ELSE b[j - Len(ap)]
  <2>1. ap \in Seq(S)
    BY <1>1
  <2> QED BY <2>1, ConcatProperties
<1> DEFINE all == ap \o b
<1> HIDE DEF all
<1>3. /\ Len(all) = Len(ap) + Len(b)
      /\ \A j \in 1..(Len(ap) + Len(b)) :
           all[j] = IF j <= Len(ap) THEN ap[j] ELSE b[j - Len(ap)]
  BY <1>2 DEF all
<1>4. \A j \in 1..((Len(a) + Len(p)) + Len(b)) :
        all[j] = IF j <= Len(a) + Len(p)
                 THEN IF j <= Len(a) THEN a[j] ELSE p[j - Len(a)]
                 ELSE b[j - (Len(a) + Len(p))]
  BY <1>0, <1>1, <1>3
<1>5. Len(all) = (Len(a) + Len(p)) + Len(b)
  BY <1>1, <1>3
<1> QED BY <1>4, <1>5 DEF all, ap

\* all is a, p and b of those lengths joined at their ends.
Three(all, a, la, p, lp, b, lb) ==
  \A j \in 1..((la + lp) + lb) :
    all[j] = IF j <= la + lp THEN IF j <= la THEN a[j] ELSE p[j - la]
                             ELSE b[j - (la + lp)]

\* Where two neighbours in such a concatenation come from, if the outer sequences
\* have at most one element each.
LEMMA Neighbours ==
  ASSUME NEW la \in 0..1, NEW lp \in Nat, NEW lb \in 0..1, NEW a, NEW p, NEW b, NEW all,
         Three(all, a, la, p, lp, b, lb), NEW i \in 1..(((la + lp) + lb) - 1)
  PROVE  \/ \E j \in 1..(lp - 1) : all[i] = p[j] /\ all[i + 1] = p[j + 1]
         \/ la = 1 /\ lp > 0 /\ all[i] = a[1] /\ all[i + 1] = p[1]
         \/ lb = 1 /\ lp > 0 /\ all[i] = p[lp] /\ all[i + 1] = b[1]
         \/ la = 1 /\ lb = 1 /\ lp = 0 /\ all[i] = a[1] /\ all[i + 1] = b[1]
<1> USE DEF Three
<1>1. i \in 1..((la + lp) + lb) /\ i + 1 \in 1..((la + lp) + lb) /\ i \in Nat
  OBVIOUS
<1>2. CASE i + 1 <= la + lp /\ i > la
  <2>1. all[i] = p[i - la] /\ all[i + 1] = p[(i + 1) - la]
    BY <1>1, <1>2
  <2>2. i - la \in 1..(lp - 1) /\ (i + 1) - la = (i - la) + 1
    BY <1>1, <1>2
  <2> QED BY <2>1, <2>2
<1>3. CASE i + 1 <= la + lp /\ i <= la
  <2>1. i = 1 /\ la = 1 /\ lp > 0 /\ (1 + 1) - la = 1
    BY <1>1, <1>3
  <2>2. all[i] = a[1] /\ all[i + 1] = p[(1 + 1) - la]
    BY <1>1, <1>3, <2>1
  <2> QED BY <2>1, <2>2
<1>4. CASE i + 1 > la + lp
  <2>1. i = la + lp /\ lb = 1 /\ (i + 1) - (la + lp) = 1
    BY <1>1, <1>4
  <2>2. all[i + 1] = b[1]
    <3>1. all[i + 1] = b[(i + 1) - (la + lp)]
      BY <1>1, <1>4
    <3> QED BY <2>1, <3>1
  <2>3. CASE lp > 0
    <3>1. i - la = lp /\ ~(i <= la) /\ i <= la + lp
      BY <2>1, <2>3
    <3>2. all[i] = p[i - la]
      BY <1>1, <2>1, <3>1
    <3> QED BY <2>1, <2>2, <2>3, <3>1, <3>2
  <2>4. CASE lp = 0
    <3>1. la = 1 /\ i = 1
      BY <1>1, <2>1, <2>4
    <3>2. all[i] = a[1]
      BY <1>1, <2>1, <3>1
    <3> QED BY <2>1, <2>2, <2>4, <3>1, <3>2
  <2> QED BY <2>3, <2>4
<1> QED BY <1>1, <1>2, <1>3, <1>4

LEMMA EmptyPipe == VideoTypeOK => Len(pipe) \in Nat /\ (pipe = <<>> <=> Len(pipe) = 0)
  BY EmptySeq, LenProperties DEF VideoTypeOK

-----------------------------------------------------------------------------
(* stream_thread *)

LEMMA InitVideoIInv == VideoInit => VideoIInv
<1> SUFFICES ASSUME VideoInit PROVE VideoIInv
  OBVIOUS
<1>1. VideoTypeOK
  <2>1. [frame |-> 0, place |-> 1] \in Unit
    BY VideoAssumption DEF Unit
  <2>2. <<>> \in Seq(Unit) /\ Len(<<>>) <= PipeLen
    BY VideoAssumption, EmptySeq
  <2> QED BY <2>1, <2>2 DEF VideoInit, VideoTypeOK
<1> QED BY <1>1 DEF VideoInit, VideoIInv, AtBoundary, NothingSeen

\* A round of the thread: at most it begins a frame, behind the end of one.
LEMMA LoopIInv ==
  ASSUME VideoIInv, NEW frame \in BOOLEAN, VLoop(frame)
  PROVE  VideoIInv'
<1> USE DEF VideoIInv, VLoop
<1>1. VideoTypeOK'
  BY DEF VideoTypeOK
<1>2. AtBoundary' /\ NothingSeen'
  BY DEF AtBoundary, NothingSeen
<1>3. ASSUME reader' = "read" PROVE Joined'
  <2>1. reader = "read" /\ Joined /\ unit.place = 1
    BY <1>3 DEF AtBoundary
  <2>2. unit' = unit /\ pipe' = pipe /\ seen' = seen /\ writer # "write"
    OBVIOUS
  <2> QED BY <2>1, <2>2 DEF Joined, Follows
<1> QED BY <1>1, <1>2, <1>3

\* A unit behind the one before it.
LEMMA WriteIInv == VideoIInv /\ VWrite => VideoIInv'
<1> SUFFICES ASSUME VideoIInv, VWrite PROVE VideoIInv'
  OBVIOUS
<1> USE DEF VideoIInv
<1>1. /\ pipe \in Seq(Unit) /\ unit \in Unit /\ Len(pipe) \in Nat
      /\ pipe' = Append(pipe, unit) /\ unit' = NextUnit(unit)
      /\ wfd' = wfd /\ reader' = reader /\ seen' = seen
      /\ writer = "write" /\ writer' = (IF unit.place = FrameLen THEN "loop" ELSE "write")
      /\ Len(pipe) < PipeLen
  BY EmptyPipe DEF VWrite, VideoTypeOK, readerVars
<1>2. /\ pipe' \in Seq(Unit) /\ Len(pipe') = Len(pipe) + 1
      /\ \A i \in 1..Len(pipe) : pipe'[i] = pipe[i]
      /\ pipe'[Len(pipe) + 1] = unit
  BY <1>1, AppendProperties
<1>3. VideoTypeOK'
  BY <1>1, <1>2, NextUnitType, VideoAssumption DEF VideoTypeOK
<1>4. AtBoundary' /\ NothingSeen'
  BY <1>1, NextOfLast DEF AtBoundary, NothingSeen
<1>5. ASSUME reader' = "read" PROVE Joined'
  <2>1. Joined
    BY <1>1, <1>5
  <2>2. \A i \in 1..(Len(pipe') - 1) : Follows(pipe'[i], pipe'[i + 1])
    BY <1>1, <1>2, <2>1 DEF Joined
  <2>3. seen # NoUnit => Follows(seen, pipe'[1])
    BY <1>1, <1>2, <2>1 DEF Joined
  <2>4. pipe'[Len(pipe')] = unit /\ Len(pipe') > 0
    BY <1>1, <1>2
  <2>5. writer' = "write" => Follows(unit, unit')
    BY <1>1, NextOfLast
  <2>6. writer' # "write" => unit.place = FrameLen
    BY <1>1
  <2> QED BY <1>1, <2>2, <2>3, <2>4, <2>5, <2>6 DEF Joined
<1> QED BY <1>3, <1>4, <1>5

\* Neither the start nor the ends of the FIFO, nor a reader that is gone, touches what
\* a reading client has or will get.
LEMMA OpenCloseIInv ==
  VideoIInv /\ (VMake \/ VFail \/ VEpipe \/ VClose \/ VEnd) => VideoIInv'
<1> SUFFICES ASSUME VideoIInv, VMake \/ VFail \/ VEpipe \/ VClose \/ VEnd
             PROVE  VideoIInv'
  OBVIOUS
<1> USE DEF VideoIInv
<1>1. CASE VMake \/ VFail
  <2>1. /\ wfd' = wfd /\ unit' = unit /\ pipe' = pipe /\ reader' = reader /\ seen' = seen
        /\ writer = "make" /\ writer' \in {"loop", "ended"}
    BY <1>1 DEF VMake, VFail, readerVars
  <2>2. VideoTypeOK'
    BY <2>1 DEF VideoTypeOK
  <2> QED BY <2>1, <2>2 DEF AtBoundary, NothingSeen, Joined
<1>2. CASE VEpipe
  <2>1. /\ wfd' = wfd /\ unit' = NextFrame(unit) /\ pipe' = pipe /\ seen' = seen
        /\ reader = "none" /\ reader' = "none" /\ writer' = "gone"
    BY <1>2 DEF VEpipe, readerVars
  <2>2. unit' \in Unit /\ unit'.place = 1
    BY <2>1, NextUnitType, NextOfLast DEF VideoTypeOK
  <2>3. VideoTypeOK'
    BY <2>1, <2>2 DEF VideoTypeOK
  <2> QED BY <2>1, <2>2, <2>3 DEF AtBoundary, NothingSeen
<1>3. CASE VClose \/ VEnd
  <2>1. /\ wfd' = FALSE /\ unit' = unit /\ pipe' = Left(FALSE, reader) /\ seen' = seen
        /\ reader' = reader /\ writer # "write" /\ writer' \in {"loop", "ended"}
    BY <1>3 DEF VClose, VEnd, readerVars
  <2>2. pipe' = (IF reader # "none" THEN pipe ELSE <<>>)
    BY <2>1 DEF Left
  <2>3. pipe' \in Seq(Unit) /\ Len(pipe') <= PipeLen
    BY <2>2, VideoAssumption, EmptySeq DEF VideoTypeOK
  <2>4. VideoTypeOK'
    BY <2>1, <2>3 DEF VideoTypeOK
  <2> QED BY <2>1, <2>2, <2>4 DEF AtBoundary, NothingSeen, Joined
<1> QED BY <1>1, <1>2, <1>3

-----------------------------------------------------------------------------
(* The reader *)

\* The units read are taken off the front.
LEMMA ReadIInvVideo ==
  ASSUME VideoIInv, NEW n \in 1..PipeLen, RRead(n)
  PROVE  VideoIInv'
<1> USE DEF VideoIInv
<1>1. n \in 1..Len(pipe) /\ pipe \in Seq(Unit) /\ Len(pipe) \in Nat /\ Joined
  BY VideoAssumption, EmptyPipe DEF RRead, VideoTypeOK
<1>2. /\ seen' = pipe[n] /\ pipe' = SubSeq(pipe, n + 1, Len(pipe))
      /\ writer' = writer /\ wfd' = wfd /\ unit' = unit /\ reader' = reader
      /\ reader = "read"
  BY DEF RRead, writerVars
<1>3. /\ pipe' \in Seq(Unit) /\ Len(pipe') = Len(pipe) - n /\ Len(pipe') \in Nat
      /\ \A i \in 1..(Len(pipe) - n) : pipe'[i] = pipe[i + n]
  BY <1>1, <1>2, TakeFront, Zenon
<1>4. pipe[n] \in Unit
  BY <1>1, ElementOfSeq
<1>5. VideoTypeOK'
  <2>1. Len(pipe) <= PipeLen /\ VideoTypeOK
    BY DEF VideoTypeOK
  <2>2. Len(pipe') <= PipeLen
    BY <1>1, <1>3, <2>1, VideoAssumption
  <2> QED BY <1>2, <1>3, <1>4, <2>1, <2>2 DEF VideoTypeOK
<1>6. \A i \in 1..(Len(pipe') - 1) : Follows(pipe'[i], pipe'[i + 1])
  <2> SUFFICES ASSUME NEW i \in 1..(Len(pipe') - 1)
               PROVE  Follows(pipe'[i], pipe'[i + 1])
    OBVIOUS
  <2>1. /\ i \in 1..(Len(pipe) - n) /\ i + 1 \in 1..(Len(pipe) - n)
        /\ i + n \in 1..(Len(pipe) - 1) /\ (i + 1) + n = (i + n) + 1
    BY <1>1, <1>3
  <2>2. pipe'[i] = pipe[i + n] /\ pipe'[i + 1] = pipe[(i + n) + 1]
    BY <1>3, <2>1
  <2> QED BY <1>1, <2>1, <2>2 DEF Joined
<1>7. CASE Len(pipe') > 0
  <2>1. n \in 1..(Len(pipe) - 1) /\ 1 \in 1..(Len(pipe) - n)
        /\ Len(pipe') \in 1..(Len(pipe) - n) /\ Len(pipe') + n = Len(pipe) /\ 1 + n = n + 1
        /\ Len(pipe) > 0
    BY <1>1, <1>3, <1>7
  <2>2. pipe'[1] = pipe[n + 1] /\ pipe'[Len(pipe')] = pipe[Len(pipe)]
    BY <1>3, <2>1
  <2>3. Follows(seen', pipe'[1])
    BY <1>1, <1>2, <2>1, <2>2 DEF Joined
  <2>4. Joined'
    <3>1. writer' = "write" => Follows(pipe'[Len(pipe')], unit')
      BY <1>1, <1>2, <2>1, <2>2 DEF Joined
    <3>2. writer' # "write" => pipe'[Len(pipe')].place = FrameLen
      BY <1>1, <1>2, <2>1, <2>2 DEF Joined
    <3> QED BY <1>6, <1>7, <2>3, <3>1, <3>2 DEF Joined
  <2> QED BY <1>2, <1>5, <2>4 DEF AtBoundary, NothingSeen
<1>8. CASE Len(pipe') = 0
  <2>1. n = Len(pipe) /\ Len(pipe) > 0
    BY <1>1, <1>3, <1>8
  <2>2. Joined'
    BY <1>1, <1>2, <1>6, <1>8, <2>1 DEF Joined
  <2> QED BY <1>2, <1>5, <2>2 DEF AtBoundary, NothingSeen
<1> QED BY <1>3, <1>7, <1>8

\* A client that begins to read has nothing behind it and nothing in the pipe; one
\* that leaves is no longer reading.
LEMMA ComeAndGoIInv ==
  VideoIInv /\ (ROpen \/ RDrain \/ REof \/ RClose) => VideoIInv'
<1> SUFFICES ASSUME VideoIInv, ROpen \/ RDrain \/ REof \/ RClose PROVE VideoIInv'
  OBVIOUS
<1> USE DEF VideoIInv
<1>0. /\ writer' = writer /\ wfd' = wfd /\ unit' = unit
      /\ pipe' = pipe \/ pipe' = <<>>
      /\ seen' \in {seen, NoUnit}
      /\ reader' \in {"none", "opening", "drain", "read"}
  BY DEF ROpen, RDrain, REof, RClose, Left, writerVars, VideoTypeOK
<1>1. pipe' \in Seq(Unit) /\ Len(pipe') <= PipeLen
  <2>1. pipe \in Seq(Unit) /\ Len(pipe) <= PipeLen
    BY DEF VideoTypeOK
  <2>2. <<>> \in Seq(Unit) /\ Len(<<>>) <= PipeLen
    BY VideoAssumption, EmptySeq
  <2> QED BY <1>0, <2>1, <2>2
<1>2. VideoTypeOK' /\ AtBoundary'
  BY <1>0, <1>1 DEF VideoTypeOK, AtBoundary
<1>3. NothingSeen'
  BY DEF NothingSeen, ROpen, RDrain, REof, RClose
<1>4. ASSUME reader' = "read" PROVE Joined'
  <2>1. RDrain /\ reader = "drain" /\ pipe = <<>> /\ pipe' = <<>> /\ seen' = NoUnit
    BY <1>4 DEF ROpen, RDrain, REof, RClose, NothingSeen
  <2>2. Len(pipe') = 0
    BY <2>1, EmptySeq
  <2> QED BY <2>1, <2>2 DEF Joined
<1> QED BY <1>2, <1>3, <1>4

LEMMA NextVideoIInv == VideoIInv /\ [VideoNext]_videoVars => VideoIInv'
<1> SUFFICES ASSUME VideoIInv, [VideoNext]_videoVars PROVE VideoIInv'
  OBVIOUS
<1>1. CASE StreamThread
  BY <1>1, LoopIInv, WriteIInv, OpenCloseIInv DEF StreamThread
<1>2. CASE Source
  BY <1>2, ReadIInvVideo, ComeAndGoIInv DEF Source, SdpComplete
<1>3. CASE UNCHANGED videoVars
  BY <1>3 DEF videoVars, writerVars, readerVars, VideoIInv, VideoTypeOK, AtBoundary,
              NothingSeen, Joined
<1> QED BY <1>1, <1>2, <1>3 DEF VideoNext

-----------------------------------------------------------------------------
(* What a session gets *)

LEMMA VideoIInvNoSplice == VideoIInv => NoSplice
<1> SUFFICES ASSUME VideoIInv, reader = "read",
                    NEW i \in 1..(Len(Session) - 1)
             PROVE  Follows(Session[i], Session[i + 1])
  BY DEF NoSplice
<1> DEFINE a == IF seen = NoUnit THEN <<>> ELSE <<seen>>
           b == IF writer = "write" THEN <<unit>> ELSE <<>>
<1>1. /\ a \in Seq(Unit) /\ Len(a) <= 1 /\ (Len(a) = 1 => seen # NoUnit /\ a[1] = seen)
      /\ b \in Seq(Unit) /\ Len(b) <= 1 /\ (Len(b) = 1 => writer = "write" /\ b[1] = unit)
      /\ pipe \in Seq(Unit) /\ Len(pipe) \in Nat /\ Joined
  BY EmptyPipe, EmptySeq DEF VideoIInv, VideoTypeOK
<1>2. Session = (a \o pipe) \o b
  BY DEF Session
<1> HIDE DEF a, b
<1> HIDE DEF a, b
<1> DEFINE all == (a \o pipe) \o b
<1>3. /\ Len(all) = (Len(a) + Len(pipe)) + Len(b)
      /\ \A j \in 1..((Len(a) + Len(pipe)) + Len(b)) :
           all[j] = IF j <= Len(a) + Len(pipe)
                    THEN IF j <= Len(a) THEN a[j] ELSE pipe[j - Len(a)]
                    ELSE b[j - (Len(a) + Len(pipe))]
  BY <1>1, ConcatThree
<1> HIDE DEF all
<1>4. Len(a) \in 0..1 /\ Len(b) \in 0..1 /\ i \in 1..(((Len(a) + Len(pipe)) + Len(b)) - 1)
  <2>1. Len(a) \in Nat /\ Len(b) \in Nat
    BY <1>1, LenProperties, Zenon
  <2>2. i \in 1..(Len(all) - 1)
    BY <1>2 DEF all
  <2>3. Len(a) \in 0..1 /\ Len(b) \in 0..1
    <3>1. \A x \in Nat : x <= 1 => x \in 0..1
      OBVIOUS
    <3> QED BY <1>1, <2>1, <3>1, Zenon
  <2> QED BY <1>3, <2>2, <2>3
<1>5. \/ \E j \in 1..(Len(pipe) - 1) : all[i] = pipe[j] /\ all[i + 1] = pipe[j + 1]
      \/ Len(a) = 1 /\ Len(pipe) > 0 /\ all[i] = a[1] /\ all[i + 1] = pipe[1]
      \/ Len(b) = 1 /\ Len(pipe) > 0 /\ all[i] = pipe[Len(pipe)] /\ all[i + 1] = b[1]
      \/ /\ Len(a) = 1 /\ Len(b) = 1 /\ Len(pipe) = 0
         /\ all[i] = a[1] /\ all[i + 1] = b[1]
  <2> DEFINE la == Len(a)  lp == Len(pipe)  lb == Len(b)
  <2>1. /\ la \in 0..1 /\ lp \in Nat /\ lb \in 0..1
        /\ Three(all, a, la, pipe, lp, b, lb)
        /\ i \in 1..(((la + lp) + lb) - 1)
    BY <1>1, <1>3, <1>4 DEF Three
  <2> HIDE DEF la, lp, lb
  <2>2. \/ \E j \in 1..(lp - 1) : all[i] = pipe[j] /\ all[i + 1] = pipe[j + 1]
        \/ la = 1 /\ lp > 0 /\ all[i] = a[1] /\ all[i + 1] = pipe[1]
        \/ lb = 1 /\ lp > 0 /\ all[i] = pipe[lp] /\ all[i + 1] = b[1]
        \/ la = 1 /\ lb = 1 /\ lp = 0 /\ all[i] = a[1] /\ all[i + 1] = b[1]
    BY <2>1, Neighbours
  <2> QED BY <2>2 DEF la, lp, lb
<1>6. Follows(all[i], all[i + 1])
  <2>1. CASE \E j \in 1..(Len(pipe) - 1) : all[i] = pipe[j] /\ all[i + 1] = pipe[j + 1]
    BY <1>1, <2>1 DEF Joined
  <2>2. CASE Len(a) = 1 /\ Len(pipe) > 0 /\ all[i] = a[1] /\ all[i + 1] = pipe[1]
    BY <1>1, <2>2 DEF Joined
  <2>3. CASE Len(b) = 1 /\ Len(pipe) > 0 /\ all[i] = pipe[Len(pipe)] /\ all[i + 1] = b[1]
    BY <1>1, <2>3 DEF Joined
  <2>4. CASE /\ Len(a) = 1 /\ Len(b) = 1 /\ Len(pipe) = 0
             /\ all[i] = a[1] /\ all[i + 1] = b[1]
    BY <1>1, <2>4 DEF Joined
  <2> QED BY <1>5, <2>1, <2>2, <2>3, <2>4
<1> QED BY <1>2, <1>6 DEF all

\* The FIFO, its writer and its reader keep their types, whatever main does.
THEOREM VideoTypes == VideoSpec => []VideoTypeOK
<1>1. VideoIInv => VideoTypeOK
  BY DEF VideoIInv
<1> QED BY <1>1, InitVideoIInv, NextVideoIInv, PTL DEF VideoSpec

\* A client never gets the rest of a frame behind the beginning of another, for any
\* size of frames and of the pipe.
THEOREM Unspliced == VideoSpec => []NoSplice
  BY InitVideoIInv, NextVideoIInv, VideoIInvNoSplice, PTL DEF VideoSpec

-----------------------------------------------------------------------------
(* MicFifo *)

(* What is in the FIFO: whole frames, in their order *)

\* A frame that has begun goes on to its end.
Whole(s) ==
  \A i \in 1..Len(s) : \A k \in 0..BodyLen :
    s[i].place + k <= BodyLen =>
      /\ i + k <= Len(s)
      /\ s[i + k].place = s[i].place + k /\ s[i + k].frame = s[i].frame

\* Behind the end of a frame a later one begins, with its unit number first.
Ordered(s, first) ==
  \A i \in 1..(Len(s) - 1) :
    s[i].place = BodyLen => s[i + 1].place = first /\ s[i + 1].frame > s[i].frame

\* Nothing in it is later than frame b.
UpTo(s, b) == \A i \in 1..Len(s) : s[i].frame <= b

Frames(s, first, b) ==
  /\ s \in Seq(FifoUnit)
  /\ Whole(s) /\ Ordered(s, first) /\ UpTo(s, b)

\* t is s without its first n units.
IsRest(t, s, n) ==
  /\ t \in Seq(FifoUnit) /\ Len(t) = Len(s) - n /\ Len(t) \in Nat
  /\ \A i \in 1..(Len(s) - n) : t[i] = s[i + n]

\* The length of a sequence of units, and its elements.
LEMMA UnitsOf ==
  ASSUME NEW s \in Seq(FifoUnit)
  PROVE  /\ Len(s) \in Nat
         /\ s = <<>> <=> Len(s) = 0
         /\ \A i \in 1..Len(s) : s[i].place \in 0..BodyLen /\ s[i].frame \in Nat
<1>1. Len(s) \in Nat
  BY LenProperties
<1>2. s = <<>> <=> Len(s) = 0
  BY EmptySeq
<1>3. ASSUME NEW i \in 1..Len(s) PROVE s[i] \in FifoUnit
  BY <1>1, ElementOfSeq
<1> QED BY <1>1, <1>2, <1>3 DEF FifoUnit

LEMMA FramesEmpty ==
  ASSUME NEW first, NEW b
  PROVE  Frames(<<>>, first, b)
<1>1. <<>> \in Seq(FifoUnit) /\ Len(<<>>) = 0
  BY EmptySeq
<1> QED BY <1>1 DEF Frames, Whole, Ordered, UpTo

\* Taking units off the front.
LEMMA SubSeqIsRest ==
  ASSUME NEW s \in Seq(FifoUnit), NEW n \in 1..Len(s)
  PROVE  IsRest(SubSeq(s, n + 1, Len(s)), s, n)
<1> DEFINE t == SubSeq(s, n + 1, Len(s))
<1>1. Len(s) \in Nat /\ n \in Nat /\ n >= 1 /\ n <= Len(s)
  BY LenProperties
<1>2. CASE n + 1 <= Len(s)
  <2>1. \A i \in (n + 1)..Len(s) : s[i] \in FifoUnit
    BY <1>1, ElementOfSeq
  <2>2. /\ t \in Seq(FifoUnit) /\ Len(t) = Len(s) - (n + 1) + 1
        /\ \A i \in 1..(Len(s) - (n + 1) + 1) : t[i] = s[(n + 1) + i - 1]
    BY <1>1, <1>2, <2>1, SubSeqProperties
  <2> HIDE DEF t
  <2>3. Len(t) = Len(s) - n /\ Len(t) \in Nat
    BY <1>1, <2>2
  <2>4. ASSUME NEW i \in 1..(Len(s) - n) PROVE t[i] = s[i + n]
    <3>1. i \in 1..(Len(s) - (n + 1) + 1) /\ (n + 1) + i - 1 = i + n
      BY <1>1
    <3> QED BY <2>2, <3>1
  <2> QED BY <2>2, <2>3, <2>4 DEF IsRest, t
<1>3. CASE n = Len(s)
  <2>1. t = <<>>
    BY <1>1, <1>3, SubSeqEmpty
  <2>2. t \in Seq(FifoUnit) /\ Len(t) = 0
    BY <2>1, EmptySeq
  <2> QED BY <1>1, <1>3, <2>2 DEF IsRest
<1> QED BY <1>1, <1>2, <1>3

LEMMA RestFrames ==
  ASSUME NEW s, NEW t, NEW first, NEW b, NEW n \in 0..Len(s),
         Frames(s, first, b), IsRest(t, s, n)
  PROVE  Frames(t, first, b)
<1>1. Len(s) \in Nat /\ n \in Nat /\ Len(t) = Len(s) - n
  BY UnitsOf DEF Frames, IsRest
<1>2. \A i \in 1..Len(t) : t[i] = s[i + n] /\ i + n \in 1..Len(s)
  BY <1>1 DEF IsRest
<1>3. Whole(t)
  <2> SUFFICES ASSUME NEW i \in 1..Len(t), NEW k \in 0..BodyLen, t[i].place + k <= BodyLen
               PROVE  /\ i + k <= Len(t)
                      /\ t[i + k].place = t[i].place + k /\ t[i + k].frame = t[i].frame
    BY DEF Whole
  <2>1. k \in Nat /\ i \in Nat
    BY MicAssumption
  <2>2. t[i] = s[i + n] /\ i + n \in 1..Len(s)
    BY <1>2
  <2>3. /\ (i + n) + k <= Len(s)
        /\ s[(i + n) + k].place = s[i + n].place + k
        /\ s[(i + n) + k].frame = s[i + n].frame
    BY <2>2 DEF Frames, Whole
  <2>4. i + k \in 1..Len(t) /\ (i + k) + n = (i + n) + k
    BY <1>1, <2>1, <2>3
  <2>5. t[i + k] = s[(i + k) + n]
    BY <1>2, <2>4
  <2> QED BY <2>2, <2>3, <2>4, <2>5
<1>4. Ordered(t, first)
  <2> SUFFICES ASSUME NEW i \in 1..(Len(t) - 1), t[i].place = BodyLen
               PROVE  t[i + 1].place = first /\ t[i + 1].frame > t[i].frame
    BY DEF Ordered
  <2>1. /\ i \in 1..Len(t) /\ i + 1 \in 1..Len(t)
        /\ i + n \in 1..(Len(s) - 1) /\ (i + 1) + n = (i + n) + 1
    BY <1>1
  <2>2. t[i] = s[i + n] /\ t[i + 1] = s[(i + n) + 1]
    BY <1>2, <2>1
  <2> QED BY <2>1, <2>2 DEF Frames, Ordered
<1>5. UpTo(t, b)
  BY <1>2 DEF Frames, UpTo
<1> QED BY <1>3, <1>4, <1>5 DEF Frames, IsRest

\* A frame as it is written, and one more frame at the end.
FrameOf(b, first) ==
  [i \in 1..(BodyLen + 1 - first) |-> [frame |-> b, place |-> first + i - 1]]

\* t is s, which goes up to frame b, with the next frame c behind it.
NextFrameAdded(s, first, b, c, t) ==
  /\ first \in 0..1 /\ b \in Nat /\ Frames(s, first, b)
  /\ c = b + 1 /\ t = s \o FrameOf(c, first)

LEMMA AppendFrames ==
  ASSUME NEW s, NEW first, NEW b, NEW c, NEW t, NextFrameAdded(s, first, b, c, t)
  PROVE  /\ Frames(t, first, c) /\ Len(t) > 0
         /\ \A i \in 1..Len(s) : t[i] = s[i]
         /\ s = <<>> => t[1].frame = c /\ t[1].place = first
<1>0. /\ first \in 0..1 /\ b \in Nat /\ Frames(s, first, b)
      /\ c = b + 1 /\ t = s \o FrameOf(c, first)
  BY DEF NextFrameAdded
<1> DEFINE m == BodyLen + 1 - first
           e == FrameOf(c, first)
<1>1. /\ BodyLen \in Nat \ {0} /\ m \in Nat \ {0} /\ first \in Nat
      /\ s \in Seq(FifoUnit) /\ Len(s) \in Nat /\ c \in Nat
  BY <1>0, MicAssumption, UnitsOf DEF Frames
<1>2. e \in Seq(FifoUnit) /\ Len(e) = m
  <2>1. ASSUME NEW i \in 1..m PROVE [frame |-> c, place |-> first + i - 1] \in FifoUnit
    BY <1>0, <1>1 DEF FifoUnit
  <2>2. e \in [1..m -> FifoUnit]
    BY <2>1 DEF FrameOf
  <2> HIDE DEF m
  <2> QED BY <1>1, <2>2
<1>3. \A i \in 1..m : e[i].frame = c /\ e[i].place = first + i - 1
  BY DEF FrameOf
<1>4. e[1] = [frame |-> c, place |-> first]
  BY <1>0, <1>1 DEF FrameOf
<1> HIDE DEF m, e
<1>5. /\ t \in Seq(FifoUnit) /\ Len(t) = Len(s) + Len(e)
      /\ \A i \in 1..(Len(s) + Len(e)) : t[i] = IF i <= Len(s) THEN s[i] ELSE e[i - Len(s)]
  <2>1. t = s \o e
    BY <1>0 DEF e
  <2>2. /\ s \o e \in Seq(FifoUnit) /\ Len(s \o e) = Len(s) + Len(e)
        /\ \A i \in 1..(Len(s) + Len(e)) :
             (s \o e)[i] = IF i <= Len(s) THEN s[i] ELSE e[i - Len(s)]
    BY <1>1, <1>2, ConcatProperties
  <2> QED BY <2>1, <2>2
<1>6. /\ Len(t) = Len(s) + m
      /\ \A i \in 1..Len(s) : t[i] = s[i]
      /\ \A i \in 1..m : t[Len(s) + i] = e[i]
  <2>1. ASSUME NEW i \in 1..Len(s) PROVE t[i] = s[i]
    BY <1>1, <1>2, <1>5
  <2>2. ASSUME NEW i \in 1..m PROVE t[Len(s) + i] = e[i]
    <3>1. /\ Len(s) + i \in 1..(Len(s) + Len(e)) /\ ~(Len(s) + i <= Len(s))
          /\ (Len(s) + i) - Len(s) = i
      BY <1>1, <1>2
    <3> QED BY <1>5, <3>1
  <2> QED BY <1>2, <1>5, <2>1, <2>2
<1>7. Whole(t)
  <2> SUFFICES ASSUME NEW i \in 1..Len(t), NEW k \in 0..BodyLen, t[i].place + k <= BodyLen
               PROVE  /\ i + k <= Len(t)
                      /\ t[i + k].place = t[i].place + k /\ t[i + k].frame = t[i].frame
    BY DEF Whole
  <2>1. CASE i \in 1..Len(s)
    <3>1. t[i] = s[i]
      BY <1>6, <2>1
    <3>2. /\ i + k <= Len(s)
          /\ s[i + k].place = s[i].place + k /\ s[i + k].frame = s[i].frame
      BY <1>0, <2>1, <3>1 DEF Frames, Whole
    <3>3. i + k \in 1..Len(s) /\ i + k <= Len(t)
      BY <1>1, <1>6, <2>1, <3>2
    <3> QED BY <1>6, <3>1, <3>2, <3>3
  <2>2. CASE i \notin 1..Len(s)
    <3>1. PICK j \in 1..m : i = Len(s) + j
      <4>1. i - Len(s) \in 1..m /\ i = Len(s) + (i - Len(s))
        BY <1>1, <1>6, <2>2
      <4> QED BY <4>1
    <3>2. t[i] = e[j] /\ e[j].place = first + j - 1 /\ e[j].frame = c
      BY <1>3, <1>6, <3>1
    <3>3. j + k \in 1..m /\ i + k = Len(s) + (j + k)
      BY <1>0, <1>1, <3>1, <3>2 DEF m
    <3>4. t[i + k] = e[j + k]
      BY <1>6, <3>3
    <3>5. e[j + k].place = first + (j + k) - 1 /\ e[j + k].frame = c
      BY <1>3, <3>3
    <3>6. i + k <= Len(t)
      BY <1>1, <1>6, <3>3
    <3>7. first + (j + k) - 1 = (first + j - 1) + k
      BY <1>1, <3>1
    <3> QED BY <3>2, <3>4, <3>5, <3>6, <3>7
  <2> QED BY <2>1, <2>2
<1>8. Ordered(t, first)
  <2> SUFFICES ASSUME NEW i \in 1..(Len(t) - 1), t[i].place = BodyLen
               PROVE  t[i + 1].place = first /\ t[i + 1].frame > t[i].frame
    BY DEF Ordered
  <2>1. CASE i \in 1..(Len(s) - 1)
    <3>0. i \in 1..Len(s) /\ i + 1 \in 1..Len(s)
      BY <1>1, <2>1
    <3>1. t[i] = s[i] /\ t[i + 1] = s[i + 1]
      BY <1>6, <3>0
    <3> QED BY <1>0, <2>1, <3>1 DEF Frames, Ordered
  <2>2. CASE i = Len(s)
    <3>1. i \in 1..Len(s) /\ 1 \in 1..m
      BY <1>1, <2>2
    <3>2. t[i] = s[i] /\ t[i + 1] = e[1]
      BY <1>6, <2>2, <3>1
    <3>3. s[i].frame <= b /\ s[i].frame \in Nat
      BY <1>0, <1>1, <3>1, UnitsOf DEF Frames, UpTo
    <3> QED BY <1>0, <1>4, <3>2, <3>3
  <2>3. CASE i > Len(s)
    <3>1. PICK j \in 1..m : i = Len(s) + j
      <4>1. i - Len(s) \in 1..m /\ i = Len(s) + (i - Len(s))
        BY <1>1, <1>6, <2>3
      <4> QED BY <4>1
    <3>2. j \in 1..(m - 1)
      BY <1>1, <1>6, <3>1
    <3>3. t[i].place = first + j - 1
      BY <1>3, <1>6, <3>1
    <3>4. t[i].place < BodyLen
      BY <1>1, <3>2, <3>3 DEF m
    <3> QED BY <1>1, <3>4
  <2> QED BY <1>1, <1>6, <2>1, <2>2, <2>3
<1>9. UpTo(t, c)
  <2> SUFFICES ASSUME NEW i \in 1..Len(t) PROVE t[i].frame <= c
    BY DEF UpTo
  <2>1. CASE i \in 1..Len(s)
    <3>1. t[i] = s[i] /\ s[i].frame <= b /\ s[i].frame \in Nat
      BY <1>0, <1>1, <1>6, <2>1, UnitsOf DEF Frames, UpTo
    <3> QED BY <1>0, <3>1
  <2>2. CASE i \notin 1..Len(s)
    <3>1. i - Len(s) \in 1..m /\ i = Len(s) + (i - Len(s))
      BY <1>1, <1>6, <2>2
    <3>2. t[i] = e[i - Len(s)]
      BY <1>6, <3>1
    <3>3. e[i - Len(s)].frame = c
      BY <1>3, <3>1
    <3> QED BY <1>1, <3>2, <3>3
  <2> QED BY <2>1, <2>2
<1>10. ASSUME s = <<>> PROVE t[1].frame = c /\ t[1].place = first
  <2>1. Len(s) = 0 /\ 1 \in 1..m /\ Len(s) + 1 = 1
    BY <1>1, <1>10, EmptySeq
  <2> QED BY <1>4, <1>6, <2>1
<1> QED BY <1>1, <1>5, <1>6, <1>7, <1>8, <1>9, <1>10 DEF Frames, m

-----------------------------------------------------------------------------
(* The FIFO and its reader *)

\* What the source has taken last goes on with what the FIFO holds.
Joins ==
  /\ Aac => last.place = BodyLen
  /\ fifo = <<>> => last.place = BodyLen
  /\ fifo # <<>> => Continues(last, fifo[1])

FifoIInv ==
  /\ blocks \in Nat /\ stale \in Nat /\ overrun \in BOOLEAN
  /\ source \in {"none", "opening", "drain", "sync", "skip", "run", "resync", "closed"}
  /\ last \in FifoUnit /\ last.frame <= blocks
  /\ Frames(fifo, First, blocks)
  /\ source \in {"opening", "drain"} => last = NoUnit0
  /\ source \in {"run", "resync"} /\ ~overrun => source = "run" /\ Joins

LEMMA FirstType == First \in 0..1 /\ (Aac => First = 0)
  BY DEF First

LEMMA NoUnit0Type == NoUnit0 \in FifoUnit /\ NoUnit0.frame = 0 /\ NoUnit0.place = BodyLen
  BY MicAssumption DEF NoUnit0, FifoUnit

\* A frame may follow the end of any earlier one.
LEMMA LaterContinues ==
  ASSUME NEW b \in Nat, NEW u \in FifoUnit, u.frame <= b, u.place = BodyLen,
         NEW c, c = b + 1, NEW v, v.frame = c, v.place = First
  PROVE  Continues(u, v)
  BY DEF Continues, FifoUnit

LEMMA InitFifoIInv == MicInit => FifoIInv
<1> SUFFICES ASSUME MicInit PROVE FifoIInv
  OBVIOUS
<1>1. Frames(fifo, First, blocks)
  BY FramesEmpty DEF MicInit
<1>2. source = "none" /\ stale = 0 /\ overrun = FALSE /\ blocks = 0 /\ last = NoUnit0
  BY DEF MicInit
<1>3. last \in FifoUnit /\ last.frame <= blocks
  BY <1>2, NoUnit0Type
<1> QED BY <1>1, <1>2, <1>3 DEF FifoIInv

\* A FIFO that is the same, or emptied with nobody reading, under a source that is the
\* same, or opened.
LEMMA KeepFifoIInv ==
  ASSUME FifoIInv, cfg' = cfg, blocks' = blocks \/ blocks' = blocks + 1,
         stale' = stale, overrun' = overrun, last' = last,
         source' = source \/ (source = "opening" /\ source' = "drain"),
         fifo' = fifo \/ (fifo' = <<>> /\ source = "none" /\ source' = "none")
  PROVE  FifoIInv'
<1> USE DEF FifoIInv
<1>1. First' = First /\ Aac' = Aac
  BY DEF First, Aac
<1>2. blocks' \in Nat /\ last'.frame <= blocks'
  BY DEF FifoUnit
<1>3. Frames(fifo', First', blocks')
  <2>1. CASE fifo' = <<>>
    BY <2>1, FramesEmpty
  <2>2. CASE fifo' = fifo
    <3>1. \A i \in 1..Len(fifo) : fifo[i].frame <= blocks /\ fifo[i].frame \in Nat
      BY UnitsOf DEF Frames, UpTo
    <3>2. UpTo(fifo, blocks')
      BY <3>1 DEF UpTo
    <3> QED BY <1>1, <2>2, <3>2 DEF Frames
  <2> QED BY <2>1, <2>2
<1>4. source' \in {"run", "resync"} /\ ~overrun' => source' = "run" /\ Joins'
  <2>1. \/ (fifo[1])' = fifo'[1] /\ (Continues(last, fifo[1]))' = Continues(last, fifo[1])
        \/ fifo' # fifo
    BY <1>1 DEF Continues
  <2> QED BY <1>1, <2>1 DEF Joins
<1> QED BY <1>2, <1>3, <1>4, <1>1

\* A frame written behind what is there.
LEMMA WriteFifoIInv ==
  ASSUME FifoIInv, cfg' = cfg, blocks' = blocks + 1, fifo' = fifo \o Encoded(blocks'),
         stale' = stale, overrun' = overrun, last' = last, source' = source
  PROVE  FifoIInv'
<1> USE DEF FifoIInv
<1>1. First' = First /\ Aac' = Aac /\ First \in 0..1
  BY FirstType DEF First, Aac
<1>2. blocks' \in Nat /\ last'.frame <= blocks' /\ fifo \in Seq(FifoUnit)
  BY DEF FifoUnit, Frames
<1>3. fifo' = fifo \o FrameOf(blocks', First)
  BY DEF Encoded, FrameOf
<1>4. NextFrameAdded(fifo, First, blocks, blocks', fifo')
  BY <1>1, <1>3 DEF NextFrameAdded
<1>5. /\ Frames(fifo', First, blocks')
      /\ Len(fifo') > 0
      /\ \A i \in 1..Len(fifo) : fifo'[i] = fifo[i]
      /\ fifo = <<>> => fifo'[1].frame = blocks' /\ fifo'[1].place = First
  <2>1. Frames(fifo', First, blocks')
    BY <1>4, AppendFrames
  <2>2. Len(fifo') > 0
    BY <1>4, AppendFrames
  <2>3. \A i \in 1..Len(fifo) : fifo'[i] = fifo[i]
    BY <1>4, AppendFrames
  <2>4. fifo = <<>> => fifo'[1].frame = blocks' /\ fifo'[1].place = First
    BY <1>4, AppendFrames
  <2> QED BY <2>1, <2>2, <2>3, <2>4, Zenon
<1>6. Len(fifo) \in Nat /\ (fifo = <<>> <=> Len(fifo) = 0) /\ fifo' # <<>>
  <2>1. fifo' \in Seq(FifoUnit) /\ Len(fifo') > 0
    BY <1>2, <1>5, UnitsOf DEF Frames
  <2> QED BY <1>2, <2>1, UnitsOf
<1>7. ASSUME Joins PROVE Joins'
  <2>1. CASE fifo = <<>>
    <3>1. fifo'[1].frame = blocks' /\ fifo'[1].place = First /\ last.place = BodyLen
      BY <1>5, <1>7, <2>1 DEF Joins
    <3>2. Continues(last, fifo'[1])
      BY <3>1, LaterContinues
    <3> QED BY <1>1, <1>6, <1>7, <3>2 DEF Joins, Continues
  <2>2. CASE fifo # <<>>
    <3>1. fifo'[1] = fifo[1] /\ Continues(last, fifo[1])
      BY <1>5, <1>6, <1>7, <2>2 DEF Joins
    <3> QED BY <1>1, <1>6, <1>7, <3>1 DEF Joins, Continues
  <2> QED BY <2>1, <2>2
<1> QED BY <1>1, <1>2, <1>5, <1>7

\* The thread's writes.
LEMMA FrameFifoIInv ==
  ASSUME FifoIInv, NEW encodes \in BOOLEAN, AiFrame(encodes)
  PROVE  FifoIInv'
<1> DEFINE full == ~Aac \/ Len(pcm) + CaptureLen >= BlockLen
           e == IF full /\ encodes THEN Encoded(blocks') ELSE <<>>
<1>1. /\ cfg' = cfg /\ stale' = stale /\ overrun' = overrun /\ last' = last
      /\ source' = source
      /\ blocks' = (IF full THEN blocks + 1 ELSE blocks)
      /\ FifoWrite(e)
  BY DEF AiFrame, mainVars, sourceVars
<1> HIDE DEF full
<1>2. CASE fifo' = fifo \/ (source = "none" /\ fifo' = <<>>)
  BY <1>1, <1>2, KeepFifoIInv
<1>3. CASE fifo' = fifo \o e /\ e # <<>>
  <2>1. full /\ fifo' = fifo \o Encoded(blocks') /\ blocks' = blocks + 1
    BY <1>1, <1>3
  <2> QED BY <1>1, <2>1, WriteFifoIInv
<1> HIDE DEF e
<1> QED BY <1>1, <1>2, <1>3 DEF FifoWrite

\* The n units that are asked for, or all there are.
Clipped(n, k) == k = IF n < Len(fifo) THEN n ELSE Len(fifo)

\* The source has taken the first k units.
HasTaken(k) ==
  /\ last' = fifo[k] /\ last' \in FifoUnit /\ last'.frame <= blocks
  /\ IsRest(fifo', fifo, k)
  /\ Frames(fifo', First', blocks')

\* The source takes the first n units.
LEMMA DeliverFrames ==
  ASSUME FifoIInv, cfg' = cfg, blocks' = blocks, NEW n \in Nat \ {0}, fifo # <<>>, Deliver(n)
  PROVE  \E k \in 1..Len(fifo) :
           Clipped(n, k) /\ HasTaken(k)
<1>1. fifo \in Seq(FifoUnit) /\ Frames(fifo, First, blocks) /\ First' = First
  BY DEF FifoIInv, Frames, First, Aac
<1>2. Len(fifo) \in Nat \ {0}
  BY <1>1, UnitsOf
<1> DEFINE k == IF n < Len(fifo) THEN n ELSE Len(fifo)
<1>3. k \in 1..Len(fifo) /\ k # 0 /\ k \in 0..Len(fifo)
  BY <1>2
<1>4. last' = fifo[k] /\ fifo' = SubSeq(fifo, k + 1, Len(fifo))
  BY <1>3 DEF Deliver
<1> HIDE DEF k
<1>5. fifo[k] \in FifoUnit /\ fifo[k].frame <= blocks
  BY <1>1, <1>2, <1>3, ElementOfSeq DEF Frames, UpTo
<1>6. IsRest(fifo', fifo, k)
  BY <1>1, <1>3, <1>4, SubSeqIsRest
<1>7. Frames(fifo', First, blocks)
  BY <1>1, <1>3, <1>6, RestFrames
<1>8. Clipped(n, k)
  BY DEF Clipped, k
<1>9. HasTaken(k)
  BY <1>1, <1>4, <1>5, <1>6, <1>7 DEF HasTaken
<1> QED BY <1>3, <1>8, <1>9, Zenon

\* Where the source stands behind the first k units of whole frames.
LEMMA Behind ==
  ASSUME FifoIInv, NEW k \in 1..Len(fifo), cfg' = cfg, blocks' = blocks,
         last' = fifo[k], IsRest(fifo', fifo, k), Aac => fifo[k].place = BodyLen
  PROVE  Joins'
<1>1. /\ fifo \in Seq(FifoUnit) /\ Len(fifo) \in Nat /\ Frames(fifo, First, blocks)
      /\ First' = First /\ Aac' = Aac
      /\ fifo' \in Seq(FifoUnit)
  BY UnitsOf DEF FifoIInv, Frames, First, Aac, IsRest
<1>2. fifo[k].place \in 0..BodyLen /\ BodyLen \in Nat \ {0}
  BY <1>1, UnitsOf, MicAssumption
<1>3. fifo' = <<>> => k = Len(fifo)
  BY <1>1, UnitsOf DEF IsRest
<1>4. fifo' # <<>> => k \in 1..(Len(fifo) - 1) /\ fifo'[1] = fifo[k + 1]
  <2>1. fifo' # <<>> => Len(fifo') # 0
    BY <1>1, UnitsOf
  <2>2. ASSUME fifo' # <<>>
        PROVE  k \in 1..(Len(fifo) - 1) /\ 1 \in 1..(Len(fifo) - k) /\ 1 + k = k + 1
    BY <1>1, <2>1, <2>2 DEF IsRest
  <2> QED BY <2>2 DEF IsRest
<1>5. ASSUME k = Len(fifo) PROVE fifo[k].place = BodyLen
  <2>1. SUFFICES ASSUME fifo[k].place + 1 <= BodyLen PROVE FALSE
    BY <1>2
  <2>2. 1 \in 0..BodyLen
    BY <1>2
  <2>3. k + 1 <= Len(fifo)
    BY <1>1, <2>1, <2>2 DEF Frames, Whole
  <2> QED BY <1>1, <1>5, <2>3
<1>6. ASSUME k \in 1..(Len(fifo) - 1) PROVE Continues(fifo[k], fifo[k + 1])
  <2>1. CASE fifo[k].place = BodyLen
    BY <1>1, <1>6, <2>1 DEF Frames, Ordered, Continues
  <2>2. CASE fifo[k].place # BodyLen
    <3>1. 1 \in 0..BodyLen /\ fifo[k].place + 1 <= BodyLen
      BY <1>2, <2>2
    <3>2. fifo[k + 1].place = fifo[k].place + 1 /\ fifo[k + 1].frame = fifo[k].frame
      BY <1>1, <3>1 DEF Frames, Whole
    <3> QED BY <2>2, <3>2 DEF Continues
  <2> QED BY <2>1, <2>2
<1>7. fifo' # <<>> => Continues(last', fifo'[1])
  BY <1>4, <1>6
<1>8. (fifo' # <<>> => Continues(last, fifo[1])') <=> (fifo' # <<>> => Continues(last', fifo'[1]))
  BY <1>1 DEF Continues
<1> QED BY <1>1, <1>3, <1>5, <1>7, <1>8 DEF Joins

\* What ends whole frames is the end of one.
LEMMA EndOfFrames ==
  ASSUME FifoIInv, fifo # <<>>
  PROVE  Len(fifo) \in 1..Len(fifo) /\ fifo[Len(fifo)].place = BodyLen
<1>1. fifo \in Seq(FifoUnit) /\ Frames(fifo, First, blocks) /\ BodyLen \in Nat \ {0}
  BY MicAssumption DEF FifoIInv, Frames
<1>2. Len(fifo) \in Nat \ {0} /\ Len(fifo) \in 1..Len(fifo)
  BY <1>1, UnitsOf
<1>3. fifo[Len(fifo)].place \in 0..BodyLen
  BY <1>1, <1>2, UnitsOf
<1>4. SUFFICES ASSUME fifo[Len(fifo)].place # BodyLen PROVE FALSE
  BY <1>2
<1>5. 1 \in 0..BodyLen /\ fifo[Len(fifo)].place + 1 <= BodyLen
  BY <1>1, <1>3, <1>4
<1>6. Len(fifo) + 1 <= Len(fifo)
  BY <1>1, <1>2, <1>5 DEF Frames, Whole
<1> QED BY <1>2, <1>6

\* What the source's steps leave alone.
LEMMA RestOfSource == UNCHANGED sourceRest => cfg' = cfg /\ blocks' = blocks
  BY DEF sourceRest, mainVars, captureVars

\* The source comes, throws away what is there, and goes.
LEMMA OpenFifoIInv == FifoIInv /\ (SOpen \/ SDrain \/ SEof \/ SDies) => FifoIInv'
<1> SUFFICES ASSUME FifoIInv, SOpen \/ SDrain \/ SEof \/ SDies PROVE FifoIInv'
  OBVIOUS
<1> USE DEF FifoIInv
<1>1. cfg' = cfg /\ blocks' = blocks
  BY RestOfSource DEF SOpen, SDrain, SEof, SDies
<1>2. First' = First /\ Aac' = Aac
  BY <1>1 DEF First, Aac
<1>3. fifo' = fifo \/ fifo' = <<>>
  BY DEF SOpen, SDrain, SEof, SDies
<1>4. Frames(fifo', First', blocks')
  BY <1>1, <1>2, <1>3, FramesEmpty
<1>5. CASE SOpen
  <2>1. /\ source' \in {"opening", "drain"} /\ last' = NoUnit0 /\ stale' = 0
        /\ overrun' = FALSE
    BY <1>5 DEF SOpen
  <2>2. last' \in FifoUnit /\ last'.frame <= blocks'
    <3>1. NoUnit0.frame = 0 /\ NoUnit0 \in FifoUnit
      BY NoUnit0Type
    <3> QED BY <1>1, <2>1, <3>1
  <2>3. source' \notin {"run", "resync"} /\ stale' \in Nat /\ overrun' \in BOOLEAN
    BY <2>1
  <2> QED BY <1>1, <1>4, <2>1, <2>2, <2>3
<1>6. CASE SDrain
  <2>1. /\ source = "drain" /\ last = NoUnit0
        /\ stale' = stale /\ last' = last /\ overrun' = overrun
    BY <1>6 DEF SDrain
  <2>2. \/ source' = "drain" \/ source' \in {"sync", "closed"}
        \/ source' = "run" /\ ~Aac /\ fifo' = <<>>
    <3>1. CASE fifo # <<>>
      BY <1>6, <2>1, <3>1 DEF SDrain
    <3>2. CASE fifo = <<>>
      <4>1. /\ source' = CASE Aac -> "sync" [] ~Aac /\ afd -> "run" [] OTHER -> "closed"
            /\ fifo' = <<>>
        BY <1>6, <3>2 DEF SDrain
      <4> QED BY <4>1, Zenon
    <3> QED BY <3>1, <3>2
  <2>3. source' \in {"run", "resync"} => source' = "run" /\ Joins'
    BY <1>2, <2>1, <2>2, NoUnit0Type DEF Joins
  <2> QED BY <1>1, <1>4, <2>1, <2>2, <2>3, NoUnit0Type
<1>7. CASE SEof \/ SDies
  <2>1. source' \in {"none", "closed"} /\ stale' = stale /\ last' = last /\ overrun' = overrun
    BY <1>7 DEF SEof, SDies
  <2> QED BY <1>1, <1>4, <2>1
<1> QED BY <1>5, <1>6, <1>7

\* The first header is looked for, and its frame skipped.
LEMMA SyncFifoIInv == FifoIInv /\ (SSync \/ SSkip) => FifoIInv'
<1> SUFFICES ASSUME FifoIInv, SSync \/ SSkip PROVE FifoIInv'
  OBVIOUS
<1>1. cfg' = cfg /\ blocks' = blocks
  BY RestOfSource DEF SSync, SSkip
<1>2. First' = First /\ fifo \in Seq(FifoUnit) /\ Frames(fifo, First, blocks) /\ fifo # <<>>
  BY <1>1 DEF First, Aac, FifoIInv, Frames, SSync, SSkip
<1>3. Len(fifo) \in Nat \ {0} /\ 1 \in 1..Len(fifo) /\ 1 \in 0..Len(fifo)
  BY <1>2, UnitsOf
<1>4. \A k \in 1..Len(fifo) : fifo[k] \in FifoUnit /\ fifo[k].frame <= blocks
  BY <1>2, <1>3, ElementOfSeq DEF Frames, UpTo
<1>5. CASE SSync
  <2>1. /\ source' \in {"skip", "sync"} /\ last' = fifo[1] /\ fifo' = Tail(fifo)
        /\ stale' = stale /\ overrun' = overrun
    BY <1>5 DEF SSync
  <2>2. /\ fifo' \in Seq(FifoUnit) /\ Len(fifo') = Len(fifo) - 1
        /\ \A i \in 1..Len(fifo') : fifo'[i] = fifo[i + 1]
    BY <1>2, <2>1, HeadTailProperties
  <2>3. IsRest(fifo', fifo, 1)
    BY <1>3, <2>2 DEF IsRest
  <2>4. Frames(fifo', First, blocks)
    BY <1>2, <1>3, <2>3, RestFrames
  <2> QED BY <1>1, <1>2, <1>3, <1>4, <2>1, <2>4 DEF FifoIInv
<1>6. CASE SSkip
  <2> DEFINE n == IF Len(fifo) < StdioLen THEN Len(fifo) ELSE StdioLen
  <2>1. /\ source' = "run" /\ last' = fifo[n] /\ overrun' = (n < Len(fifo))
        /\ fifo' = SubSeq(fifo, n + 1, Len(fifo)) /\ stale' = stale
    BY <1>6 DEF SSkip
  <2>2. n \in 1..Len(fifo) /\ n \in 0..Len(fifo)
    BY <1>3, MicAssumption
  <2> HIDE DEF n
  <2>3. IsRest(fifo', fifo, n)
    BY <1>2, <2>1, <2>2, SubSeqIsRest
  <2>4. Frames(fifo', First, blocks)
    BY <1>2, <2>2, <2>3, RestFrames
  <2>5. ASSUME ~overrun' PROVE Joins'
    <3>1. ~(n < Len(fifo))
      <4>1. overrun' <=> n < Len(fifo)
        BY <2>1
      <4> QED BY <2>5, <4>1, Zenon
    <3>2. n = Len(fifo)
      BY <1>3, <2>2, <3>1
    <3>3. fifo[n].place = BodyLen
      BY <1>2, <3>2, EndOfFrames
    <3> QED BY <1>1, <2>1, <2>2, <2>3, <3>3, Behind
  <2>6. overrun' \in BOOLEAN
    BY <2>1
  <2> QED BY <1>1, <1>2, <1>4, <2>1, <2>2, <2>4, <2>5, <2>6 DEF FifoIInv
<1> QED BY <1>5, <1>6

\* A source in sync takes whole frames, or packets.
LEMMA RunFifoIInv == FifoIInv /\ (SFrame \/ SPacket) => FifoIInv'
<1> SUFFICES ASSUME FifoIInv, SFrame \/ SPacket PROVE FifoIInv'
  OBVIOUS
<1>1. cfg' = cfg /\ blocks' = blocks
  BY RestOfSource DEF SFrame, SPacket
<1>2. First' = First /\ fifo \in Seq(FifoUnit) /\ Frames(fifo, First, blocks) /\ fifo # <<>>
  BY <1>1 DEF First, Aac, FifoIInv, Frames, SFrame, SPacket
<1>3. Len(fifo) \in Nat \ {0} /\ 1 \in 1..Len(fifo) /\ BodyLen \in Nat \ {0}
  BY <1>2, UnitsOf, MicAssumption
<1>4. PICK n \in Nat \ {0} :
        Deliver(n) /\ (Aac => n = BodyLen + 1 /\ fifo[1].place = 0)
  <2>1. CASE SFrame
    <3>1. BodyLen + 1 \in Nat \ {0} /\ Deliver(BodyLen + 1) /\ fifo[1].place = 0
      BY <1>3, <2>1 DEF SFrame
    <3> QED BY <3>1
  <2>2. CASE SPacket
    <3>1. Deliver(1) /\ ~Aac
      BY <2>2 DEF SPacket
    <3> QED BY <3>1
  <2> QED BY <2>1, <2>2
<1>5. PICK k \in 1..Len(fifo) :
        Clipped(n, k) /\ HasTaken(k)
  BY <1>1, <1>2, <1>4, DeliverFrames
<1>6. ASSUME Aac PROVE fifo[k].place = BodyLen
  <2>0. n = BodyLen + 1 /\ fifo[1].place = 0
    BY <1>4, <1>6
  <2>1. n = BodyLen + 1 /\ fifo[1].place = 0 /\ BodyLen \in 0..BodyLen
    BY <1>3, <2>0
  <2>2. 1 + BodyLen <= Len(fifo) /\ fifo[1 + BodyLen].place = 0 + BodyLen
    BY <1>2, <1>3, <2>1 DEF Frames, Whole
  <2>3. k = 1 + BodyLen
    BY <1>3, <1>5, <2>1, <2>2 DEF Clipped
  <2> QED BY <1>3, <2>2, <2>3
<1>7. Joins'
  BY <1>1, <1>5, <1>6, Behind DEF HasTaken
<1>8. source = "run" /\ source' = "run" /\ stale' = stale /\ overrun' = overrun
  BY DEF SFrame, SPacket
<1> QED BY <1>1, <1>5, <1>7, <1>8 DEF FifoIInv, HasTaken

\* Only a source that has lost its frames in skipping the first looks for a header.
LEMMA ResyncFifoIInv ==
  ASSUME FifoIInv, \/ \E length \in 0..FifoLen : SNoSync(length)
                   \/ \E looksLike \in BOOLEAN : SResync(looksLike)
  PROVE  FifoIInv'
<1>1. cfg' = cfg /\ blocks' = blocks
  BY RestOfSource DEF SNoSync, SResync
<1>2. fifo # <<>> /\ overrun' = overrun /\ stale' \in Nat
      /\ source' \in {"run", "resync"} /\ source \in {"run", "resync"}
  BY DEF SNoSync, SResync, FifoIInv
<1>3. overrun
  <2>1. CASE \E length \in 0..FifoLen : SNoSync(length)
    <3>1. source = "run" /\ Aac /\ fifo[1].place # 0
      BY <2>1 DEF SNoSync
    <3>2. SUFFICES ASSUME ~overrun PROVE FALSE
      OBVIOUS
    <3>3. last.place = BodyLen /\ Continues(last, fifo[1])
      BY <1>2, <3>1, <3>2 DEF FifoIInv, Joins
    <3> QED BY <3>1, <3>3, FirstType DEF Continues
  <2>2. CASE \E looksLike \in BOOLEAN : SResync(looksLike)
    BY <2>2 DEF SResync, FifoIInv
  <2> QED BY <2>1, <2>2
<1>4. PICK n \in Nat \ {0} : Deliver(n)
  <2>1. stale + 1 \in Nat \ {0} /\ 1 \in Nat \ {0}
    BY DEF FifoIInv
  <2> QED BY <2>1 DEF SNoSync, SResync
<1>5. last' \in FifoUnit /\ last'.frame <= blocks /\ Frames(fifo', First', blocks')
  BY <1>1, <1>2, <1>4, DeliverFrames DEF HasTaken
<1> QED BY <1>1, <1>2, <1>3, <1>5 DEF FifoIInv

LEMMA NextFifoIInv == FifoIInv /\ [MicNext]_<<cfg, micVars>> => FifoIInv'
<1> SUFFICES ASSUME FifoIInv, [MicNext]_<<cfg, micVars>> PROVE FifoIInv'
  OBVIOUS
<1>1. CASE AiSetup \/ AiNothing \/ Capture \/ ToggleMarker
  <2>1. /\ cfg' = cfg /\ blocks' = blocks /\ stale' = stale /\ overrun' = overrun
        /\ last' = last /\ source' = source /\ fifo' = fifo
    BY <1>1 DEF AiSetup, AiNothing, Capture, ToggleMarker, mainVars, captureVars, sourceVars
  <2> QED BY <2>1, KeepFifoIInv
<1>2. CASE AiFails \/ AiEnd
  <2>1. /\ cfg' = cfg /\ blocks' = blocks /\ stale' = stale /\ overrun' = overrun
        /\ last' = last /\ source' = source
        /\ fifo' = fifo \/ (fifo' = <<>> /\ source = "none")
    BY <1>2 DEF AiFails, AiEnd, ThreadEnds, captureVars, sourceVars
  <2> QED BY <2>1, KeepFifoIInv
<1>3. ASSUME NEW ok \in BOOLEAN, AiRound(ok) PROVE FifoIInv'
  <2>1. /\ cfg' = cfg /\ blocks' = blocks /\ stale' = stale /\ overrun' = overrun
        /\ last' = last /\ fifo' = fifo
        /\ source' = IF source = "opening" THEN "drain" ELSE source
    BY <1>3 DEF AiRound, mainVars, captureVars
  <2> QED BY <2>1, KeepFifoIInv
<1>4. CASE \E encodes \in BOOLEAN : AiFrame(encodes)
  BY <1>4, FrameFifoIInv
<1>5. CASE AudioSource
  BY <1>5, OpenFifoIInv, SyncFifoIInv, RunFifoIInv, ResyncFifoIInv DEF AudioSource
<1>6. CASE UNCHANGED <<cfg, micVars>>
  <2>1. /\ cfg' = cfg /\ blocks' = blocks /\ stale' = stale /\ overrun' = overrun
        /\ last' = last /\ source' = source /\ fifo' = fifo
    BY <1>6 DEF micVars, captureVars, sourceVars
  <2> QED BY <2>1, KeepFifoIInv
<1> QED BY <1>1, <1>2, <1>3, <1>4, <1>5, <1>6 DEF MicNext, AiThread

LEMMA FifoIInvInSync == FifoIInv => SourceInSync
<1> SUFFICES ASSUME FifoIInv, source \in {"run", "resync"}, ~overrun
             PROVE  LET read == <<last>> \o fifo
                    IN  /\ source = "run"
                        /\ Aac => last.place = BodyLen
                        /\ \A i \in 1..Len(fifo) : Continues(read[i], read[i + 1])
                        /\ fifo # <<>> => fifo[Len(fifo)].place = BodyLen
  BY DEF SourceInSync
<1> DEFINE one == <<last>>
           read == one \o fifo
<1>1. source = "run" /\ Joins /\ fifo \in Seq(FifoUnit) /\ Frames(fifo, First, blocks)
  BY DEF FifoIInv, Frames
<1>2. Len(fifo) \in Nat /\ BodyLen \in Nat \ {0}
  BY <1>1, UnitsOf, MicAssumption
<1>3. one \in Seq(FifoUnit) /\ Len(one) = 1 /\ one[1] = last
  BY DEF FifoIInv
<1> HIDE DEF one
<1>4. \A i \in 1..(Len(one) + Len(fifo)) :
        (one \o fifo)[i] = IF i <= Len(one) THEN one[i] ELSE fifo[i - Len(one)]
  BY <1>1, <1>3, ConcatProperties
<1> HIDE DEF read
<1>5. read[1] = last /\ \A i \in 1..Len(fifo) : read[i + 1] = fifo[i]
  <2>1. read[1] = last
    BY <1>2, <1>3, <1>4 DEF read
  <2>2. ASSUME NEW i \in 1..Len(fifo) PROVE read[i + 1] = fifo[i]
    <3>1. i + 1 \in 1..(Len(one) + Len(fifo)) /\ ~(i + 1 <= Len(one)) /\ (i + 1) - Len(one) = i
      BY <1>2, <1>3
    <3> QED BY <1>4, <3>1 DEF read
  <2> QED BY <2>1, <2>2
<1>6. ASSUME NEW i \in 1..Len(fifo) PROVE Continues(read[i], read[i + 1])
  <2>1. CASE i = 1
    <3>1. fifo # <<>>
      BY <1>1, <1>2, <2>1, UnitsOf
    <3> QED BY <1>1, <1>5, <2>1, <3>1 DEF Joins
  <2>2. CASE i # 1
    <3>1. i - 1 \in 1..(Len(fifo) - 1) /\ i - 1 \in 1..Len(fifo) /\ (i - 1) + 1 = i
      BY <1>2, <2>2
    <3>2. read[i] = fifo[i - 1] /\ read[i + 1] = fifo[i]
      BY <1>5, <3>1
    <3>3. fifo[i - 1].place \in 0..BodyLen
      BY <1>1, <3>1, UnitsOf
    <3>4. CASE fifo[i - 1].place = BodyLen
      BY <1>1, <3>1, <3>2, <3>4 DEF Frames, Ordered, Continues
    <3>5. CASE fifo[i - 1].place # BodyLen
      <4>1. 1 \in 0..BodyLen /\ fifo[i - 1].place + 1 <= BodyLen
        BY <1>2, <3>3, <3>5
      <4>2. fifo[i].place = fifo[i - 1].place + 1 /\ fifo[i].frame = fifo[i - 1].frame
        BY <1>1, <3>1, <4>1 DEF Frames, Whole
      <4> QED BY <3>2, <3>5, <4>2 DEF Continues
    <3> QED BY <3>4, <3>5
  <2> QED BY <2>1, <2>2
<1>7. fifo # <<>> => fifo[Len(fifo)].place = BodyLen
  BY EndOfFrames
<1> QED BY <1>1, <1>6, <1>7 DEF Joins, read, one


\* A source that has skipped its first frame without cutting another never loses the
\* frames again: whatever is dropped at a full FIFO, whoever dies and comes back.
THEOREM InSync == MicSpec => []SourceInSync
  BY InitFifoIInv, NextFifoIInv, FifoIInvInSync, PTL DEF MicSpec

-----------------------------------------------------------------------------
(* The blocks of the encoder *)

BlocksIInv ==
  /\ taken \in Nat /\ blocks \in Nat /\ pcm \in Seq(Nat)
  /\ Aac => /\ Len(pcm) = taken * CaptureLen - blocks * BlockLen
            /\ Len(pcm) < BlockLen
            /\ \A i \in 1..Len(pcm) : pcm[i] = blocks * BlockLen + i

\* s are the samples behind the first o of n.
Samples(s, n, o) ==
  /\ s \in Seq(Nat) /\ Len(s) \in Nat /\ Len(s) = n - o
  /\ \A i \in 1..Len(s) : s[i] = o + i

\* The next c samples, and then the first b of all of them taken off.
Captured(n, c) == [i \in 1..c |-> n + i]

LEMMA AppendSamples ==
  ASSUME NEW n \in Nat, NEW o \in Nat, NEW c \in Nat, NEW s, Samples(s, n, o)
  PROVE  Samples(s \o Captured(n, c), n + c, o)
<1>1. s \in Seq(Nat) /\ Len(s) \in Nat /\ Len(s) = n - o
  BY DEF Samples
<1>2. Captured(n, c) \in Seq(Nat) /\ Len(Captured(n, c)) = c
  BY DEF Captured
<1>3. \A i \in 1..c : Captured(n, c)[i] = n + i
  BY DEF Captured
<1> DEFINE e == Captured(n, c)
<1> HIDE DEF e
<1>4. /\ s \o e \in Seq(Nat) /\ Len(s \o e) = Len(s) + Len(e)
      /\ \A i \in 1..(Len(s) + Len(e)) :
           (s \o e)[i] = IF i <= Len(s) THEN s[i] ELSE e[i - Len(s)]
  BY <1>1, <1>2, ConcatProperties DEF e
<1>5. ASSUME NEW i \in 1..Len(s \o e) PROVE (s \o e)[i] = o + i
  <2>1. CASE i <= Len(s)
    BY <1>1, <1>4, <2>1 DEF Samples
  <2>2. CASE ~(i <= Len(s))
    <3>1. i - Len(s) \in 1..c
      BY <1>1, <1>2, <1>4, <2>2 DEF e
    <3>2. (s \o e)[i] = n + (i - Len(s))
      BY <1>2, <1>3, <1>4, <2>2, <3>1 DEF e
    <3> QED BY <1>1, <3>2
  <2> QED BY <2>1, <2>2
<1>6. Len(s \o e) = (n + c) - o /\ Len(s \o e) \in Nat
  BY <1>1, <1>2, <1>4 DEF e
<1> QED BY <1>4, <1>5, <1>6 DEF Samples, e

LEMMA DropSamples ==
  ASSUME NEW n \in Nat, NEW o \in Nat, NEW b \in Nat \ {0}, NEW s, Samples(s, n, o),
         b <= Len(s)
  PROVE  Samples(SubSeq(s, b + 1, Len(s)), n, o + b)
<1> DEFINE t == SubSeq(s, b + 1, Len(s))
<1>1. s \in Seq(Nat) /\ Len(s) \in Nat /\ Len(s) = n - o
  BY DEF Samples
<1>2. CASE b + 1 <= Len(s)
  <2>1. \A i \in (b + 1)..Len(s) : s[i] \in Nat
    BY <1>1, ElementOfSeq
  <2>2. /\ t \in Seq(Nat) /\ Len(t) = Len(s) - (b + 1) + 1
        /\ \A i \in 1..(Len(s) - (b + 1) + 1) : t[i] = s[(b + 1) + i - 1]
    BY <1>1, <1>2, <2>1, SubSeqProperties
  <2> HIDE DEF t
  <2>3. Len(t) = n - (o + b) /\ Len(t) \in Nat
    BY <1>1, <1>2, <2>2
  <2>4. ASSUME NEW i \in 1..Len(t) PROVE t[i] = (o + b) + i
    <3>1. /\ i \in 1..(Len(s) - (b + 1) + 1) /\ (b + 1) + i - 1 = i + b
          /\ i + b \in 1..Len(s)
      BY <1>1, <2>2
    <3>2. t[i] = s[i + b] /\ s[i + b] = o + (i + b)
      BY <2>2, <3>1 DEF Samples
    <3> QED BY <3>1, <3>2
  <2> QED BY <2>2, <2>3, <2>4 DEF Samples, t
<1>3. CASE b = Len(s)
  <2>1. t = <<>>
    BY <1>1, <1>3, SubSeqEmpty
  <2>2. t \in Seq(Nat) /\ Len(t) = 0
    BY <2>1, EmptySeq
  <2> HIDE DEF t
  <2> QED BY <1>1, <1>3, <2>2 DEF Samples, t
<1> QED BY <1>1, <1>2, <1>3

\* One more frame or block.
LEMMA OneMore ==
  ASSUME NEW a \in Nat, NEW b \in Nat
  PROVE  (a + 1) * b = a * b + b /\ a * b \in Nat
OBVIOUS


\* One captured frame more, cut into blocks.
LEMMA ReblockSamples ==
  ASSUME NEW n \in Nat, NEW o \in Nat, Samples(pcm, n, o), Len(pcm) < BlockLen,
         n = taken * CaptureLen, Reblock
  PROVE  IF Len(pcm) + CaptureLen >= BlockLen
         THEN Samples(pcm', n + CaptureLen, o + BlockLen) /\ Len(pcm') < BlockLen
         ELSE Samples(pcm', n + CaptureLen, o) /\ Len(pcm') < BlockLen
<1> DEFINE all == pcm \o Captured(n, CaptureLen)
<1>1. CaptureLen \in Nat \ {0} /\ BlockLen \in Nat \ {0} /\ CaptureLen < BlockLen
  BY MicAssumption
<1>2. Samples(all, n + CaptureLen, o)
  BY <1>1, AppendSamples
<1>3. pcm' = IF Len(all) < BlockLen THEN all ELSE SubSeq(all, BlockLen + 1, Len(all))
  BY DEF Reblock, Captured
<1> HIDE DEF all
<1>4. /\ Len(pcm) \in Nat /\ Len(pcm) = n - o
      /\ Len(all) \in Nat /\ Len(all) = (n + CaptureLen) - o
  BY <1>2 DEF Samples
<1>5. Len(all) = Len(pcm) + CaptureLen
  BY <1>1, <1>4
<1>6. CASE Len(pcm) + CaptureLen >= BlockLen
  <2>1. pcm' = SubSeq(all, BlockLen + 1, Len(all))
    BY <1>1, <1>3, <1>4, <1>5, <1>6
  <2>2. Samples(pcm', n + CaptureLen, o + BlockLen)
    <3>1. n + CaptureLen \in Nat /\ BlockLen <= Len(all)
      BY <1>1, <1>5, <1>6
    <3> QED BY <1>1, <1>2, <2>1, <3>1, DropSamples
  <2>3. Len(pcm') = (n + CaptureLen) - (o + BlockLen)
    BY <2>2 DEF Samples
  <2> QED BY <1>1, <1>4, <1>6, <2>2, <2>3
<1>7. CASE ~(Len(pcm) + CaptureLen >= BlockLen)
  <2>1. pcm' = all
    BY <1>1, <1>3, <1>4, <1>5, <1>7
  <2> QED BY <1>1, <1>2, <1>4, <1>5, <1>7, <2>1
<1> QED BY <1>6, <1>7

LEMMA BlocksSamples ==
  BlocksIInv <=>
    /\ taken \in Nat /\ blocks \in Nat /\ pcm \in Seq(Nat)
    /\ Aac => Samples(pcm, taken * CaptureLen, blocks * BlockLen) /\ Len(pcm) < BlockLen
<1>1. pcm \in Seq(Nat) => Len(pcm) \in Nat
  BY LenProperties
<1> QED BY <1>1 DEF BlocksIInv, Samples

LEMMA InitBlocksIInv == MicInit => BlocksIInv
<1> SUFFICES ASSUME MicInit PROVE BlocksIInv
  OBVIOUS
<1>1. taken = 0 /\ blocks = 0 /\ pcm = <<>> /\ pcm \in Seq(Nat) /\ Len(pcm) = 0
  BY EmptySeq DEF MicInit
<1> QED BY <1>1, MicAssumption DEF BlocksIInv

LEMMA NextBlocksIInv == BlocksIInv /\ [MicNext]_<<cfg, micVars>> => BlocksIInv'
<1> SUFFICES ASSUME BlocksIInv, [MicNext]_<<cfg, micVars>> PROVE BlocksIInv'
  OBVIOUS
<1>1. CASE UNCHANGED <<cfg, captureVars>>
  <2>1. cfg' = cfg /\ taken' = taken /\ blocks' = blocks /\ pcm' = pcm
    BY <1>1 DEF captureVars
  <2> QED BY <2>1 DEF BlocksIInv, Aac
<1>2. ASSUME NEW encodes \in BOOLEAN, AiFrame(encodes) PROVE BlocksIInv'
  <2> DEFINE n == taken * CaptureLen
             o == blocks * BlockLen
  <2>1. /\ cfg' = cfg /\ taken' = taken + 1
        /\ IF Aac THEN Reblock ELSE pcm' = pcm
        /\ blocks' = IF ~Aac \/ Len(pcm) + CaptureLen >= BlockLen THEN blocks + 1 ELSE blocks
    BY <1>2 DEF AiFrame, mainVars
  <2>2. Aac' = Aac
    BY <2>1 DEF Aac
  <2>3. taken \in Nat /\ blocks \in Nat /\ pcm \in Seq(Nat)
    BY DEF BlocksIInv
  <2>4. CASE ~Aac
    BY <2>1, <2>2, <2>3, <2>4 DEF BlocksIInv
  <2>5. CASE Aac
    <3>1. CaptureLen \in Nat /\ BlockLen \in Nat
      BY MicAssumption
    <3>2. /\ taken' * CaptureLen = n + CaptureLen /\ n \in Nat
          /\ (blocks + 1) * BlockLen = o + BlockLen /\ o \in Nat
      BY <2>1, <2>3, <3>1, OneMore
    <3>3. Samples(pcm, n, o) /\ Len(pcm) < BlockLen /\ Reblock
      BY <2>1, <2>5, BlocksSamples
    <3>4. n = taken * CaptureLen
      OBVIOUS
    <3> HIDE DEF n, o
    <3>5. CASE Len(pcm) + CaptureLen >= BlockLen
      <4>1. Samples(pcm', n + CaptureLen, o + BlockLen) /\ Len(pcm') < BlockLen
        BY <3>2, <3>3, <3>4, <3>5, ReblockSamples
      <4>2. blocks' = blocks + 1 /\ pcm' \in Seq(Nat)
        BY <2>1, <3>5, <4>1 DEF Samples
      <4>3. Samples(pcm', taken' * CaptureLen, blocks' * BlockLen)
        BY <3>2, <4>1, <4>2
      <4>4. blocks' \in Nat /\ taken' \in Nat
        BY <2>1, <2>3, <4>2
      <4> QED BY <4>1, <4>2, <4>3, <4>4 DEF BlocksIInv, Samples
    <3>6. CASE ~(Len(pcm) + CaptureLen >= BlockLen)
      <4>1. Samples(pcm', n + CaptureLen, o) /\ Len(pcm') < BlockLen
        BY <3>2, <3>3, <3>4, <3>6, ReblockSamples
      <4>2. blocks' = blocks /\ pcm' \in Seq(Nat)
        BY <2>1, <2>5, <3>6, <4>1 DEF Samples
      <4>3. Samples(pcm', taken' * CaptureLen, blocks' * BlockLen)
        BY <3>2, <4>1, <4>2 DEF o
      <4>4. blocks' \in Nat /\ taken' \in Nat
        BY <2>1, <2>3, <4>2
      <4> QED BY <4>1, <4>2, <4>3, <4>4 DEF BlocksIInv, Samples
    <3> QED BY <3>5, <3>6
  <2> QED BY <2>4, <2>5
<1>3. ASSUME NEW ok \in BOOLEAN, AiRound(ok) PROVE UNCHANGED <<cfg, captureVars>>
  BY <1>3 DEF AiRound, mainVars
<1>4. ASSUME AiSetup \/ AiFails \/ AiNothing \/ AiEnd \/ Capture \/ ToggleMarker
      PROVE  UNCHANGED <<cfg, captureVars>>
  BY <1>4 DEF AiSetup, AiFails, AiNothing, AiEnd, Capture, ToggleMarker, ThreadEnds, mainVars
<1>5. ASSUME AudioSource PROVE UNCHANGED <<cfg, captureVars>>
  BY <1>5 DEF AudioSource, SOpen, SDrain, SSync, SSkip, SFrame, SPacket, SEof, SDies,
              SNoSync, SResync, sourceRest, mainVars
<1>6. ASSUME UNCHANGED <<cfg, micVars>> PROVE UNCHANGED <<cfg, captureVars>>
  BY <1>6 DEF micVars
<1> QED BY <1>1, <1>2, <1>3, <1>4, <1>5, <1>6 DEF MicNext, AiThread

\* Every sample taken from the device is in exactly one block of the encoder or waits
\* for it, in order, whatever the lengths of frames and blocks.
THEOREM InOrder == MicSpec => []BlocksInOrder
<1>1. BlocksIInv => BlocksInOrder
  BY DEF BlocksIInv, BlocksInOrder
<1> QED BY <1>1, InitBlocksIInv, NextBlocksIInv, PTL DEF MicSpec


-----------------------------------------------------------------------------
(* The marker that mutes *)

\* What the device holds was captured live up to place p at most.
LiveUpTo(q, p) ==
  /\ p \in 0..Len(q)
  /\ \A i \in 1..Len(q) : q[i] = TRUE => i <= p

\* Frames that may still be taken before the next look at the marker.
ToLook == countdown - 1 + (IF mic = "take" THEN 1 ELSE 0)

MuteTypes ==
  /\ mic \in {"start", "loop", "take", "ended"}
  /\ aiq \in Seq(BOOLEAN) /\ Len(aiq) <= AiDepth
  /\ marker \in BOOLEAN /\ adcMuted \in BOOLEAN
  /\ countdown \in 1..MutePeriod /\ exposed \in Nat /\ acodecFails \in Nat

\* The marker is gone, or not seen yet, or seen: then only what the device held is live.
Seen ==
  /\ muted = "yes" => adcMuted = TRUE
  /\ marker = FALSE => exposed = 0
  /\ marker = TRUE /\ muted # "yes" => exposed + ToLook <= MutePeriod
  /\ marker = TRUE /\ muted = "yes" => \E p : LiveUpTo(aiq, p) /\ exposed + p <= MostExposed

MuteIInv == MuteTypes /\ (acodecFails = 0 => Seen)

LEMMA AllLive ==
  ASSUME NEW q \in Seq(BOOLEAN)
  PROVE  LiveUpTo(q, Len(q)) /\ Len(q) \in Nat
<1>1. Len(q) \in Nat
  BY LenProperties
<1> QED BY <1>1 DEF LiveUpTo

LEMMA AddMuted ==
  ASSUME NEW q \in Seq(BOOLEAN), NEW p, LiveUpTo(q, p)
  PROVE  LiveUpTo(Append(q, FALSE), p)
<1>1. Len(q) \in Nat
  BY LenProperties
<1>2. /\ Len(Append(q, FALSE)) = Len(q) + 1
      /\ \A i \in 1..Len(q) : Append(q, FALSE)[i] = q[i]
      /\ Append(q, FALSE)[Len(q) + 1] = FALSE
  BY AppendProperties
<1> QED BY <1>1, <1>2 DEF LiveUpTo

LEMMA TakeLive ==
  ASSUME NEW q \in Seq(BOOLEAN), q # <<>>, NEW p, LiveUpTo(q, p)
  PROVE  IF p = 0 THEN Head(q) # TRUE /\ LiveUpTo(Tail(q), 0) ELSE LiveUpTo(Tail(q), p - 1)
<1>1. Len(q) \in Nat \ {0}
  BY LenProperties, EmptySeq
<1>2. /\ Tail(q) \in Seq(BOOLEAN) /\ Len(Tail(q)) = Len(q) - 1
      /\ \A i \in 1..Len(Tail(q)) : Tail(q)[i] = q[i + 1]
  BY HeadTailProperties
<1>3. Head(q) = q[1] /\ 1 \in 1..Len(q)
  BY <1>1
<1>4. p \in 0..Len(q) /\ \A i \in 1..Len(q) : q[i] = TRUE => i <= p
  BY DEF LiveUpTo
<1>5. ASSUME NEW i \in 1..Len(Tail(q)), Tail(q)[i] = TRUE PROVE i + 1 <= p /\ i <= p - 1
  <2>1. i + 1 \in 1..Len(q) /\ q[i + 1] = TRUE
    BY <1>1, <1>2, <1>5
  <2> QED BY <1>1, <1>4, <2>1
<1>6. CASE p = 0
  <2>1. Head(q) # TRUE
    <3>1. ~(1 <= p)
      BY <1>6
    <3> QED BY <1>3, <1>4, <3>1
  <2>2. 0 \in 0..Len(Tail(q))
    BY <1>1, <1>2
  <2>3. ASSUME NEW i \in 1..Len(Tail(q)) PROVE Tail(q)[i] # TRUE
    <3>1. ~(i + 1 <= p)
      BY <1>1, <1>2, <1>6
    <3> QED BY <1>5, <3>1
  <2> QED BY <1>6, <2>1, <2>2, <2>3 DEF LiveUpTo
<1>7. CASE p # 0
  <2>1. p - 1 \in 0..Len(Tail(q))
    BY <1>1, <1>2, <1>4, <1>7
  <2> QED BY <1>5, <1>7, <2>1 DEF LiveUpTo
<1> QED BY <1>6, <1>7


LEMMA RoundMute == ASSUME MuteIInv, NEW ok \in BOOLEAN, AiRound(ok) PROVE MuteIInv'
<1> USE DEF MuteIInv
<1>1. /\ mic = "loop" /\ mic' = "take" /\ aiq' = aiq /\ marker' = marker /\ exposed' = exposed
      /\ MuteTick(ok) /\ MutePeriod \in Nat \ {0} /\ AiDepth \in Nat \ {0}
  BY MicAssumption DEF AiRound
<1>2. CASE countdown > 1
  <2>1. countdown' = countdown - 1 /\ muted' = muted /\ adcMuted' = adcMuted
        /\ acodecFails' = acodecFails
    BY <1>1, <1>2 DEF MuteTick
  <2>2. MuteTypes' /\ ToLook' = ToLook
    BY <1>1, <1>2, <2>1 DEF MuteTypes, ToLook
  <2>3. Seen => Seen'
    BY <1>1, <2>1, <2>2 DEF Seen
  <2> QED BY <2>1, <2>2, <2>3
<1>3. CASE ~(countdown > 1)
  <2>1. countdown' = MutePeriod /\ LookAtMarker(ok) /\ countdown = 1
    BY <1>1, <1>3 DEF MuteTick, MuteTypes
  <2>2. muted' = IF marker THEN "yes" ELSE "no"
    BY <2>1 DEF LookAtMarker
  <2>3. CASE muted' # muted
    <3>1. SetMicMute(marker, ok)
      BY <2>1, <2>2, <2>3 DEF LookAtMarker
    <3>2. CASE ok
      <4>1. adcMuted' = marker /\ acodecFails' = acodecFails
        BY <3>1, <3>2 DEF SetMicMute
      <4>2. MuteTypes'
        BY <1>1, <2>1, <4>1 DEF MuteTypes
      <4>3. ASSUME Seen, marker = TRUE PROVE Seen'
        <5>1. muted' = "yes" /\ adcMuted' = TRUE /\ exposed <= MutePeriod /\ exposed \in Nat
          BY <1>1, <2>1, <2>2, <2>3, <4>1, <4>3 DEF Seen, ToLook, MuteTypes
        <5>2. LiveUpTo(aiq, Len(aiq)) /\ Len(aiq) \in Nat /\ Len(aiq) <= AiDepth
          BY AllLive DEF MuteTypes
        <5>3. exposed + Len(aiq) <= MostExposed
          BY <1>1, <5>1, <5>2 DEF MostExposed
        <5> QED BY <1>1, <4>3, <5>1, <5>2, <5>3 DEF Seen
      <4>4. ASSUME Seen, marker = FALSE PROVE Seen'
        <5>1. muted' = "no" /\ exposed = 0
          BY <2>2, <4>4 DEF Seen
        <5> QED BY <1>1, <4>4, <5>1 DEF Seen
      <4> QED BY <4>1, <4>2, <4>3, <4>4 DEF MuteTypes
    <3>3. CASE ~ok
      <4>1. adcMuted' = adcMuted /\ acodecFails' = acodecFails + 1
        BY <3>1, <3>3 DEF SetMicMute
      <4>2. MuteTypes' /\ acodecFails' # 0
        BY <1>1, <2>1, <4>1 DEF MuteTypes
      <4> QED BY <4>2
    <3> QED BY <3>2, <3>3
  <2>4. CASE muted' = muted
    <3>1. adcMuted' = adcMuted /\ acodecFails' = acodecFails
      BY <2>1, <2>2, <2>4 DEF LookAtMarker
    <3>2. MuteTypes'
      BY <1>1, <2>1, <3>1 DEF MuteTypes
    <3>3. marker = TRUE => muted = "yes"
      BY <2>2, <2>4
    <3>4. Seen => Seen'
      BY <1>1, <2>4, <3>1, <3>3 DEF Seen
    <3> QED BY <3>1, <3>2, <3>4
  <2> QED BY <2>3, <2>4
<1> QED BY <1>2, <1>3

LEMMA FrameMute == ASSUME MuteIInv, NEW encodes \in BOOLEAN, AiFrame(encodes) PROVE MuteIInv'
<1> USE DEF MuteIInv
<1>1. /\ mic = "take" /\ mic' = "loop" /\ aiq # <<>> /\ aiq' = Tail(aiq)
      /\ marker' = marker /\ muted' = muted /\ countdown' = countdown
      /\ adcMuted' = adcMuted /\ acodecFails' = acodecFails
      /\ exposed' = IF marker /\ Head(aiq) /\ exposed <= MostExposed THEN exposed + 1 ELSE exposed
      /\ MutePeriod \in Nat \ {0}
  BY MicAssumption DEF AiFrame, muteVars
<1>2. /\ aiq \in Seq(BOOLEAN) /\ aiq' \in Seq(BOOLEAN) /\ Len(aiq') = Len(aiq) - 1
      /\ Len(aiq) \in Nat /\ Len(aiq) <= AiDepth /\ AiDepth \in Nat
  BY <1>1, MicAssumption, HeadTailProperties, LenProperties DEF MuteTypes
<1>0. /\ exposed \in Nat /\ countdown \in Nat /\ countdown >= 1 /\ MutePeriod \in Nat
      /\ mic = "take" /\ mic' = "loop" /\ countdown' = countdown
      /\ exposed' = exposed \/ exposed' = exposed + 1
  <2>1. exposed' = exposed \/ exposed' = exposed + 1
    BY <1>1, Zenon
  <2>2. exposed \in Nat /\ countdown \in Nat /\ countdown >= 1 /\ MutePeriod \in Nat
    BY MicAssumption DEF MuteTypes
  <2> QED BY <1>1, <2>1, <2>2
<1>3. exposed' = exposed \/ (exposed' = exposed + 1 /\ marker = TRUE /\ Head(aiq) = TRUE)
  <2>1. CASE marker /\ Head(aiq) /\ exposed <= MostExposed
    <3>1. marker = TRUE /\ Head(aiq) = TRUE
      <4>1. Head(aiq) \in BOOLEAN /\ marker \in BOOLEAN
        <5>1. Head(aiq) \in BOOLEAN
          BY <1>1, <1>2, HeadTailProperties, Zenon
        <5> QED BY <5>1 DEF MuteTypes
      <4> QED BY <2>1, <4>1, Zenon
    <3> QED BY <1>1, <2>1, <3>1
  <2>2. CASE ~(marker /\ Head(aiq) /\ exposed <= MostExposed)
    BY <1>1, <2>2
  <2> QED BY <2>1, <2>2
<1>4. MuteTypes'
  <2>1. exposed' \in Nat
    BY <1>0
  <2>2. Len(aiq') <= AiDepth
    BY <1>2
  <2>3. mic' \in {"start", "loop", "take", "ended"}
    BY <1>1
  <2> QED BY <1>1, <1>2, <2>1, <2>2, <2>3 DEF MuteTypes
<1>5. ToLook' = ToLook - 1 /\ ToLook \in Nat
  BY <1>0 DEF ToLook
<1>6. ASSUME Seen, marker = TRUE, muted = "yes"
      PROVE  \E p : LiveUpTo(aiq', p) /\ exposed' + p <= MostExposed
  <2>1. PICK p : LiveUpTo(aiq, p) /\ exposed + p <= MostExposed
    BY <1>6 DEF Seen
  <2>2. p \in Nat
    BY <1>2, <2>1 DEF LiveUpTo
  <2>3. CASE p = 0
    <3>1. Head(aiq) # TRUE /\ LiveUpTo(aiq', 0)
      BY <1>1, <1>2, <2>1, <2>3, TakeLive
    <3>2. exposed' + 0 <= MostExposed
      BY <1>3, <2>1, <2>3, <3>1
    <3> QED BY <3>1, <3>2
  <2>4. CASE p # 0
    <3>1. LiveUpTo(aiq', p - 1)
      BY <1>1, <1>2, <2>1, <2>4, TakeLive
    <3>2. exposed' + (p - 1) <= MostExposed
      <4>1. MostExposed \in Nat
        BY MicAssumption DEF MostExposed
      <4> QED BY <1>0, <2>1, <2>2, <2>4, <4>1
    <3> QED BY <3>1, <3>2
  <2> QED BY <2>3, <2>4
<1>7. ASSUME Seen, marker = TRUE, muted # "yes" PROVE exposed' + ToLook' <= MutePeriod
  <2>1. exposed + ToLook <= MutePeriod
    BY <1>7 DEF Seen
  <2> QED BY <1>0, <1>5, <2>1
<1>8. ASSUME Seen, marker = FALSE PROVE exposed' = 0
  <2>1. exposed' = exposed
    BY <1>3, <1>8
  <2> QED BY <1>8, <2>1 DEF Seen
<1>9. Seen => Seen'
  BY <1>1, <1>6, <1>7, <1>8 DEF Seen
<1> QED BY <1>1, <1>4, <1>9


LEMMA OtherMute ==
  ASSUME MuteIInv, AiSetup \/ AiFails \/ AiNothing \/ AiEnd \/ Capture \/ ToggleMarker
  PROVE  MuteIInv'
<1> USE DEF MuteIInv
<1>0. MutePeriod \in Nat \ {0} /\ AiDepth \in Nat \ {0}
  BY MicAssumption
<1>1. CASE AiSetup \/ AiFails \/ AiNothing \/ AiEnd
  <2>1. /\ mic' \in {"start", "loop", "ended"} /\ aiq' = aiq /\ marker' = marker
        /\ muted' = muted /\ countdown' = countdown /\ adcMuted' = adcMuted
        /\ acodecFails' = acodecFails /\ exposed' = exposed
    BY <1>1 DEF AiSetup, AiFails, AiNothing, AiEnd, muteVars
  <2>2. MuteTypes'
    BY <2>1 DEF MuteTypes
  <2>3. /\ exposed \in Nat /\ exposed' = exposed /\ MutePeriod \in Nat
        /\ countdown \in Nat /\ countdown' = countdown /\ mic' # "take"
    BY <1>0, <2>1 DEF MuteTypes
  <2>4. exposed + ToLook <= MutePeriod => exposed' + ToLook' <= MutePeriod
    BY <2>3 DEF ToLook
  <2>5. Seen => Seen'
    BY <2>1, <2>4 DEF Seen
  <2> QED BY <2>1, <2>2, <2>5
<1>2. CASE Capture
  <2>1. /\ mic' = mic /\ marker' = marker /\ muted' = muted /\ countdown' = countdown
        /\ adcMuted' = adcMuted /\ acodecFails' = acodecFails /\ exposed' = exposed
        /\ aiq' = Append(aiq, ~adcMuted) /\ Len(aiq) < AiDepth
    BY <1>2 DEF Capture, muteVars
  <2>2. aiq \in Seq(BOOLEAN) /\ (~adcMuted) \in BOOLEAN /\ Len(aiq) \in Nat
    <3>1. aiq \in Seq(BOOLEAN) /\ Len(aiq) \in Nat
      BY LenProperties DEF MuteTypes
    <3>2. (~adcMuted) \in BOOLEAN
      BY Zenon DEF MuteTypes
    <3> QED BY <3>1, <3>2
  <2>3. aiq' \in Seq(BOOLEAN) /\ Len(aiq') = Len(aiq) + 1
    BY <2>1, <2>2, AppendProperties
  <2>4. MuteTypes'
    BY <1>0, <2>1, <2>2, <2>3 DEF MuteTypes
  <2>5. ASSUME Seen, marker = TRUE, muted = "yes"
        PROVE  \E p : LiveUpTo(aiq', p) /\ exposed + p <= MostExposed
    <3>1. PICK p : LiveUpTo(aiq, p) /\ exposed + p <= MostExposed
      BY <2>5 DEF Seen
    <3>2. aiq' = Append(aiq, FALSE)
      BY <2>1, <2>5 DEF Seen
    <3> QED BY <2>2, <3>1, <3>2, AddMuted
  <2>6. ToLook' = ToLook
    BY <2>1 DEF ToLook
  <2>7. Seen => Seen'
    BY <2>1, <2>5, <2>6 DEF Seen
  <2> QED BY <2>1, <2>4, <2>7
<1>3. CASE ToggleMarker
  <2>1. /\ mic' = mic /\ marker' = ~marker /\ muted' = muted /\ countdown' = countdown
        /\ adcMuted' = adcMuted /\ acodecFails' = acodecFails /\ exposed' = 0
        /\ aiq' = aiq
    BY <1>3 DEF ToggleMarker
  <2>2. MuteTypes'
    BY <2>1 DEF MuteTypes
  <2>3. 0 + ToLook' <= MutePeriod
    BY <1>0, <2>1 DEF ToLook, MuteTypes
  <2>4. \E p : LiveUpTo(aiq, p) /\ 0 + p <= MostExposed
    <3>1. LiveUpTo(aiq, Len(aiq)) /\ Len(aiq) \in Nat /\ Len(aiq) <= AiDepth
      BY AllLive DEF MuteTypes
    <3>2. 0 + Len(aiq) <= MostExposed
      BY <1>0, <3>1 DEF MostExposed
    <3> QED BY <3>1, <3>2
  <2>5. Seen => Seen'
    BY <2>1, <2>3, <2>4 DEF Seen
  <2> QED BY <2>1, <2>2, <2>5
<1> QED BY <1>1, <1>2, <1>3

LEMMA InitMute == MicInit => MuteIInv
<1> SUFFICES ASSUME MicInit PROVE MuteIInv
  OBVIOUS
<1>1. /\ mic = "start" /\ aiq = <<>> /\ muted = "unknown" /\ countdown = 1
      /\ adcMuted = FALSE /\ exposed = 0 /\ acodecFails = 0 /\ marker \in BOOLEAN
  BY DEF MicInit
<1>2. aiq \in Seq(BOOLEAN) /\ Len(aiq) = 0
  BY <1>1, EmptySeq
<1>3. MuteTypes
  <2>1. Len(aiq) <= AiDepth /\ countdown \in 1..MutePeriod
    BY <1>1, <1>2, MicAssumption
  <2> QED BY <1>1, <1>2, <2>1 DEF MuteTypes
<1>4. ToLook = 0
  BY <1>1 DEF ToLook
<1> QED BY <1>1, <1>3, <1>4, MicAssumption DEF MuteIInv, Seen

LEMMA NextMute == MuteIInv /\ [MicNext]_<<cfg, micVars>> => MuteIInv'
<1> SUFFICES ASSUME MuteIInv, [MicNext]_<<cfg, micVars>> PROVE MuteIInv'
  OBVIOUS
<1> DEFINE same == UNCHANGED <<mic, aiq, marker, muted, countdown, adcMuted, acodecFails,
                               exposed>>
<1>1. ASSUME AudioSource PROVE same
  BY <1>1 DEF AudioSource, SOpen, SDrain, SSync, SSkip, SFrame, SPacket, SEof, SDies,
              SNoSync, SResync, sourceRest, muteVars
<1>2. ASSUME UNCHANGED <<cfg, micVars>> PROVE same
  BY <1>2 DEF micVars, muteVars
<1>3. ASSUME same PROVE MuteIInv'
  BY <1>3 DEF MuteIInv, MuteTypes, Seen, ToLook
<1> HIDE DEF same
<1> QED BY <1>1, <1>2, <1>3, RoundMute, FrameMute, OtherMute DEF MicNext, AiThread

\* Muting bounds what is still heard: as many frames as there are rounds until the
\* next look at the marker, and the device's queue on top of them, for any of them.
THEOREM MuteBound == MicSpec => []MutedSoon
<1>1. MuteIInv => MutedSoon
  <2> SUFFICES ASSUME MuteIInv, acodecFails = 0 PROVE exposed <= MostExposed
    BY DEF MutedSoon
  <2>1. /\ Seen /\ exposed \in Nat /\ MutePeriod \in Nat \ {0} /\ AiDepth \in Nat \ {0}
        /\ ToLook \in Nat /\ marker \in BOOLEAN
    BY MicAssumption DEF MuteIInv, MuteTypes, ToLook
  <2>2. CASE marker = FALSE
    BY <2>1, <2>2 DEF Seen, MostExposed
  <2>3. CASE marker = TRUE /\ muted # "yes"
    BY <2>1, <2>3 DEF Seen, MostExposed
  <2>4. CASE marker = TRUE /\ muted = "yes"
    <3>1. PICK p : LiveUpTo(aiq, p) /\ exposed + p <= MostExposed
      BY <2>1, <2>4 DEF Seen
    <3>2. p \in 0..Len(aiq) /\ Len(aiq) \in Nat
      BY <3>1, LenProperties DEF LiveUpTo, MuteIInv, MuteTypes
    <3> QED BY <2>1, <3>1, <3>2 DEF MostExposed
  <2> QED BY <2>1, <2>2, <2>3, <2>4
<1> QED BY <1>1, InitMute, NextMute, PTL DEF MicSpec

-----------------------------------------------------------------------------
(* The rest of the types *)

RestTypes ==
  /\ setup \in Nat /\ afd \in BOOLEAN /\ muted \in {"unknown", "yes", "no"}
  /\ toggles \in 0..MaxToggles /\ acodecFails \in 0..1

LEMMA NextRestTypes == RestTypes /\ [MicNext]_<<cfg, micVars>> => RestTypes'
<1> SUFFICES ASSUME RestTypes, [MicNext]_<<cfg, micVars>> PROVE RestTypes'
  OBVIOUS
<1> USE DEF RestTypes
<1>1. CASE AiSetup \/ AiFails \/ AiNothing \/ AiEnd \/ Capture
  <2>1. /\ setup' = setup \/ setup' = setup + 1
        /\ afd' = afd \/ afd' = FALSE
        /\ muted' = muted /\ toggles' = toggles /\ acodecFails' = acodecFails
    BY <1>1 DEF AiSetup, AiFails, AiNothing, AiEnd, Capture, muteVars
  <2>2. setup' \in Nat
    BY <2>1
  <2>3. afd' \in BOOLEAN
    BY <2>1
  <2> QED BY <2>1, <2>2, <2>3
<1>2. ASSUME NEW ok \in BOOLEAN, AiRound(ok) PROVE RestTypes'
  <2>1. setup' = setup /\ toggles' = toggles /\ afd' \in BOOLEAN
    BY <1>2 DEF AiRound
  <2>2. MuteTick(ok)
    BY <1>2 DEF AiRound
  <2>3. CASE countdown > 1
    BY <2>1, <2>2, <2>3 DEF MuteTick
  <2>4. CASE ~(countdown > 1)
    <3>1. muted' \in {"yes", "no"} /\ (acodecFails' = acodecFails \/ SetMicMute(marker, ok))
      BY <2>2, <2>4 DEF MuteTick, LookAtMarker
    <3>2. SetMicMute(marker, ok) => acodecFails' \in 0..1
      BY DEF SetMicMute
    <3> QED BY <2>1, <3>1, <3>2
  <2> QED BY <2>3, <2>4
<1>3. ASSUME NEW encodes \in BOOLEAN, AiFrame(encodes) PROVE RestTypes'
  <2>1. setup' = setup /\ UNCHANGED muteVars
    BY <1>3 DEF AiFrame
  <2>2. \A frame : FifoWrite(frame) => afd' = afd \/ afd' = FALSE
    BY DEF FifoWrite
  <2>3. afd' \in BOOLEAN
    BY <1>3, <2>2 DEF AiFrame
  <2> QED BY <2>1, <2>3 DEF muteVars
<1>4. CASE ToggleMarker
  BY <1>4, MicAssumption DEF ToggleMarker
<1>5. CASE AudioSource
  BY <1>5 DEF AudioSource, SOpen, SDrain, SSync, SSkip, SFrame, SPacket, SEof, SDies,
              SNoSync, SResync, sourceRest, muteVars
<1>6. CASE UNCHANGED <<cfg, micVars>>
  BY <1>6 DEF micVars, muteVars
<1> QED BY <1>1, <1>2, <1>3, <1>4, <1>5, <1>6 DEF MicNext, AiThread

\* The microphone's variables have their types, and the device's queue its depth.
THEOREM MicTypes == MicSpec => []MicTypeOK
<1>1. MicInit => RestTypes
  <2> SUFFICES ASSUME MicInit PROVE RestTypes
    OBVIOUS
  <2>1. setup = 0 /\ afd = FALSE /\ muted = "unknown" /\ toggles = 0 /\ acodecFails = 0
    BY DEF MicInit
  <2>2. toggles \in 0..MaxToggles
    BY <2>1, MicAssumption
  <2>3. setup \in Nat /\ acodecFails \in 0..1
    BY <2>1
  <2> QED BY <2>1, <2>2, <2>3 DEF RestTypes
<1>2. FifoIInv /\ BlocksIInv /\ MuteIInv /\ RestTypes => MicTypeOK
  BY DEF FifoIInv, BlocksIInv, MuteIInv, RestTypes, MuteTypes, Frames, MicTypeOK
<1> QED BY <1>1, <1>2, NextRestTypes, InitFifoIInv, NextFifoIInv,
           InitBlocksIInv, NextBlocksIInv, InitMute, NextMute, PTL DEF MicSpec
=============================================================================
