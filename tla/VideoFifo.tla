------------------------------ MODULE VideoFifo ------------------------------
(***************************************************************************)
(* One H.264 stream: campipe's stream_thread drains the encoder into a     *)
(* FIFO, in pieces of what the pipe takes, and rRTSPServer's               *)
(* ByteStreamFifoSource reads it for whichever client is connected.        *)
(* Clients come and go, and the two ends notice each other only through    *)
(* what open, read and write return.                                       *)
(*                                                                         *)
(* A frame is FrameLen units, the pipe holds PipeLen of them.  A unit is a *)
(* record of its frame, modulo 2, and its place in it.                     *)
(***************************************************************************)
EXTENDS CampipeMain

CONSTANTS
  FrameLen,   \* units of a frame
  PipeLen     \* units the pipe holds, F_SETPIPE_SZ

ASSUME VideoAssumption == FrameLen \in Nat \ {0} /\ PipeLen \in Nat \ {0}

VARIABLES
  writer,     \* where stream_thread is
  wfd,        \* its fifo_fd is open
  unit,       \* the next unit to write
  pipe,       \* what the pipe holds
  reader,     \* where the client's source is
  seen        \* the unit it read last, in this session

writerVars == <<writer, wfd, unit>>
readerVars == <<reader, seen>>
videoVars == <<writerVars, pipe, readerVars>>

Unit == [frame : 0..1, place : 1..FrameLen]

\* A place outside every frame: nothing has been read in this session.
NoUnit == [frame |-> 0, place |-> 0]

VideoTypeOK ==
  /\ writer \in {"make", "loop", "write", "gone", "ended"}
  /\ wfd \in BOOLEAN
  /\ unit \in Unit
  /\ pipe \in Seq(Unit) /\ Len(pipe) <= PipeLen
  /\ reader \in {"none", "opening", "drain", "read"}
  /\ seen \in Unit \cup {NoUnit}

VideoInit ==
  /\ writer = "make" /\ wfd = FALSE /\ unit = [frame |-> 0, place |-> 1]
  /\ pipe = <<>>
  /\ reader = "none" /\ seen = NoUnit

NextFrame(u) == [frame |-> 1 - u.frame, place |-> 1]
NextUnit(u) == IF u.place = FrameLen THEN NextFrame(u) ELSE [u EXCEPT !.place = @ + 1]

\* What the pipe holds once an end has been closed: nothing, if it was the last.
Left(w, r) == IF w \/ r # "none" THEN pipe ELSE <<>>

-----------------------------------------------------------------------------
(* stream_thread *)

\* The thread's first steps: the FIFO is replaced.
VMake ==
  /\ thread["high"] = "run" /\ writer = "make"
  /\ writer' = "loop"
  /\ UNCHANGED <<mainVars, wfd, unit, pipe, readerVars>>

\* The encoder has no descriptor: the FIFO stays, with nobody to write to it.
VFail ==
  /\ writer = "make"
  /\ writer' = "ended"
  /\ ThreadEnds("high")
  /\ UNCHANGED <<wfd, unit, pipe, readerVars>>

\* Mutant: the thread does not look at g_stop as long as there is a reader.
VLoopForever(frame) ==
  /\ writer = "loop" /\ (gStop => reader # "none")
  /\ wfd' = (wfd \/ reader # "none")
  /\ reader' = IF reader = "opening" THEN "drain" ELSE reader
  /\ writer' = IF frame /\ wfd' THEN "write" ELSE "loop"
  /\ UNCHANGED <<mainVars, unit, pipe, seen>>

\* One round: the FIFO is opened if there is somebody to read it, which lets a
\* blocked reader go, and a frame is taken from the encoder if it has one.  With no
\* FIFO the frame is dropped.
VLoop(frame) ==
  /\ writer = "loop" /\ ~gStop
  /\ wfd' = (wfd \/ reader # "none")
  /\ reader' = IF reader = "opening" THEN "drain" ELSE reader
  /\ writer' = IF frame /\ wfd' THEN "write" ELSE "loop"
  /\ UNCHANGED <<mainVars, unit, pipe, seen>>

\* Mutant: a full pipe makes the thread give up the rest of the frame.
VWriteOrSkip ==
  LET n == IF PipeLen > Len(pipe) THEN 1 ELSE 0
      next == IF n = 1 THEN NextUnit(unit) ELSE NextFrame(unit)
  IN  /\ writer = "write" /\ reader # "none"
      /\ pipe' = IF n = 1 THEN Append(pipe, unit) ELSE pipe
      /\ unit' = next
      /\ writer' = IF next.place = 1 THEN "loop" ELSE "write"
      /\ UNCHANGED <<mainVars, wfd, readerVars>>

\* write takes what fits.  A full pipe is tried again, whatever g_stop says.
VWrite ==
  /\ writer = "write" /\ reader # "none" /\ Len(pipe) < PipeLen
  /\ pipe' = Append(pipe, unit)
  /\ unit' = NextUnit(unit)
  /\ writer' = IF unit.place = FrameLen THEN "loop" ELSE "write"
  /\ UNCHANGED <<mainVars, wfd, readerVars>>

\* EPIPE: nobody reads.  The rest of the frame is dropped, and then the FIFO is
\* closed, on which a reader that came in between sees an end of file.
VEpipe ==
  /\ writer = "write" /\ reader = "none"
  /\ writer' = "gone"
  /\ unit' = NextFrame(unit)
  /\ UNCHANGED <<mainVars, wfd, pipe, readerVars>>

VClose ==
  /\ writer = "gone"
  /\ wfd' = FALSE
  /\ pipe' = Left(FALSE, reader)
  /\ writer' = "loop"
  /\ UNCHANGED <<mainVars, unit, readerVars>>

VEnd ==
  /\ writer = "loop" /\ gStop
  /\ wfd' = FALSE
  /\ pipe' = Left(FALSE, reader)
  /\ writer' = "ended"
  /\ ThreadEnds("high")
  /\ UNCHANGED <<unit, readerVars>>

StreamThread ==
  \/ VMake \/ VFail
  \/ \E frame \in (IF cfg.load = "video" THEN BOOLEAN ELSE {FALSE}) : VLoop(frame)
  \/ VWrite \/ VEpipe \/ VClose \/ VEnd

-----------------------------------------------------------------------------
(* rRTSPServer *)

\* A client makes the server open the FIFO; without a writer the open blocks.
ROpen ==
  /\ reader = "none" /\ writer # "make"
  /\ reader' = IF wfd THEN "drain" ELSE "opening"
  /\ seen' = NoUnit
  /\ UNCHANGED <<mainVars, writerVars, pipe>>

\* What the pipe holds from before is thrown away until there is nothing.  If that
\* was an end of file, stdio remembers it, and the first doGetNextFrame closes the
\* source.
RDrain ==
  /\ reader = "drain"
  /\ IF pipe # <<>>
     THEN pipe' = <<>> /\ UNCHANGED reader
     ELSE /\ reader' = IF wfd THEN "read" ELSE "none"
          /\ UNCHANGED pipe
  /\ UNCHANGED <<mainVars, writerVars, seen>>

\* The source is asked for data when select says there is some.
RRead(n) ==
  /\ reader = "read" /\ n <= Len(pipe)
  /\ seen' = pipe[n]
  /\ pipe' = SubSeq(pipe, n + 1, Len(pipe))
  /\ UNCHANGED <<mainVars, writerVars, reader>>

\* A read of 0 bytes closes the source.
REof ==
  /\ reader = "read" /\ pipe = <<>> /\ ~wfd
  /\ reader' = "none"
  /\ UNCHANGED <<mainVars, writerVars, pipe, seen>>

\* The last client leaves, or the server dies.
RClose ==
  /\ reader # "none"
  /\ reader' = "none"
  /\ pipe' = Left(wfd, "none")
  /\ UNCHANGED <<mainVars, writerVars, seen>>

\* The first DESCRIBE reads only until the SDP is complete.
SdpComplete == reader = "read" /\ seen # NoUnit /\ RClose

Source == ROpen \/ RDrain \/ REof \/ RClose \/ SdpComplete \/ \E n \in 1..PipeLen : RRead(n)

VideoNext == StreamThread \/ Source

VideoSpec == VideoInit /\ [][VideoNext]_videoVars

-----------------------------------------------------------------------------
(* Properties *)

Follows(u, v) == v = NextUnit(u) \/ (u.place = FrameLen /\ v.place = 1)

\* The units a client has read and will read, up to the one written next.
Session ==
  (IF seen = NoUnit THEN <<>> ELSE <<seen>>) \o pipe
    \o (IF writer = "write" THEN <<unit>> ELSE <<>>)

\* However pipe and clients behave, what one client gets of the stream is a run of
\* whole frames, after at most the end of one that was being written as it came:
\* stream_thread drops frames whole, or drops the FIFO with them.
NoSplice ==
  reader = "read" =>
    \A i \in 1..(Len(Session) - 1) : Follows(Session[i], Session[i + 1])

\* The thread waits for a reader that holds the FIFO open and does not read.
HeldByReader == writer = "write" /\ reader # "none" /\ Len(pipe) = PipeLen
=============================================================================
