---------------------------- MODULE H264Grabber -----------------------------
(***************************************************************************)
(* h264grabber, stock mode: it follows a ring of records in memory that    *)
(* the vendor's rmm fills without a lock, and copies the frames they       *)
(* describe to a FIFO.  A record holds a stamp, 16 bits of a frame counter *)
(* for video or a timestamp for audio, and the place of the frame; a frame *)
(* is copied once the record after it has a stamp that fits.               *)
(*                                                                         *)
(* Frames are numbered from 1 as rmm produces them.  A record is given by  *)
(* the numbers its two halves belong to: "num" for the stamp, "place" for  *)
(* offset and length, which differ while rmm is replacing it.              *)
(***************************************************************************)
EXTENDS Integers

CONSTANTS
  RecordNum,   \* table_record_num, 150 to 300 in the code
  Wrap,        \* the stamps are numbers modulo Wrap, 65536 for video
  Window,      \* how far the next stamp may be ahead, 10 for video
  Patience,    \* bad stamps in a row that end the synchronisation, 10
  MaxFrames    \* bound: how many frames rmm produces

ASSUME GrabberAssumption ==
  /\ Window \in Nat \ {0}
  /\ RecordNum \in Nat /\ RecordNum > Window
  /\ Wrap \in Nat /\ Wrap > RecordNum + Window
  /\ Patience \in Nat \ {0}
  /\ MaxFrames \in Nat

Index == 0..(RecordNum - 1)
None == -1

VARIABLES
  audio,    \* resolution = RESOLUTION_AUDIO
  ring,     \* the table of records
  head,     \* the newest frame with a complete record
  half,     \* which half of the record of frame head + 1 is written
  pc,       \* where the reader is
  i,        \* i: the record the search looks at
  cur,      \* current_frame
  stamp,    \* frame_counter or frame_ts
  next,     \* next_frame_counter or next_frame_ts, and the frame it is from
  place,    \* frame_offset and frame_length, as the frame they are from
  invalid,  \* frame_counter_invalid, capped at Patience
  base,     \* the frame whose stamp the reader holds (history)
  last,     \* the newest frame it has written (history)
  wrapped   \* at the last search the stamps had wrapped after base (history)

vars == <<audio, ring, head, half, pc, i, cur, stamp, next, place, invalid,
          base, last, wrapped>>

rmmVars == <<ring, head, half>>

Frame == 0..MaxFrames
Stamp(f) == f % Wrap
Least == IF audio THEN 0 ELSE -1   \* what the search starts from

TypeOK ==
  /\ audio \in BOOLEAN
  /\ ring \in [Index -> [start : BOOLEAN, num : Frame, place : Frame]]
  /\ head \in Frame
  /\ half \in {"none", "num", "place"}
  /\ pc \in {"search", "look", "take", "write"}
  /\ i \in 0..RecordNum
  /\ cur \in Index \cup {None}
  /\ stamp \in -1..(Wrap - 1)
  /\ next \in Frame
  /\ place \in Frame
  /\ invalid \in 0..Patience
  /\ base \in Frame /\ last \in Frame
  /\ wrapped \in BOOLEAN

Init ==
  /\ audio \in BOOLEAN
  /\ ring = [k \in Index |-> [start |-> FALSE, num |-> 0, place |-> 0]]
  /\ head = 0 /\ half = "none"
  /\ pc = "search" /\ i = 0 /\ cur = None /\ stamp = Least
  /\ next = 0 /\ place = 0 /\ invalid = 0
  /\ base = 0 /\ last = 0 /\ wrapped = FALSE

-----------------------------------------------------------------------------
(* rmm: the two halves of a record are written in either order; the start    *)
(* byte, which the reader takes to mean that there is a stamp, comes with it. *)

Slot(f) == (f - 1) % RecordNum

readerVars == <<audio, pc, i, cur, stamp, next, place, invalid, base, last, wrapped>>

RmmFirstHalf(part) ==
  /\ half = "none" /\ head < MaxFrames
  /\ half' = part
  /\ LET s == Slot(head + 1)
     IN  ring' = [ring EXCEPT ![s] =
           [start |-> @.start \/ part = "num",
            num   |-> IF part = "num" THEN head + 1 ELSE @.num,
            place |-> IF part = "place" THEN head + 1 ELSE @.place]]
  /\ UNCHANGED head
  /\ UNCHANGED readerVars

RmmSecondHalf ==
  /\ half # "none"
  /\ half' = "none"
  /\ head' = head + 1
  /\ ring' = [ring EXCEPT ![Slot(head + 1)] =
                [start |-> TRUE, num |-> head + 1, place |-> head + 1]]
  /\ UNCHANGED readerVars

-----------------------------------------------------------------------------
(* The reader *)

\* The search begins again at the first record.
Restart ==
  /\ pc' = "search" /\ i' = 0
  /\ cur' = None /\ stamp' = Least /\ base' = 0

\* The newest frame that has its stamp in the ring.
Newest == IF half = "num" THEN head + 1 ELSE head

\* Mutant: the first record in use is taken for the newest.
SearchFirstUsed ==
  /\ pc = "search"
  /\ \/ /\ i < RecordNum /\ ~ring[i].start
        /\ i' = i + 1
        /\ UNCHANGED <<pc, cur, stamp, base, wrapped>>
     \/ /\ i < RecordNum /\ ring[i].start
        /\ cur' = i /\ stamp' = Stamp(ring[i].num) /\ base' = ring[i].num
        /\ pc' = "look" /\ wrapped' = (base' \div Wrap # Newest \div Wrap)
        /\ UNCHANGED i
     \/ /\ i = RecordNum /\ Restart /\ UNCHANGED wrapped
  /\ UNCHANGED <<audio, rmmVars, next, place, invalid, last>>

\* The search for the largest stamp, one record at a time; it ends at the first
\* record in use whose stamp is not larger.
Search ==
  /\ pc = "search"
  /\ \/ /\ i < RecordNum /\ ~ring[i].start
        /\ i' = i + 1
        /\ UNCHANGED <<pc, cur, stamp, base, wrapped>>
     \/ /\ i < RecordNum /\ ring[i].start /\ Stamp(ring[i].num) > stamp
        /\ i' = i + 1
        /\ cur' = i /\ stamp' = Stamp(ring[i].num) /\ base' = ring[i].num
        /\ UNCHANGED <<pc, wrapped>>
     \/ /\ i < RecordNum => ring[i].start /\ Stamp(ring[i].num) <= stamp
        /\ IF cur = None
           THEN Restart /\ UNCHANGED wrapped
           ELSE /\ pc' = "look"
                /\ wrapped' = (base \div Wrap # Newest \div Wrap)
                /\ UNCHANGED <<i, cur, stamp, base>>
  /\ UNCHANGED <<audio, rmmVars, next, place, invalid, last>>

NextIndex == IF cur = RecordNum - 1 THEN 0 ELSE cur + 1

\* Mutant: any stamp but the one held already will do.
FitsAny(new) == new # stamp

\* Is new, the stamp of the next record, a little ahead of stamp?
Fits(new) ==
  IF audio
  THEN (new - stamp) % Wrap \in 0..Window
  ELSE new - stamp \in 1..Window \/ new + Wrap - stamp \in 1..Window

\* Mutant: the reader never gives up on the record it waits for.
LookForEver ==
  LET r == ring[NextIndex]
  IN  /\ pc = "look" /\ r.start
      /\ Fits(Stamp(r.num))
      /\ pc' = "take" /\ next' = r.num
      /\ UNCHANGED <<i, cur, stamp, base, invalid>>
      /\ UNCHANGED <<audio, rmmVars, place, last, wrapped>>

\* The next record: not in use yet (the reader waits), with a stamp that fits,
\* or with one that does not, which is tolerated Patience - 1 times in a row.
\* The count survives the loss of synchronisation.
Look ==
  LET r == ring[NextIndex]
  IN  /\ pc = "look" /\ r.start
      /\ \/ /\ Fits(Stamp(r.num))
            /\ pc' = "take" /\ next' = r.num
            /\ UNCHANGED <<i, cur, stamp, base, invalid>>
         \/ /\ ~Fits(Stamp(r.num))
            /\ invalid' = IF invalid < Patience THEN invalid + 1 ELSE invalid
            /\ IF invalid + 1 < Patience
               THEN UNCHANGED <<pc, i, cur, stamp, base>>
               ELSE Restart
            /\ UNCHANGED next
      /\ UNCHANGED <<audio, rmmVars, place, last, wrapped>>

\* Mutant: offset and length are those of the record just looked at.
TakeNext ==
  /\ pc = "take"
  /\ pc' = "write"
  /\ place' = ring[NextIndex].place
  /\ UNCHANGED <<audio, rmmVars, i, cur, stamp, next, invalid, base, last, wrapped>>

\* Offset and length of the current record are read,
Take ==
  /\ pc = "take"
  /\ pc' = "write"
  /\ place' = ring[cur].place
  /\ UNCHANGED <<audio, rmmVars, i, cur, stamp, next, invalid, base, last, wrapped>>

\* and the frame is copied, which blocks while the FIFO is full and is a failed
\* write while nobody reads it.
Write ==
  /\ pc = "write"
  /\ pc' = "look"
  /\ cur' = NextIndex
  /\ stamp' = Stamp(next) /\ base' = next
  /\ invalid' = 0
  /\ last' = IF base > last THEN base ELSE last
  /\ UNCHANGED <<audio, rmmVars, i, next, place, wrapped>>

Rmm == (\E part \in {"num", "place"} : RmmFirstHalf(part))
       \/ RmmSecondHalf

Reader == Search \/ Look \/ Take \/ Write

Next == Rmm \/ Reader

\* The reader polls for ever; rmm need not produce anything, but completes what
\* it has begun.
Spec == Init /\ [][Next]_vars /\ WF_vars(Reader) /\ WF_vars(RmmSecondHalf)

-----------------------------------------------------------------------------
(* Properties *)

\* rmm has not come round to the record of frame f again.
InTime(f) == head + (IF half = "none" THEN 0 ELSE 1) < f + RecordNum

\* What h264grabber copies is the frame whose stamp it holds, complete, although
\* nothing keeps rmm from writing records meanwhile, as long as it is not a whole
\* ring ahead: looking at the next stamp first is what makes this so.
RightFrame == pc = "write" /\ InTime(base) => place = base

\* While it is synchronised h264grabber leaves out no frame: it goes from one to
\* the next, unless rmm was nearly a whole cycle of stamps ahead.
NoGap ==
  [][Write => base' = base + 1 \/ head - base >= Wrap - Window]_vars

\* No frame is copied twice after a loss of synchronisation, unless the stamps had
\* wrapped within the ring when the newest record was searched.
RepeatsOnlyAtWrap == pc = "write" /\ ~wrapped => base > last

\* The search for audio starts from 0 with a strict comparison: a first record that
\* is stamped 0 hides all the others.
Blind == audio /\ ring[0].start /\ Stamp(ring[0].num) = 0

\* However far it was left behind, the reader gets to the newest frame whenever rmm
\* pauses, in spite of half-written records, wrapped stamps and lost synchronisation.
CatchesUp ==
  <>[][FALSE]_rmmVars => []<>(head = 0 \/ Blind \/ (pc = "look" /\ base = head))
=============================================================================
