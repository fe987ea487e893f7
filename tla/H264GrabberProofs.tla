------------------------- MODULE H264GrabberProofs --------------------------
(***************************************************************************)
(* Proofs about h264grabber: for rings, stamps and windows of any size.    *)
(***************************************************************************)
EXTENDS H264Grabber, TLAPS

(* Division *)

\* Whole multiples of a number are at least that number apart.
LEMMA Multiples ==
  ASSUME NEW h \in Nat \ {0}, NEW p \in Int, NEW q \in Int, p < q
  PROVE  h * p + h <= h * q /\ h * p \in Int /\ h * q \in Int
<1> DEFINE k == q - p - 1
<1>1. k \in Nat /\ q = p + 1 + k
  OBVIOUS
<1> HIDE DEF k
<1>2. h * q = h * p + h + h * k /\ h * k \in Nat /\ h * p \in Int /\ h * q \in Int
  BY <1>1
<1> QED BY <1>2

\* Quotient and remainder.
LEMMA Division ==
  ASSUME NEW h \in Nat \ {0}, NEW t \in Nat
  PROVE  /\ t \div h \in Nat /\ t % h \in 0..(h - 1)
         /\ h * (t \div h) \in Nat /\ t = h * (t \div h) + (t % h)
<1> DEFINE q == t \div h
           r == t % h
<1>1. r \in 0..(h - 1) /\ q \in Int
  OBVIOUS
<1>2. t <= h * q + r
  BY Z3
<1>3. t >= h * q + r
  BY Z3
<1> HIDE DEF q, r
<1>4. q < 0 => h * q + h <= 0
  <2>1. q < 0 => h * q + h <= h * 0
    BY <1>1, Multiples
  <2> QED BY <2>1
<1> DEFINE x == h * q
<1>5. x \in Int /\ t = x + r /\ (q < 0 => x + h <= 0)
  <2>1. x \in Int
    BY <1>1
  <2> QED BY <1>1, <1>2, <1>3, <1>4, <2>1
<1> HIDE DEF x
<1>6. q \in Nat /\ x \in Nat
  <2>1. q \in Nat
    BY <1>1, <1>5
  <2>2. x \in Nat
    BY <1>1, <2>1 DEF x
  <2> QED BY <2>1, <2>2
<1> QED BY <1>1, <1>5, <1>6 DEF q, r, x

\* Quotients do not decrease.
LEMMA QuotientMonotone ==
  ASSUME NEW h \in Nat \ {0}, NEW s \in Nat, NEW t \in Nat, s <= t
  PROVE  s \div h <= t \div h
<1> DEFINE p == t \div h
           q == s \div h
<1>1. /\ p \in Nat /\ h * p \in Nat /\ t < h * p + h
      /\ q \in Nat /\ h * q \in Nat /\ h * q <= s
  BY Division
<1> HIDE DEF p, q
<1>2. SUFFICES ASSUME p < q PROVE FALSE
  BY <1>1 DEF p, q
<1>3. h * p + h <= h * q
  BY <1>1, <1>2, Multiples
<1> DEFINE x == h * p
           y == h * q
<1>4. x \in Nat /\ y \in Nat /\ t < x + h /\ y <= s /\ x + h <= y
  BY <1>1, <1>3
<1> HIDE DEF x, y
<1> QED BY <1>4

\* There is one remainder only.
LEMMA RemainderIs ==
  ASSUME NEW h \in Nat \ {0}, NEW t \in Nat, NEW q \in Nat, NEW r \in 0..(h - 1),
         t = h * q + r
  PROVE  t % h = r
<1> DEFINE p == t \div h
           x == h * p
           y == h * q
<1>1. /\ p \in Nat /\ x \in Nat /\ t % h \in 0..(h - 1) /\ t = x + (t % h)
      /\ y \in Nat /\ t = y + r
  <2>1. p \in Nat /\ x \in Nat /\ t % h \in 0..(h - 1) /\ t = x + (t % h)
    BY Division
  <2>2. y \in Nat /\ t = y + r
    OBVIOUS
  <2> QED BY <2>1, <2>2
<1>2. ~(p < q)
  <2>1. p < q => x + h <= y
    BY <1>1, Multiples
  <2> HIDE DEF p, x, y
  <2> QED BY <1>1, <2>1
<1>3. ~(q < p)
  <2>1. q < p => y + h <= x
    BY <1>1, Multiples
  <2> HIDE DEF p, x, y
  <2> QED BY <1>1, <2>1
<1>4. p = q
  <2> HIDE DEF p
  <2> QED BY <1>1, <1>2, <1>3
<1>5. x = y
  <2> HIDE DEF p
  <2> QED BY <1>4
<1> HIDE DEF p, x, y
<1> QED BY <1>1, <1>5

-----------------------------------------------------------------------------
(* The ring *)

\* The sizes.
LEMMA Sizes ==
  /\ RecordNum \in Nat \ {0} /\ Wrap \in Nat \ {0} /\ Window \in Nat \ {0}
  /\ 1 <= Window /\ Window < RecordNum /\ RecordNum + Window < Wrap
  /\ MaxFrames \in Nat /\ Patience \in Nat \ {0}
  /\ Index \subseteq Nat /\ 0 \in Index /\ None \notin Index
  /\ \A k \in Index : 0 <= k /\ k <= RecordNum - 1
  /\ \A k \in Nat : k < RecordNum => k \in Index
  BY GrabberAssumption DEF Index, None

\* The records follow each other round the ring.
LEMMA SlotNext ==
  ASSUME NEW f \in Nat \ {0}
  PROVE  /\ Slot(f) \in Index /\ Slot(f) < f
         /\ Slot(f + 1) = IF Slot(f) = RecordNum - 1 THEN 0 ELSE Slot(f) + 1
<1> DEFINE q == (f - 1) \div RecordNum
           x == RecordNum * q
<1>1. /\ q \in Nat /\ x \in Nat /\ Slot(f) \in 0..(RecordNum - 1) /\ f - 1 = x + Slot(f)
  <2>1. f - 1 \in Nat
    OBVIOUS
  <2> QED BY <2>1, Sizes, Division DEF Slot
<1>2. Slot(f) \in Index /\ Slot(f) < f
  <2> HIDE DEF x
  <2> QED BY <1>1, Sizes DEF Index
<1>3. (f + 1) - 1 = x + Slot(f) + 1 /\ (f + 1) - 1 \in Nat
  <2> HIDE DEF x
  <2> QED BY <1>1
<1>4. CASE Slot(f) = RecordNum - 1
  <2>1. RecordNum * (q + 1) = x + RecordNum /\ q + 1 \in Nat /\ 0 \in 0..(RecordNum - 1)
    BY <1>1, Sizes
  <2>2. (f + 1) - 1 = RecordNum * (q + 1) + 0
    BY <1>1, <1>3, <1>4, <2>1, Sizes
  <2>3. ((f + 1) - 1) % RecordNum = 0
    BY <1>3, <2>1, <2>2, RemainderIs, Sizes
  <2> QED BY <1>2, <1>4, <2>3 DEF Slot
<1>5. CASE Slot(f) # RecordNum - 1
  <2>1. Slot(f) + 1 \in 0..(RecordNum - 1)
    BY <1>1, <1>5, Sizes
  <2>2. (f + 1) - 1 = RecordNum * q + (Slot(f) + 1)
    BY <1>1, <1>3
  <2>3. ((f + 1) - 1) % RecordNum = Slot(f) + 1
    BY <1>1, <1>3, <2>1, <2>2, RemainderIs, Sizes
  <2> QED BY <1>2, <1>5, <2>3 DEF Slot
<1> QED BY <1>4, <1>5

\* Two frames of one record are at least a ring apart.
LEMMA SlotApart ==
  ASSUME NEW f \in Nat \ {0}, NEW g \in Nat \ {0}, Slot(f) = Slot(g), f < g
  PROVE  f + RecordNum <= g
<1> DEFINE p == (f - 1) \div RecordNum
           q == (g - 1) \div RecordNum
           x == RecordNum * p
           y == RecordNum * q
<1>1. /\ p \in Nat /\ q \in Nat /\ x \in Nat /\ y \in Nat
      /\ f - 1 = x + Slot(f) /\ g - 1 = y + Slot(g) /\ Slot(f) \in Nat
  <2>1. f - 1 \in Nat /\ g - 1 \in Nat
    OBVIOUS
  <2>2. p \in Nat /\ x \in Nat /\ f - 1 = x + Slot(f) /\ Slot(f) \in 0..(RecordNum - 1)
    BY <2>1, Division, Sizes DEF Slot
  <2>3. q \in Nat /\ y \in Nat /\ g - 1 = y + Slot(g)
    BY <2>1, Division, Sizes DEF Slot
  <2> HIDE DEF p, q, x, y
  <2> QED BY <2>2, <2>3
<1>2. p < q
  <2>1. p = q => x = y
    OBVIOUS
  <2>2. q < p => y + RecordNum <= x
    BY <1>1, Multiples, Sizes
  <2> HIDE DEF p, q, x, y
  <2> QED BY <1>1, <2>1, <2>2, Sizes
<1>3. x + RecordNum <= y
  BY <1>1, <1>2, Multiples, Sizes
<1> HIDE DEF p, q, x, y
<1> QED BY <1>1, <1>3, Sizes

\* A ring later the same record comes again.
LEMMA SlotCycle ==
  ASSUME NEW f \in Nat \ {0}
  PROVE  Slot(f + RecordNum) = Slot(f)
<1> DEFINE q == (f - 1) \div RecordNum
<1>1. /\ q \in Nat /\ RecordNum * q \in Nat /\ Slot(f) \in 0..(RecordNum - 1)
      /\ f - 1 = RecordNum * q + Slot(f)
  <2>1. f - 1 \in Nat
    OBVIOUS
  <2> QED BY <2>1, Sizes, Division DEF Slot
<1>2. /\ RecordNum * (q + 1) = RecordNum * q + RecordNum /\ q + 1 \in Nat
      /\ (f + RecordNum) - 1 \in Nat
  BY <1>1, Sizes
<1>3. (f + RecordNum) - 1 = RecordNum * (q + 1) + Slot(f)
  BY <1>1, <1>2, Sizes
<1>4. ((f + RecordNum) - 1) % RecordNum = Slot(f)
  BY <1>1, <1>2, <1>3, RemainderIs, Sizes
<1> QED BY <1>4 DEF Slot

\* The first frames fill the records in turn.
LEMMA SlotFirst ==
  ASSUME NEW k \in Index
  PROVE  Slot(k + 1) = k
<1>1. (k + 1) - 1 = RecordNum * 0 + k /\ k \in 0..(RecordNum - 1) /\ (k + 1) - 1 \in Nat
  BY Sizes
<1>2. ((k + 1) - 1) % RecordNum = k
  BY <1>1, RemainderIs, Sizes
<1> QED BY <1>2 DEF Slot
-----------------------------------------------------------------------------
(* What rmm writes *)

\* n is the newest frame of record k when m is the newest of all; or there is none.
At(k, n, m) ==
  /\ n <= m
  /\ n # 0 => Slot(n) = k /\ m < n + RecordNum
  /\ n = 0 => m <= k

\* The newest frame that has its place in the ring.
NewestPlace == IF half = "place" THEN head + 1 ELSE head

\* The two halves of the records are what they should be.
Numbered ==
  \A k \in Index : At(k, ring[k].num, Newest) /\ (ring[k].start <=> ring[k].num # 0)
Placed ==
  \A k \in Index : At(k, ring[k].place, NewestPlace)

\* The ring holds the newest frames, each in its record.
RmmInv == (half # "none" => head < MaxFrames) /\ Numbered /\ Placed

\* The type invariant, for what rmm writes and what the reader does.
RingType ==
  /\ ring \in [Index -> [start : BOOLEAN, num : Frame, place : Frame]]
  /\ head \in Frame
  /\ half \in {"none", "num", "place"}

\* A new frame in another record does not change what is newest in this one.
LEMMA AtNext ==
  ASSUME NEW k \in Index, NEW n \in Nat, NEW m \in Nat, At(k, n, m), k # Slot(m + 1)
  PROVE  At(k, n, m + 1)
<1>1. CASE n # 0
  <2>1. n <= m /\ Slot(n) = k /\ m < n + RecordNum
    BY <1>1 DEF At
  <2>2. n + RecordNum # m + 1
    <3>1. Slot(n + RecordNum) = k
      BY <1>1, <2>1, SlotCycle
    <3> QED BY <3>1
  <2> QED BY <1>1, <2>1, <2>2, Sizes DEF At
<1>2. CASE n = 0
  <2>1. m <= k
    BY <1>2 DEF At
  <2>2. m # k
    BY SlotFirst
  <2> QED BY <1>2, <2>1, <2>2, Sizes DEF At
<1> QED BY <1>1, <1>2

\* The new frame is newest in its own.
LEMMA AtNew ==
  ASSUME NEW m \in Nat
  PROVE  Slot(m + 1) \in Index /\ At(Slot(m + 1), m + 1, m + 1)
<1>1. Slot(m + 1) \in Index
  BY SlotNext
<1> QED BY <1>1, Sizes DEF At

\* A frame less than a ring old is the newest of its record.
LEMMA AtRecent ==
  ASSUME NEW n \in Nat, NEW m \in Nat, NEW f \in Nat \ {0},
         At(Slot(f), n, m), f <= m, m < f + RecordNum
  PROVE  n = f
<1>1. n # 0
  <2>1. Slot(f) < f /\ Slot(f) \in Nat
    BY SlotNext, Sizes
  <2> QED BY <2>1 DEF At
<1>2. Slot(n) = Slot(f) /\ n <= m /\ m < n + RecordNum
  BY <1>1 DEF At
<1>3. ~(n < f)
  BY <1>1, <1>2, SlotApart, Sizes
<1>4. ~(f < n)
  BY <1>1, <1>2, SlotApart, Sizes
<1> QED BY <1>3, <1>4

\* The numbers rmm handles.
LEMMA RingNumbers ==
  ASSUME RingType, RmmInv
  PROVE  /\ head \in Nat /\ head + 1 \in Nat /\ Slot(head + 1) \in Index
         /\ Newest \in Frame /\ NewestPlace \in Frame
         /\ Frame \subseteq Nat
         /\ \A k \in Index : /\ ring[k].num \in Frame /\ ring[k].place \in Frame
                             /\ ring[k].start \in BOOLEAN
<1>1. head \in Nat /\ Frame \subseteq Nat /\ Slot(head + 1) \in Index
  BY SlotNext, Sizes DEF RingType, Frame
<1>2. Newest \in Frame /\ NewestPlace \in Frame
  BY <1>1, Sizes DEF RingType, RmmInv, Newest, NewestPlace, Frame
<1>3. \A k \in Index : /\ ring[k].num \in Frame /\ ring[k].place \in Frame
                       /\ ring[k].start \in BOOLEAN
  BY DEF RingType
<1> QED BY <1>1, <1>2, <1>3

\* rmm's steps keep the ring what it is, and only go forward.
LEMMA RmmStep ==
  ASSUME RingType, RmmInv, Rmm
  PROVE  /\ RingType' /\ RmmInv'
         /\ head <= head' /\ Newest <= Newest'
         /\ \A f \in Nat : InTime(f)' => InTime(f)
<1> DEFINE s == Slot(head + 1)
<1>0. /\ head \in Nat /\ head + 1 \in Nat /\ s \in Index
      /\ \A k \in Index : ring[k].num \in Nat /\ ring[k].place \in Nat
  BY RingNumbers
<1>n. At(s, head + 1, head + 1)
  BY <1>0, AtNew
<1>1. ASSUME RmmFirstHalf("num")
      PROVE  /\ RingType' /\ RmmInv'
             /\ head' = head /\ Newest' = Newest + 1 /\ half' = "num"
             /\ Newest = head /\ half = "none"
  <2>1. /\ half = "none" /\ head < MaxFrames /\ half' = "num" /\ head' = head
        /\ ring' = [ring EXCEPT ![s] =
             [start |-> ring[s].start \/ TRUE, num |-> head + 1, place |-> ring[s].place]]
    BY <1>1 DEF RmmFirstHalf
  <2>2. /\ Newest = head /\ Newest' = head + 1 /\ NewestPlace = head /\ NewestPlace' = head
        /\ head + 1 \in Frame
    BY <2>1, <1>0, Sizes DEF Newest, NewestPlace, Frame
  <2>3. /\ ring'[s].num = head + 1 /\ ring'[s].place = ring[s].place
        /\ ring'[s].start = TRUE
        /\ \A k \in Index \ {s} : ring'[k] = ring[k]
    BY <1>0, <2>1 DEF RingType
  <2>4. RingType'
    BY <1>0, <2>1, <2>2 DEF RingType
  <2> HIDE DEF s
  <2>5. ASSUME NEW k \in Index
        PROVE  At(k, ring'[k].num, Newest') /\ (ring'[k].start <=> ring'[k].num # 0)
    <3>1. CASE k = s
      BY <1>0, <1>n, <2>2, <2>3, <3>1
    <3>2. CASE k # s
      <4>1. At(k, ring[k].num, head) /\ (ring[k].start <=> ring[k].num # 0)
        BY <2>2 DEF RmmInv, Numbered
      <4>2. At(k, ring[k].num, head + 1)
        BY <1>0, <3>2, <4>1, AtNext DEF s
      <4> QED BY <2>2, <2>3, <3>2, <4>1, <4>2
    <3> QED BY <3>1, <3>2
  <2>6. ASSUME NEW k \in Index
        PROVE  At(k, ring'[k].place, NewestPlace')
    BY <2>2, <2>3 DEF RmmInv, Placed
  <2>7. Numbered' /\ Placed'
    BY <2>5, <2>6 DEF Numbered, Placed, At
  <2> QED BY <2>1, <2>2, <2>4, <2>7 DEF RmmInv
<1>2. ASSUME RmmFirstHalf("place")
      PROVE  /\ RingType' /\ RmmInv' /\ head' = head /\ Newest' = Newest /\ half' = "place"
             /\ Newest = head /\ half = "none"
  <2>1. /\ half = "none" /\ head < MaxFrames /\ half' = "place" /\ head' = head
        /\ ring' = [ring EXCEPT ![s] =
             [start |-> ring[s].start \/ FALSE, num |-> ring[s].num, place |-> head + 1]]
    BY <1>2 DEF RmmFirstHalf
  <2>2. /\ Newest = head /\ Newest' = head /\ NewestPlace = head /\ NewestPlace' = head + 1
        /\ head + 1 \in Frame
    BY <2>1, <1>0, Sizes DEF Newest, NewestPlace, Frame
  <2>3. /\ ring'[s].num = ring[s].num /\ ring'[s].place = head + 1
        /\ ring'[s].start <=> ring[s].start
        /\ \A k \in Index \ {s} : ring'[k] = ring[k]
    BY <1>0, <2>1 DEF RingType
  <2>4. RingType'
    BY <1>0, <2>1, <2>2 DEF RingType
  <2> HIDE DEF s
  <2>5. ASSUME NEW k \in Index
        PROVE  At(k, ring'[k].num, Newest') /\ (ring'[k].start <=> ring'[k].num # 0)
    BY <2>2, <2>3 DEF RmmInv, Numbered
  <2>6. ASSUME NEW k \in Index
        PROVE  At(k, ring'[k].place, NewestPlace')
    <3>1. CASE k = s
      BY <1>0, <1>n, <2>2, <2>3, <3>1
    <3>2. CASE k # s
      <4>1. At(k, ring[k].place, head)
        BY <2>2 DEF RmmInv, Placed
      <4>2. At(k, ring[k].place, head + 1)
        BY <1>0, <3>2, <4>1, AtNext DEF s
      <4> QED BY <2>2, <2>3, <3>2, <4>2
    <3> QED BY <3>1, <3>2
  <2>7. Numbered' /\ Placed'
    BY <2>5, <2>6 DEF Numbered, Placed, At
  <2> QED BY <2>1, <2>2, <2>4, <2>7 DEF RmmInv
<1>3. ASSUME RmmSecondHalf
      PROVE  /\ RingType' /\ RmmInv' /\ head' = head + 1 /\ Newest <= Newest'
             /\ half # "none" /\ half' = "none"
  <2>1. /\ half # "none" /\ half' = "none" /\ head' = head + 1 /\ head < MaxFrames
        /\ ring' = [ring EXCEPT ![s] =
                      [start |-> TRUE, num |-> head + 1, place |-> head + 1]]
    BY <1>3 DEF RmmSecondHalf, RmmInv
  <2>2. /\ Newest \in {head, head + 1} /\ NewestPlace \in {head, head + 1}
        /\ Newest' = head + 1 /\ NewestPlace' = head + 1 /\ head + 1 \in Frame
    BY <2>1, <1>0, Sizes DEF Newest, NewestPlace, Frame
  <2>3. /\ ring'[s].num = head + 1 /\ ring'[s].place = head + 1 /\ ring'[s].start = TRUE
        /\ \A k \in Index \ {s} : ring'[k] = ring[k]
    BY <1>0, <2>1 DEF RingType
  <2>4. RingType'
    BY <1>0, <2>1, <2>2 DEF RingType
  <2> HIDE DEF s
  <2>5. ASSUME NEW k \in Index
        PROVE  At(k, ring'[k].num, Newest') /\ (ring'[k].start <=> ring'[k].num # 0)
    <3>1. CASE k = s
      BY <1>0, <1>n, <2>2, <2>3, <3>1
    <3>2. CASE k # s
      <4>1. At(k, ring[k].num, Newest) /\ (ring[k].start <=> ring[k].num # 0)
        BY DEF RmmInv, Numbered
      <4>2. At(k, ring[k].num, head + 1)
        BY <1>0, <2>2, <3>2, <4>1, AtNext DEF s
      <4> QED BY <2>2, <2>3, <3>2, <4>1, <4>2
    <3> QED BY <3>1, <3>2
  <2>6. ASSUME NEW k \in Index
        PROVE  At(k, ring'[k].place, NewestPlace')
    <3>1. CASE k = s
      BY <1>0, <1>n, <2>2, <2>3, <3>1
    <3>2. CASE k # s
      <4>1. At(k, ring[k].place, NewestPlace)
        BY DEF RmmInv, Placed
      <4>2. At(k, ring[k].place, head + 1)
        BY <1>0, <2>2, <3>2, <4>1, AtNext DEF s
      <4> QED BY <2>2, <2>3, <3>2, <4>2
    <3> QED BY <3>1, <3>2
  <2>7. Numbered' /\ Placed'
    BY <2>5, <2>6 DEF Numbered, Placed, At
  <2> QED BY <1>0, <2>1, <2>2, <2>4, <2>7 DEF RmmInv
<1>4. CASE RmmFirstHalf("num") \/ RmmFirstHalf("place")
  <2>1. /\ head' = head /\ half = "none" /\ half' # "none" /\ Newest = head
        /\ Newest' \in {head, head + 1} /\ RingType' /\ RmmInv'
    BY <1>1, <1>2, <1>4
  <2>2. \A f \in Nat : InTime(f)' => InTime(f)
    <3> SUFFICES ASSUME NEW f \in Nat, InTime(f)' PROVE InTime(f)
      OBVIOUS
    <3>1. head + 1 < f + RecordNum
      BY <2>1 DEF InTime
    <3>2. head + 0 < f + RecordNum
      BY <1>0, <3>1, Sizes
    <3> QED BY <2>1, <3>2 DEF InTime
  <2> QED BY <1>0, <2>1, <2>2
<1>5. CASE RmmSecondHalf
  <2>1. /\ head' = head + 1 /\ half # "none" /\ half' = "none" /\ Newest <= Newest'
        /\ RingType' /\ RmmInv'
    BY <1>3, <1>5
  <2>2. \A f \in Nat : InTime(f)' => InTime(f)
    <3> SUFFICES ASSUME NEW f \in Nat, InTime(f)' PROVE InTime(f)
      OBVIOUS
    <3>1. (head + 1) + 0 < f + RecordNum
      BY <2>1 DEF InTime
    <3>2. head + 1 < f + RecordNum
      BY <1>0, <3>1, Sizes
    <3> QED BY <2>1, <3>2 DEF InTime
  <2> QED BY <1>0, <2>1, <2>2
<1> QED BY <1>4, <1>5 DEF Rmm
-----------------------------------------------------------------------------
(* Stamps *)

\* Within a cycle of stamps the later frame has the larger one.
LEMMA StampsGrow ==
  ASSUME NEW x \in Nat, NEW y \in Nat, NEW z \in Nat, x < y, y <= z,
         x \div Wrap = z \div Wrap
  PROVE  Stamp(x) < Stamp(y)
<1> DEFINE q == x \div Wrap
           w == Wrap * q
<1>1. y \div Wrap = q
  <2>1. x \div Wrap <= y \div Wrap /\ y \div Wrap <= z \div Wrap
    BY QuotientMonotone, Sizes
  <2>2. x \div Wrap \in Nat /\ y \div Wrap \in Nat
    BY Division, Sizes
  <2> QED BY <2>1, <2>2
<1>2. w \in Nat /\ x = w + Stamp(x) /\ Stamp(x) \in Nat
  BY Division, Sizes DEF Stamp
<1>3. y = w + Stamp(y) /\ Stamp(y) \in Nat
  <2>1. y = Wrap * (y \div Wrap) + Stamp(y) /\ Stamp(y) \in Nat
    BY Division, Sizes DEF Stamp
  <2> QED BY <1>1, <2>1
<1> HIDE DEF w
<1> QED BY <1>2, <1>3

\* A stamp is what is left of the whole cycles.
LEMMA StampParts ==
  ASSUME NEW x \in Nat
  PROVE  x \div Wrap \in Nat /\ Stamp(x) \in Nat /\ x = Wrap * (x \div Wrap) + Stamp(x)
  BY Division, Sizes DEF Stamp

\* A stamp is a number modulo Wrap.
LEMMA StampType == \A x \in Nat : Stamp(x) \in 0..(Wrap - 1) /\ Stamp(x) \in Nat
  BY Division, Sizes DEF Stamp

\* A stamp fits if its frame is Window ahead at most, but for whole cycles.
LEMMA FitsMeans ==
  ASSUME NEW x \in Nat, NEW y \in Nat, stamp = Stamp(y), Fits(Stamp(x)), audio \in BOOLEAN
  PROVE  \E j \in Int : x - y - Wrap * j \in 0..Window
<1> DEFINE p == x \div Wrap
           q == y \div Wrap
<1>1. /\ p \in Nat /\ Stamp(x) \in Nat /\ x = Wrap * p + Stamp(x)
      /\ q \in Nat /\ Stamp(y) \in Nat /\ y = Wrap * q + Stamp(y)
  BY StampParts
<1> HIDE DEF p, q
<1>2. \E d \in Int : Stamp(x) - Stamp(y) - Wrap * d \in 0..Window
  <2>1. CASE audio
    <3> DEFINE e == Stamp(x) - Stamp(y)
               d == e \div Wrap
    <3>1. e \in Int /\ e % Wrap \in 0..Window
      BY <1>1, <2>1 DEF Fits
    <3> HIDE DEF e
    <3>2. d \in Int /\ e <= Wrap * d + (e % Wrap)
      BY <3>1, Sizes, Z3
    <3>3. e >= Wrap * d + (e % Wrap)
      BY <3>1, Sizes, Z3
    <3>4. e - Wrap * d = e % Wrap
      <4> HIDE DEF d
      <4>1. Wrap * d \in Int
        BY <3>2, Sizes
      <4> QED BY <3>1, <3>2, <3>3, <4>1
    <3> QED BY <3>1, <3>2, <3>4 DEF e
  <2>2. CASE ~audio
    <3>1. CASE Stamp(x) - stamp \in 1..Window
      <4>1. Stamp(x) - Stamp(y) - Wrap * 0 \in 0..Window
        BY <1>1, <3>1, Sizes
      <4> QED BY <4>1
    <3>2. CASE Stamp(x) + Wrap - stamp \in 1..Window
      <4>1. Wrap * (-1) = -Wrap
        BY Sizes
      <4>2. Stamp(x) - Stamp(y) - Wrap * (-1) \in 0..Window
        BY <1>1, <3>2, <4>1, Sizes
      <4> QED BY <4>2
    <3> QED BY <2>2, <3>1, <3>2 DEF Fits
  <2> QED BY <2>1, <2>2
<1>3. PICK d \in Int : Stamp(x) - Stamp(y) - Wrap * d \in 0..Window
  BY <1>2
<1>4. Wrap * (d + p - q) = Wrap * d + Wrap * p - Wrap * q
  BY <1>1, Sizes
<1> DEFINE u == Wrap * p
           v == Wrap * q
           w == Wrap * d
<1>5. u \in Int /\ v \in Int /\ w \in Int
  BY <1>1, Sizes
<1>6. /\ x = u + Stamp(x) /\ y = v + Stamp(y) /\ Stamp(x) - Stamp(y) - w \in 0..Window
      /\ Wrap * (d + p - q) = w + u - v
  BY <1>1, <1>3, <1>4
<1> HIDE DEF u, v, w
<1>7. x - y - Wrap * (d + p - q) \in 0..Window
  BY <1>1, <1>5, <1>6
<1>8. d + p - q \in Int
  BY <1>1
<1> QED BY <1>7, <1>8

\* Of the frames in the ring the one that fits in the next record is the next frame, or
\* one that is a whole cycle of stamps ahead.
LEMMA NextFits ==
  ASSUME NEW x \in Nat \ {0}, NEW y \in Nat \ {0}, NEW m \in Nat,
         stamp = Stamp(y), Fits(Stamp(x)), audio \in BOOLEAN,
         Slot(x) = Slot(y + 1), y <= m, x <= m, m < x + RecordNum
  PROVE  x = y + 1 \/ x - y >= Wrap
<1>1. PICK j \in Int : x - y - Wrap * j \in 0..Window
  BY FitsMeans
<1> DEFINE w == Wrap * j
<1>2. w \in Int /\ x - y - w \in 0..Window
  BY <1>1, Sizes
<1>3. CASE j < 0
  <2>1. w + Wrap <= 0
    <3>1. Wrap * j + Wrap <= Wrap * 0 /\ Wrap * 0 = 0
      BY <1>3, Multiples, Sizes
    <3> QED BY <3>1
  <2> HIDE DEF w
  <2> QED BY <1>2, <2>1, Sizes
<1>4. CASE j = 0
  <2>1. x - y \in 0..Window
    <3>1. w = 0
      BY <1>4, Sizes
    <3> HIDE DEF w
    <3> QED BY <1>2, <3>1
  <2>2. x # y
    <3>1. Slot(y + 1) # Slot(y)
      <4>1. Slot(y) \in Nat
        BY SlotNext, Sizes
      <4> QED BY <4>1, SlotNext, Sizes
    <3> QED BY <3>1
  <2>3. ~(y + 1 < x)
    <3>1. y + 1 < x => y + 1 + RecordNum <= x
      BY SlotApart
    <3> QED BY <2>1, <3>1, Sizes
  <2> QED BY <2>1, <2>2, <2>3
<1>5. CASE j > 0
  <2>1. w >= Wrap
    <3>1. Wrap * 0 + Wrap <= Wrap * j /\ Wrap * 0 = 0
      BY <1>5, Multiples, Sizes
    <3> QED BY <1>2, <3>1, Sizes
  <2> HIDE DEF w
  <2> QED BY <1>2, <2>1, Sizes
<1> QED BY <1>3, <1>4, <1>5
-----------------------------------------------------------------------------
(* What the reader holds *)

\* The types of what the reader keeps.
ReaderType ==
  /\ audio \in BOOLEAN
  /\ pc \in {"search", "look", "take", "write"}
  /\ i \in 0..RecordNum
  /\ cur \in Index \cup {None}
  /\ stamp \in -1..(Wrap - 1)
  /\ next \in Frame
  /\ place \in Frame
  /\ invalid \in 0..Patience
  /\ base \in Frame /\ last \in Frame
  /\ wrapped \in BOOLEAN

\* cur and stamp are the record and the stamp of frame base; without one the reader
\* searches.  What it has written last is not the newest frame.
Held ==
  /\ cur = None <=> base = 0
  /\ cur = None => pc = "search" /\ stamp = Least
  /\ cur # None => base <= Newest /\ cur = Slot(base) /\ stamp = Stamp(base)
  /\ pc = "search" /\ cur # None => cur < i
  /\ last # 0 => last < Newest

\* Once the search has passed an unused record, the frame it holds was the newest.  If
\* anything was written before, the first record's stamp was not larger than stamp, and
\* its frame was not more than a ring behind.
Searched ==
  pc = "search" =>
    /\ cur # None /\ cur + 1 < i => last < base
    /\ 0 < i /\ last # 0 =>
         \E b \in Frame : /\ b # 0 /\ b <= Newest /\ Slot(b) = 0
                          /\ Stamp(b) <= stamp /\ last + 1 < b + RecordNum

\* The next frame is the one after base, or most of a cycle of stamps ahead.
Ahead(f) == f = base + 1 \/ head - base >= Wrap - Window

\* The frame about to be copied is complete, with a later one after it, and a new one
\* unless the stamps had wrapped.
Followed ==
  /\ pc \in {"take", "write"} =>
       base < next /\ next <= Newest /\ Slot(next) = Slot(base + 1) /\ Ahead(next)
  /\ pc # "search" /\ ~wrapped => last < base

\* The reader's inductive invariant, given the ring's.
ReaderInv == Held /\ Searched /\ Followed /\ RightFrame

\* The numbers the reader handles.
LEMMA ReaderNumbers ==
  ASSUME RingType, RmmInv, ReaderType
  PROVE  /\ base \in Nat /\ last \in Nat /\ next \in Nat /\ head \in Nat /\ Newest \in Nat
         /\ Newest <= head + 1 /\ head <= Newest /\ i \in Nat /\ stamp \in Int
         /\ cur # None => cur \in Nat /\ cur < RecordNum /\ cur \in Index
<1>1. Frame \subseteq Nat /\ head \in Nat /\ Newest \in Nat
  BY RingNumbers
<1>2. Newest <= head + 1 /\ head <= Newest
  BY <1>1 DEF Newest
<1>3. i \in Nat /\ stamp \in Int
  BY Sizes DEF ReaderType
<1>4. cur # None => cur \in Nat /\ cur < RecordNum /\ cur \in Index
  BY Sizes DEF ReaderType
<1> QED BY <1>1, <1>2, <1>3, <1>4 DEF ReaderType

\* rmm's steps do not disturb the reader.
LEMMA RmmReader ==
  ASSUME RingType, RmmInv, ReaderType, ReaderInv, Rmm
  PROVE  ReaderType' /\ ReaderInv'
<1>1. UNCHANGED readerVars
  BY DEF Rmm, RmmFirstHalf, RmmSecondHalf
<1>2. /\ head <= head' /\ Newest <= Newest' /\ head' \in Nat /\ Newest' \in Nat
      /\ \A f \in Nat : InTime(f)' => InTime(f)
  <2>1. RingType' /\ RmmInv'
    BY RmmStep
  <2>2. head' \in Nat /\ Newest' \in Nat
    <3>1. head' \in Nat
      BY <2>1, Sizes DEF RingType, Frame
    <3>2. Newest' = head' + 1 \/ Newest' = head'
      BY Zenon DEF Newest
    <3> QED BY <3>1, <3>2
  <2> QED BY <2>2, RmmStep
<1>3. ReaderType'
  BY <1>1 DEF ReaderType, readerVars
<1>4. Held'
  BY <1>1, <1>2, ReaderNumbers DEF ReaderInv, Held, readerVars, Least
<1>5. Searched'
  <2>1. Frame \subseteq Nat
    BY RingNumbers
  <2> QED BY <1>1, <1>2, <2>1, ReaderNumbers DEF ReaderInv, Searched, readerVars
<1>6. Followed'
  BY <1>1, <1>2, ReaderNumbers, Sizes DEF ReaderInv, Followed, Ahead, readerVars
<1>7. RightFrame'
  <2> SUFFICES ASSUME pc' = "write", InTime(base)' PROVE place' = base'
    BY DEF RightFrame
  <2>1. base' = base /\ place' = place /\ pc = "write"
    BY <1>1 DEF readerVars
  <2>2. InTime(base)
    <3>1. base \in Nat
      BY ReaderNumbers
    <3>2. ~InTime(base) => ~InTime(base)'
      <4> DEFINE f == base
      <4>1. base' = base
        BY <2>1
      <4> QED BY <1>2, <3>1, <4>1 DEF InTime
    <3> QED BY <3>2
  <2> QED BY <2>1, <2>2 DEF ReaderInv, RightFrame
<1> QED BY <1>3, <1>4, <1>5, <1>6, <1>7 DEF ReaderInv
\* What the search leaves when it has looked at the record it is at.
LEMMA SearchStep ==
  ASSUME RingType, RmmInv, ReaderType, ReaderInv, Search
  PROVE  ReaderType' /\ ReaderInv'
<1>0. /\ base \in Nat /\ last \in Nat /\ Newest \in Nat /\ i \in Nat /\ stamp \in Int
      /\ (cur # None => cur \in Nat /\ cur < RecordNum /\ cur \in Index)
  BY ReaderNumbers
<1>1. /\ pc = "search" /\ UNCHANGED <<audio, rmmVars, next, place, invalid, last>>
      /\ Newest' = Newest /\ Least' = Least
  BY DEF Search, rmmVars, Newest, Least
<1>2. ASSUME i < RecordNum
      PROVE  /\ i \in Index /\ ring[i].num \in Frame /\ ring[i].num \in Nat
             /\ At(i, ring[i].num, Newest) /\ (ring[i].start <=> ring[i].num # 0)
  <2>1. i \in Index
    BY <1>0, <1>2, Sizes
  <2> QED BY <2>1, RingNumbers DEF RmmInv, Numbered
<1>3. CASE i < RecordNum /\ ~ring[i].start /\ i' = i + 1
           /\ UNCHANGED <<pc, cur, stamp, base, wrapped>>
  <2>1. ring[i].num = 0 /\ Newest <= i
    BY <1>2, <1>3 DEF At
  <2>2. ReaderType'
    BY <1>0, <1>1, <1>3, Sizes DEF ReaderType
  <2>3. Held'
    BY <1>0, <1>1, <1>3, Sizes DEF ReaderInv, Held
  <2>4. Searched'
    <3>1. ASSUME cur # None, cur + 1 < i + 1
          PROVE  last < base
      <4>1. CASE cur + 1 < i
        BY <1>1, <3>1, <4>1 DEF ReaderInv, Searched
      <4>2. CASE cur + 1 = i
        <5>1. base # 0 /\ cur = Slot(base) /\ base <= Newest
          BY <3>1 DEF ReaderInv, Held
        <5>2. cur < base
          BY <1>0, <5>1, SlotNext
        <5>3. base = Newest
          BY <1>0, <2>1, <3>1, <4>2, <5>1, <5>2
        <5> QED BY <1>0, <5>1, <5>3 DEF ReaderInv, Held
      <4> QED BY <1>0, <3>1, <4>1, <4>2
    <3>2. ASSUME last # 0
          PROVE  0 < i
      <4>1. last < Newest
        BY <3>2 DEF ReaderInv, Held
      <4> QED BY <1>0, <2>1, <4>1
    <3> QED BY <1>0, <1>1, <1>3, <3>1, <3>2 DEF ReaderInv, Searched
  <2>5. Followed' /\ RightFrame'
    BY <1>1, <1>3 DEF Followed, RightFrame
  <2> QED BY <2>2, <2>3, <2>4, <2>5 DEF ReaderInv
<1>4. CASE /\ i < RecordNum /\ ring[i].start /\ Stamp(ring[i].num) > stamp
           /\ i' = i + 1
           /\ cur' = i /\ stamp' = Stamp(ring[i].num) /\ base' = ring[i].num
           /\ UNCHANGED <<pc, wrapped>>
  <2> DEFINE n == ring[i].num
  <2>1. /\ n \in Nat /\ n \in Frame /\ n # 0 /\ n <= Newest /\ Slot(n) = i
        /\ Newest < n + RecordNum /\ i \in Index /\ i # None
    BY <1>2, <1>4, Sizes DEF At
  <2>2. /\ Stamp(n) \in -1..(Wrap - 1) /\ Stamp(n) \in Nat
    BY <2>1, StampType, Sizes
  <2>3. /\ i' = i + 1 /\ cur' = i /\ stamp' = Stamp(n) /\ base' = n /\ stamp < Stamp(n)
        /\ pc' = pc /\ wrapped' = wrapped
    BY <1>0, <1>4, <2>2
  <2> HIDE DEF n
  <2>4. ReaderType'
    BY <1>0, <1>1, <1>4, <2>1, <2>2, <2>3, Sizes DEF ReaderType
  <2>5. Held'
    BY <1>0, <1>1, <2>1, <2>3 DEF ReaderInv, Held
  <2>6. Searched'
    <3>1. ASSUME last # 0
          PROVE  \E b \in Frame : /\ b # 0 /\ b <= Newest /\ Slot(b) = 0
                                  /\ Stamp(b) <= Stamp(n) /\ last + 1 < b + RecordNum
      <4>1. CASE i = 0
        <5>1. last < Newest
          BY <3>1 DEF ReaderInv, Held
        <5>2. last + 1 < n + RecordNum /\ Stamp(n) <= Stamp(n)
          BY <1>0, <2>1, <2>2, <5>1, Sizes
        <5> QED BY <2>1, <4>1, <5>2
      <4>2. CASE i # 0
        <5>1. PICK b \in Frame : /\ b # 0 /\ b <= Newest /\ Slot(b) = 0
                                 /\ Stamp(b) <= stamp /\ last + 1 < b + RecordNum
          BY <1>0, <1>1, <3>1, <4>2 DEF ReaderInv, Searched
        <5>2. Stamp(b) \in Nat
          BY RingNumbers, StampType
        <5>3. Stamp(b) <= Stamp(n)
          BY <1>0, <2>2, <2>3, <5>1, <5>2
        <5> QED BY <5>1, <5>3
      <4> QED BY <4>1, <4>2
    <3>2. ~(cur' + 1 < i')
      BY <1>0, <2>3
    <3> QED BY <1>1, <2>3, <3>1, <3>2 DEF Searched
  <2>7. Followed' /\ RightFrame'
    BY <1>1, <2>3 DEF Followed, RightFrame
  <2> QED BY <2>4, <2>5, <2>6, <2>7 DEF ReaderInv
<1>5. CASE Restart /\ UNCHANGED wrapped
  <2>1. ReaderType'
    <3>1. 0 \in 0..RecordNum /\ 0 \in Frame /\ Least \in -1..(Wrap - 1)
      BY Sizes DEF Frame, Least
    <3> QED BY <1>1, <1>5, <3>1 DEF ReaderType, Restart
  <2>2. Held'
    BY <1>1, <1>5 DEF ReaderInv, Held, Restart
  <2>3. Searched' /\ Followed' /\ RightFrame'
    BY <1>5 DEF Searched, Followed, RightFrame, Restart
  <2> QED BY <2>1, <2>2, <2>3 DEF ReaderInv
<1>6. CASE /\ i < RecordNum => ring[i].start /\ Stamp(ring[i].num) <= stamp
           /\ cur # None
           /\ pc' = "look"
           /\ wrapped' = (base \div Wrap # Newest \div Wrap)
           /\ UNCHANGED <<i, cur, stamp, base>>
  <2>1. ReaderType'
    BY <1>1, <1>6 DEF ReaderType
  <2>2. Held'
    BY <1>1, <1>6 DEF ReaderInv, Held
  <2>3. Searched' /\ RightFrame'
    BY <1>6 DEF Searched, RightFrame
  <2>4. /\ base # 0 /\ cur = Slot(base) /\ base <= Newest /\ stamp = Stamp(base)
        /\ cur < i /\ Stamp(base) \in Nat
    BY <1>0, <1>1, <1>6, StampType DEF ReaderInv, Held
  <2>5. ASSUME base \div Wrap = Newest \div Wrap
        PROVE  last < base
    <3>1. CASE cur + 1 < i
      BY <1>1, <1>6, <3>1 DEF ReaderInv, Searched
    <3>2. CASE cur + 1 = i /\ i < RecordNum
      <4> DEFINE n == ring[i].num
      <4>1. /\ n \in Nat /\ n # 0 /\ Slot(n) = i /\ n <= Newest /\ Newest < n + RecordNum
            /\ Stamp(n) <= stamp
        BY <1>2, <1>6, <3>2 DEF At
      <4> HIDE DEF n
      <4>2. Slot(base + 1) = i
        BY <1>0, <2>4, <3>2, SlotNext, Sizes
      <4>3. ~(base < n)
        <5>1. base < n => Stamp(base) < Stamp(n)
          BY <1>0, <2>5, <4>1, StampsGrow
        <5>2. Stamp(n) \in Nat
          BY <4>1, StampType
        <5> QED BY <2>4, <4>1, <5>1, <5>2
      <4>4. n < base + 1
        BY <1>0, <4>1, <4>3
      <4>5. n + RecordNum <= base + 1
        BY <1>0, <4>1, <4>2, <4>4, SlotApart
      <4>6. base = Newest
        BY <1>0, <2>4, <4>1, <4>5, Sizes
      <4> QED BY <1>0, <2>4, <4>6 DEF ReaderInv, Held
    <3>3. CASE cur + 1 = i /\ i = RecordNum
      <4> SUFFICES ASSUME last # 0, ~(last < base) PROVE FALSE
        BY <1>0, <2>4
      <4>1. PICK b \in Frame : /\ b # 0 /\ b <= Newest /\ Slot(b) = 0
                               /\ Stamp(b) <= stamp /\ last + 1 < b + RecordNum
        BY <1>0, <1>1, <3>3, Sizes DEF ReaderInv, Searched
      <4>2. b \in Nat /\ Stamp(b) \in Nat
        BY RingNumbers, StampType
      <4>3. Slot(base + 1) = 0
        BY <1>0, <2>4, <3>3, SlotNext, Sizes
      <4>4. ~(b < base + 1)
        <5>1. b < base + 1 => b + RecordNum <= base + 1
          BY <1>0, <4>1, <4>2, <4>3, SlotApart
        <5> QED BY <1>0, <4>1, <4>2, <5>1, Sizes
      <4>5. base < b
        BY <1>0, <4>2, <4>4
      <4>6. Stamp(base) < Stamp(b)
        BY <1>0, <2>5, <4>1, <4>2, <4>5, StampsGrow
      <4> QED BY <2>4, <4>1, <4>2, <4>6
    <3> QED BY <1>0, <2>4, <3>1, <3>2, <3>3, Sizes DEF ReaderType
  <2>6. Followed'
    BY <1>1, <1>6, <2>5 DEF Followed
  <2> QED BY <2>1, <2>2, <2>3, <2>6 DEF ReaderInv
<1>7. \/ i < RecordNum /\ ~ring[i].start /\ i' = i + 1
         /\ UNCHANGED <<pc, cur, stamp, base, wrapped>>
      \/ /\ i < RecordNum /\ ring[i].start /\ Stamp(ring[i].num) > stamp
         /\ i' = i + 1
         /\ cur' = i /\ stamp' = Stamp(ring[i].num) /\ base' = ring[i].num
         /\ UNCHANGED <<pc, wrapped>>
      \/ Restart /\ UNCHANGED wrapped
      \/ /\ i < RecordNum => ring[i].start /\ Stamp(ring[i].num) <= stamp
         /\ cur # None
         /\ pc' = "look"
         /\ wrapped' = (base \div Wrap # Newest \div Wrap)
         /\ UNCHANGED <<i, cur, stamp, base>>
  BY DEF Search
<1> QED BY <1>3, <1>4, <1>5, <1>6, <1>7
\* The record after the current one is the one of the next frame.
LEMMA NextIndexIs ==
  ASSUME RingType, RmmInv, ReaderType, Held, cur # None
  PROVE  /\ base # 0 /\ base \in Nat /\ cur = Slot(base) /\ NextIndex = Slot(base + 1)
         /\ NextIndex \in Index /\ stamp = Stamp(base) /\ base <= Newest
<1>1. /\ base \in Nat /\ base # 0 /\ cur = Slot(base)
      /\ stamp = Stamp(base) /\ base <= Newest
  BY ReaderNumbers DEF Held
<1>2. NextIndex = Slot(base + 1)
  BY <1>1, SlotNext DEF NextIndex
<1>3. Slot(base + 1) \in Index
  BY <1>1, SlotNext
<1> QED BY <1>1, <1>2, <1>3

\* Looking at the next record.
LEMMA LookStep ==
  ASSUME RingType, RmmInv, ReaderType, ReaderInv, Look
  PROVE  ReaderType' /\ ReaderInv'
<1>0. /\ base \in Nat /\ last \in Nat /\ Newest \in Nat /\ head \in Nat
      /\ Newest <= head + 1
  BY ReaderNumbers
<1>1. /\ pc = "look" /\ cur # None /\ UNCHANGED <<audio, rmmVars, place, last, wrapped>>
      /\ Newest' = Newest /\ Least' = Least /\ audio \in BOOLEAN
      /\ ring[NextIndex].start /\ head' = head
  BY DEF Look, rmmVars, Newest, Least, ReaderInv, Held, ReaderType
<1>2. /\ base # 0 /\ cur = Slot(base) /\ NextIndex = Slot(base + 1)
      /\ NextIndex \in Index /\ stamp = Stamp(base) /\ base <= Newest
  BY <1>1, NextIndexIs DEF ReaderInv
<1>3. CASE /\ Fits(Stamp(ring[NextIndex].num))
           /\ pc' = "take" /\ next' = ring[NextIndex].num
           /\ UNCHANGED <<i, cur, stamp, base, invalid>>
  <2> DEFINE n == ring[NextIndex].num
  <2>1. /\ n \in Frame /\ n \in Nat /\ At(NextIndex, n, Newest) /\ n # 0
    BY <1>1, <1>2, RingNumbers DEF RmmInv, Numbered
  <2> HIDE DEF n
  <2>2. n <= Newest /\ Slot(n) = NextIndex /\ Newest < n + RecordNum
    BY <2>1 DEF At
  <2>3. n = base + 1 \/ n - base >= Wrap
    <3>1. Fits(Stamp(n))
      BY <1>3 DEF n
    <3> QED BY <1>0, <1>1, <1>2, <2>1, <2>2, <3>1, NextFits
  <2>4. base < n
    BY <1>0, <2>1, <2>3, Sizes
  <2>5. n = base + 1 \/ head - base >= Wrap - Window
    BY <1>0, <2>1, <2>2, <2>3, Sizes
  <2>6. next' = n /\ pc' = "take" /\ UNCHANGED <<i, cur, stamp, base, invalid>>
    BY <1>3 DEF n
  <2>7. ReaderType'
    BY <1>1, <2>1, <2>6 DEF ReaderType
  <2>8. Held'
    BY <1>1, <2>6 DEF ReaderInv, Held
  <2>9. Searched' /\ RightFrame'
    BY <2>6 DEF Searched, RightFrame
  <2>10. Followed'
    BY <1>1, <1>2, <2>2, <2>4, <2>5, <2>6 DEF ReaderInv, Followed, Ahead
  <2> QED BY <2>7, <2>8, <2>9, <2>10 DEF ReaderInv
<1>4. CASE /\ invalid' = IF invalid < Patience THEN invalid + 1 ELSE invalid
           /\ \/ UNCHANGED <<pc, i, cur, stamp, base>>
              \/ Restart
           /\ UNCHANGED next
  <2>1. invalid' \in 0..Patience
    BY <1>4, Sizes DEF ReaderType
  <2>2. CASE UNCHANGED <<pc, i, cur, stamp, base>>
    <3>1. ReaderType'
      BY <1>1, <1>4, <2>1, <2>2 DEF ReaderType
    <3>2. Held' /\ Searched' /\ Followed' /\ RightFrame'
      BY <1>1, <1>4, <2>2 DEF ReaderInv, Held, Searched, Followed, RightFrame
    <3> QED BY <3>1, <3>2 DEF ReaderInv
  <2>3. CASE Restart
    <3>1. ReaderType'
      <4>1. 0 \in 0..RecordNum /\ 0 \in Frame /\ Least \in -1..(Wrap - 1)
        BY Sizes DEF Frame, Least
      <4> QED BY <1>1, <1>4, <2>1, <2>3, <4>1 DEF ReaderType, Restart
    <3>2. Held'
      BY <1>1, <2>3 DEF ReaderInv, Held, Restart
    <3>3. Searched' /\ Followed' /\ RightFrame'
      BY <2>3 DEF Searched, Followed, RightFrame, Restart
    <3> QED BY <3>1, <3>2, <3>3 DEF ReaderInv
  <2> QED BY <1>4, <2>2, <2>3
<1> QED BY <1>3, <1>4 DEF Look

\* Copying: the place read is that of the frame whose stamp is held.
LEMMA TakeStep ==
  ASSUME RingType, RmmInv, ReaderType, ReaderInv, Take
  PROVE  ReaderType' /\ ReaderInv'
<1>0. /\ base \in Nat /\ next \in Nat /\ Newest \in Nat /\ head \in Nat /\ Newest <= head + 1
  BY ReaderNumbers
<1>1. /\ pc = "take" /\ pc' = "write" /\ place' = ring[cur].place /\ cur # None
      /\ UNCHANGED <<audio, rmmVars, i, cur, stamp, next, invalid, base, last, wrapped>>
      /\ Newest' = Newest /\ head' = head /\ half' = half
  BY DEF Take, rmmVars, Newest, ReaderInv, Held
<1>2. base # 0 /\ cur = Slot(base) /\ cur \in Index
  BY <1>1, NextIndexIs, ReaderNumbers DEF ReaderInv
<1>3. /\ ring[cur].place \in Frame /\ ring[cur].place \in Nat
      /\ At(cur, ring[cur].place, NewestPlace)
  BY <1>2, RingNumbers DEF RmmInv, Placed
<1>4. ReaderType'
  BY <1>1, <1>3 DEF ReaderType
<1>5. Held' /\ Searched' /\ Followed'
  BY <1>1 DEF ReaderInv, Held, Searched, Followed, Ahead, Least
<1>6. RightFrame'
  <2> SUFFICES ASSUME InTime(base) PROVE ring[cur].place = base
    BY <1>1 DEF RightFrame, InTime
  <2>1. base <= head
    BY <1>0, <1>1 DEF ReaderInv, Followed
  <2>2. NewestPlace \in Nat /\ head <= NewestPlace /\ NewestPlace < base + RecordNum
    <3>1. CASE half = "place"
      <4>1. head + 1 < base + RecordNum /\ NewestPlace = head + 1
        BY <3>1 DEF InTime, NewestPlace
      <4> QED BY <1>0, <4>1
    <3>2. CASE half # "place"
      <4>1. NewestPlace = head
        BY <3>2 DEF NewestPlace
      <4>2. head + 1 < base + RecordNum \/ head + 0 < base + RecordNum
        BY DEF InTime
      <4> QED BY <1>0, <4>1, <4>2, Sizes
    <3> QED BY <3>1, <3>2
  <2>3. base <= NewestPlace
    BY <1>0, <2>1, <2>2
  <2> QED BY <1>0, <1>2, <1>3, <2>2, <2>3, AtRecent
<1> QED BY <1>4, <1>5, <1>6 DEF ReaderInv

\* Written; the next frame is the current one.
LEMMA WriteStep ==
  ASSUME RingType, RmmInv, ReaderType, ReaderInv, Write
  PROVE  /\ ReaderType' /\ ReaderInv'
         /\ base' = base + 1 \/ head - base >= Wrap - Window
<1>0. /\ base \in Nat /\ next \in Nat /\ last \in Nat /\ Newest \in Nat
  BY ReaderNumbers
<1>1. /\ pc = "write" /\ pc' = "look" /\ cur # None
      /\ cur' = NextIndex /\ stamp' = Stamp(next) /\ base' = next /\ invalid' = 0
      /\ last' = IF base > last THEN base ELSE last
      /\ UNCHANGED <<audio, rmmVars, i, next, place, wrapped>>
      /\ Newest' = Newest
  BY DEF Write, rmmVars, Newest, ReaderInv, Held
<1>2. /\ base # 0 /\ NextIndex = Slot(base + 1) /\ NextIndex \in Index /\ NextIndex # None
  BY <1>1, NextIndexIs, Sizes DEF ReaderInv
<1>3. base < next /\ next <= Newest /\ (next = base + 1 \/ head - base >= Wrap - Window)
  BY <1>1 DEF ReaderInv, Followed, Ahead
<1>4. Slot(next) = NextIndex
  BY <1>1, <1>2 DEF ReaderInv, Followed
<1>5. ReaderType'
  <2>1. Stamp(next) \in -1..(Wrap - 1) /\ 0 \in 0..Patience
    <3> DEFINE x == Stamp(next)
    <3>1. x \in 0..(Wrap - 1)
      BY <1>0, StampType
    <3> HIDE DEF x
    <3>2. x \in -1..(Wrap - 1)
      BY <3>1, Sizes
    <3>3. 0 \in 0..Patience
      BY Sizes
    <3> QED BY <3>2, <3>3 DEF x
  <2> QED BY <1>1, <1>2, <2>1 DEF ReaderType
<1>6. Held'
  <2>1. last' # 0 => last' < Newest
    <3>1. last # 0 => last < Newest
      BY DEF ReaderInv, Held
    <3>2. base < Newest
      BY <1>0, <1>3
    <3> QED BY <1>1, <3>1, <3>2
  <2> QED BY <1>0, <1>1, <1>2, <1>3, <1>4, <2>1 DEF Held
<1>7. Searched' /\ RightFrame'
  BY <1>1 DEF Searched, RightFrame
<1>8. Followed'
  <2>1. ~wrapped => last < base
    BY <1>1 DEF ReaderInv, Followed
  <2>2. ~wrapped => last' < base'
    BY <1>0, <1>1, <1>3, <2>1
  <2> QED BY <1>1, <2>2 DEF Followed
<1> QED BY <1>1, <1>3, <1>5, <1>6, <1>7, <1>8 DEF ReaderInv
-----------------------------------------------------------------------------

\* The inductive invariant.
GrabberInv == RingType /\ RmmInv /\ ReaderType /\ ReaderInv

\* Nothing is in the ring at first, and the reader has nothing.
LEMMA InitInv == Init => GrabberInv
<1> SUFFICES ASSUME Init PROVE GrabberInv
  OBVIOUS
<1>1. 0 \in Frame /\ 0 \in 0..RecordNum /\ Least \in -1..(Wrap - 1) /\ 0 \in 0..Patience
  BY Sizes DEF Frame, Least
<1>2. RingType
  BY <1>1 DEF Init, RingType
<1>3. Newest = 0 /\ NewestPlace = 0
  BY DEF Init, Newest, NewestPlace
<1>4. \A k \in Index : At(k, 0, 0)
  BY Sizes DEF At
<1>5. RmmInv
  BY <1>3, <1>4 DEF Init, RmmInv, Numbered, Placed
<1>6. ReaderType
  <2>1. FALSE \in BOOLEAN
    OBVIOUS
  <2> QED BY <1>1, <2>1, Zenon DEF Init, ReaderType
<1>7. ReaderInv
  BY DEF Init, ReaderInv, Held, Searched, Followed, RightFrame
<1> QED BY <1>2, <1>5, <1>6, <1>7 DEF GrabberInv

\* Every step keeps it.
LEMMA NextInv == GrabberInv /\ [Next]_vars => GrabberInv'
<1> SUFFICES ASSUME GrabberInv, [Next]_vars PROVE GrabberInv'
  OBVIOUS
<1> USE DEF GrabberInv
<1>1. CASE Rmm
  BY <1>1, RmmStep, RmmReader
<1>2. CASE Reader
  <2>1. UNCHANGED rmmVars
    BY <1>2 DEF Reader, Search, Look, Take, Write
  <2>2. RingType' /\ RmmInv'
    BY <2>1 DEF RingType, RmmInv, Numbered, Placed, Newest, NewestPlace, rmmVars
  <2>3. ReaderType' /\ ReaderInv'
    BY <1>2, SearchStep, LookStep, TakeStep, WriteStep DEF Reader
  <2> QED BY <2>2, <2>3
<1>3. CASE UNCHANGED vars
  <2>1. RingType' /\ RmmInv'
    BY <1>3 DEF RingType, RmmInv, Numbered, Placed, Newest, NewestPlace, vars, rmmVars
  <2>2. ReaderType'
    BY <1>3 DEF ReaderType, vars
  <2>3. Held' /\ Searched'
    BY <1>3 DEF ReaderInv, Held, Searched, Newest, Least, vars, rmmVars
  <2>4. Followed' /\ RightFrame'
    BY <1>3 DEF ReaderInv, Followed, Ahead, RightFrame, InTime, Newest, vars, rmmVars
  <2> QED BY <2>1, <2>2, <2>3, <2>4 DEF ReaderInv
<1> QED BY <1>1, <1>2, <1>3 DEF Next

\* It holds of every behaviour.
LEMMA Invariance == Spec => []GrabberInv
  BY InitInv, NextInv, PTL DEF Spec

\* For rings, stamps and windows of any size rmm and h264grabber keep their types.
THEOREM TypeCorrect == Spec => []TypeOK
<1>1. GrabberInv => TypeOK
  BY DEF GrabberInv, RingType, ReaderType, TypeOK
<1> QED BY <1>1, Invariance, PTL

\* What h264grabber copies is the complete frame whose stamp it holds, however the two
\* halves of the records are written meanwhile, while rmm is not a whole ring ahead.
THEOREM Right == Spec => []RightFrame
<1>1. GrabberInv => RightFrame
  BY DEF GrabberInv, ReaderInv
<1> QED BY <1>1, Invariance, PTL

\* Through any number of lost synchronisations no frame is copied again, unless the
\* stamps had wrapped at the last search.
THEOREM NoRepeat == Spec => []RepeatsOnlyAtWrap
<1>1. GrabberInv => RepeatsOnlyAtWrap
  <2> SUFFICES ASSUME GrabberInv, pc = "write", ~wrapped PROVE base > last
    BY DEF RepeatsOnlyAtWrap
  <2>1. last < base
    BY DEF GrabberInv, ReaderInv, Followed
  <2>2. last \in Int /\ base \in Int
    BY ReaderNumbers DEF GrabberInv
  <2> QED BY <2>1, <2>2
<1> QED BY <1>1, Invariance, PTL

\* From one frame the reader goes to the next, unless rmm is nearly a cycle of stamps
\* ahead: no half-written record and no older one in the next place is taken for it.
THEOREM Gapless == Spec => NoGap
<1> DEFINE A == Write => base' = base + 1 \/ head - base >= Wrap - Window
<1>1. GrabberInv /\ [Next]_vars => [A]_vars
  BY WriteStep DEF GrabberInv
<1> HIDE DEF A
<1>2. Spec => [][A]_vars
  BY <1>1, Invariance, PTL DEF Spec
<1> QED BY <1>2 DEF NoGap, A
=============================================================================
