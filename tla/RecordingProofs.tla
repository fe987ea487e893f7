-------------------------- MODULE RecordingProofs ---------------------------
(***************************************************************************)
(* Proofs about the recorder's files and the scripts that share them.      *)
(***************************************************************************)
EXTENDS Recording, SequenceTheorems, TLAPS

(* Hours *)

\* Whole multiples of a number are at least that number apart.
LEMMA Multiples ==
  ASSUME NEW h \in Nat \ {0}, NEW p \in Int, NEW q \in Int, p < q
  PROVE  h * p + h <= h * q
<1>1. q = p + 1 + (q - p - 1) /\ q - p - 1 \in Nat
  OBVIOUS
<1> DEFINE k == q - p - 1
<1>2. h * q = h * p + h + h * k
  OBVIOUS
<1>3. h * k \in Nat
  <2>1. k \in Nat
    BY <1>1
  <2> HIDE DEF k
  <2> QED BY <2>1
<1> QED BY <1>2, <1>3

\* The hour of a minute.
LEMMA HourOf ==
  ASSUME NEW t \in Nat
  PROVE  /\ Hour(t) \in Nat
         /\ HourLen * Hour(t) <= t /\ t < HourLen * Hour(t) + HourLen
  BY RecordingAssumption DEF Hour

\* Hours do not go back.
LEMMA HourMonotone ==
  ASSUME NEW s \in Nat, NEW t \in Nat, s <= t
  PROVE  Hour(s) <= Hour(t)
<1>1. SUFFICES ASSUME Hour(t) < Hour(s) PROVE FALSE
  BY HourOf
<1>2. HourLen * Hour(t) + HourLen <= HourLen * Hour(s)
  <2>1. HourLen \in Nat \ {0} /\ Hour(s) \in Int /\ Hour(t) \in Int
    BY HourOf, RecordingAssumption
  <2> QED BY <1>1, <2>1, Multiples
<1>3. HourLen * Hour(s) \in Int /\ HourLen * Hour(t) \in Int /\ HourLen \in Nat
  BY HourOf, RecordingAssumption
<1> QED BY <1>2, <1>3, HourOf

\* The quotient is the only number that brackets the minute.
LEMMA HourIs ==
  ASSUME NEW t \in Nat, NEW q \in Nat, HourLen * q <= t, t < HourLen * q + HourLen
  PROVE  Hour(t) = q
<1>1. HourLen * q \in Int /\ HourLen * Hour(t) \in Int /\ HourLen \in Nat \ {0}
  BY HourOf, RecordingAssumption
<1>2. ~(Hour(t) < q)
  <2>1. SUFFICES ASSUME Hour(t) < q PROVE FALSE
    OBVIOUS
  <2>2. HourLen * Hour(t) + HourLen <= HourLen * q
    BY <1>1, <2>1, HourOf, Multiples
  <2> QED BY <1>1, <2>2, HourOf
<1>3. ~(q < Hour(t))
  <2>1. SUFFICES ASSUME q < Hour(t) PROVE FALSE
    OBVIOUS
  <2>2. HourLen * q + HourLen <= HourLen * Hour(t)
    <3>1. q \in Int /\ Hour(t) \in Int /\ HourLen \in Nat \ {0}
      BY <1>1, HourOf
    <3> QED BY <2>1, <3>1, Multiples
  <2>3. HourLen * Hour(t) <= t
    BY HourOf
  <2> DEFINE x == HourLen * q
             y == HourLen * Hour(t)
  <2>4. x + HourLen <= y /\ y <= t /\ t < x + HourLen /\ x \in Int /\ y \in Int
    BY <1>1, <2>2, <2>3
  <2> HIDE DEF x, y
  <2> QED BY <1>1, <2>4
<1> QED BY <1>2, <1>3, HourOf

\* An hour later it is the next hour, and a minute later the same or the next one.
LEMMA HourAfter ==
  ASSUME NEW t \in Nat
  PROVE  /\ Hour(t + HourLen) = Hour(t) + 1
         /\ Hour(t + 1) \in {Hour(t), Hour(t) + 1}
<1>1. /\ Hour(t) \in Nat /\ HourLen \in Nat \ {0} /\ HourLen * Hour(t) \in Int
      /\ HourLen * (Hour(t) + 1) = HourLen * Hour(t) + HourLen
  BY HourOf, RecordingAssumption
<1>2. Hour(t + HourLen) = Hour(t) + 1
  <2>1. /\ HourLen * (Hour(t) + 1) <= t + HourLen
        /\ t + HourLen < HourLen * (Hour(t) + 1) + HourLen
    BY <1>1, HourOf
  <2> QED BY <1>1, <2>1, HourIs
<1>3. CASE t + 1 < HourLen * Hour(t) + HourLen
  <2>1. HourLen * Hour(t) <= t + 1
    BY <1>1, HourOf
  <2> QED BY <1>1, <1>2, <1>3, <2>1, HourIs
<1>4. CASE ~(t + 1 < HourLen * Hour(t) + HourLen)
  <2>1. /\ HourLen * (Hour(t) + 1) <= t + 1
        /\ t + 1 < HourLen * (Hour(t) + 1) + HourLen
    BY <1>1, <1>4, HourOf
  <2> QED BY <1>1, <1>2, <2>1, HourIs
<1> QED BY <1>3, <1>4

\* The hour of a minute and the one after it are hours of the model.
LEMMA HoursType ==
  ASSUME NEW t \in Minute
  PROVE  Hour(t) \in Hours /\ Hour(t) + 1 \in Hours /\ Hour(t + HourLen) \in Hours
<1>1. t \in Nat /\ MaxTime \in Nat /\ t <= MaxTime
  BY RecordingAssumption DEF Minute
<1> QED BY <1>1, HourOf, HourMonotone, HourAfter DEF Hours

-----------------------------------------------------------------------------
(* Directories by age *)

\* No directory is listed twice; and the directories that are listed.
Distinct(a) == \A j, k \in 1..Len(a) : a[j] = a[k] => j = k
Elems(a) == {a[k] : k \in 1..Len(a)}

\* The directories of S are in the order of their hours.
Sorted(a, S) ==
  \A j, k \in 1..Len(a) : j < k /\ a[j] \in S /\ a[k] \in S => a[j] < a[k]

\* What is left without one directory is distinct, all the others, and in order.
LEMMA WithoutOne ==
  ASSUME NEW a \in Seq(Hours), Distinct(a), NEW d \in Hours
  PROVE  /\ Without(a, d) \in Seq(Hours) /\ Distinct(Without(a, d))
         /\ Elems(Without(a, d)) = Elems(a) \ {d}
         /\ \A S : Sorted(a, S) => Sorted(Without(a, d), S)
<1>1. CASE ~\E k \in 1..Len(a) : a[k] = d
  BY <1>1 DEF Without, Elems
<1>2. CASE \E k \in 1..Len(a) : a[k] = d
  <2> DEFINE i == CHOOSE k \in 1..Len(a) : a[k] = d
             b == RemoveAt(a, i)
  <2>1. i \in 1..Len(a) /\ a[i] = d /\ Without(a, d) = b
    BY <1>2 DEF Without
  <2> HIDE DEF i
  <2>2. /\ b \in Seq(Hours) /\ Len(b) = Len(a) - 1
        /\ \A j \in 1..Len(b) : b[j] = IF j < i THEN a[j] ELSE a[j + 1]
    <3>1. /\ Len(a) \in Nat /\ i \in Nat /\ i <= Len(a) /\ 1 <= i
          /\ SubSeq(a, 1, i - 1) \in Seq(Hours) /\ SubSeq(a, i + 1, Len(a)) \in Seq(Hours)
      BY <2>1
    <3>2. /\ Len(SubSeq(a, 1, i - 1)) = i - 1
          /\ \A j \in 1..(i - 1) : SubSeq(a, 1, i - 1)[j] = a[j]
      BY <2>1, <3>1
    <3>3. /\ Len(SubSeq(a, i + 1, Len(a))) = Len(a) - i
          /\ \A j \in 1..(Len(a) - i) : SubSeq(a, i + 1, Len(a))[j] = a[j + i]
      BY <2>1, <3>1
    <3> DEFINE u == SubSeq(a, 1, i - 1)
               v == SubSeq(a, i + 1, Len(a))
    <3>4. b = u \o v
      BY DEF RemoveAt
    <3> HIDE DEF u, v
    <3>5. b \in Seq(Hours) /\ Len(b) = Len(u) + Len(v)
      BY <3>1, <3>4 DEF u, v
    <3>6. \A j \in 1..Len(b) : b[j] = IF j <= Len(u) THEN u[j] ELSE v[j - Len(u)]
      <4>1. u \in Seq(Hours) /\ v \in Seq(Hours)
        BY <3>1 DEF u, v
      <4> HIDE DEF b
      <4> QED BY <3>4, <4>1, ConcatProperties
    <3>9. Len(u) = i - 1 /\ \A j \in 1..(i - 1) : u[j] = a[j]
      BY <3>2 DEF u
    <3>10. Len(v) = Len(a) - i /\ \A j \in 1..(Len(a) - i) : v[j] = a[j + i]
      BY <3>3 DEF v
    <3> HIDE DEF b
    <3>7. Len(b) = Len(a) - 1
      BY <3>1, <3>5, <3>9, <3>10
    <3>8. ASSUME NEW j \in 1..Len(b)
          PROVE  b[j] = IF j < i THEN a[j] ELSE a[j + 1]
      <4>1. CASE j < i
        BY <3>1, <3>6, <3>9, <4>1
      <4>2. CASE ~(j < i)
        <5>1. j - Len(u) \in 1..(Len(a) - i) /\ (j - Len(u)) + i = j + 1 /\ ~(j <= Len(u))
          BY <3>1, <3>7, <3>9, <4>2
        <5>2. v[j - Len(u)] = a[j + 1]
          BY <3>1, <3>10, <5>1
        <5> QED BY <3>6, <4>2, <5>1, <5>2
      <4> QED BY <4>1, <4>2
    <3> QED BY <3>5, <3>7, <3>8
  <2> HIDE DEF b
  <2>3. \A j \in 1..Len(b) : j \in 1..Len(a) /\ j + 1 \in 1..Len(a)
    BY <2>1, <2>2
  <2>4. Distinct(b)
    BY <2>1, <2>2, <2>3 DEF Distinct
  <2>5. Elems(b) = Elems(a) \ {d}
    <3>1. \A x \in Elems(b) : x \in Elems(a) /\ x # d
      BY <2>1, <2>2, <2>3 DEF Elems, Distinct
    <3>2. ASSUME NEW x \in Elems(a), x # d
          PROVE  x \in Elems(b)
      <4>1. PICK k \in 1..Len(a) : a[k] = x
        BY DEF Elems
      <4>2. k # i
        BY <2>1, <3>2, <4>1
      <4>3. \E j \in 1..Len(b) : b[j] = x
        <5>1. CASE k < i
          BY <2>1, <2>2, <4>1, <5>1
        <5>2. CASE k > i
          <6>1. k - 1 \in 1..Len(b) /\ b[k - 1] = a[k]
            BY <2>1, <2>2, <4>1, <5>2
          <6> QED BY <4>1, <6>1
        <5> QED BY <2>1, <4>2, <5>1, <5>2
      <4> QED BY <4>3 DEF Elems
    <3> QED BY <3>1, <3>2
  <2>6. ASSUME NEW S, Sorted(a, S)
        PROVE  Sorted(b, S)
    <3> SUFFICES ASSUME NEW j \in 1..Len(b), NEW k \in 1..Len(b),
                        j < k, b[j] \in S, b[k] \in S
                 PROVE  b[j] < b[k]
      BY DEF Sorted
    <3>1. CASE k < i
      <4>1. b[j] = a[j] /\ b[k] = a[k]
        BY <2>1, <2>2, <3>1
      <4>2. j \in 1..Len(a) /\ k \in 1..Len(a)
        BY <2>3
      <4> QED BY <2>6, <4>1, <4>2 DEF Sorted
    <3>2. CASE j < i /\ ~(k < i)
      <4>1. j < k + 1 /\ b[j] = a[j] /\ b[k] = a[k + 1]
        BY <2>2, <3>2
      <4>2. j \in 1..Len(a) /\ k + 1 \in 1..Len(a)
        BY <2>3
      <4> QED BY <2>6, <4>1, <4>2 DEF Sorted
    <3>3. CASE ~(j < i)
      <4>1. j + 1 < k + 1 /\ b[j] = a[j + 1] /\ b[k] = a[k + 1]
        BY <2>1, <2>2, <3>3
      <4>2. j + 1 \in 1..Len(a) /\ k + 1 \in 1..Len(a)
        BY <2>3
      <4> QED BY <2>6, <4>1, <4>2 DEF Sorted
    <3> QED BY <3>1, <3>2, <3>3
  <2>7. \A S : Sorted(a, S) => Sorted(b, S)
    BY <2>6
  <2> QED BY <2>1, <2>2, <2>4, <2>5, <2>7
<1> QED BY <1>1, <1>2

\* A directory added at the end, where it was not before.
LEMMA Added ==
  ASSUME NEW a \in Seq(Hours), Distinct(a), NEW d \in Hours, d \notin Elems(a)
  PROVE  /\ Append(a, d) \in Seq(Hours) /\ Distinct(Append(a, d))
         /\ Elems(Append(a, d)) = Elems(a) \cup {d}
         /\ \A S : Sorted(a, S) /\ (\A e \in Elems(a) \cap S : d \notin S \/ e < d)
                     => Sorted(Append(a, d), S)
<1> DEFINE b == Append(a, d)
<1>1. /\ b \in Seq(Hours) /\ Len(b) = Len(a) + 1 /\ Len(a) \in Nat
      /\ b[Len(a) + 1] = d /\ \A j \in 1..Len(a) : b[j] = a[j] /\ a[j] \in Elems(a)
  BY DEF Elems
<1>2. \A j \in 1..Len(b) : j \in 1..Len(a) \/ j = Len(a) + 1
  BY <1>1
<1> HIDE DEF b
<1>3. Distinct(b)
  BY <1>1, <1>2 DEF Distinct
<1>4. Elems(b) = Elems(a) \cup {d}
  <2>1. Elems(b) \subseteq Elems(a) \cup {d}
    BY <1>1, <1>2 DEF Elems
  <2>2. d \in Elems(b)
    BY <1>1 DEF Elems
  <2>3. Elems(a) \subseteq Elems(b)
    BY <1>1 DEF Elems
  <2> QED BY <2>1, <2>2, <2>3
<1>5. ASSUME NEW S, Sorted(a, S), \A e \in Elems(a) \cap S : d \notin S \/ e < d
      PROVE  Sorted(b, S)
  <2> SUFFICES ASSUME NEW j \in 1..Len(b), NEW k \in 1..Len(b),
                      j < k, b[j] \in S, b[k] \in S
               PROVE  b[j] < b[k]
    BY DEF Sorted
  <2>1. j \in 1..Len(a)
    BY <1>1, <1>2
  <2>2. CASE k \in 1..Len(a)
    BY <1>1, <1>5, <2>1, <2>2 DEF Sorted
  <2>3. CASE k = Len(a) + 1
    BY <1>1, <1>5, <2>1, <2>3
  <2> QED BY <1>2, <2>2, <2>3
<1> QED BY <1>1, <1>3, <1>4, <1>5 DEF b

\* mkdir -p adds a directory, and the empty ones do not matter for the order.
LEMMA Made ==
  ASSUME NEW a \in Seq(Hours), Distinct(a), NEW d \in Hours
  PROVE  /\ MkDir(a, d) \in Seq(Hours) /\ Distinct(MkDir(a, d))
         /\ Elems(MkDir(a, d)) = Elems(a) \cup {d}
         /\ \A S : Sorted(a, S) /\ S \subseteq Elems(a) => Sorted(MkDir(a, d), S)
<1>1. CASE \E k \in 1..Len(a) : a[k] = d
  BY <1>1 DEF MkDir, Elems
<1>2. CASE ~\E k \in 1..Len(a) : a[k] = d
  <2>1. d \notin Elems(a) /\ MkDir(a, d) = Append(a, d)
    BY <1>2 DEF MkDir, Elems
  <2>2. \A S : S \subseteq Elems(a) => d \notin S
    BY <2>1
  <2> QED BY <2>1, <2>2, Added
<1> QED BY <1>1, <1>2

\* A modified directory is the last one.
LEMMA Touched ==
  ASSUME NEW a \in Seq(Hours), Distinct(a), NEW d \in Hours
  PROVE  /\ Modified(a, d) \in Seq(Hours) /\ Distinct(Modified(a, d))
         /\ Elems(Modified(a, d)) = Elems(a) \cup {d}
         /\ \A S : Sorted(a, S \ {d}) /\ (\A e \in S : e < d \/ e = d)
                     => Sorted(Modified(a, d), S)
<1> DEFINE b == Without(a, d)
<1>1. /\ b \in Seq(Hours) /\ Distinct(b) /\ Elems(b) = Elems(a) \ {d}
      /\ \A S : Sorted(a, S) => Sorted(b, S)
  BY WithoutOne
<1>2. Modified(a, d) = Append(b, d)
  BY DEF Modified
<1> HIDE DEF b
<1>3. d \notin Elems(b) /\ Elems(b) \cup {d} = Elems(a) \cup {d}
  BY <1>1
<1>4. /\ Append(b, d) \in Seq(Hours) /\ Distinct(Append(b, d))
      /\ Elems(Append(b, d)) = Elems(a) \cup {d}
  BY <1>1, <1>3, Added
<1>5. ASSUME NEW S, Sorted(a, S \ {d}), \A e \in S : e < d \/ e = d
      PROVE  Sorted(Append(b, d), S)
  <2>1. Sorted(b, S)
    <3>1. Sorted(b, S \ {d})
      BY <1>1, <1>5
    <3>2. \A k \in 1..Len(b) : b[k] # d
      BY <1>3 DEF Elems
    <3> QED BY <3>1, <3>2 DEF Sorted
  <2>2. \A e \in Elems(b) \cap S : d \notin S \/ e < d
    BY <1>3, <1>5
  <2> QED BY <1>1, <1>3, <2>1, <2>2, Added
<1>6. \A S : Sorted(a, S \ {d}) /\ (\A e \in S : e < d \/ e = d) => Sorted(Append(b, d), S)
  BY <1>5
<1> QED BY <1>2, <1>4, <1>6

\* A modified directory that does not count leaves the others' order alone.
LEMMA TouchedIdle ==
  ASSUME NEW a \in Seq(Hours), Distinct(a), NEW d \in Hours, NEW S, Sorted(a, S), d \notin S
  PROVE  Sorted(Modified(a, d), S)
<1> DEFINE b == Without(a, d)
<1>1. /\ b \in Seq(Hours) /\ Distinct(b) /\ Elems(b) = Elems(a) \ {d} /\ Sorted(b, S)
  BY WithoutOne
<1>2. Modified(a, d) = Append(b, d)
  BY DEF Modified
<1> HIDE DEF b
<1> QED BY <1>1, <1>2, Added

\* The first one, if it counts, comes before all others that do.
LEMMA OldestIs ==
  ASSUME NEW a \in Seq(Hours), a # <<>>
  PROVE  /\ Head(a) \in Elems(a) /\ Head(a) \in Hours
         /\ \A S : Sorted(a, S) /\ Head(a) \in S =>
              \A e \in Elems(a) \cap S : e = Head(a) \/ Head(a) < e
<1>1. Len(a) \in Nat /\ Len(a) > 0 /\ Head(a) = a[1] /\ 1 \in 1..Len(a) /\ a[1] \in Hours
  BY HeadTailProperties
<1>2. ASSUME NEW S, Sorted(a, S), Head(a) \in S, NEW e \in Elems(a), e \in S
      PROVE  e = Head(a) \/ Head(a) < e
  <2>1. PICK k \in 1..Len(a) : a[k] = e
    BY <1>2 DEF Elems
  <2>2. CASE k = 1
    BY <1>1, <2>1, <2>2
  <2>3. CASE k # 1
    <3>1. 1 < k
      BY <1>1, <2>1, <2>3
    <3> QED BY <1>1, <1>2, <2>1, <3>1 DEF Sorted
  <2> QED BY <2>2, <2>3
<1>3. Head(a) \in Elems(a)
  BY <1>1 DEF Elems
<1>4. \A S : Sorted(a, S) /\ Head(a) \in S =>
         \A e \in Elems(a) \cap S : e = Head(a) \/ Head(a) < e
  BY <1>2
<1> QED BY <1>1, <1>3, <1>4

-----------------------------------------------------------------------------
(* Types *)

\* The directories and the segments in them.
AgeType ==
  /\ age \in Seq(Hours) /\ Distinct(age)
  /\ files \subseteq Segment /\ \A f \in files : Hour(f.t) \in Elems(age)

\* The recorder and the clock.
RecType ==
  /\ upload \in BOOLEAN /\ delete \in BOOLEAN
  /\ now \in Minute /\ ticked \in BOOLEAN
  /\ rec \in {"off", "starting", "on"}
  /\ seg \in Segment \cup {NoSegment}
  /\ nth \in 0..(MaxIncidents + 1)
  /\ deaths \in 0..MaxIncidents /\ calls \in 0..MaxIncidents /\ deletes \in 0..MaxIncidents

\* ftppush.sh.
FtpType ==
  /\ ftp \in {"sleep", "next", "put", "mark", "write", "drop", "tidy"}
  /\ todo \subseteq Segment /\ tidy \subseteq Hours
  /\ cur \in Segment \cup {NoSegment}
  /\ mark \in Minute \cup {Never, Lost} /\ own \in Minute \cup {Never, Lost}
  /\ call \in {"none", "read", "cut", "done"}
  /\ sent \subseteq Segment /\ failed \subseteq Segment
  /\ killed \in BOOLEAN /\ raced \in BOOLEAN

\* The two that remove directories.
RmType ==
  /\ clean \in {"off", "df", "rm", "rmdir"}
  /\ victim \in Hours \cup {NoHour} /\ (clean \in {"rm", "rmdir"} => victim # NoHour)
  /\ web \in Hours \cup {NoHour}
  /\ seen \subseteq Segment
  /\ removed \subseteq Hours

\* The number of a segment in its minute counts the recorder's deaths; no segment is
\* of a minute that is still to come.
SegInv ==
  /\ nth <= deaths + 1
  /\ nth <= deaths \/ (rec = "on" /\ seg.t = now)
  /\ rec = "on" => seg \in Segment /\ seg.t <= now
  /\ \A f \in files : f.t <= now

\* Together they are the type invariant.
LEMMA TypeParts == TypeOK <=> AgeType /\ RecType /\ FtpType /\ RmType
  BY DEF TypeOK, AgeType, RecType, FtpType, RmType, Distinct, Elems, Dirs

\* The numbers behind the types.
LEMMA Numbers ==
  /\ Minute \subseteq Nat /\ 0 \in Minute /\ MaxTime \in Nat
  /\ \A t \in Minute : t <= MaxTime
  /\ \A t \in Nat : t <= MaxTime => t \in Minute
  /\ \A f \in Segment : f.t \in Minute /\ Hour(f.t) \in Hours
  /\ Never = -1 /\ Lost \notin Minute /\ Lost # Never /\ Lost \in Nat
<1>1. /\ Minute \subseteq Nat /\ 0 \in Minute /\ MaxTime \in Nat
      /\ \A t \in Minute : t <= MaxTime
      /\ \A t \in Nat : t <= MaxTime => t \in Minute
      /\ Never = -1 /\ Lost \notin Minute /\ Lost # Never /\ Lost \in Nat
  BY RecordingAssumption DEF Minute, Never, Lost
<1>2. \A f \in Segment : f.t \in Minute
  BY DEF Segment
<1> QED BY <1>1, <1>2, HoursType

\* Within the budget each of the counters can go up by one.
LEMMA WithinBudget ==
  ASSUME RecType, Budget
  PROVE  /\ deaths + 1 \in 0..MaxIncidents /\ calls + 1 \in 0..MaxIncidents
         /\ deletes + 1 \in 0..MaxIncidents
BY RecordingAssumption DEF RecType, Budget

\* Initially.
LEMMA InitTypes == Init => AgeType /\ RecType /\ FtpType /\ RmType /\ SegInv
<1>1. Init => AgeType
  BY DEF Init, AgeType, Distinct
<1>2. Init => RecType
  <2>1. /\ 0 \in Minute /\ 0 \in 0..(MaxIncidents + 1) /\ 0 \in 0..MaxIncidents
        /\ Uploads \subseteq BOOLEAN
    BY Numbers, RecordingAssumption
  <2>2. FALSE \in BOOLEAN
    OBVIOUS
  <2> QED BY <2>1, <2>2, Zenon DEF Init, RecType
<1>3. Init => FtpType
  <2>1. FALSE \in BOOLEAN
    OBVIOUS
  <2> QED BY <2>1, Numbers, Zenon DEF Init, FtpType
<1>4. Init => RmType
  BY DEF Init, RmType
<1>5. Init => SegInv
  BY DEF Init, SegInv
<1> QED BY <1>1, <1>2, <1>3, <1>4, <1>5

\* What wd_record.sh's round makes of the directories.
LEMMA DirsMade ==
  ASSUME AgeType, RecType, WdTick
  PROVE  /\ age' \in Seq(Hours) /\ Distinct(age')
         /\ Elems(age') = Elems(age) \cup {Hour(now), Hour(now + HourLen)}
         /\ \A S : Sorted(age, S) /\ S \subseteq Elems(age) => Sorted(age', S)
<1> DEFINE a == MkDir(age, Hour(now))
           b == MkDir(a, Hour(now + HourLen))
           c == MkDir(b, Hour(now))
<1>1. Hour(now) \in Hours /\ Hour(now + HourLen) \in Hours
  BY HoursType DEF RecType
<1>2. /\ a \in Seq(Hours) /\ Distinct(a) /\ Elems(a) = Elems(age) \cup {Hour(now)}
      /\ \A S : Sorted(age, S) /\ S \subseteq Elems(age) => Sorted(a, S)
  BY <1>1, Made DEF AgeType
<1>3. /\ b \in Seq(Hours) /\ Distinct(b) /\ Elems(b) = Elems(a) \cup {Hour(now + HourLen)}
      /\ \A S : Sorted(a, S) /\ S \subseteq Elems(a) => Sorted(b, S)
  <2> HIDE DEF a
  <2> QED BY <1>1, <1>2, Made
<1>4. /\ c \in Seq(Hours) /\ Distinct(c) /\ Elems(c) = Elems(b) \cup {Hour(now)}
      /\ \A S : Sorted(b, S) /\ S \subseteq Elems(b) => Sorted(c, S)
  <2> HIDE DEF b
  <2> QED BY <1>1, <1>3, Made
<1>5. age' = b \/ age' = c
  BY DEF WdTick, CheckRecord
<1> HIDE DEF a, b, c
<1>6. /\ Elems(b) = Elems(age) \cup {Hour(now), Hour(now + HourLen)}
      /\ \A S : Sorted(age, S) /\ S \subseteq Elems(age) => Sorted(b, S)
  BY <1>2, <1>3
<1>7. /\ Elems(c) = Elems(age) \cup {Hour(now), Hour(now + HourLen)}
      /\ \A S : Sorted(age, S) /\ S \subseteq Elems(age) => Sorted(c, S)
  BY <1>4, <1>6
<1> QED BY <1>3, <1>4, <1>5, <1>6, <1>7

\* A new segment has a number that is counted.
LEMMA SegmentOpened ==
  ASSUME RecType, SegInv, OpenSegment, Hour(now) \in Dirs
  PROVE  /\ rec' = "on" /\ seg' \in Segment /\ seg'.t = now
         /\ nth' = nth + 1 /\ nth <= deaths /\ nth' \in 0..(MaxIncidents + 1)
         /\ files' = files \cup {seg'}
<1>1. /\ rec' = "on" /\ nth' = nth + 1 /\ seg' = [t |-> now, n |-> nth + 1]
      /\ files' = files \cup {seg'}
      /\ rec = "starting" \/ (rec = "on" /\ seg.t < now)
  BY DEF OpenSegment
<1>2. now \in Nat /\ nth \in Nat /\ deaths \in Nat /\ deaths <= MaxIncidents /\ MaxIncidents \in Nat
  BY Numbers, RecordingAssumption DEF RecType
<1>3. nth <= deaths
  <2>1. rec # "on" \/ seg.t # now
    <3>1. rec = "on" => seg.t \in Nat
      BY Numbers DEF SegInv
    <3> QED BY <1>1, <1>2, <3>1
  <2> QED BY <2>1 DEF SegInv
<1>4. nth + 1 \in 1..(MaxIncidents + 1)
  BY <1>2, <1>3
<1>5. seg' \in Segment
  BY <1>1, <1>4 DEF Segment, RecType
<1> QED BY <1>1, <1>2, <1>3, <1>4, <1>5

\* rm takes the entries of a directory.
LEMMA EntriesGone ==
  ASSUME AgeType, NEW d \in Hours, RmEntries(d)
  PROVE  /\ AgeType' /\ Elems(age') = Elems(age) /\ files' \subseteq files
         /\ \A f \in files' : Hour(f.t) # d
         /\ \A S : Sorted(age, S) => Sorted(age', S \ {d})
<1>1. files' = files \ In(d) /\ age' = IF In(d) = {} THEN age ELSE Modified(age, d)
  BY DEF RmEntries
<1>2. files' \subseteq files /\ \A f \in files' : Hour(f.t) # d
  BY <1>1 DEF In
<1>3. \A S : Sorted(age, S) => Sorted(age, S \ {d})
  BY DEF Sorted
<1>4. CASE In(d) = {}
  <2>1. age' = age
    BY <1>1, <1>4
  <2> QED BY <1>2, <1>3, <2>1 DEF AgeType
<1>5. CASE In(d) # {}
  <2>1. age' = Modified(age, d) /\ d \in Elems(age)
    BY <1>1, <1>5 DEF In, AgeType
  <2>2. /\ age' \in Seq(Hours) /\ Distinct(age') /\ Elems(age') = Elems(age) \cup {d}
        /\ \A S : Sorted(age, S \ {d}) => Sorted(age', S \ {d})
    BY <2>1, Touched, TouchedIdle DEF AgeType
  <2> QED BY <1>2, <1>3, <2>1, <2>2 DEF AgeType
<1> QED BY <1>4, <1>5

\* rm takes the directory, if it is empty.
LEMMA DirGone ==
  ASSUME AgeType, NEW d \in Hours, RmDir(d), files' = files
  PROVE  /\ AgeType'
         /\ Elems(age) \cup removed \subseteq Elems(age') \cup removed'
         /\ removed' = removed \/ removed' = removed \cup {d}
         /\ \A S : Sorted(age, S) => Sorted(age', S)
<1>1. CASE In(d) = {}
  <2>1. age' = Without(age, d) /\ removed' = removed \cup {d}
    BY <1>1 DEF RmDir
  <2>2. \A f \in files : Hour(f.t) # d
    BY <1>1 DEF In
  <2>3. /\ age' \in Seq(Hours) /\ Distinct(age') /\ Elems(age') = Elems(age) \ {d}
        /\ \A S : Sorted(age, S) => Sorted(age', S)
    BY <2>1, WithoutOne DEF AgeType
  <2> QED BY <2>1, <2>2, <2>3 DEF AgeType
<1>2. CASE In(d) # {}
  BY <1>2 DEF RmDir, AgeType
<1> QED BY <1>1, <1>2

\* A single file goes.
LEMMA FileGone ==
  ASSUME AgeType, NEW f \in files, files' = files \ {f}, age' = Modified(age, Hour(f.t))
  PROVE  AgeType' /\ Elems(age') = Elems(age)
<1> DEFINE d == Hour(f.t)
<1>1. d \in Hours /\ d \in Elems(age) /\ age' = Modified(age, d)
  BY Numbers DEF AgeType
<1> HIDE DEF d
<1>2. /\ age' \in Seq(Hours) /\ Distinct(age')
      /\ Elems(age') = Elems(age) \cup {d}
  <2>1. age \in Seq(Hours) /\ Distinct(age) /\ d \in Hours
    BY <1>1 DEF AgeType
  <2> QED BY <1>1, <2>1, Touched
<1> QED BY <1>1, <1>2 DEF AgeType

\* Every step keeps the directories' types.
LEMMA AgeStep ==
  ASSUME AgeType, RecType, FtpType, RmType, SegInv, [Next]_vars
  PROVE  AgeType'
<1>1. CASE WdTick
  BY <1>1, DirsMade DEF AgeType, WdTick
<1>2. CASE OpenSegment
  <2>1. CASE Hour(now) \in Dirs
    <3>1. /\ Hour(now) \in Hours /\ age' = Modified(age, Hour(now))
          /\ files' = files \cup {seg'} /\ seg' = [t |-> now, n |-> nth + 1]
      BY <1>2, <2>1, HoursType DEF RecType, OpenSegment
    <3>2. seg' \in Segment
      BY <1>2, <2>1, SegmentOpened
    <3>3. Hour(seg'.t) = Hour(now)
      BY <3>1
    <3> HIDE DEF Hour
    <3> QED BY <3>1, <3>2, <3>3, Touched DEF AgeType
  <2>2. CASE Hour(now) \notin Dirs
    BY <1>2, <2>2 DEF AgeType, OpenSegment
  <2> QED BY <2>1, <2>2
<1>3. CASE FtpDrop
  <2>1. CASE delete /\ cur \in files
    BY <1>3, <2>1, FileGone DEF FtpDrop
  <2>2. CASE ~(delete /\ cur \in files)
    BY <1>3, <2>2 DEF AgeType, FtpDrop
  <2> QED BY <2>1, <2>2
<1>4. ASSUME NEW d \in tidy, FtpTidy(d)
      PROVE  AgeType'
  <2>1. CASE In(d) = {}
    <3>1. d \in Hours /\ age' = Without(age, d) /\ files' = files
      BY <1>4, <2>1 DEF FtpType, FtpTidy
    <3>2. \A f \in files : Hour(f.t) # d
      BY <2>1 DEF In
    <3> QED BY <3>1, <3>2, WithoutOne DEF AgeType
  <2>2. CASE In(d) # {}
    BY <1>4, <2>2 DEF AgeType, FtpTidy
  <2> QED BY <2>1, <2>2
<1>5. CASE CleanUnlink
  BY <1>5, EntriesGone DEF CleanUnlink, RmType
<1>6. CASE CleanRmdir
  BY <1>6, DirGone DEF CleanRmdir, RmType
<1>7. ASSUME NEW f \in files, WebDelete(f)
      PROVE  AgeType'
  BY <1>7, FileGone DEF WebDelete
<1>8. ASSUME NEW d \in Dirs, WebUnlink(d)
      PROVE  AgeType'
  <2>1. d \in Hours
    BY DEF Dirs, AgeType
  <2> QED BY <1>8, <2>1, EntriesGone DEF WebUnlink
<1>9. CASE WebRmdir
  BY <1>9, DirGone DEF WebRmdir, RmType
<1>10. CASE UNCHANGED <<age, files>>
  BY <1>10 DEF AgeType
<1>11. \/ UNCHANGED <<age, files>> \/ WdTick \/ OpenSegment \/ FtpDrop
       \/ (\E d \in tidy : FtpTidy(d)) \/ CleanUnlink \/ CleanRmdir \/ Web
  BY DEF Next, Record, Ftp, Call, Clean, vars, MinutePasses, RecorderDies, rest, FtpList,
         FtpNext, FtpPut, FtpMark, FtpWrite, FtpListDirs, FtpSleep, CallRead, CallCut,
         CallWrite, CallRefused, FtpKill, callRest, CleanPick, CleanEnd
<1> QED BY <1>1, <1>2, <1>3, <1>4, <1>5, <1>6, <1>7, <1>8, <1>9, <1>10, <1>11 DEF Web

\* Every step keeps the recorder's.
LEMMA RecStep ==
  ASSUME AgeType, RecType, SegInv, [Next]_vars
  PROVE  RecType' /\ SegInv'
<1> USE Numbers, RecordingAssumption
<1>1. CASE MinutePasses
  <2>1. /\ now \in Nat /\ now' = now + 1 /\ now + 1 \in Minute /\ ticked' = FALSE /\ nth' = 0
        /\ UNCHANGED <<upload, delete, rec, seg, files, deaths, calls, deletes>>
    BY <1>1 DEF MinutePasses, RecType, conf, bounds
  <2>2. RecType'
    <3>1. 0 \in 0..(MaxIncidents + 1) /\ FALSE \in BOOLEAN
      OBVIOUS
    <3>2. now' \in Minute
      BY <2>1
    <3> QED BY <2>1, <3>1, <3>2, Zenon DEF RecType
  <2>3. \A f \in files : f.t \in Nat
    BY DEF AgeType
  <2>4. rec = "on" => seg.t \in Nat
    BY DEF SegInv
  <2> QED BY <2>1, <2>2, <2>3, <2>4 DEF SegInv, RecType
<1>2. CASE WdTick
  BY <1>2 DEF WdTick, CheckRecord, RecType, SegInv, rest, conf, bounds
<1>3. CASE OpenSegment
  <2>1. CASE Hour(now) \in Dirs
    <3>1. UNCHANGED <<conf, now, ticked, bounds>>
      BY <1>3 DEF OpenSegment, rest
    <3> QED BY <1>3, <2>1, <3>1, SegmentOpened DEF RecType, SegInv, AgeType, conf, bounds
  <2>2. CASE Hour(now) \notin Dirs
    <3>1. nth <= deaths
      <4>1. rec = "on" => seg.t \in Nat
        BY DEF SegInv
      <4> QED BY <1>3, <4>1 DEF OpenSegment, RecType, SegInv
    <3> QED BY <1>3, <2>2, <3>1 DEF OpenSegment, RecType, SegInv, rest, conf, bounds
  <2> QED BY <2>1, <2>2
<1>4. CASE RecorderDies
  BY <1>4, WithinBudget DEF RecorderDies, RecType, SegInv, rest, conf
<1>5. ASSUME UNCHANGED <<conf, now, ticked, recVars, deaths>>, files' \subseteq files,
             calls' \in 0..MaxIncidents, deletes' \in 0..MaxIncidents
      PROVE  RecType' /\ SegInv'
  BY <1>5 DEF RecType, SegInv, conf, recVars
<1>6. CASE CallRead
  BY <1>5, <1>6, WithinBudget DEF CallRead, callRest, ftpRest, RecType
<1>7. ASSUME NEW f \in files, WebDelete(f)
      PROVE  RecType' /\ SegInv'
  BY <1>5, <1>7, WithinBudget DEF WebDelete, webRest, RecType
<1>8. ASSUME NEW d \in Dirs, WebUnlink(d)
      PROVE  RecType' /\ SegInv'
  <2>1. d \in Hours
    BY DEF Dirs, AgeType
  <2>2. files' \subseteq files
    BY <1>8, <2>1, EntriesGone DEF WebUnlink
  <2> QED BY <1>5, <1>8, <2>2, WithinBudget DEF WebUnlink, webRest, RecType
<1>9. CASE UNCHANGED <<conf, now, ticked, recVars, bounds>> /\ files' \subseteq files
  BY <1>5, <1>9 DEF RecType, bounds
<1>10. \/ MinutePasses \/ Record \/ CallRead \/ (\E f \in files : WebDelete(f))
       \/ (\E d \in Dirs : WebUnlink(d))
       \/ UNCHANGED <<conf, now, ticked, recVars, bounds>> /\ files' \subseteq files
  BY DEF Next, Ftp, Call, Clean, Web, vars, FtpList, FtpNext, FtpPut, FtpMark, FtpWrite,
         FtpDrop, FtpListDirs, FtpTidy, FtpSleep, CallCut, CallWrite, CallRefused, FtpKill,
         CleanPick, CleanUnlink, CleanRmdir, CleanEnd, WebRmdir, RmEntries,
         callRest, ftpRest, cleanRest, webRest, bounds
<1> QED BY <1>1, <1>2, <1>3, <1>4, <1>6, <1>7, <1>8, <1>9, <1>10 DEF Record

\* ftppush.sh handles segments: it has one in hand from the list to its deletion.
InHand == ftp \in {"put", "mark", "write", "drop"} => cur \in Segment

\* Every step keeps the types of ftppush.sh.
LEMMA FtpStep ==
  ASSUME AgeType, FtpType, InHand, [Next]_vars
  PROVE  FtpType' /\ InHand'
<1> USE Numbers
<1>1. CASE FtpList
  BY <1>1 DEF FtpList, FtpType, InHand, AgeType, callVars
<1>2. ASSUME NEW f \in todo, FtpNext(f)
      PROVE  FtpType' /\ InHand'
  BY <1>2 DEF FtpNext, FtpType, InHand, callVars
<1>3. ASSUME NEW ok \in BOOLEAN, FtpPut(ok)
      PROVE  FtpType' /\ InHand'
  BY <1>3 DEF FtpPut, FtpType, InHand, callVars
<1>4. CASE FtpMark \/ FtpWrite
  BY <1>4 DEF FtpMark, FtpWrite, FtpType, InHand, callVars
<1>5. CASE FtpDrop
  BY <1>5 DEF FtpDrop, FtpType, InHand, callVars
<1>6. CASE FtpListDirs
  <2>1. Dirs \subseteq Hours
    BY DEF Dirs, AgeType
  <2> QED BY <1>6, <2>1 DEF FtpListDirs, FtpType, InHand, callVars
<1>7. ASSUME NEW d \in tidy, FtpTidy(d)
      PROVE  FtpType' /\ InHand'
  BY <1>7 DEF FtpTidy, FtpType, InHand, callVars
<1>8. CASE FtpSleep
  BY <1>8 DEF FtpSleep, FtpType, InHand, callVars
<1>9. CASE CallRead \/ CallCut \/ CallWrite \/ CallRefused
  BY <1>9 DEF CallRead, CallCut, CallWrite, CallRefused, callRest, FtpType, InHand
<1>10. CASE FtpKill
  BY <1>10 DEF FtpKill, FtpType, InHand
<1>11. CASE UNCHANGED ftpVars
  BY <1>11 DEF FtpType, InHand, ftpVars
<1>12. UNCHANGED ftpVars \/ Ftp \/ Call
  BY DEF Next, Record, Clean, Web, vars, MinutePasses, WdTick, OpenSegment, RecorderDies,
         CleanPick, CleanUnlink, CleanRmdir, CleanEnd, WebDelete, WebUnlink, WebRmdir,
         rest, cleanRest, webRest
<1> QED BY <1>1, <1>2, <1>3, <1>4, <1>5, <1>6, <1>7, <1>8, <1>9, <1>10, <1>11, <1>12
        DEF Ftp, Call

\* Every step keeps the types of those that remove directories.
LEMMA RmStep ==
  ASSUME AgeType, RmType, [Next]_vars
  PROVE  RmType'
<1>1. CASE MinutePasses
  BY <1>1 DEF MinutePasses, RmType
<1>2. CASE CleanPick
  <2>1. Head(age) \in Hours /\ Head(age) # NoHour /\ In(Head(age)) \subseteq Segment
    <3>1. Head(age) \in Hours
      BY <1>2, OldestIs DEF CleanPick, AgeType
    <3> QED BY <3>1 DEF Hours, NoHour, In, AgeType
  <2> QED BY <1>2, <2>1 DEF CleanPick, RmType, cleanRest
<1>3. CASE CleanUnlink \/ CleanEnd
  BY <1>3 DEF CleanUnlink, CleanEnd, RmType, cleanRest
<1>4. CASE CleanRmdir
  <2>1. victim \in Hours
    BY <1>4 DEF CleanRmdir, RmType
  <2>2. removed' \subseteq Hours
    BY <1>4, <2>1, DirGone DEF CleanRmdir, RmType
  <2> QED BY <1>4, <2>2 DEF CleanRmdir, RmType, cleanRest
<1>5. ASSUME NEW d \in Dirs, WebUnlink(d)
      PROVE  RmType'
  <2>1. d \in Hours
    BY DEF Dirs, AgeType
  <2> QED BY <1>5, <2>1 DEF WebUnlink, RmType, webRest, cleanVars
<1>6. CASE WebRmdir
  <2>1. web \in Hours
    BY <1>6 DEF WebRmdir, RmType
  <2>2. removed' \subseteq Hours
    BY <1>6, <2>1, DirGone DEF WebRmdir, RmType
  <2> QED BY <1>6, <2>2 DEF WebRmdir, RmType, webRest, cleanVars
<1>7. CASE UNCHANGED <<cleanVars, web, removed>>
  BY <1>7 DEF RmType, cleanVars
<1>8. \/ UNCHANGED <<cleanVars, web, removed>> \/ MinutePasses \/ Clean
      \/ (\E d \in Dirs : WebUnlink(d)) \/ WebRmdir
  BY DEF Next, Record, Ftp, Call, Web, vars, WdTick, OpenSegment, RecorderDies, FtpList,
         FtpNext, FtpPut, FtpMark, FtpWrite, FtpDrop, FtpListDirs, FtpTidy, FtpSleep,
         CallRead, CallCut, CallWrite, CallRefused, FtpKill, WebDelete, rest, ftpRest, webRest
<1> QED BY <1>1, <1>2, <1>3, <1>4, <1>5, <1>6, <1>7, <1>8 DEF Clean

\* The type invariant of the recorder and of the scripts.
TypeInv == AgeType /\ RecType /\ FtpType /\ RmType /\ SegInv /\ InHand

\* It holds initially.
LEMMA InitTypeInv == Init => TypeInv
<1>1. Init => InHand
  BY DEF Init, InHand
<1> QED BY <1>1, InitTypes DEF TypeInv

\* It is inductive.
LEMMA NextTypeInv == TypeInv /\ [Next]_vars => TypeInv'
<1> SUFFICES ASSUME TypeInv, [Next]_vars PROVE TypeInv'
  OBVIOUS
<1>1. AgeType' /\ RecType' /\ SegInv' /\ FtpType' /\ RmType' /\ InHand'
  BY AgeStep, RecStep, FtpStep, RmStep DEF TypeInv
<1> QED BY <1>1 DEF TypeInv

-----------------------------------------------------------------------------
(* Uploads *)

\* The watermark, once what is being written to its file is there: what the service
\* writes, or what another call has read and writes back.
Watermark == IF ftp = "write" THEN cur.t ELSE IF call = "cut" THEN own ELSE mark

\* While only one of them is at it the file holds the watermark or nothing, and what
\* another call has read is what the file held.
MarkInv ==
  ~raced =>
    /\ ftp = "write" \/ call = "cut" => mark = Lost
    /\ ftp = "write" /\ call \in {"read", "cut"} => own = Lost
    /\ call = "read" => own = mark

\* f has been sent, its upload has failed, or the watermark has passed it.
Known(f) == f \in sent \cup failed \/ f.t <= Watermark

\* What is to be sent is not of the future, and what is being sent is newer than the
\* watermark.
ListInv ==
  /\ \A f \in todo : f.t <= now
  /\ ftp \in {"put", "mark", "write"} => cur.t <= now
  /\ ftp \in {"mark", "write"} => cur \in sent
  /\ ~raced /\ ftp \in {"put", "mark"} => Watermark < cur.t

\* Without a kill the watermark has passed whatever was sent, but for the segment it
\* is about to be set to.
SentPassed ==
  ~killed /\ ~raced => \A f \in sent : f.t <= Watermark \/ (ftp = "mark" /\ f = cur)

\* A segment older than one still to be sent is still to be sent itself, or in hand,
\* or known; and what the watermark has passed was sent, or has failed, or is of a
\* minute of which a segment was sent.
NoneSkipped ==
  ~raced /\ Watermark # Lost =>
    /\ Watermark <= now
    /\ Watermark \in Minute => \E g \in sent : g.t = Watermark
    /\ \A f \in files, g \in todo :
         f.t < g.t => f \in todo \/ Known(f) \/ (ftp = "put" /\ f = cur)
    /\ ftp \in {"put", "mark"} => \A f \in files : f.t < cur.t => Known(f)
    /\ \A f \in files :
         f.t <= Watermark => f \in sent \cup failed \/ \E g \in sent : g.t = f.t

\* What is known of the uploads.
UploadInv == MarkInv /\ ListInv /\ SentPassed /\ NoneSkipped

\* Nothing is to be sent at first.
LEMMA InitUploadInv == Init => UploadInv
<1> SUFFICES ASSUME Init PROVE UploadInv
  OBVIOUS
<1>1. Watermark = Never /\ Never = -1 /\ Never \notin Minute
  BY Numbers DEF Init, Watermark
<1> QED BY <1>1 DEF Init, UploadInv, MarkInv, ListInv, SentPassed, NoneSkipped

\* The minutes in what ftppush.sh compares.
LEMMA MinutesOf ==
  ASSUME TypeInv
  PROVE  /\ now \in Nat /\ (\A f \in todo \cup files \cup sent : f.t \in Nat)
         /\ (ftp \in {"put", "mark", "write"} => cur.t \in Nat /\ cur.t \in Minute)
         /\ Watermark \in Int /\ (\A t \in Minute : t # Lost /\ t < Lost)
<1>1. now \in Nat
  BY Numbers DEF TypeInv, RecType
<1>2. \A f \in todo \cup files \cup sent : f.t \in Nat
  <2>1. todo \cup files \cup sent \subseteq Segment
    BY DEF TypeInv, FtpType, AgeType
  <2> QED BY <2>1, Numbers
<1>3. ftp \in {"put", "mark", "write"} => cur.t \in Nat /\ cur.t \in Minute
  <2>1. ftp \in {"put", "mark", "write"} => cur \in Segment
    BY DEF TypeInv, InHand
  <2> QED BY <2>1, Numbers
<1>4. mark \in Int /\ own \in Int
  BY Numbers DEF TypeInv, FtpType
<1>5. Watermark \in Int
  BY <1>3, <1>4 DEF Watermark
<1>6. \A t \in Minute : t # Lost /\ t < Lost
  BY Numbers DEF Lost
<1> QED BY <1>1, <1>2, <1>3, <1>5, <1>6

\* The watermark depends on nothing else.
LEMMA WatermarkStays ==
  ASSUME ftp' = ftp \/ (ftp # "write" /\ ftp' # "write"),
         ftp = "write" => cur' = cur, UNCHANGED <<call, own, mark>>
  PROVE  Watermark' = Watermark
  BY DEF Watermark

\* Steps that leave ftppush.sh alone and make no segment.
LEMMA UploadStays ==
  ASSUME TypeInv, UploadInv, UNCHANGED ftpVars, files' \subseteq files,
         now' \in Nat, now <= now'
  PROVE  UploadInv'
<1>1. now \in Nat /\ (\A f \in todo : f.t \in Nat)
      /\ (ftp \in {"put", "mark", "write"} => cur.t \in Nat)
      /\ Watermark \in Int
  BY MinutesOf
<1>2. Watermark' = Watermark
  BY WatermarkStays DEF ftpVars
<1>3. MarkInv' /\ ListInv' /\ SentPassed'
  BY <1>1, <1>2 DEF UploadInv, MarkInv, ListInv, SentPassed, ftpVars
<1>4. NoneSkipped'
  BY <1>1, <1>2 DEF UploadInv, NoneSkipped, Known, ftpVars
<1> QED BY <1>3, <1>4 DEF UploadInv

\* A new segment is of this minute, which the watermark has not passed.
LEMMA UploadOpened ==
  ASSUME TypeInv, UploadInv, OpenSegment, Hour(now) \in Dirs
  PROVE  UploadInv'
<1>1. /\ UNCHANGED <<now, ftpVars>>
      /\ files' = files \cup {seg'} /\ seg'.t = now /\ seg' \in Segment
  BY SegmentOpened DEF OpenSegment, rest, TypeInv
<1>2. now \in Nat /\ (\A f \in todo : f.t \in Nat)
      /\ (ftp \in {"put", "mark", "write"} => cur.t \in Nat)
      /\ Watermark \in Int
  BY MinutesOf
<1>3. Watermark' = Watermark
  BY <1>1, WatermarkStays DEF ftpVars
<1>4. MarkInv' /\ ListInv' /\ SentPassed'
  BY <1>1, <1>3 DEF UploadInv, MarkInv, ListInv, SentPassed, ftpVars
<1>5. ASSUME ~raced, Watermark # Lost, seg'.t <= Watermark
      PROVE  \E g \in sent : g.t = seg'.t
  <2>1. Watermark = now /\ Watermark \in Minute
    BY <1>1, <1>2, <1>5 DEF UploadInv, NoneSkipped, TypeInv, RecType
  <2> QED BY <1>1, <1>5, <2>1 DEF UploadInv, NoneSkipped
<1>6. NoneSkipped'
  <2>1. \A g \in todo : ~(seg'.t < g.t)
    BY <1>1, <1>2 DEF UploadInv, ListInv
  <2>2. ftp \in {"put", "mark"} => ~(seg'.t < cur.t)
    BY <1>1, <1>2 DEF UploadInv, ListInv
  <2> QED BY <1>1, <1>3, <1>5, <2>1, <2>2 DEF UploadInv, NoneSkipped, Known, ftpVars
<1> QED BY <1>4, <1>6 DEF UploadInv

\* The steps of ftppush.sh.
LEMMA UploadStep ==
  ASSUME TypeInv, UploadInv, Ftp
  PROVE  UploadInv'
<1>0. /\ now \in Nat /\ (\A f \in todo \cup files \cup sent : f.t \in Nat)
      /\ (ftp \in {"put", "mark", "write"} => cur.t \in Nat /\ cur.t \in Minute)
      /\ Watermark \in Int /\ (\A t \in Minute : t # Lost /\ t < Lost)
  BY MinutesOf
<1>1. CASE FtpList
  <2>1. /\ UNCHANGED <<now, killed, raced, mark, call, own, sent, failed, files, cur>>
        /\ ftp' = "next" /\ todo' = files /\ ftp = "sleep"
    BY <1>1 DEF FtpList, ftpRest, callVars
  <2>2. Watermark' = Watermark
    BY <2>1, WatermarkStays
  <2>3. MarkInv' /\ ListInv' /\ SentPassed'
    BY <2>1, <2>2 DEF UploadInv, MarkInv, ListInv, SentPassed, TypeInv, SegInv
  <2>4. NoneSkipped'
    BY <2>1, <2>2 DEF UploadInv, NoneSkipped, Known
  <2> QED BY <2>3, <2>4 DEF UploadInv
<1>2. ASSUME NEW h \in todo, FtpNext(h)
      PROVE  UploadInv'
  <2>1. /\ UNCHANGED <<now, killed, mark, call, own, sent, failed, files>>
        /\ ftp = "next" /\ todo' = todo \ {h} /\ raced' = (raced \/ mark = Lost)
        /\ \A g \in todo : h.t <= g.t
    BY <1>0, <1>2 DEF FtpNext, ftpRest, callVars
  <2>2. ~raced' => ~raced /\ mark # Lost /\ Watermark = mark
    BY <2>1 DEF UploadInv, MarkInv, Watermark
  <2>3. \/ mark < h.t /\ ftp' = "put" /\ cur' = h
        \/ ~(h.t > mark) /\ ftp' = "next" /\ cur' = cur
    BY <1>2, <2>1 DEF FtpNext
  <2>4. Watermark' = Watermark
    BY <2>1, <2>3, WatermarkStays
  <2>5. ~raced' => \/ Watermark < h.t /\ ftp' = "put" /\ cur' = h
                   \/ h.t <= Watermark /\ ftp' = "next" /\ cur' = cur
    BY <1>0, <2>2, <2>3
  <2>6. MarkInv' /\ ListInv'
    <3>1. MarkInv'
      BY <2>1, <2>3 DEF UploadInv, MarkInv
    <3>2. h.t <= now
      BY DEF UploadInv, ListInv
    <3> QED BY <2>1, <2>2, <2>3, <2>4, <2>5, <3>1, <3>2 DEF UploadInv, ListInv
  <2>7. SentPassed'
    BY <2>1, <2>2, <2>4 DEF UploadInv, SentPassed
  <2>8. NoneSkipped'
    <3>1. ASSUME ~raced', Watermark' # Lost, ftp' \in {"put", "mark"},
                 NEW f \in files', f.t < cur'.t
          PROVE  Known(f)'
      <4>1. f \in files /\ f.t < h.t /\ ~raced /\ Watermark # Lost /\ ftp # "put"
        BY <2>1, <2>2, <2>3, <2>4, <3>1
      <4>2. f \notin todo
        BY <1>0, <2>1, <4>1
      <4>3. Known(f)
        BY <4>1, <4>2 DEF UploadInv, NoneSkipped
      <4> QED BY <2>1, <2>4, <4>3 DEF Known
    <3>2. ASSUME ~raced', Watermark' # Lost, NEW f \in files', NEW g \in todo', f.t < g.t
          PROVE  f \in todo' \/ Known(f)' \/ (ftp' = "put" /\ f = cur')
      <4>1. f \in files /\ g \in todo /\ ~raced /\ Watermark # Lost /\ ftp # "put"
        BY <2>1, <2>2, <2>4, <3>2
      <4>2. f \in todo \/ Known(f)
        BY <3>2, <4>1 DEF UploadInv, NoneSkipped
      <4>3. CASE f = h
        BY <2>4, <2>5, <3>2, <4>3 DEF Known
      <4>4. CASE f # h
        BY <2>1, <2>4, <4>2, <4>4 DEF Known
      <4> QED BY <4>3, <4>4
    <3> QED BY <2>1, <2>2, <2>4, <3>1, <3>2 DEF UploadInv, NoneSkipped
  <2> QED BY <2>6, <2>7, <2>8 DEF UploadInv
<1>3. ASSUME NEW ok \in BOOLEAN, FtpPut(ok)
      PROVE  UploadInv'
  <2>1. /\ UNCHANGED <<now, killed, raced, mark, call, own, files, todo, cur>>
        /\ ftp = "put"
        /\ \/ ftp' = "mark" /\ sent' = sent \cup {cur} /\ failed' = failed
           \/ ftp' = "next" /\ sent' = sent /\ failed' = failed \cup {cur}
    BY <1>3 DEF FtpPut, ftpRest, callVars
  <2>2. Watermark' = Watermark
    BY <2>1, WatermarkStays
  <2>3. MarkInv' /\ ListInv' /\ SentPassed'
    BY <2>1, <2>2 DEF UploadInv, MarkInv, ListInv, SentPassed
  <2>4. NoneSkipped'
    BY <2>1, <2>2 DEF UploadInv, NoneSkipped, Known
  <2> QED BY <2>3, <2>4 DEF UploadInv
<1>4. CASE FtpMark
  <2>1. /\ UNCHANGED <<now, killed, call, own, sent, failed, files, todo, cur>>
        /\ ftp = "mark" /\ ftp' = "write" /\ mark' = Lost
        /\ raced' = (raced \/ call # "none")
    BY <1>4 DEF FtpMark, ftpRest, callVars
  <2>2. Watermark' = cur.t /\ cur.t # Lost
    BY <1>0, <2>1 DEF Watermark
  <2>3. cur \in sent /\ cur.t <= now /\ cur.t \in Nat
        /\ (~raced => Watermark < cur.t /\ Watermark # Lost)
    BY <1>0, <2>1 DEF UploadInv, ListInv
  <2>4. MarkInv' /\ ListInv'
    BY <2>1, <2>2, <2>3 DEF UploadInv, MarkInv, ListInv
  <2>5. SentPassed'
    <3>1. ASSUME ~killed, ~raced, NEW f \in sent
          PROVE  f.t <= cur.t
      <4>1. f.t <= Watermark \/ f = cur
        BY <3>1 DEF UploadInv, SentPassed
      <4>2. f.t \in Nat /\ Watermark < cur.t
        BY <1>0, <2>3, <3>1
      <4> QED BY <1>0, <2>3, <4>1, <4>2
    <3> QED BY <2>1, <2>2, <3>1 DEF SentPassed
  <2>6. ~raced => \A f \in files : Known(f) => Known(f)'
    BY <1>0, <2>1, <2>2, <2>3 DEF Known
  <2>7. NoneSkipped'
    <3>1. ASSUME ~raced, NEW f \in files', NEW g \in todo', f.t < g.t
          PROVE  f \in todo' \/ Known(f)' \/ (ftp' = "put" /\ f = cur')
      BY <2>1, <2>2, <2>3, <2>6, <3>1 DEF UploadInv, NoneSkipped
    <3>2. ASSUME ~raced, NEW f \in files, f.t <= cur.t
          PROVE  f \in sent \cup failed \/ \E g \in sent : g.t = f.t
      <4>1. CASE f.t < cur.t
        <5>1. Known(f)
          BY <2>1, <2>3, <3>2, <4>1 DEF UploadInv, NoneSkipped
        <5> QED BY <2>3, <3>2, <5>1 DEF Known, UploadInv, NoneSkipped
      <4>2. CASE f.t = cur.t
        BY <2>3, <4>2
      <4> QED BY <1>0, <2>1, <3>2, <4>1, <4>2
    <3> QED BY <2>1, <2>2, <2>3, <3>1, <3>2 DEF NoneSkipped
  <2> QED BY <2>4, <2>5, <2>7 DEF UploadInv
<1>5. CASE FtpWrite
  <2>1. /\ UNCHANGED <<now, killed, call, own, sent, failed, files, todo, cur>>
        /\ ftp = "write" /\ ftp' = "drop" /\ mark' = cur.t
        /\ raced' = (raced \/ call # "none")
    BY <1>5 DEF FtpWrite, ftpRest, callVars
  <2>2. ~raced' => Watermark' = Watermark /\ call = "none" /\ ~raced
    BY <2>1 DEF Watermark
  <2>3. MarkInv' /\ ListInv' /\ SentPassed'
    BY <2>1, <2>2 DEF UploadInv, MarkInv, ListInv, SentPassed
  <2>4. NoneSkipped'
    BY <2>1, <2>2 DEF UploadInv, NoneSkipped, Known
  <2> QED BY <2>3, <2>4 DEF UploadInv
<1>6. CASE FtpDrop \/ FtpListDirs \/ FtpSleep \/ \E d \in tidy : FtpTidy(d)
  <2>1. /\ UNCHANGED <<now, killed, raced, mark, call, own, sent, failed, todo>>
        /\ files' \subseteq files
        /\ ftp \notin {"put", "mark", "write"} /\ ftp' \notin {"put", "mark", "write"}
    BY <1>6 DEF FtpDrop, FtpListDirs, FtpSleep, FtpTidy, ftpRest, callVars
  <2>2. Watermark' = Watermark
    BY <2>1, WatermarkStays
  <2>3. MarkInv' /\ ListInv' /\ SentPassed'
    BY <2>1, <2>2 DEF UploadInv, MarkInv, ListInv, SentPassed
  <2>4. NoneSkipped'
    BY <2>1, <2>2 DEF UploadInv, NoneSkipped, Known
  <2> QED BY <2>3, <2>4 DEF UploadInv
<1> QED BY <1>1, <1>2, <1>3, <1>4, <1>5, <1>6 DEF Ftp

\* The steps of another call: what it writes back is the watermark, or they have met.
LEMMA UploadCall ==
  ASSUME TypeInv, UploadInv, Call
  PROVE  UploadInv'
<1>1. CASE CallRead \/ CallCut \/ CallWrite \/ CallRefused
  <2>1. UNCHANGED <<now, ftp, todo, cur, sent, failed, killed, raced, files>>
    BY <1>1 DEF CallRead, CallCut, CallWrite, CallRefused, callRest, ftpRest
  <2>2. MarkInv' /\ (~raced => Watermark' = Watermark)
    <3>1. CASE CallRead
      BY <2>1, <3>1 DEF CallRead, UploadInv, MarkInv, Watermark
    <3>2. CASE CallCut
      BY <2>1, <3>2 DEF CallCut, UploadInv, MarkInv, Watermark
    <3>3. CASE CallWrite
      BY <2>1, <3>3 DEF CallWrite, UploadInv, MarkInv, Watermark
    <3>4. CASE CallRefused
      BY <2>1, <3>4 DEF CallRefused, UploadInv, MarkInv, Watermark
    <3> QED BY <1>1, <3>1, <3>2, <3>3, <3>4
  <2>3. ListInv' /\ SentPassed'
    BY <2>1, <2>2 DEF UploadInv, ListInv, SentPassed
  <2>4. NoneSkipped'
    BY <2>1, <2>2 DEF UploadInv, NoneSkipped, Known
  <2> QED BY <2>2, <2>3, <2>4 DEF UploadInv
<1>2. CASE FtpKill
  <2>1. /\ UNCHANGED <<now, mark, sent, failed, raced, files>> /\ killed' = TRUE
        /\ todo' = {} /\ ftp' = "sleep" /\ call = "done" /\ call' = "none"
    BY <1>2 DEF FtpKill, ftpRest
  <2>2. Watermark' = mark /\ (Watermark = mark \/ ftp = "write")
    BY <2>1 DEF Watermark
  <2>3. ~raced => Watermark' = Watermark \/ Watermark' = Lost
    BY <2>2 DEF UploadInv, MarkInv
  <2>4. MarkInv' /\ ListInv' /\ SentPassed'
    BY <2>1 DEF UploadInv, MarkInv, ListInv, SentPassed
  <2>5. NoneSkipped'
    BY <2>1, <2>3 DEF UploadInv, NoneSkipped
  <2> QED BY <2>4, <2>5 DEF UploadInv
<1> QED BY <1>1, <1>2 DEF Call

\* Every step.
LEMMA NextUploadInv == TypeInv /\ UploadInv /\ [Next]_vars => UploadInv'
<1> SUFFICES ASSUME TypeInv, UploadInv, [Next]_vars PROVE UploadInv'
  OBVIOUS
<1>1. CASE Ftp
  BY <1>1, UploadStep
<1>2. CASE Call
  BY <1>2, UploadCall
<1>3. CASE OpenSegment /\ Hour(now) \in Dirs
  BY <1>3, UploadOpened
<1>4. CASE UNCHANGED ftpVars /\ files' \subseteq files /\ (now' = now \/ now' = now + 1)
  <2>1. now' \in Nat /\ now <= now'
    BY <1>4, Numbers DEF TypeInv, RecType
  <2> QED BY <1>4, <2>1, UploadStays
<1>5. \/ Ftp \/ Call
      \/ OpenSegment /\ Hour(now) \in Dirs
      \/ UNCHANGED ftpVars /\ files' \subseteq files /\ (now' = now \/ now' = now + 1)
  BY DEF Next, Record, Clean, Web, vars, MinutePasses, WdTick, OpenSegment, RecorderDies,
         CleanPick, CleanUnlink, CleanRmdir, CleanEnd, WebDelete, WebUnlink, WebRmdir,
         RmEntries, rest, cleanRest, webRest
<1> QED BY <1>1, <1>2, <1>3, <1>4, <1>5
-----------------------------------------------------------------------------
(* The turn of the hour *)

\* Without uploads whatever wd_record.sh has made for this hour and the next one is
\* there or was removed by rm, and so is the recorder's.
Ready ==
  ~upload =>
    /\ ftp = "sleep"
    /\ rec = "on" => Hour(now) \in Elems(age) \cup removed
    /\ ticked => {Hour(now), Hour(now + HourLen)} \subseteq Elems(age) \cup removed

\* The recorder is off at first.
LEMMA InitReady == Init => Ready
  BY DEF Init, Ready

\* Only rm takes directories away; a minute leads to this hour or the next.
LEMMA NextReady == TypeInv /\ Ready /\ [Next]_vars => Ready'
<1> SUFFICES ASSUME TypeInv, Ready, [Next]_vars, ~upload' PROVE Ready'
  BY DEF Ready
<1>0. ~upload /\ ftp = "sleep" /\ ftp' = "sleep" /\ ~Ftp
  <2>1. UNCHANGED conf
    BY DEF Next, Record, Ftp, Call, Clean, Web, vars, MinutePasses, WdTick, OpenSegment,
           RecorderDies, FtpList, FtpNext, FtpPut, FtpMark, FtpWrite, FtpDrop, FtpListDirs,
           FtpTidy, FtpSleep, CallRead, CallCut, CallWrite, CallRefused, FtpKill, CleanPick,
           CleanUnlink, CleanRmdir, CleanEnd, WebDelete, WebUnlink, WebRmdir,
           rest, ftpRest, cleanRest, webRest
  <2>2. ~upload /\ ftp = "sleep"
    BY <2>1 DEF conf, Ready
  <2>3. ~Ftp
    BY <2>2 DEF Ftp, FtpList, FtpNext, FtpPut, FtpMark, FtpWrite, FtpDrop, FtpListDirs,
                FtpTidy, FtpSleep
  <2>4. ftp' = "sleep"
    BY <2>2, <2>3
    DEF Next, Record, Call, Clean, Web, vars, ftpVars, MinutePasses, WdTick, OpenSegment,
        RecorderDies, CallRead, CallCut, CallWrite, CallRefused, FtpKill, callRest, CleanPick,
        CleanUnlink, CleanRmdir, CleanEnd, WebDelete, WebUnlink, WebRmdir,
        rest, cleanRest, webRest
  <2> QED BY <2>2, <2>3, <2>4
<1>1. CASE MinutePasses
  <2>1. /\ now' = now + 1 /\ now \in Nat /\ ticked /\ ticked' = FALSE
        /\ UNCHANGED <<age, rec, removed>>
    BY <1>1, MinutesOf DEF MinutePasses
  <2>2. Hour(now') \in {Hour(now), Hour(now + HourLen)}
    BY <2>1, HourAfter
  <2> HIDE DEF Hour
  <2> QED BY <1>0, <2>1, <2>2 DEF Ready
<1>2. CASE WdTick
  <2>1. Elems(age') = Elems(age) \cup {Hour(now), Hour(now + HourLen)}
    BY <1>2, DirsMade DEF TypeInv
  <2>2. UNCHANGED <<now, removed>>
    BY <1>2 DEF WdTick, rest
  <2>3. rec' = "on" => rec = "on"
    BY <1>2 DEF WdTick, CheckRecord
  <2> QED BY <1>0, <2>1, <2>2, <2>3 DEF Ready
<1>3. CASE OpenSegment
  <2>1. UNCHANGED <<now, removed, ticked>>
    BY <1>3 DEF OpenSegment, rest
  <2>2. CASE Hour(now) \in Dirs
    <3>1. Elems(age') = Elems(age) \cup {Hour(now)} /\ Hour(now) \in Elems(age)
      <4>1. age' = Modified(age, Hour(now)) /\ Hour(now) \in Hours
        BY <1>3, <2>2, HoursType DEF OpenSegment, TypeInv, RecType
      <4>2. age \in Seq(Hours) /\ Distinct(age) /\ Hour(now) \in Elems(age)
        BY <2>2 DEF TypeInv, AgeType, Dirs, Elems
      <4> QED BY <4>1, <4>2, Touched
    <3> QED BY <1>0, <2>1, <3>1 DEF Ready
  <2>3. CASE Hour(now) \notin Dirs
    BY <1>0, <1>3, <2>1, <2>3 DEF Ready, OpenSegment
  <2> QED BY <2>2, <2>3
<1>4. CASE RecorderDies
  BY <1>0, <1>4 DEF RecorderDies, rest, Ready
<1>5. ASSUME UNCHANGED <<now, ticked, rec>>,
             Elems(age) \cup removed \subseteq Elems(age') \cup removed'
      PROVE  Ready'
  BY <1>0, <1>5 DEF Ready
<1>6. CASE CleanUnlink
  <2>1. Elems(age') = Elems(age)
    BY <1>6, EntriesGone DEF CleanUnlink, TypeInv, RmType
  <2> QED BY <1>5, <1>6, <2>1 DEF CleanUnlink, cleanRest, recVars
<1>7. CASE CleanRmdir
  <2>1. Elems(age) \cup removed \subseteq Elems(age') \cup removed'
    BY <1>7, DirGone DEF CleanRmdir, TypeInv, RmType
  <2> QED BY <1>5, <1>7, <2>1 DEF CleanRmdir, cleanRest, recVars
<1>8. ASSUME NEW f \in files, WebDelete(f)
      PROVE  Ready'
  <2>1. Elems(age') = Elems(age)
    BY <1>8, FileGone DEF WebDelete, TypeInv
  <2> QED BY <1>5, <1>8, <2>1 DEF WebDelete, webRest, recVars
<1>9. ASSUME NEW d \in Dirs, WebUnlink(d)
      PROVE  Ready'
  <2>1. d \in Hours
    BY DEF Dirs, TypeInv, AgeType
  <2>2. Elems(age') = Elems(age)
    BY <1>9, <2>1, EntriesGone DEF WebUnlink, TypeInv
  <2> QED BY <1>5, <1>9, <2>2 DEF WebUnlink, webRest, recVars
<1>10. CASE WebRmdir
  <2>1. Elems(age) \cup removed \subseteq Elems(age') \cup removed'
    BY <1>10, DirGone DEF WebRmdir, TypeInv, RmType
  <2> QED BY <1>5, <1>10, <2>1 DEF WebRmdir, webRest, recVars
<1>11. CASE Call \/ CleanPick \/ CleanEnd \/ UNCHANGED vars
  <2>1. UNCHANGED <<now, ticked, rec, age, removed>>
    BY <1>11 DEF Call, CallRead, CallCut, CallWrite, CallRefused, FtpKill, callRest, ftpRest,
                 CleanPick, CleanEnd, cleanRest, recVars, vars
  <2> QED BY <1>5, <2>1
<1> QED BY <1>0, <1>1, <1>2, <1>3, <1>4, <1>6, <1>7, <1>8, <1>9, <1>10, <1>11
        DEF Next, Record, Clean, Web

-----------------------------------------------------------------------------
(* The order in which directories are removed *)

\* The hours that have recordings.
Busy == {d \in Hours : In(d) # {}}

\* As long as neither ftppush.sh nor the events page delete anything the directories
\* with recordings lie in the order of their hours.
AgeSorted == ~delete /\ deletes = 0 => Sorted(age, Busy)

\* What ls saw is of the directory that is to go, and not newer than anything there is.
SeenOldest ==
  /\ \A f \in seen : clean = "rm" /\ Hour(f.t) = victim /\ f.t <= now
  /\ ~delete /\ deletes = 0 => \A f \in seen, g \in files : Hour(f.t) <= Hour(g.t)

\* A recording is of an hour that has a directory, and not of one to come.
LEMMA BusyDirs ==
  ASSUME TypeInv
  PROVE  /\ Busy \subseteq Elems(age)
         /\ \A d \in Busy : d <= Hour(now)
         /\ \A f \in files : Hour(f.t) \in Busy
<1>1. \A f \in files : f.t \in Nat /\ f.t <= now /\ Hour(f.t) \in Hours
  BY MinutesOf, Numbers DEF TypeInv, SegInv, AgeType
<1>2. now \in Nat
  BY MinutesOf
<1>3. \A f \in files : Hour(f.t) <= Hour(now)
  BY <1>1, <1>2, HourMonotone
<1> HIDE DEF Hour
<1> QED BY <1>1, <1>3 DEF Busy, In, TypeInv, AgeType

\* The fewer directories count, the easier they are in order.
LEMMA SortedFewer ==
  ASSUME NEW a, NEW S, NEW R, R \subseteq S, Sorted(a, S)
  PROVE  Sorted(a, R)
  BY DEF Sorted

\* As long as the two delete nothing there are few steps that change the files, their
\* directories or what the cleaner is about.
LEMMA Kept ==
  ASSUME TypeInv, [Next]_vars, ~delete', deletes' = 0
  PROVE  /\ ~delete /\ deletes = 0
         /\ \/ UNCHANGED <<age, files>>
            \/ WdTick \/ (OpenSegment /\ Hour(now) \in Dirs)
            \/ (\E d \in tidy : FtpTidy(d)) \/ CleanUnlink \/ CleanRmdir \/ WebRmdir
         /\ \/ UNCHANGED <<cleanVars, files>>
            \/ MinutePasses \/ (OpenSegment /\ Hour(now) \in Dirs) \/ Clean
<1>1. deletes \in Nat
  BY RecordingAssumption DEF TypeInv, RecType
<1>2. ~Web \/ WebRmdir
  BY <1>1 DEF Web, WebDelete, WebUnlink
<1>3. UNCHANGED <<conf, deletes>>
  BY <1>2
  DEF Next, Record, Ftp, Call, Clean, vars, MinutePasses, WdTick, OpenSegment,
      RecorderDies, FtpList, FtpNext, FtpPut, FtpMark, FtpWrite, FtpDrop, FtpListDirs,
      FtpTidy, FtpSleep, CallRead, CallCut, CallWrite, CallRefused, FtpKill, callRest,
      CleanPick, CleanUnlink, CleanRmdir, CleanEnd, WebRmdir,
      rest, ftpRest, cleanRest, webRest, bounds
<1>4. ~delete /\ deletes = 0
  BY <1>3 DEF conf
<1>5. \/ UNCHANGED <<age, files>>
      \/ WdTick \/ (OpenSegment /\ Hour(now) \in Dirs)
      \/ (\E d \in tidy : FtpTidy(d)) \/ CleanUnlink \/ CleanRmdir \/ WebRmdir
  BY <1>2, <1>4
  DEF Next, Record, Ftp, Call, Clean, vars, MinutePasses, OpenSegment, RecorderDies, rest,
      FtpList, FtpNext, FtpPut, FtpMark, FtpWrite, FtpDrop, FtpListDirs, FtpSleep, CallRead,
      CallCut, CallWrite, CallRefused, FtpKill, callRest, CleanPick, CleanEnd
<1>6. \/ UNCHANGED <<cleanVars, files>>
      \/ MinutePasses \/ (OpenSegment /\ Hour(now) \in Dirs) \/ Clean
  BY <1>2, <1>4
  DEF Next, Record, Ftp, Call, vars, WdTick, OpenSegment, RecorderDies, rest, FtpList, FtpNext,
      FtpPut, FtpMark, FtpWrite, FtpDrop, FtpListDirs, FtpTidy, FtpSleep, CallRead, CallCut,
      CallWrite, CallRefused, FtpKill, callRest, ftpRest, WebRmdir, webRest
<1> QED BY <1>4, <1>5, <1>6

\* The newest recordings are of this hour, whose directory becomes the last one.
LEMMA NextAgeSorted == TypeInv /\ TypeInv' /\ AgeSorted /\ [Next]_vars => AgeSorted'
<1> SUFFICES ASSUME TypeInv, TypeInv', AgeSorted, [Next]_vars, ~delete', deletes' = 0
             PROVE  Sorted(age', Busy')
  BY DEF AgeSorted
<1>1. Sorted(age, Busy) /\ age \in Seq(Hours) /\ Distinct(age)
  BY Kept DEF AgeSorted, TypeInv, AgeType
<1>2. files' \subseteq files => Busy' \subseteq Busy
  BY DEF Busy, In
<1>3. CASE WdTick
  <2>1. files' \subseteq files
    BY <1>3 DEF WdTick
  <2>2. Sorted(age', Busy)
    BY <1>1, <1>3, DirsMade, BusyDirs DEF TypeInv
  <2> QED BY <1>2, <2>1, <2>2, SortedFewer
<1>4. CASE OpenSegment /\ Hour(now) \in Dirs
  <2>1. /\ age' = Modified(age, Hour(now)) /\ files' = files \cup {seg'} /\ now' = now
        /\ Hour(now) \in Hours /\ Hour(now) \in Int
    BY <1>4, HoursType, HourOf, MinutesOf DEF OpenSegment, rest, TypeInv, RecType
  <2>2. Hour(seg'.t) = Hour(now)
    BY <1>4, SegmentOpened DEF TypeInv
  <2> HIDE DEF Hour
  <2>3. Busy' \ {Hour(now)} \subseteq Busy
    BY <2>1, <2>2 DEF Busy, In
  <2>4. Sorted(age, Busy' \ {Hour(now)})
    BY <1>1, <2>3, SortedFewer
  <2>5. \A e \in Busy' : e < Hour(now) \/ e = Hour(now)
    <3>1. \A e \in Busy' : e <= Hour(now) /\ e \in Int
      <4>1. \A e \in Busy : e <= Hour(now)
        BY BusyDirs
      <4>2. Busy' \subseteq Hours /\ Hours \subseteq Int
        BY DEF Busy, Hours
      <4> QED BY <2>1, <2>3, <4>1, <4>2
    <3> QED BY <2>1, <3>1
  <2> QED BY <1>1, <2>1, <2>4, <2>5, Touched
<1>5. ASSUME NEW d \in tidy, FtpTidy(d)
      PROVE  Sorted(age', Busy')
  <2>1. files' \subseteq files /\ d \in Hours /\ (age' = age \/ age' = Without(age, d))
    BY <1>5 DEF FtpTidy, TypeInv, FtpType
  <2>2. Sorted(age', Busy)
    BY <1>1, <2>1, WithoutOne
  <2> QED BY <1>2, <2>1, <2>2, SortedFewer
<1>6. CASE CleanUnlink
  <2>1. RmEntries(victim) /\ victim \in Hours
    BY <1>6 DEF CleanUnlink, TypeInv, RmType
  <2>2. Sorted(age', Busy \ {victim})
    BY <1>1, <2>1, EntriesGone DEF TypeInv
  <2>3. Busy' \subseteq Busy \ {victim}
    BY <2>1 DEF RmEntries, Busy, In
  <2> QED BY <2>2, <2>3, SortedFewer
<1>7. CASE CleanRmdir \/ WebRmdir
  <2>1. PICK d \in Hours : RmDir(d) /\ files' = files
    BY <1>7 DEF CleanRmdir, WebRmdir, TypeInv, RmType
  <2>2. Sorted(age', Busy)
    BY <1>1, <2>1, DirGone DEF TypeInv
  <2> QED BY <1>2, <2>1, <2>2, SortedFewer
<1>8. CASE UNCHANGED <<age, files>>
  BY <1>1, <1>8 DEF Busy, In
<1> QED BY <1>3, <1>4, <1>5, <1>6, <1>7, <1>8, Kept

\* What ls saw stays the oldest: a new segment is of this hour.
LEMMA NextSeenOldest == TypeInv /\ TypeInv' /\ AgeSorted /\ SeenOldest /\ [Next]_vars => SeenOldest'
<1> SUFFICES ASSUME TypeInv, TypeInv', AgeSorted, SeenOldest, [Next]_vars
             PROVE  SeenOldest'
  OBVIOUS
<1>0. now \in Nat /\ \A f \in seen \cup files : f.t \in Nat /\ Hour(f.t) \in Nat
  <2>1. seen \cup files \subseteq Segment
    BY DEF TypeInv, RmType, AgeType
  <2> QED BY <2>1, MinutesOf, Numbers, HourOf
<1>1. \A f \in seen' : clean' = "rm" /\ Hour(f.t) = victim' /\ f.t <= now'
  <2>1. CASE CleanPick
    <3>1. clean' = "rm" /\ victim' = Head(age) /\ seen' = In(Head(age)) /\ now' = now
      BY <2>1 DEF CleanPick, cleanRest
    <3> QED BY <3>1 DEF In, TypeInv, SegInv
  <2>2. CASE CleanUnlink \/ CleanRmdir \/ CleanEnd
    BY <2>2 DEF CleanUnlink, CleanRmdir, CleanEnd, SeenOldest
  <2>3. CASE MinutePasses
    <3>1. UNCHANGED <<seen, victim>> /\ now' = now + 1 /\ (clean = "rm" => clean' = "rm")
      BY <2>3 DEF MinutePasses
    <3>2. ASSUME NEW f \in seen PROVE f.t <= now + 1
      BY <1>0 DEF SeenOldest
    <3> QED BY <3>1, <3>2 DEF SeenOldest
  <2>4. CASE UNCHANGED <<cleanVars, now>>
    BY <2>4 DEF cleanVars, SeenOldest
  <2>5. UNCHANGED <<cleanVars, now>> \/ MinutePasses \/ Clean
    BY DEF Next, Record, Ftp, Call, Web, vars, WdTick, OpenSegment, RecorderDies, FtpList,
           FtpNext, FtpPut, FtpMark, FtpWrite, FtpDrop, FtpListDirs, FtpTidy, FtpSleep,
           CallRead, CallCut, CallWrite, CallRefused, FtpKill, WebDelete, WebUnlink, WebRmdir,
           rest, ftpRest, webRest
  <2> QED BY <2>1, <2>2, <2>3, <2>4, <2>5 DEF Clean
<1>2. ASSUME ~delete', deletes' = 0, NEW f \in seen', NEW g \in files'
      PROVE  Hour(f.t) <= Hour(g.t)
  <2>0. ~delete /\ deletes = 0
    BY <1>2, Kept
  <2>1. CASE CleanPick
    <3>1. age # <<>> /\ seen' = In(Head(age)) /\ files' = files
      BY <2>1 DEF CleanPick
    <3>2. f \in files /\ Hour(f.t) = Head(age) /\ Hour(f.t) \in Busy
      BY <1>2, <3>1, BusyDirs DEF In
    <3>3. Hour(g.t) \in Busy /\ Hour(g.t) \in Elems(age)
      BY <1>2, <3>1, BusyDirs
    <3>4. Sorted(age, Busy) /\ age \in Seq(Hours)
      BY <2>0 DEF AgeSorted, TypeInv, AgeType
    <3>5. Hour(g.t) = Head(age) \/ Head(age) < Hour(g.t)
      BY <3>1, <3>2, <3>3, <3>4, OldestIs
    <3>6. Hour(f.t) \in Nat /\ Hour(g.t) \in Nat
      BY <1>0, <1>2, <3>1, <3>2
    <3> QED BY <3>2, <3>5, <3>6
  <2>2. CASE CleanUnlink
    BY <1>2, <2>2 DEF CleanUnlink
  <2>3. CASE OpenSegment /\ Hour(now) \in Dirs
    <3>1. f \in seen
      BY <1>2, <2>3 DEF OpenSegment, rest, cleanVars
    <3>2. CASE g \in files
      BY <2>0, <3>1, <3>2 DEF SeenOldest
    <3>3. CASE g = seg'
      <4>1. g.t = now /\ f.t <= now /\ f.t \in Nat
        BY <1>0, <2>3, <3>1, <3>3, SegmentOpened DEF TypeInv, SeenOldest
      <4> QED BY <1>0, <4>1, HourMonotone
    <3> QED BY <1>2, <2>3, <3>2, <3>3, SegmentOpened DEF TypeInv
  <2>4. CASE files' = files /\ seen' = seen
    BY <1>2, <2>0, <2>4 DEF SeenOldest
  <2>5. \/ files' = files /\ seen' = seen
        \/ CleanPick \/ CleanUnlink \/ (OpenSegment /\ Hour(now) \in Dirs)
    BY <1>2, Kept DEF Clean, CleanRmdir, CleanEnd, MinutePasses, cleanVars
  <2> QED BY <2>1, <2>2, <2>3, <2>4, <2>5
<1> QED BY <1>1, <1>2 DEF SeenOldest

-----------------------------------------------------------------------------

\* The inductive invariant.
RecordingInv == TypeInv /\ UploadInv /\ Ready /\ AgeSorted /\ SeenOldest

\* It holds of every behaviour.
LEMMA Invariance == Spec => []RecordingInv
<1>1. Init => RecordingInv
  <2>1. Init => AgeSorted /\ SeenOldest
    BY DEF Init, AgeSorted, Sorted, SeenOldest
  <2> QED BY <2>1, InitTypeInv, InitUploadInv, InitReady DEF RecordingInv
<1>2. RecordingInv /\ [Next]_vars => RecordingInv'
  BY NextTypeInv, NextUploadInv, NextReady, NextAgeSorted, NextSeenOldest DEF RecordingInv
<1> QED BY <1>1, <1>2, PTL DEF Spec

\* The recorder, its directories and the scripts keep their types: a segment's number
\* in its minute counts the recorder's deaths, and every segment lies in a directory.
THEOREM TypeCorrect == Spec => []TypeOK
<1>1. RecordingInv => TypeOK
  BY TypeParts DEF RecordingInv, TypeInv
<1> QED BY <1>1, Invariance, PTL

\* At the top of any hour, of any length, the recorder finds its directory, if
\* ftppush.sh is off and no rm has got as far.
THEOREM Rollover == Spec => []RolloverReady
<1>1. RecordingInv => RolloverReady
  BY DEF RecordingInv, Ready, RolloverReady, Dirs, Elems
<1> QED BY <1>1, Invariance, PTL

\* However often the recorder dies, whatever the cleaner and the events page remove
\* and however many calls are refused, ftppush.sh sends no segment twice unless it was
\* killed or a call wrote back a watermark that was being replaced.
THEOREM SentOnce == Spec => []NoDoubleUpload
<1>1. RecordingInv => NoDoubleUpload
  <2> SUFFICES ASSUME RecordingInv, ftp = "put", ~killed, ~raced, cur \in sent PROVE FALSE
    BY DEF NoDoubleUpload
  <2>1. cur.t <= Watermark /\ Watermark < cur.t
    BY DEF RecordingInv, UploadInv, SentPassed, ListInv
  <2>2. cur.t \in Int /\ Watermark \in Int
    BY MinutesOf DEF RecordingInv
  <2> QED BY <2>1, <2>2
<1> QED BY <1>1, Invariance, PTL

\* Through any number of calls and kills that do not meet over the watermark, what the
\* watermark has passed was sent, has failed, or shares its minute with a segment that
\* was sent.
THEOREM NothingSkipped == Spec => []PassedIsKnown
<1>1. RecordingInv => PassedIsKnown
  <2> SUFFICES ASSUME RecordingInv, mark # Lost, ~raced
               PROVE  \A f \in files : f.t <= mark =>
                        f \in sent \cup failed \/ \E g \in sent : g.t = f.t
    BY DEF PassedIsKnown
  <2>1. Watermark = mark
    BY DEF RecordingInv, UploadInv, MarkInv, Watermark
  <2> QED BY <2>1 DEF RecordingInv, UploadInv, NoneSkipped
<1> QED BY <1>1, Invariance, PTL

\* What the cleaner saw in the directory it chose goes only when there is nothing older
\* and nothing else of that hour, as long as ftppush.sh and the events page delete
\* nothing, whatever is opened between ls and rm.
THEOREM OldestGoesFirst == Spec => OldestFirst
<1> DEFINE A == ~delete /\ deletes' = 0 =>
                  \A f \in (seen \cap files) \ files', g \in files' : Hour(f.t) < Hour(g.t)
<1>1. RecordingInv /\ [Next]_vars => A
  <2> SUFFICES ASSUME RecordingInv, [Next]_vars, ~delete, deletes' = 0,
                      NEW f \in seen, f \in files, f \notin files', NEW g \in files'
               PROVE  Hour(f.t) < Hour(g.t)
    OBVIOUS
  <2>1. CASE CleanUnlink
    <3>1. files' = files \ In(victim) /\ Hour(f.t) = victim
      BY <2>1 DEF CleanUnlink, RmEntries, RecordingInv, SeenOldest
    <3>2. g \in files /\ Hour(g.t) # Hour(f.t)
      BY <3>1 DEF In
    <3>3. deletes = 0
      BY <2>1 DEF CleanUnlink, cleanRest, bounds
    <3>4. Hour(f.t) <= Hour(g.t)
      BY <3>2, <3>3 DEF RecordingInv, SeenOldest
    <3>5. Hour(f.t) \in Int /\ Hour(g.t) \in Int
      <4>1. f.t \in Nat /\ g.t \in Nat
        BY <3>2, MinutesOf DEF RecordingInv
      <4> QED BY <4>1, HourOf
    <3> QED BY <3>2, <3>4, <3>5
  <2>2. CASE ~CleanUnlink
    <3>1. deletes \in Nat
      BY RecordingAssumption DEF RecordingInv, TypeInv, RecType
    <3>2. files \subseteq files'
      BY <2>2, <3>1
      DEF Next, Record, Ftp, Call, Clean, Web, vars, MinutePasses, WdTick, OpenSegment,
          RecorderDies, FtpList, FtpNext, FtpPut, FtpMark, FtpWrite, FtpDrop, FtpListDirs,
          FtpTidy, FtpSleep, CallRead, CallCut, CallWrite, CallRefused, FtpKill, callRest,
          CleanPick, CleanRmdir, CleanEnd, WebDelete, WebUnlink, WebRmdir
    <3> QED BY <3>2
  <2> QED BY <2>1, <2>2
<1> HIDE DEF A
<1>2. Spec => [][A]_vars
  <2>1. RecordingInv /\ [Next]_vars => [A]_vars
    BY <1>1
  <2> QED BY <2>1, Invariance, PTL DEF Spec
<1> QED BY <1>2 DEF OldestFirst, A
=============================================================================
