------------------------ MODULE CameraSettingsProofs ------------------------
(***************************************************************************)
(* Proofs about the settings of the camera: for command lines, messages,   *)
(* queues, positions and numbers of calls of any size.                     *)
(***************************************************************************)
EXTENDS CameraSettings, SequenceTheorems, WellFoundedInduction, TLAPS

\* The settings callback_command switches off for each other's sake.
Rules == {"motion_detection"} \cup {Ai[k] : k \in 1..3}

\* s is a sequence; f is a function.
IsSequence(s) == s \in Seq(ToSet(s))
IsFcn(f) == f = [x \in DOMAIN f |-> f[x]]

\* The setting in hand has been looked up in the file.
Handled == at \in {"remove", "create", "write", "publish"}

\* What camera.conf says, or will say once the copy in hand is back.
Current == IF at \in {"remove", "create", "write"} THEN tmp ELSE conf

\* What callback_command may have before it: a setting and, if that switches on a
\* detector, those which go off with it.
TodoList(t) ==
  /\ IsSequence(t)
  /\ \A j \in DOMAIN t : t[j] = <<t[j][1], t[j][2]>>
  /\ \A j \in DOMAIN t : j >= 2 => t[j][1] \in Rules /\ t[j][2] = "no"
  /\ \A k \in 1..3 : t # <<>> /\ t[1][2] = "yes" =>
       /\ t[1][1] = "motion_detection" => \E j \in DOMAIN t : j >= 2 /\ t[j] = <<Ai[k], "no">>
       /\ t[1][1] = Ai[k] => \E j \in DOMAIN t : j >= 2 /\ t[j] = <<"motion_detection", "no">>

\* The queue thread is at a step of callback_command while it has a setting in hand.
TodoShape ==
  /\ TodoList(todo)
  /\ at \in {"down", "idle", "read", "remove", "create", "write", "publish"}
  /\ at \in {"down", "idle"} <=> todo = <<>>

\* A file that is not there, or is being written, has no lines.
FileShape ==
  /\ exists \in BOOLEAN /\ IsFcn(conf) /\ IsFcn(tmp)
  /\ ~exists \/ at \in {"create", "write"} => conf = NoLines
  /\ at = "write" => exists

\* Motion detection and the detector k are both on in the lines c.
Clash(c, k) ==
  /\ {"motion_detection", Ai[k]} \subseteq DOMAIN c
  /\ c["motion_detection"] = "yes" /\ c[Ai[k]] = "yes"

\* Two detectors on together in the file are about to be put apart.
RulesInv ==
  "rules" \notin torn =>
    \A k \in 1..3 : Clash(Current, k) =>
      \E j \in DOMAIN todo : /\ Handled => j >= 2
                             /\ todo[j] \in {<<"motion_detection", "no">>, <<Ai[k], "no">>}

\* No line is lost, whoever rewrites the file, the copy differs from it in the
\* setting in hand alone, and that setting has its value.
FileInv ==
  "conf" \notin torn =>
    /\ at \notin {"create", "write"} => exists /\ DOMAIN conf = Key
    /\ DOMAIN Current = Key
    /\ at = "remove" => \A x \in Key : x # todo[1][1] => tmp[x] = conf[x]
    /\ "rules" \notin torn /\ Handled /\ todo[1][1] \in Key =>
         Current[todo[1][1]] = todo[1][2]

\* The stat topics, and the lines conf2mqtt.sh has in hand, say what the file says.
StatInv ==
  /\ Key \subseteq DOMAIN stat /\ IsFcn(snap)
  /\ ~missed /\ torn \subseteq {"svc"} =>
       \A k \in Key : (Handled => k # todo[1][1]) =>
         /\ stat[k] = Current[k]
         /\ k \in DOMAIN snap => snap[k] = Current[k]

-----------------------------------------------------------------------------
\* A sequence over any set is a sequence.
LEMMA FromSeq ==
  ASSUME NEW S, NEW s \in Seq(S)
  PROVE  IsSequence(s)
<1>1. Len(s) \in Nat /\ DOMAIN s = 1..Len(s) /\ s = [i \in 1..Len(s) |-> s[i]]
  OBVIOUS
<1>2. \A i \in 1..Len(s) : s[i] \in ToSet(s)
  BY <1>1 DEF ToSet
<1>3. s \in [1..Len(s) -> ToSet(s)]
  BY <1>1, <1>2
<1> QED BY <1>1, <1>3 DEF IsSequence

\* Length, domain, head and tail of a sequence.
LEMMA SeqFacts ==
  ASSUME NEW s, IsSequence(s)
  PROVE  /\ Len(s) \in Nat /\ DOMAIN s = 1..Len(s)
         /\ s = <<>> <=> Len(s) = 0
         /\ s # <<>> => /\ IsSequence(Tail(s)) /\ Head(s) = s[1] /\ Len(Tail(s)) = Len(s) - 1
                        /\ \A i \in 1..(Len(s) - 1) : Tail(s)[i] = s[i + 1]
<1>1. s \in Seq(ToSet(s))
  BY DEF IsSequence
<1>2. Len(s) \in Nat /\ DOMAIN s = 1..Len(s) /\ (s = <<>> <=> Len(s) = 0)
  BY <1>1
<1>3. ASSUME s # <<>>
      PROVE  /\ Tail(s) \in Seq(ToSet(s)) /\ Head(s) = s[1] /\ Len(Tail(s)) = Len(s) - 1
             /\ \A i \in 1..(Len(s) - 1) : Tail(s)[i] = s[i + 1]
  BY <1>1, <1>3
<1> QED BY <1>2, <1>3, FromSeq

\* An element is put at the end,
LEMMA AppendFacts ==
  ASSUME NEW s, IsSequence(s), NEW e
  PROVE  /\ IsSequence(Append(s, e)) /\ Len(Append(s, e)) = Len(s) + 1
         /\ Append(s, e)[Len(s) + 1] = e
         /\ \A i \in 1..Len(s) : Append(s, e)[i] = s[i]
<1> DEFINE S == ToSet(s) \cup {e}
<1>1. s \in Seq(S)
  <2>1. s \in Seq(ToSet(s))
    BY DEF IsSequence
  <2>2. s \in [1..Len(s) -> S] /\ Len(s) \in Nat
    BY <2>1
  <2> QED BY <2>2
<1>2. e \in S
  OBVIOUS
<1> HIDE DEF S
<1>3. Append(s, e) \in Seq(S)
  BY <1>1, <1>2
<1>4. Len(s) \in Nat /\ Len(Append(s, e)) = Len(s) + 1
  BY <1>1, <1>2
<1>5. Append(s, e)[Len(s) + 1] = e /\ \A i \in 1..Len(s) : Append(s, e)[i] = s[i]
  BY <1>1, <1>2
<1>6. IsSequence(Append(s, e))
  BY <1>3, FromSeq
<1> QED BY <1>4, <1>5, <1>6

\* taken from the front,
LEMMA TailFacts ==
  ASSUME NEW s, IsSequence(s), s # <<>>
  PROVE  /\ DOMAIN Tail(s) = 1..(Len(s) - 1)
         /\ \A j \in DOMAIN Tail(s) : j + 1 \in DOMAIN s /\ Tail(s)[j] = s[j + 1]
         /\ \A j \in DOMAIN s : j >= 2 => j - 1 \in DOMAIN Tail(s) /\ Tail(s)[j - 1] = s[j]
         /\ 1 \in DOMAIN s
         /\ (Tail(s) = <<>> <=> Len(s) = 1)
<1>1. /\ Len(s) \in Nat /\ DOMAIN s = 1..Len(s) /\ Len(s) # 0 /\ IsSequence(Tail(s))
             /\ Len(Tail(s)) = Len(s) - 1
      /\ \A i \in 1..(Len(s) - 1) : Tail(s)[i] = s[i + 1]
  BY SeqFacts
<1>2. DOMAIN Tail(s) = 1..(Len(s) - 1) /\ (Tail(s) = <<>> <=> Len(Tail(s)) = 0)
  BY <1>1, SeqFacts
<1> QED BY <1>1, <1>2

\* or put before the others.
LEMMA Prepended ==
  ASSUME NEW S, NEW e \in S, NEW s \in Seq(S), NEW t, t = <<e>> \o s
  PROVE  /\ t \in Seq(S) /\ Len(t) = Len(s) + 1 /\ t[1] = e
         /\ Len(s) \in Nat /\ DOMAIN s = 1..Len(s) /\ DOMAIN t = 1..Len(t)
         /\ \A j \in 1..Len(s) : t[j + 1] = s[j]
<1> DEFINE q == <<e>>
<1>1. q \in Seq(S) /\ Len(q) = 1 /\ q[1] = e
  OBVIOUS
<1>2. Len(s) \in Nat /\ DOMAIN s = 1..Len(s)
  OBVIOUS
<1>3. t = q \o s
  OBVIOUS
<1> HIDE DEF q
<1>4. t \in Seq(S)
  BY <1>1, <1>3, ConcatProperties
<1>5. Len(t) = 1 + Len(s)
  BY <1>1, <1>3, ConcatProperties
<1>6. \A i \in 1..(Len(q) + Len(s)) : t[i] = IF i <= Len(q) THEN q[i] ELSE s[i - Len(q)]
  BY <1>1, <1>3, ConcatProperties
<1>7. t[1] = e
  BY <1>1, <1>2, <1>6
<1>8. \A j \in 1..Len(s) : t[j + 1] = s[j]
  <2> TAKE j \in 1..Len(s)
  <2>1. j + 1 \in 1..(1 + Len(s)) /\ ~(j + 1 <= 1) /\ j + 1 - 1 = j
    BY <1>2
  <2> QED BY <1>1, <1>6, <2>1
<1>9. DOMAIN t = 1..Len(t)
  BY <1>4
<1> QED BY <1>2, <1>4, <1>5, <1>7, <1>8, <1>9

\* A setting, and those that go off with it, are such a list.
LEMMA Received ==
  ASSUME NEW p, p = <<p[1], p[2]>>, NEW t, t = <<p>> \o FollowUps(p)
  PROVE  TodoList(t) /\ t # <<>> /\ t[1] = p
<1> DEFINE f == FollowUps(p)
           S == {p} \cup {<<r, "no">> : r \in Rules}
<1>0. DOMAIN Ai = 1..3 /\ \A k \in 1..3 : Ai[k] \in Rules /\ Ai[k] # "motion_detection"
  BY DEF Ai, Rules
<1>1. /\ f \in Seq(S) 
      /\ \A j \in DOMAIN f : \E r \in Rules : f[j] = <<r, "no">>
      /\ p[1] = "motion_detection" /\ p[2] = "yes" => Len(f) = 3 /\ \A k \in 1..3 :
             f[k] = <<Ai[k], "no">>
      /\ \A k \in 1..3 : p[1] = Ai[k] /\ p[2] = "yes" => Len(f) = 1
             /\ f[1] = <<"motion_detection", "no">>
  <2>0. "motion_detection" \in Rules
    BY DEF Rules
  <2>1. CASE p[1] = "motion_detection" /\ p[2] = "yes"
    <3>1. f = [k \in 1..3 |-> <<Ai[k], "no">>]
      BY <2>1 DEF FollowUps
    <3>2. \A k \in 1..3 : <<Ai[k], "no">> \in S
      BY <1>0
    <3> HIDE DEF f, S
    <3>3. f \in [1..3 -> S]
      BY <3>1, <3>2
    <3>4. f \in Seq(S) /\ Len(f) = 3 /\ DOMAIN f = 1..3
      <4>1. f \in UNION {[1..n -> S] : n \in Nat}
        BY <3>3, 3 \in Nat, Zenon
      <4>3. f \in Seq(S)
        BY <4>1, SeqDef
      <4>2. DOMAIN f = 1..3
        BY <3>3
      <4> QED BY <4>3, <4>2
    <3> QED BY <3>1, <3>4, <1>0, <2>1
  <2>2. CASE ~(p[1] = "motion_detection" /\ p[2] = "yes") /\ p[1] \in {Ai[k] : k \in 1..3}
                 /\ p[2] = "yes"
    <3>1. f = <<<<"motion_detection", "no">>>>
      BY <2>2 DEF FollowUps
    <3>2. <<"motion_detection", "no">> \in S
      BY <2>0
    <3> HIDE DEF f, S
    <3> QED BY <3>1, <3>2, <2>0, <2>2
  <2>3. CASE ~(p[1] = "motion_detection" /\ p[2] = "yes")
                 /\ ~(p[1] \in {Ai[k] : k \in 1..3} /\ p[2] = "yes")
    <3>1. f = <<>>
      BY <2>3 DEF FollowUps
    <3> HIDE DEF f, S
    <3> QED BY <3>1, <2>3
  <2> QED BY <2>1, <2>2, <2>3
<1>2. p \in S /\ t = <<p>> \o f
  OBVIOUS
<1>10. f \in Seq(S)
  BY <1>1
<1> HIDE DEF f, S
<1>3. /\ t \in Seq(S) /\ Len(t) = Len(f) + 1 /\ t[1] = p /\ Len(f) \in Nat
             /\ DOMAIN f = 1..Len(f) /\ DOMAIN t = 1..Len(t)
      /\ \A j \in 1..Len(f) : t[j + 1] = f[j]
  BY ONLY <1>10, <1>2, Prepended
<1>4. \A j \in DOMAIN t : j >= 2 => j - 1 \in DOMAIN f /\ t[j] = f[j - 1]
  BY <1>3
<1>5. IsSequence(t) /\ t # <<>>
  <2>1. IsSequence(t)
    BY <1>3, FromSeq
  <2>2. Len(t) # 0
    BY <1>3
  <2> QED BY <2>1, <2>2, SeqFacts
<1>6. \A j \in DOMAIN t : t[j] = <<t[j][1], t[j][2]>>
  <2> TAKE j \in DOMAIN t
  <2>1. CASE j = 1
    BY <2>1, <1>3
  <2>2. CASE j >= 2
    <3>1. PICK r \in Rules : f[j - 1] = <<r, "no">>
      BY <2>2, <1>1, <1>4
    <3> QED BY <2>2, <3>1, <1>4
  <2> QED BY <2>1, <2>2, <1>3
<1>7. \A j \in DOMAIN t : j >= 2 => t[j][1] \in Rules /\ t[j][2] = "no"
  <2> SUFFICES ASSUME NEW j \in DOMAIN t, j >= 2 PROVE t[j][1] \in Rules /\ t[j][2] = "no"
    OBVIOUS
  <2>1. PICK r \in Rules : f[j - 1] = <<r, "no">>
    BY <1>1, <1>4
  <2> QED BY <2>1, <1>4
<1>8. ASSUME p[1] = "motion_detection" /\ p[2] = "yes", NEW k \in 1..3
      PROVE  \E j \in DOMAIN t : j >= 2 /\ t[j] = <<Ai[k], "no">>
  <2>0. Len(f) = 3 /\ f[k] = <<Ai[k], "no">>
    BY <1>8, <1>1
  <2>1. k + 1 \in DOMAIN t /\ k + 1 >= 2 /\ t[k + 1] = <<Ai[k], "no">>
    BY <2>0, <1>3
  <2> QED BY <2>1
<1>9. ASSUME NEW k \in 1..3, p[1] = Ai[k] /\ p[2] = "yes"
      PROVE  \E j \in DOMAIN t : j >= 2 /\ t[j] = <<"motion_detection", "no">>
  <2>0. Len(f) = 1 /\ f[1] = <<"motion_detection", "no">>
    BY <1>9, <1>1
  <2>1. 2 \in DOMAIN t /\ t[1 + 1] = <<"motion_detection", "no">>
    BY <2>0, <1>3
  <2> QED BY <2>1
<1>11. t[1] = p
  BY <1>3
<1> QED BY <1>5, <1>6, <1>7, <1>8, <1>9, <1>11 DEF TodoList

-----------------------------------------------------------------------------

\* What mqttv4 keeps of camera.conf, its stat topics and its own work.
CoreInv == TodoShape /\ FileShape /\ RulesInv /\ FileInv /\ StatInv

\* At the start the file and the topics are in order.
LEMMA InitCore ==
  ASSUME Init
  PROVE  CoreInv
<1> USE DEF Init, ConfInit
<1>0. Handled <=> FALSE
  BY DEF Handled
<1>1. TodoShape
  <2>1. IsSequence(<<>>)
    BY FromSeq, <<>> \in Seq({})
  <2> QED BY <2>1 DEF TodoShape, TodoList
<1>2. FileShape
  <2>1. IsFcn(tmp)
    BY DEF IsFcn, NoLines
  <2> QED BY <2>1 DEF FileShape, IsFcn
<1>3. Current = conf
  BY DEF Current
<1>4. RulesInv
  <2>1. \A k \in 1..3 : Ai[k] \notin {"motion_detection", "mic"}
    BY DEF Ai
  <2> QED BY <1>3, <2>1 DEF RulesInv, Clash
<1>5. FileInv
  BY <1>0, <1>3 DEF FileInv
<1>6. StatInv
  <2>1. DOMAIN snap = {} /\ IsFcn(snap)
    BY DEF NoLines, IsFcn
  <2> QED BY <1>0, <1>3, <2>1 DEF StatInv, IsFcn
<1> QED BY <1>1, <1>2, <1>4, <1>5, <1>6 DEF CoreInv

\* What callback_command is given when a message is taken.
LEMMA ReceiveList ==
  ASSUME Receive, CoreInv
  PROVE  \/ ~IsCommand(Head(mq)) /\ todo' = todo
         \/ /\ IsCommand(Head(mq)) /\ TodoList(todo)' /\ todo' # <<>>
            /\ todo'[1] = ParamOf(Head(mq))
<1>1. CASE ~IsCommand(Head(mq))
  BY <1>1 DEF Receive
<1>2. CASE IsCommand(Head(mq))
  <2> DEFINE p == ParamOf(Head(mq))
  <2>1. todo' = <<p>> \o FollowUps(p)
    BY <1>2 DEF Receive
  <2>2. p = <<p[1], p[2]>>
    BY DEF ParamOf
  <2> HIDE DEF p
  <2>3. TodoList(todo') /\ todo' # <<>> /\ todo'[1] = p
    BY <2>1, <2>2, Received, Zenon
  <2> QED BY <1>2, <2>3 DEF p
<1> QED BY <1>1, <1>2

\* A command is taken from the queue.
LEMMA ReceiveCore ==
  ASSUME CoreInv, Receive
  PROVE  CoreInv'
<1> USE DEF CoreInv
<1>1. CASE ~IsCommand(Head(mq))
  <2>1. UNCHANGED <<todo, at, exists, conf, tmp, stat, snap, torn, missed>>
    BY <1>1 DEF Receive
  <2> QED BY <2>1 DEF TodoShape, FileShape, RulesInv, FileInv, StatInv, Current, Handled, IsFcn
<1>2. CASE IsCommand(Head(mq))
  <2> DEFINE p == ParamOf(Head(mq))
  <2>1. /\ todo' = <<p>> \o FollowUps(p) /\ at' = "read" /\ at = "idle"
        /\ UNCHANGED <<exists, conf, tmp, stat, snap, torn, missed>>
    BY <1>2 DEF Receive
  <2>2. p = <<p[1], p[2]>>
    BY DEF ParamOf
  <2> HIDE DEF p
  <2>3. TodoShape'
    <3>1. TodoList(todo)' /\ todo' # <<>>
      <4>1. todo' = <<p>> \o FollowUps(p)
        BY <2>1
      <4> QED BY <2>2, <4>1, Received, Zenon
    <3> QED BY <3>1, <2>1 DEF TodoShape
  <2>4. Current' = conf /\ Current = conf /\ (Handled <=> FALSE) /\ (Handled' <=> FALSE)
    BY <2>1 DEF Current, Handled
  <2>5. FileShape'
    BY <2>1 DEF FileShape
  <2>6. RulesInv'
    <3>1. todo = <<>>
      BY <2>1 DEF TodoShape
    <3>2. "rules" \notin torn => \A k \in 1..3 : ~Clash(conf, k)
      BY <2>4, <3>1 DEF RulesInv
    <3>3. \A k : Clash(Current', k) <=> Clash(conf, k)
      BY <2>4 DEF Clash
    <3> QED BY <2>1, <2>4, <3>2, <3>3 DEF RulesInv, Clash
  <2>7. FileInv'
    BY <2>1, <2>4 DEF FileInv
  <2>8. StatInv'
    BY <2>1, <2>4 DEF StatInv, IsFcn
  <2> QED BY <2>3, <2>5, <2>6, <2>7, <2>8
<1> QED BY <1>1, <1>2

\* The changed copy is made, or nothing has to be changed.
LEMMA ReadCore ==
  ASSUME CoreInv, ReplaceRead
  PROVE  CoreInv'
<1> USE DEF CoreInv
<1> DEFINE k == todo[1][1]
           v == todo[1][2]
           same == k \in DOMAIN conf /\ conf[k] = v
<1>1. /\ at = "read" /\ todo # <<>> /\ 1 \in DOMAIN todo
      /\ UNCHANGED <<exists, conf, mq, todo, stat, snap, torn, missed>>
      /\ Current = conf /\ (Handled <=> FALSE) /\ (Handled' <=> TRUE)
  <2>1. at = "read" /\ at' \in {"remove", "publish"}
    BY DEF ReplaceRead
  <2>2. todo # <<>> /\ 1 \in DOMAIN todo
    BY <2>1, TailFacts DEF TodoShape, TodoList
  <2> QED BY <2>1, <2>2 DEF ReplaceRead, Current, Handled
<1>2. TodoShape'
  <2>1. at' \in {"remove", "publish"} /\ todo' = todo
    BY DEF ReplaceRead
  <2>2. TodoList(todo)'
    BY <2>1 DEF TodoShape
  <2> QED BY <1>1, <2>1, <2>2 DEF TodoShape
<1>3. todo[1] = <<k, v>>
  BY <1>1 DEF TodoShape, TodoList
<1>4. CASE ~exists \/ same
  <2>1. at' = "publish" /\ tmp' = tmp
    BY <1>4 DEF ReplaceRead
  <2>2. Current' = conf
    BY <1>1, <2>1 DEF Current
  <2>3. FileShape'
    BY <1>1, <2>1 DEF FileShape
  <2>4. RulesInv'
    <3>1. SUFFICES ASSUME "rules" \notin torn, NEW i \in 1..3, Clash(conf, i)
                   PROVE  \E j \in DOMAIN todo : j >= 2
                              /\ todo[j] \in {<<"motion_detection", "no">>, <<Ai[i], "no">>}
      BY <1>1, <2>1, <2>2 DEF RulesInv, Clash
    <3>2. PICK j \in DOMAIN todo : todo[j] \in {<<"motion_detection", "no">>, <<Ai[i], "no">>}
      BY <1>1, <3>1 DEF RulesInv
    <3>3. j # 1
      <4>1. SUFFICES ASSUME j = 1 PROVE FALSE
        OBVIOUS
      <4>2. same /\ v = "no" /\ k \in {"motion_detection", Ai[i]}
        <5>1. exists
          BY <3>1 DEF FileShape, Clash, NoLines
        <5> HIDE DEF k, v
        <5> QED BY <1>3, <1>4, <3>2, <4>1, <5>1
      <4> QED BY <3>1, <4>2 DEF Clash
    <3>4. j >= 2
      BY <3>3, SeqFacts DEF TodoShape, TodoList
    <3> QED BY <3>2, <3>4
  <2>5. FileInv'
    BY <1>1, <1>4, <2>1, <2>2 DEF FileInv
  <2>6. StatInv'
    BY <1>1, <2>1, <2>2 DEF StatInv, IsFcn
  <2> QED BY <1>2, <2>3, <2>4, <2>5, <2>6
<1>5. CASE exists /\ ~same
  <2>1. at' = "remove" /\ tmp' = IF k \in DOMAIN conf THEN [conf EXCEPT ![k] = v] ELSE conf
    BY <1>5 DEF ReplaceRead, Changed
  <2>2. Current' = tmp'
    BY <1>1, <2>1 DEF Current
  <2>3. /\ IsFcn(tmp)' /\ DOMAIN tmp' = DOMAIN conf
        /\ k \in DOMAIN conf => tmp'[k] = v
        /\ \A x \in DOMAIN conf : x # k => tmp'[x] = conf[x]
    <3>1. IsFcn(conf)
      BY DEF FileShape
    <3> HIDE DEF k, v
    <3> QED BY <2>1, <3>1 DEF IsFcn
  <2>4. FileShape'
    BY <1>1, <1>5, <2>1, <2>3 DEF FileShape, IsFcn
  <2>5. RulesInv'
    <3>1. SUFFICES ASSUME "rules" \notin torn, NEW i \in 1..3, Clash(tmp', i)
                   PROVE  \E j \in DOMAIN todo : j >= 2
                              /\ todo[j] \in {<<"motion_detection", "no">>, <<Ai[i], "no">>}
      BY <1>1, <2>1, <2>2 DEF RulesInv, Clash
    <3>2. CASE k \notin {"motion_detection", Ai[i]} \/ v # "yes"
      <4>1. k \notin {"motion_detection", Ai[i]}
        BY <3>1, <3>2, <2>3 DEF Clash
      <4>2. Clash(conf, i)
        BY <3>1, <4>1, <2>3 DEF Clash
      <4>3. PICK j \in DOMAIN todo : todo[j] \in {<<"motion_detection", "no">>, <<Ai[i], "no">>}
        BY <1>1, <3>1, <4>2 DEF RulesInv
      <4>4. j # 1
        <5> HIDE DEF k, v
        <5> QED BY <1>3, <4>1, <4>3
      <4>5. j >= 2
        BY <4>4, SeqFacts DEF TodoShape, TodoList
      <4> QED BY <4>3, <4>5
    <3>3. CASE k = "motion_detection" /\ v = "yes"
      <4>1. \E j \in DOMAIN todo : j >= 2 /\ todo[j] = <<Ai[i], "no">>
        BY <1>1, <3>3 DEF TodoShape, TodoList
      <4> QED BY <4>1
    <3>4. CASE k = Ai[i] /\ v = "yes"
      <4>1. \E j \in DOMAIN todo : j >= 2 /\ todo[j] = <<"motion_detection", "no">>
        BY <1>1, <3>4 DEF TodoShape, TodoList
      <4> QED BY <4>1
    <3> QED BY <3>2, <3>3, <3>4
  <2>6. FileInv'
    BY <1>1, <1>5, <2>1, <2>2, <2>3 DEF FileInv
  <2>7. StatInv'
    <3>1. "conf" \notin torn => DOMAIN conf = Key
      BY <1>1 DEF FileInv
    <3>2. torn \subseteq {"svc"} => \A x \in Key : x # k => tmp'[x] = conf[x]
      BY <2>3, <3>1
    <3> QED BY <1>1, <2>2, <3>2 DEF StatInv, IsFcn
  <2> QED BY <1>2, <2>4, <2>5, <2>6, <2>7
<1> QED BY <1>4, <1>5 DEF FileShape

\* The file is removed,
LEMMA RemoveCore ==
  ASSUME CoreInv, ReplaceRemove
  PROVE  CoreInv'
<1> USE DEF CoreInv
<1>1. /\ at = "remove" /\ at' = "create" /\ exists' = FALSE /\ conf' = NoLines
      /\ UNCHANGED <<mq, todo, tmp, stat, snap, torn, missed>>
      /\ Current = tmp /\ Current' = tmp /\ (Handled <=> TRUE) /\ (Handled' <=> TRUE)
  BY DEF ReplaceRemove, Current, Handled
<1>2. TodoShape'
  BY <1>1 DEF TodoShape
<1>3. FileShape'
  BY <1>1 DEF FileShape, IsFcn, NoLines
<1>4. RulesInv'
  BY <1>1 DEF RulesInv, Clash
<1>5. FileInv'
  BY <1>1 DEF FileInv
<1>6. StatInv'
  BY <1>1 DEF StatInv, IsFcn
<1> QED BY <1>2, <1>3, <1>4, <1>5, <1>6

\* and the copy is copied back.
LEMMA CopyCore ==
  ASSUME CoreInv, CopyBack
  PROVE  CoreInv'
<1> USE DEF CoreInv
<1>1. /\ at \in {"create", "write"} /\ exists' = TRUE
      /\ at = "create" => at' = "write" /\ conf' = NoLines
      /\ at = "write" => at' = "publish" /\ conf' = tmp
      /\ UNCHANGED <<mq, todo, tmp, stat, snap, torn, missed>>
  BY DEF CopyBack
<1>2. Current = tmp /\ Current' = tmp /\ (Handled <=> TRUE) /\ (Handled' <=> TRUE)
  BY <1>1 DEF Current, Handled
<1>3. TodoShape'
  BY <1>1 DEF TodoShape
<1>4. FileShape'
  BY <1>1 DEF FileShape, IsFcn, NoLines
<1>5. RulesInv'
  BY <1>1, <1>2 DEF RulesInv, Clash
<1>6. FileInv'
  BY <1>1, <1>2 DEF FileInv
<1>7. StatInv'
  BY <1>1, <1>2 DEF StatInv, IsFcn
<1> QED BY <1>3, <1>4, <1>5, <1>6, <1>7

\* The rest of a list is a list in which everything is to go off.
LEMMA TailList ==
  ASSUME NEW t, TodoList(t), t # <<>>
  PROVE  TodoList(Tail(t))
<1>1. IsSequence(t)
  BY DEF TodoList
<1>2. /\ IsSequence(Tail(t))
      /\ \A j \in DOMAIN Tail(t) : j + 1 \in DOMAIN t /\ j + 1 >= 2 /\ Tail(t)[j] = t[j + 1]
      /\ Tail(t) # <<>> => 1 \in DOMAIN Tail(t)
  <2>1. IsSequence(Tail(t))
    BY <1>1, SeqFacts
  <2>2. \A j \in DOMAIN Tail(t) : j + 1 \in DOMAIN t /\ Tail(t)[j] = t[j + 1]
    BY <1>1, TailFacts
  <2>3. \A j \in DOMAIN Tail(t) : j + 1 >= 2
    BY <2>1, SeqFacts
  <2>4. Tail(t) # <<>> => 1 \in DOMAIN Tail(t)
    BY <2>1, TailFacts
  <2> QED BY <2>1, <2>2, <2>3, <2>4
<1>3. \A j \in DOMAIN Tail(t) : Tail(t)[j] = <<Tail(t)[j][1], Tail(t)[j][2]>>
  BY <1>2 DEF TodoList
<1>4. \A j \in DOMAIN Tail(t) : Tail(t)[j][1] \in Rules /\ Tail(t)[j][2] = "no"
  BY <1>2 DEF TodoList
<1>5. Tail(t) # <<>> => Tail(t)[1][2] # "yes"
  BY <1>2, <1>4
<1> QED BY <1>2, <1>3, <1>4, <1>5 DEF TodoList

\* The setting in hand goes out, and the next one is taken up.
LEMMA PublishCore ==
  ASSUME CoreInv, PublishStat
  PROVE  CoreInv'
<1> USE DEF CoreInv
<1> DEFINE k == todo[1][1]
           v == todo[1][2]
<1>1. /\ at = "publish" /\ todo # <<>> /\ IsSequence(todo) /\ TodoList(todo)
      /\ todo' = Tail(todo)
      /\ at' = IF Len(todo) = 1 THEN "idle" ELSE "read"
      /\ tmp' = NoLines
      /\ UNCHANGED <<exists, conf, mq, snap, torn>>
      /\ Current = conf /\ (Handled <=> TRUE)
  BY DEF PublishStat, TodoShape, TodoList, Current, Handled
<1>2. /\ stat' = IF online THEN With(stat, k, v) ELSE stat
      /\ missed' = (missed \/ ~online \/ (k \in DOMAIN snap /\ snap[k] # v))
  BY DEF PublishStat
<1>3. Current' = conf /\ (Handled' <=> FALSE)
  BY <1>1 DEF Current, Handled
<1>4. TodoShape'
  <2>1. TodoList(todo)'
    BY <1>1, TailList
  <2>2. at' = "idle" <=> todo' = <<>>
    BY <1>1, TailFacts
  <2> QED BY <1>1, <2>1, <2>2 DEF TodoShape
<1>5. FileShape'
  <2>1. IsFcn(tmp)'
    BY <1>1 DEF IsFcn, NoLines
  <2> QED BY <1>1, <2>1 DEF FileShape, IsFcn
<1>6. RulesInv'
  <2>1. SUFFICES ASSUME "rules" \notin torn, NEW i \in 1..3, Clash(conf, i)
                 PROVE  \E j \in DOMAIN todo' :
                            todo'[j] \in {<<"motion_detection", "no">>, <<Ai[i], "no">>}
    BY <1>1, <1>3 DEF RulesInv, Clash
  <2>2. PICK j \in DOMAIN todo : j >= 2
                 /\ todo[j] \in {<<"motion_detection", "no">>, <<Ai[i], "no">>}
    BY <1>1, <2>1 DEF RulesInv
  <2>3. j - 1 \in DOMAIN todo' /\ todo'[j - 1] = todo[j]
    BY <1>1, <2>2, TailFacts
  <2> QED BY <2>2, <2>3
<1>7. FileInv'
  BY <1>1, <1>3 DEF FileInv
<1>8. StatInv'
  <2>1. Key \subseteq DOMAIN stat'
    BY <1>2 DEF StatInv, With
  <2>2. SUFFICES ASSUME ~missed', torn \subseteq {"svc"}, NEW x \in Key
                 PROVE  stat'[x] = conf[x] /\ (x \in DOMAIN snap => snap[x] = conf[x])
    BY <1>1, <1>3, <2>1 DEF StatInv, IsFcn
  <2>3. ~missed /\ online /\ stat' = With(stat, k, v) /\ (k \in DOMAIN snap => snap[k] = v)
    BY <1>2, <2>2
  <2>4. CASE x = k
    <3>1. conf[x] = v
      BY <1>1, <2>2, <2>4 DEF FileInv
    <3>2. stat'[x] = v
      BY <2>3, <2>4 DEF With
    <3> QED BY <2>3, <2>4, <3>1, <3>2
  <2>5. CASE x # k
    <3>1. stat'[x] = stat[x]
      BY <2>3, <2>5 DEF With, StatInv
    <3>2. stat[x] = conf[x] /\ (x \in DOMAIN snap => snap[x] = conf[x])
      BY <1>1, <2>2, <2>3, <2>5 DEF StatInv, IsFcn
    <3> QED BY <3>1, <3>2
  <2> QED BY <2>4, <2>5
<1> QED BY <1>4, <1>5, <1>6, <1>7, <1>8

\* conf2mqtt.sh publishes a line.
LEMMA DumpCore ==
  ASSUME CoreInv, DumpOpen \/ DumpLine
  PROVE  CoreInv'
<1> USE DEF CoreInv
<1>1. UNCHANGED <<exists, conf, todo, at, tmp, torn, missed>>
  BY DEF DumpOpen, DumpLine
<1>2. Current' = Current /\ (Handled' <=> Handled)
  BY <1>1 DEF Current, Handled
<1>3. TodoShape' /\ FileShape' /\ RulesInv' /\ FileInv'
  BY <1>1, <1>2 DEF TodoShape, FileShape, RulesInv, FileInv, Clash
<1>4. CASE DumpOpen
  <2>1. exists /\ snap' = conf /\ stat' = stat
    BY <1>4 DEF DumpOpen
  <2>2. ASSUME ~missed, torn \subseteq {"svc"}, NEW x \in Key, Handled => x # todo[1][1], x \in DOMAIN conf
        PROVE  conf[x] = Current[x]
    <3>1. CASE at \in {"create", "write"}
      BY <2>2, <3>1 DEF FileShape, NoLines
    <3>2. CASE at = "remove"
      BY <2>2, <3>2 DEF FileInv, Handled, Current
    <3>3. CASE at \notin {"create", "write", "remove"}
      BY <3>3 DEF Current
    <3> QED BY <3>1, <3>2, <3>3
  <2>3. IsFcn(snap)'
    BY <2>1 DEF FileShape, IsFcn
  <2>4. StatInv'
    BY <1>1, <1>2, <2>1, <2>2, <2>3 DEF StatInv
  <2> QED BY <1>3, <2>4
<1>5. CASE DumpLine
  <2>1. PICK k \in DOMAIN snap : /\ stat' \in {With(stat, k, snap[k]), stat}
                                 /\ snap' = [x \in DOMAIN snap \ {k} |-> snap[x]]
    <3>1. DOMAIN snap # {}
      <4>1. snap # NoLines
        BY <1>5 DEF DumpLine
      <4>2. IsFcn(snap)
        BY DEF StatInv
      <4> QED BY <4>1, <4>2 DEF IsFcn, NoLines
    <3> QED BY <1>5, <3>1 DEF DumpLine
  <2>2. Key \subseteq DOMAIN stat' /\ IsFcn(snap)'
    BY <2>1 DEF StatInv, With, IsFcn
  <2>3. ASSUME ~missed, torn \subseteq {"svc"}, NEW x \in Key, Handled => x # todo[1][1]
        PROVE  stat'[x] = Current[x] /\ (x \in DOMAIN snap' => snap'[x] = Current[x])
    <3>1. stat[x] = Current[x] /\ (x \in DOMAIN snap => snap[x] = Current[x])
      BY <2>3 DEF StatInv, IsFcn
    <3>2. stat'[x] \in {stat[x], snap[x]} /\ (stat'[x] # stat[x] => x = k)
      BY <2>1 DEF With, StatInv
    <3>3. x \in DOMAIN snap' => x \in DOMAIN snap /\ snap'[x] = snap[x]
      BY <2>1
    <3> QED BY <3>1, <3>2, <3>3
  <2>4. StatInv'
    BY <1>1, <1>2, <2>2, <2>3 DEF StatInv, IsFcn
  <2> QED BY <1>3, <2>4
<1> QED BY <1>4, <1>5

\* The copy cannot be begun, or not be finished.
LEMMA FailsCore ==
  ASSUME CoreInv, ReplaceReadFails \/ CopyBackFails
  PROVE  CoreInv'
<1> USE DEF CoreInv
<1>1. /\ at \in {"read", "create", "write"} /\ at' = "publish" /\ torn \subseteq torn'
      /\ UNCHANGED <<exists, todo, tmp, stat, snap, missed>>
  BY DEF ReplaceReadFails, CopyBackFails
<1>2. Current' = conf' /\ (Handled' <=> TRUE)
  BY <1>1 DEF Current, Handled
<1>3. TodoShape'
  BY <1>1 DEF TodoShape
<1>4. StatInv'
  <2>1. ~(torn' \subseteq {"svc"})
    BY DEF ReplaceReadFails, CopyBackFails
  <2> QED BY <1>1, <2>1 DEF StatInv, IsFcn
<1>5. CASE ReplaceReadFails
  <2>1. at = "read" /\ exists /\ conf' = conf /\ "rules" \in torn' /\ torn' = torn \cup {"rules"}
        /\ Current = conf
    BY <1>5 DEF ReplaceReadFails, Current
  <2>2. FileShape'
    BY <1>1, <2>1 DEF FileShape
  <2>3. RulesInv'
    BY <2>1 DEF RulesInv
  <2>4. FileInv'
    BY <1>1, <1>2, <2>1 DEF FileInv
  <2> QED BY <1>3, <1>4, <2>2, <2>3, <2>4
<1>6. CASE CopyBackFails
  <2>1. /\ at \in {"create", "write"} /\ "conf" \in torn' /\ torn' = torn \cup {"conf"}
        /\ Current = tmp /\ (Handled <=> TRUE)
        /\ conf' = conf \/ (conf' \in Parts(tmp) /\ at = "write")
    BY <1>6 DEF CopyBackFails, Current, Handled
  <2>2. IsFcn(conf') /\ \A x \in DOMAIN conf' : x \in DOMAIN tmp /\ conf'[x] = tmp[x]
    <3>1. CASE conf' = conf
      BY <2>1, <3>1 DEF FileShape, IsFcn, NoLines
    <3>2. CASE conf' \in Parts(tmp)
      <4>1. PICK S \in SUBSET DOMAIN tmp : conf' = [k \in S |-> tmp[k]]
        BY <3>2 DEF Parts
      <4> QED BY <4>1 DEF IsFcn
    <3> QED BY <2>1, <3>1, <3>2
  <2>3. FileShape'
    <3>1. exists \/ conf' = conf
      BY <1>6 DEF CopyBackFails, FileShape
    <3> QED BY <1>1, <2>1, <2>2, <3>1 DEF FileShape, IsFcn
  <2>4. RulesInv'
    <3>1. SUFFICES ASSUME "rules" \notin torn, NEW i \in 1..3, Clash(conf', i)
                   PROVE  \E j \in DOMAIN todo : j >= 2
                              /\ todo[j] \in {<<"motion_detection", "no">>, <<Ai[i], "no">>}
      BY <1>1, <1>2, <2>1 DEF RulesInv, Clash
    <3>2. Clash(tmp, i)
      BY <2>2, <3>1 DEF Clash
    <3> QED BY <2>1, <3>1, <3>2 DEF RulesInv
  <2>5. FileInv'
    BY <2>1 DEF FileInv
  <2> QED BY <1>3, <1>4, <2>3, <2>4, <2>5
<1> QED BY <1>5, <1>6

\* A power cut, or a stop of mqttv4, forgets what was in hand.
LEMMA CutCore ==
  ASSUME CoreInv, TornHere \subseteq torn', todo' = <<>>, at' = "down", tmp' = NoLines,
         snap' \in {snap, NoLines}, UNCHANGED <<exists, conf, stat, missed>>
  PROVE  CoreInv'
<1> USE DEF CoreInv
<1>1. /\ torn \subseteq torn'
      /\ at \in {"create", "write"} => "conf" \in torn'
      /\ at \notin {"idle", "down"} => "rules" \in torn'
  BY DEF TornHere
<1>2. Current' = conf /\ (Handled' <=> FALSE)
  BY DEF Current, Handled
<1>3. TodoShape'
  <2>1. IsSequence(<<>>)
    BY FromSeq, <<>> \in Seq({})
  <2> QED BY <2>1 DEF TodoShape, TodoList
<1>4. FileShape'
  BY DEF FileShape, IsFcn, NoLines
<1>5. RulesInv'
  <2>1. SUFFICES ASSUME "rules" \notin torn', NEW i \in 1..3, Clash(conf, i) PROVE FALSE
    BY <1>2 DEF RulesInv, Clash
  <2>2. at \in {"idle", "down"} /\ "rules" \notin torn
    BY <1>1, <2>1
  <2>3. Current = conf /\ todo = <<>>
    BY <2>2 DEF Current, TodoShape
  <2> QED BY <2>1, <2>2, <2>3 DEF RulesInv
<1>6. FileInv'
  <2>1. SUFFICES ASSUME "conf" \notin torn' PROVE exists /\ DOMAIN conf = Key
    BY <1>2 DEF FileInv
  <2>2. at \notin {"create", "write"} /\ "conf" \notin torn
    BY <1>1, <2>1
  <2> QED BY <2>2 DEF FileInv
<1>7. StatInv'
  <2>0. IsFcn(snap)'
    BY DEF StatInv, IsFcn, NoLines
  <2>1. SUFFICES ASSUME ~missed, torn' \subseteq {"svc"}, NEW x \in Key
                 PROVE  stat[x] = conf[x] /\ (x \in DOMAIN snap' => snap'[x] = conf[x])
    BY <1>2, <2>0 DEF StatInv, IsFcn
  <2>2. at \in {"idle", "down"} /\ torn \subseteq {"svc"}
    BY <1>1, <2>1
  <2>3. stat[x] = conf[x] /\ (x \in DOMAIN snap => snap[x] = conf[x])
    BY <2>1, <2>2 DEF StatInv, Current, Handled
  <2>4. snap' = NoLines => x \notin DOMAIN snap'
    BY DEF NoLines
  <2> QED BY <2>3, <2>4
<1> QED BY <1>3, <1>4, <1>5, <1>6, <1>7

\* Which steps touch the settings on mqttv4's side.
LEMMA Footprint ==
  ASSUME [Next]_vars
  PROVE  \/ CommandNext /\ UNCHANGED <<cam, lost>>
         \/ DumpLine /\ UNCHANGED <<cam, lost>>
         \/ DumpOpen /\ UNCHANGED <<cam, lost>>
         \/ (ReplaceReadFails \/ CopyBackFails) /\ UNCHANGED <<cam, lost>>
         \/ MqttStopped /\ lost' = (lost \/ at # "idle") /\ UNCHANGED cam
         \/ MqttStart
         \/ PowerCut
         \/ Dispatch
         \/ /\ UNCHANGED <<exists, conf, mq, todo, at, tmp, stat, snap, missed, cam, lost>>
            /\ torn' \in {torn, torn \cup {"svc"}}
<1>1. CASE IpcNext
  BY <1>1 DEF IpcNext, confVars, camVars
<1>2. CASE Dispatch
  BY <1>2
<1>3. CASE ConfNext
  BY <1>3 DEF ConfNext, camVars
<1>4. CASE CallbackNext
  <2>1. UNCHANGED confVars \/ DumpOpen
    BY <1>4 DEF CallbackNext, McCallback, Ignore, RunIpcCmd, SystemReturns, RunDump, ReplaceCopy,
       ReplaceInPlace
  <2> QED BY <1>4, <2>1 DEF CallbackNext, confVars, camVars
<1>5. CASE ConnectionNext
  BY <1>5 DEF ConnectionNext, confVars, camVars
<1>6. CASE Environment
  <2>1. CASE WebCall \/ Publish
    BY <2>1 DEF WebCall, Publish, confVars, camVars
  <2>2. CASE WebSave
    BY <2>2 DEF WebSave, SedRead, camVars
  <2>3. CASE PowerCut \/ MqttStart
    BY <2>3
  <2>4. CASE Fault
    <3>1. CASE ReplaceFails /\ UNCHANGED lost
      BY <2>4, <3>1 DEF Fault, ReplaceFails
    <3>2. CASE ~(ReplaceFails /\ UNCHANGED lost)
      BY <2>4, <3>2 DEF Fault
    <3> QED BY <3>1, <3>2
  <2>5. CASE (BrokerDown \/ Sigterm \/ BrokerBack \/ SedRename) /\ UNCHANGED camVars
    BY <2>5 DEF BrokerDown, Sigterm, BrokerBack, SedRename, confVars, camVars
  <2> QED BY <1>6, <2>1, <2>2, <2>3, <2>4, <2>5 DEF Environment
<1>7. CASE UNCHANGED vars
  BY <1>7 DEF vars, confVars, camVars
<1> QED BY <1>1, <1>2, <1>3, <1>4, <1>5, <1>6, <1>7 DEF Next

\* Every step of the system keeps it.
LEMMA CoreStep ==
  ASSUME CoreInv, [Next]_vars
  PROVE  CoreInv'
<1>1. CASE CommandNext
  BY <1>1, ReceiveCore, ReadCore, RemoveCore, CopyCore, PublishCore DEF CommandNext
<1>2. CASE DumpLine \/ DumpOpen
  BY <1>2, DumpCore
<1>3. CASE ReplaceReadFails \/ CopyBackFails
  BY <1>3, FailsCore
<1>4. CASE PowerCut \/ MqttStopped
  <2>1. /\ TornHere \subseteq torn' /\ todo' = <<>> /\ at' = "down" /\ tmp' = NoLines
        /\ snap' \in {snap, NoLines} /\ UNCHANGED <<exists, conf, stat, missed>>
    BY <1>4 DEF PowerCut, MqttStopped
  <2> QED BY <2>1, CutCore
<1>5. CASE MqttStart
  <2>1. /\ at = "down" /\ at' = "idle" /\ UNCHANGED <<exists, conf, todo, tmp, stat, snap, torn, missed>>
    BY <1>5 DEF MqttStart, MqttStarted
  <2>2. Current = conf /\ Current' = conf /\ (Handled <=> FALSE) /\ (Handled' <=> FALSE)
    BY <2>1 DEF Current, Handled
  <2>3. TodoShape' /\ FileShape'
    BY <2>1 DEF CoreInv, TodoShape, FileShape, IsFcn
  <2> QED BY <2>1, <2>2, <2>3 DEF CoreInv, RulesInv, FileInv, StatInv, Clash, IsFcn
<1>6. CASE \/ Dispatch
           \/ /\ UNCHANGED <<exists, conf, mq, todo, at, tmp, stat, snap, missed, cam, lost>>
              /\ torn' \in {torn, torn \cup {"svc"}}
  <2>1. UNCHANGED <<exists, conf, todo, at, tmp, stat, snap, missed>> /\ torn \subseteq torn'
    BY <1>6 DEF Dispatch
  <2>2. Current' = Current /\ (Handled' <=> Handled)
    BY <2>1 DEF Current, Handled
  <2>3. \A t \in {"conf", "rules"} : t \in torn' <=> t \in torn
    BY <1>6 DEF Dispatch
  <2>4. torn' \subseteq {"svc"} => torn \subseteq {"svc"}
    BY <2>1
  <2> QED BY <2>1, <2>2, <2>3, <2>4 DEF CoreInv, TodoShape, FileShape, RulesInv, FileInv,
             StatInv, Clash, IsFcn
<1> QED BY <1>1, <1>2, <1>3, <1>4, <1>5, <1>6, Footprint

-----------------------------------------------------------------------------

\* mqtt-config rewrites its file in place from a whole copy, sed puts a whole one in
\* its place, and a connection that the broker knows carries the subscription.
McInv ==
  /\ back \in {"main", "loop", "connect"}
  /\ "svc" \notin torn =>
       /\ mc # "copy" => DOMAIN svc = FileKey
       /\ mc \in {"truncate", "copy"} => DOMAIN svcTmp = FileKey
       /\ page # <<>> => DOMAIN page[1] = FileKey
  /\ mc = "init" => link = "none"
  /\ mc = "subscribe" => link # "acked"
  /\ prefixSet /\ link \in {"tcp", "acked"} /\ mc # "subscribe" => subscribed

\* At the start there is no connection.
LEMMA InitMc == Init => McInv
  BY DEF Init, McInit, ConfInit, McInv, FileKey

\* Every step of the system keeps it.
LEMMA McStep ==
  ASSUME McInv, [Next]_vars
  PROVE  McInv'
<1> USE DEF McInv
<1>1. CASE UNCHANGED mcVars /\ torn \subseteq torn'
  BY <1>1 DEF mcVars
<1>2. CASE CallbackNext
  <2>1. /\ torn' = torn /\ back' = back /\ link' = link /\ subscribed' = subscribed
        /\ prefixSet' = prefixSet /\ page' = page
    BY <1>2 DEF CallbackNext, McCallback, Ignore, RunIpcCmd, SystemReturns, RunDump,
                ReplaceCopy, ReplaceInPlace, Quietly, confVars, DumpOpen
  <2>2. CASE ReplaceCopy
    <3>1. svcTmp' = Changed(svc, msg[1].key, msg[1].payload)
          /\ mc = "handle" /\ mc' = "truncate" /\ svc' = svc
      BY <2>2 DEF ReplaceCopy, Accepted
    <3>2. DOMAIN svcTmp' = DOMAIN svc
      BY <3>1 DEF Changed
    <3> QED BY <2>1, <3>1, <3>2
  <2>3. CASE ReplaceInPlace
    BY <2>1, <2>3 DEF ReplaceInPlace, Done
  <2>4. CASE Ignore \/ RunIpcCmd \/ SystemReturns \/ RunDump
    <3>1. svc' = svc /\ svcTmp' = svcTmp /\ mc' \in {back, "system", "dead", "dump"}
          /\ mc \in {"handle", "system", "dump"}
      BY <2>4 DEF Ignore, RunIpcCmd, SystemReturns, RunDump, Done, Accepted
    <3> QED BY <2>1, <3>1
  <2> QED BY <1>2, <2>2, <2>3, <2>4 DEF CallbackNext, McCallback
<1>3. CASE ConnectionNext
  <2>1. torn' = torn /\ svc' = svc /\ svcTmp' = svcTmp /\ page' = page
    BY <1>3 DEF ConnectionNext, McConnection, LoadConf, McConnect, Subscribe, LoopPacket,
                LoopMessage, McMain, confVars
  <2>2. CASE LoadConf
    BY <2>1, <2>2 DEF LoadConf
  <2>3. CASE McConnect
    BY <2>1, <2>3 DEF McConnect
  <2>4. CASE Subscribe
    BY <2>1, <2>4 DEF Subscribe, Return
  <2>5. CASE LoopPacket
    <3>1. mc \in {"first", "loop"} /\ mc' \in {"main", "loop", "connect"} /\ back' = back
          /\ prefixSet' = prefixSet /\ (subscribed' <=> (subscribed /\ link' # "none"))
          /\ (link' \in {"tcp", "acked"} => link \in {"tcp", "acked"})
      BY <2>5 DEF LoopPacket, AfterLoop, Return
    <3> QED BY <2>1, <3>1
  <2>6. CASE LoopMessage
    BY <2>1, <2>6 DEF LoopMessage, AfterLoop, Return
  <2>7. CASE McMain
    BY <2>1, <2>7 DEF McMain
  <2> QED BY <1>3, <2>2, <2>3, <2>4, <2>5, <2>6, <2>7 DEF ConnectionNext, McConnection
<1>4. CASE PowerCut
  <2>1. /\ mc' = "init" /\ back' = "main" /\ link' = "none" /\ UNCHANGED svc /\ page' = <<>>
        /\ torn' = TornHere \cup (IF mc = "copy" THEN {"svc"} ELSE {})
    BY <1>4 DEF PowerCut
  <2>2. torn \subseteq TornHere
    BY DEF TornHere
  <2> QED BY <2>1, <2>2
<1>5. CASE Fault
  <2>1. CASE ReplaceFails
    <3>1. /\ UNCHANGED <<back, link, subscribed, prefixSet, page>> /\ mc' = back
          /\ \/ mc # "copy" /\ UNCHANGED <<svc, torn>>
             \/ torn' = torn \cup {"svc"}
      BY <2>1 DEF ReplaceFails, Quietly, Done, Accepted
    <3>2. mc \in {"handle", "truncate", "copy"}
      BY <2>1 DEF ReplaceFails, Accepted
    <3> QED BY <3>1, <3>2
  <2>2. CASE ~ReplaceFails
    <3>1. UNCHANGED mcVars
      BY <1>5, <2>2 DEF Fault
    <3>2. torn \subseteq torn'
      BY <1>5, <2>2 DEF Fault, ReplaceReadFails, CopyBackFails, MqttStopped, TornHere
    <3> QED BY <1>1, <3>1, <3>2
  <2> QED BY <2>1, <2>2
<1>6. CASE WebSave
  <2>1. PICK k \in FileKey : page' = <<Changed(svc, k, "page")>>
    BY <1>6 DEF WebSave, SedRead
  <2>2. /\ torn \subseteq torn' /\ (mc = "copy" => "svc" \in torn')
        /\ UNCHANGED <<mc, back, link, subscribed, prefixSet, svc, svcTmp>>
    BY <1>6 DEF WebSave, SedRead
  <2>3. DOMAIN page'[1] = DOMAIN svc
    BY <2>1 DEF Changed
  <2> QED BY <2>2, <2>3
<1>7. CASE SedRename
  BY <1>7 DEF SedRename, confVars
<1>8. CASE BrokerDown \/ BrokerBack \/ Sigterm \/ Publish
  BY <1>8 DEF BrokerDown, BrokerBack, Sigterm, Publish, confVars
<1>9. CASE IpcNext \/ Dispatch \/ ConfNext \/ WebCall \/ MqttStart
  <2>1. UNCHANGED mcVars
    BY <1>9 DEF IpcNext, Dispatch, ConfNext, WebCall, MqttStart
  <2>2. UNCHANGED torn
    BY <1>9 DEF IpcNext, Dispatch, ConfNext, WebCall, confVars, CommandNext, Receive, ReplaceRead,
                ReplaceRemove, CopyBack, PublishStat, DumpLine, MqttStart, MqttStarted
  <2> QED BY <1>1, <2>1, <2>2
<1>10. CASE UNCHANGED vars
  BY <1>1, <1>10 DEF vars, confVars
<1> QED BY <1>2, <1>3, <1>4, <1>5, <1>6, <1>7, <1>8, <1>9, <1>10 DEF Next, Environment

\* callback_command (mqttv4) leaves no two detectors on together in camera.conf, for any
\* mix of commands, any losses, any failing copies and any length of the queues; only a
\* power cut or a stop of mqttv4 between the settings, or a copy not begun, can.
THEOREM DetectorsApart == Spec => []DetectorsExclusive
<1>1. Init => CoreInv
  BY InitCore
<1>2. CoreInv /\ [Next]_vars => CoreInv'
  BY CoreStep
<1>3. CoreInv => DetectorsExclusive
  <2>1. ASSUME CoreInv, at = "idle", "rules" \notin torn, NEW k \in 1..3
        PROVE  ~Clash(conf, k)
    <3>1. todo = <<>> /\ Current = conf
      BY <2>1 DEF CoreInv, TodoShape, Current
    <3> QED BY <2>1, <3>1 DEF CoreInv, RulesInv
  <2> QED BY <2>1 DEF DetectorsExclusive, Clash
<1> QED BY <1>1, <1>2, <1>3, PTL DEF Spec

\* config_replace of mqttv4 and of mqtt-config and sed -i of set_configs.sh, each beside
\* the others, lose no line of a file before a call fails, mqttv4 is stopped, the power is
\* cut or sed reads while there is no whole file.
THEOREM FilesWhole == Spec => []FilesIntact
<1>1. Init => CoreInv /\ McInv
  BY InitCore, InitMc
<1>2. CoreInv /\ McInv /\ [Next]_vars => (CoreInv /\ McInv)'
  BY CoreStep, McStep
<1>3. CoreInv /\ McInv => FilesIntact
  BY DEF CoreInv, FileInv, McInv, FilesIntact
<1> QED BY <1>1, <1>2, <1>3, PTL DEF Spec

\* mqtt_connect of mqtt-config: a connection the broker has acknowledged carries the
\* subscription, however often connections were lost before.
THEOREM NotDeaf == Spec => []Hears
<1>1. McInv => Hears
  BY DEF McInv, Hears
<1>2. McInv /\ [Next]_vars => McInv'
  BY McStep
<1> QED BY <1>1, <1>2, InitMc, PTL DEF Spec

-----------------------------------------------------------------------------

\* The four kinds of options.
LEMMA Kinds ==
  ASSUME NEW o, NEW p
  PROVE  /\ o \in Picture => ArgOf(o, p) = PictureArg(o, p)
         /\ o \in Detector => ArgOf(o, p) = DetectorArg(o, p)
         /\ o \in Ptz => ArgOf(o, p) = PtzArg(o, p)
<1>1. ASSUME o \in Picture PROVE ArgOf(o, p) = PictureArg(o, p)
  BY <1>1 DEF ArgOf, Picture, Detector, Ptz, OnOff
<1>2. ASSUME o \in Detector PROVE ArgOf(o, p) = DetectorArg(o, p)
  BY <1>2 DEF ArgOf, Picture, Detector, Ptz, OnOff
<1>3. ASSUME o \in Ptz PROVE ArgOf(o, p) = PtzArg(o, p)
  BY <1>3 DEF ArgOf, Picture, Detector, Ptz, OnOff
<1> QED BY <1>1, <1>2, <1>3

\* Yes or no is an argument of every option that switches something.
LEMMA SwitchUnderstood ==
  ASSUME NEW o \in OnOff, NEW p
  PROVE  ArgOf(o, p) = SwitchArg(p)
<1>1. CASE o \in Picture
  <2>1. PictureArg(o, p) = SwitchArg(p)
    BY DEF PictureArg, OnOff
  <2> QED BY <1>1, <2>1, Kinds
<1>2. CASE o \notin Picture
  <2>1. o \in Detector /\ o # "soundsensitivity"
    BY <1>2 DEF Detector, OnOff
  <2>2. DetectorArg(o, p) = SwitchArg(p)
    BY <2>1 DEF DetectorArg
  <2> QED BY <2>1, <2>2, Kinds
<1> QED BY <1>1, <1>2

\* off and no, on and yes, or nothing at all.
LEMMA SwitchIs ==
  ASSUME NEW p
  PROVE  /\ SwitchArg(p) \in {<<>>, <<"off">>, <<"on">>}
         /\ p \in Bool => SwitchArg(p) # <<>>
<1>1. CASE p \in {"off", "no"}
  BY <1>1 DEF SwitchArg
<1>2. CASE p \in {"on", "yes"}
  BY <1>2 DEF SwitchArg
<1>3. CASE p \notin {"off", "no", "on", "yes"}
  BY <1>3 DEF SwitchArg, Bool
<1> QED BY <1>1, <1>2, <1>3

\* What config_params allows of a setting ipc_cmd takes for good.
LEMMA Understood ==
  ASSUME NEW key, NEW p, CameraAllows(key, p), key # "sound_sensitivity"
  PROVE  ~IsBad(<<OptionOf[key], p>>)
<1>1. CASE key = "sensitivity"
  <2>1. OptionOf[key] = "sensitivity" /\ p \in {"low", "medium", "high"}
    BY <1>1 DEF OptionOf, CameraAllows
  <2>2. "sensitivity" \in Picture
    BY DEF Picture
  <2>3. PictureArg("sensitivity", p) = <<p>>
    BY <2>1 DEF PictureArg, OnOff, Listed
  <2>4. ArgOf("sensitivity", p) # <<>>
    BY <2>2, <2>3, Kinds
  <2> QED BY <2>1, <2>4 DEF IsBad
<1>2. CASE key = "cruise"
  <2>1. OptionOf[key] = "cruise" /\ p \in {"no", "presets", "360"}
    BY <1>2 DEF OptionOf, CameraAllows
  <2>2. "cruise" \in Ptz
    BY DEF Ptz
  <2>3. PtzArg("cruise", p) = IF p \in {"presets", "360"} THEN <<p>> ELSE SwitchArg(p)
    BY DEF PtzArg
  <2>4. p = "no" => SwitchArg(p) # <<>>
    BY SwitchIs DEF Bool
  <2>5. PtzArg("cruise", p) # <<>>
    BY <2>1, <2>3, <2>4
  <2>6. ArgOf("cruise", p) # <<>>
    BY <2>2, <2>5, Kinds
  <2> QED BY <2>1, <2>6 DEF IsBad
<1>3. CASE key = "save_video_on_motion"
  <2>1. OptionOf[key] = "save" /\ p \in Bool
    BY <1>3 DEF OptionOf, CameraAllows
  <2>2. "save" \in Picture
    BY DEF Picture
  <2>3. PictureArg("save", p) = IF p \in {"off", "no"} THEN <<"always">> ELSE <<"detect">>
    BY <2>1 DEF PictureArg, OnOff, Bool
  <2>4. ArgOf("save", p) # <<>>
    BY <2>2, <2>3, Kinds
  <2> QED BY <2>1, <2>4 DEF IsBad
<1>4. CASE key \notin {"sensitivity", "cruise", "save_video_on_motion"}
  <2>1. key \in DOMAIN OptionOf /\ p \in Bool
    BY <1>4 DEF CameraAllows
  <2>2. OptionOf[key] \in OnOff
    BY <1>4, <2>1 DEF OptionOf, OnOff
  <2>3. ArgOf(OptionOf[key], p) # <<>>
    BY <2>1, <2>2, SwitchUnderstood, SwitchIs
  <2> QED BY <2>3 DEF IsBad
<1> QED BY <1>1, <1>2, <1>3, <1>4

\* validate_param of mqtt-config lets nothing through that ipc_cmd refuses, except a sound
\* sensitivity between the steps: for every message a client may publish.
THEOREM RefusedOnlySounds == Spec => []ValidatedIsUnderstood
<1>1. Init => ValidatedIsUnderstood
  BY DEF Init, McInit, ValidatedIsUnderstood
<1>2. ASSUME ValidatedIsUnderstood, [Next]_vars
      PROVE  ValidatedIsUnderstood'
  <2>1. CASE RunIpcCmd
    <3> DEFINE r == msg[1]
               argv == <<<<OptionOf[r.key], r.payload>>>>
    <3>1. /\ Section(r) = "camera" /\ Validate(r)
          /\ \/ refused' = refused
             \/ refused' = refused \cup {<<r.key, r.payload>>} /\ Parse(argv) = <<>>
      BY <2>1 DEF RunIpcCmd, Accepted
    <3>2. ASSUME Parse(argv) = <<>> PROVE r.key = "sound_sensitivity"
      <4>1. CameraAllows(r.key, r.payload)
        <5>1. Section(r) = "camera" /\ Validate(r)
          BY <3>1
        <5> HIDE DEF r
        <5> QED BY <5>1, Zenon DEF Validate
      <4> DEFINE oa == <<OptionOf[r.key], r.payload>>
      <4> HIDE DEF oa
      <4>2. DOMAIN <<oa>> = {1} /\ <<oa>>[1] = oa /\ <<oa>> # <<>>
        OBVIOUS
      <4>3. Parse(<<oa>>) = <<>> => IsBad(oa)
        BY <4>2 DEF Parse
      <4>4. IsBad(oa)
        BY <3>2, <4>3 DEF oa
      <4> QED BY <4>1, <4>4, Understood DEF oa
    <3> HIDE DEF r, argv
    <3> QED BY <1>2, <3>1, <3>2 DEF ValidatedIsUnderstood
  <2>2. CASE refused' = refused
    BY <1>2, <2>2 DEF ValidatedIsUnderstood
  <2>3. RunIpcCmd \/ refused' = refused
    <3>1. CASE CallbackNext
      BY <3>1 DEF CallbackNext, McCallback, Ignore, SystemReturns, RunDump, ReplaceCopy,
                  ReplaceInPlace
    <3>2. CASE ConnectionNext
      BY <3>2 DEF ConnectionNext, McConnection, LoadConf, McConnect, Subscribe, LoopPacket,
                  LoopMessage, McMain
    <3>3. CASE Environment
      BY <3>3 DEF Environment, WebCall, Publish, PowerCut, BrokerDown, BrokerBack, Sigterm, mcVars,
                  WebSave, SedRead, Fault, ReplaceFails, MqttStart, SedRename
    <3>4. CASE IpcNext \/ Dispatch \/ ConfNext \/ UNCHANGED vars
      BY <3>4 DEF IpcNext, Dispatch, ConfNext, vars, mcVars
    <3> QED BY <1>2, <3>1, <3>2, <3>3, <3>4 DEF Next
  <2> QED BY <2>1, <2>2, <2>3
<1> QED BY <1>1, <1>2, PTL DEF Spec

-----------------------------------------------------------------------------

\* What get_pos has printed belongs to where the motor stands.
PosInv ==
  /\ DOMAIN ipc = Caller /\ IsSequence(queue)
  /\ pos \in Places
  /\ reported = <<>> \/ reported \in GetPos

\* At the start nothing has been printed.
LEMMA InitPos == Init => PosInv
<1>1. IsSequence(<<>>)
  BY FromSeq, <<>> \in Seq({})
<1> QED BY <1>1 DEF Init, IpcInit, PosInv

\* What happens to a queue.
LEMMA SendsSeq ==
  ASSUME NEW m, IsSequence(queue), Sends(m)
  PROVE  /\ IsSequence(queue') /\ Len(queue') = Len(queue) + 1 /\ queue'[Len(queue')] = m
         /\ \A i \in 1..Len(queue) : queue'[i] = queue[i]
<1>1. queue' = Append(queue, m)
  BY DEF Sends
<1> QED BY <1>1, AppendFacts

\* Nobody joins or leaves the callers.
LEMMA IpcDomain ==
  ASSUME DOMAIN ipc = Caller, [Next]_vars
  PROVE  DOMAIN ipc' = Caller
<1>1. CASE IpcNext
  BY <1>1 DEF IpcNext, IpcStep, MarkMic, IpcStart, SendOne, Jump, PrintPos, ReadPtzFails,
              SendFile, Fork, DaemonSends, Goes, Ends
<1>2. CASE CallbackNext
  BY <1>2 DEF CallbackNext, McCallback, Ignore, RunIpcCmd, SystemReturns, RunDump, ReplaceCopy,
              ReplaceInPlace, IpcCall, ipcVars
<1>3. CASE Environment
  BY <1>3 DEF Environment, WebCall, IpcCall, Publish, PowerCut, BrokerDown, BrokerBack, Sigterm,
              WebSave, Fault, ReplaceFails, MqttStart, ipcVars
<1>4. CASE Dispatch \/ ConfNext \/ ConnectionNext \/ UNCHANGED vars
  BY <1>4 DEF Dispatch, ConfNext, ConnectionNext, vars, ipcVars
<1> QED BY <1>1, <1>2, <1>3, <1>4 DEF Next

\* Rounding is off by half a unit at most.
LEMMA RoundedIs ==
  ASSUME NEW n \in Int, NEW d \in Nat \ {0}, NEW k \in Rounded(n, d)
  PROVE  k \in Int /\ -d <= 2 * (k * d - n) /\ 2 * (k * d - n) <= d
<1>1. n \div d \in Int
  OBVIOUS
<1>2. k \in {n \div d, n \div d + 1} /\ 2 * (k * d - n) \in -d..d
  BY DEF Rounded
<1> QED BY <1>1, <1>2

\* To degrees and back along the horizontal axis, and it is no move.
LEMMA StaysX ==
  ASSUME NEW p \in 0..MaxPtzX, NEW x \in Rounded(p * 3600, MaxPtzX),
         NEW f \in Rounded(x * MaxPtzX, 3600), NEW r \in Rounded((f - p) * 100 + 50 * 911, 911)
  PROVE  r = 50
<1> USE DEF MaxPtzX
<1>1. x \in Int /\ -4100 <= 2 * (x * 4100 - p * 3600) /\ 2 * (x * 4100 - p * 3600) <= 4100
  <2>1. p * 3600 \in Int /\ 4100 \in Nat \ {0} /\ x \in Rounded(p * 3600, 4100)
    OBVIOUS
  <2> QED BY ONLY <2>1, RoundedIs
<1>2. f \in Int /\ -3600 <= 2 * (f * 3600 - x * 4100) /\ 2 * (f * 3600 - x * 4100) <= 3600
  <2>1. x * 4100 \in Int /\ 3600 \in Nat \ {0} /\ f \in Rounded(x * 4100, 3600)
    BY <1>1
  <2> QED BY ONLY <2>1, RoundedIs
<1>3. /\ r \in Int
      /\ -911 <= 2 * (r * 911 - ((f - p) * 100 + 50 * 911))
      /\ 2 * (r * 911 - ((f - p) * 100 + 50 * 911)) <= 911
  <2>1. (f - p) * 100 + 50 * 911 \in Int /\ 911 \in Nat \ {0}
    BY <1>2
  <2> QED BY <2>1, RoundedIs
<1>4. f - p \in {-1, 0, 1}
  BY <1>1, <1>2
<1> QED BY <1>2, <1>3, <1>4

\* The same along the vertical axis, the right way up
LEMMA StaysY ==
  ASSUME NEW p \in 0..MaxPtzY, NEW y \in Rounded(p * 1800, MaxPtzY),
         NEW f \in Rounded(y * MaxPtzY, 1800), NEW r \in Rounded((f - p) * 100 + 50 * 694, 694)
  PROVE  r = 50
<1> USE DEF MaxPtzY
<1>1. y \in Int /\ -1250 <= 2 * (y * 1250 - p * 1800) /\ 2 * (y * 1250 - p * 1800) <= 1250
  <2>1. p * 1800 \in Int /\ 1250 \in Nat \ {0} /\ y \in Rounded(p * 1800, 1250)
    OBVIOUS
  <2> QED BY ONLY <2>1, RoundedIs
<1>2. f \in Int /\ -1800 <= 2 * (f * 1800 - y * 1250) /\ 2 * (f * 1800 - y * 1250) <= 1800
  <2>1. y * 1250 \in Int /\ 1800 \in Nat \ {0} /\ f \in Rounded(y * 1250, 1800)
    BY <1>1
  <2> QED BY ONLY <2>1, RoundedIs
<1>3. /\ r \in Int
      /\ -694 <= 2 * (r * 694 - ((f - p) * 100 + 50 * 694))
      /\ 2 * (r * 694 - ((f - p) * 100 + 50 * 694)) <= 694
  <2>1. (f - p) * 100 + 50 * 694 \in Int /\ 694 \in Nat \ {0}
    BY <1>2
  <2> QED BY <2>1, RoundedIs
<1>4. f - p \in {-1, 0, 1}
  BY <1>1, <1>2
<1> QED BY <1>2, <1>3, <1>4

\* and upside down.
LEMMA StaysUpsideDown ==
  ASSUME NEW p \in 0..MaxPtzY, NEW y \in Rounded(1800 * MaxPtzY - p * 1800, MaxPtzY),
         NEW f \in Rounded((1800 - y) * MaxPtzY, 1800),
             NEW r \in Rounded((f - p) * 100 + 50 * 694, 694)
  PROVE  r = 50
<1> USE DEF MaxPtzY
<1> DEFINE n == 1800 * 1250 - p * 1800
           q == (1800 - y) * 1250
<1>1. y \in Int /\ -1250 <= 2 * (y * 1250 - n) /\ 2 * (y * 1250 - n) <= 1250
  <2>1. n \in Int /\ 1250 \in Nat \ {0} /\ y \in Rounded(n, 1250)
    OBVIOUS
  <2> QED BY ONLY <2>1, RoundedIs
<1>2. f \in Int /\ -1800 <= 2 * (f * 1800 - q) /\ 2 * (f * 1800 - q) <= 1800
  <2>1. q \in Int /\ 1800 \in Nat \ {0} /\ f \in Rounded(q, 1800)
    BY <1>1
  <2> QED BY ONLY <2>1, RoundedIs
<1>3. /\ r \in Int
      /\ -694 <= 2 * (r * 694 - ((f - p) * 100 + 50 * 694))
      /\ 2 * (r * 694 - ((f - p) * 100 + 50 * 694)) <= 694
  <2>1. (f - p) * 100 + 50 * 694 \in Int /\ 694 \in Nat \ {0}
    BY <1>2
  <2> QED BY <2>1, RoundedIs
<1>4. f - p \in {-1, 0, 1}
  BY <1>1, <1>2
<1> QED BY <1>2, <1>3, <1>4

\* jump_abs to what get_pos prints is no move.
LEMMA NoMove ==
  ASSUME pos \in Places, NEW xy \in GetPos, NEW m \in JumpAbs(xy)
  PROVE  m = <<50, 50>>
<1>1. pos[1] \in 0..MaxPtzX /\ pos[2] \in 0..MaxPtzY
  BY IpcCmdAssumption
<1>2. /\ xy[1] \in Rounded(pos[1] * 3600, MaxPtzX)
      /\ xy[2] \in Rounded(IF Family = "V2_ALT" THEN 1800 * MaxPtzY - pos[2] * 1800
                           ELSE pos[2] * 1800, MaxPtzY)
  BY DEF GetPos
<1>3. PICK fx \in Rounded(xy[1] * MaxPtzX, 3600),
               fy \in Rounded(Downwards(xy[2]) * MaxPtzY, 1800) :
        m \in Rounded((fx - pos[1]) * 100 + 50 * 911, 911)
                \X Rounded((fy - pos[2]) * 100 + 50 * 694, 694)
  BY DEF JumpAbs
<1>4. /\ m = <<m[1], m[2]>>
      /\ m[1] \in Rounded((fx - pos[1]) * 100 + 50 * 911, 911)
      /\ m[2] \in Rounded((fy - pos[2]) * 100 + 50 * 694, 694)
  BY <1>3
<1>5. m[1] = 50
  BY <1>1, <1>2, <1>4, StaysX
<1>6. m[2] = 50
  <2>1. CASE Family = "V2_ALT"
    BY <1>1, <1>2, <1>4, <2>1, StaysUpsideDown DEF Downwards
  <2>2. CASE Family # "V2_ALT"
    BY <1>1, <1>2, <1>4, <2>2, StaysY DEF Downwards
  <2> QED BY <2>1, <2>2
<1> QED BY <1>4, <1>5, <1>6

\* Every step of the system keeps it.
LEMMA PosStep ==
  ASSUME PosInv, [Next]_vars
  PROVE  PosInv'
<1> USE DEF PosInv
<1>1. DOMAIN ipc' = Caller
  BY IpcDomain
<1>2. CASE IpcNext
  <2>1. IsSequence(queue')
    <3>1. CASE \E k \in 1..MaxCalls : DaemonSends(k)
      BY <3>1, SendsSeq DEF DaemonSends
    <3>2. ASSUME NEW c \in Caller, IpcStep(c) PROVE IsSequence(queue')
      <4>1. CASE SendOne(c)
        BY <4>1, SendsSeq DEF SendOne
      <4>2. CASE Jump(c)
        BY <4>2, SendsSeq DEF Jump
      <4>3. CASE SendFile(c)
        BY <4>3, SendsSeq DEF SendFile
      <4>4. CASE MarkMic(c) \/ IpcStart(c) \/ PrintPos(c) \/ ReadPtzFails(c) \/ Fork(c)
        BY <4>4 DEF MarkMic, IpcStart, PrintPos, ReadPtzFails, Fork
      <4> QED BY <3>2, <4>1, <4>2, <4>3, <4>4 DEF IpcStep
    <3> QED BY <1>2, <3>1, <3>2 DEF IpcNext
  <2>2. pos' = pos /\ (reported' = reported \/ reported' \in GetPos)
    BY <1>2 DEF IpcNext, IpcStep, MarkMic, IpcStart, SendOne, Jump, PrintPos, ReadPtzFails,
                SendFile, Fork, DaemonSends
  <2>3. GetPos' = GetPos
    BY <2>2 DEF GetPos
  <2> QED BY <1>1, <2>1, <2>2, <2>3
<1>3. CASE Dispatch
  <2>1. queue # <<>> /\ queue' = Tail(queue)
    BY <1>3 DEF Dispatch
  <2>2. IsSequence(queue')
    BY <2>1, SeqFacts
  <2>3. \/ pos' = pos /\ reported' = reported
        \/ pos' \in Places /\ reported' = IF pos' = pos THEN reported ELSE <<>>
    BY <1>3 DEF Dispatch
  <2>4. pos' = pos => GetPos' = GetPos
    BY DEF GetPos
  <2> QED BY <1>1, <2>2, <2>3, <2>4
<1>4. CASE PowerCut
  <2>1. IsSequence(<<>>)
    BY FromSeq, <<>> \in Seq({})
  <2>2. queue' = <<>> /\ pos' = pos /\ reported' = reported
    BY <1>4 DEF PowerCut
  <2>3. GetPos' = GetPos
    BY <2>2 DEF GetPos
  <2> QED BY <1>1, <2>1, <2>2, <2>3
<1>5. CASE UNCHANGED <<queue, pos, reported>>
  <2>1. GetPos' = GetPos
    BY <1>5 DEF GetPos
  <2> QED BY <1>1, <1>5, <2>1
<1>6. CASE CallbackNext
  BY <1>5, <1>6 DEF CallbackNext, McCallback, Ignore, RunIpcCmd, SystemReturns, RunDump,
     ReplaceCopy,
              ReplaceInPlace, IpcCall, ipcVars
<1>7. CASE Environment
  BY <1>4, <1>5, <1>7 DEF Environment, WebCall, IpcCall, WebSave, Publish, Fault, ReplaceFails,
     MqttStart, BrokerDown, BrokerBack, Sigterm, SedRename, ipcVars
<1>8. CASE ConfNext \/ ConnectionNext \/ UNCHANGED vars
  BY <1>5, <1>8 DEF ConfNext, ConnectionNext, vars, ipcVars
<1> QED BY <1>2, <1>3, <1>6, <1>7, <1>8 DEF Next

\* jump_abs of ipc_cmd to the angles get_pos has printed sends the message for no move, at
\* every position of the motor and for every family of models.
THEOREM StaysPut == Spec => JumpToReportedStays
<1> DEFINE Stays == \A c \in Caller :
                      (/\ reported # <<>> /\ Running(c, "jump_abs") /\ Arg(c) = reported
                       /\ Len(queue') > Len(queue) /\ ipc'[c] # ipc[c])
                        => queue'[Len(queue')].val = <<50, 50>>
<1>1. ASSUME PosInv, [Next]_vars PROVE [Stays]_vars
  <2>1. SUFFICES ASSUME NEW c \in Caller, reported # <<>>, Running(c, "jump_abs"),
                        Arg(c) = reported,
                        Len(queue') > Len(queue), ipc'[c] # ipc[c]
                 PROVE  queue'[Len(queue')].val = <<50, 50>>
    OBVIOUS
  <2>2. Len(queue) \in Nat
    BY <1>1, SeqFacts DEF PosInv
  <2>3. queue' # queue /\ queue' # <<>>
    BY <2>1, <2>2
  <2>4. ~Dispatch
    <3>1. SUFFICES ASSUME Dispatch PROVE FALSE
      OBVIOUS
    <3>2. queue # <<>> /\ queue' = Tail(queue)
      BY <3>1 DEF Dispatch
    <3>3. Len(queue') = Len(queue) - 1
      BY <1>1, <3>2, SeqFacts DEF PosInv
    <3> QED BY <2>1, <2>2, <3>3
  <2>5. IpcNext
    <3>1. ~PowerCut
      BY <2>3 DEF PowerCut
    <3>2. ~CallbackNext
      BY <2>3 DEF CallbackNext, McCallback, Ignore, RunIpcCmd, SystemReturns, RunDump,
         ReplaceCopy,
                  ReplaceInPlace, IpcCall, ipcVars
    <3>3. ~Environment
      BY <2>3, <3>1 DEF Environment, WebCall, IpcCall, Publish, BrokerDown, BrokerBack, Sigterm,
         WebSave, Fault, ReplaceFails, MqttStart, ipcVars
    <3>4. ~(ConfNext \/ ConnectionNext \/ UNCHANGED vars)
      BY <2>3 DEF ConfNext, ConnectionNext, vars, ipcVars
    <3> QED BY <1>1, <2>4, <3>2, <3>3, <3>4 DEF Next
  <2>6. IpcStep(c)
    <3>1. ASSUME NEW k \in 1..MaxCalls, DaemonSends(k) PROVE FALSE
      BY <2>1, <3>1 DEF DaemonSends
    <3>2. ASSUME NEW d \in Caller, d # c, IpcStep(d) PROVE FALSE
      BY <1>1, <2>1, <3>2 DEF PosInv, IpcStep, MarkMic, IpcStart, SendOne, Jump, PrintPos,
         ReadPtzFails,
                SendFile, Fork, Goes, Ends
    <3> QED BY <2>5, <3>1, <3>2 DEF IpcNext
  <2>7. Jump(c)
    BY <2>1, <2>3, <2>6 DEF Running, IpcStep, MarkMic, IpcStart, SendOne, PrintPos, ReadPtzFails,
                SendFile, Fork
  <2>8. PICK xy \in JumpAbs(reported) : Sends(Msg("jump", xy))
    BY <2>1, <2>7 DEF Jump, Running
  <2>9. queue'[Len(queue')] = Msg("jump", xy)
    BY <1>1, <2>8, SendsSeq DEF PosInv
  <2>10. xy = <<50, 50>>
    BY <1>1, <2>1, <2>8, NoMove DEF PosInv
  <2> QED BY <2>9, <2>10 DEF Msg
<1>2. PosInv /\ [Next]_vars => PosInv'
  BY PosStep
<1> QED BY <1>1, <1>2, InitPos, PTL DEF Spec, JumpToReportedStays
-----------------------------------------------------------------------------

\* The messages on their way to mqttv4 that set k.
Pending(k) == {i \in DOMAIN mq : IsCommand(mq[i]) /\ KeyOf[mq[i].name] = k}

\* v is what the camera was told of k, or k went off for another's sake.
Agrees(k, v) == v = cam[k] \/ (k \in Rules /\ v = "no")

\* The last message about k on its way to mqttv4 says what the camera was told; without
\* one, what is in hand says it, or else the file.
Told(k) ==
  /\ \A i \in Pending(k) : (\A j \in Pending(k) : j <= i) => ValueOf(mq[i]) = cam[k]
  /\ Pending(k) = {} =>
       /\ \A j \in DOMAIN todo : todo[j][1] = k => Agrees(k, todo[j][2])
       /\ (\A j \in DOMAIN todo : todo[j][1] # k) => Agrees(k, Current[k])

\* mqttv4 learns of every setting the camera was told.
CamInv ==
  /\ IsSequence(mq) /\ Len(mq) <= QueueLen
  /\ DOMAIN cam = Key
  /\ ~lost /\ torn \subseteq {"svc"} => \A k \in Key : Told(k)

\* At the start the file says what the camera knows.
LEMMA InitCam == Init => CamInv
<1>1. ASSUME Init PROVE CamInv
  <2>1. IsSequence(<<>>) /\ Len(<<>>) = 0
    BY FromSeq, <<>> \in Seq({})
  <2>2. mq = <<>> /\ todo = <<>> /\ at = "idle" /\ cam = conf /\ DOMAIN conf = Key
    BY <1>1 DEF Init, ConfInit
  <2>3. Current = cam
    BY <2>2 DEF Current
  <2>4. \A k : Told(k)
    BY <2>2, <2>3 DEF Told, Pending, Agrees
  <2> QED BY <2>1, <2>2, <2>4, IpcCmdAssumption DEF CamInv
<1> QED BY <1>1

\* A command is taken from the queue.
LEMMA CamReceive ==
  ASSUME CoreInv, CamInv, Receive, UNCHANGED <<cam, lost>>
  PROVE  CamInv'
<1>1. /\ mq # <<>> /\ mq' = Tail(mq) /\ IsSequence(mq) /\ Len(mq) \in Nat
      /\ at = "idle" /\ UNCHANGED <<conf, torn>> /\ cam' = cam /\ lost' = lost
      /\ todo = <<>> /\ at' \in {"idle", "read"}
  <2>1. at' \in {"idle", "read"}
    BY DEF Receive
  <2> QED BY <2>1, SeqFacts DEF Receive, CamInv, CoreInv, TodoShape
<1>2. IsSequence(mq') /\ Len(mq') <= QueueLen
  BY <1>1, SeqFacts, IpcCmdAssumption DEF CamInv
<1>3. Current = conf /\ Current' = conf
  BY <1>1 DEF Current
<1>4. ASSUME ~lost, torn \subseteq {"svc"}, NEW k \in Key PROVE Told(k)'
  <2>1. Told(k)
    BY <1>4 DEF CamInv
  <2>2. \A i \in DOMAIN mq' : i + 1 \in DOMAIN mq /\ mq'[i] = mq[i + 1] /\ i \in Nat
    BY <1>1, <1>2, TailFacts, SeqFacts
  <2>3. \A i \in DOMAIN mq : i # 1 => i - 1 \in DOMAIN mq' /\ mq'[i - 1] = mq[i] /\ i \in Nat
    BY <1>1, TailFacts, SeqFacts
  <2>4. \A i : i \in Pending(k)' => i + 1 \in Pending(k) /\ mq'[i] = mq[i + 1] /\ i \in Nat
    BY <2>2 DEF Pending
  <2>5. \A i \in Pending(k) : i # 1 => i - 1 \in Pending(k)' /\ i \in Nat
    BY <2>3 DEF Pending
  <2>6. ASSUME NEW i \in Pending(k)', \A j \in Pending(k)' : j <= i PROVE ValueOf(mq'[i]) = cam[k]
    <3>1. \A j \in Pending(k) : j <= i + 1
      <4> TAKE j \in Pending(k)
      <4>1. CASE j = 1
        BY <4>1, <2>4
      <4>2. CASE j # 1
        <5>1. j - 1 <= i /\ j \in Nat /\ i \in Nat
          BY <4>2, <2>4, <2>5, <2>6
        <5> QED BY <5>1
      <4> QED BY <4>1, <4>2
    <3> QED BY <2>1, <2>4, <2>6, <3>1 DEF Told
  <2>7. ASSUME Pending(k)' = {}
        PROVE  /\ \A j \in DOMAIN todo' : todo'[j][1] = k => Agrees(k, todo'[j][2])
               /\ (\A j \in DOMAIN todo' : todo'[j][1] # k) => Agrees(k, conf[k])
    <3>1. Pending(k) \subseteq {1}
      BY <2>5, <2>7
    <3>2. 1 \in DOMAIN mq /\ Head(mq) = mq[1]
      BY <1>1, TailFacts, SeqFacts
    <3>3. CASE Pending(k) = {}
      <4>1. Agrees(k, conf[k])
        BY <1>1, <1>3, <2>1, <3>3 DEF Told
      <4>2. \A j \in DOMAIN todo' : todo'[j][1] = k => Agrees(k, todo'[j][2])
        <5>1. CASE todo' = todo
          BY <1>1, <5>1
        <5>2. CASE IsCommand(Head(mq)) /\ TodoList(todo)' /\ todo'[1] = ParamOf(Head(mq))
          <6> TAKE j \in DOMAIN todo'
          <6>1. CASE j = 1
            BY <3>2, <3>3, <5>2, <6>1 DEF Pending, ParamOf
          <6>2. CASE j # 1
            <7>1. j >= 2
              BY <5>2, <6>2, SeqFacts DEF TodoList
            <7> QED BY <5>2, <7>1 DEF TodoList, Agrees
          <6> QED BY <6>1, <6>2
        <5> QED BY <5>1, <5>2, ReceiveList
      <4> QED BY <4>1, <4>2
    <3>4. CASE Pending(k) = {1}
      <4>1. IsCommand(Head(mq)) /\ KeyOf[Head(mq).name] = k /\ ValueOf(Head(mq)) = cam[k]
        BY <2>1, <3>2, <3>4 DEF Pending, Told
      <4>2. TodoList(todo)' /\ todo'[1] = <<k, cam[k]>> /\ todo' # <<>>
        <5>1. ParamOf(Head(mq)) = <<k, cam[k]>>
          BY <4>1 DEF ParamOf
        <5> QED BY <4>1, <5>1, <1>1, ReceiveList
      <4>3. \A j \in DOMAIN todo' : todo'[j][1] = k => Agrees(k, todo'[j][2])
        <5> TAKE j \in DOMAIN todo'
        <5>1. CASE j = 1
          BY <4>2, <5>1 DEF Agrees
        <5>2. CASE j # 1
          <6>1. j >= 2
            BY <4>2, <5>2, SeqFacts DEF TodoList
          <6> QED BY <4>2, <6>1 DEF TodoList, Agrees
        <5> QED BY <5>1, <5>2
      <4>4. 1 \in DOMAIN todo' /\ todo'[1][1] = k
        BY <4>2, TailFacts DEF TodoList
      <4> QED BY <4>3, <4>4
    <3> QED BY <3>1, <3>3, <3>4
  <2>8. \A v : Agrees(k, v)' <=> Agrees(k, v)
    BY <1>1 DEF Agrees
  <2> QED BY <1>1, <1>3, <2>6, <2>7 DEF Told, Agrees
<1> QED BY <1>1, <1>2, <1>4 DEF CamInv

\* The file is rewritten.
LEMMA CamReplace ==
  ASSUME CoreInv, CamInv, ReplaceRead \/ ReplaceRemove \/ CopyBack, UNCHANGED <<cam, lost>>
  PROVE  CamInv'
<1>1. /\ UNCHANGED <<mq, todo, torn, cam, lost>>
      /\ at \in {"read", "remove", "create", "write"}
  BY DEF ReplaceRead, ReplaceRemove, CopyBack
<1>2. 1 \in DOMAIN todo
  BY <1>1, TailFacts DEF CoreInv, TodoShape, TodoList
<1>3. ASSUME torn \subseteq {"svc"}, NEW x \in Key, x # todo[1][1]
      PROVE  Current'[x] = Current[x]
  <2>1. CASE ReplaceRemove \/ CopyBack
    BY <2>1 DEF ReplaceRemove, CopyBack, Current
  <2>2. CASE ReplaceRead
    <3>1. Current = conf /\ conf' = conf
      BY <2>2 DEF ReplaceRead, Current
    <3>2. Current' = conf \/ (Current' = [conf EXCEPT ![todo[1][1]] = todo[1][2]])
      BY <2>2 DEF ReplaceRead, Current, Changed
    <3>3. x \in DOMAIN conf
      BY <1>3, <2>2 DEF ReplaceRead, CoreInv, FileInv
    <3> QED BY <1>3, <3>1, <3>2, <3>3
  <2> QED BY <2>1, <2>2
<1>4. ASSUME ~lost, torn \subseteq {"svc"}, NEW k \in Key PROVE Told(k)'
  <2>1. Told(k)
    BY <1>4 DEF CamInv
  <2>2. (\A j \in DOMAIN todo : todo[j][1] # k) => Current'[k] = Current[k]
    BY <1>2, <1>3, <1>4
  <2> QED BY <1>1, <2>1, <2>2 DEF Told, Pending, Agrees
<1> QED BY <1>1, <1>4 DEF CamInv

\* A setting is done.
LEMMA CamPublish ==
  ASSUME CoreInv, CamInv, PublishStat, UNCHANGED <<cam, lost>>
  PROVE  CamInv'
<1>1. /\ UNCHANGED <<mq, conf, torn, cam, lost>> /\ todo' = Tail(todo)
      /\ at = "publish" /\ at' \in {"idle", "read"}
      /\ todo # <<>> /\ IsSequence(todo)
  BY DEF PublishStat, CoreInv, TodoShape, TodoList
<1>2. Current = conf /\ Current' = conf
  BY <1>1 DEF Current
<1>3. ASSUME ~lost, torn \subseteq {"svc"}, NEW k \in Key PROVE Told(k)'
  <2>1. Told(k)
    BY <1>3 DEF CamInv
  <2>2. \A j \in DOMAIN todo' : \E i \in DOMAIN todo : todo'[j] = todo[i]
    BY <1>1, TailFacts
  <2>3. \A j \in DOMAIN todo : j = 1 \/ \E i \in DOMAIN todo' : todo[j] = todo'[i]
    <3>1. \A j \in DOMAIN todo : j = 1 \/ j >= 2
      BY <1>1, SeqFacts
    <3> QED BY <1>1, <3>1, TailFacts
  <2>4. todo[1][1] = k => conf[k] = todo[1][2]
    BY <1>1, <1>2, <1>3 DEF CoreInv, FileInv, Handled
  <2>5. ASSUME Pending(k) = {}
        PROVE  /\ \A j \in DOMAIN todo' : todo'[j][1] = k => Agrees(k, todo'[j][2])
               /\ (\A j \in DOMAIN todo' : todo'[j][1] # k) => Agrees(k, conf[k])
    <3>1. \A j \in DOMAIN todo' : todo'[j][1] = k => Agrees(k, todo'[j][2])
      BY <2>1, <2>2, <2>5 DEF Told
    <3>2. ASSUME \A j \in DOMAIN todo' : todo'[j][1] # k PROVE Agrees(k, conf[k])
      <4>1. CASE todo[1][1] = k
        <5>1. 1 \in DOMAIN todo
          BY <1>1, TailFacts
        <5> QED BY <2>1, <2>4, <2>5, <4>1, <5>1 DEF Told
      <4>2. CASE todo[1][1] # k
        <5>1. \A j \in DOMAIN todo : todo[j][1] # k
          BY <2>3, <3>2, <4>2
        <5> QED BY <1>2, <2>1, <2>5, <5>1 DEF Told
      <4> QED BY <4>1, <4>2
    <3> QED BY <3>1, <3>2
  <2> QED BY <1>1, <1>2, <2>1, <2>5 DEF Told, Pending, Agrees
<1> QED BY <1>1, <1>3 DEF CamInv

\* A power cut, a stop or a start of mqttv4, after which nothing is claimed if something
\* was under way.
LEMMA CamCut ==
  ASSUME CoreInv, CamInv,
         \/ PowerCut
         \/ MqttStart
         \/ MqttStopped /\ lost' = (lost \/ at # "idle") /\ UNCHANGED cam
  PROVE  CamInv'
<1>1. /\ mq' \in {<<>>, mq} /\ UNCHANGED <<conf, cam>>
      /\ torn \subseteq torn'
      /\ lost \/ at \notin {"idle", "down"} \/ mq # mq' => lost'
      /\ at' \in {"down", "idle"} /\ (at \in {"down", "idle"} => todo' = <<>>)
  BY DEF PowerCut, MqttStart, MqttStarted, MqttStopped, TornHere, CoreInv, TodoShape
<1>2. IsSequence(<<>>) /\ Len(<<>>) = 0
  BY FromSeq, <<>> \in Seq({})
<1>3. ASSUME ~lost', torn' \subseteq {"svc"}, NEW k \in Key PROVE Told(k)'
  <2>1. /\ ~lost /\ torn \subseteq {"svc"} /\ at \in {"down", "idle"} /\ mq' = mq
        /\ todo = <<>> /\ todo' = <<>>
    BY <1>1, <1>3 DEF CoreInv, TodoShape
  <2>2. Told(k) /\ Current = conf /\ Current' = conf
    BY <1>1, <1>3, <2>1 DEF CamInv, Current
  <2> QED BY <1>1, <2>1, <2>2 DEF Told, Pending, Agrees
<1> QED BY <1>1, <1>2, <1>3, IpcCmdAssumption DEF CamInv

\* The camera is told of a setting, and mqttv4's queue gets the copy.
LEMMA CamDispatch ==
  ASSUME CamInv, Dispatch
  PROVE  CamInv'
<1> DEFINE m == Head(queue)
           sets == IsCommand(m) /\ KeyOf[m.name] \in Key
<1>1. /\ UNCHANGED <<conf, tmp, at, todo, torn>>
      /\ cam' = IF sets THEN [cam EXCEPT ![KeyOf[m.name]] = ValueOf(m)] ELSE cam
      /\ mq' = IF Len(mq) < QueueLen THEN Append(mq, m) ELSE mq
      /\ lost' = (lost \/ (IsCommand(m) /\ Len(mq) = QueueLen))
  BY DEF Dispatch
<1>2. Current' = Current
  BY <1>1 DEF Current
<1> HIDE DEF m
<1>3. /\ IsSequence(mq) /\ Len(mq) \in Nat /\ DOMAIN mq = 1..Len(mq)
      /\ QueueLen \in Nat /\ Len(mq) <= QueueLen
  BY SeqFacts, IpcCmdAssumption DEF CamInv
<1>4. CASE Len(mq) < QueueLen
  <2>1. /\ IsSequence(mq') /\ Len(mq') = Len(mq) + 1 /\ DOMAIN mq' = 1..(Len(mq) + 1)
        /\ mq'[Len(mq) + 1] = m /\ \A i \in DOMAIN mq : mq'[i] = mq[i]
    <3>1. mq' = Append(mq, m)
      BY <1>1, <1>4
    <3>2. IsSequence(mq') /\ Len(mq') = Len(mq) + 1
      BY <1>3, <3>1, AppendFacts
    <3>3. mq'[Len(mq) + 1] = m /\ \A i \in DOMAIN mq : mq'[i] = mq[i]
      BY <1>3, <3>1, AppendFacts
    <3>4. DOMAIN mq' = 1..(Len(mq) + 1)
      BY <3>2, SeqFacts
    <3> QED BY <3>2, <3>3, <3>4
  <2>2. ASSUME ~lost', torn \subseteq {"svc"}, NEW k \in Key PROVE Told(k)'
    <3>1. Told(k)
      BY <1>1, <2>2 DEF CamInv
    <3>2. CASE IsCommand(m) /\ KeyOf[m.name] = k
      <4>1. cam'[k] = ValueOf(m)
        BY <1>1, <2>2, <3>2 DEF CamInv
      <4>2. Len(mq) + 1 \in Pending(k)'
        BY <1>3, <2>1, <3>2 DEF Pending
      <4>3. \A i \in Pending(k)' : i \in 1..(Len(mq) + 1)
        BY <2>1 DEF Pending
      <4>4. \A i \in Pending(k)' : (\A j \in Pending(k)' : j <= i) => i = Len(mq) + 1
        BY <1>3, <4>2, <4>3
      <4> QED BY <2>1, <4>1, <4>2, <4>4 DEF Told
    <3>3. CASE ~(IsCommand(m) /\ KeyOf[m.name] = k)
      <4>1. cam'[k] = cam[k]
        BY <1>1, <3>3
      <4>2. Pending(k)' = Pending(k) /\ \A i \in Pending(k) : mq'[i] = mq[i]
        <5>1. \A i \in DOMAIN mq' : i \in DOMAIN mq \/ i = Len(mq) + 1
          BY <1>3, <2>1
        <5>2. DOMAIN mq \subseteq DOMAIN mq'
          BY <1>3, <2>1
        <5> QED BY <2>1, <3>3, <5>1, <5>2 DEF Pending
      <4> QED BY <1>1, <1>2, <3>1, <4>1, <4>2 DEF Told, Agrees
    <3> QED BY <3>2, <3>3
  <2>3. DOMAIN cam' = Key
    BY <1>1 DEF CamInv
  <2>4. ~lost' /\ torn' \subseteq {"svc"} => \A k \in Key : Told(k)'
    BY <1>1, <2>2
  <2>5. Len(mq') <= QueueLen
    BY <1>3, <1>4, <2>1
  <2> QED BY <2>1, <2>3, <2>4, <2>5 DEF CamInv
<1>5. CASE Len(mq) = QueueLen
  <2>1. mq' = mq
    BY <1>1, <1>3, <1>5
  <2>2. ASSUME ~lost', torn \subseteq {"svc"}, NEW k \in Key PROVE Told(k)'
    <3>1. ~IsCommand(m) /\ ~lost
      BY <1>1, <1>5, <2>2
    <3>2. cam' = cam
      BY <1>1, <3>1
    <3>3. Told(k)
      BY <2>2, <3>1 DEF CamInv
    <3> QED BY <1>1, <1>2, <2>1, <3>2, <3>3 DEF Told, Pending, Agrees
  <2>3. DOMAIN cam' = Key
    BY <1>1 DEF CamInv
  <2> QED BY <1>1, <2>1, <2>2, <2>3 DEF CamInv
<1>6. Len(mq) < QueueLen \/ Len(mq) = QueueLen
  <2>1. Len(mq) \in Nat /\ QueueLen \in Nat /\ Len(mq) <= QueueLen
    BY <1>3
  <2> QED BY ONLY <2>1
<1> QED BY <1>4, <1>5, <1>6

\* Every step of the system keeps it.
LEMMA CamStep ==
  ASSUME CoreInv, CamInv, [Next]_vars
  PROVE  CamInv'
<1>1. CASE CommandNext /\ UNCHANGED <<cam, lost>>
  BY <1>1, CamReceive, CamReplace, CamPublish DEF CommandNext
<1>2. CASE \/ PowerCut
           \/ MqttStart
           \/ MqttStopped /\ lost' = (lost \/ at # "idle") /\ UNCHANGED cam
  BY <1>2, CamCut
<1>3. CASE Dispatch
  BY <1>3, CamDispatch
<1>6. CASE (ReplaceReadFails \/ CopyBackFails) /\ UNCHANGED <<cam, lost>>
  BY <1>6 DEF ReplaceReadFails, CopyBackFails, CamInv
<1>4. CASE UNCHANGED <<conf, mq, todo, at, tmp, cam, lost>> /\ torn \subseteq torn'
  <2>1. Current' = Current
    BY <1>4 DEF Current
  <2> QED BY <1>4, <2>1 DEF CamInv, Told, Pending, Agrees
<1>5. CASE (DumpLine \/ DumpOpen) /\ UNCHANGED <<cam, lost>>
  BY <1>4, <1>5 DEF DumpLine, DumpOpen
<1> QED BY <1>1, <1>2, <1>3, <1>4, <1>5, <1>6, Footprint
-----------------------------------------------------------------------------

\* The place of mic in the order of main, and what it may be set to.
MicSlot == 14
OnOffVal == {<<"off">>, <<"on">>}

\* What may be left to do for the variable at the place k: only mic sends a message about
\* the microphone, and only --start leaves a daemon, which sends.
StepsOK(k, s) ==
  /\ IsSequence(s) /\ s # <<>>
  /\ k <= MicSlot => Len(s) = 1 /\ s[1].do = "send"
  /\ k = MicSlot => s[1].arg.name = "mic" /\ s[1].arg.val \in OnOffVal
  /\ k # MicSlot => \A i \in DOMAIN s : s[i].do = "send" => s[i].arg.name # "mic"
  /\ k < 28 => \A i \in DOMAIN s : s[i].do # "fork"
  /\ k = 28 => \A i \in DOMAIN s : s[i].do \in {"send", "fork"}
  /\ k = 28 => \A i, j \in DOMAIN s : i < j /\ s[i].do = "fork" => s[j].do = "send"
  /\ k > 28 => \A i \in DOMAIN s : s[i].do = "send"

\* What may be left of a call.
ProgOK(prog) ==
  /\ IsFcn(prog) /\ DOMAIN prog \subseteq 1..30
  /\ \A k \in DOMAIN prog : StepsOK(k, prog[k])

\* A set of places has a least one,
LEMMA LeastOf ==
  ASSUME NEW S \in SUBSET Nat, S # {}
  PROVE  Min(S) \in S /\ \A j \in S : Min(S) <= j
<1>1. \E i \in S : \A j \in S : i <= j
  <2>1. PICK i \in S : \A j \in S : ~(<<j, i>> \in OpToRel(<, Nat))
    BY NatLessThanWellFounded, WFMin, Zenon
  <2>2. \A j \in S : ~(j < i)
    BY <2>1 DEF OpToRel
  <2> QED BY <2>2
<1> QED BY <1>1, Zenon DEF Min

\* and a bounded one a greatest.
LEMMA GreatestOf ==
  ASSUME NEW n \in Nat, NEW S \in SUBSET (1..n), S # {}
  PROVE  Max(S) \in S
<1>1. \E i \in S : \A j \in S : i >= j
  <2> DEFINE T == {n - x : x \in S}
  <2>1. T \in SUBSET Nat /\ T # {}
    <3>1. \A x \in S : n - x \in Nat
      <4>1. TAKE x \in S
      <4>2. x \in 1..n
        OBVIOUS
      <4>3. \A y \in 1..n : n - y \in Nat
        OBVIOUS
      <4> QED BY ONLY <4>2, <4>3
    <3>2. PICK x \in S : TRUE
      OBVIOUS
    <3>3. n - x \in T
      BY <3>2
    <3> QED BY <3>1, <3>3
  <2> HIDE DEF T
  <2>2. Min(T) \in T /\ \A j \in T : Min(T) <= j
    BY <2>1, LeastOf
  <2>3. PICK i \in S : Min(T) = n - i
    BY <2>2 DEF T
  <2>4. \A j \in S : n - i <= n - j
    BY <2>2, <2>3 DEF T
  <2>5. \A j \in S : i >= j
    BY <2>4
  <2> QED BY <2>5
<1> QED BY <1>1, Zenon DEF Max

\* Nothing is left of a call for no place in the order.
LEMMA EmptyProg ==
  ASSUME NEW f, IsFcn(f)
  PROVE  f = <<>> <=> DOMAIN f = {}
<1>1. IsFcn(<<>>) /\ DOMAIN <<>> = {}
  BY DEF IsFcn
<1> QED BY <1>1 DEF IsFcn

\* The step in hand, and what is left.
LEMMA RestOK ==
  ASSUME NEW prog, ProgOK(prog), prog # <<>>
  PROVE  \E k \in DOMAIN prog :
           /\ \A j \in DOMAIN prog : k <= j
           /\ StepsOK(k, prog[k]) /\ InHand(prog) = prog[k][1]
           /\ ProgOK(Rest(prog))
           /\ DOMAIN Rest(prog) \subseteq DOMAIN prog
           /\ \A j \in DOMAIN prog : j # k => j \in DOMAIN Rest(prog) /\ Rest(prog)[j] = prog[j]
           /\ k <= MicSlot => k \notin DOMAIN Rest(prog)
           /\ k \in DOMAIN Rest(prog) => Rest(prog)[k] = Tail(prog[k])
<1> DEFINE k == Min(DOMAIN prog)
           s == prog[k]
<1>1. k \in DOMAIN prog /\ (\A j \in DOMAIN prog : k <= j) /\ k \in 1..30
  <2>1. DOMAIN prog \in SUBSET Nat /\ DOMAIN prog # {}
    <3>1. IsFcn(prog) /\ DOMAIN prog \subseteq 1..30
      BY DEF ProgOK
    <3>2. DOMAIN prog # {}
      BY <3>1, EmptyProg, Zenon
    <3>3. \A i \in 1..30 : i \in Nat
      OBVIOUS
    <3> HIDE DEF k, s
    <3> QED BY ONLY <3>1, <3>2, <3>3
  <2> QED BY <2>1, LeastOf DEF ProgOK
<1>2. StepsOK(k, s) /\ IsSequence(s) /\ s # <<>>
  BY <1>1 DEF ProgOK, StepsOK
<1>3. InHand(prog) = s[1]
  BY <1>2, SeqFacts DEF InHand
<1>4. Rest(prog) = IF Len(s) = 1 THEN [i \in DOMAIN prog \ {k} |-> prog[i]]
          ELSE [prog EXCEPT ![k] = Tail(s)]
  BY DEF Rest
<1> HIDE DEF k
<1>5. CASE Len(s) = 1
  <2>1. Rest(prog) = [i \in DOMAIN prog \ {k} |-> prog[i]]
    BY <1>4, <1>5
  <2>2. ProgOK(Rest(prog))
    BY <2>1 DEF ProgOK, IsFcn
  <2> QED BY <1>1, <1>2, <1>3, <2>1, <2>2
<1>6. CASE Len(s) # 1
  <2>1. Rest(prog) = [prog EXCEPT ![k] = Tail(s)] /\ IsFcn(prog)
    BY <1>4, <1>6 DEF ProgOK
  <2>2. /\ IsFcn(Rest(prog)) /\ DOMAIN Rest(prog) = DOMAIN prog /\ Rest(prog)[k] = Tail(s)
        /\ \A j \in DOMAIN prog : j # k => Rest(prog)[j] = prog[j]
    BY <1>1, <2>1 DEF IsFcn
  <2>3. StepsOK(k, Tail(s))
    <3>1. /\ IsSequence(Tail(s)) /\ Tail(s) # <<>>
          /\ \A i \in DOMAIN Tail(s) : i + 1 \in DOMAIN s /\ i + 1 > 1 /\ Tail(s)[i] = s[i + 1]
                 /\ i \in Nat
      <4>1. IsSequence(Tail(s)) /\ Tail(s) # <<>>
        BY <1>2, <1>6, SeqFacts, TailFacts
      <4>2. \A i \in DOMAIN Tail(s) : i \in Nat /\ i >= 1
        BY <4>1, SeqFacts
      <4>3. \A i \in DOMAIN Tail(s) : i + 1 \in DOMAIN s /\ Tail(s)[i] = s[i + 1]
        BY <1>2, TailFacts
      <4> QED BY <4>1, <4>2, <4>3
    <3>2. k > MicSlot
      BY <1>1, <1>2, <1>6 DEF StepsOK, MicSlot
    <3>3. k # MicSlot /\ ~(k <= MicSlot)
      BY <1>1, <3>2 DEF MicSlot
    <3>4. 1 \in DOMAIN Tail(s)
      BY <3>1, TailFacts
    <3> HIDE DEF s
    <3>5. k = 28 => \A i, j \in DOMAIN Tail(s) : i < j /\ Tail(s)[i].do = "fork"
              => Tail(s)[j].do = "send"
      <4>1. SUFFICES ASSUME k = 28, NEW i \in DOMAIN Tail(s), NEW j \in DOMAIN Tail(s),
                            i < j, Tail(s)[i].do = "fork"
                     PROVE  Tail(s)[j].do = "send"
        OBVIOUS
      <4>2. i + 1 < j + 1 /\ i + 1 \in DOMAIN s /\ j + 1 \in DOMAIN s /\ s[i + 1].do = "fork"
            /\ Tail(s)[j] = s[j + 1]
        BY <3>1, <4>1
      <4> QED BY <1>2, <4>1, <4>2 DEF StepsOK
    <3> QED BY <1>2, <3>1, <3>3, <3>5 DEF StepsOK
  <2>4. ProgOK(Rest(prog))
    BY <2>2, <2>3 DEF ProgOK
  <2>5. ~(k <= MicSlot)
    BY <1>1, <1>2, <1>6 DEF StepsOK
  <2> QED BY <1>1, <1>2, <1>3, <2>2, <2>4, <2>5
<1> QED BY <1>5, <1>6

\* Where the variables are that are not sent just by their name.
Special == {"move", "jump_abs", "jump_rel", "preset", "add_preset", "get_pos",
            "set_home_position", "remove_preset", "cruise", "file", "start", "stop"}

\* The order of main, place by place.
LEMMA OrderIs ==
  /\ DOMAIN Order = 1..30 /\ Order[14] = "mic"
  /\ \A k \in 1..30 : Order[k] = "mic" <=> k = 14
  /\ \A k \in 1..30 : k \in 1..17 \cup {30} => Order[k] \notin Special
  /\ Order[18] = "move" /\ Order[19] = "jump_abs" /\ Order[20] = "jump_rel"
  /\ Order[21] = "preset" /\ Order[22] = "add_preset" /\ Order[23] = "get_pos"
  /\ Order[24] = "set_home_position" /\ Order[25] = "remove_preset" /\ Order[26] = "cruise"
  /\ Order[27] = "file" /\ Order[28] = "start" /\ Order[29] = "stop"
  BY DEF Order, Special

\* One step for a variable,
LEMMA OneStep ==
  ASSUME NEW k \in (1..30) \ {28}, NEW x,
         k <= MicSlot \/ k > 28 => x.do = "send",
         k < 28 => x.do # "fork",
         k = MicSlot => x.arg.name = "mic" /\ x.arg.val \in OnOffVal,
         k # MicSlot /\ x.do = "send" => x.arg.name # "mic"
  PROVE  StepsOK(k, <<x>>)
<1> DEFINE s == <<x>>
<1>1. Len(s) = 1 /\ DOMAIN s = {1} /\ s[1] = x /\ s # <<>>
  OBVIOUS
<1>2. IsSequence(s)
  <2>1. s \in Seq({x})
    OBVIOUS
  <2> QED BY <2>1, FromSeq
<1> HIDE DEF s
<1>3. k # 28
  OBVIOUS
<1>4. /\ k <= MicSlot => Len(s) = 1 /\ s[1].do = "send"
      /\ k = MicSlot => s[1].arg.name = "mic" /\ s[1].arg.val \in OnOffVal
      /\ k # MicSlot => \A i \in DOMAIN s : s[i].do = "send" => s[i].arg.name # "mic"
      /\ k < 28 => \A i \in DOMAIN s : s[i].do # "fork"
      /\ k > 28 => \A i \in DOMAIN s : s[i].do = "send"
  BY <1>1
<1> QED BY <1>1, <1>2, <1>3, <1>4 DEF StepsOK, s

\* A message to the camera, not about the microphone; and a row of them.
IsOther(x) == x.do = "send" /\ x.arg.name # "mic"
Others(s) == IsSequence(s) /\ s # <<>> /\ \A i \in DOMAIN s : IsOther(s[i])

\* One or two messages,
LEMMA ShortRow ==
  ASSUME NEW e, NEW f, IsOther(e), IsOther(f)
  PROVE  Others(<<e>>) /\ Others(<<e, f>>)
<1> DEFINE s == <<e>>
           t == <<e, f>>
<1>1. s \in Seq({e}) /\ DOMAIN s = {1} /\ s[1] = e /\ s # <<>>
  OBVIOUS
<1>2. t \in Seq({e, f}) /\ DOMAIN t = {1, 2} /\ t[1] = e /\ t[2] = f /\ t # <<>>
  OBVIOUS
<1> HIDE DEF s, t
<1>3. IsSequence(s) /\ IsSequence(t)
  BY <1>1, <1>2, FromSeq
<1>4. Others(s) /\ Others(t)
  BY <1>1, <1>2, <1>3 DEF Others
<1> QED BY <1>4 DEF s, t

\* or eight, as when all presets are removed.
LEMMA RowOfEight ==
  ASSUME NEW s, DOMAIN s = 1..8, IsFcn(s), \A i \in 1..8 : IsOther(s[i])
  PROVE  Others(s)
<1>1. s \in [1..8 -> ToSet(s)]
  BY DEF ToSet, IsFcn
<1>2. s \in UNION {[1..n -> ToSet(s)] : n \in Nat}
  BY <1>1, 8 \in Nat, Zenon
<1>3. s \in Seq(ToSet(s))
  BY <1>2, SeqDef
<1>4. s # <<>>
  <2>1. 1 \in DOMAIN s
    OBVIOUS
  <2>2. DOMAIN <<>> = {}
    OBVIOUS
  <2> QED BY <2>1, <2>2
<1> QED BY <1>3, <1>4 DEF Others, IsSequence

\* Several messages in a row, after the place of the microphone.
LEMMA SeveralSteps ==
  ASSUME NEW k \in 15..27, NEW s, Others(s)
  PROVE  StepsOK(k, s)
<1>1. ~(k <= 14) /\ k # 14 /\ k < 28 /\ k # 28 /\ ~(k > 28)
  OBVIOUS
<1>2. /\ IsSequence(s) /\ s # <<>>
      /\ \A i \in DOMAIN s : s[i].do = "send" /\ s[i].do # "fork" /\ s[i].arg.name # "mic"
  BY DEF Others, IsOther
<1> QED BY <1>1, <1>2 DEF StepsOK, MicSlot

\* --start: a message, a daemon, and the message of that daemon.
LEMMA StartSteps == StepsOK(28, StartMotion)
<1> DEFINE a == Send("motion", <<"start">>)
           b == Do("fork", <<>>)
           c == Send("motion", <<"stop">>)
           s == <<a, b, c>>
<1>1. /\ a.do = "send" /\ a.arg.name = "motion" /\ b.do = "fork"
      /\ c.do = "send" /\ c.arg.name = "motion"
  BY DEF Send, Do, Msg
<1> HIDE DEF a, b, c
<1>2. s \in Seq({a, b, c}) /\ DOMAIN s = 1..3 /\ s[1] = a /\ s[2] = b /\ s[3] = c /\ s # <<>>
  OBVIOUS
<1>3. IsSequence(s)
  BY <1>2, FromSeq
<1>4. StartMotion = s
  BY DEF StartMotion, a, b, c
<1> HIDE DEF s
<1>5. \A i \in DOMAIN s : s[i].do \in {"send", "fork"}
          /\ (s[i].do = "send" => s[i].arg.name # "mic")
  BY <1>1, <1>2
<1>6. \A i, j \in DOMAIN s : i < j /\ s[i].do = "fork" => s[j].do = "send"
  BY <1>1, <1>2
<1> QED BY <1>2, <1>3, <1>4, <1>5, <1>6 DEF StepsOK, MicSlot

\* What main does for one of its variables.
LEMMA NewSteps ==
  ASSUME NEW v, v["mic"] \in OnOffVal \cup {<<>>}, NEW k \in 1..30, v[Order[k]] # <<>>
  PROVE  /\ StepsOK(k, Steps(Order[k], v))
         /\ k = MicSlot => Steps(Order[k], v)[1].arg.val = v["mic"]
<1>1. CASE k \in 1..17 \cup {30}
  <2>1. Steps(Order[k], v) = <<Send(Order[k], v[Order[k]])>>
    BY <1>1, OrderIs DEF Steps, Special
  <2> DEFINE x == Send(Order[k], v[Order[k]])
  <2>2. x.do = "send" /\ x.arg.name = Order[k] /\ x.arg.val = v[Order[k]]
    BY DEF Send, Do, Msg
  <2>3. k = MicSlot <=> Order[k] = "mic"
    BY OrderIs DEF MicSlot
  <2>4. Steps(Order[k], v) = <<x>> /\ <<x>>[1] = x
    BY <2>1
  <2> HIDE DEF x
  <2>5. k = MicSlot => x.arg.name = "mic" /\ x.arg.val = v["mic"] /\ x.arg.val \in OnOffVal
    BY <2>2, <2>3
  <2>6. k \in (1..30) \ {28} /\ (k # MicSlot => x.arg.name # "mic")
    BY <1>1, <2>2, <2>3
  <2>7. StepsOK(k, <<x>>)
    BY <2>2, <2>5, <2>6, OneStep
  <2> QED BY <2>4, <2>5, <2>7
<1>2. CASE k = 28
  BY <1>2, OrderIs, StartSteps DEF Steps, MicSlot
<1>3. CASE k \in {18, 19, 20, 21, 22, 23, 27, 29}
  <2>1. \E x : /\ Steps(Order[k], v) = <<x>>
               /\ \/ x.do = "send" /\ x.arg.name # "mic"
                  \/ k # 29 /\ x.do \in {"jump_abs", "jump_rel", "get_pos", "file"}
    <3>1. CASE k = 18
      BY <3>1, OrderIs DEF Steps, Send, Do, Msg
    <3>2. CASE k = 19
      BY <3>2, OrderIs DEF Steps, Send, Do, Msg
    <3>3. CASE k = 20
      BY <3>3, OrderIs DEF Steps, Send, Do, Msg
    <3>4. CASE k = 21
      BY <3>4, OrderIs DEF Steps, Send, Do, Msg
    <3>5. CASE k = 22
      BY <3>5, OrderIs DEF Steps, Send, Do, Msg
    <3>6. CASE k = 23
      BY <3>6, OrderIs DEF Steps, Send, Do, Msg
    <3>7. CASE k = 27
      BY <3>7, OrderIs DEF Steps, Send, Do, Msg
    <3>8. CASE k = 29
      BY <3>8, OrderIs DEF Steps, Send, Do, Msg
    <3> QED BY <1>3, <3>1, <3>2, <3>3, <3>4, <3>5, <3>6, <3>7, <3>8
  <2>2. PICK x : /\ Steps(Order[k], v) = <<x>>
               /\ \/ x.do = "send" /\ x.arg.name # "mic"
                  \/ k # 29 /\ x.do \in {"jump_abs", "jump_rel", "get_pos", "file"}
    BY <2>1
  <2>3. k \in (1..30) \ {28} /\ ~(k <= MicSlot) /\ k # MicSlot /\ (k > 28 => k = 29)
    BY <1>3 DEF MicSlot
  <2>4. x.do # "fork" /\ (k > 28 => x.do = "send") /\ (x.do = "send" => x.arg.name # "mic")
    BY <2>2, <2>3
  <2>5. StepsOK(k, <<x>>)
    BY <2>3, <2>4, OneStep
  <2> QED BY <2>2, <2>3, <2>5
<1>4. CASE k \in {24, 25, 26}
  <2> DEFINE s == Steps(Order[k], v)
  <2>1. Others(s)
    <3>1. \A n \in {"remove_preset", "add_preset", "cruise"} : \A a : IsOther(Send(n, a))
      BY DEF Send, Do, Msg, IsOther
    <3>2. CASE k = 24
      <4>1. s = <<Send("remove_preset", <<0>>), Send("add_preset", <<>>)>>
        BY <3>2, OrderIs DEF Steps, SetHomePosition
      <4> HIDE DEF s
      <4> QED BY <3>1, <4>1, ShortRow
    <3>3. CASE k = 25
      <4>1. s = RemovePreset(v["remove_preset"][1])
        BY <3>3, OrderIs DEF Steps
      <4> HIDE DEF s
      <4>2. CASE v["remove_preset"][1] = 255
        <5>1. s = [i \in 1..8 |-> Send("remove_preset", <<i - 1>>)]
          BY <4>1, <4>2 DEF RemovePreset
        <5>2. DOMAIN s = 1..8 /\ IsFcn(s) /\ \A i \in 1..8 :
                  s[i] = Send("remove_preset", <<i - 1>>)
          BY <5>1 DEF IsFcn
        <5>3. \A i \in 1..8 : IsOther(s[i])
          BY <3>1, <5>2
        <5> QED BY <5>2, <5>3, RowOfEight
      <4>3. CASE v["remove_preset"][1] # 255
        <5>1. s = <<Send("remove_preset", <<v["remove_preset"][1]>>)>>
          BY <4>1, <4>3 DEF RemovePreset
        <5> QED BY <3>1, <5>1, ShortRow
      <4> QED BY <4>2, <4>3
    <3>4. CASE k = 26
      <4>1. s = Cruise(v["cruise"][1])
        BY <3>4, OrderIs DEF Steps
      <4> HIDE DEF s
      <4>2. \/ s = <<Send("cruise", <<v["cruise"][1]>>)>>
            \/ s = <<Send("cruise", <<"on">>), Send("cruise", <<v["cruise"][1]>>)>>
        BY <4>1 DEF Cruise
      <4> QED BY <3>1, <4>2, ShortRow
    <3> QED BY <1>4, <3>2, <3>3, <3>4
  <2> HIDE DEF s
  <2>2. k \in 15..27 /\ k # 14
    BY <1>4
  <2>3. StepsOK(k, s)
    BY <2>1, <2>2, SeveralSteps
  <2> QED BY <2>2, <2>3 DEF s, MicSlot
<1> QED BY <1>1, <1>2, <1>3, <1>4

\* What main does for all of them: of the microphone it says what the option said.
LEMMA NewProgram ==
  ASSUME NEW v, v["mic"] \in OnOffVal \cup {<<>>}
  PROVE  /\ ProgOK(Program(v))
         /\ MicSlot \in DOMAIN Program(v) <=> v["mic"] # <<>>
         /\ MicSlot \in DOMAIN Program(v) => Program(v)[MicSlot][1].arg.val = v["mic"]
<1> DEFINE S == {i \in 1..30 : v[Order[i]] # <<>>}
<1>1. Program(v) = [k \in S |-> Steps(Order[k], v)]
  BY OrderIs DEF Program
<1>2. \A k \in S : StepsOK(k, Steps(Order[k], v))
          /\ (k = MicSlot => Steps(Order[k], v)[1].arg.val = v["mic"])
  <2> TAKE k \in S
  <2> QED BY NewSteps
<1>3. MicSlot \in S <=> v["mic"] # <<>>
  BY OrderIs DEF MicSlot
<1>4. S \subseteq 1..30
  OBVIOUS
<1> HIDE DEF S
<1> DEFINE p == Program(v)
<1>5. DOMAIN p = S /\ IsFcn(p) /\ \A k \in S : p[k] = Steps(Order[k], v)
  BY <1>1 DEF IsFcn
<1> HIDE DEF p
<1>6. ProgOK(p)
  BY <1>2, <1>4, <1>5 DEF ProgOK
<1> QED BY <1>2, <1>3, <1>5, <1>6 DEF p
-----------------------------------------------------------------------------

\* What the options leave in the variable mic.
LEMMA ParseMic ==
  ASSUME NEW argv, IsSequence(argv), NEW v, Parse(argv) = <<v>>
  PROVE  v["mic"] \in OnOffVal \cup {<<>>}
<1>1. v = [var \in ToSet(Order) \cup {"xy"} |->
             IF var = "xy" THEN ParseXY(argv) ELSE ParseVar(argv, var)]
  BY DEF Parse
<1>2. "mic" \in ToSet(Order)
  BY OrderIs, 14 \in 1..30 DEF ToSet
<1>3. v["mic"] = ParseVar(argv, "mic")
  BY <1>1, <1>2
<1> DEFINE S == Settings(argv, {"mic"})
<1>4. CASE S = {}
  BY <1>3, <1>4 DEF ParseVar
<1>5. CASE S # {}
  <2>1. Max(S) \in S
    <3>1. S \subseteq 1..Len(argv) /\ Len(argv) \in Nat
      BY SeqFacts DEF Settings
    <3> HIDE DEF S
    <3> QED BY <1>5, <3>1, GreatestOf
  <2> DEFINE oa == argv[Max(S)]
  <2>2. VarOf(oa[1]) = "mic"
    BY <2>1 DEF Settings
  <2>3. v["mic"] = ArgOf(oa[1], oa[2])
    BY <1>3, <1>5 DEF ParseVar
  <2> HIDE DEF oa, S
  <2>4. oa[1] = "mic"
    BY <2>2 DEF VarOf
  <2>5. ArgOf("mic", oa[2]) \in OnOffVal \cup {<<>>}
    <3>1. "mic" \in OnOff
      BY DEF OnOff
    <3> QED BY <3>1, SwitchUnderstood, SwitchIs DEF OnOffVal
  <2> QED BY <2>3, <2>4, <2>5
<1> QED BY <1>4, <1>5

\* A call on its way.
CallOK(r) ==
  /\ DOMAIN r = {"at", "mic", "prog"} /\ ProgOK(r.prog)
  /\ r.at = "run" => r.prog # <<>>
  /\ r.at = "mark" => MicSlot \in DOMAIN r.prog /\ r.prog[MicSlot][1].arg.val = r.mic

\* A daemon has something left to do, and it is about motion.
DaemonOK(prog) ==
  /\ ProgOK(prog) /\ prog # <<>>
  /\ \A k \in DOMAIN prog : k >= 28 /\ \A i \in DOMAIN prog[k] : prog[k][i].do = "send"

\* Every call and every daemon does what its options asked for.
ProgInv ==
  /\ \A c \in Caller : CallOK(ipc[c])
  /\ IsSequence(daemons) /\ \A d \in DOMAIN daemons : DaemonOK(daemons[d])

\* A caller that has no call.
LEMMA IdleOK == CallOK(Idle) /\ MicSlot \notin DOMAIN Idle.prog /\ Idle.at = "idle"
<1>1. DOMAIN <<>> = {} /\ IsFcn(<<>>)
  BY DEF IsFcn
<1>2. ProgOK(<<>>)
  BY <1>1 DEF ProgOK
<1> QED BY <1>1, <1>2 DEF CallOK, Idle

\* The step in hand is the microphone's message, or another one.
LEMMA HandMic ==
  ASSUME NEW prog, ProgOK(prog), prog # <<>>,
         NEW x, x = InHand(prog)
  PROVE  /\ x.do = "send" /\ x.arg.name = "mic" =>
              /\ MicSlot \in DOMAIN prog /\ x = prog[MicSlot][1] /\ x.arg.val \in OnOffVal
              /\ MicSlot \notin DOMAIN Rest(prog)
         /\ ~(x.do = "send" /\ x.arg.name = "mic") =>
              /\ MicSlot \in DOMAIN prog <=> MicSlot \in DOMAIN Rest(prog)
              /\ MicSlot \in DOMAIN prog => Rest(prog)[MicSlot] = prog[MicSlot]
         /\ x.do # "send" => MicSlot \notin DOMAIN prog
         /\ ProgOK(Rest(prog))
<1>1. PICK k \in DOMAIN prog :
           /\ \A j \in DOMAIN prog : k <= j
           /\ StepsOK(k, prog[k]) /\ InHand(prog) = prog[k][1]
           /\ ProgOK(Rest(prog))
           /\ DOMAIN Rest(prog) \subseteq DOMAIN prog
           /\ \A j \in DOMAIN prog : j # k => j \in DOMAIN Rest(prog) /\ Rest(prog)[j] = prog[j]
           /\ k <= MicSlot => k \notin DOMAIN Rest(prog)
           /\ k \in DOMAIN Rest(prog) => Rest(prog)[k] = Tail(prog[k])
  BY RestOK
<1>2. k \in 1..30 /\ 1 \in DOMAIN prog[k]
  <2>1. IsSequence(prog[k]) /\ prog[k] # <<>>
    BY <1>1 DEF StepsOK
  <2> QED BY <1>1, <2>1, TailFacts DEF ProgOK
<1>3. CASE k = MicSlot
  BY <1>1, <1>2, <1>3 DEF StepsOK, MicSlot
<1>4. CASE k # MicSlot
  <2>1. x.do = "send" => x.arg.name # "mic"
    BY <1>1, <1>2, <1>4 DEF StepsOK
  <2>2. x.do # "send" => MicSlot \notin DOMAIN prog
    <3>1. x.do # "send" => ~(k <= MicSlot)
      BY <1>1 DEF StepsOK
    <3> QED BY <1>1, <3>1
  <2> QED BY <1>1, <1>4, <2>1, <2>2
<1> QED BY <1>3, <1>4

\* What a daemon is left for.
LEMMA LeftOver ==
  ASSUME NEW prog, ProgOK(prog), prog # <<>>, InHand(prog).do = "fork", Rest(prog) # <<>>
  PROVE  DaemonOK(Rest(prog))
<1>1. PICK k \in DOMAIN prog :
           /\ \A j \in DOMAIN prog : k <= j
           /\ StepsOK(k, prog[k]) /\ InHand(prog) = prog[k][1]
           /\ ProgOK(Rest(prog))
           /\ DOMAIN Rest(prog) \subseteq DOMAIN prog
           /\ \A j \in DOMAIN prog : j # k => j \in DOMAIN Rest(prog) /\ Rest(prog)[j] = prog[j]
           /\ k <= MicSlot => k \notin DOMAIN Rest(prog)
           /\ k \in DOMAIN Rest(prog) => Rest(prog)[k] = Tail(prog[k])
  BY RestOK
<1>2. /\ k \in 1..30 /\ 1 \in DOMAIN prog[k] /\ IsSequence(prog[k]) /\ prog[k] # <<>>
      /\ DOMAIN prog \subseteq 1..30
  <2>1. IsSequence(prog[k]) /\ prog[k] # <<>>
    BY <1>1 DEF StepsOK
  <2> QED BY <1>1, <2>1, TailFacts DEF ProgOK
<1>3. k = 28
  <2>1. ~(k < 28) /\ ~(k > 28)
    BY <1>1, <1>2 DEF StepsOK
  <2> QED BY <1>2, <2>1
<1>4. ASSUME NEW j \in DOMAIN Rest(prog)
      PROVE  j >= 28 /\ \A i \in DOMAIN Rest(prog)[j] : Rest(prog)[j][i].do = "send"
  <2>1. j \in DOMAIN prog /\ j >= 28 /\ j \in 1..30
    BY <1>1, <1>2, <1>3
  <2>2. CASE j = 28
    <3>1. Rest(prog)[j] = Tail(prog[28])
      BY <1>1, <1>3, <2>2
    <3>2. \A i \in DOMAIN Tail(prog[28]) : 1 < i + 1 /\ i + 1 \in DOMAIN prog[28]
              /\ Tail(prog[28])[i] = prog[28][i + 1]
      <4>1. DOMAIN Tail(prog[28]) = 1..(Len(prog[28]) - 1)
        BY <1>2, <1>3, TailFacts
      <4>2. \A i \in DOMAIN Tail(prog[28]) : i + 1 \in DOMAIN prog[28]
                /\ Tail(prog[28])[i] = prog[28][i + 1]
        BY <1>2, <1>3, TailFacts
      <4>3. Len(prog[28]) \in Nat
        BY <1>2, <1>3, SeqFacts
      <4> QED BY <4>1, <4>2, <4>3
    <3>3. \A n \in DOMAIN prog[28] : 1 < n => prog[28][n].do = "send"
      BY <1>1, <1>2, <1>3 DEF StepsOK
    <3> QED BY <2>1, <3>1, <3>2, <3>3
  <2>3. CASE j # 28
    <3>1. j > 28
      BY <2>1, <2>3
    <3>2. StepsOK(j, Rest(prog)[j])
      BY <1>1 DEF ProgOK
    <3> QED BY <2>1, <3>1, <3>2 DEF StepsOK
  <2> QED BY <2>2, <2>3
<1> QED BY <1>1, <1>4 DEF DaemonOK

\* A daemon sends one of its messages, which is not about the microphone.
LEMMA DaemonRest ==
  ASSUME NEW prog, DaemonOK(prog)
  PROVE  /\ InHand(prog).arg.name # "mic"
         /\ Rest(prog) # <<>> => DaemonOK(Rest(prog))
<1>1. PICK k \in DOMAIN prog :
           /\ \A j \in DOMAIN prog : k <= j
           /\ StepsOK(k, prog[k]) /\ InHand(prog) = prog[k][1]
           /\ ProgOK(Rest(prog))
           /\ DOMAIN Rest(prog) \subseteq DOMAIN prog
           /\ \A j \in DOMAIN prog : j # k => j \in DOMAIN Rest(prog) /\ Rest(prog)[j] = prog[j]
           /\ k <= MicSlot => k \notin DOMAIN Rest(prog)
           /\ k \in DOMAIN Rest(prog) => Rest(prog)[k] = Tail(prog[k])
  BY RestOK DEF DaemonOK
<1>2. /\ k \in 1..30 /\ k >= 28 /\ 1 \in DOMAIN prog[k] /\ IsSequence(prog[k]) /\ prog[k] # <<>>
  <2>1. IsSequence(prog[k]) /\ prog[k] # <<>>
    BY <1>1 DEF StepsOK
  <2> QED BY <1>1, <2>1, TailFacts DEF ProgOK, DaemonOK
<1>3. InHand(prog).arg.name # "mic"
  <2>1. k # MicSlot /\ prog[k][1].do = "send"
    BY <1>1, <1>2 DEF DaemonOK, MicSlot
  <2> QED BY <1>1, <1>2, <2>1 DEF StepsOK
<1>4. ASSUME NEW j \in DOMAIN Rest(prog)
      PROVE  j >= 28 /\ \A i \in DOMAIN Rest(prog)[j] : Rest(prog)[j][i].do = "send"
  <2>1. j \in DOMAIN prog /\ j >= 28
    BY <1>1 DEF DaemonOK
  <2>2. CASE j = k
    <3>1. Rest(prog)[j] = Tail(prog[j])
      BY <1>1, <2>2
    <3>2. \A i \in DOMAIN Tail(prog[j]) : i + 1 \in DOMAIN prog[j]
              /\ Tail(prog[j])[i] = prog[j][i + 1]
      BY <1>2, <2>2, TailFacts
    <3>3. \A n \in DOMAIN prog[j] : prog[j][n].do = "send"
      BY <2>1 DEF DaemonOK
    <3> QED BY <2>1, <3>1, <3>2, <3>3
  <2>3. CASE j # k
    <3>1. Rest(prog)[j] = prog[j]
      BY <1>1, <2>1, <2>3
    <3> QED BY <2>1, <3>1 DEF DaemonOK
  <2> QED BY <2>2, <2>3
<1> QED BY <1>1, <1>3, <1>4 DEF DaemonOK

\* What a step may do to the programs, the queue, the marker and the camera.
Asked == \E c \in Caller : \E argv : IsSequence(argv) /\ IpcCall(c, argv)

\* A step is one of a call or a daemon, of the stock software, a power cut, a new call, or
\* changes nothing of them.
LEMMA WhoActs ==
  ASSUME [Next]_vars
  PROVE  \/ \E c \in Caller : IpcStep(c) /\ UNCHANGED <<cam, cuts>>
         \/ \E k \in 1..MaxCalls : DaemonSends(k) /\ UNCHANGED <<cam, cuts>>
         \/ Dispatch
         \/ PowerCut
         \/ Asked /\ UNCHANGED <<cam, cuts>>
         \/ UNCHANGED <<ipcVars, cam, cuts>>
         \/ UNCHANGED <<stock, ipc, daemons, queue, micOff, micRace, cam, cuts>>
<1>0. ASSUME NEW a PROVE IsSequence(<<a>>)
  <2>1. <<a>> \in Seq({a})
    OBVIOUS
  <2> QED BY <2>1, FromSeq
<1>1. CASE IpcNext
  BY <1>1 DEF IpcNext, confVars, camVars
<1>2. CASE ConfNext \/ ConnectionNext \/ UNCHANGED vars
  <2>1. CASE ConfNext
    BY <2>1 DEF ConfNext, CommandNext, Receive, ReplaceRead, ReplaceRemove, CopyBack, PublishStat,
                DumpLine, camVars
  <2> QED BY <1>2, <2>1 DEF ConnectionNext, vars, confVars, camVars
<1>3. CASE CallbackNext
  <2>1. CASE RunIpcCmd
    <3>1. (\E a : IpcCall("mqtt", <<a>>)) \/ UNCHANGED ipcVars
      BY <2>1 DEF RunIpcCmd
    <3> QED BY <1>0, <1>3, <2>1, <3>1, MqttConfigAssumption DEF Asked, CallbackNext, RunIpcCmd,
               confVars, camVars
  <2>2. CASE RunDump
    BY <1>3, <2>2 DEF CallbackNext, RunDump, DumpOpen, confVars, camVars
  <2> QED BY <1>3, <2>1, <2>2 DEF CallbackNext, McCallback, Ignore, SystemReturns, ReplaceCopy,
              ReplaceInPlace, confVars, camVars
<1>4. CASE Environment
  <2>1. CASE WebCall
    <3>1. PICK argv \in Argv \cup (IF reported = <<>> THEN {}
                   ELSE {<<<<"jump_abs", reported>>>>}) :
            IpcCall("web", argv)
      BY <2>1 DEF WebCall
    <3>2. IsSequence(argv)
      BY <1>0, SettingsAssumption DEF IsSequence
    <3> QED BY <2>1, <3>1, <3>2, SettingsAssumption DEF Asked, WebCall, confVars, camVars
  <2>2. CASE Publish
    BY <2>2 DEF Publish, confVars, camVars
  <2>3. CASE WebSave
    BY <2>3 DEF WebSave, SedRead, camVars
  <2>4. CASE Fault \/ MqttStart
    BY <2>4 DEF Fault, ReplaceFails, ReplaceReadFails, CopyBackFails, MqttStopped, MqttStart,
                MqttStarted
  <2> QED BY <1>4, <2>1, <2>2, <2>3, <2>4 DEF Environment, BrokerDown, BrokerBack, Sigterm,
             SedRename, confVars, camVars
<1> QED BY <1>1, <1>2, <1>3, <1>4 DEF Next

\* A call that has parsed its options.
LEMMA NewCall ==
  ASSUME NEW c \in Caller, NEW argv, IsSequence(argv), IpcCall(c, argv), DOMAIN ipc = Caller
  PROVE  /\ CallOK(ipc'[c])
         /\ ipc'[c].at \in {"open", "run"} => MicSlot \notin DOMAIN ipc'[c].prog
         /\ ipc[c] = Idle /\ \A d \in Caller : d # c => ipc'[d] = ipc[d]
<1>1. ipc[c] = Idle /\ \A d \in Caller : d # c => ipc'[d] = ipc[d]
  BY DEF IpcCall
<1>2. CASE Parse(argv) = <<>>
  <2>1. ipc'[c] = Idle
    BY <1>2 DEF IpcCall
  <2> QED BY <1>1, <2>1, IdleOK
<1>3. CASE Parse(argv) # <<>>
  <2>1. PICK v : Parse(argv) = <<v>>
    BY <1>3 DEF Parse
  <2>2. v["mic"] \in OnOffVal \cup {<<>>}
    BY <2>1, ParseMic
  <2>3. ipc'[c] = [at |-> IF v["mic"] = <<>> THEN "open" ELSE "mark",
                   mic |-> v["mic"], prog |-> Program(v)]
    BY <1>3, <2>1 DEF IpcCall
  <2>4. /\ ProgOK(Program(v))
        /\ MicSlot \in DOMAIN Program(v) <=> v["mic"] # <<>>
        /\ MicSlot \in DOMAIN Program(v) => Program(v)[MicSlot][1].arg.val = v["mic"]
    BY <2>2, NewProgram
  <2> DEFINE p == Program(v)
             w == v["mic"]
  <2> HIDE DEF p, w
  <2>5. ipc'[c] = [at |-> IF w = <<>> THEN "open" ELSE "mark", mic |-> w, prog |-> p]
    BY <2>3 DEF p, w
  <2>6. ProgOK(p) /\ (MicSlot \in DOMAIN p <=> w # <<>>)
            /\ (MicSlot \in DOMAIN p => p[MicSlot][1].arg.val = w)
    BY <2>4 DEF p, w
  <2> QED BY <1>1, <2>5, <2>6 DEF CallOK
<1> QED BY <1>2, <1>3

\* What a caller's own steps make of its call.
LEMMA CallSteps ==
  ASSUME NEW c \in Caller, CallOK(ipc[c]), IpcStep(c), DOMAIN ipc = Caller
  PROVE  /\ CallOK(ipc'[c])
         /\ \A d \in Caller : d # c => ipc'[d] = ipc[d]
<1>1. CASE MarkMic(c)
  BY <1>1 DEF MarkMic, CallOK
<1>2. CASE IpcStart(c)
  <2>1. \/ ipc'[c] = Idle
        \/ ipc'[c] = [ipc[c] EXCEPT !.at = "run"] /\ ipc[c].prog # <<>>
    BY <1>2 DEF IpcStart
  <2>2. \A d \in Caller : d # c => ipc'[d] = ipc[d]
    BY <1>2 DEF IpcStart
  <2> QED BY <2>1, <2>2, IdleOK DEF CallOK
<1>3. CASE ipc' = Ends(c)
  BY <1>3, IdleOK DEF Ends
<1>4. CASE ipc' = Goes(c) /\ ipc[c].at = "run"
  <2>1. ProgOK(Rest(ipc[c].prog))
    BY <1>4, RestOK DEF CallOK
  <2>2. \/ ipc'[c] = Idle
        \/ ipc'[c] = [ipc[c] EXCEPT !.prog = Rest(ipc[c].prog)] /\ Rest(ipc[c].prog) # <<>>
    BY <1>4 DEF Goes
  <2>3. \A d \in Caller : d # c => ipc'[d] = ipc[d]
    BY <1>4 DEF Goes
  <2> QED BY <1>4, <2>1, <2>2, <2>3, IdleOK DEF CallOK
<1>5. \/ MarkMic(c) \/ IpcStart(c) \/ ipc' = Ends(c)
      \/ ipc' = Goes(c) /\ ipc[c].at = "run"
  BY DEF IpcStep, SendOne, Jump, PrintPos, ReadPtzFails, SendFile, Fork, Running
<1> QED BY <1>1, <1>2, <1>3, <1>4, <1>5

\* One element of a sequence is replaced, or taken out.
LEMMA Replaced ==
  ASSUME NEW s, IsSequence(s), NEW k \in DOMAIN s, NEW x
  PROVE  /\ IsSequence([s EXCEPT ![k] = x]) /\ IsSequence(RemoveAt(s, k))
         /\ \A i \in DOMAIN [s EXCEPT ![k] = x] :
              [s EXCEPT ![k] = x][i] = x \/ [s EXCEPT ![k] = x][i] \in ToSet(s)
         /\ \A i \in DOMAIN RemoveAt(s, k) : RemoveAt(s, k)[i] \in ToSet(s)
<1> DEFINE S == ToSet(s)
           T == ToSet(s) \cup {x}
<1>1. s \in Seq(S) /\ Len(s) \in Nat /\ DOMAIN s = 1..Len(s) /\ k \in 1..Len(s)
  BY SeqFacts DEF IsSequence
<1>2. S \subseteq T /\ x \in T /\ \A y \in T : y = x \/ y \in S
  OBVIOUS
<1> HIDE DEF S, T
<1>3. [s EXCEPT ![k] = x] \in Seq(T)
  <2>1. s \in Seq(T)
    BY <1>1, <1>2
  <2> QED BY <1>1, <1>2, <2>1
<1>4. SubSeq(s, 1, k - 1) \in Seq(S) /\ SubSeq(s, k + 1, Len(s)) \in Seq(S)
  <2>1. \A i \in 1..(k - 1) : i \in 1..Len(s)
    BY <1>1
  <2>2. \A i \in (k + 1)..Len(s) : i \in 1..Len(s)
    BY <1>1
  <2> QED BY <1>1, <2>1, <2>2, SubSeqProperties
<1>5. RemoveAt(s, k) \in Seq(S)
  BY <1>4, ConcatProperties DEF RemoveAt
<1>6. IsSequence([s EXCEPT ![k] = x]) /\ IsSequence(RemoveAt(s, k))
  BY <1>3, <1>5, FromSeq
<1>7. \A i \in DOMAIN [s EXCEPT ![k] = x] : [s EXCEPT ![k] = x][i] = x
          \/ [s EXCEPT ![k] = x][i] \in S
  <2> DEFINE t == [s EXCEPT ![k] = x]
  <2>1. t \in Seq(T)
    BY <1>3
  <2> HIDE DEF t
  <2>2. \A i \in DOMAIN t : t[i] \in T
    BY <2>1
  <2> QED BY <1>2, <2>2 DEF t
<1>8. \A i \in DOMAIN RemoveAt(s, k) : RemoveAt(s, k)[i] \in S
  <2> DEFINE t == RemoveAt(s, k)
  <2>1. t \in Seq(S)
    BY <1>5
  <2> HIDE DEF t
  <2>2. \A i \in DOMAIN t : t[i] \in S
    BY <2>1
  <2> QED BY <2>2 DEF t
<1> QED BY <1>6, <1>7, <1>8 DEF S

\* At the start nobody has called.
LEMMA InitProg == Init => ProgInv
<1>1. IsSequence(<<>>)
  BY FromSeq, <<>> \in Seq({})
<1> QED BY <1>1, IdleOK DEF Init, IpcInit, ProgInv

\* Every step of the system keeps it.
LEMMA ProgStep ==
  ASSUME ProgInv, DOMAIN ipc = Caller, [Next]_vars
  PROVE  ProgInv'
<1>1. ASSUME NEW c \in Caller, IpcStep(c) PROVE ProgInv'
  <2>1. \A d \in Caller : CallOK(ipc'[d])
    BY <1>1, CallSteps DEF ProgInv
  <2>2. CASE Fork(c)
    <3> DEFINE p == ipc[c].prog
    <3>1. daemons' = daemons \/ (daemons' = Append(daemons, Rest(p)) /\ Rest(p) # <<>>)
      BY <2>2 DEF Fork
    <3>2. ProgOK(p) /\ p # <<>> /\ InHand(p).do = "fork"
      BY <2>2 DEF Fork, Running, ProgInv, CallOK
    <3> HIDE DEF p
    <3>3. ASSUME daemons' = Append(daemons, Rest(p)), Rest(p) # <<>> PROVE ProgInv'
      <4>1. DaemonOK(Rest(p))
        BY <3>2, <3>3, LeftOver
      <4>2. /\ IsSequence(daemons') /\ Len(daemons') = Len(daemons) + 1
            /\ daemons'[Len(daemons) + 1] = Rest(p)
            /\ \A i \in 1..Len(daemons) : daemons'[i] = daemons[i]
        BY <3>3, AppendFacts DEF ProgInv
      <4>3. Len(daemons) \in Nat /\ DOMAIN daemons = 1..Len(daemons)
                /\ DOMAIN daemons' = 1..(Len(daemons) + 1)
        BY <4>2, SeqFacts DEF ProgInv
      <4>4. \A d \in DOMAIN daemons' : d = Len(daemons) + 1
                \/ (d \in DOMAIN daemons /\ daemons'[d] = daemons[d])
        BY <4>2, <4>3
      <4>5. \A d \in DOMAIN daemons' : DaemonOK(daemons'[d])
        BY <4>1, <4>2, <4>4 DEF ProgInv
      <4> QED BY <2>1, <4>2, <4>5 DEF ProgInv
    <3> QED BY <2>1, <3>1, <3>3 DEF ProgInv
  <2>3. CASE ~Fork(c)
    <3>1. daemons' = daemons
      BY <1>1, <2>3 DEF IpcStep, MarkMic, IpcStart, SendOne, Jump, PrintPos, ReadPtzFails,
         SendFile
    <3> QED BY <2>1, <3>1 DEF ProgInv
  <2> QED BY <2>2, <2>3
<1>2. ASSUME NEW k \in 1..MaxCalls, DaemonSends(k) PROVE ProgInv'
  <2> DEFINE r == Rest(daemons[k])
  <2>1. /\ k \in DOMAIN daemons /\ ipc' = ipc
        /\ \/ daemons' = RemoveAt(daemons, k)
           \/ daemons' = [daemons EXCEPT ![k] = r] /\ r # <<>>
    BY <1>2 DEF DaemonSends
  <2>2. r # <<>> => DaemonOK(r)
    BY <2>1, DaemonRest DEF ProgInv
  <2> HIDE DEF r
  <2>3. \A x \in ToSet(daemons) : DaemonOK(x)
    BY DEF ProgInv, ToSet
  <2>4. IsSequence(daemons') /\ \A d \in DOMAIN daemons' : DaemonOK(daemons'[d])
    <3>1. CASE daemons' = RemoveAt(daemons, k)
      BY <2>1, <2>3, <3>1, Replaced DEF ProgInv
    <3>2. CASE daemons' = [daemons EXCEPT ![k] = r] /\ r # <<>>
      BY <2>1, <2>2, <2>3, <3>2, Replaced DEF ProgInv
    <3> QED BY <2>1, <3>1, <3>2
  <2> QED BY <2>1, <2>4 DEF ProgInv
<1>3. CASE Asked
  <2>0. PICK c \in Caller : \E argv : IsSequence(argv) /\ IpcCall(c, argv)
    BY <1>3 DEF Asked
  <2>1. PICK argv : IsSequence(argv) /\ IpcCall(c, argv)
    BY <2>0
  <2>2. \A d \in Caller : CallOK(ipc'[d])
    BY <2>1, NewCall DEF ProgInv
  <2>3. daemons' = daemons
    BY <2>1 DEF IpcCall
  <2> QED BY <2>2, <2>3 DEF ProgInv
<1>4. CASE PowerCut
  <2>1. IsSequence(<<>>)
    BY FromSeq, <<>> \in Seq({})
  <2>2. daemons' = <<>> /\ \A c \in Caller : ipc'[c] = Idle
    BY <1>4 DEF PowerCut
  <2> QED BY <2>1, <2>2, IdleOK DEF ProgInv
<1>5. CASE UNCHANGED <<ipc, daemons>>
  BY <1>5 DEF ProgInv
<1> QED BY <1>1, <1>2, <1>3, <1>4, <1>5, WhoActs DEF Dispatch, ipcVars
-----------------------------------------------------------------------------

\* A call that has set the marker, and has not sent its message yet.
Marked(c) == ipc[c].at \in {"open", "run"} /\ MicSlot \in DOMAIN ipc[c].prog

\* What it has set the marker for.
MarkVal(c) == ipc[c].prog[MicSlot][1].arg.val

\* The messages about the microphone the camera has not taken yet.
MicMsgs == {i \in DOMAIN queue : queue[i].name = "mic"}

\* At most one call is between its marker and its message, and the marker is its own.
MarksDecide ==
  /\ \A c, d \in Caller : Marked(c) /\ Marked(d) => c = d
  /\ \A c \in Caller : Marked(c) => (micOff <=> MarkVal(c) = <<"off">>)

\* The marker says what the camera will have been told of the microphone.
QueueDecides ==
  /\ \A i \in MicMsgs : (\A j \in MicMsgs : j <= i) => (micOff <=> queue[i].val = <<"off">>)
  /\ MicMsgs = {} => (micOff <=> cam["mic"] = "no")

\* The stock software runs, no calls have overlapped and the power was not cut.
Quiet == stock /\ ~micRace /\ cuts = 0

\* The marker of the microphone belongs to the last call that set it.
MicInv ==
  /\ cuts \in Nat /\ micOff \in BOOLEAN
  /\ \A i \in MicMsgs : queue[i].val \in OnOffVal
  /\ Quiet => /\ MarksDecide
              /\ (\A c \in Caller : ~Marked(c)) => QueueDecides

\* At the start the microphone is on.
LEMMA InitMic == Init => MicInv
<1>1. ASSUME Init PROVE MicInv
  <2>1. \A c \in Caller : ~Marked(c)
    BY <1>1, IdleOK DEF Init, IpcInit, Marked
  <2>2. MicMsgs = {}
    BY <1>1 DEF Init, IpcInit, MicMsgs
  <2>3. micOff = FALSE /\ cam["mic"] # "no" /\ cuts = 0
    BY <1>1, ConfAssumption DEF Init, IpcInit, ConfInit
  <2> QED BY <2>1, <2>2, <2>3 DEF MicInv, MarksDecide, QueueDecides
<1> QED BY <1>1

\* Steps that leave the marks of the calls and the messages about the microphone.
SameMarks == \A c \in Caller : (Marked(c)' <=> Marked(c))
    /\ (Marked(c) => MarkVal(c)' = MarkVal(c))
SameMsgs == MicMsgs' = MicMsgs /\ \A i \in MicMsgs : queue'[i] = queue[i]

\* They keep the invariant.
LEMMA MicSame ==
  ASSUME MicInv, SameMarks, SameMsgs, UNCHANGED <<stock, micOff, micRace, cam, cuts>>
  PROVE  MicInv'
<1>1. Quiet' <=> Quiet
  BY DEF Quiet
<1>2. ASSUME MarksDecide PROVE MarksDecide'
  BY <1>2 DEF MarksDecide, SameMarks
<1>3. ASSUME QueueDecides PROVE QueueDecides'
  BY <1>3 DEF QueueDecides, SameMsgs
<1>4. (\A c \in Caller : ~Marked(c)') <=> (\A c \in Caller : ~Marked(c))
  BY DEF SameMarks
<1>5. \A i \in MicMsgs' : queue'[i].val \in OnOffVal
  BY DEF MicInv, SameMsgs
<1> QED BY <1>1, <1>2, <1>3, <1>4, <1>5 DEF MicInv

\* A message about something else joins the queue.
LEMMA OtherSent ==
  ASSUME IsSequence(queue), NEW m, m.name # "mic", Sends(m)
  PROVE  SameMsgs
<1>1. /\ IsSequence(queue') /\ Len(queue') = Len(queue) + 1 /\ queue'[Len(queue')] = m
      /\ \A i \in 1..Len(queue) : queue'[i] = queue[i]
  BY SendsSeq
<1>2. Len(queue) \in Nat /\ DOMAIN queue = 1..Len(queue) /\ DOMAIN queue' = 1..(Len(queue) + 1)
  BY <1>1, SeqFacts
<1>3. \A i \in DOMAIN queue' : i = Len(queue') \/ i \in DOMAIN queue
  BY <1>1, <1>2
<1>4. \A i \in DOMAIN queue : i \in DOMAIN queue' /\ queue'[i] = queue[i]
  BY <1>1, <1>2
<1> QED BY <1>1, <1>3, <1>4 DEF SameMsgs, MicMsgs

\* A call goes on, or ends, without having sent a microphone setting.
LEMMA OtherDone ==
  ASSUME NEW c \in Caller, CallOK(ipc[c]), DOMAIN ipc = Caller, ipc[c].at = "run",
         NEW x, x = InHand(ipc[c].prog),
         \/ ipc' = Goes(c) /\ ~(x.do = "send" /\ x.arg.name = "mic")
         \/ ipc' = Ends(c) /\ x.do # "send"
  PROVE  SameMarks
<1> DEFINE p == ipc[c].prog
<1>1. ProgOK(p) /\ p # <<>> /\ DOMAIN ipc[c] = {"at", "mic", "prog"}
  BY DEF CallOK
<1>2. /\ ~(x.do = "send" /\ x.arg.name = "mic") =>
              /\ MicSlot \in DOMAIN p <=> MicSlot \in DOMAIN Rest(p)
              /\ MicSlot \in DOMAIN p => Rest(p)[MicSlot] = p[MicSlot]
      /\ x.do # "send" => MicSlot \notin DOMAIN p
  BY <1>1, HandMic
<1>3. \A d \in Caller : d # c => ipc'[d] = ipc[d]
  BY DEF Goes, Ends
<1>4. \A d \in Caller : d # c => (Marked(d)' <=> Marked(d))
          /\ (Marked(d) => MarkVal(d)' = MarkVal(d))
  BY <1>3 DEF Marked, MarkVal
<1>5. (Marked(c)' <=> Marked(c)) /\ (Marked(c) => MarkVal(c)' = MarkVal(c))
  <2>1. CASE ipc' = Ends(c) /\ x.do # "send"
    <3>1. ipc'[c] = Idle
      BY <2>1 DEF Ends
    <3> QED BY <1>2, <2>1, <3>1, IdleOK DEF Marked
  <2>2. CASE ipc' = Goes(c) /\ ~(x.do = "send" /\ x.arg.name = "mic")
    <3>1. \/ ipc'[c] = Idle /\ Rest(p) = <<>>
          \/ ipc'[c] = [ipc[c] EXCEPT !.prog = Rest(p)]
      BY <2>2 DEF Goes
    <3>2. CASE ipc'[c] = Idle /\ Rest(p) = <<>>
      <4>1. MicSlot \notin DOMAIN Rest(p)
        BY <3>2
      <4> QED BY <1>2, <2>2, <3>2, <4>1, IdleOK DEF Marked
    <3>3. CASE ipc'[c] = [ipc[c] EXCEPT !.prog = Rest(p)]
      <4>1. ipc'[c].at = ipc[c].at /\ ipc'[c].prog = Rest(p)
        BY <1>1, <3>3
      <4> QED BY <1>2, <2>2, <4>1 DEF Marked, MarkVal
    <3> QED BY <3>1, <3>2, <3>3
  <2> QED BY <2>1, <2>2
<1> QED BY <1>4, <1>5 DEF SameMarks

\* The message about the microphone goes out: the marker is what it was set for.
LEMMA MicSent ==
  ASSUME MicInv, NEW c \in Caller, CallOK(ipc[c]), DOMAIN ipc = Caller, IsSequence(queue),
         ipc[c].at = "run", ipc' = Goes(c),
         NEW x, x = InHand(ipc[c].prog), x.do = "send", x.arg.name = "mic", Sends(x.arg),
         UNCHANGED <<stock, micOff, micRace, cam, cuts>>
  PROVE  MicInv'
<1> DEFINE p == ipc[c].prog
           n == Len(queue) + 1
<1>1. ProgOK(p) /\ p # <<>> /\ DOMAIN ipc[c] = {"at", "mic", "prog"}
  BY DEF CallOK
<1>2. /\ MicSlot \in DOMAIN p /\ x = p[MicSlot][1] /\ x.arg.val \in OnOffVal
      /\ MicSlot \notin DOMAIN Rest(p)
  BY <1>1, HandMic
<1>3. Marked(c) /\ MarkVal(c) = x.arg.val
  BY <1>2 DEF Marked, MarkVal
<1>4. ~Marked(c)'
  <2>1. ipc'[c] = Idle \/ ipc'[c] = [ipc[c] EXCEPT !.prog = Rest(p)]
    BY DEF Goes
  <2>2. ipc'[c] = [ipc[c] EXCEPT !.prog = Rest(p)] => ipc'[c].prog = Rest(p)
    BY <1>1
  <2> QED BY <1>2, <2>1, <2>2, IdleOK DEF Marked
<1>5. \A d \in Caller : d # c => (Marked(d)' <=> Marked(d))
  BY DEF Goes, Marked
<1>6. /\ n \in Nat /\ DOMAIN queue = 1..Len(queue) /\ DOMAIN queue' = 1..n /\ queue'[n] = x.arg
      /\ \A i \in DOMAIN queue : queue'[i] = queue[i]
  BY SendsSeq, SeqFacts
<1>7. n \in MicMsgs' /\ \A i \in MicMsgs' : i <= n /\ (i = n \/ i \in MicMsgs)
  <2>1. \A i \in DOMAIN queue' : i <= n /\ (i = n \/ i \in DOMAIN queue)
    BY <1>6
  <2>2. n \in DOMAIN queue'
    BY <1>6
  <2> QED BY <1>6, <2>1, <2>2 DEF MicMsgs
<1> HIDE DEF n, p
<1>8. \A i \in MicMsgs' : queue'[i].val \in OnOffVal
  BY <1>2, <1>6, <1>7 DEF MicInv, MicMsgs
<1>9. ASSUME Quiet PROVE MarksDecide' /\ QueueDecides'
  <2>1. MarksDecide
    BY <1>9 DEF MicInv
  <2>2. micOff <=> x.arg.val = <<"off">>
    BY <1>3, <2>1 DEF MarksDecide
  <2>3. \A d \in Caller : ~Marked(d)'
    BY <1>3, <1>4, <1>5, <2>1 DEF MarksDecide
  <2>4. ASSUME NEW i \in MicMsgs', \A j \in MicMsgs' : j <= i PROVE i = n
    <3>1. n <= i /\ i <= n /\ i \in 1..n
      BY <1>6, <1>7, <2>4 DEF MicMsgs
    <3> QED BY <1>6, <3>1
  <2>5. QueueDecides'
    BY <1>6, <1>7, <2>2, <2>4 DEF QueueDecides
  <2> QED BY <2>3, <2>5 DEF MarksDecide
<1>10. Quiet' <=> Quiet
  BY DEF Quiet
<1> QED BY <1>8, <1>9, <1>10 DEF MicInv

\* A call sets the marker.
LEMMA MicMarked ==
  ASSUME ProgInv, MicInv, DOMAIN ipc = Caller, NEW c \in Caller, MarkMic(c),
         UNCHANGED <<cam, cuts>>
  PROVE  MicInv'
<1>1. /\ MicSlot \in DOMAIN ipc[c].prog /\ MarkVal(c) = ipc[c].mic
      /\ DOMAIN ipc[c] = {"at", "mic", "prog"}
  BY DEF ProgInv, CallOK, MarkMic, MarkVal
<1>2. ipc'[c].at = "open" /\ ipc'[c].prog = ipc[c].prog /\ \A d \in Caller : d # c
          => ipc'[d] = ipc[d]
  BY <1>1 DEF MarkMic
<1>3. Marked(c)' /\ MarkVal(c)' = ipc[c].mic
  BY <1>1, <1>2 DEF Marked, MarkVal
<1>4. micOff' = (ipc[c].mic = <<"off">>) /\ cuts' = cuts /\ queue' = queue
  BY DEF MarkMic
<1>5. ASSUME Quiet' PROVE MarksDecide'
  <2>1. \A d \in Caller : d # c => ~SendsMic(ipc[d].prog)
    BY <1>5 DEF MarkMic, Quiet
  <2>2. \A d \in Caller : d # c => ~Marked(d)'
    <3>1. SUFFICES ASSUME NEW d \in Caller, d # c, MicSlot \in DOMAIN ipc[d].prog PROVE FALSE
      BY <1>2 DEF Marked
    <3>2. SendsMic(ipc[d].prog)
      BY <3>1, OrderIs DEF SendsMic, MicSlot
    <3> QED BY <2>1, <3>1, <3>2
  <2> QED BY <1>3, <1>4, <2>2 DEF MarksDecide
<1>6. \A i \in MicMsgs' : queue'[i].val \in OnOffVal
  BY <1>4 DEF MicInv, MicMsgs
<1>7. micOff' \in BOOLEAN
  BY <1>4
<1> QED BY <1>3, <1>4, <1>5, <1>6, <1>7 DEF MicInv

\* A call opens the queue, or ends because there is none.
LEMMA MicStarted ==
  ASSUME ProgInv, MicInv, DOMAIN ipc = Caller, NEW c \in Caller, IpcStart(c),
         UNCHANGED <<cam, cuts>>
  PROVE  MicInv'
<1>1. UNCHANGED <<stock, queue, micOff, micRace>> /\ ipc[c].at = "open"
  BY DEF IpcStart
<1>2. DOMAIN ipc[c] = {"at", "mic", "prog"}
  BY DEF ProgInv, CallOK
<1>3. \A d \in Caller : d # c => ipc'[d] = ipc[d]
  BY DEF IpcStart
<1>4. CASE stock
  <2>1. \/ ipc'[c] = [ipc[c] EXCEPT !.at = "run"]
        \/ ipc'[c] = Idle /\ ipc[c].prog = <<>>
    BY <1>4 DEF IpcStart
  <2>2. (Marked(c)' <=> Marked(c)) /\ (Marked(c) => MarkVal(c)' = MarkVal(c))
    <3>1. CASE ipc'[c] = [ipc[c] EXCEPT !.at = "run"]
      <4>1. ipc'[c].at = "run" /\ ipc'[c].prog = ipc[c].prog
        BY <1>2, <3>1
      <4> QED BY <1>1, <4>1 DEF Marked, MarkVal
    <3>2. CASE ipc'[c] = Idle /\ ipc[c].prog = <<>>
      <4>1. MicSlot \notin DOMAIN ipc[c].prog
        BY <3>2
      <4> QED BY <3>2, <4>1, IdleOK DEF Marked
    <3> QED BY <2>1, <3>1, <3>2
  <2>3. SameMarks
    BY <1>3, <2>2 DEF SameMarks, Marked, MarkVal
  <2>4. SameMsgs
    BY <1>1 DEF SameMsgs, MicMsgs
  <2> QED BY <1>1, <2>3, <2>4, MicSame
<1>5. CASE ~stock
  <2>1. ~Quiet'
    BY <1>1, <1>5 DEF Quiet
  <2>2. \A i \in MicMsgs' : queue'[i].val \in OnOffVal
    BY <1>1 DEF MicInv, MicMsgs
  <2> QED BY <1>1, <2>1, <2>2 DEF MicInv
<1> QED BY <1>4, <1>5

\* The stock software takes a message: that about the microphone is understood.
LEMMA MicMessage ==
  ASSUME NEW m
  PROVE  /\ m.name = "mic" /\ m.val \in OnOffVal =>
              /\ IsCommand(m) /\ KeyOf[m.name] = "mic"
              /\ ValueOf(m) = "no" <=> m.val = <<"off">>
         /\ m.name # "mic" => ~(IsCommand(m) /\ KeyOf[m.name] = "mic")
<1>1. ASSUME m.name = "mic", m.val \in OnOffVal
      PROVE  IsCommand(m) /\ KeyOf[m.name] = "mic" /\ (ValueOf(m) = "no" <=> m.val = <<"off">>)
  <2>1. <<m.name, m.val>> \in DeviceCommand
    BY <1>1 DEF DeviceCommand, OnOffVal
  <2>2. KeyOf["mic"] = "mic"
    BY DEF KeyOf
  <2>3. ValueOf(m) = "no" <=> m.val = <<"off">>
    <3>1. CASE m.val = <<"off">>
      BY <3>1 DEF ValueOf
    <3>2. CASE m.val = <<"on">>
      BY <3>2 DEF ValueOf
    <3> QED BY <1>1, <3>1, <3>2 DEF OnOffVal
  <2> QED BY <1>1, <2>1, <2>2, <2>3 DEF IsCommand, Command
<1>2. ASSUME m.name # "mic", IsCommand(m)
      PROVE  KeyOf[m.name] # "mic"
  <2>1. m.name \in DOMAIN KeyOf \ {"mic"}
    BY <1>2 DEF IsCommand, Command, WatchCommand, LevelCommand, DeviceCommand, KeyOf
  <2>2. \A n \in DOMAIN KeyOf \ {"mic"} : KeyOf[n] # "mic"
    BY DEF KeyOf
  <2> QED BY <2>1, <2>2
<1> QED BY <1>1, <1>2

\* The camera is told: the marker says the same still.
LEMMA MicDispatched ==
  ASSUME MicInv, IsSequence(queue), DOMAIN cam = Key, Dispatch
  PROVE  MicInv'
<1> DEFINE m == Head(queue)
<1>1. /\ queue # <<>> /\ queue' = Tail(queue) /\ UNCHANGED <<stock, ipc, micOff, micRace, cuts>>
      /\ cam' = IF IsCommand(m) /\ KeyOf[m.name] \in Key
                THEN [cam EXCEPT ![KeyOf[m.name]] = ValueOf(m)] ELSE cam
  BY DEF Dispatch
<1>2. /\ m = queue[1] /\ 1 \in DOMAIN queue
      /\ \A i \in DOMAIN queue' : i \in Nat /\ i + 1 \in DOMAIN queue /\ queue'[i] = queue[i + 1]
      /\ \A i \in DOMAIN queue : i \in Nat /\ i >= 1
             /\ (i # 1 => i - 1 \in DOMAIN queue' /\ queue'[i - 1] = queue[i])
  <2>1. m = queue[1] /\ 1 \in DOMAIN queue /\ IsSequence(queue') /\ Len(queue) \in Nat
    BY <1>1, SeqFacts, TailFacts
  <2>2. DOMAIN queue = 1..Len(queue) /\ DOMAIN queue' = 1..(Len(queue) - 1)
    BY <1>1, SeqFacts, TailFacts
  <2>3. \A i \in DOMAIN queue' : i + 1 \in DOMAIN queue /\ queue'[i] = queue[i + 1]
    BY <1>1, TailFacts
  <2>4. \A i \in DOMAIN queue : i >= 2 => i - 1 \in DOMAIN queue' /\ queue'[i - 1] = queue[i]
    BY <1>1, TailFacts
  <2>5. \A i \in DOMAIN queue : i \in Nat /\ i >= 1 /\ (i # 1 => i >= 2)
    BY <2>1, <2>2
  <2>6. \A i \in DOMAIN queue' : i \in Nat
    BY <2>1, <2>2
  <2> QED BY <2>1, <2>3, <2>4, <2>5, <2>6
<1> HIDE DEF m
<1>3. 1 \in MicMsgs <=> m.name = "mic"
  BY <1>2 DEF MicMsgs
<1>4. \A i \in MicMsgs' : i + 1 \in MicMsgs /\ i \in Nat /\ queue'[i] = queue[i + 1]
  BY <1>2 DEF MicMsgs
<1>5. \A i \in MicMsgs : i \in Nat /\ (i # 1 => i - 1 \in MicMsgs')
  BY <1>2 DEF MicMsgs
<1>6. \A i \in MicMsgs' : queue'[i].val \in OnOffVal
  BY <1>4 DEF MicInv
<1>7. cam'["mic"] = IF m.name = "mic" THEN ValueOf(m) ELSE cam["mic"]
  <2>1. m.name = "mic" => m.val \in OnOffVal
    BY <1>2, <1>3 DEF MicInv
  <2> QED BY <1>1, <2>1, MicMessage, ConfAssumption
<1>8. \A c \in Caller : (Marked(c)' <=> Marked(c)) /\ MarkVal(c)' = MarkVal(c)
  BY <1>1 DEF Marked, MarkVal
<1>9. ASSUME QueueDecides PROVE QueueDecides'
  <2>1. ASSUME NEW i \in MicMsgs', \A j \in MicMsgs' : j <= i
        PROVE  micOff <=> queue'[i].val = <<"off">>
    <3>1. \A j \in MicMsgs : j <= i + 1
      <4> TAKE j \in MicMsgs
      <4>1. CASE j = 1
        BY <1>4, <4>1
      <4>2. CASE j # 1
        <5>1. j - 1 <= i /\ i \in Nat /\ j \in Nat
          BY <1>4, <1>5, <2>1, <4>2
        <5> QED BY <5>1
      <4> QED BY <4>1, <4>2
    <3> QED BY <1>4, <1>9, <2>1, <3>1 DEF QueueDecides
  <2>2. ASSUME MicMsgs' = {} PROVE micOff <=> cam'["mic"] = "no"
    <3>1. \A j \in MicMsgs : j = 1
      BY <1>5, <2>2
    <3>2. CASE m.name = "mic"
      <4>1. 1 \in MicMsgs /\ m.val \in OnOffVal
        BY <1>2, <1>3, <3>2 DEF MicInv
      <4>2. micOff <=> m.val = <<"off">>
        BY <1>2, <1>9, <3>1, <4>1 DEF QueueDecides
      <4> QED BY <1>7, <3>2, <4>1, <4>2, MicMessage
    <3>3. CASE m.name # "mic"
      <4>1. MicMsgs = {}
        BY <1>3, <3>1, <3>3
      <4> QED BY <1>7, <1>9, <3>3, <4>1 DEF QueueDecides
    <3> QED BY <3>2, <3>3
  <2> QED BY <1>1, <2>1, <2>2 DEF QueueDecides
<1>10. ASSUME MarksDecide PROVE MarksDecide'
  BY <1>1, <1>8, <1>10 DEF MarksDecide
<1>11. Quiet' <=> Quiet
  BY <1>1 DEF Quiet
<1> QED BY <1>1, <1>6, <1>8, <1>9, <1>10, <1>11 DEF MicInv

\* Every step of the system keeps it.
LEMMA MicStep ==
  ASSUME ProgInv, MicInv, DOMAIN ipc = Caller, IsSequence(queue), DOMAIN cam = Key, [Next]_vars
  PROVE  MicInv'
<1>1. ASSUME NEW c \in Caller, IpcStep(c), UNCHANGED <<cam, cuts>> PROVE MicInv'
  <2>0. CallOK(ipc[c])
    BY DEF ProgInv
  <2>1. CASE MarkMic(c)
    BY <1>1, <2>1, MicMarked
  <2>2. CASE IpcStart(c)
    BY <1>1, <2>2, MicStarted
  <2>3. CASE SendOne(c)
    <3> DEFINE x == InHand(ipc[c].prog)
    <3>1. /\ ipc[c].at = "run" /\ x.do = "send" /\ Sends(x.arg) /\ ipc' = Goes(c)
          /\ UNCHANGED <<stock, micOff, micRace>>
      BY <2>3 DEF SendOne, Running, Arg
    <3> HIDE DEF x
    <3>2. CASE x.arg.name = "mic"
      BY <1>1, <2>0, <3>1, <3>2, MicSent DEF x
    <3>3. CASE x.arg.name # "mic"
      <4>1. SameMsgs
        BY <3>1, <3>3, OtherSent
      <4>2. SameMarks
        BY <2>0, <3>1, <3>3, OtherDone DEF x
      <4> QED BY <1>1, <3>1, <4>1, <4>2, MicSame
    <3> QED BY <3>2, <3>3
  <2>4. CASE Jump(c) \/ PrintPos(c) \/ ReadPtzFails(c) \/ SendFile(c) \/ Fork(c)
    <3> DEFINE x == InHand(ipc[c].prog)
    <3>1. /\ ipc[c].at = "run" /\ x.do # "send" /\ (ipc' = Goes(c) \/ ipc' = Ends(c))
          /\ UNCHANGED <<stock, micOff, micRace>>
      BY <2>4 DEF Jump, PrintPos, ReadPtzFails, SendFile, Fork, Running
    <3>2. queue' = queue \/ \E n \in {"jump", "raw"} : \E a : Sends(Msg(n, a))
      BY <2>4 DEF Jump, PrintPos, ReadPtzFails, SendFile, Fork
    <3> HIDE DEF x
    <3>3. SameMsgs
      <4>1. CASE queue' = queue
        BY <4>1 DEF SameMsgs, MicMsgs
      <4>2. ASSUME NEW n \in {"jump", "raw"}, NEW a, Sends(Msg(n, a)) PROVE SameMsgs
        <5>1. Msg(n, a).name # "mic"
          BY DEF Msg
        <5> QED BY <4>2, <5>1, OtherSent
      <4> QED BY <3>2, <4>1, <4>2
    <3>4. SameMarks
      BY <2>0, <3>1, OtherDone DEF x
    <3> QED BY <1>1, <3>1, <3>3, <3>4, MicSame
  <2> QED BY <1>1, <2>1, <2>2, <2>3, <2>4 DEF IpcStep
<1>2. ASSUME NEW k \in 1..MaxCalls, DaemonSends(k), UNCHANGED <<cam, cuts>> PROVE MicInv'
  <2>1. /\ k \in DOMAIN daemons /\ Sends(InHand(daemons[k]).arg)
        /\ UNCHANGED <<stock, ipc, micOff, micRace>>
    BY <1>2 DEF DaemonSends
  <2>2. InHand(daemons[k]).arg.name # "mic"
    BY <2>1, DaemonRest DEF ProgInv
  <2>3. SameMsgs
    BY <2>1, <2>2, OtherSent
  <2>4. SameMarks
    BY <2>1 DEF SameMarks, Marked, MarkVal
  <2> QED BY <1>2, <2>1, <2>3, <2>4, MicSame
<1>3. CASE Dispatch
  BY <1>3, MicDispatched
<1>4. CASE PowerCut
  <2>1. cuts' \in Nat /\ cuts' # 0 /\ queue' = <<>> /\ micOff' = FALSE
    BY <1>4 DEF PowerCut, MicInv
  <2>2. MicMsgs' = {}
    BY <2>1 DEF MicMsgs
  <2> QED BY <2>1, <2>2 DEF MicInv, Quiet
<1>5. CASE Asked /\ UNCHANGED <<cam, cuts>>
  <2>0. PICK c \in Caller : \E argv : IsSequence(argv) /\ IpcCall(c, argv)
    BY <1>5 DEF Asked
  <2>1. PICK argv : IsSequence(argv) /\ IpcCall(c, argv)
    BY <2>0
  <2>2. /\ ipc'[c].at \in {"open", "run"} => MicSlot \notin DOMAIN ipc'[c].prog
        /\ ipc[c] = Idle /\ \A d \in Caller : d # c => ipc'[d] = ipc[d]
    BY <2>1, NewCall
  <2>3. SameMarks
    <3>1. ~Marked(c) /\ ~Marked(c)'
      BY <2>2, IdleOK DEF Marked
    <3>2. \A d \in Caller : d # c => (Marked(d)' <=> Marked(d)) /\ MarkVal(d)' = MarkVal(d)
      BY <2>2 DEF Marked, MarkVal
    <3> QED BY <3>1, <3>2 DEF SameMarks
  <2>4. UNCHANGED <<stock, queue, micOff, micRace>>
    BY <2>1 DEF IpcCall
  <2>5. SameMsgs
    BY <2>4 DEF SameMsgs, MicMsgs
  <2> QED BY <1>5, <2>3, <2>4, <2>5, MicSame
<1>6. CASE UNCHANGED <<stock, ipc, daemons, queue, micOff, micRace, cam, cuts>>
  <2>1. SameMarks /\ SameMsgs
    BY <1>6 DEF SameMarks, Marked, MarkVal, SameMsgs, MicMsgs
  <2> QED BY <1>6, <2>1, MicSame
<1>7. CASE UNCHANGED <<ipcVars, cam, cuts>>
  BY <1>6, <1>7 DEF ipcVars
<1> QED BY <1>1, <1>2, <1>3, <1>4, <1>5, <1>6, <1>7, WhoActs

\* With nothing on its way camera.conf, the stat topics and the marker of the microphone
\* say what the stock software was last told (ipc_cmd, ipc_multiplex, mqttv4): for all
\* command lines, requests, lengths of the queues and numbers of calls.
THEOREM Agreement == Spec => []SettingsAgree
<1> DEFINE IInv == CoreInv /\ CamInv /\ PosInv /\ ProgInv /\ MicInv
<1>1. Init => IInv
  BY InitCore, InitCam, InitPos, InitProg, InitMic
<1>2. IInv /\ [Next]_vars => IInv'
  BY CoreStep, CamStep, PosStep, ProgStep, MicStep DEF PosInv, CamInv
<1>3. IInv => SettingsAgree
  <2>1. SUFFICES ASSUME IInv, AtRest PROVE
             /\ ~lost /\ torn \subseteq {"svc"} => FileFollows
             /\ ~missed /\ torn \subseteq {"svc"} => StatFollows
             /\ stock /\ ~micRace /\ cuts = 0 => MarkerFollows
    BY DEF SettingsAgree
  <2>2. /\ at = "idle" /\ todo = <<>> /\ mq = <<>> /\ queue = <<>> /\ snap = NoLines
        /\ Current = conf /\ (Handled <=> FALSE)
    BY <2>1 DEF AtRest, CoreInv, TodoShape, Current, Handled
  <2>3. ASSUME ~lost, torn \subseteq {"svc"} PROVE FileFollows
    <3>1. ASSUME NEW k \in Key PROVE Agrees(k, conf[k])
      <4>1. Told(k) /\ Pending(k) = {}
        BY <2>1, <2>2, <2>3 DEF CamInv, Pending
      <4> QED BY <2>2, <4>1 DEF Told
    <3> QED BY <3>1 DEF FileFollows, Agrees, Rules
  <2>4. ASSUME ~missed, torn \subseteq {"svc"} PROVE StatFollows
    BY <2>1, <2>2, <2>4 DEF CoreInv, StatInv, StatFollows
  <2>5. ASSUME stock /\ ~micRace /\ cuts = 0 PROVE MarkerFollows
    <3>1. MicMsgs = {}
      BY <2>2 DEF MicMsgs
    <3>2. \A c \in Caller : ~Marked(c)
      BY <2>1, IdleOK DEF AtRest, Marked
    <3>3. micOff <=> cam["mic"] = "no"
      BY <2>1, <2>5, <3>1, <3>2 DEF MicInv, QueueDecides, Quiet
    <3> QED BY <2>1, <3>3 DEF MarkerFollows, MicInv
  <2> QED BY <2>3, <2>4, <2>5
<1> QED BY <1>1, <1>2, <1>3, PTL DEF Spec
=============================================================================
