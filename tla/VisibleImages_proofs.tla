-------------------------- MODULE VisibleImages_proofs --------------------------
(***************************************************************************)
(* Theorems about VisibleImages, for any number of images and other tasks,   *)
(* any limits and any changes of memory pressure: the requests use both      *)
(* schedulers only as those are specified, and neither leaves a task asleep  *)
(* that could go on.                                                         *)
(***************************************************************************)
EXTENDS VisibleImages, FiniteSetTheorems, SequenceTheorems, TLAPS

Everyone == Images \cup Others

\* Every step of the requests is a step of the permit scheduler or leaves it alone.
LEMMA StepsAreDerived == [Next]_vars => [Derived!Next]_(Derived!derivedVars)
<1> SUFFICES ASSUME Next PROVE Derived!Next \/ UNCHANGED Derived!derivedVars
  BY DEF vars, derivedVars, Derived!derivedVars
<1> USE DEF Derived!derivedVars, derivedVars
<1>1. ASSUME NEW i \in Images, Request(i) \/ Cancel(i) \/ Rendering(i)
      PROVE  Derived!Next \/ UNCHANGED Derived!derivedVars
  <2> i \in Images \cup Others
    OBVIOUS
  <2> QED
    BY <1>1 DEF Request, Cancel, Rendering, AwaitTicket, WantPermit, AwaitPermit,
                Rendered, DropTicket, Derived!Next
<1>2. ASSUME NEW t \in Others, OtherStarts(t) \/ ProbeGivesUp(t) \/ Working(t)
      PROVE  Derived!Next
  <2> t \in Images \cup Others
    OBVIOUS
  <2> QED
    BY <1>2 DEF OtherStarts, ProbeGivesUp, Working, AwaitPermit, OtherEnds, Derived!Next
<1>3. ASSUME NEW l \in Limits, Pressure(l)
      PROVE  UNCHANGED Derived!derivedVars
  BY <1>3 DEF Pressure
<1>4. PressureNotifies => UNCHANGED Derived!derivedVars
  BY DEF PressureNotifies
<1> QED
  BY <1>1, <1>2, <1>3, <1>4 DEF Next

\* Every step of the requests is a step of the decode scheduler or leaves it alone.
LEMMA StepsAreDecode == [Next]_vars => [Decode!Next]_(Decode!decodeVars)
<1> SUFFICES ASSUME Next PROVE Decode!Next \/ UNCHANGED Decode!decodeVars
  BY DEF vars, decodeVars, Decode!decodeVars
<1> USE DEF Decode!decodeVars, decodeVars
<1>1. ASSUME NEW i \in Images, Request(i) \/ Cancel(i) \/ Rendering(i)
      PROVE  Decode!Next \/ UNCHANGED Decode!decodeVars
  BY <1>1 DEF Request, Cancel, Rendering, AwaitTicket, WantPermit, AwaitPermit,
              Rendered, DropTicket, Decode!Next
<1>2. ASSUME NEW t \in Others, OtherStarts(t) \/ ProbeGivesUp(t) \/ Working(t)
      PROVE  UNCHANGED Decode!decodeVars
  BY <1>2 DEF OtherStarts, ProbeGivesUp, Working, AwaitPermit, OtherEnds
<1>3. ASSUME NEW l \in Limits, Pressure(l)
      PROVE  Decode!Next
  BY <1>3 DEF Pressure, Decode!Next
<1>4. PressureNotifies => Decode!Next
  BY DEF PressureNotifies, Decode!Next
<1> QED
  BY <1>1, <1>2, <1>3, <1>4 DEF Next

\* render_visible_image and its competitors drive each scheduler only through the
\* operations that scheduler offers, in orders it allows.
THEOREM UsesBothSchedulers == Spec => Derived!Spec /\ Decode!Spec
<1>1. Init => Derived!Init /\ Decode!Init
  BY DEF Init
<1> QED
  BY <1>1, StepsAreDerived, StepsAreDecode, PTL DEF Spec, Derived!Spec, Decode!Spec

-----------------------------------------------------------------------------

\* No task sleeps beside a permit it could have, unless it is about to be woken.
DerivedInv == Derived!TypeOK /\ Derived!SleepersCannotStart

\* No task sleeps before any has come.
LEMMA DerivedInit == Derived!Init => DerivedInv
  BY DEF Derived!Init, DerivedInv, Derived!TypeOK, Derived!SleepersCannotStart, Derived!Sleepers

\* A task that falls asleep could not start, and whoever makes room for it wakes it.
LEMMA DerivedStep == DerivedInv /\ [Derived!Next]_(Derived!derivedVars) => DerivedInv'
<1> SUFFICES ASSUME DerivedInv, [Derived!Next]_(Derived!derivedVars)
             PROVE  DerivedInv'
  OBVIOUS
<1> \A t \in Everyone : ClassOf[t] \in Derived!Classes
  BY VisibleAssumption DEF Derived!DerivedConstants, Everyone
<1> USE DEF DerivedInv, Derived!TypeOK, Derived!SleepersCannotStart, Derived!Sleepers, Derived!Go, Everyone
<1>1. ASSUME NEW t \in Everyone, Derived!Register(t) PROVE DerivedInv'
  BY <1>1 DEF Derived!Register, Derived!CanStart
<1>2. ASSUME NEW t \in Everyone, Derived!Arm(t) PROVE DerivedInv'
  BY <1>2 DEF Derived!Arm, Derived!CanStart
<1>3. ASSUME NEW t \in Everyone, Derived!Check(t) PROVE DerivedInv'
  <2>1. CASE Derived!CanStart(ClassOf[t])
    BY <1>3, <2>1 DEF Derived!Check, Derived!CanStart, Derived!Fewer
  <2>2. CASE ~Derived!CanStart(ClassOf[t])
    BY <1>3, <2>2 DEF Derived!Check, Derived!CanStart
  <2> QED BY <2>1, <2>2
<1>4. ASSUME NEW t \in Everyone, Derived!Wake(t) PROVE DerivedInv'
  BY <1>4 DEF Derived!Wake, Derived!CanStart
<1>5. ASSUME NEW t \in Everyone, Derived!Notify(t) PROVE DerivedInv'
  BY <1>5 DEF Derived!Notify
<1>6. ASSUME NEW t \in Everyone, Derived!Abandon(t) PROVE DerivedInv'
  BY <1>6 DEF Derived!Abandon, Derived!Fewer
<1>7. ASSUME NEW t \in Everyone, Derived!Release(t) PROVE DerivedInv'
  BY <1>7 DEF Derived!Release, Derived!Fewer
<1>8. CASE UNCHANGED Derived!derivedVars
  BY <1>8 DEF Derived!derivedVars, Derived!CanStart
<1> QED
  BY <1>1, <1>2, <1>3, <1>4, <1>5, <1>6, <1>7, <1>8 DEF Derived!Next, Derived!Advance

-----------------------------------------------------------------------------

\* Where the elements of a concatenation come from.
LEMMA ConcatIndex ==
  ASSUME NEW S, NEW a \in Seq(S), NEW b \in Seq(S), NEW i \in 1..(Len(a) + Len(b))
  PROVE  (a \o b)[i] = IF i <= Len(a) THEN a[i] ELSE b[i - Len(a)]
  OBVIOUS

\* What leaves the queue, and what stays in it.
LEMMA RemoveFirstFacts ==
  ASSUME NEW S, NEW s \in Seq(S), NEW e, NEW p \in DOMAIN s, s[p] = e,
         \A i, j \in DOMAIN s : s[i] = s[j] => i = j
  PROVE  /\ Decode!RemoveFirst(s, e) \in Seq(S)
         /\ Len(Decode!RemoveFirst(s, e)) = Len(s) - 1
         /\ \A i \in 1..(Len(s) - 1) :
               Decode!RemoveFirst(s, e)[i] = IF i < p THEN s[i] ELSE s[i + 1]
<1> DEFINE I == {i \in 1..Len(s) : s[i] = e}
<1>1. I = {p}
  OBVIOUS
<1>2. Decode!Min(I) = p
  BY <1>1 DEF Decode!Min
<1>3. Decode!RemoveFirst(s, e)
        = SubSeq(s, 1, Decode!Min(I) - 1) \o SubSeq(s, Decode!Min(I) + 1, Len(s))
  <2> SUFFICES Decode!RemoveFirst(s, e) = Decode!RemoveAt(s, Decode!Min(I))
    BY DEF Decode!RemoveAt
  <2> QED
  BY <1>1 DEF Decode!RemoveFirst, Decode!SelectInSeq
<1>4. Decode!RemoveFirst(s, e) = SubSeq(s, 1, p - 1) \o SubSeq(s, p + 1, Len(s))
  BY <1>2, <1>3
<1>5. p \in 1..Len(s) /\ Len(s) \in Nat
  OBVIOUS
<1>6. /\ SubSeq(s, 1, p - 1) \in Seq(S) /\ Len(SubSeq(s, 1, p - 1)) = p - 1
      /\ \A i \in 1..(p - 1) : SubSeq(s, 1, p - 1)[i] = s[i]
  BY <1>5, SubSeqProperties, ElementOfSeq
<1>7. /\ SubSeq(s, p + 1, Len(s)) \in Seq(S) /\ Len(SubSeq(s, p + 1, Len(s))) = Len(s) - p
      /\ \A i \in 1..(Len(s) - p) : SubSeq(s, p + 1, Len(s))[i] = s[p + i]
  BY <1>5, SubSeqProperties, ElementOfSeq
<1> DEFINE front == SubSeq(s, 1, p - 1)
           back == SubSeq(s, p + 1, Len(s))
<1>8. /\ front \in Seq(S) /\ Len(front) = p - 1
      /\ back \in Seq(S) /\ Len(back) = Len(s) - p
  BY <1>6, <1>7
<1>9. ASSUME NEW i \in 1..(Len(s) - 1)
      PROVE  (front \o back)[i] = IF i < p THEN s[i] ELSE s[i + 1]
  <2>1. (front \o back)[i] = IF i <= Len(front) THEN front[i] ELSE back[i - Len(front)]
    <3> i \in 1..(Len(front) + Len(back))
      BY <1>5, <1>8
    <3> HIDE DEF front, back
    <3> QED BY <1>8, ConcatIndex
  <2>2. CASE i < p
    BY <1>5, <1>6, <1>8, <2>1, <2>2
  <2>3. CASE ~(i < p)
    <3> i - (p - 1) \in 1..(Len(s) - p) /\ p + (i - (p - 1)) = i + 1 /\ ~(i <= p - 1)
      BY <1>5, <2>3
    <3> HIDE DEF front
    <3> QED BY <1>7, <1>8, <2>1, <2>3
  <2> QED
    BY <2>2, <2>3
<1>10. front \o back \in Seq(S) /\ Len(front \o back) = Len(s) - 1
  <2> HIDE DEF front, back
  <2> QED BY <1>5, <1>8, ConcatProperties
<1> QED
  BY <1>4, <1>9, <1>10

\* The instances count finite sets as this module does.
LEMMA SameCardinality ==
  ASSUME NEW S
  PROVE  /\ Decode!Cardinality(S) = Cardinality(S) /\ Derived!Cardinality(S) = Cardinality(S)
         /\ Decode!IsFiniteSet(S) <=> IsFiniteSet(S)
         /\ Derived!IsFiniteSet(S) <=> IsFiniteSet(S)
  BY DEF Decode!Cardinality, Derived!Cardinality, Cardinality,
         Decode!IsFiniteSet, Derived!IsFiniteSet, IsFiniteSet

Held == {r \in Images : ticket[r] = "held"}
Elements(q) == {q[i] : i \in DOMAIN q}
Distinct(q) == \A i, j \in DOMAIN q : q[i] = q[j] => i = j

\* A request that stops waiting leaves the queue as it was without it.
LEMMA LeavesQueue ==
  ASSUME NEW q \in Seq(Images), NEW r \in Elements(q), Distinct(q)
  PROVE  /\ Decode!RemoveFirst(q, r) \in Seq(Images)
         /\ Elements(Decode!RemoveFirst(q, r)) = Elements(q) \ {r}
         /\ Distinct(Decode!RemoveFirst(q, r))
<1> DEFINE rest == Decode!RemoveFirst(q, r)
<1> USE DEF Elements, Distinct
<1>1. PICK p \in DOMAIN q : q[p] = r
  OBVIOUS
<1>2. /\ rest \in Seq(Images) /\ Len(rest) = Len(q) - 1
      /\ \A i \in 1..(Len(q) - 1) : rest[i] = IF i < p THEN q[i] ELSE q[i + 1]
  BY <1>1, RemoveFirstFacts
<1> HIDE DEF rest
<1>3. Len(q) \in Nat /\ DOMAIN q = 1..Len(q) /\ DOMAIN rest = 1..(Len(q) - 1)
  BY <1>2
<1>4. ASSUME NEW x \in {q[i] : i \in DOMAIN q}, x # r
      PROVE  x \in {rest[i] : i \in DOMAIN rest}
  <2>1. PICK i \in DOMAIN q : q[i] = x
    OBVIOUS
  <2>2. CASE i < p
    <3> i \in 1..(Len(q) - 1)
      BY <1>1, <1>3, <2>2
    <3> QED BY <1>2, <1>3, <2>1, <2>2
  <2>3. CASE i > p
    <3> i - 1 \in 1..(Len(q) - 1) /\ ~(i - 1 < p) /\ (i - 1) + 1 = i
      BY <1>1, <1>3, <2>3
    <3> QED BY <1>2, <1>3, <2>1
  <2> QED
    BY <1>1, <1>3, <1>4, <2>1, <2>2, <2>3
<1>5. ASSUME NEW i \in DOMAIN rest
      PROVE  rest[i] \in {q[j] : j \in DOMAIN q} \ {r}
  <2>1. i \in 1..(Len(q) - 1) /\ i \in DOMAIN q /\ i + 1 \in DOMAIN q
    BY <1>3
  <2>2. CASE i < p
    BY <1>1, <1>2, <2>1, <2>2
  <2>3. CASE ~(i < p)
    <3>1. rest[i] = q[i + 1] /\ i + 1 # p
      BY <1>1, <1>2, <1>3, <2>1, <2>3
    <3> QED  BY <1>1, <2>1, <3>1
  <2> QED  BY <2>2, <2>3
<1>6. ASSUME NEW i \in DOMAIN rest, NEW j \in DOMAIN rest, rest[i] = rest[j]
      PROVE  i = j
  <2> DEFINE at(k) == IF k < p THEN k ELSE k + 1
  <2>1. q[at(i)] = q[at(j)]
    BY <1>2, <1>3, <1>6
  <2>2. at(i) \in DOMAIN q /\ at(j) \in DOMAIN q
    BY <1>1, <1>3
  <2>3. at(i) = at(j)
    <3> HIDE DEF at
    <3> QED BY <2>1, <2>2
  <2> QED
    BY <1>1, <1>3, <2>3
<1>7. {rest[i] : i \in DOMAIN rest} = {q[i] : i \in DOMAIN q} \ {r}
  <2>1. {q[i] : i \in DOMAIN q} \ {r} \subseteq {rest[i] : i \in DOMAIN rest}
    BY <1>4
  <2>2. {rest[i] : i \in DOMAIN rest} \subseteq {q[i] : i \in DOMAIN q} \ {r}
    BY <1>5
  <2> QED
    BY <2>1, <2>2
<1> QED
  BY <1>2, <1>6, <1>7 DEF rest

DecodeInv == /\ Decode!TypeOK /\ Decode!QueueIsExact /\ Decode!SlotsAreHeld
             /\ Decode!NobodyIsForgotten

\* The queue starts empty and exact.
LEMMA DecodeInit == Decode!Init => DecodeInv
<1> SUFFICES ASSUME Decode!Init PROVE DecodeInv
  OBVIOUS
<1>1. Decode!SlotsAreHeld
  <2> {r \in Images : ticket[r] = "held"} = {}
    BY DEF Decode!Init
  <2> QED
    BY SameCardinality, FS_EmptySet DEF Decode!Init, Decode!SlotsAreHeld
<1> QED
  BY <1>1, VisibleAssumption
     DEF Decode!Init, DecodeInv, Decode!TypeOK, Decode!QueueIsExact, Decode!NobodyIsForgotten,
         Decode!Registered, Decode!Waiting, Decode!Capped, Decode!DecodeConstants

\* The tickets in use can be counted.
LEMMA HeldIsFinite == IsFiniteSet(Held) /\ Cardinality(Held) \in Nat
  BY VisibleAssumption, SameCardinality, FS_Subset, FS_CardinalityType DEF Decode!DecodeConstants, Held

\* Each operation of the decode scheduler keeps its queue and slots exact, and leaves
\* no request asleep without somebody who will wake it.
LEMMA DecodeStep == DecodeInv /\ [Decode!Next]_(Decode!decodeVars) => DecodeInv'
<1> SUFFICES ASSUME DecodeInv, [Decode!Next]_(Decode!decodeVars)
             PROVE  DecodeInv'
  OBVIOUS
<1> USE DEF DecodeInv
<1>0. Decode!DecodeConstants
  BY VisibleAssumption
<1>a. inFlight = Cardinality(Held)
  BY SameCardinality DEF Decode!SlotsAreHeld, Held
<1>b. Held' = Held /\ inFlight' = inFlight => Decode!SlotsAreHeld'
  BY <1>a, SameCardinality DEF Decode!SlotsAreHeld, Held
<1>1. ASSUME NEW r \in Images, Decode!Enqueue(r) PROVE DecodeInv'
  <2> USE DEF Decode!Enqueue, Decode!Move, Decode!TypeOK
  <2>1. /\ waiters' \in Seq(Images) /\ Len(waiters') = Len(waiters) + 1
        /\ \A i \in DOMAIN waiters : waiters'[i] = waiters[i]
        /\ waiters'[Len(waiters) + 1] = r
    BY <1>1, AppendProperties
  <2>2. Len(waiters) \in Nat /\ DOMAIN waiters = 1..Len(waiters) /\ DOMAIN waiters' = 1..(Len(waiters) + 1)
    BY <2>1
  <2>3. Decode!TypeOK'
    BY <1>1, <2>1 DEF Decode!Registered
  <2>4. Decode!QueueIsExact'
    <3>1. \A i \in DOMAIN waiters : waiters[i] # r
      BY <1>1 DEF Decode!QueueIsExact, Decode!Waiting
    <3>2. {waiters'[i] : i \in DOMAIN waiters'} = {waiters[i] : i \in DOMAIN waiters} \cup {r}
      BY <2>1, <2>2
    <3>3. Decode!Waiting' = Decode!Waiting \cup {r}
      BY <1>1 DEF Decode!Waiting
    <3>4. \A i, j \in DOMAIN waiters' : waiters'[i] = waiters'[j] => i = j
      BY <2>1, <2>2, <3>1 DEF Decode!QueueIsExact
    <3> QED
      BY <3>2, <3>3, <3>4 DEF Decode!QueueIsExact
  <2>5. Decode!SlotsAreHeld'
    BY <1>1, <1>b DEF Held
  <2>6. Decode!NobodyIsForgotten'
    <3> SUFFICES ASSUME NEW s \in Images, ticket'[s] = "asleep", s \notin notified',
                        Decode!Admissible(s)', ~(resizing' > 0)
                 PROVE  \E q \in Images : ticket'[q] \in {"held", "freed", "left"}
      BY DEF Decode!NobodyIsForgotten
    <3>1. s # r /\ ticket[s] = "asleep"
      BY <1>1
    <3>2. Decode!Admissible(s)
      BY <1>1, <2>1, <2>2, <3>1 DEF Decode!Admissible, Decode!IsCandidate, Decode!EffectiveLimit
    <3> QED
      BY <1>1, <3>1, <3>2 DEF Decode!NobodyIsForgotten
  <2> QED
    BY <2>3, <2>4, <2>5, <2>6
<1>2. ASSUME NEW r \in Images, Decode!Arm(r) PROVE DecodeInv'
  <2> USE DEF Decode!Arm, Decode!Move, Decode!TypeOK
  <2>1. Decode!TypeOK' /\ Decode!QueueIsExact'
    BY <1>2 DEF Decode!Registered, Decode!QueueIsExact, Decode!Waiting
  <2>2. Decode!SlotsAreHeld'
    BY <1>2, <1>b DEF Held
  <2>3. Decode!NobodyIsForgotten'
    BY <1>2 DEF Decode!NobodyIsForgotten, Decode!Admissible, Decode!IsCandidate, Decode!EffectiveLimit
  <2> QED
    BY <2>1, <2>2, <2>3
<1>3. ASSUME NEW r \in Images, Decode!Check(r) PROVE DecodeInv'
  <2> USE DEF Decode!Check, Decode!Move, Decode!TypeOK
  <2>1. CASE Decode!Admissible(r)
    <3>1. r \in Elements(waiters) /\ Distinct(waiters)
      BY <1>3 DEF Elements, Distinct, Decode!QueueIsExact, Decode!Waiting
    <3>2. /\ waiters' \in Seq(Images) /\ Distinct(waiters')
          /\ Elements(waiters') = Elements(waiters) \ {r}
      BY <1>3, <2>1, <3>1, LeavesQueue
    <3>3. Decode!TypeOK'
      BY <1>3, <2>1, <3>2 DEF Decode!Registered
    <3>4. Decode!QueueIsExact'
      BY <1>3, <2>1, <3>2 DEF Decode!QueueIsExact, Decode!Waiting, Elements, Distinct
    <3>5. Decode!SlotsAreHeld'
      <4>1. Held' = Held \cup {r} /\ r \notin Held
        BY <1>3, <2>1 DEF Held
      <4>2. Cardinality(Held') = Cardinality(Held) + 1
        BY <4>1, HeldIsFinite, FS_AddElement
      <4>3. inFlight' = Cardinality(Held')
        BY <1>3, <2>1, <1>a, <4>2
      <4> QED
        BY <4>3, SameCardinality DEF Decode!SlotsAreHeld, Held
    <3>6. ticket'[r] = "held"
      BY <1>3, <2>1
    <3> QED
      BY <3>3, <3>4, <3>5, <3>6 DEF Decode!NobodyIsForgotten
  <2>2. CASE ~Decode!Admissible(r)
    <3>1. Decode!TypeOK' /\ Decode!QueueIsExact'
      BY <1>3, <2>2 DEF Decode!Registered, Decode!QueueIsExact, Decode!Waiting
    <3>2. Decode!SlotsAreHeld'
      BY <1>3, <2>2, <1>b DEF Held
    <3>3. Decode!NobodyIsForgotten'
      BY <1>3, <2>2
         DEF Decode!NobodyIsForgotten, Decode!Admissible, Decode!IsCandidate, Decode!EffectiveLimit
    <3> QED
      BY <3>1, <3>2, <3>3
  <2> QED
    BY <2>1, <2>2
<1>4. ASSUME NEW r \in Images, Decode!Wake(r) PROVE DecodeInv'
  <2> USE DEF Decode!Wake, Decode!Move, Decode!TypeOK
  <2>1. Decode!TypeOK' /\ Decode!QueueIsExact'
    BY <1>4 DEF Decode!Registered, Decode!QueueIsExact, Decode!Waiting
  <2>2. Decode!SlotsAreHeld'
    BY <1>4, <1>b DEF Held
  <2>3. Decode!NobodyIsForgotten'
    BY <1>4 DEF Decode!NobodyIsForgotten, Decode!Admissible, Decode!IsCandidate, Decode!EffectiveLimit
  <2> QED
    BY <2>1, <2>2, <2>3
<1>5. ASSUME NEW r \in Images, Decode!Notify(r) PROVE DecodeInv'
  <2> USE DEF Decode!Notify, Decode!Move, Decode!TypeOK
  <2>1. Decode!TypeOK' /\ Decode!QueueIsExact'
    BY <1>5 DEF Decode!Registered, Decode!QueueIsExact, Decode!Waiting
  <2>2. Decode!SlotsAreHeld'
    BY <1>5, <1>b DEF Held
  <2>3. Decode!NobodyIsForgotten'
    BY <1>5 DEF Decode!NobodyIsForgotten, Decode!Registered
  <2> QED
    BY <2>1, <2>2, <2>3
<1>6. ASSUME NEW r \in Images, Decode!Abandon(r) PROVE DecodeInv'
  <2> USE DEF Decode!Abandon, Decode!Move, Decode!TypeOK
  <2>1. r \in Elements(waiters) /\ Distinct(waiters)
    BY <1>6 DEF Elements, Distinct, Decode!QueueIsExact, Decode!Waiting
  <2>2. /\ waiters' \in Seq(Images) /\ Distinct(waiters')
        /\ Elements(waiters') = Elements(waiters) \ {r}
    BY <1>6, <2>1, LeavesQueue
  <2>3. Decode!TypeOK' /\ Decode!QueueIsExact'
    BY <1>6, <2>2 DEF Decode!Registered, Decode!QueueIsExact, Decode!Waiting, Elements, Distinct
  <2>4. Decode!SlotsAreHeld'
    BY <1>6, <1>b DEF Held
  <2>5. Decode!NobodyIsForgotten'
    BY <1>6 DEF Decode!NobodyIsForgotten
  <2> QED
    BY <2>3, <2>4, <2>5
<1>7. ASSUME NEW r \in Images, Decode!Release(r) PROVE DecodeInv'
  <2> USE DEF Decode!Release, Decode!Move, Decode!TypeOK
  <2>1. Held' = Held \ {r} /\ r \in Held
    BY <1>7 DEF Held
  <2>2. Cardinality(Held) # 0
    BY <2>1, HeldIsFinite, FS_EmptySet
  <2>3. inFlight' = inFlight - 1
    BY <1>7, <1>a, <2>2
  <2>4. Decode!SlotsAreHeld'
    <3>1. Cardinality(Held') = Cardinality(Held) - 1
      BY <2>1, HeldIsFinite, FS_RemoveElement
    <3>2. inFlight' = Cardinality(Held')
      BY <1>a, <2>3, <3>1
    <3> QED
      BY <3>2, SameCardinality DEF Decode!SlotsAreHeld, Held
  <2>5. Decode!TypeOK' /\ Decode!QueueIsExact'
    BY <1>7, <1>a, <2>2, <2>3 DEF Decode!Registered, Decode!QueueIsExact, Decode!Waiting
  <2>6. Decode!NobodyIsForgotten'
    BY <1>7 DEF Decode!NobodyIsForgotten
  <2> QED
    BY <2>4, <2>5, <2>6
<1>8. ASSUME NEW l \in Limits, Decode!SetLimit(l) PROVE DecodeInv'
  <2> USE DEF Decode!SetLimit, Decode!TypeOK
  <2>1. Decode!TypeOK' /\ Decode!QueueIsExact'
    BY <1>8, <1>0 DEF Decode!Registered, Decode!QueueIsExact, Decode!Waiting, Decode!Capped,
                      Decode!DecodeConstants
  <2>2. Decode!SlotsAreHeld'
    BY <1>8, <1>b DEF Held
  <2>3. Decode!NobodyIsForgotten'
    BY <1>8 DEF Decode!NobodyIsForgotten
  <2> QED
    BY <2>1, <2>2, <2>3
<1>9. ASSUME Decode!NotifyResized PROVE DecodeInv'
  <2> USE DEF Decode!NotifyResized, Decode!TypeOK
  <2>1. Decode!TypeOK' /\ Decode!QueueIsExact'
    BY <1>9 DEF Decode!Registered, Decode!QueueIsExact, Decode!Waiting
  <2>2. Decode!SlotsAreHeld'
    BY <1>9, <1>b DEF Held
  <2>3. Decode!NobodyIsForgotten'
    BY <1>9 DEF Decode!NobodyIsForgotten, Decode!Registered
  <2> QED
    BY <2>1, <2>2, <2>3
<1>10. CASE UNCHANGED Decode!decodeVars
  BY <1>10, <1>b
     DEF Decode!decodeVars, Held, Decode!TypeOK, Decode!Registered, Decode!QueueIsExact,
         Decode!Waiting, Decode!NobodyIsForgotten, Decode!Admissible, Decode!IsCandidate,
         Decode!EffectiveLimit
<1> QED
  BY <1>1, <1>2, <1>3, <1>4, <1>5, <1>6, <1>7, <1>8, <1>9, <1>10
     DEF Decode!Next, Decode!Advance

-----------------------------------------------------------------------------

WaitingIn(c) == {t \in Everyone : ClassOf[t] = c /\ permit[t] \in {"arming", "armed", "asleep"}}
RunningIn(c) == {t \in Everyone : ClassOf[t] = c /\ permit[t] = "running"}

\* The users of permits can be counted.
LEMMA EveryoneIsFinite == IsFiniteSet(Everyone)
  BY VisibleAssumption, SameCardinality DEF Derived!DerivedConstants, Everyone

\* So can those of one class.
LEMMA TasksAreFinite ==
  ASSUME NEW c
  PROVE  /\ IsFiniteSet(WaitingIn(c)) /\ Cardinality(WaitingIn(c)) \in Nat
         /\ IsFiniteSet(RunningIn(c)) /\ Cardinality(RunningIn(c)) \in Nat
<1>1. WaitingIn(c) \in SUBSET Everyone /\ RunningIn(c) \in SUBSET Everyone
  BY DEF WaitingIn, RunningIn
<1> QED
  BY <1>1, EveryoneIsFinite, FS_Subset, FS_CardinalityType

Counted == \A c \in Derived!Classes :
              waiting[c] = Cardinality(WaitingIn(c)) /\ running[c] = Cardinality(RunningIn(c))

\* The counts are exact in the terms of this module.
LEMMA CountedIsExact == Derived!CountsAreExact <=> Counted
  BY SameCardinality DEF Derived!CountsAreExact, Counted, WaitingIn, RunningIn, Everyone

\* Each operation of the permit scheduler keeps its counts exact.
LEMMA CountsStep ==
  Derived!TypeOK /\ Counted /\ [Derived!Next]_(Derived!derivedVars) => Counted'
<1> SUFFICES ASSUME Derived!TypeOK, Counted, [Derived!Next]_(Derived!derivedVars)
             PROVE  Counted'
  OBVIOUS
<1> DEFINE Same(c) == WaitingIn(c)' = WaitingIn(c) /\ RunningIn(c)' = RunningIn(c)
<1>0. \A t \in Everyone : ClassOf[t] \in Derived!Classes
  BY VisibleAssumption DEF Derived!DerivedConstants, Everyone
<1>1. ASSUME NEW t \in Everyone, Derived!Register(t) PROVE Counted'
  <2> DEFINE k == ClassOf[t]
  <2>1. WaitingIn(k)' = WaitingIn(k) \cup {t} /\ t \notin WaitingIn(k)
        /\ RunningIn(k)' = RunningIn(k)
    BY <1>1 DEF Derived!Register, Derived!Go, Derived!TypeOK, WaitingIn, RunningIn, Everyone
  <2>2. \A c \in Derived!Classes : c # k => Same(c)
    BY <1>1 DEF Derived!Register, Derived!Go, Derived!TypeOK, WaitingIn, RunningIn, Everyone
  <2>3. Cardinality(WaitingIn(k)') = Cardinality(WaitingIn(k)) + 1
    BY <2>1, TasksAreFinite, FS_AddElement
  <2>4. waiting' = [waiting EXCEPT ![k] = waiting[k] + 1] /\ running' = running
    BY <1>1 DEF Derived!Register
  <2> QED
    BY <1>0, <2>1, <2>2, <2>3, <2>4 DEF Counted, Derived!TypeOK
<1>2. ASSUME NEW t \in Everyone, Derived!Check(t) PROVE Counted'
  <2> DEFINE k == ClassOf[t]
  <2>1. CASE Derived!CanStart(k)
    <3>1. /\ WaitingIn(k)' = WaitingIn(k) \ {t} /\ t \in WaitingIn(k)
          /\ RunningIn(k)' = RunningIn(k) \cup {t} /\ t \notin RunningIn(k)
      BY <1>2, <2>1 DEF Derived!Check, Derived!Go, Derived!TypeOK, WaitingIn, RunningIn, Everyone
    <3>2. \A c \in Derived!Classes : c # k => Same(c)
      BY <1>2, <2>1 DEF Derived!Check, Derived!Go, Derived!TypeOK, WaitingIn, RunningIn, Everyone
    <3>3. /\ Cardinality(WaitingIn(k)') = Cardinality(WaitingIn(k)) - 1
          /\ Cardinality(RunningIn(k)') = Cardinality(RunningIn(k)) + 1
          /\ Cardinality(WaitingIn(k)) # 0
      <4>1. Cardinality(WaitingIn(k) \ {t}) = Cardinality(WaitingIn(k)) - 1
        BY <3>1, TasksAreFinite, FS_RemoveElement
      <4>2. Cardinality(RunningIn(k) \cup {t}) = Cardinality(RunningIn(k)) + 1
        BY <3>1, TasksAreFinite, FS_AddElement
      <4>3. Cardinality(WaitingIn(k)) # 0
        BY <3>1, TasksAreFinite, FS_EmptySet
      <4> QED
        BY <3>1, <4>1, <4>2, <4>3
    <3>4. waiting[k] # 0
      BY <1>0, <3>3 DEF Counted
    <3>5. /\ waiting' = [waiting EXCEPT ![k] = waiting[k] - 1]
          /\ running' = [running EXCEPT ![k] = running[k] + 1]
      BY <1>2, <2>1, <3>4 DEF Derived!Check, Derived!Fewer
    <3> QED
      BY <1>0, <3>2, <3>3, <3>5 DEF Counted, Derived!TypeOK
  <2>2. CASE ~Derived!CanStart(k)
    <3>1. \A c \in Derived!Classes : Same(c)
      BY <1>2, <2>2 DEF Derived!Check, Derived!Go, Derived!TypeOK, WaitingIn, RunningIn, Everyone
    <3>2. waiting' = waiting /\ running' = running
      BY <1>2, <2>2 DEF Derived!Check
    <3> QED
      BY <3>1, <3>2 DEF Counted
  <2> QED
    BY <2>1, <2>2
<1>3. ASSUME NEW t \in Everyone, Derived!Abandon(t) PROVE Counted'
  <2> DEFINE k == ClassOf[t]
  <2>1. /\ WaitingIn(k)' = WaitingIn(k) \ {t} /\ t \in WaitingIn(k)
        /\ RunningIn(k)' = RunningIn(k)
    BY <1>3 DEF Derived!Abandon, Derived!Go, Derived!TypeOK, WaitingIn, RunningIn, Everyone
  <2>2. \A c \in Derived!Classes : c # k => Same(c)
    BY <1>3 DEF Derived!Abandon, Derived!Go, Derived!TypeOK, WaitingIn, RunningIn, Everyone
  <2>3. /\ Cardinality(WaitingIn(k)') = Cardinality(WaitingIn(k)) - 1
        /\ Cardinality(WaitingIn(k)) # 0
    BY <2>1, TasksAreFinite, FS_RemoveElement, FS_EmptySet
  <2>4. waiting[k] # 0
    BY <1>0, <2>3 DEF Counted
  <2>5. waiting' = [waiting EXCEPT ![k] = waiting[k] - 1] /\ running' = running
    BY <1>3, <2>4 DEF Derived!Abandon, Derived!Fewer
  <2> QED
    BY <1>0, <2>1, <2>2, <2>3, <2>5 DEF Counted, Derived!TypeOK
<1>4. ASSUME NEW t \in Everyone, Derived!Release(t) PROVE Counted'
  <2> DEFINE k == ClassOf[t]
  <2>1. /\ RunningIn(k)' = RunningIn(k) \ {t} /\ t \in RunningIn(k)
        /\ WaitingIn(k)' = WaitingIn(k)
    BY <1>4 DEF Derived!Release, Derived!Go, Derived!TypeOK, WaitingIn, RunningIn, Everyone
  <2>2. \A c \in Derived!Classes : c # k => Same(c)
    BY <1>4 DEF Derived!Release, Derived!Go, Derived!TypeOK, WaitingIn, RunningIn, Everyone
  <2>3. /\ Cardinality(RunningIn(k)') = Cardinality(RunningIn(k)) - 1
        /\ Cardinality(RunningIn(k)) # 0
    BY <2>1, TasksAreFinite, FS_RemoveElement, FS_EmptySet
  <2>4. running[k] # 0
    BY <1>0, <2>3 DEF Counted
  <2>5. running' = [running EXCEPT ![k] = running[k] - 1] /\ waiting' = waiting
    BY <1>4, <2>4 DEF Derived!Release, Derived!Fewer
  <2> QED
    BY <1>0, <2>1, <2>2, <2>3, <2>5 DEF Counted, Derived!TypeOK
<1>5. ASSUME NEW t \in Everyone, Derived!Arm(t) \/ Derived!Wake(t) \/ Derived!Notify(t)
      PROVE  Counted'
  <2>1. \A c \in Derived!Classes : Same(c)
    BY <1>5 DEF Derived!Arm, Derived!Wake, Derived!Notify, Derived!Go, Derived!TypeOK,
                WaitingIn, RunningIn, Everyone
  <2>2. waiting' = waiting /\ running' = running
    BY <1>5 DEF Derived!Arm, Derived!Wake, Derived!Notify
  <2> QED
    BY <2>1, <2>2 DEF Counted
<1>6. CASE UNCHANGED Derived!derivedVars
  BY <1>6 DEF Derived!derivedVars, Counted, WaitingIn, RunningIn
<1> QED
  BY <1>1, <1>2, <1>3, <1>4, <1>5, <1>6 DEF Derived!Next, Derived!Advance, Everyone

\* Only a request with a ticket is known to the permit scheduler.
PermitNeedsTicket ==
    \A i \in Images :
        permit[i] \in {"arming", "armed", "asleep", "running", "freed"} => ticket[i] = "held"

\* A request asks for a permit with its ticket in hand and gives the permit up first.
LEMMA PermitNeedsTicketStep ==
  Derived!TypeOK /\ Decode!TypeOK /\ PermitNeedsTicket /\ [Next]_vars => PermitNeedsTicket'
<1> SUFFICES ASSUME Derived!TypeOK, Decode!TypeOK, PermitNeedsTicket, [Next]_vars
             PROVE  PermitNeedsTicket'
  OBVIOUS
<1> USE DEF PermitNeedsTicket, Derived!TypeOK, Decode!TypeOK, decodeVars, derivedVars
<1>1. ASSUME NEW i \in Images, Request(i) PROVE PermitNeedsTicket'
  BY <1>1 DEF Request, Decode!Enqueue, Decode!Move
<1>2. ASSUME NEW i \in Images, Cancel(i) PROVE PermitNeedsTicket'
  BY <1>2 DEF Cancel, Decode!Abandon, Decode!Move
<1>3. ASSUME NEW i \in Images, AwaitTicket(i) PROVE PermitNeedsTicket'
  BY <1>3 DEF AwaitTicket, Decode!Advance, Decode!Arm, Decode!Check, Decode!Wake,
              Decode!Notify, Decode!Move
<1>4. ASSUME NEW i \in Images, WantPermit(i) PROVE PermitNeedsTicket'
  BY <1>4 DEF WantPermit, Derived!Register, Derived!Go
<1>5. ASSUME NEW t \in Everyone, AwaitPermit(t) PROVE PermitNeedsTicket'
  BY <1>5 DEF AwaitPermit, Derived!Advance, Derived!Arm, Derived!Check, Derived!Wake,
              Derived!Notify, Derived!Go, Everyone
<1>6. ASSUME NEW t \in Everyone, Derived!Release(t), UNCHANGED decodeVars
      PROVE  PermitNeedsTicket'
  BY <1>6 DEF Derived!Release, Derived!Go, Everyone
<1>7. ASSUME NEW i \in Images, DropTicket(i) PROVE PermitNeedsTicket'
  BY <1>7 DEF DropTicket, Decode!Release, Decode!Move
<1>8. ASSUME NEW t \in Others, OtherStarts(t) PROVE PermitNeedsTicket'
  BY <1>8, VisibleAssumption DEF OtherStarts, Derived!Register, Derived!Go
<1>9. ASSUME NEW t \in Others, ProbeGivesUp(t) PROVE PermitNeedsTicket'
  BY <1>9, VisibleAssumption DEF ProbeGivesUp, Derived!Abandon, Derived!Go
<1>10. ASSUME NEW l \in Limits, Pressure(l) PROVE PermitNeedsTicket'
  BY <1>10 DEF Pressure, Decode!SetLimit
<1>11. ASSUME PressureNotifies PROVE PermitNeedsTicket'
  BY <1>11 DEF PressureNotifies, Decode!NotifyResized
<1>12. CASE UNCHANGED vars
  BY <1>12 DEF vars
<1> QED
  BY <1>1, <1>2, <1>3, <1>4, <1>5, <1>6, <1>7, <1>8, <1>9, <1>10, <1>11, <1>12
     DEF Next, Rendering, Working, Rendered, OtherEnds, Everyone

\* What the bound on visible work follows from.
LEMMA TicketsBoundVisible ==
  Derived!TypeOK /\ Counted /\ Decode!SlotsAreHeld /\ PermitNeedsTicket => VisibleIsBounded
<1> SUFFICES ASSUME Derived!TypeOK, Counted, Decode!SlotsAreHeld, PermitNeedsTicket
             PROVE  VisibleIsBounded
  OBVIOUS
<1> DEFINE visible == "VisibleDerived"
           others == {t \in Others : ClassOf[t] = visible}
           W == WaitingIn(visible)
           R == RunningIn(visible)
<1>1. visible \in Derived!Classes
  BY DEF Derived!Classes, Derived!Priority
<1>2. waiting[visible] = Cardinality(W) /\ running[visible] = Cardinality(R)
  BY <1>1 DEF Counted
<1>3. inFlight = Cardinality(Held)
  BY SameCardinality DEF Decode!SlotsAreHeld, Held
<1>4. W \cap R = {} /\ W \cup R \subseteq Held \cup others
  BY DEF WaitingIn, RunningIn, Everyone, Held, PermitNeedsTicket
<1>5. others \subseteq Everyone
  BY DEF Everyone
<1>6. IsFiniteSet(others) /\ Cardinality(others) \in Nat
  BY <1>5, EveryoneIsFinite, FS_Subset, FS_CardinalityType
<1>7. /\ IsFiniteSet(W) /\ Cardinality(W) \in Nat /\ IsFiniteSet(R) /\ Cardinality(R) \in Nat
  BY TasksAreFinite
<1> HIDE DEF W, R, others
<1>8. Cardinality(W \cup R) = Cardinality(W) + Cardinality(R)
  BY <1>4, <1>7, FS_Union, FS_EmptySet
<1>9. IsFiniteSet(Held \cup others) /\ Cardinality(W \cup R) <= Cardinality(Held \cup others)
  BY <1>4, <1>6, HeldIsFinite, FS_Union, FS_Subset
<1>10. Cardinality(Held \cup others) <= Cardinality(Held) + Cardinality(others)
  <2>1. IsFiniteSet(Held \cap others) /\ Cardinality(Held \cap others) \in Nat
    BY HeldIsFinite, FS_Subset, FS_CardinalityType
  <2>2. Cardinality(Held \cup others)
          = Cardinality(Held) + Cardinality(others) - Cardinality(Held \cap others)
    BY <1>6, HeldIsFinite, FS_Union
  <2> QED
    BY <1>6, <2>1, <2>2, HeldIsFinite
<1>11. Cardinality(Held \cup others) \in Nat
  BY <1>9, FS_CardinalityType
<1> QED
  BY <1>2, <1>3, <1>6, <1>7, <1>8, <1>9, <1>10, <1>11, HeldIsFinite DEF VisibleIsBounded, others

-----------------------------------------------------------------------------

\* The inductive invariant of the requests.
VisibleInv == DecodeInv /\ DerivedInv /\ Counted /\ PermitNeedsTicket

\* Whatever happens to the requests, queue and counts stay exact, nobody sleeps whom
\* nobody would wake, and only requests with a ticket wait for permits.
THEOREM VisibleInvariance == Spec => []VisibleInv
<1>1. Init => VisibleInv
  <2> SUFFICES ASSUME Init PROVE VisibleInv
    OBVIOUS
  <2>1. DecodeInv /\ DerivedInv
    BY DecodeInit, DerivedInit DEF Init
  <2>2. Counted
    <3> SUFFICES ASSUME NEW c \in Derived!Classes
                 PROVE  waiting[c] = Cardinality(WaitingIn(c)) /\ running[c] = Cardinality(RunningIn(c))
      BY DEF Counted
    <3>1. WaitingIn(c) = {} /\ RunningIn(c) = {}
      BY DEF Init, Derived!Init, WaitingIn, RunningIn, Everyone
    <3> QED
      BY <3>1, FS_EmptySet DEF Init, Derived!Init
  <2>3. PermitNeedsTicket
    BY DEF Init, Derived!Init, PermitNeedsTicket
  <2> QED
    BY <2>1, <2>2, <2>3 DEF VisibleInv
<1>2. VisibleInv /\ [Next]_vars => VisibleInv'
  BY StepsAreDecode, StepsAreDerived, DecodeStep, DerivedStep, CountsStep, PermitNeedsTicketStep
     DEF VisibleInv, DecodeInv, DerivedInv
<1> QED
  BY <1>1, <1>2, PTL DEF Spec

\* Both schedulers keep their shape; in particular only registered requests are
\* notified (DecodeScheduler::acquire, DerivedWorkScheduler::acquire).
THEOREM TypesHold == Spec => []TypeOK
<1>1. VisibleInv => TypeOK
  BY DEF VisibleInv, DecodeInv, DerivedInv, TypeOK
<1> QED
  BY <1>1, VisibleInvariance, PTL

\* A request that is cancelled, admitted or answered leaves neither an entry in the
\* queue nor a slot behind (DecodeWaitRegistration::drop, DecodeTicket::drop).
THEOREM QueueStaysExact == Spec => []TicketQueueIsExact
<1>1. VisibleInv => TicketQueueIsExact
  BY DEF VisibleInv, DecodeInv, TicketQueueIsExact
<1> QED
  BY <1>1, VisibleInvariance, PTL

\* The request whose turn it is never sleeps beside a free slot with nobody left to
\* wake it (the registration before the check in DecodeScheduler::acquire).
THEOREM NobodyForgotten == Spec => []NoImageIsForgotten
<1>1. VisibleInv => NoImageIsForgotten
  BY DEF VisibleInv, DecodeInv, NoImageIsForgotten
<1> QED
  BY <1>1, VisibleInvariance, PTL

\* The counts of waiting and running work are those of the tasks (acquire and the two
\* destructors of DerivedWorkScheduler).
THEOREM CountsStayExact == Spec => []PermitCountsAreExact
<1>1. VisibleInv => PermitCountsAreExact
  BY CountedIsExact DEF VisibleInv, PermitCountsAreExact
<1> QED
  BY <1>1, VisibleInvariance, PTL

\* No task sleeps while can_start would let it go on, unless it is about to be woken.
THEOREM NobodySleepsInVain == Spec => []NoTaskSleepsInVain
<1>1. VisibleInv => NoTaskSleepsInVain
  BY DEF VisibleInv, DerivedInv, NoTaskSleepsInVain
<1> QED
  BY <1>1, VisibleInvariance, PTL

\* Nobody sleeps for ever at either scheduler: a request or a task that could go on is
\* always about to be woken (the registrations and the destructors of both).
THEOREM NoWakeUpMissed == Spec => []NoWakeUpIsMissed
  BY NobodyForgotten, NobodySleepsInVain, PTL DEF NoWakeUpIsMissed

\* Requests for images hold back other work by no more than their tickets allow (the
\* order of the two acquires in render_visible_image).
THEOREM VisibleStaysBounded == Spec => []VisibleIsBounded
<1>1. VisibleInv => VisibleIsBounded
  BY TicketsBoundVisible DEF VisibleInv, DecodeInv, DerivedInv
<1> QED
  BY <1>1, VisibleInvariance, PTL
=============================================================================
