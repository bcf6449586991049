------------------------- MODULE CycleTimersProofs -------------------------
(***************************************************************************)
(* Proofs about CycleTimers, for every pool size, every set of timers and  *)
(* every choice of delays, costs and limits the assumptions allow.         *)
(***************************************************************************)
EXTENDS CycleTimers, SequenceTheorems, FiniteSetTheorems, WellFoundedInduction, TLAPS

(***************************************************************************)
(* Lists.  Insertion and removal at a place, and the first place of a set. *)
(***************************************************************************)

\* A non-empty set of places has a first one, and FirstOf finds it.
LEMMA FirstExists ==
    ASSUME NEW I \in SUBSET Nat, I # {}
    PROVE  /\ FirstOf(I) \in I
           /\ \A j \in I : FirstOf(I) <= j
<1>1. PICK x \in I : \A y \in I : ~(<<y, x>> \in OpToRel(<, Nat))
  BY NatLessThanWellFounded, WFMin
<1>2. ASSUME NEW y \in I PROVE x <= y
  <2>1. CASE y < x
    <3>1. <<y, x>> \in Nat \X Nat /\ <<y, x>>[1] < <<y, x>>[2]
      BY <2>1
    <3>2. <<y, x>> \in OpToRel(<, Nat)
      BY <3>1, Zenon DEF OpToRel
    <3>3. QED
      BY <3>2, <1>1
  <2>2. QED
    BY <2>1
<1>3. QED
  BY <1>2 DEF FirstOf

\* InsertAt moves the tail of the list one place on.
LEMMA InsertAtPlace ==
    ASSUME NEW list \in Seq(Slot), NEW p \in 1 .. Len(list) + 1, NEW s \in Slot
    PROVE  /\ InsertAt(list, p, s) \in Seq(Slot)
           /\ Len(InsertAt(list, p, s)) = Len(list) + 1
           /\ \A i \in 1 .. Len(list) + 1 :
                 InsertAt(list, p, s)[i] = IF i < p THEN list[i]
                                           ELSE IF i = p THEN s ELSE list[i - 1]
<1> DEFINE before == SubSeq(list, 1, p - 1)
           after == SubSeq(list, p, Len(list))
<1>0. /\ Len(list) \in Nat /\ p \in Int
      /\ \A i \in 1 .. Len(list) : list[i] \in Slot
  BY ElementOfSeq, LenProperties
<1>1. /\ before \in Seq(Slot) /\ Len(before) = p - 1
      /\ \A i \in 1 .. p - 1 : before[i] = list[i]
  <2>1. /\ before \in Seq(Slot)
        /\ Len(before) = IF 1 <= p - 1 THEN (p - 1) - 1 + 1 ELSE 0
        /\ \A i \in 1 .. (p - 1) - 1 + 1 : before[i] = list[1 + i - 1]
    <3>1. \A i \in 1 .. p - 1 : list[i] \in Slot
      BY <1>0
    <3>2. 1 \in Int /\ p - 1 \in Int
      BY <1>0
    <3>3. QED
      BY <3>1, <3>2, SubSeqProperties
  <2>2. QED
    BY <2>1, <1>0
<1>2. /\ after \in Seq(Slot) /\ Len(after) = Len(list) - p + 1
      /\ \A i \in 1 .. Len(list) - p + 1 : after[i] = list[p + i - 1]
  <2>1. \A i \in p .. Len(list) : list[i] \in Slot
    BY <1>0
  <2>2. /\ after \in Seq(Slot)
        /\ Len(after) = IF p <= Len(list) THEN Len(list) - p + 1 ELSE 0
        /\ \A i \in 1 .. Len(list) - p + 1 : after[i] = list[p + i - 1]
    BY <2>1, <1>0, SubSeqProperties
  <2>3. QED
    BY <2>2, <1>0
<1> HIDE DEF before, after
<1> DEFINE front == before \o <<s>>
<1>3. /\ front \in Seq(Slot)
      /\ Len(front) = p
      /\ \A i \in 1 .. p : front[i] = IF i < p THEN list[i] ELSE s
  <2> DEFINE one == <<s>>
  <2>1. one \in Seq(Slot) /\ Len(one) = 1 /\ one[1] = s
    OBVIOUS
  <2>2. /\ before \o one \in Seq(Slot)
        /\ Len(before \o one) = Len(before) + Len(one)
        /\ \A i \in 1 .. Len(before) + Len(one) :
              (before \o one)[i] = IF i <= Len(before) THEN before[i]
                                   ELSE one[i - Len(before)]
    <3> HIDE DEF one
    <3>1. QED
      BY <1>1, <2>1, ConcatProperties
  <2>3. front = before \o one
    OBVIOUS
  <2> HIDE DEF one, front
  <2>4. QED
    BY <1>0, <1>1, <2>1, <2>2, <2>3
<1> HIDE DEF front
<1> DEFINE whole == front \o after
<1>4. /\ whole \in Seq(Slot)
      /\ Len(whole) = Len(front) + Len(after)
      /\ \A i \in 1 .. Len(front) + Len(after) :
            whole[i] = IF i <= Len(front) THEN front[i] ELSE after[i - Len(front)]
  BY <1>2, <1>3, ConcatProperties
<1>5. InsertAt(list, p, s) = whole
  BY DEF InsertAt, before, front, after
<1> HIDE DEF whole
<1>6. Len(whole) = Len(list) + 1
  BY <1>0, <1>2, <1>3, <1>4
<1>7. ASSUME NEW i \in 1 .. Len(list) + 1
      PROVE  whole[i] = IF i < p THEN list[i] ELSE IF i = p THEN s ELSE list[i - 1]
  <2>1. CASE i <= p
    BY <2>1, <1>0, <1>2, <1>3, <1>4
  <2>2. CASE i > p
    <3>1. i - p \in 1 .. Len(list) - p + 1 /\ p + (i - p) - 1 = i - 1
      BY <2>2, <1>0
    <3>2. after[i - p] = list[i - 1]
      BY <3>1, <1>2
    <3>3. i \in 1 .. Len(front) + Len(after) /\ ~(i <= Len(front))
      BY <2>2, <1>0, <1>2, <1>3
    <3>4. QED
      BY <3>2, <3>3, <2>2, <1>0, <1>3, <1>4
  <2>3. QED
    BY <2>1, <2>2, <1>0
<1>8. QED
  BY <1>4, <1>5, <1>6, <1>7

\* RemoveAt moves the tail of the list one place back.
LEMMA RemoveAtPlace ==
    ASSUME NEW list \in Seq(Slot), NEW p \in 1 .. Len(list)
    PROVE  /\ RemoveAt(list, p) \in Seq(Slot)
           /\ Len(RemoveAt(list, p)) = Len(list) - 1
           /\ \A i \in 1 .. Len(list) - 1 :
                 RemoveAt(list, p)[i] = IF i < p THEN list[i] ELSE list[i + 1]
<1> DEFINE before == SubSeq(list, 1, p - 1)
           after == SubSeq(list, p + 1, Len(list))
<1>0. /\ Len(list) \in Nat /\ p \in Int /\ p - 1 \in Int /\ p + 1 \in Int
      /\ \A i \in 1 .. Len(list) : list[i] \in Slot
  BY ElementOfSeq, LenProperties
<1>1. /\ before \in Seq(Slot)
      /\ Len(before) = IF 1 <= p - 1 THEN (p - 1) - 1 + 1 ELSE 0
      /\ \A i \in 1 .. (p - 1) - 1 + 1 : before[i] = list[1 + i - 1]
  <2>1. \A i \in 1 .. p - 1 : list[i] \in Slot
    BY <1>0
  <2>2. QED
    BY <2>1, <1>0, SubSeqProperties
<1>2. /\ after \in Seq(Slot)
      /\ Len(after) = IF p + 1 <= Len(list) THEN Len(list) - (p + 1) + 1 ELSE 0
      /\ \A i \in 1 .. Len(list) - (p + 1) + 1 : after[i] = list[(p + 1) + i - 1]
  <2>1. \A i \in p + 1 .. Len(list) : list[i] \in Slot
    BY <1>0
  <2>2. QED
    BY <2>1, <1>0, SubSeqProperties
<1> HIDE DEF before, after
<1> DEFINE whole == before \o after
<1>3. /\ whole \in Seq(Slot)
      /\ Len(whole) = Len(before) + Len(after)
      /\ \A i \in 1 .. Len(before) + Len(after) :
            whole[i] = IF i <= Len(before) THEN before[i] ELSE after[i - Len(before)]
  BY <1>1, <1>2, ConcatProperties
<1>4. RemoveAt(list, p) = whole
  BY DEF RemoveAt, before, after
<1> HIDE DEF whole
<1>5. Len(before) = p - 1 /\ Len(after) = Len(list) - p
  BY <1>0, <1>1, <1>2
<1>6. Len(whole) = Len(list) - 1
  BY <1>0, <1>3, <1>5
<1>7. ASSUME NEW i \in 1 .. Len(list) - 1
      PROVE  whole[i] = IF i < p THEN list[i] ELSE list[i + 1]
  <2>1. CASE i < p
    <3>1. /\ i \in 1 .. (p - 1) - 1 + 1 /\ 1 + i - 1 = i
          /\ i \in 1 .. Len(before) + Len(after) /\ i <= Len(before)
      BY <2>1, <1>0, <1>5
    <3>2. before[i] = list[i]
      BY <3>1, <1>1
    <3>3. whole[i] = before[i]
      BY <3>1, <1>3
    <3>4. QED
      BY <3>2, <3>3, <2>1
  <2>2. CASE i >= p
    <3>1. /\ i - (p - 1) \in 1 .. Len(list) - (p + 1) + 1
          /\ (p + 1) + (i - (p - 1)) - 1 = i + 1
      BY <2>2, <1>0
    <3>2. after[i - (p - 1)] = list[i + 1]
      BY <3>1, <1>2
    <3>3. i \in 1 .. Len(before) + Len(after) /\ ~(i <= Len(before))
      BY <2>2, <1>0, <1>5
    <3>4. whole[i] = after[i - Len(before)]
      BY <3>3, <1>3
    <3>5. QED
      BY <3>2, <3>4, <2>2, <1>0, <1>5
  <2>3. QED
    BY <2>1, <2>2, <1>0
<1>8. QED
  BY <1>3, <1>4, <1>6, <1>7

(***************************************************************************)
(* The pool.  PoolOK gathers what register, cancel and process keep of the *)
(* lists: everything is somewhere, once, and the list is sorted.           *)
(***************************************************************************)
Distinct(list) == \A i, j \in 1 .. Len(list) : i # j => list[i] # list[j]

SortedBy(sl, list) ==
    \A i, j \in 1 .. Len(list) : i < j => Deadline(sl, list, i) <= Deadline(sl, list, j)

PoolOK(sl, list, left, held) ==
    /\ sl \in [Slot -> Timed]
    /\ list \in Seq(Slot)
    /\ left \subseteq Slot
    /\ held \in Slot \cup {NoSlot}
    /\ Distinct(list)
    /\ ToSet(list) \cap left = {}
    /\ held \notin ToSet(list) \cup left
    /\ Slot = (ToSet(list) \cup left \cup {held}) \ {NoSlot}
    /\ SortedBy(sl, list)

LEMMA InToSet ==
    ASSUME NEW list \in Seq(Slot)
    PROVE  /\ \A i \in 1 .. Len(list) : list[i] \in ToSet(list) /\ list[i] \in Slot
           /\ \A x \in ToSet(list) : \E i \in 1 .. Len(list) : x = list[i]
           /\ Len(list) \in Nat
           /\ list = << >> <=> Len(list) = 0
BY LenProperties, ElementOfSeq, EmptySeq DEF ToSet

\* The search of insert ends, with only earlier or equal deadlines before
\* its place and a later one, or the end of the list, at it.
LEMMA PlaceFound ==
    ASSUME NEW sl \in [Slot -> Timed], NEW list \in Seq(Slot), NEW w \in Nat
    PROVE  /\ PlaceOf(sl, list, w) \in 1 .. Len(list) + 1
           /\ \A j \in 1 .. PlaceOf(sl, list, w) - 1 : Deadline(sl, list, j) <= w
           /\ PlaceOf(sl, list, w) <= Len(list) =>
                 Deadline(sl, list, PlaceOf(sl, list, w)) > w
<1> DEFINE I == {i \in 1 .. Len(list) + 1 : i <= Len(list) => Deadline(sl, list, i) > w}
           f == FirstOf(I)
<1>1. Len(list) \in Nat /\ \A i \in 1 .. Len(list) : Deadline(sl, list, i) \in Nat
  BY InToSet DEF Deadline, Timed
<1>2. Len(list) + 1 \in I
  BY <1>1
<1>3. f \in I /\ \A j \in I : f <= j
  <2>1. I \in SUBSET Nat /\ I # {}
    BY <1>1, <1>2
  <2> HIDE DEF I
  <2>2. QED
    BY <2>1, FirstExists
<1>4. \A j \in 1 .. f - 1 : Deadline(sl, list, j) <= w
  <2> SUFFICES ASSUME NEW j \in 1 .. f - 1 PROVE Deadline(sl, list, j) <= w
    OBVIOUS
  <2>1. f \in 1 .. Len(list) + 1 /\ j \in 1 .. Len(list) /\ j < f
    BY <1>1, <1>3
  <2>2. j \notin I
    BY <2>1, <1>1, <1>3
  <2>3. QED
    BY <2>1, <2>2, <1>1
<1>5. /\ f \in 1 .. Len(list) + 1
      /\ f <= Len(list) => Deadline(sl, list, f) > w
  BY <1>3
<1> HIDE DEF f
<1>6. QED
  BY <1>4, <1>5 DEF PlaceOf

\* Inserting a free slot keeps the pool in order.
LEMMA InsertKeepsPool ==
    ASSUME NEW sl, NEW list, NEW left, NEW held, NEW s \in left,
           PoolOK(sl, list, left, held), NEW w, sl[s].when = w
    PROVE  /\ PoolOK(sl, Insert(sl, list, s, w), left \ {s}, held)
           /\ \A x \in ToSet(Insert(sl, list, s, w)) : x \in ToSet(list) \/ x = s
<1> DEFINE p == PlaceOf(sl, list, w)
           new == InsertAt(list, p, s)
<1>1. /\ sl \in [Slot -> Timed] /\ list \in Seq(Slot) /\ s \in Slot /\ w \in Nat
      /\ \A x \in Slot : sl[x].when \in Nat
  BY DEF PoolOK, Timed
<1>2. /\ p \in 1 .. Len(list) + 1
      /\ \A j \in 1 .. p - 1 : Deadline(sl, list, j) <= w
      /\ p <= Len(list) => Deadline(sl, list, p) > w
  BY <1>1, PlaceFound
<1> HIDE DEF p
<1>3. /\ new \in Seq(Slot)
      /\ Len(new) = Len(list) + 1
      /\ \A i \in 1 .. Len(list) + 1 :
            new[i] = IF i < p THEN list[i] ELSE IF i = p THEN s ELSE list[i - 1]
  <2>1. list \in Seq(Slot) /\ s \in Slot /\ p \in 1 .. Len(list) + 1
    BY <1>1, <1>2
  <2>2. new \in Seq(Slot)
    BY <2>1, InsertAtPlace
  <2>3. Len(new) = Len(list) + 1
    BY <2>1, InsertAtPlace
  <2>4. ASSUME NEW i \in 1 .. Len(list) + 1
        PROVE  new[i] = IF i < p THEN list[i] ELSE IF i = p THEN s ELSE list[i - 1]
    BY <2>1, InsertAtPlace, SMTT(30)
  <2>5. QED
    BY <2>2, <2>3, <2>4
<1>4. Insert(sl, list, s, w) = new
  BY DEF Insert, p
<1> HIDE DEF new
<1>5. /\ Len(list) \in Nat
      /\ \A i \in 1 .. Len(list) : list[i] \in ToSet(list) /\ list[i] \in Slot
      /\ \A x \in ToSet(list) : \E i \in 1 .. Len(list) : x = list[i]
  BY <1>1, InToSet
<1>6. /\ \A i \in 1 .. Len(new) : new[i] \in ToSet(new)
      /\ \A x \in ToSet(new) : \E i \in 1 .. Len(new) : x = new[i]
  BY <1>3, InToSet
<1>7. ToSet(new) = ToSet(list) \cup {s}
  <2>1. ASSUME NEW x \in ToSet(new) PROVE x \in ToSet(list) \cup {s}
    <3>1. PICK i \in 1 .. Len(new) : x = new[i]
      BY <1>6
    <3>2. p \in Int /\ 1 <= p /\ p <= Len(list) + 1
      BY <1>2, <1>5
    <3>3. i < p => i \in 1 .. Len(list)
      BY <3>2, <1>3, <1>5
    <3>4. i > p => i - 1 \in 1 .. Len(list)
      BY <3>2, <1>3, <1>5
    <3>5. QED
      BY <3>1, <3>2, <3>3, <3>4, <1>3, <1>5
  <2>2. s \in ToSet(new)
    BY <1>2, <1>3, <1>5, <1>6
  <2>3. ASSUME NEW i \in 1 .. Len(list) PROVE list[i] \in ToSet(new)
    <3>1. CASE i < p
      <4>1. i \in 1 .. Len(new) /\ new[i] = list[i]
        BY <3>1, <1>3, <1>5
      <4>2. QED
        BY <4>1, <1>6
    <3>2. CASE i >= p
      <4>1. i + 1 \in 1 .. Len(new) /\ new[i + 1] = list[i]
        BY <3>2, <1>2, <1>3, <1>5
      <4>2. QED
        BY <4>1, <1>6
    <3>3. QED
      BY <3>1, <3>2, <1>2, <1>5
  <2>4. QED
    BY <2>1, <2>2, <2>3, <1>5
<1>8. Distinct(new)
  <2> SUFFICES ASSUME NEW i \in 1 .. Len(new), NEW j \in 1 .. Len(new), i < j
               PROVE  new[i] # new[j]
    BY <1>3, <1>5 DEF Distinct
  <2>1. /\ s \notin ToSet(list)
        /\ \A a, b \in 1 .. Len(list) : a # b => list[a] # list[b]
    BY DEF PoolOK, Distinct
  <2>2. CASE i = p \/ j = p
    <3>1. ASSUME NEW k \in 1 .. Len(new), k # p PROVE new[k] \in ToSet(list)
      <4>1. p \in Int /\ 1 <= p /\ p <= Len(list) + 1
        BY <1>2, <1>5
      <4>2. /\ k < p => k \in 1 .. Len(list)
            /\ k > p => k - 1 \in 1 .. Len(list)
        BY <4>1, <1>3, <1>5
      <4>3. CASE k < p
        <5>1. new[k] = list[k]
          BY <4>3, <3>1, <1>3
        <5>2. QED
          BY <5>1, <4>2, <4>3, <1>5
      <4>4. CASE k > p
        <5>1. new[k] = list[k - 1]
          BY <4>4, <4>1, <3>1, <1>3
        <5>2. QED
          BY <5>1, <4>2, <4>4, <1>5
      <4>5. QED
        BY <3>1, <4>1, <4>3, <4>4
    <3>2. QED
      BY <3>1, <2>1, <2>2, <1>2, <1>3
  <2>3. CASE i # p /\ j # p
    <3> DEFINE Old(k) == IF k < p THEN k ELSE k - 1
    <3>1. /\ Old(i) \in 1 .. Len(list) /\ Old(j) \in 1 .. Len(list)
          /\ Old(i) # Old(j)
      BY <2>3, <1>2, <1>3, <1>5
    <3>2. new[i] = list[Old(i)] /\ new[j] = list[Old(j)]
      BY <2>3, <1>2, <1>3, <1>5
    <3> HIDE DEF Old
    <3>3. QED
      BY <3>1, <3>2, <2>1
  <2>4. QED
    BY <2>2, <2>3
<1>9. SortedBy(sl, new)
  <2> SUFFICES ASSUME NEW i \in 1 .. Len(new), NEW j \in 1 .. Len(new), i < j
               PROVE  sl[new[i]].when <= sl[new[j]].when
    BY DEF SortedBy, Deadline
  <2>1. \A a, b \in 1 .. Len(list) : a < b => sl[list[a]].when <= sl[list[b]].when
    BY DEF PoolOK, SortedBy, Deadline
  <2>2. /\ \A a \in 1 .. p - 1 : sl[list[a]].when <= w
        /\ p <= Len(list) => sl[list[p]].when > w
    BY <1>2 DEF Deadline
  <2>3. \A a \in 1 .. Len(list) : sl[list[a]].when \in Nat
    BY <1>1, <1>5
  <2>4. \A a \in p .. Len(list) : sl[list[a]].when > w
    <3> SUFFICES ASSUME NEW a \in p .. Len(list) PROVE sl[list[a]].when > w
      OBVIOUS
    <3>1. p \in 1 .. Len(list) /\ a \in 1 .. Len(list) /\ (a = p \/ p < a)
      BY <1>2, <1>5
    <3>2. QED
      BY <3>1, <2>1, <2>2, <2>3, <1>1
  <2>5. sl[s].when = w
    OBVIOUS
  <2>6. CASE j < p
    BY <2>6, <2>1, <1>2, <1>3, <1>5
  <2>7. CASE j = p
    BY <2>7, <2>2, <2>5, <1>2, <1>3, <1>5
  <2>8. CASE i < p /\ j > p
    <3>1. new[i] = list[i] /\ new[j] = list[j - 1]
      BY <2>8, <1>2, <1>3, <1>5
    <3>2. /\ i \in 1 .. p - 1 /\ j - 1 \in p .. Len(list)
          /\ i \in 1 .. Len(list) /\ j - 1 \in 1 .. Len(list)
      BY <2>8, <1>2, <1>3, <1>5
    <3>3. QED
      BY <3>1, <3>2, <2>2, <2>3, <2>4, <1>1, SMTT(30)
  <2>9. CASE i = p
    <3>1. new[i] = s /\ new[j] = list[j - 1]
      BY <2>9, <1>2, <1>3, <1>5
    <3>2. j - 1 \in p .. Len(list) /\ j - 1 \in 1 .. Len(list)
      BY <2>9, <1>2, <1>3, <1>5
    <3>3. QED
      BY <3>1, <3>2, <2>3, <2>4, <2>5, <1>1
  <2>10. CASE i > p
    <3>1. new[i] = list[i - 1] /\ new[j] = list[j - 1]
      BY <2>10, <1>2, <1>3, <1>5
    <3>2. i - 1 \in 1 .. Len(list) /\ j - 1 \in 1 .. Len(list) /\ i - 1 < j - 1
      BY <2>10, <1>2, <1>3, <1>5
    <3>3. QED
      BY <3>1, <3>2, <2>1
  <2>11. i \in Int /\ j \in Int /\ p \in Int
    BY <1>2
  <2>12. QED
    BY <2>6, <2>7, <2>8, <2>9, <2>10, <2>11
<1>10. PoolOK(sl, new, left \ {s}, held)
  BY <1>1, <1>3, <1>7, <1>8, <1>9 DEF PoolOK
<1>11. QED
  BY <1>4, <1>7, <1>10

\* Detaching a slot from any place keeps the pool in order; the slot goes to
\* the free list.
LEMMA RemoveKeepsPool ==
    ASSUME NEW sl, NEW list, NEW left, NEW held, PoolOK(sl, list, left, held),
           NEW p \in 1 .. Len(list)
    PROVE  /\ PoolOK(sl, RemoveAt(list, p), left \cup {list[p]}, held)
           /\ ToSet(RemoveAt(list, p)) = ToSet(list) \ {list[p]}
<1> DEFINE new == RemoveAt(list, p)
<1>1. list \in Seq(Slot) /\ Distinct(list) /\ SortedBy(sl, list)
  BY DEF PoolOK
<1>2. /\ new \in Seq(Slot)
      /\ Len(new) = Len(list) - 1
      /\ \A i \in 1 .. Len(list) - 1 : new[i] = IF i < p THEN list[i] ELSE list[i + 1]
  BY <1>1, RemoveAtPlace
<1> HIDE DEF new
<1>3. /\ Len(list) \in Nat
      /\ \A i \in 1 .. Len(list) : list[i] \in ToSet(list) /\ list[i] \in Slot
      /\ \A x \in ToSet(list) : \E i \in 1 .. Len(list) : x = list[i]
  BY <1>1, InToSet
<1>4. /\ \A i \in 1 .. Len(new) : new[i] \in ToSet(new)
      /\ \A x \in ToSet(new) : \E i \in 1 .. Len(new) : x = new[i]
  BY <1>2, InToSet
<1>5. ToSet(new) = ToSet(list) \ {list[p]}
  <2>1. ASSUME NEW i \in 1 .. Len(new) PROVE new[i] \in ToSet(list) \ {list[p]}
    BY <1>1, <1>2, <1>3 DEF Distinct
  <2>2. ASSUME NEW i \in 1 .. Len(list), i # p PROVE list[i] \in ToSet(new)
    <3>1. CASE i < p
      <4>1. i \in 1 .. Len(new) /\ new[i] = list[i]
        BY <3>1, <1>2, <1>3
      <4>2. QED
        BY <4>1, <1>4
    <3>2. CASE i > p
      <4>1. i - 1 \in 1 .. Len(new) /\ new[i - 1] = list[i]
        BY <3>2, <1>2, <1>3
      <4>2. QED
        BY <4>1, <1>4
    <3>3. QED
      BY <3>1, <3>2, <2>2, <1>3
  <2>3. QED
    BY <2>1, <2>2, <1>3, <1>4
<1>6. Distinct(new)
  <2> SUFFICES ASSUME NEW i \in 1 .. Len(new), NEW j \in 1 .. Len(new), i < j
               PROVE  new[i] # new[j]
    BY <1>2, <1>3 DEF Distinct
  <2>1. QED
    BY <1>1, <1>2, <1>3, SMTT(30) DEF Distinct
<1>7. SortedBy(sl, new)
  <2> SUFFICES ASSUME NEW i \in 1 .. Len(new), NEW j \in 1 .. Len(new), i < j
               PROVE  sl[new[i]].when <= sl[new[j]].when
    BY DEF SortedBy, Deadline
  <2>1. \A a, b \in 1 .. Len(list) : a < b => sl[list[a]].when <= sl[list[b]].when
    BY <1>1 DEF SortedBy, Deadline
  <2> DEFINE Old(k) == IF k < p THEN k ELSE k + 1
  <2>2. /\ Old(i) \in 1 .. Len(list) /\ Old(j) \in 1 .. Len(list)
        /\ Old(i) < Old(j)
    BY <1>2, <1>3
  <2>3. new[i] = list[Old(i)] /\ new[j] = list[Old(j)]
    BY <1>2, <1>3
  <2> HIDE DEF Old
  <2>4. QED
    BY <2>1, <2>2, <2>3
<1>8. PoolOK(sl, new, left \cup {list[p]}, held)
  BY <1>1, <1>2, <1>3, <1>5, <1>6, <1>7 DEF PoolOK
<1>9. QED
  BY <1>5, <1>8 DEF new

\* The pool of the specification is in order when the invariants hold.
LEMMA PoolOfInvariants ==
    TypeOK => (PoolOK(slot, active, free, running) <=> SlotsConserved /\ Sorted)
<1> SUFFICES ASSUME TypeOK
             PROVE  PoolOK(slot, active, free, running) <=> SlotsConserved /\ Sorted
  OBVIOUS
<1>1. NoSlot \notin Slot
  BY SlotAssumption
<1>2. NoSlot \notin ToSet(active) \cup free
  BY <1>1, InToSet DEF TypeOK
<1>3. SortedBy(slot, active) <=> Sorted
  BY DEF SortedBy, Sorted
<1>4. Distinct(active) <=> \A i, j \in 1 .. Len(active) : i # j => active[i] # active[j]
  BY DEF Distinct
<1>5. QED
  BY <1>3, <1>4 DEF TypeOK, PoolOK, SlotsConserved

\* Cancelling t keeps the pool in order and arms nothing.
LEMMA WithoutKeepsPool ==
    ASSUME PoolOK(slot, active, free, running), NEW t
    PROVE  /\ PoolOK(slot, ListWithout(t), FreeWith(t), running)
           /\ ToSet(ListWithout(t)) \subseteq ToSet(active)
<1>1. CASE PlacesOf(t) = {}
  BY <1>1 DEF ListWithout, FreeWith
<1>2. CASE PlacesOf(t) # {}
  <2> DEFINE p == FirstOf(PlacesOf(t))
  <2>1. PlacesOf(t) \in SUBSET Nat /\ PlacesOf(t) \subseteq 1 .. Len(active)
    BY DEF PlacesOf
  <2>2. p \in 1 .. Len(active)
    BY <2>1, <1>2, FirstExists
  <2> HIDE DEF p
  <2>3. /\ PoolOK(slot, RemoveAt(active, p), free \cup {active[p]}, running)
        /\ ToSet(RemoveAt(active, p)) = ToSet(active) \ {active[p]}
    BY <2>2, RemoveKeepsPool
  <2>4. ListWithout(t) = RemoveAt(active, p) /\ FreeWith(t) = free \cup {active[p]}
    BY <1>2 DEF ListWithout, FreeWith, p
  <2>5. QED
    BY <2>3, <2>4
<1>3. QED
  BY <1>1, <1>2

\* The budget is between one cycle and RunLimit, and stops at the head.
LEMMA BudgetBounds ==
    ASSUME NEW sl \in [Slot -> Timed], NEW list \in Seq(Slot), cycle \in Nat
    PROVE  /\ BudgetOf(sl, list) \in Nat \ {0}
           /\ BudgetOf(sl, list) <= RunLimit
           /\ list # << >> =>
                 /\ Deadline(sl, list, 1) \in Nat
                 /\ Deadline(sl, list, 1) > cycle =>
                       cycle + BudgetOf(sl, list) <= Deadline(sl, list, 1)
                 /\ Deadline(sl, list, 1) <= cycle => BudgetOf(sl, list) = 1
<1>1. \A n \in Nat : /\ Limited(n) \in Nat \ {0} /\ Limited(n) <= RunLimit
                     /\ n > 0 => Limited(n) <= n
                     /\ n = 0 => Limited(n) = 1
  BY CycleAssumption DEF Limited
<1>2. list # << >> => Deadline(sl, list, 1) \in Nat
  <2> SUFFICES ASSUME list # << >> PROVE Deadline(sl, list, 1) \in Nat
    OBVIOUS
  <2>1. 1 \in 1 .. Len(list)
    BY InToSet
  <2>2. list[1] \in Slot
    BY <2>1, InToSet
  <2>3. QED
    BY <2>2 DEF Deadline, Timed
<1>3. CASE list = << >>
  BY <1>1, <1>3, CycleAssumption DEF BudgetOf
<1>4. CASE list # << >>
  <2> DEFINE h == Deadline(sl, list, 1)
  <2>1. h \in Nat
    BY <1>2, <1>4
  <2>2. BudgetOf(sl, list) = IF h > cycle THEN Limited(h - cycle) ELSE Limited(0)
    BY <1>4 DEF BudgetOf
  <2> HIDE DEF h
  <2>3. CASE h > cycle
    <3>1. h - cycle \in Nat /\ h - cycle > 0
      BY <2>1, <2>3
    <3>2. /\ BudgetOf(sl, list) \in Nat \ {0} /\ BudgetOf(sl, list) <= RunLimit
          /\ BudgetOf(sl, list) <= h - cycle
      BY <1>1, <2>2, <2>3, <3>1
    <3>3. QED
      BY <2>1, <2>3, <3>2 DEF h
  <2>4. CASE ~(h > cycle)
    <3>1. BudgetOf(sl, list) = 1 /\ 1 <= RunLimit
      BY <1>1, <2>2, <2>4, CycleAssumption
    <3>2. QED
      BY <2>1, <2>4, <3>1 DEF h
  <2>5. QED
    BY <2>3, <2>4
<1>5. QED
  BY <1>3, <1>4

\* Every pending deadline is at or after the one at the head.
LEMMA HeadIsEarliest ==
    ASSUME NEW sl, NEW list, NEW left, NEW held, PoolOK(sl, list, left, held),
           NEW x \in ToSet(list)
    PROVE  /\ list # << >>
           /\ list[1] \in ToSet(list)
           /\ Deadline(sl, list, 1) \in Nat
           /\ sl[x].when \in Nat
           /\ Deadline(sl, list, 1) <= sl[x].when
<1>1. PICK i \in 1 .. Len(list) : x = list[i]
  BY InToSet DEF PoolOK
<1>2. /\ Len(list) \in Nat /\ 1 \in 1 .. Len(list) /\ list # << >>
      /\ list[1] \in ToSet(list)
  BY InToSet DEF PoolOK
<1>3. \A k \in 1 .. Len(list) : sl[list[k]].when \in Nat
  BY InToSet DEF PoolOK, Timed
<1>4. i = 1 \/ 1 < i
  BY <1>1
<1>5. QED
  BY <1>1, <1>2, <1>3, <1>4 DEF PoolOK, SortedBy, Deadline

\* Prompt, said of the slots of the list.
LEMMA PromptOfSlots ==
    ASSUME TypeOK
    PROVE  (\A i \in 1 .. Len(active) : cycle <= Deadline(slot, active, i) + MaxLate)
              <=> (\A x \in ToSet(active) : cycle <= slot[x].when + MaxLate)
BY InToSet DEF TypeOK, Deadline

\* A burst that uses up c cycles of its budget may overrun by a halt more.
LEMMA OverrunBounds ==
    /\ MaxBurst \in Nat /\ MaxBurst >= RunLimit /\ MaxLate = MaxBurst + Slack
    /\ Overrun(1) = MaxBurst + 1
    /\ \A n \in 1 .. RunLimit :
          /\ Overrun(n) \in Nat
          /\ Overrun(n) >= RunLimit + 1 /\ Overrun(n) <= MaxBurst + 1
    /\ \A n \in 1 .. RunLimit, c \in 1 .. RunLimit :
          c < n => Overrun(n) + MaxHalt <= Overrun(n - c)
<1>1. RunLimit \in Nat \ {0} /\ MaxHalt \in Nat /\ Slack \in Nat \ {0}
  BY CycleAssumption
<1>2. \A m \in Nat : MaxHalt * m \in Nat
  BY <1>1
<1>3. \A m, k \in Nat : m <= k => MaxHalt * m <= MaxHalt * k
  BY <1>1
<1>4. \A m, k \in Nat : m + 1 <= k => MaxHalt * m + MaxHalt <= MaxHalt * k
  <2> TAKE m, k \in Nat
  <2>1. MaxHalt * (m + 1) = MaxHalt * m + MaxHalt
    BY <1>1
  <2>2. QED
    BY <1>3, <2>1
<1>5. \A n \in 1 .. RunLimit : RunLimit - n \in Nat /\ RunLimit - n <= RunLimit - 1
  BY <1>1
<1>6. MaxBurst \in Nat /\ MaxBurst >= RunLimit /\ MaxLate = MaxBurst + Slack
  BY <1>1, <1>2 DEF MaxBurst, MaxLate
<1>7. Overrun(1) = MaxBurst + 1
  <2>1. MaxHalt * (RunLimit - 1) \in Nat
    BY <1>1, <1>2
  <2>2. QED
    BY <1>1, <2>1 DEF Overrun, MaxBurst
<1>8. ASSUME NEW n \in 1 .. RunLimit
      PROVE  /\ Overrun(n) \in Nat
             /\ Overrun(n) >= RunLimit + 1 /\ Overrun(n) <= MaxBurst + 1
  <2>1. /\ MaxHalt * (RunLimit - n) \in Nat /\ MaxHalt * (RunLimit - 1) \in Nat
        /\ MaxHalt * (RunLimit - n) <= MaxHalt * (RunLimit - 1)
    BY <1>1, <1>2, <1>3, <1>5
  <2>2. QED
    BY <1>1, <2>1 DEF Overrun, MaxBurst
<1>9. ASSUME NEW n \in 1 .. RunLimit, NEW c \in 1 .. RunLimit, c < n
      PROVE  Overrun(n) + MaxHalt <= Overrun(n - c)
  <2>1. /\ RunLimit - n \in Nat /\ RunLimit - (n - c) \in Nat
        /\ RunLimit - n + 1 <= RunLimit - (n - c)
    BY <1>1, <1>9
  <2>2. /\ MaxHalt * (RunLimit - n) + MaxHalt <= MaxHalt * (RunLimit - (n - c))
        /\ MaxHalt * (RunLimit - n) \in Nat /\ MaxHalt * (RunLimit - (n - c)) \in Nat
    BY <1>2, <1>4, <2>1
  <2>3. QED
    BY <1>1, <2>2 DEF Overrun
<1>10. QED
  BY <1>6, <1>7, <1>8, <1>9

\* BudgetOf leaves the next burst within the bounds the invariant asks for,
\* as long as nothing pending is later than a burst makes it.
LEMMA BudgetSuffices ==
    ASSUME NEW sl, NEW list, NEW left, NEW held, PoolOK(sl, list, left, held),
           cycle \in Nat,
           \A x \in ToSet(list) : cycle <= sl[x].when + MaxBurst
    PROVE  list # << >> =>
               cycle + BudgetOf(sl, list) <= Deadline(sl, list, 1) + Overrun(BudgetOf(sl, list))
<1> SUFFICES ASSUME list # << >>
             PROVE  cycle + BudgetOf(sl, list)
                        <= Deadline(sl, list, 1) + Overrun(BudgetOf(sl, list))
  OBVIOUS
<1>1. sl \in [Slot -> Timed] /\ list \in Seq(Slot)
  BY DEF PoolOK
<1>2. list[1] \in ToSet(list)
  BY <1>1, InToSet
<1>3. cycle <= Deadline(sl, list, 1) + MaxBurst
  BY <1>2 DEF Deadline
<1>4. /\ BudgetOf(sl, list) \in Nat \ {0} /\ BudgetOf(sl, list) <= RunLimit
      /\ Deadline(sl, list, 1) \in Nat
      /\ Deadline(sl, list, 1) > cycle =>
            cycle + BudgetOf(sl, list) <= Deadline(sl, list, 1)
      /\ Deadline(sl, list, 1) <= cycle => BudgetOf(sl, list) = 1
  BY <1>1, BudgetBounds
<1>5. Overrun(BudgetOf(sl, list)) \in Nat /\ MaxBurst \in Nat
  BY <1>4, OverrunBounds, CycleAssumption
<1>6. CASE Deadline(sl, list, 1) > cycle
  BY <1>4, <1>5, <1>6
<1>7. CASE Deadline(sl, list, 1) <= cycle
  BY <1>3, <1>4, <1>5, <1>7, OverrunBounds
<1>8. QED
  BY <1>4, <1>6, <1>7

\* What a step has to show for the invariant to hold after it.
LEMMA AfterStep ==
    ASSUME PoolOK(slot', active', free', running'),
           cycle' \in Nat, runCount' \in Nat \ {0}, runCount' <= RunLimit,
           phase' \in {"run", "process", "callback"},
           runWhen' \in Nat, asleep' \in BOOLEAN,
           (phase' = "callback") <=> (running' # NoSlot),
           phase' = "callback" => runWhen' <= cycle' /\ cycle' <= runWhen' + MaxLate,
           \A x \in ToSet(active') : cycle' <= slot'[x].when + MaxLate,
           (phase' = "run" /\ active' # << >>) =>
               cycle' + runCount' <= Deadline(slot', active', 1) + Overrun(runCount')
    PROVE  IInv'
<1>1. TypeOK'
  BY DEF PoolOK, TypeOK
<1>2. SlotsConserved'
  BY DEF PoolOK, SlotsConserved, Distinct
<1>3. Sorted'
  BY DEF PoolOK, Sorted, SortedBy
<1>4. Prompt'
  <2>1. \A i \in 1 .. Len(active') : active'[i] \in ToSet(active')
    BY InToSet DEF PoolOK
  <2>2. \A i \in 1 .. Len(active') : cycle' <= Deadline(slot', active', i) + MaxLate
    BY <2>1 DEF Deadline
  <2>3. QED
    BY <2>2 DEF Prompt
<1>5. DetachedWhileCalled' /\ NeverEarly' /\ BudgetCoversHead'
  BY DEF DetachedWhileCalled, NeverEarly, BudgetCoversHead
<1>6. QED
  BY <1>1, <1>2, <1>3, <1>4, <1>5 DEF IInv

\* What the invariant says before a step, of the slots of the list.
LEMMA BeforeStep ==
    ASSUME IInv
    PROVE  /\ PoolOK(slot, active, free, running)
           /\ cycle \in Nat /\ runCount \in Nat \ {0} /\ runCount <= RunLimit
           /\ phase \in {"run", "process", "callback"}
           /\ runWhen \in Nat /\ asleep \in BOOLEAN
           /\ (phase = "callback") <=> (running # NoSlot)
           /\ phase = "callback" => runWhen <= cycle /\ cycle <= runWhen + MaxLate
           /\ \A x \in ToSet(active) : cycle <= slot[x].when + MaxLate
           /\ (phase = "run" /\ active # << >>) =>
                  cycle + runCount <= Deadline(slot, active, 1) + Overrun(runCount)
           /\ phase = "run" => \A x \in ToSet(active) : cycle <= slot[x].when + MaxBurst
<1>1. PoolOK(slot, active, free, running)
  BY PoolOfInvariants DEF IInv
<1>2. \A x \in ToSet(active) : cycle <= slot[x].when + MaxLate
  BY PromptOfSlots DEF IInv, Prompt
<1>3. /\ cycle \in Nat /\ runCount \in Nat \ {0} /\ runCount <= RunLimit
      /\ phase \in {"run", "process", "callback"}
      /\ runWhen \in Nat /\ asleep \in BOOLEAN
      /\ (phase = "callback") <=> (running # NoSlot)
      /\ phase = "callback" => runWhen <= cycle /\ cycle <= runWhen + MaxLate
      /\ (phase = "run" /\ active # << >>) =>
             cycle + runCount <= Deadline(slot, active, 1) + Overrun(runCount)
  BY DEF IInv, TypeOK, DetachedWhileCalled, Prompt, NeverEarly, BudgetCoversHead
<1>4. ASSUME phase = "run", NEW x \in ToSet(active)
      PROVE  cycle <= slot[x].when + MaxBurst
  <2>1. /\ active # << >>
        /\ Deadline(slot, active, 1) \in Nat /\ slot[x].when \in Nat
        /\ Deadline(slot, active, 1) <= slot[x].when
    BY <1>1, HeadIsEarliest
  <2>2. Overrun(runCount) \in Nat /\ Overrun(runCount) <= MaxBurst + 1 /\ MaxBurst \in Nat
    BY <1>3, OverrunBounds, CycleAssumption
  <2>3. QED
    BY <1>3, <1>4, <2>1, <2>2
<1>5. QED
  BY <1>1, <1>2, <1>3, <1>4

(***************************************************************************)
(* One lemma per step.                                                     *)
(***************************************************************************)

\* Calls that leave pool, list and budget in order keep the invariant.
LEMMA CallKeepsInv ==
    ASSUME IInv, CallersTurn,
           PoolOK(slot', active', free', running),
           \A x \in ToSet(active') :
              \/ x \in ToSet(active) /\ slot'[x].when = slot[x].when
              \/ slot'[x].when >= cycle,
           runCount' = BudgetOf(slot', active'),
           UNCHANGED <<cycle, phase, running, runWhen, asleep>>
    PROVE  IInv'
<1>1. /\ slot' \in [Slot -> Timed] /\ active' \in Seq(Slot)
      /\ \A x \in ToSet(active') : slot'[x].when \in Nat
  BY InToSet DEF PoolOK, Timed
<1>2. runCount' \in Nat \ {0} /\ runCount' <= RunLimit
  BY <1>1, BeforeStep, BudgetBounds
<1>3. \A x \in ToSet(active') : cycle' <= slot'[x].when + MaxLate
  BY <1>1, BeforeStep, OverrunBounds, CycleAssumption
<1>4. (phase' = "run" /\ active' # << >>) =>
          cycle' + runCount' <= Deadline(slot', active', 1) + Overrun(runCount')
  <2> SUFFICES ASSUME phase = "run", active' # << >>
               PROVE  cycle + runCount' <= Deadline(slot', active', 1) + Overrun(runCount')
    OBVIOUS
  <2>1. \A x \in ToSet(active') : cycle <= slot'[x].when + MaxBurst
    BY <1>1, BeforeStep, OverrunBounds
  <2>2. QED
    BY <2>1, BeforeStep, BudgetSuffices
<1>5. QED
  BY <1>2, <1>3, <1>4, BeforeStep, AfterStep

\* Arming a timer, once its pending entry, if any, is out of the way.
LEMMA ArmKeepsInv ==
    ASSUME IInv, NEW list, NEW left, NEW t \in Timer, NEW d \in Nat,
           PoolOK(slot, list, left, running), ToSet(list) \subseteq ToSet(active),
           Arm(list, left, t, d)
    PROVE  IInv'
<1>1. /\ CallersTurn /\ runCount' = BudgetOf(slot', active')
      /\ UNCHANGED <<cycle, phase, running, runWhen, asleep>>
  BY DEF Arm, WhenAfter
<1>2. CASE left = {} /\ active' = list /\ free' = left /\ UNCHANGED slot
  <2>1. PoolOK(slot', active', free', running)
    BY <1>2
  <2>2. \A x \in ToSet(active') : x \in ToSet(active) /\ slot'[x].when = slot[x].when
    BY <1>2
  <2>3. QED
    BY <1>1, <2>1, <2>2, CallKeepsInv
<1>3. ASSUME NEW s \in left,
             slot' = [slot EXCEPT ![s] = [timer |-> t, when |-> cycle + d]],
             active' = Insert(slot', list, s, cycle + d),
             free' = left \ {s}
      PROVE  IInv'
  <2>1. s \in Slot /\ s # NoSlot /\ s \notin ToSet(list)
    BY SlotAssumption DEF PoolOK
  <2>2. slot' \in [Slot -> Timed]
    BY <1>3, <2>1, BeforeStep DEF PoolOK, Timed
  <2>3. slot'[s].when = cycle + d /\ \A x \in ToSet(list) : slot'[x] = slot[x]
    BY <1>3, <2>1, InToSet DEF PoolOK
  <2>4. SortedBy(slot', list)
    BY <2>3, InToSet DEF PoolOK, SortedBy, Deadline
  <2>5. PoolOK(slot', list, left, running)
    BY <2>2, <2>4 DEF PoolOK
  <2>6. /\ PoolOK(slot', active', free', running)
        /\ \A x \in ToSet(active') : x \in ToSet(list) \/ x = s
    <3>1. /\ PoolOK(slot', Insert(slot', list, s, cycle + d), left \ {s}, running)
          /\ \A x \in ToSet(Insert(slot', list, s, cycle + d)) :
                x \in ToSet(list) \/ x = s
      <4> DEFINE w == cycle + d
      <4>1. slot'[s].when = w
        BY <2>3
      <4> HIDE DEF w
      <4>2. /\ PoolOK(slot', Insert(slot', list, s, w), left \ {s}, running)
            /\ \A x \in ToSet(Insert(slot', list, s, w)) : x \in ToSet(list) \/ x = s
        BY <4>1, <2>5, InsertKeepsPool, ZenonT(40)
      <4>3. QED
        BY <4>2 DEF w
    <3>2. QED
      BY <1>1, <1>3, <3>1
  <2>7. ASSUME NEW x \in ToSet(active')
        PROVE  \/ x \in ToSet(active) /\ slot'[x].when = slot[x].when
               \/ slot'[x].when >= cycle
    <3>1. CASE x \in ToSet(list)
      BY <3>1, <2>3
    <3>2. CASE x = s
      BY <3>2, <2>3, BeforeStep
    <3>3. QED
      BY <3>1, <3>2, <2>6
  <2>8. QED
    BY <1>1, <2>6, <2>7, CallKeepsInv
<1>4. QED
  BY <1>2, <1>3 DEF Arm, WhenAfter

LEMMA RegisterKeepsInv ==
    ASSUME IInv, NEW t \in Timer, NEW d \in Delays, Register(t, d)
    PROVE  IInv'
<1>1. d \in Nat
  BY CycleAssumption
<1>2. /\ PoolOK(slot, ListWithout(t), FreeWith(t), running)
      /\ ToSet(ListWithout(t)) \subseteq ToSet(active)
  BY BeforeStep, WithoutKeepsPool
<1>3. QED
  BY <1>1, <1>2, ArmKeepsInv DEF Register

LEMMA CancelKeepsInv ==
    ASSUME IInv, NEW t \in Timer, Cancel(t)
    PROVE  IInv'
<1>1. /\ PoolOK(slot, ListWithout(t), FreeWith(t), running)
      /\ ToSet(ListWithout(t)) \subseteq ToSet(active)
  BY BeforeStep, WithoutKeepsPool
<1>2. PoolOK(slot', active', free', running)
  BY <1>1 DEF Cancel
<1>3. QED
  BY <1>1, <1>2, CallKeepsInv DEF Cancel

\* The run loop.
LEMMA RunsKeepsInv ==
    ASSUME IInv, Runs
    PROVE  IInv'
<1>1. ASSUME NEW c \in Costs, NEW h \in Halts, Instruction(c, h)
      PROVE  IInv'
  <2>1. c \in Nat \ {0} /\ h \in Nat /\ c + h <= Slack
    BY CycleAssumption
  <2>2. /\ phase = "run" /\ cycle' = cycle + c + h
        /\ UNCHANGED <<active, free, slot, running, runWhen, asleep>>
    BY <1>1 DEF Instruction
  <2>3. /\ \A x \in ToSet(active) : slot[x].when \in Nat
        /\ \A x \in ToSet(active) : cycle' <= slot[x].when + MaxLate
    <3>1. \A x \in ToSet(active) : slot[x].when \in Nat
      BY BeforeStep, InToSet DEF PoolOK, Timed
    <3>2. ASSUME NEW x \in ToSet(active) PROVE cycle' <= slot[x].when + MaxLate
      <4>1. cycle <= slot[x].when + MaxBurst /\ slot[x].when \in Nat /\ cycle \in Nat
        BY <2>2, <3>1, BeforeStep
      <4>2. QED
        BY <2>1, <2>2, <4>1, OverrunBounds, CycleAssumption
    <3>3. QED
      BY <3>1, <3>2
  <2>4. CASE runCount > c /\ runCount' = runCount - c /\ UNCHANGED phase
    <3>1. /\ Overrun(runCount) \in Nat /\ Overrun(runCount') \in Nat /\ h <= MaxHalt
          /\ Overrun(runCount) + MaxHalt <= Overrun(runCount') /\ MaxHalt \in Nat
      BY <2>1, <2>4, BeforeStep, OverrunBounds, CycleAssumption
    <3>2. ASSUME phase' = "run", active' # << >>
          PROVE  cycle' + runCount' <= Deadline(slot', active', 1) + Overrun(runCount')
      <4>1. Deadline(slot', active', 1) = Deadline(slot, active, 1)
        BY <2>2
      <4>2. Deadline(slot, active, 1) \in Nat
        <5>1. active # << >>
          BY <2>2, <3>2
        <5>2. QED
          BY <5>1, BeforeStep, BudgetBounds DEF PoolOK
      <4>3. /\ cycle + runCount <= Deadline(slot, active, 1) + Overrun(runCount)
            /\ cycle \in Nat /\ runCount \in Nat
        BY <2>2, <3>2, BeforeStep
      <4>4. cycle' + runCount' = cycle + runCount + h
        BY <2>1, <2>2, <2>4, <4>3
      <4>5. QED
        BY <2>1, <3>1, <4>1, <4>2, <4>3, <4>4
    <3>3. /\ cycle' \in Nat /\ runCount' \in Nat \ {0} /\ runCount' <= RunLimit
      BY <2>1, <2>2, <2>4, BeforeStep, CycleAssumption
    <3>4. QED
      BY <2>2, <2>3, <2>4, <3>2, <3>3, BeforeStep, AfterStep
  <2>5. CASE phase' = "process" /\ UNCHANGED runCount
    <3>1. cycle' \in Nat
      BY <2>1, <2>2, BeforeStep
    <3>2. QED
      BY <2>2, <2>3, <2>5, <3>1, BeforeStep, AfterStep
  <2>6. QED
    BY <1>1, <2>4, <2>5 DEF Instruction
<1>2. CASE SleepInstruction
  <2>1. /\ phase = "run" /\ cycle' = cycle + 1 /\ phase' = "process" /\ asleep' = TRUE
        /\ UNCHANGED <<active, free, slot, runCount, running, runWhen>>
    BY <1>2 DEF SleepInstruction
  <2>2. cycle' \in Nat
    BY <2>1, BeforeStep
  <2>3. \A x \in ToSet(active') : cycle' <= slot'[x].when + MaxLate
    <3>1. \A x \in ToSet(active) : slot[x].when \in Nat
      BY BeforeStep, InToSet DEF PoolOK, Timed
    <3>2. QED
      BY <2>1, <3>1, BeforeStep, OverrunBounds, CycleAssumption
  <2>4. QED
    BY <2>1, <2>2, <2>3, BeforeStep, AfterStep
<1>3. CASE SleepingPass
  BY <1>3, BeforeStep, AfterStep DEF SleepingPass
<1>4. CASE Wake
  BY <1>4, BeforeStep, AfterStep DEF Wake
<1>5. QED
  BY <1>1, <1>2, <1>3, <1>4 DEF Runs

\* Processing: nothing is due, or the head is called back.
LEMMA ProcessesKeepsInv ==
    ASSUME IInv, Processes
    PROVE  IInv'
<1>1. CASE NothingDue
  <2> DEFINE sleep == IF active = << >> THEN DefaultSleep
                      ELSE Deadline(slot, active, 1) - cycle
  <2>1. /\ phase = "process" /\ phase' = "run"
        /\ active # << >> => Deadline(slot, active, 1) > cycle
        /\ runCount' = Limited(sleep)
        /\ cycle' = IF asleep THEN cycle + 1 + sleep ELSE cycle
        /\ UNCHANGED <<active, free, slot, running, runWhen, asleep>>
    BY <1>1 DEF NothingDue
  <2>2. active # << >> => Deadline(slot, active, 1) \in Nat
    BY BeforeStep, BudgetBounds DEF PoolOK
  <2>3. sleep \in Nat \ {0} /\ active # << >> => sleep = Deadline(slot, active, 1) - cycle
    BY <2>1, <2>2, BeforeStep, CycleAssumption
  <2>4. sleep \in Nat \ {0}
    BY <2>1, <2>2, BeforeStep, CycleAssumption
  <2> HIDE DEF sleep
  <2>5. /\ runCount' \in Nat \ {0} /\ runCount' <= RunLimit /\ runCount' <= sleep
        /\ cycle' \in Nat
    BY <2>1, <2>4, BeforeStep, CycleAssumption DEF Limited
  <2>6. active # << >> => cycle' <= Deadline(slot, active, 1) + 1
    BY <2>1, <2>2, <2>3, <2>4, BeforeStep
  <2>7. (phase' = "run" /\ active' # << >>) =>
            cycle' + runCount' <= Deadline(slot', active', 1) + Overrun(runCount')
    <3>1. Overrun(runCount') \in Nat /\ Overrun(runCount') >= RunLimit + 1
      BY <2>5, OverrunBounds, CycleAssumption
    <3>2. QED
      BY <2>1, <2>2, <2>5, <2>6, <3>1, CycleAssumption
  <2>8. ASSUME NEW x \in ToSet(active) PROVE cycle' <= slot[x].when + MaxLate
    <3>1. /\ active # << >> /\ Deadline(slot, active, 1) \in Nat /\ slot[x].when \in Nat
          /\ Deadline(slot, active, 1) <= slot[x].when
      BY BeforeStep, HeadIsEarliest
    <3>2. QED
      BY <2>5, <2>6, <3>1, OverrunBounds, CycleAssumption
  <2>9. QED
    BY <2>1, <2>5, <2>7, <2>8, BeforeStep, AfterStep
<1>2. CASE FireHead
  <2>1. /\ phase = "process" /\ phase' = "callback" /\ active # << >>
        /\ Deadline(slot, active, 1) <= cycle
        /\ running' = Head(active) /\ runWhen' = Deadline(slot, active, 1)
        /\ active' = Tail(active)
        /\ UNCHANGED <<free, slot, cycle, runCount, asleep>>
    BY <1>2 DEF FireHead
  <2>2. /\ active \in Seq(Slot) /\ Len(active) \in Nat /\ 1 \in 1 .. Len(active)
        /\ active[1] \in ToSet(active) /\ active[1] \in Slot
    BY <2>1, BeforeStep, InToSet DEF PoolOK
  <2>3. /\ PoolOK(slot, RemoveAt(active, 1), free \cup {active[1]}, running)
        /\ ToSet(RemoveAt(active, 1)) = ToSet(active) \ {active[1]}
    BY <2>2, BeforeStep, RemoveKeepsPool
  <2>4. Tail(active) = RemoveAt(active, 1)
    <3>1. /\ Tail(active) \in Seq(Slot) /\ Len(Tail(active)) = Len(active) - 1
          /\ \A i \in 1 .. Len(Tail(active)) : Tail(active)[i] = active[i + 1]
      BY <2>1, <2>2, HeadTailProperties
    <3>2. /\ RemoveAt(active, 1) \in Seq(Slot)
          /\ Len(RemoveAt(active, 1)) = Len(active) - 1
          /\ \A i \in 1 .. Len(active) - 1 :
                RemoveAt(active, 1)[i] = IF i < 1 THEN active[i] ELSE active[i + 1]
      BY <2>2, RemoveAtPlace
    <3> DEFINE a == Tail(active)
               b == RemoveAt(active, 1)
    <3>3. /\ a \in Seq(Slot) /\ b \in Seq(Slot) /\ Len(a) = Len(b)
          /\ \A i \in 1 .. Len(a) : a[i] = b[i]
      BY <3>1, <3>2, <2>2
    <3> HIDE DEF a, b
    <3>4. a = b
      BY <3>3, SeqEqual
    <3>5. QED
      BY <3>4 DEF a, b
  <2>5. running = NoSlot /\ running' = active[1] /\ active[1] # NoSlot
    BY <2>1, <2>2, BeforeStep, SlotAssumption
  <2>6. PoolOK(slot', active', free', running')
    BY <2>1, <2>2, <2>3, <2>4, <2>5, BeforeStep DEF PoolOK
  <2>7. \A x \in ToSet(active') : cycle' <= slot'[x].when + MaxLate
    BY <2>1, <2>3, <2>4, BeforeStep
  <2>8. /\ runWhen' \in Nat /\ runWhen' <= cycle' /\ cycle' <= runWhen' + MaxLate
    BY <2>1, <2>2, BeforeStep, HeadIsEarliest DEF Deadline
  <2>9. QED
    BY <2>1, <2>5, <2>6, <2>7, <2>8, BeforeStep, AfterStep
<1>3. QED
  BY <1>1, <1>2 DEF Processes

\* The running slot returns to the free list.
LEMMA ReleaseKeepsPool ==
    ASSUME NEW sl, NEW list, NEW left, NEW held \in Slot, PoolOK(sl, list, left, held)
    PROVE  PoolOK(sl, list, left \cup {held}, NoSlot)
BY SlotAssumption, InToSet DEF PoolOK

\* Every deadline a callback can return is a cycle count.
LEMMA ReturnsNat ==
    ASSUME IInv
    PROVE  Returns \subseteq Nat
<1>1. cycle \in Nat /\ runWhen \in Nat /\ Periods \subseteq Nat
  BY BeforeStep, CycleAssumption
<1>2. 0 \in Nat /\ cycle + 1 \in Nat /\ \A q \in Periods : runWhen + q \in Nat
  BY <1>1
<1>3. QED  BY <1>2, Zenon DEF Returns

LEMMA CallbackReturnsKeepsInv ==
    ASSUME IInv, NEW w \in Returns, CatchUp(w) \/ Finish(w) \/ Reschedule(w)
    PROVE  IInv'
<1>0. w \in Nat
  BY ReturnsNat
<1>1. CASE CatchUp(w)
  <2>1. /\ phase = "callback" /\ w > runWhen /\ w <= cycle /\ runWhen' = w
        /\ UNCHANGED <<active, free, slot, cycle, runCount, phase, running, asleep>>
    BY <1>1 DEF CatchUp, NextWhen
  <2>2. cycle' <= runWhen' + MaxLate
    BY <1>0, <2>1, BeforeStep, OverrunBounds, CycleAssumption
  <2>3. QED
    BY <1>0, <2>1, <2>2, BeforeStep, AfterStep
<1>2. CASE Finish(w)
  <2>1. /\ phase = "callback" /\ phase' = "process"
        /\ free' = free \cup {running} /\ running' = NoSlot /\ runWhen' = 0
        /\ UNCHANGED <<active, slot, cycle, runCount, asleep>>
    BY <1>2 DEF Finish
  <2>2. running \in Slot
    BY <2>1, BeforeStep DEF PoolOK
  <2>3. PoolOK(slot', active', free', running')
    BY <2>1, <2>2, BeforeStep, ReleaseKeepsPool
  <2>4. QED
    BY <2>1, <2>3, BeforeStep, AfterStep
<1>3. CASE Reschedule(w)
  <2>1. /\ phase = "callback" /\ phase' = "process" /\ w > runWhen /\ w > cycle
        /\ running' = NoSlot /\ runWhen' = 0
        /\ UNCHANGED <<cycle, runCount, asleep>>
    BY <1>0, <1>3, BeforeStep DEF Reschedule, NextWhen
  <2>2. running \in Slot
    BY <2>1, BeforeStep DEF PoolOK
  <2>3. CASE free = {} /\ free' = {running} /\ UNCHANGED <<active, slot>>
    <3>1. PoolOK(slot, active, free \cup {running}, NoSlot)
      BY <2>2, BeforeStep, ReleaseKeepsPool
    <3>2. PoolOK(slot', active', free', running')
      BY <2>1, <2>3, <3>1
    <3>3. QED
      BY <2>1, <2>3, <3>2, BeforeStep, AfterStep
  <2>4. ASSUME NEW s \in free,
               slot' = [slot EXCEPT ![s] = [timer |-> slot[running].timer, when |-> w]],
               active' = Insert(slot', active, s, w),
               free' = (free \ {s}) \cup {running}
        PROVE  IInv'
    <3>1. s \in Slot /\ s # NoSlot /\ s \notin ToSet(active)
      BY BeforeStep, SlotAssumption DEF PoolOK
    <3>2. slot' \in [Slot -> Timed]
      <4>1. slot \in [Slot -> Timed] /\ slot[running].timer \in Timer \cup {NoTimer}
        BY <2>2, BeforeStep DEF PoolOK, Timed
      <4>2. [timer |-> slot[running].timer, when |-> w] \in Timed
        BY <4>1, <1>0 DEF Timed
      <4>3. QED
        BY <2>4, <3>1, <4>1, <4>2
    <3>3. slot'[s].when = w /\ \A x \in ToSet(active) : slot'[x] = slot[x]
      BY <2>4, <3>1, BeforeStep, InToSet DEF PoolOK
    <3>4. SortedBy(slot', active)
      BY <3>3, BeforeStep, InToSet DEF PoolOK, SortedBy, Deadline
    <3>5. PoolOK(slot', active, free, running)
      BY <3>2, <3>4, BeforeStep DEF PoolOK
    <3>6. /\ PoolOK(slot', active', free \ {s}, running)
          /\ \A x \in ToSet(active') : x \in ToSet(active) \/ x = s
      <4>1. /\ PoolOK(slot', Insert(slot', active, s, w), free \ {s}, running)
            /\ \A x \in ToSet(Insert(slot', active, s, w)) : x \in ToSet(active) \/ x = s
        BY <3>3, <3>5, InsertKeepsPool, ZenonT(40)
      <4>2. QED
        BY <2>4, <4>1
    <3>7. PoolOK(slot', active', free', running')
      BY <2>1, <2>2, <2>4, <3>6, ReleaseKeepsPool
    <3>8. ASSUME NEW x \in ToSet(active') PROVE cycle' <= slot'[x].when + MaxLate
      <4>1. CASE x \in ToSet(active)
        BY <4>1, <2>1, <3>3, BeforeStep
      <4>2. CASE x = s
        BY <4>2, <1>0, <2>1, <3>3, BeforeStep, OverrunBounds, CycleAssumption
      <4>3. QED
        BY <4>1, <4>2, <3>6
    <3>9. QED
      BY <2>1, <3>7, <3>8, BeforeStep, AfterStep
  <2>5. QED
    BY <1>3, <2>3, <2>4 DEF Reschedule
<1>4. QED
  BY <1>1, <1>2, <1>3

\* A reset, wherever it happens, leaves a pool in order.
LEMMA ResetKeepsInv ==
    ASSUME IInv, AvrReset
    PROVE  IInv'
<1>1. /\ cycle' = 0 /\ running' = NoSlot /\ runWhen' = 0 /\ asleep' = FALSE
      /\ phase' = "run"
  BY DEF AvrReset
<1>2. CASE /\ active' = << >> /\ free' = Slot
           /\ slot' = [s \in Slot |-> Cleared] /\ runCount' = 1
  <2>1. ToSet(active') = {} /\ Len(active') = 0 /\ active' \in Seq(Slot)
    BY <1>2, EmptySeq DEF ToSet
  <2>2. slot' \in [Slot -> Timed]
    BY <1>2 DEF Cleared, Timed
  <2>3. PoolOK(slot', active', free', running')
    BY <1>1, <1>2, <2>1, <2>2, SlotAssumption DEF PoolOK, Distinct, SortedBy
  <2>4. runCount' \in Nat \ {0} /\ runCount' <= RunLimit
    BY <1>2, CycleAssumption
  <2>5. \A x \in ToSet(active') : cycle' <= slot'[x].when + MaxLate
    BY <2>1
  <2>6. /\ (phase' = "callback") <=> (running' # NoSlot)
        /\ ~(phase' = "callback") /\ active' = << >>
    BY <1>1, <1>2
  <2>7. /\ cycle' \in Nat /\ runWhen' \in Nat /\ asleep' \in BOOLEAN
        /\ phase' \in {"run", "process", "callback"}
    BY <1>1
  <2>8. QED
    BY <2>3, <2>4, <2>5, <2>6, <2>7, AfterStep
<1>3. ASSUME ResetTimer # NoTimer, NEW s \in Slot,
             active' = <<s>>, free' = Slot \ {s},
             slot' = [r \in Slot |->
                        IF r = s THEN [timer |-> ResetTimer, when |-> cycle + ResetDelay]
                        ELSE Cleared],
             runCount' = 1
      PROVE  IInv'
  <2>1. /\ active' \in Seq(Slot) /\ Len(active') = 1 /\ active'[1] = s
        /\ ToSet(active') = {s}
    BY <1>3 DEF ToSet
  <2>2. slot' \in [Slot -> Timed]
    BY <1>3, BeforeStep, SlotAssumption, CycleAssumption DEF Cleared, Timed
  <2>3. Distinct(active') /\ SortedBy(slot', active')
    BY <2>1 DEF Distinct, SortedBy
  <2>4. PoolOK(slot', active', free', running')
    BY <1>1, <1>3, <2>1, <2>2, <2>3, SlotAssumption DEF PoolOK
  <2>5. runCount' \in Nat \ {0} /\ runCount' <= RunLimit
    BY <1>3, CycleAssumption
  <2>6. slot'[s].when \in Nat
    BY <2>2 DEF Timed
  <2>7. /\ \A x \in ToSet(active') : cycle' <= slot'[x].when + MaxLate
        /\ cycle' + runCount' <= Deadline(slot', active', 1) + Overrun(runCount')
    BY <1>1, <2>1, <2>5, <2>6, OverrunBounds, CycleAssumption DEF Deadline
  <2>8. QED
    BY <1>1, <2>4, <2>5, <2>7, AfterStep
<1>4. QED
  BY <1>2, <1>3 DEF AvrReset

(***************************************************************************)
(* The theorems.                                                           *)
(***************************************************************************)

LEMMA InitEstablishesInv == Init => IInv
<1> SUFFICES ASSUME Init PROVE IInv
  OBVIOUS
<1>1. ToSet(active) = {} /\ Len(active) = 0 /\ active \in Seq(Slot)
  BY EmptySeq DEF Init, ToSet
<1>2. TypeOK
  <2>1. slot \in [Slot -> Timed]
    <3>1. Cleared \in Timed
      BY DEF Cleared, Timed
    <3>2. QED
      BY <3>1 DEF Init
  <2>2. /\ cycle \in Nat /\ runCount \in Nat \ {0} /\ runWhen \in Nat
        /\ free \subseteq Slot /\ running \in Slot \cup {NoSlot}
        /\ phase \in {"run", "process", "callback"}
    BY DEF Init
  <2>3. asleep \in BOOLEAN
    BY Zenon DEF Init
  <2>4. QED
    BY <1>1, <2>1, <2>2, <2>3 DEF TypeOK
<1>3. SlotsConserved /\ Sorted
  BY <1>1, SlotAssumption DEF Init, SlotsConserved, Sorted
<1>4. DetachedWhileCalled /\ BudgetCoversHead /\ Prompt /\ NeverEarly
  BY <1>1 DEF Init, DetachedWhileCalled, BudgetCoversHead, Prompt, NeverEarly
<1>5. QED
  BY <1>2, <1>3, <1>4, CycleAssumption DEF Init, IInv

LEMMA NextKeepsInv == IInv /\ [Next]_vars => IInv'
<1> SUFFICES ASSUME IInv, [Next]_vars PROVE IInv'
  OBVIOUS
<1>1. CASE Calls
  BY <1>1, RegisterKeepsInv, CancelKeepsInv DEF Calls
<1>2. CASE Runs
  BY <1>2, RunsKeepsInv
<1>3. CASE Processes
  BY <1>3, ProcessesKeepsInv
<1>4. CASE CallbackReturns
  BY <1>4, CallbackReturnsKeepsInv, ResetKeepsInv DEF CallbackReturns, TimerReset
<1>5. CASE HostReset
  BY <1>5, ResetKeepsInv DEF HostReset
<1>6. CASE UNCHANGED vars
  BY <1>6, BeforeStep, AfterStep DEF vars
<1>7. QED
  BY <1>1, <1>2, <1>3, <1>4, <1>5, <1>6 DEF Next

\* The inductive invariant holds in every reachable state.
THEOREM Invariance == Spec => []IInv
<1>1. Init => IInv
  BY InitEstablishesInv
<1>2. IInv /\ [Next]_vars => IInv'
  BY NextKeepsInv
<1>3. QED
  BY <1>1, <1>2, PTL DEF Spec

\* The state stays within its types, and no burst ever has a budget of zero
\* cycles, with which the run loop would never get anywhere.
THEOREM TypeCorrect == Spec => []TypeOK
BY Invariance, PTL DEF IInv

\* No slot of the pool is ever lost, handed out twice or left in both lists,
\* whatever callbacks arm and cancel, and even when one resets the MCU.
THEOREM NoSlotIsLost == Spec => []SlotsConserved
BY Invariance, PTL DEF IInv

\* The list is sorted at every step, so the head is always the next to fire.
THEOREM AlwaysSorted == Spec => []Sorted
BY Invariance, PTL DEF IInv

\* For every set of delays, instruction costs and burst limits, no timer is
\* ever more than RunLimit + Slack cycles late.
THEOREM AlwaysPrompt == Spec => []Prompt
BY Invariance, PTL DEF IInv

(***************************************************************************)
(* The refinement: a deadline per timer.                                   *)
(***************************************************************************)

PlacesIn(sl, list, t) == {i \in 1 .. Len(list) : sl[list[i]].timer = t}

\* What DeadlineQueue sees of slots and a list.
Shown(sl, list) ==
    [t \in Timer |-> IF PlacesIn(sl, list, t) = {} THEN NoTimer
                     ELSE sl[list[FirstOf(PlacesIn(sl, list, t))]].when]

\* No timer is pending twice, and what is pending is a timer.
OnePerTimer(sl, list) ==
    /\ \A x \in ToSet(list) : sl[x].timer \in Timer
    /\ \A x, y \in ToSet(list) : sl[x].timer = sl[y].timer => x = y

\* So with the pool, where the callback of a timer runs.
OneEntryEach ==
    /\ OnePerTimer(slot, active)
    /\ running # NoSlot => slot[running].timer \in Timer

\* The deadline shown of a timer is that of its slot.
LEMMA ShownIsWhen ==
    ASSUME NEW sl, NEW list \in Seq(Slot), OnePerTimer(sl, list), NEW x \in ToSet(list)
    PROVE  Shown(sl, list)[sl[x].timer] = sl[x].when
<1> DEFINE t == sl[x].timer
           I == PlacesIn(sl, list, t)
<1>1. PICK i \in 1 .. Len(list) : x = list[i]
  BY InToSet
<1>2. i \in I /\ I \in SUBSET Nat
  BY <1>1 DEF PlacesIn
<1>3. FirstOf(I) \in I
  <2> HIDE DEF I
  <2>1. QED  BY <1>2, FirstExists
<1>4. list[FirstOf(I)] = x
  <2>1. FirstOf(I) \in 1 .. Len(list) /\ sl[list[FirstOf(I)]].timer = t
    BY <1>3 DEF PlacesIn
  <2>2. list[FirstOf(I)] \in ToSet(list)
    BY <2>1, InToSet
  <2>3. QED  BY <2>1, <2>2 DEF OnePerTimer
<1>5. t \in Timer
  BY DEF OnePerTimer
<1> HIDE DEF t
<1>6. Shown(sl, list)[t] = sl[list[FirstOf(I)]].when
  BY <1>2, <1>5 DEF Shown
<1>7. QED  BY <1>4, <1>6 DEF t

\* A timer without a slot in the list shows none.
LEMMA ShownIsNone ==
    ASSUME NEW sl, NEW list \in Seq(Slot), NEW t \in Timer,
           \A x \in ToSet(list) : sl[x].timer # t
    PROVE  Shown(sl, list)[t] = NoTimer
<1>1. PlacesIn(sl, list, t) = {}
  BY InToSet DEF PlacesIn
<1>2. QED  BY <1>1 DEF Shown

\* Which timers are pending.
LEMMA PendingIs ==
    ASSUME NEW sl \in [Slot -> Timed], NEW list \in Seq(Slot), OnePerTimer(sl, list),
           NEW t \in Timer
    PROVE  Shown(sl, list)[t] # NoTimer <=> \E x \in ToSet(list) : sl[x].timer = t
<1>1. ASSUME NEW x \in ToSet(list), sl[x].timer = t
      PROVE  Shown(sl, list)[t] # NoTimer
  <2>1. Shown(sl, list)[t] = sl[x].when
    BY <1>1, ShownIsWhen
  <2>2. sl[x].when \in Nat
    BY InToSet DEF Timed
  <2>3. QED  BY <2>1, <2>2, SlotAssumption
<1>2. QED  BY <1>1, ShownIsNone

\* Two lists that differ in the slot of t only show the same but for t.
LEMMA OthersShown ==
    ASSUME NEW sl, NEW list \in Seq(Slot), OnePerTimer(sl, list),
           NEW sn, NEW new \in Seq(Slot), OnePerTimer(sn, new), NEW t \in Timer,
           \A x \in ToSet(list) : sl[x].timer # t => x \in ToSet(new) /\ sn[x] = sl[x],
           \A x \in ToSet(new) : sn[x].timer # t => x \in ToSet(list) /\ sn[x] = sl[x]
    PROVE  Shown(sn, new) = [Shown(sl, list) EXCEPT ![t] = Shown(sn, new)[t]]
<1>1. ASSUME NEW u \in Timer, u # t
      PROVE  Shown(sn, new)[u] = Shown(sl, list)[u]
  <2>1. CASE \E x \in ToSet(list) : sl[x].timer = u
    <3>1. PICK x \in ToSet(list) : sl[x].timer = u
      BY <2>1
    <3>2. x \in ToSet(new) /\ sn[x] = sl[x]
      BY <1>1, <3>1
    <3>3. Shown(sl, list)[u] = sl[x].when
      BY <3>1, ShownIsWhen
    <3>4. Shown(sn, new)[sn[x].timer] = sn[x].when
      BY <3>2, ShownIsWhen
    <3>5. QED  BY <3>1, <3>2, <3>3, <3>4
  <2>2. CASE \A x \in ToSet(list) : sl[x].timer # u
    <3>1. \A x \in ToSet(new) : sn[x].timer # u
      BY <1>1, <2>2
    <3>2. Shown(sl, list)[u] = NoTimer /\ Shown(sn, new)[u] = NoTimer
      BY <2>2, <3>1, ShownIsNone
    <3>3. QED  BY <3>2
  <2>3. QED  BY <2>1, <2>2
<1> DEFINE f == Shown(sl, list)
           g == Shown(sn, new)
<1>2. f = [u \in Timer |-> f[u]] /\ g = [u \in Timer |-> g[u]]
  BY DEF Shown
<1> HIDE DEF f, g
<1>3. \A u \in Timer : u # t => g[u] = f[u]
  BY <1>1 DEF f, g
<1>4. g = [f EXCEPT ![t] = g[t]]
  BY <1>2, <1>3
<1>5. QED  BY <1>4 DEF f, g

\* A slot that is free leaves room for a timer that is not pending.
LEMMA FreeIsRoom ==
    ASSUME PoolOK(slot, active, free, running), OneEntryEach, NEW s \in free
    PROVE  Service!Used < Cardinality(Slot)
<1> DEFINE P == {t \in Timer : Shown(slot, active)[t] # NoTimer}
           f == [t \in P |-> CHOOSE x \in ToSet(active) : slot[x].timer = t]
           S == Slot \ {s}
           R == S \ {running}
<1>1. slot \in [Slot -> Timed] /\ active \in Seq(Slot) /\ OnePerTimer(slot, active)
  BY DEF PoolOK, OneEntryEach
<1>2. \A t \in P : f[t] \in ToSet(active) /\ slot[f[t]].timer = t
  <2> SUFFICES ASSUME NEW t \in P PROVE f[t] \in ToSet(active) /\ slot[f[t]].timer = t
    OBVIOUS
  <2>1. \E x \in ToSet(active) : slot[x].timer = t
    BY <1>1, PendingIs
  <2>2. QED  BY <2>1
<1>3. ToSet(active) \subseteq R
  BY <1>1, InToSet DEF PoolOK
<1>4. f \in Injection(P, R)
  <2>1. \A t \in P : f[t] \in R
    BY <1>2, <1>3
  <2>2. \A t, u \in P : f[t] = f[u] => t = u
    BY <1>2
  <2>3. f = [t \in P |-> f[t]]
    OBVIOUS
  <2> HIDE DEF f, P, R
  <2>4. f \in [P -> R]
    BY <2>1, <2>3
  <2>5. QED  BY <2>2, <2>4 DEF Injection, IsInjective
<1>5. IsFiniteSet(Slot) /\ s \in Slot
  BY SlotAssumption DEF PoolOK
<1>6. IsFiniteSet(S) /\ Cardinality(S) = Cardinality(Slot) - 1 /\ Cardinality(Slot) \in Nat
  BY <1>5, FS_RemoveElement, FS_CardinalityType
<1>7. /\ IsFiniteSet(R) /\ Cardinality(S) \in Nat /\ Cardinality(R) \in Nat
      /\ Cardinality(R) = IF running \in S THEN Cardinality(S) - 1 ELSE Cardinality(S)
  <2> HIDE DEF S
  <2>1. QED  BY <1>6, FS_RemoveElement, FS_CardinalityType
<1>8. IsFiniteSet(P) /\ Cardinality(P) <= Cardinality(R)
  <2> HIDE DEF f, P, R
  <2>1. QED  BY <1>4, <1>7, FS_Injection, Zenon
<1>9. Cardinality(P) \in Nat
  <2> HIDE DEF P
  <2>1. QED  BY <1>8, FS_CardinalityType
<1>10. running # NoSlot => running \in S /\ slot[running].timer # NoTimer
  BY SlotAssumption DEF PoolOK, OneEntryEach
<1>11. Service!Pending = P
  BY DEF Service!Pending, Shown, PlacesOf, PlacesIn
<1>12. Service!Used = Cardinality(P) + (IF running = NoSlot THEN 0 ELSE 1)
  <2> HIDE DEF P
  <2>1. Service!Cardinality(P) = Cardinality(P)
    BY Zenon DEF Service!Cardinality, Cardinality
  <2>2. QED  BY <1>10, <1>11, <2>1 DEF Service!Used
<1>13. QED
  <2> HIDE DEF P, R, S
  <2>1. CASE running = NoSlot
    BY <1>6, <1>7, <1>8, <1>9, <1>12, <2>1
  <2>2. CASE running # NoSlot
    BY <1>6, <1>7, <1>8, <1>9, <1>10, <1>12, <2>2
  <2>3. QED  BY <2>1, <2>2

\* Every slot is in the list but those that are free or held.
LEMMA ListIs ==
    ASSUME NEW sl, NEW list, NEW left, NEW held, PoolOK(sl, list, left, held)
    PROVE  ToSet(list) = Slot \ (left \cup {held})
BY InToSet, SlotAssumption DEF PoolOK

\* The timer whose callback runs.
Calling(sl, held) == IF held = NoSlot THEN NoTimer ELSE sl[held].timer

\* What DeadlineQueue sees of a state.
Seen == <<Shown(slot, active), cycle, Calling(slot, running)>>

LEMMA MappedIsSeen ==
    /\ [t \in Timer |-> IF PlacesOf(t) = {} THEN NoTimer
                        ELSE slot[active[FirstOf(PlacesOf(t))]].when] = Shown(slot, active)
    /\ (IF running = NoSlot THEN NoTimer ELSE slot[running].timer) = Calling(slot, running)
BY Zenon DEF Shown, PlacesOf, PlacesIn, Calling

LEMMA MappedIsSeenNext ==
    /\ [t \in Timer |-> IF PlacesOf(t) = {} THEN NoTimer
                        ELSE slot[active[FirstOf(PlacesOf(t))]].when]' = Shown(slot', active')
    /\ (IF running = NoSlot THEN NoTimer ELSE slot[running].timer)' = Calling(slot', running')
BY Zenon DEF Shown, PlacesOf, PlacesIn, Calling

\* The actions of DeadlineQueue on what it sees.
LEMMA SetIs ==
    ASSUME NEW t \in Timer, NEW w,
           Shown(slot', active') = [Shown(slot, active) EXCEPT ![t] = Shown(slot', active')[t]],
           Shown(slot', active')[t] \in Nat, Shown(slot', active')[t] >= w
    PROVE  Service!Set(t, w)
BY MappedIsSeen, MappedIsSeenNext DEF Service!Set

LEMMA DisarmIs ==
    ASSUME NEW t \in Timer,
           Shown(slot', active') = [Shown(slot, active) EXCEPT ![t] = NoTimer],
           cycle' = cycle, Calling(slot', running') = Calling(slot, running)
    PROVE  Service!Disarm(t)
BY MappedIsSeen, MappedIsSeenNext DEF Service!Disarm

LEMMA PendingSeen == Service!Pending = {t \in Timer : Shown(slot, active)[t] # NoTimer}
BY MappedIsSeen DEF Service!Pending

LEMMA ArmIs ==
    ASSUME NEW t \in Timer, t \in Service!Pending \/ Service!Used < Cardinality(Slot),
           Service!Set(t, cycle),
           cycle' = cycle, Calling(slot', running') = Calling(slot, running)
    PROVE  Service!Arm(t)
BY MappedIsSeen, MappedIsSeenNext DEF Service!Arm

LEMMA AdvanceIs ==
    ASSUME Calling(slot, running) = NoTimer, cycle' \in Nat, cycle' > cycle,
           \A t \in Service!Pending : cycle' <= Shown(slot, active)[t] + MaxLate,
           Shown(slot', active') = Shown(slot, active),
           Calling(slot', running') = Calling(slot, running)
    PROVE  Service!Advance
BY MappedIsSeen, MappedIsSeenNext DEF Service!Advance

LEMMA CallIs ==
    ASSUME NEW t \in Service!Pending,
           Calling(slot, running) = NoTimer, Shown(slot, active)[t] <= cycle,
           \A u \in Service!Pending : Shown(slot, active)[t] <= Shown(slot, active)[u],
           Calling(slot', running') = t, cycle' = cycle,
           Shown(slot', active') = [Shown(slot, active) EXCEPT ![t] = NoTimer]
    PROVE  Service!Call(t)
BY MappedIsSeen, MappedIsSeenNext DEF Service!Call

LEMMA ReturnIs ==
    ASSUME Calling(slot, running) # NoTimer, Calling(slot', running') = NoTimer, cycle' = cycle,
           \/ Shown(slot', active') = Shown(slot, active)
           \/ /\ Service!Used < Cardinality(Slot)
              /\ Calling(slot, running) \notin Service!Pending
              /\ Service!Set(Calling(slot, running), cycle + 1)
    PROVE  Service!Return
BY MappedIsSeen, MappedIsSeenNext DEF Service!Return

LEMMA ResetIs ==
    ASSUME cycle' = 0, Calling(slot', running') = NoTimer,
           Shown(slot', active') \in [Timer -> Nat \cup {NoTimer}],
           NEW u, \A t \in Timer : Shown(slot', active')[t] # NoTimer => t = u
    PROVE  Service!Reset
<1> DEFINE P == {t \in Timer : Shown(slot', active')[t] # NoTimer}
<1>1. Service!Cardinality(P) = Cardinality(P)
  <2> HIDE DEF P
  <2>1. QED  BY Zenon DEF Service!Cardinality, Cardinality
<1>2. P = {} \/ P = {u}
  OBVIOUS
<1>3. Cardinality(P) <= 1
  <2> HIDE DEF P
  <2>1. QED  BY <1>2, FS_EmptySet, FS_Singleton
<1>4. Service!Cardinality(P) <= 1
  BY <1>1, <1>3
<1> HIDE DEF P
<1>5. P = {t \in Timer : Shown(slot', active')[t] # NoTimer}
  BY DEF P
<1>6. QED
  BY <1>4, <1>5, MappedIsSeenNext DEF Service!Reset

(***************************************************************************)
(* One lemma per step.                                                     *)
(***************************************************************************)

\* The pool after a step.
LEMMA PoolAfter ==
    ASSUME IInv'
    PROVE  PoolOK(slot', active', free', running') /\ cycle' \in Nat
BY DEF IInv, TypeOK, SlotsConserved, Sorted, SortedBy, PoolOK, Distinct

\* Cancelling takes the slot of t out of the list, and no other.
LEMMA WithoutIs ==
    ASSUME PoolOK(slot, active, free, running), OneEntryEach, NEW t \in Timer
    PROVE  /\ ToSet(ListWithout(t)) = {x \in ToSet(active) : slot[x].timer # t}
           /\ OnePerTimer(slot, ListWithout(t))
           /\ PlacesOf(t) # {} => t \in Service!Pending
           /\ PlacesOf(t) = {} => ListWithout(t) = active /\ FreeWith(t) = free
           /\ FreeWith(t) = {} => PlacesOf(t) = {}
<1>1. /\ slot \in [Slot -> Timed] /\ active \in Seq(Slot) /\ OnePerTimer(slot, active)
  BY DEF PoolOK, OneEntryEach
<1>2. CASE PlacesOf(t) = {}
  <2>1. \A x \in ToSet(active) : slot[x].timer # t
    BY <1>1, <1>2, InToSet DEF PlacesOf
  <2>2. QED  BY <1>1, <1>2, <2>1 DEF ListWithout, FreeWith
<1>3. CASE PlacesOf(t) # {}
  <2> DEFINE p == FirstOf(PlacesOf(t))
  <2>1. PlacesOf(t) \in SUBSET Nat
    BY DEF PlacesOf
  <2>2. p \in PlacesOf(t)
    BY <2>1, <1>3, FirstExists
  <2> HIDE DEF p
  <2>3. p \in 1 .. Len(active) /\ slot[active[p]].timer = t /\ active[p] \in ToSet(active)
    BY <1>1, <2>2, InToSet DEF PlacesOf
  <2>4. ToSet(RemoveAt(active, p)) = ToSet(active) \ {active[p]}
    BY <2>3, RemoveKeepsPool
  <2>5. ListWithout(t) = RemoveAt(active, p) /\ FreeWith(t) = free \cup {active[p]}
    BY <1>3 DEF ListWithout, FreeWith, p
  <2>6. ToSet(ListWithout(t)) = {x \in ToSet(active) : slot[x].timer # t}
    BY <1>1, <2>3, <2>4, <2>5 DEF OnePerTimer
  <2>7. OnePerTimer(slot, ListWithout(t))
    BY <1>1, <2>6 DEF OnePerTimer
  <2>8. t \in Service!Pending
    BY <1>1, <2>3, PendingIs, PendingSeen
  <2>9. QED  BY <1>3, <2>5, <2>6, <2>7, <2>8
<1>4. QED  BY <1>2, <1>3

\* Registering arms t, or is only logged.
LEMMA RegisterServes ==
    ASSUME IInv, IInv', OneEntryEach, NEW t \in Timer, NEW d \in Delays, Register(t, d)
    PROVE  OneEntryEach' /\ (Service!Arm(t) \/ UNCHANGED Seen)
<1> DEFINE list == ListWithout(t)
           left == FreeWith(t)
<1>1. PoolOK(slot, active, free, running) /\ PoolOK(slot, list, left, running) /\ cycle \in Nat
  BY BeforeStep, WithoutKeepsPool
<1>2. PoolOK(slot', active', free', running')
  BY PoolAfter
<1>3. /\ ToSet(list) = {x \in ToSet(active) : slot[x].timer # t}
      /\ OnePerTimer(slot, list)
      /\ PlacesOf(t) # {} => t \in Service!Pending
      /\ PlacesOf(t) = {} => list = active /\ left = free
      /\ left = {} => PlacesOf(t) = {}
  BY <1>1, WithoutIs
<1>4. /\ cycle' = cycle /\ running' = running /\ d \in Nat
      /\ \/ left = {} /\ active' = list /\ free' = left /\ UNCHANGED slot
         \/ \E s \in left :
               /\ slot' = [slot EXCEPT ![s] = [timer |-> t, when |-> cycle + d]]
               /\ free' = left \ {s}
  BY CycleAssumption DEF Register, Arm, WhenAfter
<1>5. CASE left = {} /\ active' = list /\ free' = left /\ UNCHANGED slot
  BY <1>3, <1>4, <1>5 DEF OneEntryEach, Seen
<1>6. ASSUME NEW s \in left, slot' = [slot EXCEPT ![s] = [timer |-> t, when |-> cycle + d]],
             free' = left \ {s}
      PROVE  OneEntryEach' /\ Service!Arm(t)
  <2>1. s \in Slot /\ s # running /\ s \notin ToSet(list)
    BY <1>1 DEF PoolOK
  <2>2. ToSet(active') = ToSet(list) \cup {s}
    <3>1. /\ ToSet(active') = Slot \ (free' \cup {running'})
          /\ ToSet(list) = Slot \ (left \cup {running})
      BY <1>1, <1>2, ListIs
    <3>2. QED  BY <1>4, <1>6, <2>1, <3>1
  <2>3. /\ slot'[s].timer = t /\ slot'[s].when = cycle + d
        /\ \A x \in Slot : x # s => slot'[x] = slot[x]
    BY <1>1, <1>6, <2>1 DEF PoolOK
  <2>4. \A x \in ToSet(list) : x \in Slot /\ x # s /\ slot'[x] = slot[x] /\ slot[x].timer # t
    BY <1>1, <1>3, <2>1, <2>3, InToSet DEF PoolOK
  <2>5. OnePerTimer(slot', active')
    BY <1>3, <2>2, <2>3, <2>4 DEF OnePerTimer
  <2>6. running # NoSlot => slot'[running] = slot[running]
    BY <1>1, <2>1, <2>3 DEF PoolOK
  <2>7. OneEntryEach'
    BY <1>4, <2>5, <2>6 DEF OneEntryEach
  <2>8. Calling(slot', running') = Calling(slot, running)
    BY <1>4, <2>6 DEF Calling
  <2>9. /\ slot' \in [Slot -> Timed] /\ active' \in Seq(Slot) /\ active \in Seq(Slot)
        /\ OnePerTimer(slot, active)
    BY <1>1, <1>2 DEF PoolOK, OneEntryEach
  <2>10. Shown(slot', active')[t] = cycle + d
    BY <2>2, <2>3, <2>5, <2>9, ShownIsWhen
  <2>11. /\ \A x \in ToSet(active) : slot[x].timer # t
               => x \in ToSet(active') /\ slot'[x] = slot[x]
         /\ \A x \in ToSet(active') : slot'[x].timer # t
               => x \in ToSet(active) /\ slot'[x] = slot[x]
    BY <1>3, <2>2, <2>3, <2>4
  <2>12. Shown(slot', active') = [Shown(slot, active) EXCEPT ![t] = Shown(slot', active')[t]]
    BY <2>5, <2>9, <2>11, OthersShown
  <2>13. Service!Set(t, cycle)
    <3>1. cycle + d \in Nat /\ cycle + d >= cycle
      BY <1>1, <1>4
    <3>2. QED  BY <2>10, <2>12, <3>1, SetIs
  <2>14. t \in Service!Pending \/ Service!Used < Cardinality(Slot)
    <3>1. CASE PlacesOf(t) = {}
      <4>1. s \in free
        BY <1>3, <3>1
      <4>2. QED  BY <1>1, <4>1, FreeIsRoom
    <3>2. QED  BY <1>3, <3>1
  <2>15. QED  BY <1>4, <2>7, <2>8, <2>13, <2>14, ArmIs
<1> HIDE DEF list, left
<1>7. QED  BY <1>4, <1>5, <1>6

\* Cancelling disarms t.
LEMMA CancelServes ==
    ASSUME IInv, IInv', OneEntryEach, NEW t \in Timer, Cancel(t)
    PROVE  OneEntryEach' /\ Service!Disarm(t)
<1>1. PoolOK(slot, active, free, running) /\ PoolOK(slot', active', free', running')
  BY BeforeStep, PoolAfter
<1>2. /\ active' = ListWithout(t)
      /\ UNCHANGED <<slot, cycle, running>>
  BY DEF Cancel
<1>3. /\ ToSet(active') = {x \in ToSet(active) : slot[x].timer # t}
      /\ OnePerTimer(slot, active')
  BY <1>1, <1>2, WithoutIs
<1>4. /\ active \in Seq(Slot) /\ active' \in Seq(Slot) /\ OnePerTimer(slot, active)
  BY <1>1 DEF PoolOK, OneEntryEach
<1>5. Shown(slot, active')[t] = NoTimer
  BY <1>3, <1>4, ShownIsNone
<1>6. Shown(slot, active') = [Shown(slot, active) EXCEPT ![t] = Shown(slot, active')[t]]
  BY <1>3, <1>4, OthersShown
<1>7. Service!Disarm(t)
  BY <1>2, <1>5, <1>6, DisarmIs
<1>8. QED  BY <1>2, <1>3, <1>7 DEF OneEntryEach

\* Time passes, unless the step only looks at the timers.
LEMMA RunsServes ==
    ASSUME IInv, IInv', OneEntryEach, Runs \/ NothingDue
    PROVE  OneEntryEach' /\ (Service!Advance \/ UNCHANGED Seen)
<1>1. PoolOK(slot, active, free, running) /\ PoolOK(slot', active', free', running')
      /\ cycle \in Nat /\ cycle' \in Nat /\ (phase = "callback" <=> running # NoSlot)
  BY BeforeStep, PoolAfter
<1>2. UNCHANGED <<active, slot, running>>
  BY DEF Runs, Instruction, SleepInstruction, SleepingPass, Wake, NothingDue
<1>3. OneEntryEach' /\ Shown(slot', active') = Shown(slot, active)
      /\ Calling(slot', running') = Calling(slot, running)
  BY <1>2 DEF OneEntryEach
<1>4. cycle' = cycle \/ (cycle' > cycle /\ phase # "callback")
  <2>1. ASSUME NEW c \in Costs, NEW h \in Halts, Instruction(c, h)
        PROVE  cycle' > cycle /\ phase # "callback"
    <3>1. c \in Nat \ {0} /\ h \in Nat
      BY CycleAssumption
    <3>2. QED  BY <1>1, <2>1, <3>1 DEF Instruction
  <2>2. CASE SleepInstruction
    BY <1>1, <2>2 DEF SleepInstruction
  <2>3. CASE SleepingPass \/ Wake
    BY <2>3 DEF SleepingPass, Wake
  <2>4. CASE NothingDue
    <3>1. active # << >> => Deadline(slot, active, 1) \in Nat
      BY <1>1, HeadIsEarliest, InToSet, BudgetBounds DEF PoolOK
    <3>2. QED  BY <1>1, <2>4, <3>1, CycleAssumption DEF NothingDue
  <2>5. QED  BY <2>1, <2>2, <2>3, <2>4 DEF Runs
<1>5. CASE cycle' = cycle
  BY <1>3, <1>5 DEF Seen
<1>6. CASE cycle' > cycle /\ phase # "callback"
  <2>1. Calling(slot, running) = NoTimer
    BY <1>1, <1>6 DEF Calling
  <2>2. \A x \in ToSet(active) : cycle' <= slot[x].when + MaxLate
    <3>1. \A i \in 1 .. Len(active) : cycle' <= slot[active[i]].when + MaxLate
      BY <1>2 DEF IInv, Prompt, Deadline
    <3>2. active \in Seq(Slot)
      BY <1>1 DEF PoolOK
    <3>3. \A x \in ToSet(active) : \E i \in 1 .. Len(active) : x = active[i]
      BY <3>2, InToSet
    <3>4. QED  BY <3>1, <3>3
  <2>3. ASSUME NEW t \in Service!Pending
        PROVE  cycle' <= Shown(slot, active)[t] + MaxLate
    <3>1. t \in Timer /\ Shown(slot, active)[t] # NoTimer
      BY PendingSeen
    <3>2. PICK x \in ToSet(active) : slot[x].timer = t
      BY <1>1, <3>1, PendingIs DEF PoolOK, OneEntryEach
    <3>3. Shown(slot, active)[t] = slot[x].when
      BY <1>1, <3>2, ShownIsWhen DEF PoolOK, OneEntryEach
    <3>4. QED  BY <2>2, <3>2, <3>3
  <2>4. QED  BY <1>1, <1>3, <1>6, <2>1, <2>3, AdvanceIs
<1>7. QED  BY <1>4, <1>5, <1>6

\* The head of the list is called: the earliest deadline, and a passed one.
LEMMA FireServes ==
    ASSUME IInv, IInv', OneEntryEach, FireHead
    PROVE  OneEntryEach' /\ \E t \in Timer : Service!Call(t)
<1>1. PoolOK(slot, active, free, running) /\ PoolOK(slot', active', free', running')
      /\ cycle \in Nat /\ (phase = "callback" <=> running # NoSlot)
  BY BeforeStep, PoolAfter
<1>2. /\ running = NoSlot /\ active # << >> /\ running' = Head(active)
      /\ Deadline(slot, active, 1) <= cycle
      /\ UNCHANGED <<free, slot, cycle>>
  BY <1>1 DEF FireHead
<1> DEFINE s == active[1]
           t == slot[s].timer
<1>3. /\ slot \in [Slot -> Timed] /\ active \in Seq(Slot) /\ active' \in Seq(Slot)
      /\ OnePerTimer(slot, active)
  BY <1>1, <1>2 DEF PoolOK, OneEntryEach
<1>4. s \in ToSet(active) /\ s \in Slot /\ running' = s
  BY <1>2, <1>3, InToSet
<1>5. ToSet(active') = ToSet(active) \ {s}
  <2>1. /\ ToSet(active') = Slot \ (free' \cup {running'})
        /\ ToSet(active) = Slot \ (free \cup {running})
    BY <1>1, ListIs
  <2>2. QED  BY <1>2, <1>4, <2>1, SlotAssumption
<1>6. t \in Timer /\ OnePerTimer(slot, active')
  BY <1>3, <1>4, <1>5 DEF OnePerTimer
<1>7. OneEntryEach'
  BY <1>2, <1>4, <1>6 DEF OneEntryEach
<1>8. Shown(slot, active)[t] = slot[s].when
  BY <1>3, <1>4, ShownIsWhen
<1>9. t \in Service!Pending
  BY <1>3, <1>4, <1>6, PendingIs, PendingSeen
<1>10. \A u \in Service!Pending : Shown(slot, active)[t] <= Shown(slot, active)[u]
  <2> SUFFICES ASSUME NEW u \in Service!Pending
               PROVE  Shown(slot, active)[t] <= Shown(slot, active)[u]
    OBVIOUS
  <2>1. u \in Timer /\ Shown(slot, active)[u] # NoTimer
    BY PendingSeen
  <2>2. PICK x \in ToSet(active) : slot[x].timer = u
    BY <1>3, <2>1, PendingIs
  <2>3. Shown(slot, active)[u] = slot[x].when
    BY <1>3, <2>2, ShownIsWhen
  <2>4. slot[s].when <= slot[x].when
    BY <1>1, <2>2, HeadIsEarliest DEF Deadline
  <2>5. QED  BY <1>8, <2>3, <2>4
<1>11. Shown(slot, active') = [Shown(slot, active) EXCEPT ![t] = NoTimer]
  <2>1. \A x \in ToSet(active) : slot[x].timer = t <=> x = s
    BY <1>3, <1>4 DEF OnePerTimer
  <2>2. Shown(slot, active')[t] = NoTimer
    BY <1>3, <1>5, <1>6, <2>1, ShownIsNone
  <2>3. Shown(slot, active') = [Shown(slot, active) EXCEPT ![t] = Shown(slot, active')[t]]
    <3>1. /\ \A x \in ToSet(active) : slot[x].timer # t
                => x \in ToSet(active') /\ slot[x] = slot[x]
          /\ \A x \in ToSet(active') : slot[x].timer # t
                => x \in ToSet(active) /\ slot[x] = slot[x]
      BY <1>5, <2>1
    <3> HIDE DEF t
    <3>2. QED  BY <1>3, <1>6, <3>1, OthersShown
  <2>4. QED  BY <2>2, <2>3
<1>12. Calling(slot, running) = NoTimer /\ Calling(slot', running') = t
  BY <1>2, <1>4, SlotAssumption DEF Calling
<1>13. Shown(slot, active)[t] <= cycle
  BY <1>2, <1>8 DEF Deadline
<1>14. Service!Call(t)
  <2> HIDE DEF t
  <2>1. QED  BY <1>2, <1>9, <1>10, <1>11, <1>12, <1>13, CallIs
<1>15. QED  BY <1>6, <1>7, <1>14

\* A callback returns: with a deadline ahead it is pending again, if a slot is
\* left and it has not armed itself.
LEMMA ReturnServes ==
    ASSUME IInv, IInv', OneEntryEach, ~MayDuplicate,
           NEW w \in Returns, CatchUp(w) \/ Finish(w) \/ Reschedule(w)
    PROVE  OneEntryEach' /\ (Service!Return \/ UNCHANGED Seen)
<1>1. PoolOK(slot, active, free, running) /\ PoolOK(slot', active', free', running')
      /\ cycle \in Nat /\ w \in Nat /\ runWhen \in Nat /\ (phase = "callback" <=> running # NoSlot)
  BY BeforeStep, PoolAfter, ReturnsNat
<1>2. running \in Slot /\ running # NoSlot /\ cycle' = cycle
  BY <1>1 DEF PoolOK, CatchUp, Finish, Reschedule
<1> DEFINE t == slot[running].timer
<1>3. t \in Timer /\ Calling(slot, running) = t
  BY <1>2 DEF OneEntryEach, Calling
<1>4. CASE CatchUp(w)
  BY <1>4 DEF CatchUp, OneEntryEach, Seen
<1>5. CASE UNCHANGED <<active, slot>> /\ running' = NoSlot
  <2>1. OneEntryEach' /\ Shown(slot', active') = Shown(slot, active)
    BY <1>5 DEF OneEntryEach
  <2>2. Calling(slot, running) # NoTimer /\ Calling(slot', running') = NoTimer
    BY <1>3, <1>5, SlotAssumption DEF Calling
  <2>3. QED  BY <1>2, <2>1, <2>2, ReturnIs
<1>6. ASSUME NEW s \in free, slot' = [slot EXCEPT ![s] = [timer |-> t, when |-> w]],
             free' = (free \ {s}) \cup {running}, running' = NoSlot,
             PlacesOf(t) = {}, w > cycle
      PROVE  OneEntryEach' /\ Service!Return
  <2>1. /\ slot \in [Slot -> Timed] /\ slot' \in [Slot -> Timed]
        /\ active \in Seq(Slot) /\ active' \in Seq(Slot) /\ OnePerTimer(slot, active)
        /\ s \in Slot /\ s # running /\ s \notin ToSet(active)
    BY <1>1 DEF PoolOK, OneEntryEach
  <2>2. ToSet(active') = ToSet(active) \cup {s}
    <3>1. /\ ToSet(active') = Slot \ (free' \cup {running'})
          /\ ToSet(active) = Slot \ (free \cup {running})
      BY <1>1, ListIs
    <3>2. NoSlot \notin Slot
      BY SlotAssumption
    <3> HIDE DEF t
    <3>3. QED  BY <1>6, <2>1, <3>1, <3>2
  <2>3. ASSUME NEW x \in ToSet(active)
        PROVE  slot[x].timer # t
    <3>1. PICK i \in 1 .. Len(active) : x = active[i]
      BY <2>1, InToSet
    <3> HIDE DEF t
    <3>2. QED  BY <1>6, <3>1 DEF PlacesOf
  <2>4. slot'[s].timer = t /\ slot'[s].when = w /\ \A x \in Slot : x # s => slot'[x] = slot[x]
    BY <1>6, <2>1
  <2>5. \A x \in ToSet(active) : x # s /\ slot'[x] = slot[x]
    BY <2>1, <2>4, InToSet
  <2> HIDE DEF t
  <2>6. OnePerTimer(slot', active')
    BY <1>3, <2>1, <2>2, <2>3, <2>4, <2>5 DEF OnePerTimer
  <2>7. OneEntryEach'
    BY <1>6, <2>6 DEF OneEntryEach
  <2>8. Shown(slot', active')[t] = w
    BY <2>1, <2>2, <2>4, <2>6, ShownIsWhen
  <2>9. Shown(slot', active') = [Shown(slot, active) EXCEPT ![t] = Shown(slot', active')[t]]
    <3>1. /\ \A x \in ToSet(active) : slot[x].timer # t
                => x \in ToSet(active') /\ slot'[x] = slot[x]
          /\ \A x \in ToSet(active') : slot'[x].timer # t
                => x \in ToSet(active) /\ slot'[x] = slot[x]
      BY <2>2, <2>4, <2>5
    <3>2. QED  BY <1>3, <2>1, <2>6, <3>1, OthersShown
  <2>10. Service!Set(t, cycle + 1)
    <3>1. w >= cycle + 1
      BY <1>1, <1>6
    <3>2. QED  BY <1>1, <1>3, <2>8, <2>9, <3>1, SetIs
  <2>11. t \notin Service!Pending
    BY <1>3, <2>1, <2>3, PendingIs, PendingSeen
  <2>12. Service!Used < Cardinality(Slot)
    BY <1>1, FreeIsRoom
  <2>13. Calling(slot, running) # NoTimer /\ Calling(slot', running') = NoTimer
    BY <1>3, <1>6, SlotAssumption DEF Calling
  <2>14. QED  BY <1>2, <1>3, <2>7, <2>10, <2>11, <2>12, <2>13, ReturnIs
<1>7. CASE Finish(w)
  BY <1>5, <1>7 DEF Finish
<1>8. CASE Reschedule(w)
  <2>1. w > cycle
    BY <1>1, <1>8 DEF Reschedule, NextWhen
  <2>2. PlacesOf(t) = {} /\ running' = NoSlot
    BY <1>8 DEF Reschedule
  <2>3. \/ UNCHANGED <<active, slot>>
        \/ \E s \in free : /\ slot' = [slot EXCEPT ![s] = [timer |-> t, when |-> w]]
                           /\ free' = (free \ {s}) \cup {running}
    BY <1>8 DEF Reschedule
  <2> HIDE DEF t
  <2>4. QED  BY <1>5, <1>6, <2>1, <2>2, <2>3
<1>9. QED  BY <1>4, <1>7, <1>8

\* A reset forgets all deadlines but that of a timer armed in it.
LEMMA ResetServes ==
    ASSUME IInv, IInv', AvrReset
    PROVE  OneEntryEach' /\ Service!Reset
<1>1. PoolOK(slot', active', free', running') /\ cycle \in Nat
  BY BeforeStep, PoolAfter
<1>2. cycle' = 0 /\ running' = NoSlot
  BY DEF AvrReset
<1>3. slot' \in [Slot -> Timed] /\ active' \in Seq(Slot)
  BY <1>1 DEF PoolOK
<1>4. OnePerTimer(slot', active')
      /\ \A x \in ToSet(active') : slot'[x].timer = ResetTimer
  <2>1. CASE active' = << >>
    <3>1. ToSet(active') = {}
      BY <2>1, EmptySeq DEF ToSet
    <3>2. QED  BY <3>1 DEF OnePerTimer
  <2>2. ASSUME ResetTimer # NoTimer, NEW s \in Slot, active' = <<s>>,
               slot' = [r \in Slot |->
                          IF r = s THEN [timer |-> ResetTimer, when |-> cycle + ResetDelay]
                          ELSE Cleared]
        PROVE  OnePerTimer(slot', active')
               /\ \A x \in ToSet(active') : slot'[x].timer = ResetTimer
    <3>1. ToSet(active') = {s}
      BY <2>2 DEF ToSet
    <3>2. slot'[s].timer = ResetTimer /\ ResetTimer \in Timer
      BY <2>2, SlotAssumption
    <3>3. QED  BY <3>1, <3>2 DEF OnePerTimer
  <2>3. QED  BY <2>1, <2>2 DEF AvrReset
<1>5. OneEntryEach'
  BY <1>2, <1>4 DEF OneEntryEach
<1>6. Calling(slot', running') = NoTimer
  BY <1>2 DEF Calling
<1>7. ASSUME NEW t \in Timer
      PROVE  /\ Shown(slot', active')[t] \in Nat \cup {NoTimer}
             /\ Shown(slot', active')[t] # NoTimer => t = ResetTimer
  <2>1. CASE \A x \in ToSet(active') : slot'[x].timer # t
    BY <1>3, <2>1, ShownIsNone
  <2>2. CASE \E x \in ToSet(active') : slot'[x].timer = t
    <3>1. PICK x \in ToSet(active') : slot'[x].timer = t
      BY <2>2
    <3>2. Shown(slot', active')[t] = slot'[x].when
      BY <1>3, <1>4, <3>1, ShownIsWhen
    <3>3. slot'[x].when \in Nat
      BY <1>3, <3>1, InToSet DEF Timed
    <3>4. QED  BY <1>4, <3>1, <3>2, <3>3
  <2>3. QED  BY <2>1, <2>2
<1>8. Shown(slot', active') \in [Timer -> Nat \cup {NoTimer}]
  <2> DEFINE f == Shown(slot', active')
  <2>1. f = [t \in Timer |-> f[t]]
    BY DEF Shown
  <2>2. \A t \in Timer : f[t] \in Nat \cup {NoTimer}
    BY <1>7
  <2> HIDE DEF f
  <2>3. f \in [Timer -> Nat \cup {NoTimer}]
    BY <2>1, <2>2
  <2>4. QED  BY <2>3 DEF f
<1>9. Service!Reset
  BY <1>2, <1>6, <1>7, <1>8, ResetIs
<1>10. QED  BY <1>5, <1>9

LEMMA InitServes ==
    ASSUME Init
    PROVE  OneEntryEach /\ Service!Init
<1>1. active = << >> /\ cycle = 0 /\ running = NoSlot
  BY DEF Init
<1>2. active \in Seq(Slot) /\ ToSet(active) = {}
  BY <1>1, EmptySeq DEF ToSet
<1>3. OneEntryEach
  BY <1>1, <1>2 DEF OneEntryEach, OnePerTimer
<1>4. Shown(slot, active) = [t \in Timer |-> NoTimer]
  <2>1. \A t \in Timer : PlacesIn(slot, active, t) = {}
    BY <1>2, InToSet DEF PlacesIn
  <2>2. QED  BY <2>1 DEF Shown
<1>5. Calling(slot, running) = NoTimer
  BY <1>1 DEF Calling
<1>6. QED  BY <1>1, <1>3, <1>4, <1>5, MappedIsSeen DEF Service!Init

\* The pool is the queue of deadlines that the peripherals rely on, unless a
\* callback that armed itself returns a deadline as well.
THEOREM PoolIsDeadlineQueue ==
    ASSUME ~MayDuplicate
    PROVE  Spec => ImplementsDeadlineQueue
<1> DEFINE Served == <<[t \in Timer |-> IF PlacesOf(t) = {} THEN NoTimer
                                        ELSE slot[active[FirstOf(PlacesOf(t))]].when],
                       cycle, IF running = NoSlot THEN NoTimer ELSE slot[running].timer>>
<1>1. Init => OneEntryEach /\ Service!Init
  BY InitServes
<1>2. ASSUME IInv, IInv', OneEntryEach, [Next]_vars
      PROVE  OneEntryEach' /\ [Service!Next]_Served
  <2>1. OneEntryEach' /\ (Service!Next \/ UNCHANGED Seen)
    <3>1. CASE Calls
      BY <1>2, <3>1, RegisterServes, CancelServes DEF Calls, Service!Next
    <3>2. CASE Runs \/ NothingDue
      BY <1>2, <3>2, RunsServes DEF Service!Next
    <3>3. CASE FireHead
      BY <1>2, <3>3, FireServes DEF Service!Next
    <3>4. CASE CallbackReturns \/ HostReset
      BY <1>2, <3>4, ReturnServes, ResetServes
         DEF CallbackReturns, TimerReset, HostReset, Service!Next
    <3>5. CASE UNCHANGED vars
      BY <1>2, <3>5 DEF vars, OneEntryEach, Seen
    <3>6. QED  BY <1>2, <3>1, <3>2, <3>3, <3>4, <3>5 DEF Next, Processes
  <2>2. UNCHANGED Seen => UNCHANGED Served
    BY MappedIsSeen, MappedIsSeenNext DEF Seen
  <2>3. QED  BY <2>1, <2>2
<1>3. Spec => []OneEntryEach
  BY <1>1, <1>2, Invariance, PTL DEF Spec
<1>4. QED
  BY <1>1, <1>2, <1>3, Invariance, PTL DEF Spec, ImplementsDeadlineQueue, Service!Spec

=============================================================================
