-------------------------- MODULE HostEventsProofs --------------------------
(***************************************************************************)
(* Proofs about HostEvents: for every number of subscriptions, every queue *)
(* and pipe size, the queue is a first-in first-out one that counts what   *)
(* it loses, its descriptor is readable exactly while it has to be, and    *)
(* what a reader is told last is how the pins are.                         *)
(***************************************************************************)
EXTENDS HostEvents, SequenceTheorems, FiniteSetTheorems, WellFoundedInduction, TLAPS

(***************************************************************************)
(* Places of a sequence                                                    *)
(***************************************************************************)

\* The numbers from one to n are n in number.
LEMMA UpTo ==
    ASSUME NEW n \in Nat
    PROVE  IsFiniteSet(1 .. n) /\ Cardinality(1 .. n) = n
<1>1. /\ IsFiniteSet(1 .. n)
      /\ Cardinality(1 .. n) = IF 1 > n THEN 0 ELSE n - 1 + 1
  <2>1. 1 \in Int /\ n \in Int
    OBVIOUS
  <2>2. QED
    BY <2>1, FS_Interval, Zenon
<1>2. (IF 1 > n THEN 0 ELSE n - 1 + 1) = n
  OBVIOUS
<1>3. Cardinality(1 .. n) = n
  BY <1>1, <1>2
<1>4. QED
  BY <1>1, <1>3, Zenon

\* Some of the places have a last one.
LEMMA LastPlace ==
    ASSUME NEW n \in Nat, NEW I \in SUBSET (1 .. n), I # {}
    PROVE  \E k \in I : \A j \in I : j <= k
<1>1. \A i \in 1 .. n : n - i \in Nat
  OBVIOUS
<1> DEFINE gaps == {n - i : i \in I}
<1>2. gaps \subseteq Nat /\ gaps # {}
  BY <1>1
<1>3. PICK x \in gaps : \A y \in gaps : ~(<<y, x>> \in OpToRel(<, Nat))
  <2> HIDE DEF gaps
  <2>1. QED  BY <1>2, NatLessThanWellFounded, WFMin
<1>4. PICK k \in I : x = n - k
  BY <1>3
<1>5. ASSUME NEW j \in I, k < j
      PROVE  FALSE
  <2>1. n - j \in gaps /\ n - j < x /\ n - j \in Nat /\ x \in Nat
    BY <1>1, <1>4, <1>5
  <2> DEFINE y == n - j
  <2>2. <<y, x>> \in Nat \X Nat /\ <<y, x>>[1] < <<y, x>>[2]
    BY <2>1
  <2> HIDE DEF y
  <2>3. <<y, x>> \in OpToRel(<, Nat)
    BY <2>2, Zenon DEF OpToRel
  <2>4. QED  BY <1>3, <2>1, <2>3 DEF y
<1>6. QED  BY <1>5

(***************************************************************************)
(* Places of the ring                                                      *)
(***************************************************************************)

\* The place i after head, without the division.
LEMMA Place ==
    ASSUME NEW N \in Nat \ {0}, NEW h \in 0 .. N - 1, NEW i \in 0 .. N
    PROVE  (h + i) % N = IF h + i < N THEN h + i ELSE h + i - N
<1>1. ASSUME NEW r \in 0 .. N - 1 PROVE r % N = r /\ (r + N) % N = r
  OBVIOUS
<1>2. CASE h + i < N
  BY <1>1, <1>2
<1>3. CASE h + i >= N
  <2>1. h + i - N \in 0 .. N - 1 /\ (h + i - N) + N = h + i
    BY <1>3
  <2>2. QED
    BY <1>1, <1>3, <2>1
<1>4. QED
  BY <1>2, <1>3

\* Two entries have two places.
LEMMA PlacesDiffer ==
    ASSUME NEW N \in Nat \ {0}, NEW h \in 0 .. N - 1,
           NEW i \in 0 .. N - 1, NEW j \in 0 .. N - 1, i # j
    PROVE  (h + i) % N # (h + j) % N
<1> DEFINE a == (h + i) % N
           b == (h + j) % N
<1>1. i \in 0 .. N /\ j \in 0 .. N
  OBVIOUS
<1>2. a = IF h + i < N THEN h + i ELSE h + i - N
  BY <1>1, Place
<1>3. b = IF h + j < N THEN h + j ELSE h + j - N
  BY <1>1, Place
<1> HIDE DEF a, b
<1>4. a # b
  BY <1>2, <1>3
<1>5. QED
  BY <1>4 DEF a, b

\* Counting on from a place that was counted to.
LEMMA PlaceMoves ==
    ASSUME NEW N \in Nat \ {0}, NEW h \in 0 .. N - 1, NEW n \in 0 .. N,
           NEW i \in 0 .. N - 1, n + i <= N
    PROVE  (((h + n) % N) + i) % N = (h + (n + i)) % N
<1> DEFINE g == (h + n) % N
           to == (h + (n + i)) % N
           over == (g + i) % N
<1>1. g = IF h + n < N THEN h + n ELSE h + n - N
  BY Place
<1>2. to = IF h + (n + i) < N THEN h + (n + i) ELSE h + (n + i) - N
  <2>1. n + i \in 0 .. N
    OBVIOUS
  <2>2. QED
    BY <2>1, Place
<1> HIDE DEF g, to
<1>3. g \in 0 .. N - 1 /\ i \in 0 .. N
  BY <1>1
<1>4. over = IF g + i < N THEN g + i ELSE g + i - N
  BY <1>3, Place
<1> HIDE DEF over
<1>5. over = to
  BY <1>1, <1>2, <1>3, <1>4
<1>6. QED
  BY <1>5 DEF over, to, g

\* The slot of the ring i places behind h.  The proofs below use no more of it
\* than the next lemma says.
Slot(h, i) == (h + i) % QueueSize

\* The slots of the ring: each in range, no two of them the same, and counted on
\* from one another.
LEMMA Slots ==
    ASSUME NEW h \in 0 .. QueueSize - 1
    PROVE  /\ \A i \in 0 .. QueueSize : Slot(h, i) \in 0 .. QueueSize - 1
           /\ \A i, j \in 0 .. QueueSize - 1 : i # j => Slot(h, i) # Slot(h, j)
           /\ \A n \in 0 .. QueueSize, i \in 0 .. QueueSize - 1 :
                 n + i <= QueueSize => Slot(Slot(h, n), i) = Slot(h, n + i)
           /\ Slot(h, 0) = h
<1>1. QueueSize \in Nat \ {0}
  BY SubAssumption
<1>2. ASSUME NEW i \in 0 .. QueueSize PROVE Slot(h, i) \in 0 .. QueueSize - 1
  <2>1. Slot(h, i) = IF h + i < QueueSize THEN h + i ELSE h + i - QueueSize
    BY <1>1, Place DEF Slot
  <2>2. QED
    BY <1>1, <2>1
<1>3. \A i, j \in 0 .. QueueSize - 1 : i # j => Slot(h, i) # Slot(h, j)
  BY <1>1, PlacesDiffer DEF Slot
<1>4. \A n \in 0 .. QueueSize, i \in 0 .. QueueSize - 1 :
         n + i <= QueueSize => Slot(Slot(h, n), i) = Slot(h, n + i)
  BY <1>1, PlaceMoves DEF Slot
<1>5. Slot(h, 0) = h
  <2>1. 0 \in 0 .. QueueSize /\ h + 0 = h /\ h < QueueSize
    BY <1>1
  <2>2. QED
    BY <1>1, <2>1, Place DEF Slot
<1>6. QED
  BY <1>2, <1>3, <1>4, <1>5

(***************************************************************************)
(* The ring as a sequence                                                  *)
(***************************************************************************)

Ring(f, h, c) == [i \in 1 .. c |-> f[(h + i - 1) % QueueSize]]

\* The entries of the ring, counted from the head.
LEMMA RingEntry ==
    ASSUME NEW f, NEW h \in Nat, NEW c \in Nat, NEW i \in 1 .. c
    PROVE  Ring(f, h, c)[i] = f[Slot(h, i - 1)]
<1>1. h + i - 1 = h + (i - 1)
  OBVIOUS
<1>2. QED
  BY <1>1 DEF Ring, Slot

\* The ring is a sequence of what it holds.
LEMMA RingType ==
    ASSUME NEW D, NEW f \in [0 .. QueueSize - 1 -> D],
           NEW h \in 0 .. QueueSize - 1, NEW c \in 0 .. QueueSize
    PROVE  /\ Ring(f, h, c) \in Seq(D) /\ Len(Ring(f, h, c)) = c
           /\ \A i \in 1 .. c : Ring(f, h, c)[i] = f[Slot(h, i - 1)]
           /\ \A i \in 1 .. c : Slot(h, i - 1) \in 0 .. QueueSize - 1
<1>1. QueueSize \in Nat \ {0}
  BY SubAssumption
<1>2. \A i \in 1 .. c : i - 1 \in 0 .. QueueSize /\ h + i - 1 = h + (i - 1)
  BY <1>1
<1>3. \A i \in 1 .. c : Slot(h, i - 1) \in 0 .. QueueSize - 1
  BY <1>2, Slots
<1>4. \A i \in 1 .. c : f[Slot(h, i - 1)] \in D
  BY <1>3
<1>5. Ring(f, h, c) = [i \in 1 .. c |-> f[Slot(h, i - 1)]]
  BY <1>2 DEF Ring, Slot
<1>6. c \in Nat
  BY <1>1
<1>7. QED
  BY <1>3, <1>4, <1>5, <1>6

\* What a slot of the ring can hold.
Entry == Events \cup {None}

\* An entry written behind the last one extends the sequence.
LEMMA RingPush ==
    ASSUME NEW f \in [0 .. QueueSize - 1 -> Entry], NEW e \in Entry,
           NEW h \in 0 .. QueueSize - 1, NEW c \in 0 .. QueueSize - 1
    PROVE  LET g == [f EXCEPT ![Slot(h, c)] = e]
           IN  /\ Ring(g, h, c + 1) = Ring(f, h, c) \o <<e>>
               /\ SubSeq(Ring(g, h, c + 1), 1, c) = Ring(f, h, c)
<1>1. QueueSize \in Nat \ {0} /\ c \in 0 .. QueueSize /\ c + 1 \in 0 .. QueueSize
  BY SubAssumption
<1> DEFINE k == Slot(h, c)
           g == [f EXCEPT ![k] = e]
           old == Ring(f, h, c)
           new == Ring(g, h, c + 1)
<1>2. g \in [0 .. QueueSize - 1 -> Entry]
  OBVIOUS
<1>3. /\ old \in Seq(Entry) /\ Len(old) = c
      /\ \A i \in 1 .. c : old[i] = f[Slot(h, i - 1)]
  <2> HIDE DEF g, k
  <2>1. QED
    BY <1>1, RingType
<1>4. /\ new \in Seq(Entry) /\ Len(new) = c + 1
      /\ \A i \in 1 .. c + 1 : new[i] = g[Slot(h, i - 1)]
      /\ \A i \in 1 .. c + 1 : Slot(h, i - 1) \in 0 .. QueueSize - 1
  <2> HIDE DEF g
  <2>1. QED
    BY <1>1, <1>2, RingType
<1>5. ASSUME NEW i \in 1 .. c PROVE new[i] = old[i]
  <2>1. i - 1 \in 0 .. QueueSize - 1 /\ i - 1 # c
    BY <1>1
  <2>2. Slot(h, i - 1) # k
    BY <1>1, <2>1, Slots
  <2>3. i \in 1 .. c + 1
    BY <1>1
  <2> DEFINE at == Slot(h, i - 1)
  <2>4. new[i] = g[at] /\ at \in 0 .. QueueSize - 1 /\ old[i] = f[at] /\ at # k
    BY <2>2, <2>3, <1>3, <1>4
  <2> HIDE DEF at, k, new, old
  <2>5. QED
    BY <2>4
<1>6. new[c + 1] = e
  <2>1. c + 1 \in 1 .. c + 1 /\ c + 1 - 1 = c
    BY <1>1
  <2>2. /\ new[c + 1] = g[Slot(h, c + 1 - 1)]
        /\ Slot(h, c + 1 - 1) \in 0 .. QueueSize - 1
    <3> HIDE DEF g, new
    <3>1. QED
      BY <2>1, <1>4
  <2>3. new[c + 1] = g[k] /\ k \in 0 .. QueueSize - 1
    <3> HIDE DEF g, new
    <3>1. QED
      BY <2>1, <2>2
  <2> HIDE DEF k, new
  <2>4. QED
    BY <2>3
<1>7. SubSeq(new, 1, c) = old
  <2> HIDE DEF new, old, g, k
  <2>1. \A i \in 1 .. c : new[i] \in Entry
    BY <1>4, <1>1, ElementOfSeq
  <2>2. 1 \in Int /\ c \in Int /\ c - 1 + 1 = c /\ \A i \in 1 .. c : 1 + i - 1 = i
    BY <1>1
  <2> DEFINE s == SubSeq(new, 1, c)
  <2>3. /\ s \in Seq(Entry)
        /\ Len(s) = IF 1 <= c THEN c - 1 + 1 ELSE 0
        /\ \A i \in 1 .. c - 1 + 1 : s[i] = new[1 + i - 1]
    BY <2>1, <2>2, SubSeqProperties
  <2>4. Len(s) = c
    BY <2>2, <2>3, <1>1
  <2>5. \A i \in 1 .. c : s[i] = old[i]
    BY <2>2, <2>3, <1>5
  <2> HIDE DEF s
  <2>6. s = old
    BY <2>3, <2>4, <2>5, <1>3, SeqEqual
  <2>7. QED
    BY <2>6 DEF s
<1>8. new = old \o <<e>>
  <2> HIDE DEF new, old, g, k
  <2> DEFINE r == <<e>>
             t == old \o r
  <2>1. r \in Seq(Entry) /\ Len(r) = 1 /\ r[1] = e
    OBVIOUS
  <2> HIDE DEF r
  <2>2. /\ t \in Seq(Entry) /\ Len(t) = Len(old) + Len(r)
        /\ \A i \in 1 .. Len(old) + Len(r) :
              t[i] = IF i <= Len(old) THEN old[i] ELSE r[i - Len(old)]
    BY <1>3, <2>1, ConcatProperties
  <2> HIDE DEF t
  <2>3. c \in Nat /\ c + 1 - c = 1 /\ ~(c + 1 <= c) /\ c + 1 \in 1 .. c + 1
    BY <1>1
  <2>4. Len(t) = c + 1 /\ t[c + 1] = e
    BY <1>3, <2>1, <2>2, <2>3
  <2>5. \A i \in 1 .. c : t[i] = old[i]
    BY <1>3, <2>1, <2>2, <2>3
  <2>6. \A i \in 1 .. c + 1 : i \in 1 .. c \/ i = c + 1
    BY <2>3
  <2>7. \A i \in 1 .. c + 1 : new[i] = t[i]
    BY <1>5, <1>6, <2>4, <2>5, <2>6
  <2>8. new = t
    BY <1>4, <2>2, <2>4, <2>7, SeqEqual
  <2>9. QED
    BY <2>8 DEF t, r
<1>9. QED
  BY <1>7, <1>8

\* Moving the head on takes the first entries away.
LEMMA RingPoll ==
    ASSUME NEW D, NEW f \in [0 .. QueueSize - 1 -> D],
           NEW h \in 0 .. QueueSize - 1, NEW c \in 0 .. QueueSize, NEW n \in 0 .. c
    PROVE  Ring(f, Slot(h, n), c - n) = SubSeq(Ring(f, h, c), n + 1, c)
<1>1. QueueSize \in Nat \ {0} /\ n \in 0 .. QueueSize /\ c - n \in 0 .. QueueSize
  BY SubAssumption
<1> DEFINE g == Slot(h, n)
           old == Ring(f, h, c)
           new == Ring(f, g, c - n)
           s == SubSeq(old, n + 1, c)
<1>2. g \in 0 .. QueueSize - 1
  BY <1>1, Slots
<1>3. /\ old \in Seq(D) /\ Len(old) = c
      /\ \A i \in 1 .. c : old[i] = f[Slot(h, i - 1)]
  <2> HIDE DEF g, new, s
  <2>1. old \in Seq(D)
    BY RingType
  <2>2. Len(old) = c
    BY RingType
  <2>3. h \in Nat /\ c \in Nat
    BY <1>1
  <2>4. \A i \in 1 .. c : old[i] = f[Slot(h, i - 1)]
    BY <2>3, RingEntry
  <2>5. QED
    BY <2>1, <2>2, <2>4
<1>4. /\ new \in Seq(D) /\ Len(new) = c - n
      /\ \A i \in 1 .. c - n : new[i] = f[Slot(g, i - 1)]
  <2> HIDE DEF g, old, s
  <2>1. new \in Seq(D)
    BY <1>1, <1>2, RingType
  <2>2. Len(new) = c - n
    BY <1>1, <1>2, RingType
  <2>3. g \in Nat /\ c - n \in Nat
    BY <1>1, <1>2
  <2>4. \A i \in 1 .. c - n : new[i] = f[Slot(g, i - 1)]
    BY <2>3, RingEntry
  <2>5. QED
    BY <2>1, <2>2, <2>4
<1>5. ASSUME NEW i \in 1 .. c - n PROVE new[i] = old[n + i]
  <2>1. i - 1 \in 0 .. QueueSize - 1 /\ n + (i - 1) <= QueueSize
    BY <1>1
  <2>2. Slot(g, i - 1) = Slot(h, n + (i - 1))
    BY <1>1, <2>1, Slots
  <2>3. n + i \in 1 .. c /\ n + i - 1 = n + (i - 1)
    BY <1>1
  <2>4. old[n + i] = f[Slot(h, n + (i - 1))]
    BY <2>3, <1>3
  <2> HIDE DEF new, old, g
  <2>5. QED
    BY <2>2, <2>4, <1>4
<1> HIDE DEF old, new, g
<1>6. /\ s \in Seq(D)
      /\ Len(s) = IF n + 1 <= c THEN c - (n + 1) + 1 ELSE 0
      /\ \A i \in 1 .. c - (n + 1) + 1 : s[i] = old[n + 1 + i - 1]
  <2>1. \A i \in n + 1 .. c : old[i] \in D
    BY <1>1, <1>3, ElementOfSeq
  <2>2. n + 1 \in Int /\ c \in Int
    BY <1>1
  <2>3. QED
    BY <2>1, <2>2, SubSeqProperties
<1>7. Len(s) = c - n /\ c - (n + 1) + 1 = c - n
  BY <1>1, <1>6
<1>8. \A i \in 1 .. c - n : n + 1 + i - 1 = n + i
  BY <1>1
<1>9. \A i \in 1 .. c - n : s[i] = new[i]
  BY <1>5, <1>6, <1>7, <1>8
<1> HIDE DEF s
<1>10. s = new
  BY <1>4, <1>6, <1>7, <1>9, SeqEqual
<1>11. QED
  BY <1>10 DEF s, new, old, g

(***************************************************************************)
(* Types                                                                   *)
(***************************************************************************)

\* Some order of finitely many subscriptions.
LEMMA OrderedType ==
    ASSUME NEW S \in SUBSET Sub
    PROVE  Ordered(S) \in Seq(S)
<1>1. IsFiniteSet(S)
  BY SubAssumption, FS_Subset
<1>2. Cardinality(S) \in Nat /\ \E f \in [1 .. Cardinality(S) -> S] : IsInjective(f)
  BY <1>1, FS_CardinalityType DEF ExistsBijection, Bijection, Injection
<1>3. Ordered(S) \in [1 .. Cardinality(S) -> S]
  BY <1>2, Zenon DEF Ordered, SetToSeq
<1>4. QED
  BY <1>2, <1>3

\* The events of some subscriptions, each with its value.
LEMMA EventsType ==
    ASSUME NEW S \in SUBSET Sub, NEW value \in [Sub -> {0, 1}]
    PROVE  [i \in 1 .. Len(Ordered(S)) |-> PinEvent(Ordered(S)[i], value[Ordered(S)[i]])]
               \in Seq(Events)
<1> DEFINE q == Ordered(S)
<1>1. q \in Seq(S)
  BY OrderedType
<1> HIDE DEF q
<1>2. Len(q) \in Nat /\ \A i \in 1 .. Len(q) : q[i] \in Sub
  BY <1>1, LenProperties, ElementOfSeq
<1>3. \A i \in 1 .. Len(q) : PinEvent(q[i], value[q[i]]) \in Events
  BY <1>2 DEF Events
<1>4. [i \in 1 .. Len(q) |-> PinEvent(q[i], value[q[i]])] \in Seq(Events)
  BY <1>2, <1>3
<1>5. QED
  BY <1>4 DEF q

\* Only an event of a pin has the name of a subscription.
LEMMA ValueOfEvent ==
    ASSUME NEW e \in Events \cup {None}, NEW s \in Sub, e.sub = s
    PROVE  e.value \in {0, 1}
BY SubAssumption DEF Events, None, State, PinEvent

\* The last value in a sequence of events is one that a pin can have.
LEMMA LastOfType ==
    ASSUME NEW q \in Seq(Events \cup {None}), NEW s \in Sub, NEW v \in {0, 1}
    PROVE  LastOf(s, q, v) \in {0, 1}
<1> DEFINE I == {i \in 1 .. Len(q) : q[i].sub = s}
           last == CHOOSE i \in I : \A j \in I : j <= i
<1>1. CASE I = {}
  BY <1>1 DEF LastOf
<1>2. CASE I # {}
  <2>1. Len(q) \in Nat
    BY LenProperties
  <2>2. \E i \in I : \A j \in I : j <= i
    <3>1. I \in SUBSET (1 .. Len(q))
      OBVIOUS
    <3> HIDE DEF I
    <3>2. QED
      BY <1>2, <2>1, <3>1, LastPlace
  <2>3. last \in I
    <3> HIDE DEF I
    <3>1. QED
      BY <2>2, Zenon
  <2>4. LastOf(s, q, v) = q[last].value
    BY <1>2 DEF LastOf
  <2> HIDE DEF last
  <2>5. q[last] \in Events \cup {None} /\ q[last].sub = s
    BY <2>3, ElementOfSeq
  <2>6. QED
    BY <2>4, <2>5, ValueOfEvent
<1>3. QED
  BY <1>1, <1>2

\* What is queued is a sequence of events.
LEMMA QueuedType ==
    ASSUME TypeOK
    PROVE  /\ Queued = Ring(evq, evHead, evCount)
           /\ Queued \in Seq(Events \cup {None}) /\ Len(Queued) = evCount
<1>1. Queued = Ring(evq, evHead, evCount)
  BY DEF Queued, Ring
<1>2. /\ evq \in [0 .. QueueSize - 1 -> Events \cup {None}]
      /\ evHead \in 0 .. QueueSize - 1 /\ evCount \in 0 .. QueueSize
  BY DEF TypeOK
<1>3. Ring(evq, evHead, evCount) \in Seq(Events \cup {None})
  BY <1>2, RingType
<1>4. Len(Ring(evq, evHead, evCount)) = evCount
  BY <1>2, RingType
<1>5. QED
  BY <1>1, <1>3, <1>4

\* Unsigned arithmetic of cycles.
LEMMA SinceType ==
    ASSUME NEW c \in Int
    PROVE  c % CycleModulus \in 0 .. CycleModulus - 1
<1>1. CycleModulus \in Nat /\ CycleModulus > 0
  BY SubAssumption
<1>2. QED
  BY <1>1

\* A cycle that is reached needs no wrapping.
LEMMA CyclesFit ==
    ASSUME NEW c \in 0 .. MaxCycle
    PROVE  c \in 0 .. CycleModulus - 1
BY SubAssumption

\* Values that are kept for later, and the events that are pushed at once.
LEMMA NotifyType ==
    ASSUME TypeOK, NEW p \in Pin, NEW v \in {0, 1}, Notify(p, v)
    PROVE  /\ pending' \in [Sub -> BOOLEAN] /\ pendingValue' \in [Sub -> {0, 1}]
           /\ pendingCycle' \in [Sub -> 0 .. MaxCycle]
           /\ lastEmit' \in [Sub -> 0 .. CycleModulus - 1]
           /\ todo' \in Seq(Events)
<1> DEFINE S == {s \in active : PinOf[s] = p}
           K == {s \in S : Coalesced(s)}
           q == Ordered(S \ K)
<1>1. cycle \in 0 .. MaxCycle /\ cycle \in 0 .. CycleModulus - 1
  BY CyclesFit DEF TypeOK
<1>2. S \ K \in SUBSET Sub
  BY DEF TypeOK
<1> HIDE DEF S, K
<1>3. /\ pending' = [s \in Sub |-> s \in K \/ (s \notin S /\ pending[s])]
      /\ pendingValue' = [s \in Sub |-> IF s \in K THEN v ELSE pendingValue[s]]
      /\ pendingCycle' = [s \in Sub |-> IF s \in K THEN cycle ELSE pendingCycle[s]]
      /\ lastEmit' = [s \in Sub |-> IF s \in S \ K THEN cycle ELSE lastEmit[s]]
      /\ todo' = [i \in 1 .. Len(q) |-> PinEvent(q[i], v)]
  BY DEF Notify, S, K
<1>4. q \in Seq(S \ K)
  BY <1>2, OrderedType
<1> HIDE DEF q
<1>5. Len(q) \in Nat /\ \A i \in 1 .. Len(q) : PinEvent(q[i], v) \in Events
  BY <1>2, <1>4, LenProperties, ElementOfSeq DEF Events
<1>6. todo' \in Seq(Events)
  BY <1>3, <1>5
<1>7. \A s \in Sub : (s \in K \/ (s \notin S /\ pending[s])) \in BOOLEAN
  OBVIOUS
<1>8. pending' \in [Sub -> BOOLEAN]
  BY <1>3, <1>7
<1>9. pendingValue' \in [Sub -> {0, 1}] /\ pendingCycle' \in [Sub -> 0 .. MaxCycle]
  BY <1>1, <1>3 DEF TypeOK
<1>10. lastEmit' \in [Sub -> 0 .. CycleModulus - 1]
  BY <1>1, <1>3 DEF TypeOK
<1>11. QED
  BY <1>6, <1>8, <1>9, <1>10

\* The flush, with the events that follow it.
LEMMA FlushType ==
    ASSUME TypeOK, NEW force \in BOOLEAN, NEW then \in Seq(Events), Flush(force, then)
    PROVE  /\ pending' \in [Sub -> BOOLEAN]
           /\ lastEmit' \in [Sub -> 0 .. CycleModulus - 1]
           /\ todo' \in Seq(Events)
           /\ UNCHANGED <<active, past, pendingValue, pendingCycle>>
<1> DEFINE S == {s \in active : pending[s] /\ (force \/ Since(lastEmit[s]) >= Window[s])}
           q == Ordered(S)
           flushed == [i \in 1 .. Len(q) |-> PinEvent(q[i], pendingValue[q[i]])]
<1>1. S \in SUBSET Sub
  BY DEF TypeOK
<1> HIDE DEF S
<1>2. /\ pending' = [s \in Sub |-> pending[s] /\ s \notin S]
      /\ lastEmit' = [s \in Sub |-> IF s \in S THEN pendingCycle[s] ELSE lastEmit[s]]
      /\ todo' = flushed \o then
      /\ UNCHANGED <<active, past, pendingValue, pendingCycle>>
  BY DEF Flush, S
<1>3. flushed \in Seq(Events)
  BY <1>1, EventsType DEF TypeOK
<1> HIDE DEF flushed, q
<1>4. todo' \in Seq(Events)
  BY <1>2, <1>3, ConcatProperties
<1>5. \A s \in Sub : (pending[s] /\ s \notin S) \in BOOLEAN
  BY DEF TypeOK
<1>6. pending' \in [Sub -> BOOLEAN]
  BY <1>2, <1>5
<1>7. \A s \in Sub : pendingCycle[s] \in 0 .. CycleModulus - 1
  BY CyclesFit DEF TypeOK
<1>8. lastEmit' \in [Sub -> 0 .. CycleModulus - 1]
  BY <1>2, <1>7 DEF TypeOK
<1>9. QED
  BY <1>2, <1>4, <1>6, <1>8

\* One event is pushed, or dropped.
LEMMA PushType ==
    ASSUME TypeOK, Push
    PROVE  TypeOK'
<1>1. /\ QueueSize \in Nat \ {0} /\ PipeSize \in Nat /\ Modulus \in Nat \ {0}
  BY SubAssumption
<1>2. Head(todo) \in Events /\ Tail(todo) \in Seq(Events)
  BY HeadTailProperties DEF TypeOK, Push
<1>3. todo' \in Seq(Events)
  BY <1>2 DEF Push
<1>4. offered' \in 0 .. Modulus - 1
  <2>1. offered' = (offered + 1) % Modulus /\ offered + 1 \in Nat
    BY <1>1 DEF Push, TypeOK
  <2>2. QED
    BY <1>1, <2>1
<1>5. stale' \in [Sub -> BOOLEAN]
  <2>1. stale' = [s \in Sub |-> IF s = Head(todo).sub THEN evCount = QueueSize ELSE stale[s]]
    BY DEF Push
  <2>2. \A s \in Sub : (IF s = Head(todo).sub THEN evCount = QueueSize ELSE stale[s]) \in BOOLEAN
    BY DEF TypeOK
  <2>3. QED
    BY <2>1, <2>2
<1>6. UNCHANGED <<cycle, mode, level, subs, evHead, shown, driven>>
  BY DEF Push
<1>7. CASE evCount = QueueSize
  <2>1. evDropped' = evDropped + 1 /\ UNCHANGED <<evq, evCount, pipe>>
    BY <1>7 DEF Push
  <2>2. QED
    BY <2>1, <1>3, <1>4, <1>5, <1>6 DEF TypeOK, subs
<1>8. CASE evCount # QueueSize
  <2>1. /\ evq' = [evq EXCEPT ![Slot(evHead, evCount)] = Head(todo)]
        /\ evCount' = evCount + 1
        /\ pipe' = IF evCount = 0 /\ pipe < PipeSize THEN pipe + 1 ELSE pipe
        /\ evDropped' = evDropped
    BY <1>8 DEF Push, Slot
  <2>2. evCount' \in 0 .. QueueSize /\ pipe' \in 0 .. PipeSize
    BY <2>1, <1>1, <1>8 DEF TypeOK
  <2>3. evq' \in [0 .. QueueSize - 1 -> Events \cup {None}]
    BY <2>1, <1>2 DEF TypeOK
  <2>4. QED
    BY <2>1, <2>2, <2>3, <1>3, <1>4, <1>5, <1>6 DEF TypeOK, subs
<1>9. QED
  BY <1>7, <1>8

\* A poll takes events from the front.
LEMMA PollType ==
    ASSUME TypeOK, NEW max \in PollSizes, Poll(max)
    PROVE  TypeOK'
<1> DEFINE n == IF evCount < max THEN evCount ELSE max
           taken == SubSeq(Queued, 1, n)
<1>1. QueueSize \in Nat \ {0} /\ PipeSize \in Nat \ {0} /\ max \in Nat
  BY SubAssumption
<1>2. n \in 0 .. evCount /\ n \in 0 .. QueueSize
  BY <1>1 DEF TypeOK
<1>3. /\ evHead' = Slot(evHead, n) /\ evCount' = evCount - n
      /\ evDropped' \in {0, evDropped} /\ pipe' \in {0, pipe}
      /\ shown' = [s \in Sub |-> LastOf(s, taken, shown[s])]
      /\ UNCHANGED <<cycle, mode, level, subs, todo, evq, stale, driven, offered>>
  BY DEF Poll, Slot
<1>4. taken \in Seq(Events \cup {None})
  <2>1. Queued \in Seq(Events \cup {None}) /\ Len(Queued) = evCount
    BY QueuedType
  <2>2. \A i \in 1 .. n : Queued[i] \in Events \cup {None}
    BY <2>1, <1>2, ElementOfSeq DEF TypeOK
  <2> HIDE DEF n
  <2>3. 1 \in Int /\ n \in Int
    BY <1>2 DEF TypeOK
  <2>4. QED
    BY <2>2, <2>3, SubSeqProperties
<1> HIDE DEF taken, n
<1>5. \A s \in Sub : LastOf(s, taken, shown[s]) \in {0, 1}
  BY <1>4, LastOfType DEF TypeOK
<1>6. shown' \in [Sub -> {0, 1}]
  BY <1>3, <1>5
<1>7. evHead' \in 0 .. QueueSize - 1
  BY <1>2, <1>3, Slots DEF TypeOK
<1>8. evCount' \in 0 .. QueueSize
  BY <1>1, <1>2, <1>3 DEF TypeOK
<1>9. evDropped' \in Nat /\ pipe' \in 0 .. PipeSize
  BY <1>1, <1>3 DEF TypeOK
<1>10. QED
  BY <1>3, <1>6, <1>7, <1>8, <1>9 DEF TypeOK, subs

\* Every step keeps the types.
LEMMA TypeStep ==
    ASSUME TypeOK, [Next]_vars
    PROVE  TypeOK'
<1>1. CASE UNCHANGED vars
  BY <1>1 DEF TypeOK, vars, subs, queue, history
<1>2. ASSUME NEW p \in Pin, NEW v \in {0, 1}, Drive(p, v) PROVE TypeOK'
  <2>1. /\ pending' \in [Sub -> BOOLEAN] /\ pendingValue' \in [Sub -> {0, 1}]
        /\ pendingCycle' \in [Sub -> 0 .. MaxCycle]
        /\ lastEmit' \in [Sub -> 0 .. CycleModulus - 1]
        /\ todo' \in Seq(Events)
    BY <1>2, NotifyType DEF Drive
  <2>2. /\ level' \in [Pin -> {0, 1}] /\ driven' \subseteq Pin
        /\ UNCHANGED <<cycle, mode, active, past, queue, shown, stale, offered>>
    BY <1>2 DEF Drive, TypeOK
  <2>3. QED
    BY <2>1, <2>2 DEF TypeOK, queue
<1>3. CASE BatchEnds
  <2>1. FALSE \in BOOLEAN /\ << >> \in Seq(Events)
    OBVIOUS
  <2>2. /\ pending' \in [Sub -> BOOLEAN]
        /\ lastEmit' \in [Sub -> 0 .. CycleModulus - 1]
        /\ todo' \in Seq(Events)
        /\ UNCHANGED <<active, past, pendingValue, pendingCycle>>
    BY <1>3, <2>1, FlushType DEF BatchEnds
  <2>3. UNCHANGED <<cycle, mode, level, queue, history>>
    BY <1>3 DEF BatchEnds
  <2>4. QED
    BY <2>2, <2>3 DEF TypeOK, queue, history
<1>4. CASE Stop
  <2>1. TRUE \in BOOLEAN /\ <<State("stopped")>> \in Seq(Events)
    BY DEF Events
  <2>2. /\ pending' \in [Sub -> BOOLEAN]
        /\ lastEmit' \in [Sub -> 0 .. CycleModulus - 1]
        /\ todo' \in Seq(Events)
        /\ UNCHANGED <<active, past, pendingValue, pendingCycle>>
    BY <1>4, <2>1, FlushType DEF Stop
  <2>3. mode' = "stopped" /\ UNCHANGED <<cycle, level, queue, history>>
    BY <1>4 DEF Stop
  <2>4. QED
    BY <2>2, <2>3 DEF TypeOK, queue, history
<1>5. CASE Resume
  <2>1. <<State("running")>> \in Seq(Events)
    BY DEF Events
  <2>2. QED
    BY <1>5, <2>1 DEF Resume, TypeOK, queue, subs
<1>6. CASE Tick
  <2>1. cycle' \in 0 .. MaxCycle
    BY <1>6, SubAssumption DEF Tick, TypeOK
  <2>2. QED
    BY <1>6, <2>1 DEF Tick, TypeOK, queue, history, subs
<1>7. CASE Reset
  <2>1. 0 \in 0 .. MaxCycle
    BY SubAssumption
  <2>2. QED
    BY <1>7, <2>1 DEF Reset, TypeOK, queue, history, subs
<1>8. ASSUME NEW s \in Sub, Subscribe(s) PROVE TypeOK'
  <2>1. (cycle - Window[s]) % CycleModulus \in 0 .. CycleModulus - 1
    <3>1. cycle - Window[s] \in Int
      BY SubAssumption DEF TypeOK
    <3>2. QED
      BY <3>1, SinceType
  <2> DEFINE first == (cycle - Window[s]) % CycleModulus
  <2>2. /\ lastEmit' = [lastEmit EXCEPT ![s] = first]
        /\ active' = active \cup {s} /\ s \notin active \cup past
        /\ shown' = [shown EXCEPT ![s] = level[PinOf[s]]]
        /\ UNCHANGED <<cycle, mode, level, past, pending, pendingValue, pendingCycle,
                       todo, queue, stale, driven, offered>>
    BY <1>8 DEF Subscribe
  <2> HIDE DEF first
  <2>3. lastEmit' \in [Sub -> 0 .. CycleModulus - 1]
    BY <2>1, <2>2 DEF TypeOK, first
  <2>4. level[PinOf[s]] \in {0, 1}
    BY SubAssumption DEF TypeOK
  <2>5. shown' \in [Sub -> {0, 1}]
    BY <2>2, <2>4 DEF TypeOK
  <2>6. active' \subseteq Sub /\ past' \subseteq Sub \ active'
    BY <2>2 DEF TypeOK
  <2>7. QED
    BY <2>2, <2>3, <2>5, <2>6 DEF TypeOK, queue
<1>9. ASSUME NEW s \in Sub, Unsubscribe(s) PROVE TypeOK'
  <2>1. active' \subseteq Sub /\ past' \subseteq Sub \ active'
    BY <1>9 DEF Unsubscribe, TypeOK
  <2>2. pending' \in [Sub -> BOOLEAN]
    BY <1>9 DEF Unsubscribe, TypeOK
  <2>3. QED
    BY <1>9, <2>1, <2>2 DEF Unsubscribe, TypeOK, queue, history
<1>10. CASE Push
  BY <1>10, PushType
<1>11. ASSUME NEW max \in PollSizes, Poll(max) PROVE TypeOK'
  BY <1>11, PollType
<1>12. QED
  BY <1>1, <1>2, <1>3, <1>4, <1>5, <1>6, <1>7, <1>8, <1>9, <1>10, <1>11
     DEF Next, Simulates, HostCalls

\* At the start nothing is subscribed and nothing is queued.
LEMMA TypeInit == Init => TypeOK
<1> SUFFICES ASSUME Init PROVE TypeOK
  OBVIOUS
<1>1. /\ QueueSize \in Nat \ {0} /\ PipeSize \in Nat \ {0} /\ Modulus \in Nat \ {0}
      /\ MaxCycle \in Nat /\ CycleModulus \in Nat /\ CycleModulus > 4 * MaxCycle
  BY SubAssumption
<1>2. /\ cycle \in 0 .. MaxCycle /\ mode \in {"running", "stopped"}
      /\ level \in [Pin -> {0, 1}] /\ active \subseteq Sub /\ past \subseteq Sub \ active
  BY <1>1 DEF Init
<1>3. /\ pending \in [Sub -> BOOLEAN] /\ pendingValue \in [Sub -> {0, 1}]
      /\ pendingCycle \in [Sub -> 0 .. MaxCycle]
      /\ lastEmit \in [Sub -> 0 .. CycleModulus - 1]
  <2>1. 0 \in 0 .. MaxCycle /\ 0 \in 0 .. CycleModulus - 1
    BY <1>1
  <2>2. QED
    BY <2>1 DEF Init
<1>4. todo \in Seq(Events)
  BY DEF Init
<1>5. /\ evq \in [0 .. QueueSize - 1 -> Events \cup {None}]
      /\ evHead \in 0 .. QueueSize - 1 /\ evCount \in 0 .. QueueSize
      /\ evDropped \in Nat /\ pipe \in 0 .. PipeSize
  BY <1>1 DEF Init
<1>6. /\ shown \in [Sub -> {0, 1}] /\ stale \in [Sub -> BOOLEAN]
      /\ driven \subseteq Pin /\ offered \in 0 .. Modulus - 1
  BY <1>1 DEF Init
<1>7. QED
  BY <1>2, <1>3, <1>4, <1>5, <1>6 DEF TypeOK

\* The state of the event queue keeps its type for all sizes: the ring never
\* holds more than it has places, nor the pipe.
THEOREM TypesHold == Spec => []TypeOK
BY TypeInit, TypeStep, PTL DEF Spec

(***************************************************************************)
(* The descriptor and the queue                                            *)
(***************************************************************************)

\* The steps that push or poll nothing leave the queue to itself.
LEMMA QueueLeftAlone ==
    ASSUME [Next]_vars, ~Push, \A max \in PollSizes : ~Poll(max)
    PROVE  UNCHANGED <<evq, evHead, evCount, evDropped, pipe, offered>>
<1>1. CASE UNCHANGED vars
  BY <1>1 DEF vars, queue, history
<1>2. ASSUME NEW p \in Pin, NEW v \in {0, 1}, Drive(p, v)
      PROVE  UNCHANGED <<evq, evHead, evCount, evDropped, pipe, offered>>
  BY <1>2 DEF Drive, queue
<1>3. ASSUME NEW s \in Sub, Subscribe(s) \/ Unsubscribe(s)
      PROVE  UNCHANGED <<evq, evHead, evCount, evDropped, pipe, offered>>
  BY <1>3 DEF Subscribe, Unsubscribe, queue, history
<1>4. CASE BatchEnds \/ Stop \/ Resume \/ Tick \/ Reset
  BY <1>4 DEF BatchEnds, Stop, Resume, Tick, Reset, queue, history
<1>5. QED
  BY <1>1, <1>2, <1>3, <1>4 DEF Next, Simulates, HostCalls

\* Only a push makes the descriptor readable, only a poll that leaves nothing
\* behind drains it.
LEMMA ReadableStep ==
    ASSUME TypeOK, ReadableIffPollable, [Next]_vars
    PROVE  ReadableIffPollable'
<1>1. QueueSize \in Nat \ {0} /\ PipeSize \in Nat \ {0}
  BY SubAssumption
<1>2. /\ evCount \in 0 .. QueueSize /\ evDropped \in Nat /\ pipe \in 0 .. PipeSize
      /\ (pipe > 0) <=> (evCount > 0 \/ evDropped > 0)
  BY DEF TypeOK, ReadableIffPollable
<1>3. CASE Push
  <2>1. CASE evCount = QueueSize
    <3>1. evDropped' = evDropped + 1 /\ UNCHANGED <<evCount, pipe>>
      BY <1>3, <2>1 DEF Push
    <3>2. QED
      BY <1>1, <1>2, <2>1, <3>1 DEF ReadableIffPollable
  <2>2. CASE evCount # QueueSize
    <3>1. /\ evCount' = evCount + 1 /\ evDropped' = evDropped
          /\ pipe' = IF evCount = 0 /\ pipe < PipeSize THEN pipe + 1 ELSE pipe
      BY <1>3, <2>2 DEF Push
    <3>2. QED
      BY <1>1, <1>2, <3>1 DEF ReadableIffPollable
  <2>3. QED
    BY <2>1, <2>2
<1>4. ASSUME NEW max \in PollSizes, Poll(max) PROVE ReadableIffPollable'
  <2> DEFINE n == IF evCount < max THEN evCount ELSE max
  <2>1. n \in 0 .. evCount /\ max \in Nat
    BY <1>2, SubAssumption
  <2>2. /\ evCount' = evCount - n
        /\ evDropped' = IF evDropped > 0 /\ n < max THEN 0 ELSE evDropped
        /\ pipe' = IF evCount' = 0 /\ evDropped' = 0 THEN 0 ELSE pipe
    BY <1>4 DEF Poll, Reported, Drained
  <2> HIDE DEF n
  <2>3. QED
    BY <1>1, <1>2, <2>1, <2>2 DEF ReadableIffPollable
<1>5. CASE ~Push /\ \A max \in PollSizes : ~Poll(max)
  BY <1>5, QueueLeftAlone DEF ReadableIffPollable
<1>6. QED
  BY <1>3, <1>4, <1>5

\* The descriptor is readable exactly while a poll would return something,
\* for every size of the queue, of the pipe and of the reader's buffer.
THEOREM DescriptorTellsTheTruth == Spec => []ReadableIffPollable
<1>1. Init => ReadableIffPollable
  BY DEF Init, ReadableIffPollable
<1>2. TypeOK /\ ReadableIffPollable /\ [Next]_vars => ReadableIffPollable'
  BY ReadableStep
<1>3. QED
  BY <1>1, <1>2, TypesHold, PTL DEF Spec

\* A push is a push of the lossy queue.
LEMMA PushIsPush ==
    ASSUME TypeOK, TypeOK', Push
    PROVE  Reader!Push
<1>1. /\ Queued = Ring(evq, evHead, evCount) /\ Len(Queued) = evCount
      /\ Queued' = Ring(evq, evHead, evCount)' /\ Len(Queued') = evCount'
  <2>1. Queued = Ring(evq, evHead, evCount) /\ Len(Queued) = evCount
    BY QueuedType
  <2>2. Queued' = Ring(evq, evHead, evCount)'
    BY DEF Queued, Ring
  <2>3. Len(Ring(evq', evHead', evCount')) = evCount'
    BY RingType DEF TypeOK
  <2>4. Ring(evq, evHead, evCount)' = Ring(evq', evHead', evCount')
    BY DEF Ring
  <2>5. QED
    BY <2>1, <2>2, <2>3, <2>4
<1>2. offered' = (offered + 1) % Modulus
  BY DEF Push
<1>3. CASE evCount = QueueSize
  <2>1. evDropped' = evDropped + 1 /\ UNCHANGED <<evq, evCount, evHead>>
    BY <1>3 DEF Push
  <2>2. Queued' = Queued
    BY <2>1 DEF Queued
  <2>3. QED
    BY <1>1, <1>2, <1>3, <2>1, <2>2 DEF Reader!Push
<1>4. CASE evCount # QueueSize
  <2>1. /\ evq' = [evq EXCEPT ![Slot(evHead, evCount)] = Head(todo)]
        /\ evCount' = evCount + 1 /\ evHead' = evHead /\ evDropped' = evDropped
    BY <1>4 DEF Push, Slot
  <2>2. evCount \in 0 .. QueueSize - 1 /\ evCount < QueueSize
    BY <1>4, SubAssumption DEF TypeOK
  <2>3. Head(todo) \in Events \cup {None}
    BY HeadTailProperties DEF TypeOK, Push
  <2>4. Queued' = Ring([evq EXCEPT ![Slot(evHead, evCount)] = Head(todo)], evHead, evCount + 1)
    BY <1>1, <2>1 DEF Ring
  <2>5. SubSeq(Queued', 1, evCount) = Queued
    <3> DEFINE e == Head(todo)
    <3>1. /\ evq \in [0 .. QueueSize - 1 -> Events \cup {None}] /\ e \in Events \cup {None}
          /\ evHead \in 0 .. QueueSize - 1 /\ evCount \in 0 .. QueueSize - 1
      BY <2>2, <2>3 DEF TypeOK
    <3> HIDE DEF e
    <3>2. SubSeq(Ring([evq EXCEPT ![Slot(evHead, evCount)] = e], evHead, evCount + 1), 1, evCount)
              = Ring(evq, evHead, evCount)
      BY <3>1, RingPush DEF Entry
    <3>3. QED
      BY <1>1, <2>4, <3>2 DEF e
  <2>6. QED
    BY <1>1, <1>2, <2>1, <2>2, <2>5 DEF Reader!Push
<1>5. QED
  BY <1>3, <1>4

\* A poll is a poll of the lossy queue, whatever the size of the buffer: what
\* was lost is reported with the last event or not at all.
LEMMA PollIsPoll ==
    ASSUME TypeOK, NEW max \in PollSizes, Poll(max)
    PROVE  Reader!Poll
<1> DEFINE n == IF evCount < max THEN evCount ELSE max
<1>1. n \in 0 .. evCount /\ max \in Nat \ {0} /\ evCount \in Nat
  BY SubAssumption DEF TypeOK
<1>2. /\ evHead' = Slot(evHead, n) /\ evCount' = evCount - n /\ evq' = evq
      /\ evDropped' = IF evDropped > 0 /\ n < max THEN 0 ELSE evDropped
      /\ offered' = offered
  BY DEF Poll, Slot, Reported
<1>3. n < max => n = evCount
  BY <1>1
<1> HIDE DEF n
<1>4. Queued = Ring(evq, evHead, evCount) /\ Len(Queued) = evCount
      /\ Queued \in Seq(Events \cup {None})
  BY QueuedType
<1>5. Queued' = Ring(evq, Slot(evHead, n), evCount - n)
  BY <1>2 DEF Queued, Ring
<1>6. Queued' = SubSeq(Queued, n + 1, evCount)
  BY <1>1, <1>4, <1>5, RingPoll DEF TypeOK
<1>7. n = evCount => Queued' = << >>
  BY <1>1, <1>6, SubSeqEmpty
<1>8. evDropped' \in {evDropped, 0} /\ (evDropped' # evDropped => Queued' = << >>)
  BY <1>2, <1>3, <1>7
<1>9. n \in 0 .. Len(Queued) /\ Queued' = SubSeq(Queued, n + 1, Len(Queued))
  BY <1>1, <1>4, <1>6
<1>10. QED
  BY <1>2, <1>8, <1>9 DEF Reader!Poll

\* The event queue implements the lossy first-in first-out queue: the reader
\* gets the events in the order of their pushes, none twice, and every one
\* that is missing is counted in a report that comes after all that were kept.
THEOREM QueueIsLossyQueue == Spec => ImplementsLossyQueue
<1>1. Init => Reader!Init
  <2> SUFFICES ASSUME Init PROVE Queued = << >> /\ evDropped = 0 /\ offered = 0
    BY DEF Reader!Init
  <2>1. evCount = 0 /\ evDropped = 0 /\ offered = 0
    BY DEF Init
  <2>2. TypeOK
    BY TypeInit
  <2>3. Queued \in Seq(Events \cup {None}) /\ Len(Queued) = 0
    BY <2>1, <2>2, QueuedType
  <2>4. QED
    BY <2>1, <2>3, EmptySeq
<1>2. ASSUME TypeOK, TypeOK', [Next]_vars
      PROVE  [Reader!Next]_Reader!vars
  <2>1. CASE Push
    BY <1>2, <2>1, PushIsPush DEF Reader!Next
  <2>2. ASSUME NEW max \in PollSizes, Poll(max) PROVE Reader!Next
    BY <1>2, <2>2, PollIsPoll DEF Reader!Next
  <2>3. CASE ~Push /\ \A max \in PollSizes : ~Poll(max)
    <3>1. UNCHANGED <<evq, evHead, evCount, evDropped, offered>>
      BY <1>2, <2>3, QueueLeftAlone
    <3>2. Queued' = Queued
      BY <3>1 DEF Queued
    <3>3. QED
      BY <3>1, <3>2 DEF Reader!vars
  <2>4. QED
    BY <2>1, <2>2, <2>3
<1>3. QED
  BY <1>1, <1>2, TypesHold, PTL DEF Spec, ImplementsLossyQueue, Reader!Spec

(***************************************************************************)
(* The last value of a subscription                                        *)
(***************************************************************************)

Within(s, q) == \E i \in 1 .. Len(q) : q[i].sub = s

IsLast(k, s, q) ==
    /\ k \in 1 .. Len(q) /\ q[k].sub = s
    /\ \A j \in 1 .. Len(q) : q[j].sub = s => j <= k

\* The value of the last event of s.
LEMMA LastIs ==
    ASSUME NEW q, Len(q) \in Nat, NEW s, NEW v, NEW k, IsLast(k, s, q)
    PROVE  LastOf(s, q, v) = q[k].value
<1> DEFINE I == {i \in 1 .. Len(q) : q[i].sub = s}
           last == CHOOSE i \in I : \A j \in I : j <= i
<1>1. k \in I /\ \A j \in I : j <= k
  BY DEF IsLast
<1>2. last \in I /\ \A j \in I : j <= last
  <2> HIDE DEF I
  <2>1. QED
    BY <1>1, Zenon
<1>3. last = k
  <2> HIDE DEF last
  <2>1. last <= k /\ k <= last /\ last \in Nat /\ k \in Nat
    BY <1>1, <1>2
  <2>2. QED
    BY <2>1
<1>4. LastOf(s, q, v) = q[last].value
  BY <1>1 DEF LastOf
<1>5. QED
  BY <1>3, <1>4

\* A subscription with an event has a last one.
LEMMA LastExists ==
    ASSUME NEW q, Len(q) \in Nat, NEW s, Within(s, q)
    PROVE  \E k : IsLast(k, s, q)
<1> DEFINE I == {i \in 1 .. Len(q) : q[i].sub = s}
<1>1. I \in SUBSET (1 .. Len(q)) /\ I # {}
  BY DEF Within
<1>2. PICK k \in I : \A j \in I : j <= k
  <2> HIDE DEF I
  <2>1. QED
    BY <1>1, LastPlace
<1>3. QED
  BY <1>2 DEF IsLast

\* Without an event of s the value is the one from before.
LEMMA LastOfNone ==
    ASSUME NEW q, NEW s, NEW v, ~Within(s, q)
    PROVE  LastOf(s, q, v) = v
BY DEF Within, LastOf

\* With one, the value from before does not matter.
LEMMA LastOfSome ==
    ASSUME NEW q, Len(q) \in Nat, NEW s, NEW v, NEW w, Within(s, q)
    PROVE  LastOf(s, q, v) = LastOf(s, q, w)
<1>1. PICK k : IsLast(k, s, q)
  BY LastExists
<1>2. LastOf(s, q, v) = q[k].value /\ LastOf(s, q, w) = q[k].value
  BY <1>1, LastIs
<1>3. QED
  BY <1>2

\* Reading on: what was last in the first part is what the second starts from.
LEMMA LastConcat ==
    ASSUME NEW E, NEW q \in Seq(E), NEW r \in Seq(E), NEW s, NEW v
    PROVE  /\ LastOf(s, q \o r, v) = LastOf(s, r, LastOf(s, q, v))
           /\ Within(s, q \o r) <=> Within(s, q) \/ Within(s, r)
<1> DEFINE t == q \o r
<1>1. /\ t \in Seq(E) /\ Len(t) = Len(q) + Len(r)
      /\ \A i \in 1 .. Len(q) + Len(r) : t[i] = IF i <= Len(q) THEN q[i] ELSE r[i - Len(q)]
      /\ Len(q) \in Nat /\ Len(r) \in Nat
  BY ConcatProperties, LenProperties
<1> HIDE DEF t
<1>2. \A i \in 1 .. Len(q) : i \in 1 .. Len(t) /\ t[i] = q[i]
  BY <1>1
<1>3. \A i \in 1 .. Len(r) : Len(q) + i \in 1 .. Len(t) /\ t[Len(q) + i] = r[i]
  <2>1. TAKE i \in 1 .. Len(r)
  <2>2. Len(q) + i \in 1 .. Len(q) + Len(r) /\ ~(Len(q) + i <= Len(q)) /\ Len(q) + i - Len(q) = i
    BY <1>1
  <2>3. QED
    BY <2>2, <1>1
<1>4. \A i \in 1 .. Len(t) : \/ i \in 1 .. Len(q) /\ t[i] = q[i]
                             \/ i - Len(q) \in 1 .. Len(r) /\ t[i] = r[i - Len(q)] /\ i > Len(q)
  BY <1>1
<1>5. Within(s, t) <=> Within(s, q) \/ Within(s, r)
  <2>1. ASSUME NEW i \in 1 .. Len(q), q[i].sub = s PROVE Within(s, t)
    BY <1>2, <2>1 DEF Within
  <2>2. ASSUME NEW i \in 1 .. Len(r), r[i].sub = s PROVE Within(s, t)
    BY <1>3, <2>2 DEF Within
  <2>3. ASSUME NEW i \in 1 .. Len(t), t[i].sub = s PROVE Within(s, q) \/ Within(s, r)
    BY <1>4, <2>3 DEF Within
  <2>4. QED
    BY <2>1, <2>2, <2>3 DEF Within
<1>6. CASE Within(s, r)
  <2>1. PICK k : IsLast(k, s, r)
    BY <1>1, <1>6, LastExists
  <2>2. k \in 1 .. Len(r) /\ r[k].sub = s /\ \A j \in 1 .. Len(r) : r[j].sub = s => j <= k
    BY <2>1 DEF IsLast
  <2>3. Len(q) + k \in 1 .. Len(t) /\ t[Len(q) + k] = r[k]
    BY <1>3, <2>2
  <2>4. ASSUME NEW j \in 1 .. Len(t), t[j].sub = s PROVE j <= Len(q) + k
    <3>1. CASE j \in 1 .. Len(q)
      BY <1>1, <2>2, <3>1
    <3>2. CASE j - Len(q) \in 1 .. Len(r) /\ t[j] = r[j - Len(q)]
      <4>1. j - Len(q) <= k
        BY <2>2, <2>4, <3>2
      <4>2. QED
        BY <1>1, <2>2, <4>1
    <3>3. QED
      BY <1>4, <3>1, <3>2
  <2>5. IsLast(Len(q) + k, s, t)
    BY <2>2, <2>3, <2>4 DEF IsLast
  <2>6. LastOf(s, t, v) = r[k].value
    BY <1>1, <2>3, <2>5, LastIs
  <2>7. LastOf(s, r, LastOf(s, q, v)) = r[k].value
    BY <1>1, <2>1, LastIs
  <2>8. QED
    BY <1>5, <2>6, <2>7 DEF t
<1>7. CASE ~Within(s, r) /\ Within(s, q)
  <2>1. PICK k : IsLast(k, s, q)
    BY <1>1, <1>7, LastExists
  <2>2. k \in 1 .. Len(q) /\ q[k].sub = s /\ \A j \in 1 .. Len(q) : q[j].sub = s => j <= k
    BY <2>1 DEF IsLast
  <2>3. k \in 1 .. Len(t) /\ t[k] = q[k]
    BY <1>2, <2>2
  <2>4. ASSUME NEW j \in 1 .. Len(t), t[j].sub = s PROVE j <= k
    BY <1>4, <1>7, <2>2, <2>4 DEF Within
  <2>5. IsLast(k, s, t)
    BY <2>2, <2>3, <2>4 DEF IsLast
  <2>6. LastOf(s, t, v) = q[k].value
    BY <1>1, <2>3, <2>5, LastIs
  <2>7. LastOf(s, q, v) = q[k].value
    BY <1>1, <2>1, LastIs
  <2>8. LastOf(s, r, LastOf(s, q, v)) = LastOf(s, q, v)
    BY <1>7, LastOfNone
  <2>9. QED
    BY <1>5, <2>6, <2>7, <2>8 DEF t
<1>8. CASE ~Within(s, r) /\ ~Within(s, q)
  <2>1. LastOf(s, t, v) = v
    BY <1>5, <1>8, LastOfNone
  <2>2. LastOf(s, r, LastOf(s, q, v)) = LastOf(s, q, v)
    BY <1>8, LastOfNone
  <2>3. LastOf(s, q, v) = v
    BY <1>8, LastOfNone
  <2>4. QED
    BY <1>5, <2>1, <2>2, <2>3 DEF t
<1>9. QED
  BY <1>6, <1>7, <1>8

\* Every subscription of a set has a place in its order.
LEMMA OrderedCovers ==
    ASSUME NEW S \in SUBSET Sub, NEW s \in S
    PROVE  \E i \in 1 .. Len(Ordered(S)) : Ordered(S)[i] = s
<1> DEFINE n == Cardinality(S)
           q == Ordered(S)
<1>1. IsFiniteSet(S)
  BY SubAssumption, FS_Subset
<1>2. n \in Nat /\ \E f \in [1 .. n -> S] : IsInjective(f)
  BY <1>1, FS_CardinalityType DEF ExistsBijection, Bijection, Injection
<1>3. q \in [1 .. n -> S] /\ IsInjective(q)
  BY <1>2, Zenon DEF Ordered, SetToSeq
<1>4. q \in Seq(S) /\ Len(q) = n
  <2> HIDE DEF q, n
  <2>1. QED
    BY <1>2, <1>3
<1> HIDE DEF q, n
<1>5. q \in Injection(1 .. n, S)
  BY <1>3 DEF Injection
<1>6. IsFiniteSet(1 .. n) /\ Cardinality(1 .. n) = n
  BY <1>2, UpTo
<1>7. q \in Surjection(1 .. n, S)
  BY <1>1, <1>5, <1>6, FS_Injection DEF n
<1>8. \E i \in 1 .. n : q[i] = s
  BY <1>7 DEF Surjection
<1>9. QED
  BY <1>4, <1>8 DEF q

\* The events of a set of subscriptions: each has its own value, and no other
\* has any.
LEMMA EventsTell ==
    ASSUME NEW S \in SUBSET Sub, NEW value \in [Sub -> {0, 1}]
    PROVE  LET es == [i \in 1 .. Len(Ordered(S)) |->
                         PinEvent(Ordered(S)[i], value[Ordered(S)[i]])]
           IN  /\ es \in Seq(Events)
               /\ \A s \in S : \A v : LastOf(s, es, v) = value[s]
               /\ \A s \in Sub : Within(s, es) <=> s \in S
<1> DEFINE q == Ordered(S)
           es == [i \in 1 .. Len(q) |-> PinEvent(q[i], value[q[i]])]
<1>1. es \in Seq(Events)
  BY EventsType
<1>2. q \in Seq(S) /\ \A s \in S : \E i \in 1 .. Len(q) : q[i] = s
  BY OrderedType, OrderedCovers
<1> HIDE DEF q
<1>3. Len(q) \in Nat /\ \A i \in 1 .. Len(q) : q[i] \in S
  BY <1>2, LenProperties, ElementOfSeq
<1>4. /\ Len(es) = Len(q)
      /\ \A i \in 1 .. Len(q) : es[i].sub = q[i] /\ es[i].value = value[q[i]]
  BY <1>3 DEF PinEvent
<1> HIDE DEF es
<1>5. \A s \in Sub : Within(s, es) <=> s \in S
  BY <1>2, <1>3, <1>4 DEF Within
<1>6. ASSUME NEW s \in S, NEW v PROVE LastOf(s, es, v) = value[s]
  <2>1. PICK k : IsLast(k, s, es)
    BY <1>3, <1>4, <1>5, LastExists
  <2>2. LastOf(s, es, v) = es[k].value
    BY <1>3, <1>4, <2>1, LastIs
  <2>3. k \in 1 .. Len(q) /\ es[k].sub = s
    BY <2>1, <1>4 DEF IsLast
  <2>4. QED
    BY <2>2, <2>3, <1>4
<1>7. QED
  BY <1>1, <1>5, <1>6 DEF es, q

\* What the reader will know of s when all that is queued has been read.
Read(s) == LastOf(s, todo, LastOf(s, Queued, shown[s]))

\* A subscription in force: the value kept for later is the level; without one
\* the last event says it, unless it was dropped and none has followed.
Known(s) ==
    IF pending[s] THEN pendingValue[s] = level[PinOf[s]]
    ELSE Read(s) = level[PinOf[s]] \/ (stale[s] /\ ~Within(s, todo))

\* One that has not been made: no event and no value of it is around.
Unheard(s) == ~pending[s] /\ ~Within(s, Queued) /\ ~Within(s, todo)

Informed ==
    /\ \A s \in active : Known(s)
    /\ \A s \in Sub \ (active \cup past) : Unheard(s)
    /\ \A s \in Sub \ active : ~pending[s]

\* No step but a push or a poll touches what is queued and known.
LEMMA QueuedSame ==
    ASSUME UNCHANGED <<evq, evHead, evCount>>
    PROVE  Queued' = Queued
BY DEF Queued

\* A pin is driven: its subscriptions keep the value or push it.
LEMMA DriveInforms ==
    ASSUME TypeOK, Informed, NEW p \in Pin, NEW v \in {0, 1}, Drive(p, v)
    PROVE  Informed'
<1> DEFINE S == {s \in active : PinOf[s] = p}
           K == {s \in S : Coalesced(s)}
           value == [s \in Sub |-> v]
           q == Ordered(S \ K)
           es == [i \in 1 .. Len(q) |-> PinEvent(q[i], value[q[i]])]
<1>1. /\ S \ K \in SUBSET Sub /\ K \subseteq S /\ S \subseteq active /\ active \subseteq Sub
  BY DEF TypeOK
<1>2. value \in [Sub -> {0, 1}]
  OBVIOUS
<1>3. /\ pending' = [s \in Sub |-> s \in K \/ (s \notin S /\ pending[s])]
      /\ pendingValue' = [s \in Sub |-> IF s \in K THEN v ELSE pendingValue[s]]
      /\ todo' = [i \in 1 .. Len(q) |-> PinEvent(q[i], v)]
      /\ level' = [level EXCEPT ![p] = v]
      /\ todo = << >>
      /\ UNCHANGED <<active, past, evq, evHead, evCount, shown, stale>>
  BY DEF Drive, Notify, Idle, queue
<1>4. todo' = es
  <2>1. q \in Seq(S \ K)
    BY <1>1, OrderedType
  <2> HIDE DEF q, S, K
  <2>2. \A i \in 1 .. Len(q) : q[i] \in Sub
    BY <1>1, <2>1, ElementOfSeq
  <2>3. \A i \in 1 .. Len(q) : value[q[i]] = v
    BY <2>2
  <2>4. QED
    BY <1>3, <2>3
<1>5. \A s \in S : PinOf[s] = p
  OBVIOUS
<1>6. \A s \in active \ S : PinOf[s] # p
  OBVIOUS
<1> HIDE DEF S, K
<1>7. /\ \A s \in S \ K : \A w : LastOf(s, es, w) = value[s]
      /\ \A s \in Sub : Within(s, es) <=> s \in S \ K
  BY <1>1, <1>2, EventsTell
<1>8. \A s \in S : value[s] = v
  BY <1>1
<1> HIDE DEF es, q, value
<1>9. Queued' = Queued
  BY <1>3, QueuedSame
<1>10. ASSUME NEW s \in active PROVE Known(s)'
  <2>1. s \in Sub /\ PinOf[s] \in Pin /\ level \in [Pin -> {0, 1}]
    BY <1>1, SubAssumption DEF TypeOK
  <2>2. CASE s \in K
    <3>1. pending'[s] /\ pendingValue'[s] = v
      BY <1>3, <2>1, <2>2
    <3>2. level'[PinOf[s]] = v
      BY <1>1, <1>3, <1>5, <2>1, <2>2
    <3>3. QED
      BY <3>1, <3>2 DEF Known
  <2>3. CASE s \in S \ K
    <3>1. ~pending'[s]
      BY <1>3, <2>1, <2>3
    <3>2. level'[PinOf[s]] = v
      BY <1>3, <1>5, <2>1, <2>3
    <3>3. Read(s)' = v
      BY <1>4, <1>7, <1>8, <2>3 DEF Read
    <3>4. QED
      BY <3>1, <3>2, <3>3 DEF Known
  <2>4. CASE s \notin S
    <3>1. level'[PinOf[s]] = level[PinOf[s]]
      BY <1>3, <1>6, <2>1, <2>4
    <3>2. pending'[s] = pending[s] /\ pendingValue'[s] = pendingValue[s]
      BY <1>1, <1>3, <2>1, <2>4 DEF TypeOK
    <3>3. ~Within(s, todo) /\ ~Within(s, todo')
      <4>1. ~Within(s, << >>)
        BY DEF Within
      <4>2. QED
        BY <4>1, <1>3, <1>4, <1>7, <2>1, <2>4
    <3>4. Read(s)' = Read(s)
      BY <3>3, <1>3, <1>9, LastOfNone DEF Read
    <3>5. Known(s)
      BY DEF Informed
    <3>6. QED
      BY <3>1, <3>2, <3>3, <3>4, <3>5, <1>3 DEF Known
  <2>5. QED
    BY <1>1, <2>2, <2>3, <2>4
<1>11. ASSUME NEW s \in Sub \ active PROVE ~pending'[s] /\ ~Within(s, todo')
  BY <1>1, <1>3, <1>4, <1>7, <1>11 DEF Informed
<1>12. QED
  BY <1>3, <1>9, <1>10, <1>11 DEF Informed, Unheard

\* A flush: the kept values become events.
LEMMA FlushInforms ==
    ASSUME TypeOK, Informed, NEW force \in BOOLEAN, NEW then \in Seq(Events),
           \A s \in Sub : ~Within(s, then),
           Idle, Flush(force, then), UNCHANGED <<level, evq, evHead, evCount, shown, stale>>
    PROVE  Informed'
<1> DEFINE S == {s \in active : pending[s] /\ (force \/ Since(lastEmit[s]) >= Window[s])}
           q == Ordered(S)
           es == [i \in 1 .. Len(q) |-> PinEvent(q[i], pendingValue[q[i]])]
<1>1. S \in SUBSET Sub /\ S \subseteq active /\ active \subseteq Sub /\ \A s \in S : pending[s]
  BY DEF TypeOK
<1> HIDE DEF S
<1>2. /\ pending' = [s \in Sub |-> pending[s] /\ s \notin S]
      /\ todo' = es \o then
      /\ UNCHANGED <<active, past, pendingValue>>
  BY DEF Flush, S
<1>3. /\ es \in Seq(Events)
      /\ \A s \in S : \A v : LastOf(s, es, v) = pendingValue[s]
      /\ \A s \in Sub : Within(s, es) <=> s \in S
  <2>1. pendingValue \in [Sub -> {0, 1}]
    BY DEF TypeOK
  <2>2. QED
    BY <1>1, <2>1, EventsTell
<1> HIDE DEF es, q
<1>4. Queued' = Queued /\ todo = << >>
  BY QueuedSame DEF Idle
<1>5. ASSUME NEW s \in Sub
      PROVE  /\ Within(s, todo') <=> s \in S
             /\ \A v : LastOf(s, todo', v) = LastOf(s, es, v)
  <2>1. /\ Within(s, es \o then) <=> Within(s, es) \/ Within(s, then)
        /\ \A v : LastOf(s, es \o then, v) = LastOf(s, then, LastOf(s, es, v))
    BY <1>3, LastConcat
  <2>2. \A v : LastOf(s, then, v) = v
    BY LastOfNone
  <2>3. QED
    BY <1>2, <1>3, <2>1, <2>2
<1>6. ASSUME NEW s \in active PROVE Known(s)'
  <2>1. s \in Sub /\ Known(s)
    BY <1>1 DEF Informed
  <2>2. CASE s \in S
    <3>1. ~pending'[s] /\ Read(s)' = pendingValue[s]
      <4>1. ~pending'[s]
        BY <1>2, <2>1, <2>2
      <4>2. LastOf(s, todo', LastOf(s, Queued', shown'[s])) = pendingValue[s]
        BY <1>3, <1>5, <2>1, <2>2
      <4>3. Read(s)' = LastOf(s, todo', LastOf(s, Queued', shown'[s]))
        BY DEF Read
      <4>4. QED
        BY <4>1, <4>2, <4>3
    <3>2. pendingValue[s] = level[PinOf[s]]
      BY <1>1, <2>1, <2>2 DEF Known
    <3>3. QED
      BY <3>1, <3>2 DEF Known
  <2>3. CASE s \notin S
    <3>1. pending'[s] = pending[s]
      BY <1>2, <2>1, <2>3 DEF TypeOK
    <3>2. ~Within(s, todo') /\ ~Within(s, es) /\ ~Within(s, todo)
      BY <1>3, <1>4, <1>5, <2>1, <2>3 DEF Within
    <3>3. Read(s)' = Read(s)
      BY <3>2, <1>4, LastOfNone DEF Read
    <3>4. QED
      BY <3>1, <3>2, <3>3, <1>2, <2>1 DEF Known
  <2>4. QED
    BY <2>2, <2>3
<1>7. ASSUME NEW s \in Sub \ active PROVE ~pending'[s] /\ ~Within(s, todo')
  BY <1>1, <1>2, <1>5, <1>7 DEF Informed
<1>8. QED
  BY <1>2, <1>4, <1>6, <1>7 DEF Informed, Unheard

\* A sequence of one event.
LEMMA LastOfOne ==
    ASSUME NEW e, NEW s, NEW v
    PROVE  /\ Within(s, <<e>>) <=> e.sub = s
           /\ e.sub = s => LastOf(s, <<e>>, v) = e.value
<1>1. Len(<<e>>) = 1 /\ <<e>>[1] = e /\ 1 .. 1 = {1}
  OBVIOUS
<1>2. Within(s, <<e>>) <=> e.sub = s
  BY <1>1 DEF Within
<1>3. ASSUME e.sub = s PROVE LastOf(s, <<e>>, v) = e.value
  <2>1. IsLast(1, s, <<e>>)
    BY <1>1, <1>3 DEF IsLast
  <2>2. QED
    BY <1>1, <2>1, LastIs
<1>4. QED
  BY <1>2, <1>3

\* What is written to a queue with room stands behind all it holds.
LEMMA QueuedGrows ==
    ASSUME TypeOK, Push, evCount # QueueSize
    PROVE  Queued' = Queued \o <<Head(todo)>>
<1> DEFINE e == Head(todo)
<1>1. /\ evq \in [0 .. QueueSize - 1 -> Events \cup {None}] /\ e \in Events \cup {None}
      /\ evHead \in 0 .. QueueSize - 1 /\ evCount \in 0 .. QueueSize - 1
  BY SubAssumption, HeadTailProperties DEF TypeOK, Push
<1>2. /\ evq' = [evq EXCEPT ![Slot(evHead, evCount)] = e]
      /\ evCount' = evCount + 1 /\ evHead' = evHead
  BY DEF Push, Slot
<1> HIDE DEF e
<1>3. Ring([evq EXCEPT ![Slot(evHead, evCount)] = e], evHead, evCount + 1)
          = Ring(evq, evHead, evCount) \o <<e>>
  BY <1>1, RingPush DEF Entry
<1>4. /\ Queued = Ring(evq, evHead, evCount)
      /\ Queued' = Ring([evq EXCEPT ![Slot(evHead, evCount)] = e], evHead, evCount + 1)
  BY <1>2 DEF Queued, Ring
<1>5. QED
  BY <1>3, <1>4 DEF e

\* A push moves the first event from what is to be pushed to what is queued,
\* or drops it and says so.
LEMMA PushInforms ==
    ASSUME TypeOK, Informed, Push
    PROVE  Informed'
<1> DEFINE E == Events \cup {None}
           e == Head(todo)
           rest == Tail(todo)
<1>1. /\ UNCHANGED <<active, past, pending, pendingValue, level, shown>>
      /\ todo # << >> /\ todo' = rest
      /\ stale' = [s \in Sub |-> IF s = e.sub THEN evCount = QueueSize ELSE stale[s]]
  BY DEF Push, subs
<1>2. e \in E /\ rest \in Seq(E) /\ todo = <<e>> \o rest /\ <<e>> \in Seq(E)
  <2>1. todo \in Seq(E)
    BY DEF TypeOK
  <2>2. e \in E /\ rest \in Seq(E)
    BY <1>1, <2>1, HeadTailProperties
  <2>3. todo = <<e>> \o rest
    BY <1>1, <2>1
  <2>4. QED
    BY <2>2, <2>3
<1>3. Queued \in Seq(E)
  BY QueuedType
<1> HIDE DEF e, rest, E
<1>4. ASSUME NEW s
      PROVE  /\ Within(s, todo) <=> e.sub = s \/ Within(s, rest)
             /\ \A v : LastOf(s, todo, v) = LastOf(s, rest, LastOf(s, <<e>>, v))
  <2> DEFINE r == <<e>>
  <2>1. r \in Seq(E) /\ rest \in Seq(E) /\ todo = r \o rest
    BY <1>2
  <2>2. Within(s, r) <=> e.sub = s
    BY LastOfOne
  <2> HIDE DEF r
  <2>3. Within(s, r \o rest) <=> Within(s, r) \/ Within(s, rest)
    BY <2>1, LastConcat
  <2>4. \A v : LastOf(s, r \o rest, v) = LastOf(s, rest, LastOf(s, r, v))
    BY <2>1, LastConcat
  <2>5. QED
    BY <2>1, <2>2, <2>3, <2>4 DEF r
<1>5. ASSUME evCount # QueueSize, NEW s
      PROVE  /\ Within(s, Queued') <=> Within(s, Queued) \/ e.sub = s
             /\ \A v : LastOf(s, Queued', v) = LastOf(s, <<e>>, LastOf(s, Queued, v))
  <2>1. Queued' = Queued \o <<e>>
    BY <1>5, QueuedGrows DEF e
  <2> DEFINE r == <<e>>
             q == Queued
  <2>2. r \in Seq(E) /\ q \in Seq(E) /\ Queued' = q \o r
    BY <1>2, <1>3, <2>1
  <2>3. Within(s, r) <=> e.sub = s
    BY LastOfOne
  <2> HIDE DEF r, q
  <2>4. Within(s, q \o r) <=> Within(s, q) \/ Within(s, r)
    BY <2>2, LastConcat
  <2>5. \A v : LastOf(s, q \o r, v) = LastOf(s, r, LastOf(s, q, v))
    BY <2>2, LastConcat
  <2>6. QED
    BY <2>2, <2>3, <2>4, <2>5 DEF r, q
<1>6. ASSUME evCount = QueueSize PROVE Queued' = Queued
  <2>1. UNCHANGED <<evq, evHead, evCount>>
    BY <1>6 DEF Push
  <2>2. QED
    BY <2>1, QueuedSame
<1>7. active \subseteq Sub
  BY DEF TypeOK
<1>8. ASSUME NEW s \in active PROVE Known(s)'
  <2>1. s \in Sub /\ Known(s)
    BY <1>7 DEF Informed
  <2>2. CASE pending[s]
    BY <1>1, <2>1, <2>2 DEF Known
  <2>3. CASE ~pending[s] /\ evCount # QueueSize
    <3>1. Read(s)' = Read(s)
      BY <1>1, <1>4, <1>5, <2>3 DEF Read
    <3>2. s # e.sub => stale'[s] = stale[s]
      BY <1>1, <2>1
    <3>3. stale[s] /\ ~Within(s, todo) => stale'[s] /\ ~Within(s, rest)
      BY <1>4, <3>2
    <3>4. QED
      BY <1>1, <2>1, <2>3, <3>1, <3>3 DEF Known
  <2>4. CASE ~pending[s] /\ evCount = QueueSize
    <3>1. CASE e.sub = s /\ ~Within(s, rest)
      <4>1. stale'[s] /\ ~Within(s, todo')
        BY <1>1, <2>1, <2>4, <3>1
      <4>2. QED
        BY <1>1, <2>4, <4>1 DEF Known
    <3>2. CASE e.sub = s /\ Within(s, rest)
      <4>1. Read(s) = level[PinOf[s]]
        BY <1>4, <2>1, <2>4, <3>2 DEF Known
      <4>2. Len(rest) \in Nat
        BY <1>2, LenProperties
      <4>3. \A v, w : LastOf(s, rest, v) = LastOf(s, rest, w)
        BY <3>2, <4>2, LastOfSome
      <4>4. Read(s) = LastOf(s, rest, LastOf(s, <<e>>, LastOf(s, Queued, shown[s])))
        BY <1>4 DEF Read
      <4>5. Read(s)' = LastOf(s, rest, LastOf(s, Queued, shown[s]))
        BY <1>1, <1>6, <2>4 DEF Read
      <4>6. QED
        BY <1>1, <2>4, <4>1, <4>3, <4>4, <4>5 DEF Known
    <3>3. CASE e.sub # s
      <4>1. \A v : LastOf(s, <<e>>, v) = v
        BY <3>3, LastOfOne, LastOfNone
      <4>2. Read(s)' = Read(s)
        BY <1>1, <1>4, <1>6, <2>4, <4>1 DEF Read
      <4>3. stale'[s] = stale[s] /\ (Within(s, todo) <=> Within(s, todo'))
        BY <1>1, <1>4, <2>1, <3>3 DEF TypeOK
      <4>4. QED
        BY <1>1, <2>1, <2>4, <4>2, <4>3 DEF Known
    <3>4. QED
      BY <3>1, <3>2, <3>3
  <2>5. QED
    BY <2>2, <2>3, <2>4
<1>9. ASSUME NEW s \in Sub \ (active \cup past) PROVE Unheard(s)'
  <2>1. ~pending[s] /\ ~Within(s, Queued) /\ ~Within(s, todo)
    BY DEF Informed, Unheard
  <2>2. ~Within(s, rest) /\ e.sub # s
    BY <1>4, <2>1
  <2>3. ~Within(s, Queued')
    BY <1>5, <1>6, <2>1, <2>2
  <2>4. QED
    BY <1>1, <2>1, <2>2, <2>3 DEF Unheard
<1>10. QED
  BY <1>1, <1>8, <1>9 DEF Informed

\* A poll moves the first events from the queue to what the reader knows.
LEMMA PollInforms ==
    ASSUME TypeOK, Informed, NEW max \in PollSizes, Poll(max)
    PROVE  Informed'
<1> DEFINE E == Events \cup {None}
           n == IF evCount < max THEN evCount ELSE max
           taken == SubSeq(Queued, 1, n)
<1>1. n \in 0 .. evCount /\ evCount \in Nat /\ n \in Nat
  BY SubAssumption DEF TypeOK
<1>2. /\ evHead' = Slot(evHead, n) /\ evCount' = evCount - n
      /\ shown' = [s \in Sub |-> LastOf(s, taken, shown[s])]
      /\ UNCHANGED <<active, past, pending, pendingValue, level, todo, stale, evq>>
  BY DEF Poll, Slot, subs
<1> HIDE DEF n
<1>3. Queued = Ring(evq, evHead, evCount) /\ Len(Queued) = evCount /\ Queued \in Seq(E)
  BY QueuedType
<1>4. Queued' = SubSeq(Queued, n + 1, evCount)
  <2>1. Queued' = Ring(evq, Slot(evHead, n), evCount - n)
    BY <1>2 DEF Queued, Ring
  <2>2. QED
    BY <1>1, <1>3, <2>1, RingPoll DEF TypeOK
<1> HIDE DEF E
<1>5. Queued = taken \o Queued'
  <2>1. Queued = SubSeq(Queued, 1, evCount)
    BY <1>3, SubSeqFull
  <2> DEFINE q == Queued
  <2>2. q \in Seq(E) /\ Len(q) = evCount
    BY <1>3
  <2> HIDE DEF q
  <2>3. SubSeq(q, 1, n) \o SubSeq(q, n + 1, evCount) = SubSeq(q, 1, evCount)
    <3>1. /\ 1 \in 1 .. Len(q) + 1 /\ n \in 1 - 1 .. Len(q)
          /\ evCount \in n .. Len(q)
      BY <1>1, <2>2
    <3>2. QED
      BY <2>2, <3>1, ConcatAdjacentSubSeq
  <2>4. QED
    BY <1>4, <2>1, <2>3 DEF q
<1>6. taken \in Seq(E) /\ Queued' \in Seq(E)
  <2>1. \A i \in 1 .. evCount : Queued[i] \in E
    BY <1>3, ElementOfSeq
  <2>2. \A i \in 1 .. n : Queued[i] \in E
    BY <1>1, <2>1
  <2>3. \A i \in n + 1 .. evCount : Queued[i] \in E
    BY <1>1, <2>1
  <2>4. taken \in Seq(E)
    BY <1>1, <2>2, SubSeqProperties
  <2>5. SubSeq(Queued, n + 1, evCount) \in Seq(E)
    BY <1>1, <2>3, SubSeqProperties
  <2>6. QED
    BY <1>4, <2>4, <2>5
<1> HIDE DEF taken
<1>7. ASSUME NEW s
      PROVE  /\ Within(s, Queued) <=> Within(s, taken) \/ Within(s, Queued')
             /\ \A v : LastOf(s, Queued, v) = LastOf(s, Queued', LastOf(s, taken, v))
  BY <1>5, <1>6, LastConcat
<1>8. active \subseteq Sub
  BY DEF TypeOK
<1>9. ASSUME NEW s \in active PROVE Known(s)'
  <2>1. s \in Sub /\ Known(s)
    BY <1>8 DEF Informed
  <2>2. shown'[s] = LastOf(s, taken, shown[s])
    BY <1>2, <2>1
  <2>3. Read(s)' = Read(s)
    BY <1>2, <1>7, <2>2 DEF Read
  <2>4. QED
    BY <1>2, <2>1, <2>3 DEF Known
<1>10. ASSUME NEW s \in Sub \ (active \cup past) PROVE Unheard(s)'
  BY <1>2, <1>7 DEF Informed, Unheard
<1>11. QED
  BY <1>2, <1>9, <1>10 DEF Informed

\* No event of a mode is one of a subscription.
LEMMA StateIsNoPin ==
    ASSUME NEW s \in Sub, NEW m
    PROVE  ~Within(s, <<State(m)>>)
BY SubAssumption, LastOfOne DEF State

\* A flush at a stop or at the end of a batch.
LEMMA StopInforms ==
    ASSUME TypeOK, Informed, BatchEnds \/ Stop
    PROVE  Informed'
<1>1. Idle /\ UNCHANGED <<level, evq, evHead, evCount, shown, stale>>
  BY DEF BatchEnds, Stop, queue, history
<1>2. CASE BatchEnds
  <2> DEFINE none == << >>
  <2>1. none \in Seq(Events) /\ \A s \in Sub : ~Within(s, none)
    BY DEF Within
  <2>2. Flush(FALSE, none)
    BY <1>2 DEF BatchEnds
  <2> HIDE DEF none
  <2>3. QED
    BY <1>1, <2>1, <2>2, FlushInforms
<1>3. CASE Stop
  <2> DEFINE then == <<State("stopped")>>
  <2>1. \A s \in Sub : ~Within(s, then)
    BY StateIsNoPin
  <2>2. State("stopped") \in Events
    BY DEF Events
  <2>3. then \in Seq(Events)
    BY <2>2
  <2>4. Flush(TRUE, then)
    BY <1>3 DEF Stop
  <2> HIDE DEF then
  <2>5. QED
    BY <1>1, <2>1, <2>3, <2>4, FlushInforms
<1>4. QED
  BY <1>2, <1>3

\* A resumption pushes the new mode and nothing of a pin.
LEMMA ResumeInforms ==
    ASSUME TypeOK, Informed, Resume
    PROVE  Informed'
<1>1. /\ todo = << >> /\ todo' = <<State("running")>>
      /\ UNCHANGED <<active, past, pending, pendingValue, level, shown, stale>>
      /\ UNCHANGED <<evq, evHead, evCount>>
  BY DEF Resume, Idle, subs, queue
<1>2. Queued' = Queued
  BY <1>1, QueuedSame
<1>3. ASSUME NEW s \in Sub
      PROVE  ~Within(s, todo) /\ ~Within(s, todo') /\ Read(s)' = Read(s)
  <2>1. ~Within(s, << >>)
    BY DEF Within
  <2>2. ~Within(s, todo) /\ ~Within(s, todo')
    BY <1>1, <2>1, StateIsNoPin
  <2>3. QED
    BY <1>1, <1>2, <2>2, LastOfNone DEF Read
<1>4. active \subseteq Sub
  BY DEF TypeOK
<1>5. ASSUME NEW s \in active PROVE Known(s)'
  <2>1. Known(s) /\ s \in Sub
    BY <1>4 DEF Informed
  <2>2. QED
    BY <1>1, <1>3, <2>1 DEF Known
<1>6. QED
  BY <1>1, <1>2, <1>3, <1>5 DEF Informed, Unheard

\* A new subscription asks for the level as it is: nothing of it is queued.
LEMMA SubscribeInforms ==
    ASSUME TypeOK, Informed, NEW t \in Sub, Subscribe(t)
    PROVE  Informed'
<1>1. /\ todo = << >> /\ t \notin active \cup past /\ active' = active \cup {t}
      /\ shown' = [shown EXCEPT ![t] = level[PinOf[t]]]
      /\ UNCHANGED <<past, pending, pendingValue, level, stale, todo>>
      /\ UNCHANGED <<evq, evHead, evCount>>
  BY DEF Subscribe, Idle, queue
<1>2. Queued' = Queued
  BY <1>1, QueuedSame
<1>3. /\ active \subseteq Sub /\ shown \in [Sub -> {0, 1}]
  BY DEF TypeOK
<1>4. ASSUME NEW s \in active' PROVE Known(s)'
  <2>1. CASE s = t
    <3>1. ~pending[t] /\ ~Within(t, Queued) /\ ~Within(t, todo)
      BY <1>1 DEF Informed, Unheard
    <3>2. LastOf(t, todo', LastOf(t, Queued', shown'[t])) = shown'[t]
      BY <1>1, <1>2, <3>1, LastOfNone
    <3>3. shown'[t] = level[PinOf[t]]
      BY <1>1, <1>3
    <3>4. Read(t)' = LastOf(t, todo', LastOf(t, Queued', shown'[t]))
      BY DEF Read
    <3>5. QED
      BY <1>1, <2>1, <3>1, <3>2, <3>3, <3>4 DEF Known
  <2>2. CASE s # t
    <3>1. s \in active /\ s \in Sub /\ Known(s)
      BY <1>1, <1>3, <2>2 DEF Informed
    <3>2. shown'[s] = shown[s]
      BY <1>1, <1>3, <2>2, <3>1
    <3>3. QED
      BY <1>1, <1>2, <3>1, <3>2 DEF Known, Read
  <2>3. QED
    BY <2>1, <2>2
<1>5. QED
  BY <1>1, <1>2, <1>4 DEF Informed, Unheard

\* A cancelled subscription keeps no value.
LEMMA UnsubscribeInforms ==
    ASSUME TypeOK, Informed, NEW t \in Sub, Unsubscribe(t)
    PROVE  Informed'
<1>1. /\ active' = active \ {t} /\ past' = past \cup {t}
      /\ pending' = [pending EXCEPT ![t] = FALSE]
      /\ UNCHANGED <<pendingValue, level, shown, stale, todo, evq, evHead, evCount>>
  BY DEF Unsubscribe, queue, history
<1>2. Queued' = Queued
  BY <1>1, QueuedSame
<1>3. /\ active \subseteq Sub
      /\ \A s \in Sub : pending'[s] = IF s = t THEN FALSE ELSE pending[s]
  BY <1>1 DEF TypeOK
<1>4. ASSUME NEW s \in active' PROVE Known(s)'
  <2>1. s \in active /\ s # t /\ s \in Sub /\ Known(s)
    BY <1>1, <1>3 DEF Informed
  <2>2. QED
    BY <1>1, <1>2, <1>3, <2>1 DEF Known, Read
<1>5. QED
  BY <1>1, <1>2, <1>3, <1>4 DEF Informed, Unheard

\* No step leaves a reader uninformed.
LEMMA InformedStep ==
    ASSUME TypeOK, Informed, [Next]_vars
    PROVE  Informed'
<1>1. ASSUME UNCHANGED <<active, past, pending, pendingValue, level, shown, stale, todo>>,
             UNCHANGED <<evq, evHead, evCount>>
      PROVE  Informed'
  <2>1. Queued' = Queued
    BY <1>1, QueuedSame
  <2>2. \A s : Read(s)' = Read(s)
    BY <1>1, <2>1 DEF Read
  <2>3. \A s \in active : Known(s)'
    BY <1>1, <2>2 DEF Informed, Known
  <2>4. QED
    BY <1>1, <2>1, <2>3 DEF Informed, Unheard
<1>2. CASE UNCHANGED vars
  BY <1>1, <1>2 DEF vars, subs, queue, history
<1>3. CASE Tick \/ Reset
  BY <1>1, <1>3 DEF Tick, Reset, subs, queue, history
<1>4. ASSUME NEW p \in Pin, NEW v \in {0, 1}, Drive(p, v) PROVE Informed'
  BY <1>4, DriveInforms
<1>5. CASE BatchEnds \/ Stop
  BY <1>5, StopInforms
<1>6. CASE Push
  BY <1>6, PushInforms
<1>7. CASE Resume
  BY <1>7, ResumeInforms
<1>8. ASSUME NEW s \in Sub, Subscribe(s) \/ Unsubscribe(s) PROVE Informed'
  BY <1>8, SubscribeInforms, UnsubscribeInforms
<1>9. ASSUME NEW max \in PollSizes, Poll(max) PROVE Informed'
  BY <1>9, PollInforms
<1>10. QED
  BY <1>2, <1>3, <1>4, <1>5, <1>6, <1>7, <1>8, <1>9 DEF Next, Simulates, HostCalls

\* Nothing is queued or kept at first.
LEMMA InformedInit == Init => Informed
<1> SUFFICES ASSUME Init PROVE Informed
  OBVIOUS
<1>1. active = {} /\ todo = << >> /\ evCount = 0 /\ \A s \in Sub : ~pending[s]
  BY DEF Init
<1>2. Len(Queued) = 0
  BY <1>1, TypeInit, QueuedType
<1>3. \A s : ~Within(s, Queued) /\ ~Within(s, todo)
  BY <1>1, <1>2 DEF Within
<1>4. QED
  BY <1>1, <1>3 DEF Informed, Unheard

\* What the reader is told last is the level of the pin, whatever the windows,
\* the sizes and the order of changes, pushes, polls and resets.
THEOREM LastValueIsLevel == Spec => []LastValueWins
<1>1. TypeOK /\ Informed => LastValueWins
  <2> SUFFICES ASSUME TypeOK, Informed, NEW s \in active, ~pending[s]
               PROVE  LastOf(s, Queued \o todo, shown[s]) = level[PinOf[s]] \/ stale[s]
    BY DEF Informed, LastValueWins, Known
  <2> DEFINE E == Events \cup {None}
  <2>1. Queued \in Seq(E) /\ todo \in Seq(E)
    BY QueuedType DEF TypeOK
  <2> HIDE DEF E
  <2>2. LastOf(s, Queued \o todo, shown[s]) = Read(s)
    BY <2>1, LastConcat DEF Read
  <2>3. QED
    BY <2>2 DEF Informed, Known
<1>2. TypeOK /\ Informed /\ [Next]_vars => Informed'
  BY InformedStep
<1>3. QED
  BY <1>1, <1>2, InformedInit, TypesHold, PTL DEF Spec

\* While the instance is stopped only a pin that was driven has a value kept
\* for later: the stop flushed the others.
KeptAreDriven ==
    mode = "stopped" => \A s \in active : pending[s] => PinOf[s] \in driven

\* A stop flushes all, and who drives later is known.
LEMMA KeptStep ==
    ASSUME TypeOK, Informed, KeptAreDriven, [Next]_vars
    PROVE  KeptAreDriven'
<1>1. active \subseteq Sub /\ pending \in [Sub -> BOOLEAN]
  BY DEF TypeOK
<1>2. ASSUME NEW p \in Pin, NEW v \in {0, 1}, Drive(p, v) PROVE KeptAreDriven'
  <2>1. /\ driven' = IF mode = "stopped" THEN driven \cup {p} ELSE driven
        /\ active' = active /\ mode' = mode
    BY <1>2 DEF Drive
  <2>2. \A s \in active : pending'[s] => PinOf[s] = p \/ pending[s]
    BY <1>1, <1>2 DEF Drive, Notify
  <2>3. QED
    BY <2>1, <2>2 DEF KeptAreDriven
<1>3. CASE Stop
  <2>1. \A s \in active : ~pending'[s]
    BY <1>1, <1>3 DEF Stop, Flush
  <2>2. active' = active
    BY <1>3 DEF Stop, Flush
  <2>3. QED
    BY <2>1, <2>2 DEF KeptAreDriven
<1>4. CASE BatchEnds \/ Resume
  BY <1>4 DEF BatchEnds, Resume, KeptAreDriven
<1>5. ASSUME NEW s \in Sub, Subscribe(s) PROVE KeptAreDriven'
  <2>1. /\ active' = active \cup {s} /\ s \notin active
        /\ UNCHANGED <<mode, pending, driven>>
    BY <1>5 DEF Subscribe
  <2>2. ~pending[s]
    BY <2>1 DEF Informed
  <2>3. QED
    BY <2>1, <2>2 DEF KeptAreDriven
<1>6. ASSUME NEW s \in Sub, Unsubscribe(s) PROVE KeptAreDriven'
  BY <1>1, <1>6 DEF Unsubscribe, history, KeptAreDriven
<1>7. CASE Tick \/ Reset \/ UNCHANGED vars
  BY <1>7 DEF Tick, Reset, vars, subs, history, KeptAreDriven
<1>8. CASE Push \/ \E max \in PollSizes : Poll(max)
  BY <1>8 DEF Push, Poll, subs, KeptAreDriven
<1>9. QED
  BY <1>2, <1>3, <1>4, <1>5, <1>6, <1>7, <1>8 DEF Next, Simulates, HostCalls

\* A reader that has emptied its queue after a stop knows every pin.
THEOREM StopTellsPins == Spec => []StopShowsPins
<1>1. TypeOK /\ Informed /\ KeptAreDriven => StopShowsPins
  <2> SUFFICES ASSUME TypeOK, Informed, KeptAreDriven,
                      mode = "stopped", evCount = 0, todo = << >>, NEW s \in active
               PROVE  stale[s] \/ PinOf[s] \in driven \/ shown[s] = level[PinOf[s]]
    BY DEF StopShowsPins
  <2>1. CASE pending[s]
    BY <2>1 DEF KeptAreDriven
  <2>2. CASE ~pending[s]
    <3>1. Len(Queued) = 0
      BY QueuedType
    <3>2. ~Within(s, Queued) /\ ~Within(s, todo)
      BY <3>1 DEF Within
    <3>3. Read(s) = shown[s]
      BY <3>2, LastOfNone DEF Read
    <3>4. QED
      BY <2>2, <3>3 DEF Informed, Known
  <2>3. QED
    BY <2>1, <2>2
<1>2. Init => KeptAreDriven
  BY DEF Init, KeptAreDriven
<1>3. TypeOK /\ Informed /\ [Next]_vars => Informed'
  BY InformedStep
<1>4. TypeOK /\ Informed /\ KeptAreDriven /\ [Next]_vars => KeptAreDriven'
  BY KeptStep
<1>5. QED
  BY <1>1, <1>2, <1>3, <1>4, InformedInit, TypesHold, PTL DEF Spec

=============================================================================
