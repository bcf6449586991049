-------------------------- MODULE InterruptsProofs --------------------------
(***************************************************************************)
(* Proofs about Interrupts, for every set of vectors, every ring that has  *)
(* room for them, and every MCU and firmware the assumptions allow.        *)
(***************************************************************************)
EXTENDS Interrupts, SequenceTheorems, FiniteSetTheorems, WellFoundedInduction, TLAPS

(***************************************************************************)
(* Least and greatest vectors                                              *)
(***************************************************************************)

\* The numbers from one to n are n in number.
LEMMA UpTo ==
    ASSUME NEW n \in Nat
    PROVE  IsFiniteSet(1 .. n) /\ Cardinality(1 .. n) = n
<1>1. /\ IsFiniteSet(1 .. n)
      /\ Cardinality(1 .. n) = IF 1 > n THEN 0 ELSE n - 1 + 1
  <2>1. 1 \in Int /\ n \in Int
    OBVIOUS
  <2>2. QED
    BY <2>1, FS_Interval, Zenon
<1>2. (IF 1 > n THEN 0 ELSE n - 1 + 1) = n
  OBVIOUS
<1>3. Cardinality(1 .. n) = n
  BY <1>1, <1>2
<1>4. QED
  BY <1>1, <1>3, Zenon

\* A non-empty set of natural numbers has a least element.
LEMMA LeastExists ==
    ASSUME NEW N \in SUBSET Nat, N # {}
    PROVE  \E x \in N : \A y \in N : x <= y
<1>1. PICK x \in N : \A y \in N : ~(<<y, x>> \in OpToRel(<, Nat))
  BY NatLessThanWellFounded, WFMin
<1>2. ASSUME NEW y \in N, y < x PROVE FALSE
  <2>1. <<y, x>> \in Nat \X Nat /\ <<y, x>>[1] < <<y, x>>[2]
    BY <1>2
  <2>2. <<y, x>> \in OpToRel(<, Nat)
    BY <2>1, Zenon DEF OpToRel
  <2>3. QED
    BY <2>2, <1>1
<1>3. QED
  BY <1>2

\* A finite set of natural numbers is bounded: the least unbounded subset
\* would be bounded without one of its elements, and so be bounded.
LEMMA FiniteIsBounded ==
    ASSUME NEW N \in SUBSET Nat, IsFiniteSet(N)
    PROVE  \E b \in Nat : \A x \in N : x <= b
<1> DEFINE Bounded(T) == \E b \in Nat : \A x \in T : x <= b
           Unbounded == {T \in SUBSET N : ~Bounded(T)}
<1>1. SUFFICES ASSUME N \in Unbounded PROVE FALSE
  OBVIOUS
<1>2. Unbounded \subseteq FiniteSubsetsOf(N)
  BY FS_FiniteSubsetsOfFinite
<1>3. PICK T \in Unbounded : \A U \in Unbounded : ~(<<U, T>> \in StrictSubsetOrdering(N))
  <2> HIDE DEF Unbounded
  <2>1. IsWellFoundedOn(StrictSubsetOrdering(N), FiniteSubsetsOf(N))
    BY FS_StrictSubsetOrderingWellFounded
  <2>2. QED
    BY <1>1, <1>2, <2>1, WFMin
<1>4. T # {}
  <2>1. Bounded({})
    OBVIOUS
  <2>2. QED
    BY <2>1
<1>5. PICK x \in T : TRUE
  BY <1>4
<1>6. Bounded(T \ {x})
  <2>1. <<T \ {x}, T>> \in (SUBSET N) \X (SUBSET N) /\ T \ {x} \subseteq T /\ T \ {x} # T
    BY <1>5
  <2>2. <<T \ {x}, T>> \in StrictSubsetOrdering(N)
    BY <2>1, Zenon DEF StrictSubsetOrdering
  <2>3. QED
    BY <2>2, <1>3
<1>7. PICK b \in Nat : \A y \in T \ {x} : y <= b
  BY <1>6
<1>8. x \in Nat /\ T \in SUBSET Nat
  BY <1>5
<1>9. \A y \in T : y <= b + x
  BY <1>7, <1>8
<1>10. Bounded(T)
  BY <1>8, <1>9
<1>11. QED
  BY <1>10

\* A finite non-empty set of natural numbers has a greatest element.
LEMMA GreatestExists ==
    ASSUME NEW N \in SUBSET Nat, IsFiniteSet(N), N # {}
    PROVE  \E m \in N : \A x \in N : x <= m
<1>1. PICK b \in Nat : \A x \in N : x <= b
  BY FiniteIsBounded
<1> DEFINE gaps == {b - x : x \in N}
<1>2. gaps \in SUBSET Nat /\ gaps # {}
  <2>1. \A x \in N : b - x \in Nat
    BY <1>1
  <2>2. QED
    BY <2>1
<1>3. PICK d \in gaps : \A e \in gaps : d <= e
  <2> HIDE DEF gaps
  <2>1. QED
    BY <1>2, LeastExists
<1>4. PICK m \in N : d = b - m
  BY <1>3
<1>5. \A x \in N : x <= m
  BY <1>3, <1>4, <1>1
<1>6. QED
  BY <1>5

(***************************************************************************)
(* The pending ring                                                        *)
(***************************************************************************)

Distinct(q) == \A i, j \in 1 .. Len(q) : i # j => q[i] # q[j]

\* The entry at a place leaves the ring: all others stay, and stay distinct.
LEMMA TakeAtLeaves ==
    ASSUME NEW S, NEW q \in Seq(S), NEW i \in 1 .. Len(q)
    PROVE  /\ TakeAt(q, i) \in Seq(S)
           /\ Len(TakeAt(q, i)) = Len(q) - 1
           /\ \A n \in 1 .. Len(q) - 1 : \E m \in 1 .. Len(q) \ {i} : TakeAt(q, i)[n] = q[m]
           /\ \A m \in 1 .. Len(q) \ {i} : \E n \in 1 .. Len(q) - 1 : TakeAt(q, i)[n] = q[m]
           /\ Distinct(q) => Distinct(TakeAt(q, i))
<1>1. /\ Len(q) \in Nat /\ q # << >>
      /\ \A n \in 1 .. Len(q) : q[n] \in S
  BY ElementOfSeq, LenProperties
<1>2. /\ Tail(q) \in Seq(S) /\ Len(Tail(q)) = Len(q) - 1
      /\ \A n \in 1 .. Len(q) - 1 : Tail(q)[n] = q[n + 1]
  BY <1>1, HeadTailProperties
<1> DEFINE t == TakeAt(q, i)
           from(n) == IF n = i - 1 THEN 1 ELSE n + 1
           to(m) == IF m = 1 THEN i - 1 ELSE m - 1
<1>3. /\ t \in Seq(S) /\ Len(t) = Len(q) - 1
      /\ \A n \in 1 .. Len(q) - 1 : t[n] = q[from(n)]
  <2>1. CASE i = 1
    BY <2>1, <1>1, <1>2 DEF TakeAt
  <2>2. CASE i # 1
    <3>1. t = [Tail(q) EXCEPT ![i - 1] = q[1]]
      BY <2>2 DEF TakeAt
    <3>2. i - 1 \in 1 .. Len(Tail(q)) /\ q[1] \in S
      BY <2>2, <1>1, <1>2
    <3>3. t \in Seq(S) /\ Len(t) = Len(Tail(q))
      BY <3>1, <3>2, <1>2, ExceptSeq
    <3>4. \A n \in 1 .. Len(Tail(q)) : t[n] = IF n = i - 1 THEN q[1] ELSE Tail(q)[n]
      <4> DEFINE rest == Tail(q)
      <4>1. rest \in Seq(S) /\ t = [rest EXCEPT ![i - 1] = q[1]] /\ i - 1 \in 1 .. Len(rest)
        BY <3>1, <3>2, <1>2
      <4> HIDE DEF rest, t
      <4>2. DOMAIN rest = 1 .. Len(rest)
        BY <4>1, LenProperties
      <4>3. \A n \in 1 .. Len(rest) : t[n] = IF n = i - 1 THEN q[1] ELSE rest[n]
        BY <4>1, <4>2
      <4>4. QED
        BY <4>3 DEF rest
    <3>5. QED
      BY <3>3, <3>4, <1>2
  <2>3. QED
    BY <2>1, <2>2
<1> HIDE DEF t
<1>4. \A n \in 1 .. Len(q) - 1 : from(n) \in 1 .. Len(q) \ {i}
  BY <1>1
<1>5. \A m \in 1 .. Len(q) \ {i} : to(m) \in 1 .. Len(q) - 1 /\ from(to(m)) = m
  BY <1>1
<1>6. \A k, n \in 1 .. Len(q) - 1 : k # n => from(k) # from(n)
  BY <1>1
<1> HIDE DEF from, to
<1>7. \A n \in 1 .. Len(q) - 1 : \E m \in 1 .. Len(q) \ {i} : t[n] = q[m]
  BY <1>3, <1>4
<1>8. \A m \in 1 .. Len(q) \ {i} : \E n \in 1 .. Len(q) - 1 : t[n] = q[m]
  BY <1>3, <1>5
<1>9. Distinct(q) => Distinct(t)
  BY <1>3, <1>4, <1>6 DEF Distinct
<1>10. QED
  BY <1>3, <1>7, <1>8, <1>9 DEF t

\* The places of a ring that are kept, when its entries are distinct, have an
\* enumeration in their order.
LEMMA KeptInOrder ==
    ASSUME NEW S, NEW q \in Seq(S), Distinct(q), NEW v
    PROVE  /\ InOrder(Kept(q, v)) \in Bijection(1 .. Cardinality(Kept(q, v)), Kept(q, v))
           /\ Cardinality(Kept(q, v)) \in 0 .. Len(q)
<1>1. Len(q) \in Nat
  BY LenProperties
<1>2. IsFiniteSet(1 .. Len(q)) /\ Cardinality(1 .. Len(q)) = Len(q)
  BY <1>1, UpTo
<1> DEFINE places == Kept(q, v)
           size == Cardinality(places)
           Increasing(f) == \A i, j \in 1 .. size : i < j => f[i] < f[j]
<1>3. SUFFICES ASSUME TRUE
               PROVE  /\ size \in 0 .. Len(q)
                      /\ \E f \in Bijection(1 .. size, places) : Increasing(f)
  <2> HIDE DEF places
  <2>1. QED
    BY Zenon DEF InOrder, places
<1>4. CASE \A i \in 1 .. Len(q) : q[i] # v
  <2>1. places = 1 .. Len(q)
    BY <1>4 DEF Kept
  <2>2. size = Len(q)
    BY <2>1, <1>2
  <2> DEFINE f == [i \in 1 .. Len(q) |-> i]
  <2>3. f \in Bijection(1 .. Len(q), 1 .. Len(q))
    BY DEF Bijection, Injection, Surjection, IsInjective
  <2>4. Increasing(f)
    BY <2>2, <1>1
  <2>5. QED
    BY <2>1, <2>2, <2>3, <2>4, <1>1
<1>5. ASSUME NEW k \in 1 .. Len(q), q[k] = v
      PROVE  /\ size \in 0 .. Len(q)
             /\ \E f \in Bijection(1 .. size, places) : Increasing(f)
  <2>1. places = (1 .. Len(q)) \ {k}
    BY <1>5 DEF Kept, Distinct
  <2>2. size = Len(q) - 1
    BY <2>1, <1>2, FS_RemoveElement
  <2> DEFINE f == [i \in 1 .. Len(q) - 1 |-> IF i < k THEN i ELSE i + 1]
  <2>3. f \in [1 .. Len(q) - 1 -> (1 .. Len(q)) \ {k}]
    BY <1>1
  <2>4. \A i, j \in 1 .. Len(q) - 1 : f[i] = f[j] => i = j
    BY <1>1
  <2>5. \A m \in (1 .. Len(q)) \ {k} : \E i \in 1 .. Len(q) - 1 : f[i] = m
    <3>1. TAKE m \in (1 .. Len(q)) \ {k}
    <3>2. CASE m < k
      BY <3>2, <1>1
    <3>3. CASE m > k
      <4>1. m - 1 \in 1 .. Len(q) - 1 /\ f[m - 1] = m
        BY <3>3, <1>1
      <4>2. QED
        BY <4>1
    <3>4. QED
      BY <3>2, <3>3, <1>1
  <2>6. \A i, j \in 1 .. Len(q) - 1 : i < j => f[i] < f[j]
    BY <1>1
  <2> HIDE DEF f
  <2>7. f \in Bijection(1 .. Len(q) - 1, (1 .. Len(q)) \ {k})
    BY <2>3, <2>4, <2>5 DEF Bijection, Injection, Surjection, IsInjective
  <2>8. Increasing(f)
    BY <2>2, <2>6
  <2>9. size \in 0 .. Len(q)
    BY <2>2, <1>1
  <2>10. f \in Bijection(1 .. size, places)
    <3> HIDE DEF size, places
    <3>1. QED
      BY <2>1, <2>2, <2>7
  <2>11. QED
    BY <2>8, <2>9, <2>10
<1>6. QED
  BY <1>4, <1>5

\* Without takes v out of a ring of distinct entries, and nothing else.
LEMMA WithoutLeaves ==
    ASSUME NEW S, NEW q \in Seq(S), Distinct(q), NEW v
    PROVE  /\ Without(q, v) \in Seq(S)
           /\ Len(Without(q, v)) <= Len(q)
           /\ \A n \in 1 .. Len(Without(q, v)) :
                 \E m \in 1 .. Len(q) : Without(q, v)[n] = q[m] /\ q[m] # v
           /\ \A m \in 1 .. Len(q) : q[m] # v =>
                 \E n \in 1 .. Len(Without(q, v)) : Without(q, v)[n] = q[m]
           /\ Distinct(Without(q, v))
<1> DEFINE places == Kept(q, v)
           size == Cardinality(places)
           f == InOrder(places)
           w == Without(q, v)
<1>1. f \in Bijection(1 .. size, places) /\ size \in 0 .. Len(q)
  BY KeptInOrder
<1>2. Len(q) \in Nat /\ \A n \in 1 .. Len(q) : q[n] \in S
  BY ElementOfSeq, LenProperties
<1>3. places = {i \in 1 .. Len(q) : q[i] # v}
  BY DEF Kept
<1>4. w = [i \in 1 .. size |-> q[f[i]]]
  BY DEF Without
<1> HIDE DEF places, size, f, w
<1>5. /\ f \in [1 .. size -> places]
      /\ \A i, j \in 1 .. size : f[i] = f[j] => i = j
      /\ \A m \in places : \E i \in 1 .. size : f[i] = m
  BY <1>1 DEF Bijection, Injection, Surjection, IsInjective
<1>6. \A i \in 1 .. size : w[i] \in S
  BY <1>2, <1>3, <1>4, <1>5
<1>7. w \in Seq(S) /\ Len(w) = size
  BY <1>1, <1>2, <1>4, <1>6, IsASeq
<1>8. \A n \in 1 .. size : \E m \in 1 .. Len(q) : w[n] = q[m] /\ q[m] # v
  BY <1>3, <1>4, <1>5
<1>9. \A m \in 1 .. Len(q) : q[m] # v => \E n \in 1 .. size : w[n] = q[m]
  BY <1>3, <1>4, <1>5
<1>10. Distinct(w)
  <2>1. ASSUME NEW i \in 1 .. size, NEW j \in 1 .. size, i # j
        PROVE  w[i] # w[j]
    <3>1. f[i] \in 1 .. Len(q) /\ f[j] \in 1 .. Len(q) /\ f[i] # f[j]
      BY <2>1, <1>3, <1>5
    <3>2. QED
      BY <3>1, <1>4 DEF Distinct
  <2>2. QED
    BY <2>1, <1>7 DEF Distinct
<1>11. QED
  BY <1>1, <1>2, <1>7, <1>8, <1>9, <1>10 DEF w

(***************************************************************************)
(* The choice of a vector                                                  *)
(***************************************************************************)

\* The pending entry with the lowest number exists.
LEMMA LowestIsPlace ==
    ASSUME fifo \in Seq(Vector), HasPending
    PROVE  LowestPlace \in 1 .. Len(fifo)
<1>1. /\ Len(fifo) \in Nat /\ 1 \in 1 .. Len(fifo)
      /\ \A i \in 1 .. Len(fifo) : fifo[i] \in Nat
  <2>1. Len(fifo) \in Nat /\ Len(fifo) # 0
    BY LenProperties, EmptySeq DEF HasPending
  <2>2. \A i \in 1 .. Len(fifo) : fifo[i] \in Vector
    BY ElementOfSeq
  <2>3. Vector \subseteq Nat
    BY VectorAssumption
  <2>4. 1 \in 1 .. Len(fifo)
    BY <2>1
  <2>5. QED
    BY <2>1, <2>2, <2>3, <2>4
<1> DEFINE numbers == {fifo[i] : i \in 1 .. Len(fifo)}
<1>2. PICK x \in numbers : \A y \in numbers : x <= y
  <2>1. numbers \in SUBSET Nat /\ numbers # {}
    BY <1>1
  <2> HIDE DEF numbers
  <2>2. QED
    BY <2>1, LeastExists
<1> DEFINE places == {i \in 1 .. Len(fifo) : fifo[i] = x}
<1>3. PICK k \in places : \A i \in places : k <= i
  <2>1. places \in SUBSET Nat /\ places # {}
    BY <1>1, <1>2
  <2> HIDE DEF places
  <2>2. QED
    BY <2>1, LeastExists
<1>4. ASSUME NEW j \in 1 .. Len(fifo)
      PROVE  fifo[k] < fifo[j] \/ (fifo[k] = fifo[j] /\ k <= j)
  <2>1. fifo[k] = x /\ x <= fifo[j] /\ fifo[j] \in Nat /\ x \in Nat
    BY <1>1, <1>2, <1>3
  <2>2. fifo[j] = x => k <= j
    BY <1>3
  <2>3. QED
    BY <2>1, <2>2
<1>5. k \in 1 .. Len(fifo)
  BY <1>3
<1>6. QED
  BY <1>4, <1>5, Zenon DEF LowestPlace

\* There are three levels.
LEMMA LevelType == \A v : Level(v) \in 0 .. 2
BY DEF Level

\* A part registers some of the vectors.
LEMMA PartType ==
    ASSUME part \in Part
    PROVE  /\ part.vector \subseteq Vector /\ part.vector # {}
           /\ part.cpuint \in BOOLEAN /\ part.sticky \subseteq Vector
           /\ part.nmi \subseteq Vector
BY PartAssumption

\* A rank is a natural number, whatever the rotation.
LEMMA RankType ==
    ASSUME part \in Part, lvl0pri \in Vector \cup {0}, NEW v \in Vector
    PROVE  Rank(v) \in Nat
<1>1. part.vector \in SUBSET Nat /\ IsFiniteSet(part.vector) /\ part.vector # {}
  BY PartType, VectorAssumption, FS_Subset
<1>2. MaxVector \in part.vector
  BY <1>1, GreatestExists DEF MaxVector
<1> DEFINE M == MaxVector + 1
           sum == v - 1 - lvl0pri + 2 * M
<1>3. M \in Nat /\ M > 0 /\ sum \in Int /\ v \in Nat
  BY <1>1, <1>2, VectorAssumption
<1>4. Rank(v) = IF Level(v) = 0 THEN sum % M ELSE v
  BY DEF Rank
<1> HIDE DEF M, sum
<1>5. sum % M \in Nat
  BY <1>3
<1>6. QED
  BY <1>3, <1>4, <1>5

\* The service finds its vector: the first one of the best rank of the best
\* level.
LEMMA BestIsCandidate ==
    ASSUME part \in Part, fifo \in Seq(Vector), lvl0pri \in Vector \cup {0},
           Candidates # {}
    PROVE  BestPlace \in Candidates
<1>1. /\ Len(fifo) \in Nat
      /\ \A i \in 1 .. Len(fifo) : fifo[i] \in Vector
  BY ElementOfSeq, LenProperties
<1>2. Candidates \subseteq 1 .. Len(fifo)
  BY DEF Candidates
<1>3. \A i \in Candidates : Level(fifo[i]) \in 0 .. 2 /\ Rank(fifo[i]) \in Nat
  BY <1>1, <1>2, LevelType, RankType
<1> DEFINE depths == {2 - Level(fifo[i]) : i \in Candidates}
<1>4. PICK a \in Candidates : \A i \in Candidates : Level(fifo[i]) <= Level(fifo[a])
  <2>1. depths \in SUBSET Nat /\ depths # {}
    BY <1>3
  <2>2. PICK d \in depths : \A e \in depths : d <= e
    <3> HIDE DEF depths
    <3>1. QED
      BY <2>1, LeastExists
  <2>3. PICK b \in Candidates : d = 2 - Level(fifo[b])
    BY <2>2
  <2>4. ASSUME NEW i \in Candidates
        PROVE  Level(fifo[i]) <= Level(fifo[b])
    <3>1. d <= 2 - Level(fifo[i])
      BY <2>2
    <3>2. QED
      BY <3>1, <2>3, <1>3
  <2>5. QED
    BY <2>4
<1> DEFINE Top == {i \in Candidates : Level(fifo[i]) = Level(fifo[a])}
           ranks == {Rank(fifo[i]) : i \in Top}
<1>5. PICK b \in Top : \A i \in Top : Rank(fifo[b]) <= Rank(fifo[i])
  <2>1. ranks \in SUBSET Nat /\ ranks # {}
    BY <1>3, <1>4
  <2>2. PICK r \in ranks : \A e \in ranks : r <= e
    <3> HIDE DEF ranks
    <3>1. QED
      BY <2>1, LeastExists
  <2>3. PICK c \in Top : r = Rank(fifo[c])
    BY <2>2
  <2>4. \A i \in Top : Rank(fifo[c]) <= Rank(fifo[i])
    BY <2>2, <2>3
  <2>5. QED
    BY <2>4
<1> DEFINE firsts == {i \in Top : Rank(fifo[i]) = Rank(fifo[b])}
<1>6. PICK k \in firsts : \A i \in firsts : k <= i
  <2>1. \A i \in Candidates : i \in Nat
    BY <1>1, <1>2
  <2>2. firsts \in SUBSET Nat /\ b \in firsts
    BY <2>1
  <2> HIDE DEF firsts
  <2>3. QED
    BY <2>2, LeastExists
<1>7. k \in Candidates
  BY <1>6
<1>8. ASSUME NEW j \in Candidates \ {k}
      PROVE  Before(fifo[k], fifo[j]) \/ (k < j /\ ~Before(fifo[j], fifo[k]))
  <2>1. Level(fifo[k]) = Level(fifo[a]) /\ Rank(fifo[k]) = Rank(fifo[b])
    BY <1>6
  <2>2. CASE j \notin Top
    BY <2>1, <2>2, <1>3, <1>4 DEF Before
  <2>3. CASE j \in Top /\ j \notin firsts
    BY <2>1, <2>3, <1>3, <1>5 DEF Before
  <2>4. CASE j \in firsts
    <3>1. k < j
      BY <2>4, <1>6, <1>2, <1>7
    <3>2. Level(fifo[j]) = Level(fifo[k]) /\ Rank(fifo[j]) = Rank(fifo[k])
      BY <2>4, <2>1
    <3>3. QED
      BY <3>1, <3>2, <1>3, <1>7 DEF Before
  <2>5. QED
    BY <2>2, <2>3, <2>4
<1>9. QED
  BY <1>7, <1>8, Zenon DEF BestPlace

(***************************************************************************)
(* Types, and the pending ring of CPUINT                                   *)
(***************************************************************************)

\* CPUINT: the ring holds the pending vectors, each once.
Queued ==
    CpuInt => /\ \A i \in 1 .. Len(fifo) : fifo[i] \in pending
              /\ \A v \in pending : \E i \in 1 .. Len(fifo) : fifo[i] = v
              /\ Distinct(fifo)

QInv == TypeOK /\ Queued

\* While a vector is not pending the ring has room: it holds distinct pending
\* vectors, and these are fewer than all.
LEMMA RoomForOneMore ==
    ASSUME TypeOK, Queued, CpuInt, NEW v \in Vector, v \notin pending
    PROVE  Len(fifo) < Capacity
<1>1. Len(fifo) \in Nat /\ Capacity \in Nat
  BY LenProperties, VectorAssumption DEF TypeOK
<1>2. IsFiniteSet(1 .. Len(fifo)) /\ Cardinality(1 .. Len(fifo)) = Len(fifo)
  BY <1>1, UpTo
<1>3. /\ IsFiniteSet(Vector \ {v}) /\ Cardinality(Vector \ {v}) = Cardinality(Vector) - 1
      /\ Cardinality(Vector) \in Nat
  BY VectorAssumption, FS_RemoveElement, FS_CardinalityType
<1>4. Cardinality(Vector) <= Capacity
  BY FifoAssumption
<1>5. SUFFICES ASSUME Len(fifo) >= Capacity PROVE FALSE
  BY <1>1
<1> DEFINE f == [i \in 1 .. Len(fifo) |-> fifo[i]]
<1>6. f \in [1 .. Len(fifo) -> Vector \ {v}]
  <2>1. \A i \in 1 .. Len(fifo) : fifo[i] \in Vector \ {v}
    BY DEF TypeOK, Queued
  <2>2. QED
    BY <2>1
<1>7. Cardinality(Vector \ {v}) < Cardinality(1 .. Len(fifo))
  BY <1>1, <1>2, <1>3, <1>4, <1>5
<1> HIDE DEF f
<1>8. PICK i, j \in 1 .. Len(fifo) : i # j /\ f[i] = f[j]
  BY <1>2, <1>3, <1>6, <1>7, FS_PigeonHole
<1>9. QED
  BY <1>8 DEF f, Queued, Distinct

\* avr_raise_interrupt keeps the ring and the flags in step.
LEMMA RaiseKeeps ==
    ASSUME QInv, NEW v \in part.vector, Raise(v), UNCHANGED part
    PROVE  QInv'
<1>1. v \in Vector
  BY PartType DEF QInv, TypeOK
<1>2. TypeOK'
  <2>1. Written(v) \in Seq(Vector) /\ Len(Written(v)) <= Capacity
    BY <1>1, AppendProperties, LenProperties, VectorAssumption DEF QInv, TypeOK, Written
  <2>2. ArmedByRaise \in {-1, 0, 1}
    BY DEF QInv, TypeOK, ArmedByRaise
  <2>3. QED
    BY <1>1, <2>1, <2>2 DEF QInv, TypeOK, Raise, cpuint
<1>3. Queued'
  <2>1. CASE v \notin pending /\ v \in enabled /\ CpuInt
    <3>1. Len(fifo) < Capacity
      BY <1>1, <2>1, RoomForOneMore DEF QInv
    <3>2. fifo' = Append(fifo, v) /\ pending' = pending \cup {v}
      BY <2>1, <3>1 DEF Raise, Written
    <3>3. /\ Len(fifo) \in Nat /\ Len(fifo') = Len(fifo) + 1
          /\ \A i \in 1 .. Len(fifo) : fifo'[i] = fifo[i]
          /\ fifo'[Len(fifo) + 1] = v
      <4> DEFINE old == fifo
      <4>1. old \in Seq(Vector)
        BY DEF QInv, TypeOK
      <4> HIDE DEF old
      <4>2. /\ Len(old) \in Nat /\ Len(Append(old, v)) = Len(old) + 1
            /\ \A i \in 1 .. Len(old) : Append(old, v)[i] = old[i]
            /\ Append(old, v)[Len(old) + 1] = v
        BY <1>1, <4>1, AppendProperties, LenProperties
      <4>3. QED
        BY <4>2, <3>2 DEF old
    <3>4. /\ \A i \in 1 .. Len(fifo) : fifo[i] \in pending
          /\ \A w \in pending : \E i \in 1 .. Len(fifo) : fifo[i] = w
          /\ Distinct(fifo)
      BY <2>1 DEF QInv, Queued
    <3>5. \A i \in 1 .. Len(fifo') : fifo'[i] \in pending'
      BY <3>2, <3>3, <3>4
    <3>6. \A w \in pending' : \E i \in 1 .. Len(fifo') : fifo'[i] = w
      BY <3>2, <3>3, <3>4
    <3>7. Distinct(fifo)'
      BY <2>1, <3>3, <3>4 DEF Distinct
    <3>8. QED
      BY <3>5, <3>6, <3>7 DEF Queued
  <2>2. CASE ~(v \notin pending /\ v \in enabled)
    BY <2>2 DEF Raise, QInv, Queued, Distinct, CpuInt
  <2>3. CASE ~CpuInt
    BY <2>3 DEF Queued, CpuInt
  <2>4. QED
    BY <2>1, <2>2, <2>3
<1>4. QED
  BY <1>2, <1>3 DEF QInv

\* avr_clear_interrupt of a pending vector takes it out of flags and ring.
LEMMA ClearedKeeps ==
    ASSUME QInv, NEW q \in Seq(Vector), Len(q) <= Capacity, NEW v \in Vector,
           CpuInt => /\ Distinct(q)
                     /\ \A i \in 1 .. Len(q) : q[i] \in pending
                     /\ \A w \in pending \ {v} : \E i \in 1 .. Len(q) : q[i] = w,
           Cleared(q, v), UNCHANGED part
    PROVE  /\ fifo' \in Seq(Vector) /\ Len(fifo') <= Capacity
           /\ pending' \subseteq Vector /\ raised' \subseteq Vector
           /\ Queued'
<1>1. pending' \subseteq Vector /\ raised' \subseteq Vector /\ pending' = pending \ {v}
  BY DEF QInv, TypeOK, Cleared
<1>2. Len(q) \in Nat /\ Capacity \in Nat
  BY LenProperties, VectorAssumption
<1>3. CASE CpuInt /\ v \in pending
  <2>1. fifo' = Without(q, v)
    BY <1>3 DEF Cleared
  <2> DEFINE w == Without(q, v)
  <2>2. /\ w \in Seq(Vector)
        /\ Len(w) <= Len(q)
        /\ \A n \in 1 .. Len(w) : \E m \in 1 .. Len(q) : w[n] = q[m] /\ q[m] # v
        /\ \A m \in 1 .. Len(q) : q[m] # v => \E n \in 1 .. Len(w) : w[n] = q[m]
        /\ Distinct(w)
    BY <1>3, WithoutLeaves
  <2>3. Len(w) \in Nat
    <3> HIDE DEF w
    <3>1. QED
      BY <2>2, LenProperties
  <2> HIDE DEF w
  <2>4. Len(w) <= Capacity
    BY <1>2, <2>2, <2>3
  <2>5. \A n \in 1 .. Len(w) : w[n] \in pending \ {v}
    BY <1>3, <2>2
  <2>6. \A u \in pending \ {v} : \E n \in 1 .. Len(w) : w[n] = u
    BY <1>3, <2>2
  <2>7. fifo' = w
    BY <2>1 DEF w
  <2>8. Queued'
    BY <1>1, <2>2, <2>5, <2>6, <2>7 DEF Queued, Distinct
  <2>9. QED
    BY <1>1, <2>2, <2>4, <2>7, <2>8
<1>4. CASE ~(CpuInt /\ v \in pending)
  <2>1. fifo' = q
    BY <1>4 DEF Cleared
  <2>2. CASE CpuInt
    <3>1. pending' = pending /\ v \notin pending
      BY <1>1, <1>4, <2>2
    <3>2. QED
      BY <1>1, <2>1, <2>2, <3>1 DEF Queued, Distinct
  <2>3. CASE ~CpuInt
    BY <1>1, <2>1, <2>3 DEF Queued, CpuInt
  <2>4. QED
    BY <2>2, <2>3
<1>5. QED
  BY <1>3, <1>4

\* The handler stack keeps its type and its bound.
LEMMA EnterType ==
    ASSUME TypeOK, NEW v \in Vector, NEW level \in 0 .. 2, Enter(v, level)
    PROVE  /\ running' \in Seq(Vector) /\ Len(running') <= StackSize
           /\ entered' \in Seq(0 .. 2)
<1>1. Len(running) \in Nat /\ StackSize \in Nat
  BY LenProperties, VectorAssumption DEF TypeOK
<1>2. /\ Append(running, v) \in Seq(Vector) /\ Len(Append(running, v)) = Len(running) + 1
      /\ Append(entered, level) \in Seq(0 .. 2)
  BY AppendProperties DEF TypeOK
<1>3. QED
  BY <1>1, <1>2 DEF TypeOK, Enter, Pushed

\* The dispatch takes the vector it chose out of the flags and the ring.
LEMMA DispatchKeeps ==
    ASSUME QInv, Dispatch, UNCHANGED part
    PROVE  QInv'
<1> DEFINE i == BestPlace
           v == fifo[i]
           q == TakeAt(fifo, i)
<1>1. i \in Candidates
  BY BestIsCandidate DEF QInv, TypeOK, Dispatch
<1>2. i \in 1 .. Len(fifo) /\ v \in pending
  BY <1>1 DEF Candidates, Serviceable
<1>3. v \in Vector
  BY <1>2 DEF QInv, TypeOK
<1>4. /\ Cleared(q, v) /\ Enter(v, Level(v)) /\ CpuInt
      /\ status' = status \cup {Level(v)} /\ lvl0pri' = Rotated(v)
  BY DEF Dispatch
<1>5. Level(v) \in 0 .. 2
  BY <1>3, LevelType
<1>6. Rotated(v) \in Vector \cup {0}
  BY <1>3 DEF Rotated, QInv, TypeOK
<1> HIDE DEF i
<1>7. /\ q \in Seq(Vector)
      /\ Len(q) = Len(fifo) - 1
      /\ \A n \in 1 .. Len(fifo) - 1 : \E m \in 1 .. Len(fifo) \ {i} : q[n] = fifo[m]
      /\ \A m \in 1 .. Len(fifo) \ {i} : \E n \in 1 .. Len(fifo) - 1 : q[n] = fifo[m]
      /\ Distinct(fifo) => Distinct(q)
  BY <1>2, TakeAtLeaves DEF QInv, TypeOK
<1>8. /\ \A m \in 1 .. Len(fifo) : fifo[m] \in pending
      /\ \A w \in pending : \E m \in 1 .. Len(fifo) : fifo[m] = w
      /\ Distinct(fifo)
  BY <1>4 DEF QInv, Queued
<1>9. Len(fifo) \in Nat /\ Len(fifo) <= Capacity /\ Capacity \in Nat
  BY LenProperties, VectorAssumption DEF QInv, TypeOK
<1> HIDE DEF q
<1>10. \A w \in pending \ {v} : \E n \in 1 .. Len(q) : q[n] = w
  BY <1>7, <1>8
<1>11. \A n \in 1 .. Len(q) : q[n] \in pending
  BY <1>7, <1>8
<1>12. Len(q) <= Capacity
  BY <1>7, <1>9
<1>13. Distinct(q)
  BY <1>7, <1>8
<1> HIDE DEF v
<1>14. /\ fifo' \in Seq(Vector) /\ Len(fifo') <= Capacity
       /\ pending' \subseteq Vector /\ raised' \subseteq Vector
       /\ Queued'
  BY <1>3, <1>4, <1>7, <1>10, <1>11, <1>12, <1>13, ClearedKeeps
<1>15. /\ running' \in Seq(Vector) /\ Len(running') <= StackSize
       /\ entered' \in Seq(0 .. 2)
  BY <1>3, <1>4, <1>5, EnterType DEF QInv
<1>16. TypeOK'
  BY <1>4, <1>5, <1>6, <1>14, <1>15 DEF QInv, TypeOK, Dispatch, Services
<1>17. QED
  BY <1>14, <1>16 DEF QInv

\* The classic service takes the entry with the lowest number, or drops it.
LEMMA ClassicKeeps ==
    ASSUME QInv, ClassicDrop \/ ClassicCall, UNCHANGED part
    PROVE  QInv'
<1> DEFINE i == LowestPlace
           v == fifo[i]
           q == TakeAt(fifo, i)
<1>1. ~CpuInt /\ HasPending
  BY DEF ClassicDrop, ClassicCall
<1>2. i \in 1 .. Len(fifo)
  BY <1>1, LowestIsPlace DEF QInv, TypeOK
<1> HIDE DEF i
<1>3. v \in Vector
  BY <1>2, ElementOfSeq DEF QInv, TypeOK
<1>4. q \in Seq(Vector) /\ Len(q) = Len(fifo) - 1
  BY <1>2, TakeAtLeaves DEF QInv, TypeOK
<1>5. Len(fifo) \in Nat /\ Capacity \in Nat /\ Len(q) <= Capacity
  BY <1>4, LenProperties, VectorAssumption DEF QInv, TypeOK
<1>6. Queued'
  BY <1>1 DEF Queued, CpuInt
<1>7. CASE ClassicDrop
  <2>1. fifo' = q /\ pending' = pending \ {v}
    BY <1>7 DEF ClassicDrop, i
  <2> HIDE DEF q, v
  <2>2. TypeOK'
    BY <1>4, <1>5, <1>7, <2>1 DEF QInv, TypeOK, ClassicDrop, Services, cpuint
  <2>3. QED
    BY <1>6, <2>2 DEF QInv
<1>8. CASE ClassicCall
  <2>1. Cleared(q, v) /\ Enter(v, 0)
    BY <1>8 DEF ClassicCall, i
  <2> HIDE DEF q, v
  <2>2. fifo' = q /\ pending' \subseteq pending /\ raised' \subseteq raised
    BY <1>1, <2>1 DEF Cleared
  <2>3. /\ running' \in Seq(Vector) /\ Len(running') <= StackSize
        /\ entered' \in Seq(0 .. 2)
    BY <1>3, <2>1, EnterType DEF QInv
  <2>4. TypeOK'
    BY <1>4, <1>5, <1>8, <2>2, <2>3 DEF QInv, TypeOK, ClassicCall, Services, cpuint
  <2>5. QED
    BY <1>6, <2>4 DEF QInv
<1>9. QED
  BY <1>7, <1>8

\* The countdown of the CCP window stays in its range.
LEMMA CcpCounts ==
    ASSUME ccp \in 0 .. CcpWindow
    PROVE  /\ (IF ccp > 0 THEN ccp - 1 ELSE 0) \in 0 .. CcpWindow
           /\ CcpWindow \in Nat
BY VectorAssumption

\* The front of a sequence is the sequence but its last entry.
LEMMA FrontLeaves ==
    ASSUME NEW S, NEW q \in Seq(S), q # << >>
    PROVE  /\ Front(q) \in Seq(S)
           /\ Len(Front(q)) = Len(q) - 1
           /\ \A i \in 1 .. Len(q) - 1 : Front(q)[i] = q[i]
<1>1. Len(q) \in Nat /\ Len(q) # 0
  BY LenProperties, EmptySeq
<1>2. Front(q) = SubSeq(q, 1, Len(q) - 1)
  BY DEF Front
<1>3. /\ 1 \in 1 .. Len(q) + 1 /\ Len(q) - 1 \in 1 - 1 .. Len(q)
  BY <1>1
<1> DEFINE n == Len(q) - 1
<1>4. n - 1 + 1 = n /\ \A i \in 1 .. n : 1 + i - 1 = i
  BY <1>1
<1>5. QED
  BY <1>1, <1>2, <1>3, <1>4, SubSeqProperties

\* RETI, on both cores.
LEMMA RetiKeepsTypes ==
    ASSUME TypeOK, Reti
    PROVE  /\ running' \in Seq(Vector) /\ Len(running') <= StackSize
           /\ entered' \in Seq(0 .. 2)
           /\ status' \subseteq 0 .. 2
           /\ istate' \in {-1, 0, 1} /\ iflag' \in BOOLEAN
<1>1. /\ running # << >> => /\ Front(running) \in Seq(Vector)
                            /\ Len(Front(running)) = Len(running) - 1
      /\ entered # << >> => Front(entered) \in Seq(0 .. 2)
  BY FrontLeaves DEF TypeOK
<1>2. Len(running) \in Nat
  BY LenProperties DEF TypeOK
<1>3. LeftOf(status) \subseteq status
  BY DEF LeftOf
<1>4. Rearmed \in {0, 1}
  BY DEF Rearmed
<1>5. /\ running' = IF running = << >> THEN running ELSE Front(running)
      /\ entered' = IF entered = << >> THEN entered ELSE Front(entered)
      /\ status' \in {status, LeftOf(status)}
      /\ istate' \in {istate, Rearmed, -1} /\ iflag' \in {iflag, TRUE}
  BY DEF Reti
<1>6. StackSize \in Nat
  BY VectorAssumption
<1>7. running' \in Seq(Vector) /\ Len(running') <= StackSize
  BY <1>1, <1>2, <1>5, <1>6 DEF TypeOK
<1>8. entered' \in Seq(0 .. 2)
  BY <1>1, <1>5 DEF TypeOK
<1>9. QED
  BY <1>3, <1>4, <1>5, <1>7, <1>8 DEF TypeOK

\* Every step of the engine keeps the types and the ring.
LEMMA QInvStep == ASSUME QInv, [Next]_vars PROVE QInv'
<1>1. CASE UNCHANGED vars
  BY <1>1 DEF QInv, TypeOK, Queued, Distinct, CpuInt, vars, cpuint
<1> SUFFICES ASSUME Next PROVE QInv'
  BY <1>1
<1>2. UNCHANGED part
  BY DEF Next
<1>3. ASSUME NEW v \in part.vector, Raise(v) PROVE QInv'
  BY <1>2, <1>3, RaiseKeeps
<1>4. CASE Plain
  BY <1>2, <1>4, CcpCounts DEF QInv, TypeOK, Queued, Distinct, CpuInt, Plain, Executes, Executed, cpuint
<1>5. CASE Sei
  BY <1>2, <1>5, CcpCounts DEF QInv, TypeOK, Queued, Distinct, CpuInt, Sei, Executes, Executed, cpuint
<1>6. CASE Cli
  BY <1>2, <1>6, CcpCounts DEF QInv, TypeOK, Queued, Distinct, CpuInt, Cli, Executes, Executed, cpuint
<1>7. CASE Reti
  <2>1. /\ running' \in Seq(Vector) /\ Len(running') <= StackSize
        /\ entered' \in Seq(0 .. 2)
        /\ status' \subseteq 0 .. 2
        /\ istate' \in {-1, 0, 1} /\ iflag' \in BOOLEAN
    BY <1>7, RetiKeepsTypes DEF QInv
  <2>2. TypeOK'
    BY <1>2, <1>7, <2>1, CcpCounts DEF QInv, TypeOK, Reti, Executes, Executed
  <2>3. Queued'
    BY <1>2, <1>7 DEF QInv, Queued, Distinct, CpuInt, Reti
  <2>4. QED
    BY <2>2, <2>3 DEF QInv
<1>8. CASE Sleep
  BY <1>2, <1>8, CcpCounts DEF QInv, TypeOK, Queued, Distinct, CpuInt, Sleep, Executes, Executed, cpuint
<1>9. CASE CcpWrite
  <2>1. CcpWindow \in 0 .. CcpWindow
    BY VectorAssumption
  <2>2. QED
    BY <1>2, <1>9, <2>1 DEF QInv, TypeOK, Queued, Distinct, CpuInt, CcpWrite, Executes, cpuint
<1>10. CASE WriteLevels \/ WritePriority
  BY <1>2, <1>10, CcpCounts DEF QInv, TypeOK, Queued, Distinct, CpuInt, WriteLevels, WritePriority,
                                Executes, Executed
<1>11. ASSUME NEW v \in part.vector, WriteEnable(v) PROVE QInv'
  <2>1. v \in Vector
    BY PartType DEF QInv, TypeOK
  <2>2. enabled' \subseteq Vector
    BY <1>11, <2>1 DEF QInv, TypeOK, WriteEnable
  <2>3. QED
    BY <1>2, <1>11, <2>2, CcpCounts DEF QInv, TypeOK, Queued, Distinct, CpuInt, WriteEnable, Executes, Executed, cpuint
<1>12. ASSUME NEW v \in part.vector, ClearFlag(v) PROVE QInv'
  <2>1. v \in Vector
    BY PartType DEF QInv, TypeOK
  <2>2. Cleared(fifo, v)
    BY <1>12 DEF ClearFlag
  <2>3. /\ fifo \in Seq(Vector) /\ Len(fifo) <= Capacity
        /\ CpuInt => /\ Distinct(fifo)
                     /\ \A i \in 1 .. Len(fifo) : fifo[i] \in pending
                     /\ \A w \in pending \ {v} : \E i \in 1 .. Len(fifo) : fifo[i] = w
    BY DEF QInv, TypeOK, Queued
  <2>4. /\ fifo' \in Seq(Vector) /\ Len(fifo') <= Capacity
        /\ pending' \subseteq Vector /\ raised' \subseteq Vector
        /\ Queued'
    BY <1>2, <2>1, <2>2, <2>3, ClearedKeeps
  <2>5. TypeOK'
    BY <1>2, <1>12, <2>4, CcpCounts DEF QInv, TypeOK, ClearFlag, Executes, Executed, cpuint
  <2>6. QED
    BY <2>4, <2>5 DEF QInv
<1>13. CASE SleepingPass
  BY <1>2, <1>13 DEF QInv, TypeOK, Queued, Distinct, CpuInt, SleepingPass, cpuint
<1>14. CASE ServiceNothing
  BY <1>2, <1>14 DEF QInv, TypeOK, Queued, Distinct, CpuInt, ServiceNothing, Services, cpuint
<1>15. CASE ServiceLatency
  BY <1>2, <1>15 DEF QInv, TypeOK, Queued, Distinct, CpuInt, ServiceLatency, Services, Rearmed, cpuint
<1>16. CASE ServiceBlocked
  BY <1>2, <1>16 DEF QInv, TypeOK, Queued, Distinct, CpuInt, ServiceBlocked, Services, cpuint
<1>17. CASE Dispatch
  BY <1>2, <1>17, DispatchKeeps
<1>18. CASE ClassicDrop \/ ClassicCall
  BY <1>2, <1>18, ClassicKeeps
<1>19. CASE Reset
  <2>1. << >> \in Seq(Vector) /\ << >> \in Seq(0 .. 2) /\ Len(<< >>) = 0
    OBVIOUS
  <2>2. Capacity \in Nat /\ StackSize \in Nat
    BY VectorAssumption
  <2>3. TypeOK'
    <3>1. /\ fifo' \in Seq(Vector) /\ Len(fifo') <= Capacity
          /\ running' \in Seq(Vector) /\ Len(running') <= StackSize
          /\ entered' \in Seq(0 .. 2)
      BY <1>19, <2>1, <2>2 DEF Reset
    <3>2. /\ pending' = {} /\ raised' = {} /\ enabled' = {}
          /\ iflag' = FALSE /\ istate' = 0
          /\ lvl1vec' = 0 /\ lvl0pri' = 0 /\ lvl0rr' = FALSE
          /\ mode' = "running" /\ phase' = "exec" /\ status' = status /\ ccp' = ccp
      BY <1>19 DEF Reset
    <3>3. part \in Part /\ status \subseteq 0 .. 2 /\ ccp \in 0 .. CcpWindow
      BY DEF QInv, TypeOK
    <3>4. QED
      BY <1>2, <3>1, <3>2, <3>3 DEF TypeOK
  <2>4. Queued'
    BY <1>19, <2>1 DEF Queued, Distinct, Reset
  <2>5. QED
    BY <2>3, <2>4 DEF QInv
<1>20. QED
  BY <1>3, <1>4, <1>5, <1>6, <1>7, <1>8, <1>9, <1>10, <1>11, <1>12, <1>13, <1>14,
     <1>15, <1>16, <1>17, <1>18, <1>19 DEF Next, Instruction, Service

\* The ring starts empty.
LEMMA QInvInit == Init => QInv
<1> SUFFICES ASSUME Init PROVE QInv
  OBVIOUS
<1>1. << >> \in Seq(Vector) /\ << >> \in Seq(0 .. 2) /\ Len(<< >>) = 0
  OBVIOUS
<1>2. Capacity \in Nat /\ StackSize \in Nat /\ 0 \in 0 .. CcpWindow
  BY VectorAssumption
<1>3. TypeOK
  <2>1. /\ fifo \in Seq(Vector) /\ Len(fifo) <= Capacity
        /\ running \in Seq(Vector) /\ Len(running) <= StackSize
        /\ entered \in Seq(0 .. 2)
    BY <1>1, <1>2 DEF Init
  <2>2. QED
    BY <1>2, <2>1 DEF Init, TypeOK
<1>4. Queued
  BY <1>1 DEF Init, Queued, Distinct
<1>5. QED
  BY <1>3, <1>4 DEF QInv

\* The invariant of the ring.
LEMMA QInvAlways == Spec => []QInv
BY QInvInit, QInvStep, PTL DEF Spec

\* The engine's state keeps its types, and the ring of pending vectors and the
\* stack of running handlers never outgrow their arrays, for every MCU whose
\* ring has room for its vectors.
THEOREM TypesHold == Spec => []TypeOK
<1>1. QInv => TypeOK
  BY DEF QInv
<1>2. QED
  BY <1>1, QInvAlways, PTL

\* CPUINT: the flags of the vectors and the ring agree, whatever is raised,
\* masked, cleared, dispatched or reset.
THEOREM RingAgrees == Spec => []PendingIsQueued
<1>1. ASSUME QInv PROVE PendingIsQueued
  <2>1. CASE CpuInt
    <3>1. Len(fifo) \in Nat /\ DOMAIN fifo = 1 .. Len(fifo)
      BY LenProperties DEF QInv, TypeOK
    <3>2. ToSet(fifo) = {fifo[i] : i \in 1 .. Len(fifo)}
      BY <3>1 DEF ToSet
    <3>3. /\ \A i \in 1 .. Len(fifo) : fifo[i] \in pending
          /\ \A v \in pending : \E i \in 1 .. Len(fifo) : fifo[i] = v
          /\ Distinct(fifo)
      BY <1>1, <2>1 DEF QInv, Queued
    <3>4. {fifo[i] : i \in 1 .. Len(fifo)} = pending
      BY <3>3
    <3>5. QED
      BY <3>2, <3>3, <3>4 DEF PendingIsQueued, Distinct
  <2>2. CASE ~CpuInt
    BY <2>2 DEF PendingIsQueued
  <2>3. QED
    BY <2>1, <2>2
<1>2. QED
  BY <1>1, QInvAlways, PTL

(***************************************************************************)
(* Nested handlers of CPUINT                                               *)
(***************************************************************************)

\* The members of ToSet are the entries of the sequence.
LEMMA ToSetEntries ==
    ASSUME NEW S, NEW q \in Seq(S)
    PROVE  \A x : x \in ToSet(q) <=> \E i \in 1 .. Len(q) : q[i] = x
<1>1. DOMAIN q = 1 .. Len(q)
  BY LenProperties
<1>2. QED
  BY <1>1 DEF ToSet

Increasing == \A i, j \in 1 .. Len(entered) : i < j => entered[i] < entered[j]

Marked == \A i \in 1 .. Len(entered) : entered[i] \in status

\* A level that is marked while no handler runs at it is below all handlers.
StrandedBelow ==
    \A s \in status :
        (\A i \in 1 .. Len(entered) : entered[i] # s)
        => \A i \in 1 .. Len(entered) : s < entered[i]

Nested ==
    IF CpuInt THEN Len(entered) = Len(running) /\ Marked /\ Increasing /\ StrandedBelow
    ELSE status = {}

\* Highest is the greatest of some levels.
LEMMA HighestIsGreatest ==
    ASSUME NEW S \in SUBSET (0 .. 2), S # {}
    PROVE  Highest(S) \in S /\ \A m \in S : m <= Highest(S)
<1>1. \E l \in S : \A m \in S : m <= l
  <2>1. CASE 2 \in S
    BY <2>1
  <2>2. CASE 2 \notin S /\ 1 \in S
    BY <2>2
  <2>3. CASE 2 \notin S /\ 1 \notin S
    <3>1. PICK l \in S : TRUE
      OBVIOUS
    <3>2. \A m \in S : m = 0
      BY <2>3
    <3>3. l = 0 /\ 0 <= 0
      BY <3>1, <3>2
    <3>4. QED
      BY <3>1, <3>2, <3>3
  <2>4. QED
    BY <2>1, <2>2, <2>3
<1>2. QED
  BY <1>1, Zenon DEF Highest

\* A handler is entered at a level above all that are marked, so there are
\* fewer than three others and the stack has room for it.
LEMMA DispatchNests ==
    ASSUME TypeOK, Nested, Dispatch, UNCHANGED part
    PROVE  Nested' /\ Stranded' \subseteq Stranded
<1> DEFINE v == fifo[BestPlace]
           l == Level(v)
           n == Len(entered)
<1>1. CpuInt /\ status' = status \cup {l} /\ Enter(v, l)
  BY DEF Dispatch
<1>2. BestPlace \in Candidates
  BY BestIsCandidate DEF TypeOK, Dispatch
<1>3. status \cap Blocking(l) = {} /\ v \in Vector
  <2>1. BestPlace \in 1 .. Len(fifo) /\ Serviceable(v)
    BY <1>2 DEF Candidates
  <2> HIDE DEF v
  <2>2. status \cap Blocking(l) = {} /\ v \in pending
    BY <2>1 DEF Serviceable
  <2>3. QED
    BY <2>2 DEF TypeOK
<1>4. l \in 0 .. 2
  BY LevelType
<1> HIDE DEF l, v
<1>5. \A s \in status : s < l
  BY <1>3, <1>4 DEF Blocking, TypeOK
<1>6. n \in Nat /\ \A i \in 1 .. n : entered[i] \in 0 .. 2 /\ entered[i] \in status
  BY <1>1, LenProperties, ElementOfSeq DEF TypeOK, Nested, Marked
<1>7. Len(entered) = Len(running) /\ Increasing /\ StrandedBelow
  BY <1>1 DEF Nested
<1>8. n < 3
  <2>1. SUFFICES ASSUME n >= 3 PROVE FALSE
    BY <1>6
  <2>2. entered[1] < entered[2] /\ entered[2] < entered[3] /\ entered[3] < l
    BY <2>1, <1>5, <1>6, <1>7 DEF Increasing
  <2>3. QED
    BY <2>1, <2>2, <1>4, <1>6
<1>9. Len(running) < StackSize
  BY <1>6, <1>7, <1>8, StackAssumption, VectorAssumption
<1>10. running' = Append(running, v) /\ entered' = Append(entered, l)
  BY <1>1, <1>9 DEF Enter, Pushed
<1>11. /\ entered' \in Seq(0 .. 2) /\ Len(entered') = n + 1
       /\ \A i \in 1 .. n : entered'[i] = entered[i]
       /\ entered'[n + 1] = l
       /\ Len(running') = n + 1
  <2> DEFINE old == entered
  <2>1. old \in Seq(0 .. 2) /\ running \in Seq(Vector)
    BY DEF TypeOK
  <2> HIDE DEF old
  <2>2. /\ Append(old, l) \in Seq(0 .. 2) /\ Len(Append(old, l)) = Len(old) + 1
        /\ \A i \in 1 .. Len(old) : Append(old, l)[i] = old[i]
        /\ Append(old, l)[Len(old) + 1] = l
    BY <2>1, <1>4, AppendProperties
  <2>3. Len(Append(running, v)) = Len(running) + 1
    BY <2>1, <1>3, AppendProperties
  <2>4. QED
    BY <2>2, <2>3, <1>7, <1>10 DEF old
<1> HIDE DEF n
<1>12. Marked'
  BY <1>1, <1>6, <1>11 DEF Marked
<1>13. Increasing'
  <2>1. ASSUME NEW i \in 1 .. n + 1, NEW j \in 1 .. n + 1, i < j
        PROVE  entered'[i] < entered'[j]
    <3>1. i \in 1 .. n
      BY <2>1, <1>6
    <3>2. CASE j = n + 1
      BY <3>1, <3>2, <1>5, <1>6, <1>11
    <3>3. CASE j # n + 1
      <4>1. j \in 1 .. n
        BY <3>3, <2>1, <1>6
      <4>2. entered[i] < entered[j]
        BY <3>1, <4>1, <2>1, <1>7 DEF Increasing, n
      <4>3. QED
        BY <3>1, <4>1, <4>2, <1>11
    <3>4. QED
      BY <3>2, <3>3
  <2>2. QED
    BY <2>1, <1>11 DEF Increasing
<1>14. StrandedBelow'
  <2>1. ASSUME NEW s \in status', \A i \in 1 .. n + 1 : entered'[i] # s,
               NEW i \in 1 .. n + 1
        PROVE  s < entered'[i]
    <3>1. s \in status /\ s # l
      BY <2>1, <1>1, <1>6, <1>11
    <3>2. \A k \in 1 .. n : entered[k] # s
      BY <2>1, <1>6, <1>11
    <3>3. CASE i = n + 1
      BY <3>1, <3>3, <1>5, <1>11
    <3>4. CASE i \in 1 .. n
      BY <3>1, <3>2, <3>4, <1>7, <1>11 DEF StrandedBelow, n
    <3>5. QED
      BY <3>3, <3>4, <1>6
  <2>2. QED
    BY <2>1, <1>11 DEF StrandedBelow
<1>15. CpuInt'
  BY <1>1 DEF CpuInt
<1>16. Nested'
  BY <1>11, <1>12, <1>13, <1>14, <1>15 DEF Nested
<1>17. Stranded' \subseteq Stranded
  <2>1. \A x : x \in ToSet(entered) <=> \E i \in 1 .. n : entered[i] = x
    BY ToSetEntries DEF TypeOK, n
  <2>2. \A x : x \in ToSet(entered') <=> \E i \in 1 .. n + 1 : entered'[i] = x
    BY <1>11, ToSetEntries
  <2>3. \A x : x \in ToSet(entered') <=> x \in ToSet(entered) \/ x = l
    BY <2>1, <2>2, <1>6, <1>11
  <2>4. QED
    BY <2>3, <1>1 DEF Stranded
<1>18. QED
  BY <1>16, <1>17

\* RETI ends the innermost handler and unmarks its level: that is the highest.
LEMMA RetiNests ==
    ASSUME TypeOK, Nested, Reti, UNCHANGED part
    PROVE  Nested' /\ Stranded' \subseteq Stranded
<1> DEFINE n == Len(entered)
<1>1. n \in Nat /\ \A i \in 1 .. n : entered[i] \in 0 .. 2
  BY LenProperties, ElementOfSeq DEF TypeOK
<1>2. status \in SUBSET (0 .. 2)
  BY DEF TypeOK
<1>3. CASE ~CpuInt
  <2>1. status = {} /\ status' = {}
    BY <1>3 DEF Nested, Reti
  <2>2. QED
    BY <1>3, <2>1 DEF Nested, CpuInt, Stranded
<1>4. CASE CpuInt /\ entered = << >>
  <2>1. running = << >> /\ n = 0
    BY <1>4, EmptySeq, LenProperties DEF Nested, TypeOK
  <2>2. running' = << >> /\ entered' = << >> /\ status' = LeftOf(status)
    BY <1>4, <2>1 DEF Reti
  <2>3. status' \subseteq status
    BY <2>2 DEF LeftOf
  <2>4. Nested'
    BY <1>4, <2>2 DEF Nested, Marked, Increasing, StrandedBelow, CpuInt
  <2>5. QED
    BY <1>4, <2>2, <2>3, <2>4 DEF Stranded
<1>5. CASE CpuInt /\ entered # << >>
  <2>1. Len(entered) = Len(running) /\ Marked /\ Increasing /\ StrandedBelow
    BY <1>5 DEF Nested
  <2>2. n # 0 /\ running # << >>
    BY <1>5, <2>1, EmptySeq, LenProperties DEF TypeOK
  <2>3. running' = Front(running) /\ entered' = Front(entered) /\ status' = LeftOf(status)
    BY <1>5, <2>2 DEF Reti
  <2>4. /\ entered' \in Seq(0 .. 2) /\ Len(entered') = n - 1
        /\ \A i \in 1 .. n - 1 : entered'[i] = entered[i]
        /\ Len(running') = n - 1
    BY <1>5, <2>1, <2>2, <2>3, FrontLeaves DEF TypeOK
  <2>5. n \in 1 .. n /\ entered[n] \in status
    BY <1>1, <2>1, <2>2 DEF Marked
  <2>6. ASSUME NEW s \in status PROVE s <= entered[n]
    <3>1. CASE \E i \in 1 .. n : entered[i] = s
      <4>1. PICK i \in 1 .. n : entered[i] = s
        BY <3>1
      <4>2. CASE i = n
        BY <4>1, <4>2, <1>1, <2>5
      <4>3. CASE i < n
        BY <4>1, <4>3, <2>1, <2>5, <1>1 DEF Increasing
      <4>4. QED
        BY <4>2, <4>3, <1>1
    <3>2. CASE \A i \in 1 .. n : entered[i] # s
      BY <3>2, <2>1, <2>5, <1>1, <1>2 DEF StrandedBelow
    <3>3. QED
      BY <3>1, <3>2
  <2>7. Highest(status) = entered[n]
    <3>1. Highest(status) \in status /\ \A m \in status : m <= Highest(status)
      BY <1>2, <2>5, HighestIsGreatest
    <3>2. Highest(status) \in 0 .. 2 /\ entered[n] \in 0 .. 2
      BY <3>1, <1>1, <1>2, <2>5
    <3>3. Highest(status) <= entered[n] /\ entered[n] <= Highest(status)
      BY <3>1, <2>5, <2>6
    <3>4. QED
      BY <3>2, <3>3
  <2>8. status' = status \ {entered[n]}
    BY <2>3, <2>5, <2>7 DEF LeftOf
  <2> HIDE DEF n
  <2>9. \A i \in 1 .. n - 1 : i \in 1 .. n /\ entered[i] # entered[n]
    BY <1>1, <2>1, <2>5 DEF Increasing, n
  <2>10. Marked'
    BY <2>1, <2>4, <2>8, <2>9 DEF Marked, n
  <2>11. Increasing'
    BY <2>1, <2>4, <2>9 DEF Increasing, n
  <2>12. StrandedBelow'
    <3>1. ASSUME NEW s \in status', \A i \in 1 .. n - 1 : entered'[i] # s,
                 NEW i \in 1 .. n - 1
          PROVE  s < entered'[i]
      <4>1. s \in status /\ s # entered[n]
        BY <2>8
      <4>2. \A k \in 1 .. n : entered[k] # s
        BY <3>1, <4>1, <2>4, <1>1
      <4>3. QED
        BY <4>1, <4>2, <2>1, <2>4, <2>9 DEF StrandedBelow, n
    <3>2. QED
      BY <3>1, <2>4 DEF StrandedBelow
  <2>13. Nested'
    BY <1>5, <2>4, <2>10, <2>11, <2>12 DEF Nested, CpuInt
  <2>14. Stranded' \subseteq Stranded
    <3>1. \A x : x \in ToSet(entered) <=> \E i \in 1 .. n : entered[i] = x
      BY ToSetEntries DEF TypeOK, n
    <3>2. \A x : x \in ToSet(entered') <=> \E i \in 1 .. n - 1 : entered'[i] = x
      BY <2>4, ToSetEntries
    <3>3. ASSUME NEW x \in ToSet(entered), x # entered[n] PROVE x \in ToSet(entered')
      <4>1. PICK i \in 1 .. n : entered[i] = x
        BY <3>1, <3>3
      <4>2. i \in 1 .. n - 1
        BY <4>1, <3>3, <1>1
      <4>3. QED
        BY <4>1, <4>2, <3>2, <2>4
    <3>4. QED
      BY <3>3, <2>8 DEF Stranded
  <2>15. QED
    BY <2>13, <2>14
<1>6. QED
  BY <1>3, <1>4, <1>5

\* No other step changes what is marked and what is nested; a reset ends all.
LEMMA NestedStep ==
    ASSUME TypeOK, Nested, [Next]_vars
    PROVE  Nested' /\ (Stranded' \subseteq Stranded \/ Reset)
<1> DEFINE Same == UNCHANGED <<part, running, entered, status>>
<1>1. CASE Same
  BY <1>1 DEF Nested, Marked, Increasing, StrandedBelow, CpuInt, Stranded
<1>2. CASE UNCHANGED vars
  BY <1>1, <1>2 DEF vars, cpuint
<1> SUFFICES ASSUME Next PROVE Nested' /\ (Stranded' \subseteq Stranded \/ Reset)
  BY <1>2
<1>3. UNCHANGED part
  BY DEF Next
<1>4. CASE Dispatch
  BY <1>3, <1>4, DispatchNests
<1>5. CASE Reti
  BY <1>3, <1>5, RetiNests
<1>6. CASE ClassicCall
  <2>1. ~CpuInt /\ status = {} /\ status' = {}
    BY <1>6 DEF ClassicCall, cpuint, Nested
  <2>2. QED
    BY <2>1, <1>3 DEF Nested, CpuInt, Stranded
<1>7. CASE Reset
  <2>1. running' = << >> /\ entered' = << >> /\ status' = status
    BY <1>7 DEF Reset
  <2>2. QED
    BY <1>3, <1>7, <2>1 DEF Nested, Marked, Increasing, StrandedBelow, CpuInt
<1>8. CASE (\E v \in part.vector : Raise(v)) \/ SleepingPass
  <2>1. Same
    BY <1>3, <1>8 DEF Raise, SleepingPass, cpuint
  <2>2. QED
    BY <2>1, <1>1
<1>9. CASE Instruction /\ ~Reti
  <2>1. Same
    BY <1>3, <1>9 DEF Instruction, Plain, Sei, Cli, Sleep, CcpWrite, WriteLevels,
                      WritePriority, WriteEnable, ClearFlag, cpuint
  <2>2. QED
    BY <2>1, <1>1
<1>10. CASE ServiceNothing \/ ServiceLatency \/ ServiceBlocked \/ ClassicDrop
  <2>1. Same
    BY <1>3, <1>10 DEF ServiceNothing, ServiceLatency, ServiceBlocked, ClassicDrop, cpuint
  <2>2. QED
    BY <2>1, <1>1
<1>11. QED
  BY <1>4, <1>5, <1>6, <1>7, <1>8, <1>9, <1>10 DEF Next, Service

\* Nothing runs at the start.
LEMMA NestedInit == Init => Nested
<1>1. Len(<< >>) = 0
  OBVIOUS
<1>2. QED
  BY <1>1 DEF Init, Nested, Marked, Increasing, StrandedBelow

\* The nesting invariant, with the types.
LEMMA NestedAlways == Spec => []Nested
<1>1. QInv => TypeOK
  BY DEF QInv
<1>2. QInv /\ Nested /\ [Next]_vars => Nested'
  BY <1>1, NestedStep
<1>3. QED
  BY <1>2, NestedInit, QInvAlways, PTL DEF Spec

\* CPUINT: handlers nest in increasing level, and the level of each stays
\* marked until its own RETI: no RETI unmarks the level of another one.
THEOREM HandlersNest == Spec => []LevelsNest
<1>1. ASSUME QInv, Nested PROVE LevelsNest
  <2>1. \A x : x \in ToSet(entered) <=> \E i \in 1 .. Len(entered) : entered[i] = x
    BY <1>1, ToSetEntries DEF QInv, TypeOK
  <2>2. CASE CpuInt
    BY <1>1, <2>1, <2>2 DEF LevelsNest, Nested, Marked, Increasing
  <2>3. QED
    BY <2>2 DEF LevelsNest
<1>2. QED
  BY <1>1, QInvAlways, NestedAlways, PTL

\* Only a reset leaves a level marked that no handler runs at.
THEOREM StrandingIsReset == Spec => OnlyResetStrands
<1>1. QInv /\ Nested /\ [Next]_vars => [Stranded' \subseteq Stranded \/ Reset]_vars
  BY NestedStep DEF QInv
<1>2. QED
  BY <1>1, QInvAlways, NestedAlways, PTL DEF Spec, OnlyResetStrands

(***************************************************************************)
(* The armed service check                                                 *)
(***************************************************************************)

\* ArmedForService in terms of the flags: some pending vector could be
\* serviced only while the check is armed.
Armed ==
    IF CpuInt THEN (\E v \in pending : Serviceable(v)) => istate # 0
    ELSE /\ iflag /\ HasPending => istate # 0
         /\ istate > 0 => HasPending

\* What could be serviced is looked for in the ring, and found by the flags.
LEMMA CandidatesArePending ==
    ASSUME TypeOK, Queued, CpuInt
    PROVE  Candidates # {} <=> \E v \in pending : Serviceable(v)
<1>1. ASSUME Candidates # {} PROVE \E v \in pending : Serviceable(v)
  <2>1. PICK i \in Candidates : TRUE
    BY <1>1
  <2>2. i \in 1 .. Len(fifo) /\ Serviceable(fifo[i])
    BY <2>1 DEF Candidates
  <2>3. fifo[i] \in pending
    BY <2>2 DEF Queued
  <2>4. QED
    BY <2>2, <2>3
<1>2. ASSUME NEW v \in pending, Serviceable(v) PROVE Candidates # {}
  <2>1. PICK i \in 1 .. Len(fifo) : fifo[i] = v
    BY DEF Queued
  <2>2. Serviceable(fifo[i])
    BY <1>2, <2>1
  <2>3. QED
    BY <2>2 DEF Candidates
<1>3. QED
  BY <1>1, <1>2

\* CPUINT: with a pending vector there is an entry, and Rearmed says so.
LEMMA PendingRearms ==
    ASSUME TypeOK, Queued, CpuInt, pending # {}
    PROVE  fifo # << >> /\ Rearmed = 1
<1>1. PICK v \in pending : TRUE
  OBVIOUS
<1>2. PICK i \in 1 .. Len(fifo) : fifo[i] = v
  BY DEF Queued
<1>3. fifo # << >>
  <2>1. SUFFICES ASSUME fifo = << >> PROVE FALSE
    OBVIOUS
  <2>2. Len(fifo) = 0
    BY <2>1
  <2>3. QED
    BY <2>2, <1>2
<1>4. QED
  BY <1>3 DEF Rearmed, HasPending

\* A raise arms the check, unless the vector was pending already.
LEMMA RaiseArms ==
    ASSUME QInv, Armed, NEW v \in part.vector, Raise(v), UNCHANGED part
    PROVE  Armed'
<1>1. CASE v \notin pending /\ v \in enabled
  <2>1. fifo' = Written(v) /\ istate' = ArmedByRaise /\ UNCHANGED <<iflag, enabled, status, lvl1vec>>
    BY <1>1 DEF Raise, cpuint
  <2>2. CASE CpuInt
    <3>1. istate' # 0
      BY <2>1, <2>2 DEF ArmedByRaise
    <3>2. QED
      BY <3>1, <2>2 DEF Armed, CpuInt
  <2>3. CASE ~CpuInt
    <3>1. Written(v) # << >>
      <4>1. v \in Vector /\ Len(fifo) \in Nat
        BY PartType, LenProperties DEF QInv, TypeOK
      <4>2. Append(fifo, v) # << >>
        BY <4>1, AppendProperties DEF QInv, TypeOK
      <4>3. Len(fifo) >= Capacity => fifo # << >>
        BY EmptySeq, VectorAssumption DEF QInv, TypeOK
      <4>4. Capacity \in Nat
        BY VectorAssumption
      <4>5. QED
        BY <4>1, <4>2, <4>3, <4>4 DEF Written
    <3>2. HasPending'
      BY <3>1, <2>1 DEF HasPending
    <3>3. iflag' => istate' # 0
      BY <2>1, <2>3 DEF ArmedByRaise
    <3>4. QED
      BY <2>3, <3>2, <3>3 DEF Armed, CpuInt
  <2>4. QED
    BY <2>2, <2>3
<1>2. CASE ~(v \notin pending /\ v \in enabled)
  <2>1. UNCHANGED <<pending, fifo, istate, enabled, iflag, status, lvl1vec>>
    BY <1>2 DEF Raise, cpuint
  <2>2. QED
    BY <2>1 DEF Armed, Serviceable, Level, Nmi, CpuInt, HasPending
<1>3. QED
  BY <1>1, <1>2

\* On CPUINT, each step that leaves the check disarmed leaves nothing that
\* could be serviced.
LEMMA ModernArms ==
    ASSUME Disciplined, QInv, QInv', Armed, CpuInt, Instruction \/ Service \/ SleepingPass,
           UNCHANGED part
    PROVE  Armed'
<1>1. CpuInt' /\ Nmi' = Nmi
  BY DEF CpuInt, Nmi
<1>2. SUFFICES ASSUME NEW v \in pending', Serviceable(v)' PROVE istate' # 0
  BY <1>1 DEF Armed
<1>3. ASSUME Serviceable(v) PROVE istate # 0
  BY <1>3 DEF Armed, Serviceable
<1>4. /\ v \in pending' /\ v \in enabled'
      /\ Level(v)' = 2 \/ iflag'
      /\ status' \cap Blocking(Level(v)') = {}
  BY <1>2 DEF Serviceable
<1>5. Level(v)' = IF v \in Nmi THEN 2 ELSE IF lvl1vec' = v THEN 1 ELSE 0
  BY <1>1 DEF Level
<1>6. ASSUME UNCHANGED <<istate, iflag, status, lvl1vec>>, pending' \subseteq pending,
             v \in enabled
      PROVE  istate' # 0
  <2>1. Level(v)' = Level(v)
    BY <1>5, <1>6 DEF Level
  <2>2. Serviceable(v)
    BY <1>4, <1>6, <2>1 DEF Serviceable
  <2>3. QED
    BY <2>2, <1>3, <1>6
<1>7. CASE Plain \/ Sleep \/ CcpWrite \/ WritePriority \/ SleepingPass \/ ServiceNothing
  BY <1>4, <1>6, <1>7 DEF Plain, Sleep, CcpWrite, WritePriority, SleepingPass, ServiceNothing, cpuint
<1>8. CASE Sei
  <2>1. CASE iflag
    BY <1>4, <1>6, <1>8, <2>1 DEF Sei, cpuint, QInv, TypeOK
  <2>2. CASE ~iflag
    BY <1>8, <2>2 DEF Sei
  <2>3. QED
    BY <2>1, <2>2
<1>9. CASE Cli
  <2>1. part \in Part /\ "cli" \in part.firmware /\ part.cpuint
    BY <1>9 DEF Cli, Allowed, QInv, TypeOK, CpuInt
  <2>2. Nmi = {}
    BY <2>1 DEF Disciplined, Nmi
  <2>3. ~iflag'
    BY <1>9 DEF Cli
  <2>4. QED
    BY <1>4, <1>5, <2>2, <2>3
<1>10. CASE Reti
  <2>1. UNCHANGED <<pending, fifo>> /\ istate' = IF istate = 0 THEN Rearmed ELSE istate
    BY <1>10 DEF Reti
  <2>2. Rearmed = 1
    BY <1>4, <2>1, PendingRearms DEF QInv
  <2>3. QED
    BY <2>1, <2>2
<1>11. CASE WriteLevels
  <2>1. status = {} /\ UNCHANGED <<pending, enabled, iflag, istate, status>>
    BY <1>11 DEF WriteLevels
  <2>2. v \in Nmi \/ iflag
    BY <1>4, <1>5, <2>1
  <2>3. Serviceable(v)
    BY <1>4, <2>1, <2>2 DEF Serviceable, Level
  <2>4. QED
    BY <2>1, <2>3, <1>3
<1>12. ASSUME NEW w \in part.vector, WriteEnable(w) PROVE istate' # 0
  <2>1. w \notin pending
    BY <1>12 DEF WriteEnable, Allowed, Disciplined, CpuInt, QInv, TypeOK
  <2>2. UNCHANGED <<istate, iflag, status, lvl1vec, pending>>
    BY <1>12 DEF WriteEnable, cpuint
  <2>3. v \in enabled
    BY <1>4, <1>12, <2>1, <2>2 DEF WriteEnable
  <2>4. QED
    BY <1>6, <2>2, <2>3
<1>13. ASSUME NEW w \in part.vector, ClearFlag(w) PROVE istate' # 0
  BY <1>4, <1>6, <1>13 DEF ClearFlag, Cleared, cpuint
<1>14. CASE ServiceLatency
  <2>1. istate' = Rearmed /\ pending' = pending
    BY <1>14 DEF ServiceLatency
  <2>2. Rearmed = 1
    BY <1>4, <2>1, PendingRearms DEF QInv
  <2>3. QED
    BY <2>1, <2>2
<1>15. CASE ServiceBlocked
  <2>1. Candidates = {} /\ UNCHANGED <<pending, enabled, iflag, status, lvl1vec>>
    BY <1>15 DEF ServiceBlocked, cpuint
  <2>2. ~Serviceable(v)
    BY <1>4, <2>1, CandidatesArePending DEF QInv
  <2>3. Level(v)' = Level(v)
    BY <1>5, <2>1 DEF Level
  <2>4. QED
    BY <1>4, <2>1, <2>2, <2>3 DEF Serviceable
<1>16. CASE Dispatch
  <2>1. istate' = IF fifo' # << >> THEN 1 ELSE 0
    BY <1>16 DEF Dispatch
  <2>2. PICK i \in 1 .. Len(fifo') : fifo'[i] = v
    BY <1>1, <1>4 DEF QInv, Queued
  <2>3. fifo' # << >>
    <3>1. SUFFICES ASSUME fifo' = << >> PROVE FALSE
      OBVIOUS
    <3>2. Len(fifo') = 0
      BY <3>1
    <3>3. QED
      BY <3>2, <2>2
  <2>4. QED
    BY <2>1, <2>3
<1>17. CASE ClassicDrop \/ ClassicCall
  BY <1>17 DEF ClassicDrop, ClassicCall
<1>18. QED
  BY <1>7, <1>8, <1>9, <1>10, <1>11, <1>12, <1>13, <1>14, <1>15, <1>16, <1>17
     DEF Instruction, Service

\* The same of the classic controller, whose clear leaves the ring alone.
LEMMA ClassicArms ==
    ASSUME QInv, Armed, ~CpuInt, Instruction \/ Service \/ SleepingPass, UNCHANGED part
    PROVE  Armed'
<1>1. ~CpuInt'
  BY DEF CpuInt
<1>2. /\ iflag /\ HasPending => istate # 0
      /\ istate > 0 => HasPending
  BY DEF Armed
<1>3. SUFFICES /\ iflag' /\ HasPending' => istate' # 0
               /\ istate' > 0 => HasPending'
  BY <1>1 DEF Armed
<1>4. CASE UNCHANGED <<fifo, iflag, istate>>
  BY <1>2, <1>4 DEF HasPending
<1>5. CASE Instruction /\ ~(Sei \/ Cli \/ Reti)
  <2>1. UNCHANGED <<fifo, iflag, istate>>
    BY <1>5 DEF Instruction, Plain, Sleep, CcpWrite, WriteLevels, WritePriority, WriteEnable,
                 ClearFlag, Cleared
  <2>2. QED
    BY <2>1, <1>4
<1>6. CASE Sei \/ Reti
  <2>1. UNCHANGED fifo /\ istate' = IF iflag THEN istate ELSE -1
    BY <1>6 DEF Sei, Reti
  <2>2. CASE iflag
    BY <1>2, <2>1, <2>2 DEF HasPending
  <2>3. CASE ~iflag
    BY <2>1, <2>3
  <2>4. QED
    BY <2>2, <2>3
<1>7. CASE Cli
  BY <1>7 DEF Cli
<1>8. CASE ServiceNothing \/ SleepingPass
  BY <1>4, <1>8 DEF ServiceNothing, SleepingPass
<1>9. CASE ServiceLatency
  BY <1>9 DEF ServiceLatency, Rearmed, HasPending
<1>10. CASE ServiceBlocked \/ Dispatch
  BY <1>10 DEF ServiceBlocked, Dispatch
<1>11. CASE ClassicDrop
  BY <1>11 DEF ClassicDrop, HasPending
<1>12. CASE ClassicCall
  BY <1>12 DEF ClassicCall
<1>13. QED
  BY <1>5, <1>6, <1>7, <1>8, <1>9, <1>10, <1>11, <1>12 DEF Service

\* Every step of the engine keeps the check armed.
LEMMA ArmedStep ==
    ASSUME Disciplined, QInv, Armed, [Next]_vars
    PROVE  Armed'
<1>1. CASE UNCHANGED vars
  BY <1>1 DEF vars, cpuint, Armed, Serviceable, Level, Nmi, CpuInt, HasPending
<1> SUFFICES ASSUME Next PROVE Armed'
  BY <1>1
<1>2. UNCHANGED part /\ QInv'
  BY QInvStep DEF Next
<1>3. ASSUME NEW v \in part.vector, Raise(v) PROVE Armed'
  BY <1>2, <1>3, RaiseArms
<1>4. CASE Instruction \/ Service \/ SleepingPass
  BY <1>2, <1>4, ModernArms, ClassicArms
<1>5. CASE Reset
  <2>1. pending' = {} /\ fifo' = << >> /\ ~iflag' /\ istate' = 0
    BY <1>5 DEF Reset
  <2>2. QED
    BY <2>1 DEF Armed
<1>6. QED
  BY <1>3, <1>4, <1>5 DEF Next

\* CPUINT: a request that could be serviced never waits for another interrupt
\* to arm the check.  Classic: neither, and the check reads no empty ring.
THEOREM ServiceIsArmed == Disciplined => (Spec => []ArmedForService)
<1> SUFFICES ASSUME Disciplined PROVE Spec => []ArmedForService
  OBVIOUS
<1>1. Init => Armed
  BY DEF Init, Armed
<1>2. QInv /\ Armed /\ [Next]_vars => Armed'
  BY ArmedStep
<1>3. QInv /\ Armed => ArmedForService
  BY CandidatesArePending DEF QInv, Armed, ArmedForService
<1>4. QED
  BY <1>1, <1>2, <1>3, QInvAlways, PTL DEF Spec

(***************************************************************************)
(* Round robin                                                             *)
(***************************************************************************)

\* Adding the modulus once or twice does not change a remainder.
LEMMA SameRemainder ==
    ASSUME NEW M \in Nat, M > 0, NEW r \in 0 .. M - 1
    PROVE  (r + M) % M = r /\ (r + 2 * M) % M = r
OBVIOUS

\* With the vector p acknowledged last, p is last and every other one before.
LEMMA RotationOrder ==
    ASSUME NEW M \in Nat, NEW p \in 1 .. M - 1, NEW w \in 1 .. M - 1, w # p
    PROVE  (w - 1 - p + 2 * M) % M < (p - 1 - p + 2 * M) % M
<1>1. M > 0
  OBVIOUS
<1>2. (p - 1 - p + 2 * M) % M = M - 1
  <2>1. M - 1 \in 0 .. M - 1 /\ p - 1 - p + 2 * M = (M - 1) + M
    BY <1>1
  <2>2. QED
    BY <1>1, <2>1, SameRemainder
<1>3. CASE w > p
  <2> DEFINE r == w - 1 - p
  <2>1. r \in 0 .. M - 1 /\ r < M - 1 /\ w - 1 - p + 2 * M = r + 2 * M
    BY <1>3
  <2> HIDE DEF r
  <2>2. QED
    BY <1>1, <1>2, <2>1, SameRemainder
<1>4. CASE w < p
  <2> DEFINE r == w - 1 - p + M
  <2>1. r \in 0 .. M - 1 /\ r < M - 1 /\ w - 1 - p + 2 * M = r + M
    BY <1>4
  <2> HIDE DEF r
  <2>2. QED
    BY <1>1, <1>2, <2>1, SameRemainder
<1>5. QED
  BY <1>3, <1>4

\* Vectors are numbered from one to the highest.
LEMMA MaxVectorIsGreatest ==
    ASSUME part \in Part
    PROVE  /\ MaxVector \in Nat
           /\ \A v \in part.vector : v \in 1 .. MaxVector
<1>1. part.vector \in SUBSET Nat /\ IsFiniteSet(part.vector) /\ part.vector # {}
  BY PartType, VectorAssumption, FS_Subset
<1>2. \E m \in part.vector : \A v \in part.vector : v <= m
  BY <1>1, GreatestExists
<1>3. MaxVector \in part.vector /\ \A v \in part.vector : v <= MaxVector
  BY <1>2, Zenon DEF MaxVector
<1>4. part.vector \subseteq Nat \ {0}
  BY PartType, VectorAssumption
<1>5. QED
  BY <1>3, <1>4

\* Under round robin a vector that has been acknowledged comes after every
\* other one of level 0.
THEOREM RoundRobinRotates == Spec => AcknowledgedComesLast
<1> DEFINE LastOf(v, w) ==
             /\ Dispatch /\ v \in pending \ pending' /\ v # w
             /\ lvl0rr /\ Level(v) = 0 /\ Level(w) = 0
             => Rank(w)' < Rank(v)'
<1>1. ASSUME QInv, Next, NEW v \in part.vector, NEW w \in part.vector
      PROVE  LastOf(v, w)
  <2>1. SUFFICES ASSUME Dispatch, v \in pending \ pending', v # w,
                        lvl0rr, Level(v) = 0, Level(w) = 0
                 PROVE  Rank(w)' < Rank(v)'
    OBVIOUS
  <2>2. part' = part /\ lvl1vec' = lvl1vec
    BY <1>1, <2>1 DEF Next, Dispatch
  <2>3. v = fifo[BestPlace]
    BY <2>1 DEF Dispatch, Cleared
  <2>4. lvl0pri' = v
    BY <2>1, <2>3 DEF Dispatch, Rotated
  <2>5. /\ MaxVector' = MaxVector /\ Level(v)' = 0 /\ Level(w)' = 0
    BY <2>1, <2>2 DEF MaxVector, Level, Nmi
  <2> DEFINE M == MaxVector + 1
  <2>6. /\ Rank(v)' = (v - 1 - v + 2 * M) % M
        /\ Rank(w)' = (w - 1 - v + 2 * M) % M
    BY <2>4, <2>5 DEF Rank
  <2>7. M \in Nat /\ v \in 1 .. M - 1 /\ w \in 1 .. M - 1
    BY <1>1, MaxVectorIsGreatest DEF QInv, TypeOK
  <2> HIDE DEF M
  <2>8. QED
    BY <2>1, <2>6, <2>7, RotationOrder
<1>2. QInv /\ [Next]_vars => [\A v, w \in part.vector : LastOf(v, w)]_vars
  BY <1>1
<1>3. QED
  BY <1>2, QInvAlways, PTL DEF Spec, AcknowledgedComesLast

=============================================================================
