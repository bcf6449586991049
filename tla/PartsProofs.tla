----------------------------- MODULE PartsProofs -----------------------------
(***************************************************************************)
(* The invariants of the peripherals that wait on cycle timers, but for    *)
(* the classic timer and the player of traces: that each holds initially   *)
(* (...InitHolds), is kept by every step of the peripheral (...Keeps), and *)
(* shows the properties of the peripheral (...Shows).  The real time       *)
(* counter is also shown to be one that counts in every cycle.             *)
(***************************************************************************)
EXTENDS TimerProofs, FiniteSetTheorems, WellFoundedInduction, SequenceTheorems

-----------------------------------------------------------------------------
(* Least and greatest numbers *)

\* The numbers from one to n are n in number.
LEMMA UpTo ==
    ASSUME NEW n \in Nat
    PROVE  IsFiniteSet(1 .. n) /\ Cardinality(1 .. n) = n
<1>1. /\ IsFiniteSet(1 .. n)
      /\ Cardinality(1 .. n) = IF 1 > n THEN 0 ELSE n - 1 + 1
  <2>1. 1 \in Int /\ n \in Int
    OBVIOUS
  <2>2. QED
    BY <2>1, FS_Interval, Zenon
<1>2. (IF 1 > n THEN 0 ELSE n - 1 + 1) = n
  OBVIOUS
<1>3. Cardinality(1 .. n) = n
  BY <1>1, <1>2
<1>4. QED
  BY <1>1, <1>3, Zenon

\* A non-empty set of natural numbers has a least element.
LEMMA LeastExists ==
    ASSUME NEW N \in SUBSET Nat, N # {}
    PROVE  \E x \in N : \A y \in N : x <= y
<1>1. PICK x \in N : \A y \in N : ~(<<y, x>> \in OpToRel(<, Nat))
  BY NatLessThanWellFounded, WFMin, Zenon
<1>2. ASSUME NEW y \in N, y < x PROVE FALSE
  <2>1. <<y, x>> \in Nat \X Nat /\ <<y, x>>[1] < <<y, x>>[2]
    BY <1>2
  <2>2. <<y, x>> \in OpToRel(<, Nat)
    BY <2>1, Zenon DEF OpToRel
  <2>3. QED
    BY <2>2, <1>1, Zenon
<1>3. QED
  BY <1>2

\* A finite set of natural numbers is bounded: the least unbounded subset
\* would be bounded without one of its elements, and so be bounded.
LEMMA FiniteIsBounded ==
    ASSUME NEW N \in SUBSET Nat, IsFiniteSet(N)
    PROVE  \E b \in Nat : \A x \in N : x <= b
<1> DEFINE Bounded(T) == \E b \in Nat : \A x \in T : x <= b
           Unbounded == {T \in SUBSET N : ~Bounded(T)}
<1>1. SUFFICES ASSUME N \in Unbounded PROVE FALSE
  OBVIOUS
<1>2. Unbounded \subseteq FiniteSubsetsOf(N)
  BY FS_FiniteSubsetsOfFinite
<1>3. PICK T \in Unbounded : \A U \in Unbounded : ~(<<U, T>> \in StrictSubsetOrdering(N))
  <2> HIDE DEF Unbounded
  <2>1. IsWellFoundedOn(StrictSubsetOrdering(N), FiniteSubsetsOf(N))
    BY FS_StrictSubsetOrderingWellFounded
  <2>2. QED
    BY <1>1, <1>2, <2>1, WFMin
<1>4. T # {}
  <2>1. Bounded({})
    OBVIOUS
  <2>2. QED
    BY <2>1
<1>5. PICK x \in T : TRUE
  BY <1>4
<1>6. Bounded(T \ {x})
  <2>1. <<T \ {x}, T>> \in (SUBSET N) \X (SUBSET N) /\ T \ {x} \subseteq T /\ T \ {x} # T
    BY <1>5
  <2>2. <<T \ {x}, T>> \in StrictSubsetOrdering(N)
    BY <2>1, Zenon DEF StrictSubsetOrdering
  <2>3. QED
    BY <2>2, <1>3
<1>7. PICK b \in Nat : \A y \in T \ {x} : y <= b
  BY <1>6
<1>8. x \in Nat /\ T \in SUBSET Nat
  BY <1>5
<1>9. \A y \in T : y <= b + x
  BY <1>7, <1>8
<1>10. Bounded(T)
  BY <1>8, <1>9
<1>11. QED
  BY <1>10

\* A finite non-empty set of natural numbers has a greatest element.
LEMMA GreatestExists ==
    ASSUME NEW N \in SUBSET Nat, IsFiniteSet(N), N # {}
    PROVE  \E m \in N : \A x \in N : x <= m
<1>1. PICK b \in Nat : \A x \in N : x <= b
  BY FiniteIsBounded
<1> DEFINE gaps == {b - x : x \in N}
<1>2. gaps \in SUBSET Nat /\ gaps # {}
  <2>1. \A x \in N : b - x \in Nat
    BY <1>1
  <2>2. QED
    BY <2>1
<1>3. PICK d \in gaps : \A e \in gaps : d <= e
  <2> HIDE DEF gaps
  <2>1. QED
    BY <1>2, LeastExists
<1>4. PICK m \in N : d = b - m
  BY <1>3
<1>5. \A x \in N : x <= m
  BY <1>3, <1>4, <1>1
<1>6. QED
  BY <1>5

-----------------------------------------------------------------------------
(* The external interrupt *)

\* What the level asked for lasts as long as the level.
ExtintInv == EX!TypeOK /\ EX!WorkIsTimed /\ (level => isc = "low" /\ pin = 0)

LEMMA ExtintInitHolds ==
    ASSUME EX!WellFormed, EX!Init
    PROVE  ExtintInv
<1>1. EX!TypeOK
  <2>1. 0 \in 0 .. MaxPolls
    BY DEF EX!WellFormed
  <2>2. QED  BY <2>1, Zenon DEF EX!Init, EX!TypeOK, EX!Senses
<1>2. EX!WorkIsTimed /\ ~level
  BY Zenon DEF EX!Init, EX!WorkIsTimed
<1>3. QED  BY <1>1, <1>2 DEF ExtintInv

\* The low level requests the interrupt and starts the poll
\* (avr_extint_raise_level).
LEMMA RaiseLevelPolls ==
    ASSUME EX!WellFormed, ExtintInv, NEW b \in BOOLEAN, EX!RaiseLevel(b), isc' = "low",
           pin' = 0, enable' \in BOOLEAN, sregI' \in BOOLEAN
    PROVE  ExtintInv'
<1>1. EX!TypeOK /\ EX!WorkIsTimed
  BY DEF ExtintInv
<1>2. flag' = FALSE /\ pending' = (pending \/ b)
  BY DEF EX!RaiseLevel
<1>3. /\ live' \in BOOLEAN /\ level' \in BOOLEAN
      /\ level' => live'
  BY <1>1, <1>2 DEF EX!TypeOK, EX!WorkIsTimed, EX!RaiseLevel, EX!StartPoll, EX!Starts, EX!polling
<1>4. polls' \in 0 .. MaxPolls /\ polls' = IF live' THEN 1 ELSE 0
  BY <1>1 DEF EX!WellFormed, EX!TypeOK, EX!WorkIsTimed, EX!RaiseLevel, EX!StartPoll, EX!Starts,
              EX!polling
<1>5. EX!TypeOK'
  BY <1>1, <1>2, <1>3, <1>4 DEF EX!TypeOK, EX!Senses
<1>6. EX!WorkIsTimed'
  BY <1>2, <1>3, <1>4 DEF EX!WorkIsTimed
<1>7. QED  BY <1>5, <1>6 DEF ExtintInv

LEMMA ExtintKeeps ==
    ASSUME EX!WellFormed, ExtintInv, EX!Next
    PROVE  ExtintInv'
<1>1. EX!TypeOK /\ EX!WorkIsTimed /\ (level => isc = "low" /\ pin = 0)
  BY DEF ExtintInv
<1>2. ASSUME NEW v \in {0, 1}, EX!PinIs(v)
      PROVE  ExtintInv'
  <2>1. pin' = v /\ UNCHANGED <<isc, enable, sregI>>
    BY <1>2 DEF EX!PinIs
  <2>2. CASE isc = "low" /\ v = 0 /\ EX!RaiseLevel(enable)
    BY <1>1, <2>1, <2>2, RaiseLevelPolls DEF EX!TypeOK
  <2>3. CASE EX!Raise /\ EX!Edge(v)
    <3>1. isc # "low" /\ flag' = TRUE /\ pending' = (pending \/ enable)
          /\ UNCHANGED <<live, polls, level>>
      BY <2>3 DEF EX!Raise, EX!Edge, EX!polling
    <3>2. QED  BY <1>1, <2>1, <3>1 DEF ExtintInv, EX!TypeOK, EX!WorkIsTimed
  <2>4. CASE UNCHANGED <<flag, pending, live, polls, level>> /\ (isc = "low" => v = 0)
    BY <1>1, <2>1, <2>4 DEF ExtintInv, EX!TypeOK, EX!WorkIsTimed
  <2>5. CASE /\ flag' = FALSE /\ pending' = FALSE /\ EX!Quiet(v, isc)
             /\ UNCHANGED <<live, polls>>
    BY <1>1, <2>1, <2>5 DEF EX!Quiet, ExtintInv, EX!TypeOK, EX!WorkIsTimed
  <2>6. QED  BY <1>2, <2>2, <2>3, <2>4, <2>5 DEF EX!PinIs, EX!request, EX!polling
<1>3. ASSUME NEW sense \in EX!Senses, NEW b \in BOOLEAN, EX!WriteSense(sense, b)
      PROVE  ExtintInv'
  <2>1. isc' = sense /\ enable' = b /\ UNCHANGED <<pin, sregI>>
    BY <1>3 DEF EX!WriteSense
  <2>2. CASE sense = "low" /\ pin = 0 /\ EX!RaiseLevel(b)
    BY <1>1, <2>1, <2>2, RaiseLevelPolls DEF EX!TypeOK
  <2>3. CASE /\ flag' = (flag /\ sense # "low") /\ EX!Quiet(pin, sense)
             /\ UNCHANGED <<pending, live, polls>>
    BY <1>1, <2>1, <2>3 DEF EX!Quiet, ExtintInv, EX!TypeOK, EX!WorkIsTimed
  <2>4. QED  BY <1>3, <2>2, <2>3 DEF EX!WriteSense
<1>4. ASSUME EX!Poll
      PROVE  ExtintInv'
  <2>1. UNCHANGED <<pin, isc, enable, sregI>> /\ polls > 0
    BY <1>4 DEF EX!Poll
  <2>2. live /\ polls = 1
    BY <1>1, <2>1 DEF EX!WorkIsTimed
  <2>3. CASE isc # "low" \/ pin = 1
    <3>1. polls' = polls - 1 /\ live' = FALSE /\ UNCHANGED <<flag, pending, level>>
      BY <1>4, <2>3, Zenon DEF EX!Poll, EX!request
    <3>2. polls' = 0 /\ 0 \in 0 .. MaxPolls
      BY <2>2, <3>1 DEF EX!WellFormed
    <3>3. EX!TypeOK'
      BY <1>1, <2>1, <3>1, <3>2, Zenon DEF EX!TypeOK
    <3>4. ~level' /\ (flag' => isc' # "low")
      BY <1>1, <2>1, <2>3, <3>1 DEF EX!WorkIsTimed
    <3>5. EX!WorkIsTimed'
      BY <3>1, <3>2, <3>4, Zenon DEF EX!WorkIsTimed
    <3>6. QED  BY <3>3, <3>4, <3>5 DEF ExtintInv
  <2>4. CASE ~(isc # "low" \/ pin = 1)
    <3>1. pin = 0 /\ isc = "low"
      BY <1>1, <2>4 DEF EX!TypeOK
    <3>2. UNCHANGED <<live, polls>>
      BY <1>4, <2>4 DEF EX!Poll
    <3>3. \/ pending' = enable /\ flag' = FALSE /\ level' = (level \/ enable)
          \/ UNCHANGED <<flag, pending, level>>
      BY <1>4, <2>4 DEF EX!Poll, EX!request
    <3>4. EX!TypeOK'
      BY <1>1, <2>1, <3>2, <3>3 DEF EX!TypeOK
    <3>5. EX!WorkIsTimed'
      BY <1>1, <2>1, <2>2, <3>2, <3>3 DEF EX!WorkIsTimed
    <3>6. QED  BY <2>1, <3>1, <3>4, <3>5 DEF ExtintInv
  <2>5. QED  BY <2>3, <2>4
<1>5. ASSUME EX!Serve \/ \E i \in BOOLEAN : EX!SetI(i)
      PROVE  ExtintInv'
  <2>1. UNCHANGED <<pin, isc, enable, live, polls, level>>
    BY <1>5 DEF EX!Serve, EX!SetI, EX!polling
  <2>2. flag' \in {flag, flag /\ ~enable} /\ pending' \in BOOLEAN /\ sregI' \in BOOLEAN
    BY <1>1, <1>5 DEF EX!Serve, EX!SetI, EX!request, EX!TypeOK
  <2>3. QED  BY <1>1, <2>1, <2>2 DEF ExtintInv, EX!TypeOK, EX!WorkIsTimed
<1>6. ASSUME EX!Reset
      PROVE  ExtintInv'
  <2>1. EX!TypeOK'
    <3>1. 0 \in 0 .. MaxPolls
      BY DEF EX!WellFormed
    <3>2. QED  BY <1>1, <1>6, <3>1, Zenon DEF EX!Reset, EX!TypeOK, EX!Senses
  <2>2. EX!WorkIsTimed' /\ ~level'
    BY <1>6, Zenon DEF EX!Reset, EX!WorkIsTimed
  <2>3. QED  BY <2>1, <2>2 DEF ExtintInv
<1>7. isc \in EX!Senses /\ enable \in BOOLEAN
  BY <1>1 DEF EX!TypeOK
<1>8. QED  BY <1>2, <1>3, <1>4, <1>5, <1>6, <1>7 DEF EX!Next

-----------------------------------------------------------------------------
(* The classic USART *)

\* The pump runs exactly while there are bytes, and a receiver that is off has
\* none; an overrun is of a full fifo; and a sender that may send knows of room.
FifoKept ==
    /\ rxPump <=> input > 0
    /\ input > 0 => rxen
    /\ rxc => input > 0
    /\ dor /\ input > 0 => input = Room
    /\ xon => xoff # 1 /\ input < Room
    /\ rxen /\ ~xon => input > 0

NothingRejected ==
    rejectedAt \in {UA!Nowhere, Room} /\ (part.polite => rejectedAt = UA!Nowhere)

TransmitterTimed ==
    (txCnt > 0 => txPump) /\ (txen /\ ~txPump => udre)

UartInv == UA!TypeOK /\ FifoKept /\ NothingRejected /\ TransmitterTimed

LEMMA UartInitHolds ==
    ASSUME UA!WellFormed, UA!Init
    PROVE  UartInv
<1>1. /\ 0 \in 0 .. Room /\ 0 \in 0 .. 2 /\ 0 \in 0 .. TxCounts - 1 /\ -1 \in -1 .. Room
      /\ ~(0 > 0) /\ 0 < Room /\ -1 # 1
  BY DEF UA!WellFormed
<1>2. UA!TypeOK
  BY <1>1, Zenon DEF UA!Init, UA!TypeOK, UA!Unset, UA!Nowhere
<1>3. FifoKept
  BY <1>1, Zenon DEF UA!Init, FifoKept
<1>4. NothingRejected
  BY Zenon DEF UA!Init, NothingRejected
<1>5. TransmitterTimed
  BY <1>1, Zenon DEF UA!Init, TransmitterTimed
<1>6. QED  BY <1>2, <1>3, <1>4, <1>5 DEF UartInv

\* The first byte starts the pump, one that comes to a full fifo is lost
\* (avr_uart_irq_input).
LEMMA ReceiveKeeps ==
    ASSUME UA!WellFormed, UartInv, UA!Receive
    PROVE  UartInv'
<1>1. UA!TypeOK /\ FifoKept /\ NothingRejected /\ TransmitterTimed
  BY DEF UartInv
<1>2. /\ input \in 0 .. Room /\ Room \in Nat \ {0} /\ rxCnt \in 0 .. 2 /\ rejectedAt \in -1 .. Room
      /\ rxen \in BOOLEAN /\ xon \in BOOLEAN /\ dor \in BOOLEAN /\ rxPump \in BOOLEAN
  BY <1>1 DEF UA!WellFormed, UA!TypeOK, UA!Nowhere
<1>3. /\ rxen /\ (xon \/ ~part.polite)
      /\ UNCHANGED <<part, rxen, txen, udrie, rxc, udre, txPump, txCnt, txc>>
  BY DEF UA!Receive, UA!enables, UA!transmitter
<1>4. rxPump => input # 0
  BY <1>1, <1>2 DEF FifoKept
<1>5. CASE input = 0
  <2>1. ~rxPump
    BY <1>4, <1>5
  <2>2. /\ rxPump' = TRUE /\ rxCnt' = 0 /\ dor' = FALSE /\ input' = input + 1
        /\ rejectedAt' = rejectedAt
    BY <1>5, <2>1, Zenon DEF UA!Receive
  <2>3. input' = 1 /\ input' \in 0 .. Room /\ 0 \in 0 .. 2
    BY <1>2, <1>5, <2>2
  <2>4. /\ xon' \in BOOLEAN /\ xoff' \in {UA!Unset, 0, 1} /\ (xon' => xoff' # 1)
        /\ (xon' => input' # Room)
    BY <1>1 DEF UA!Receive, UA!Full, UA!TellFull, UA!flow, UA!TypeOK, FifoKept
  <2>5. UA!TypeOK'
    BY <1>1, <1>3, <2>2, <2>3, <2>4, Zenon DEF UA!TypeOK
  <2>6. FifoKept'
    <3>1. input' > 0 /\ (xon' => input' < Room)
      BY <1>2, <2>3, <2>4
    <3>2. dor' = FALSE /\ rxPump' /\ rxen'
      BY <1>3, <2>2, Zenon
    <3>3. QED  BY <2>4, <3>1, <3>2 DEF FifoKept
  <2>7. QED  BY <1>1, <1>3, <2>2, <2>5, <2>6 DEF UartInv, NothingRejected, TransmitterTimed
<1>6. CASE input # 0 /\ (input = Room \/ dor)
  <2>1. /\ rxPump' = rxPump /\ rxCnt' = rxCnt /\ dor' = TRUE /\ input' = input
        /\ rejectedAt' = input
    <3>1. ~(input = 0 /\ ~rxPump)
      BY <1>6
    <3>2. /\ rxPump' = (rxPump \/ FALSE) /\ rxCnt' = rxCnt /\ dor' = (input = Room \/ dor)
          /\ input' = input /\ rejectedAt' = input
      BY <1>6, <3>1, Zenon DEF UA!Receive
    <3>3. QED  BY <1>2, <1>6, <3>2
  <2>2. input = Room /\ input > 0 /\ input \in -1 .. Room
    BY <1>1, <1>2, <1>6 DEF FifoKept
  <2>3. xon = FALSE /\ ~part.polite
    BY <1>1, <1>2, <1>3, <2>2 DEF FifoKept
  <2>4. xon' = FALSE /\ xoff' \in {UA!Unset, 0, 1} /\ xoff' = 1
    BY <2>1, <2>2, <2>3 DEF UA!Receive, UA!Full, UA!TellFull
  <2>5. UA!TypeOK'
    BY <1>1, <1>2, <1>3, <2>1, <2>2, <2>4, Zenon DEF UA!TypeOK, UA!Nowhere
  <2>6. FifoKept'
    BY <1>1, <1>3, <2>1, <2>2, <2>4 DEF FifoKept
  <2>7. NothingRejected'
    BY <1>3, <2>1, <2>2, <2>3 DEF NothingRejected
  <2>8. QED  BY <1>1, <1>3, <2>5, <2>6, <2>7 DEF UartInv, TransmitterTimed
<1>7. CASE input # 0 /\ input # Room /\ ~dor
  <2>1. /\ rxPump' = rxPump /\ rxCnt' = rxCnt /\ dor' = FALSE /\ input' = input + 1
        /\ rejectedAt' = rejectedAt
    <3>1. ~(input = 0 /\ ~rxPump)
      BY <1>7
    <3>2. /\ rxPump' = (rxPump \/ FALSE) /\ rxCnt' = rxCnt /\ dor' = (input = Room \/ dor)
          /\ input' = input + 1 /\ rejectedAt' = rejectedAt
      BY <1>7, <3>1, Zenon DEF UA!Receive
    <3>3. QED  BY <1>2, <1>7, <3>2
  <2>2. input' \in 0 .. Room /\ input > 0 /\ input' > 0
    BY <1>2, <1>7, <2>1
  <2>3. /\ xon' \in BOOLEAN /\ xoff' \in {UA!Unset, 0, 1} /\ (xon' => xoff' # 1)
        /\ (xon' => input' # Room)
    BY <1>1 DEF UA!Receive, UA!Full, UA!TellFull, UA!flow, UA!TypeOK, FifoKept
  <2>4. UA!TypeOK'
    BY <1>1, <1>3, <2>1, <2>2, <2>3, Zenon DEF UA!TypeOK
  <2>5. FifoKept'
    <3>1. xon' => input' < Room
      BY <1>2, <2>2, <2>3
    <3>2. QED  BY <1>1, <1>3, <2>1, <2>2, <2>3, <3>1 DEF FifoKept
  <2>6. QED  BY <1>1, <1>3, <2>1, <2>4, <2>5 DEF UartInv, NothingRejected, TransmitterTimed
<1>8. QED  BY <1>5, <1>6, <1>7

\* A read takes a byte, and the last one lets the sender go (avr_uart_read).
LEMMA ReadKeeps ==
    ASSUME UA!WellFormed, UartInv, NEW fast \in BOOLEAN, UA!ReadData(fast)
    PROVE  UartInv'
<1>1. UA!TypeOK /\ FifoKept /\ NothingRejected /\ TransmitterTimed
  BY DEF UartInv
<1>2. /\ input \in 0 .. Room /\ Room \in Nat \ {0} /\ rxCnt \in 0 .. 2
      /\ rxen \in BOOLEAN /\ xon \in BOOLEAN /\ dor \in BOOLEAN /\ rxPump \in BOOLEAN
      /\ rxc \in BOOLEAN
  BY <1>1 DEF UA!WellFormed, UA!TypeOK
<1> DEFINE count == IF rxCnt < 2 THEN rxCnt + 1 ELSE 2
           throttled == UA!Readable /\ count > 1 /\ fast
<1>3. /\ input' = IF UA!Readable THEN input - 1 ELSE input
      /\ rxCnt' = IF ~UA!Readable THEN rxCnt ELSE IF throttled THEN 0 ELSE count
      /\ rxc' = (rxc /\ ~throttled /\ input' # 0)
      /\ rxPump' = (rxPump /\ input' # 0)
      /\ dor' = (dor /\ input' = Room)
      /\ IF input' = 0 THEN UA!TellRoom ELSE UNCHANGED <<xoff, xon>>
  BY Zenon DEF UA!ReadData, UA!flow
<1>4. UNCHANGED <<part, rxen, txen, udrie, rejectedAt, udre, txPump, txCnt, txc>>
  BY DEF UA!ReadData, UA!enables, UA!transmitter
<1>5. input' \in 0 .. Room /\ input' <= input /\ (UA!Readable => input > 0)
  BY <1>2, <1>3 DEF UA!Readable
<1>6. rxCnt' \in 0 .. 2
  <2>1. count \in 0 .. 2 /\ 0 \in 0 .. 2
    BY <1>2
  <2> HIDE DEF count, throttled
  <2>2. QED  BY <1>2, <1>3, <2>1
<1> HIDE DEF count, throttled
<1>7. rxc' \in BOOLEAN /\ rxPump' \in BOOLEAN /\ dor' \in BOOLEAN
  BY <1>3
<1>8. xoff' \in {UA!Unset, 0, 1} /\ xon' \in BOOLEAN /\ (input' = 0 => xon' /\ xoff' = 0)
  BY <1>1, <1>3 DEF UA!TellRoom, UA!TypeOK
<1>9. UA!TypeOK'
  BY <1>1, <1>4, <1>5, <1>6, <1>7, <1>8, Zenon DEF UA!TypeOK
<1>10. input' # 0 => UNCHANGED <<xoff, xon>>
  BY <1>3
<1>11. FifoKept'
  <2>1. (rxPump' <=> input' > 0) /\ (input' > 0 => rxen') /\ (rxc' => input' > 0)
    BY <1>1, <1>2, <1>3, <1>4, <1>5 DEF FifoKept
  <2>2. dor' /\ input' > 0 => input' = Room
    BY <1>3
  <2>3. xon' => xoff' # 1 /\ input' < Room
    <3>1. CASE input' = 0
      BY <1>2, <1>8, <3>1
    <3>2. CASE input' # 0
      <4>1. xon' = xon /\ xoff' = xoff
        BY <1>10, <3>2
      <4>2. xon => xoff # 1 /\ input < Room
        BY <1>1 DEF FifoKept
      <4>3. QED  BY <1>2, <1>5, <4>1, <4>2
    <3>3. QED  BY <3>1, <3>2
  <2>4. rxen' /\ ~xon' => input' > 0
    BY <1>5, <1>8
  <2>5. QED  BY <2>1, <2>2, <2>3, <2>4 DEF FifoKept
<1>12. QED
  BY <1>1, <1>4, <1>9, <1>11 DEF UartInv, NothingRejected, TransmitterTimed

\* The byte that was sent last raises TXC (avr_uart_udr_write,
\* avr_uart_txc_raise).
LEMMA TransmitKeeps ==
    ASSUME UA!WellFormed, UartInv, UA!WriteData \/ UA!TxPumps \/ UA!ServeTxc
    PROVE  UartInv'
<1>1. UA!TypeOK /\ FifoKept /\ NothingRejected /\ TransmitterTimed
  BY DEF UartInv
<1>2. /\ txCnt \in 0 .. TxCounts - 1 /\ TxCounts \in Nat \ {0}
      /\ txen \in BOOLEAN /\ udrie \in BOOLEAN /\ txPump \in BOOLEAN /\ udre \in BOOLEAN
      /\ txc \in BOOLEAN
  BY <1>1 DEF UA!WellFormed, UA!TypeOK
<1>3. UNCHANGED <<part, rxen, txen, udrie, rxc, dor, input, rxPump, rxCnt, rejectedAt, xoff, xon>>
  BY DEF UA!WriteData, UA!TxPumps, UA!ServeTxc, UA!enables, UA!receiver, UA!flow
<1>4. txc' \in BOOLEAN /\ udre' \in BOOLEAN /\ txPump' \in BOOLEAN
  BY <1>2 DEF UA!WriteData, UA!TxPumps, UA!ServeTxc, UA!transmitter
<1>5. txCnt' \in 0 .. TxCounts - 1
  <2>1. UA!WriteData => txCnt' \in {txCnt, (txCnt + 1) % TxCounts}
    BY DEF UA!WriteData
  <2>2. (txCnt + 1) % TxCounts \in 0 .. TxCounts - 1
    BY <1>2
  <2>3. UA!TxPumps => txCnt' = IF txCnt > 0 THEN txCnt - 1 ELSE 0
    BY DEF UA!TxPumps
  <2>4. UA!ServeTxc => txCnt' = txCnt
    BY DEF UA!ServeTxc, UA!transmitter
  <2>5. QED  BY <1>2, <2>1, <2>2, <2>3, <2>4
<1>6. UA!TypeOK'
  BY <1>1, <1>3, <1>4, <1>5, Zenon DEF UA!TypeOK
<1>7. FifoKept' /\ NothingRejected'
  BY <1>1, <1>3 DEF FifoKept, NothingRejected
<1>8. TransmitterTimed'
  <2>1. ASSUME UA!WriteData PROVE TransmitterTimed'
    <3>1. txPump' = (txPump \/ txen) /\ (~txen => txCnt' = txCnt)
      BY <2>1 DEF UA!WriteData
    <3>2. QED  BY <1>1, <1>3, <3>1 DEF TransmitterTimed
  <2>2. ASSUME UA!TxPumps PROVE TransmitterTimed'
    <3>1. /\ txPump' = (txCnt' > 0 \/ (txen /\ udrie))
          /\ ~(txCnt' > 0) => udre' = (udre \/ txen)
      BY <2>2, Zenon DEF UA!TxPumps
    <3>2. QED  BY <1>3, <3>1 DEF TransmitterTimed
  <2>3. ASSUME UA!ServeTxc PROVE TransmitterTimed'
    BY <1>1, <1>3, <2>3 DEF UA!ServeTxc, UA!transmitter, TransmitterTimed
  <2>4. QED  BY <2>1, <2>2, <2>3
<1>9. QED  BY <1>6, <1>7, <1>8 DEF UartInv

\* A receiver that starts tells of room, one that stops drops the fifo
\* (avr_uart_write).
LEMMA WriteControlKeeps ==
    ASSUME UA!WellFormed, UartInv, NEW receive \in BOOLEAN, NEW tx \in BOOLEAN, NEW ie \in BOOLEAN,
           UA!WriteControl(receive, tx, ie)
    PROVE  UartInv'
<1>1. UA!TypeOK /\ FifoKept /\ NothingRejected /\ TransmitterTimed
  BY DEF UartInv
<1>2. /\ input \in 0 .. Room /\ Room \in Nat \ {0} /\ rxen \in BOOLEAN /\ xon \in BOOLEAN
      /\ txen \in BOOLEAN /\ udrie \in BOOLEAN /\ udre \in BOOLEAN /\ txPump \in BOOLEAN
  BY <1>1 DEF UA!WellFormed, UA!TypeOK
<1>3. /\ rxen' = receive /\ txen' = tx /\ udrie' = ie
      /\ UNCHANGED <<part, txPump, txCnt, txc>>
      /\ udre' = IF tx # txen THEN tx ELSE udre \/ UA!Raises(tx, ie)
  BY DEF UA!WriteControl
<1>4. UA!Raises(tx, ie) \in BOOLEAN
  BY DEF UA!Raises
<1>5. udre' \in BOOLEAN
  BY <1>2, <1>3, <1>4
<1>6. TransmitterTimed'
  BY <1>1, <1>2, <1>3, <1>4 DEF TransmitterTimed
<1>7. CASE receive = rxen
  <2>1. UNCHANGED <<rxc, dor, input, rxPump, rxCnt, rejectedAt, xoff, xon>>
    BY <1>7 DEF UA!WriteControl, UA!receiver, UA!flow
  <2>2. UA!TypeOK'
    BY <1>1, <1>3, <1>5, <2>1, ZenonT(30) DEF UA!TypeOK
  <2>3. FifoKept' /\ NothingRejected'
    BY <1>1, <1>3, <1>7, <2>1 DEF FifoKept, NothingRejected
  <2>4. QED  BY <1>6, <2>2, <2>3 DEF UartInv
<1>8. CASE receive # rxen /\ UA!StartReceiver
  <2>1. ~rxen /\ UNCHANGED <<rxc, dor, input, rxPump, rxCnt, rejectedAt>>
    BY <1>8 DEF UA!StartReceiver, UA!receiver
  <2>2. input = 0
    BY <1>1, <1>2, <2>1 DEF FifoKept
  <2>3. xoff' = 0 /\ xon' = TRUE
    BY <1>8, <2>2 DEF UA!StartReceiver, UA!TellRoom
  <2>4. UA!TypeOK'
    BY <1>1, <1>3, <1>5, <2>1, <2>3, Zenon DEF UA!TypeOK
  <2>5. FifoKept'
    BY <1>1, <1>2, <1>3, <2>1, <2>2, <2>3 DEF FifoKept
  <2>6. QED  BY <1>1, <1>3, <1>6, <2>1, <2>4, <2>5 DEF UartInv, NothingRejected
<1>9. CASE receive # rxen /\ UA!StopReceiver
  <2>1. /\ rxen /\ rxPump' = FALSE /\ input' = 0 /\ rxc' = FALSE
        /\ UNCHANGED <<dor, rxCnt, rejectedAt>> /\ xoff' = 1 /\ xon' = (xon /\ xoff = 1)
    BY <1>9, Zenon DEF UA!StopReceiver, UA!TellFull
  <2>2. xon' = FALSE /\ ~rxen'
    BY <1>1, <1>2, <1>3, <1>9, <2>1 DEF FifoKept
  <2>3. 0 \in 0 .. Room /\ ~(0 > 0)
    BY <1>2
  <2>4. UA!TypeOK'
    BY <1>1, <1>3, <1>5, <2>1, <2>2, <2>3, Zenon DEF UA!TypeOK
  <2>5. FifoKept'
    BY <2>1, <2>2, <2>3, Zenon DEF FifoKept
  <2>6. QED  BY <1>1, <1>3, <1>6, <2>1, <2>4, <2>5 DEF UartInv, NothingRejected
<1>10. QED  BY <1>7, <1>8, <1>9 DEF UA!WriteControl

LEMMA UartKeeps ==
    ASSUME UA!WellFormed, UartInv, UA!Next
    PROVE  UartInv'
<1>1. UA!TypeOK /\ FifoKept /\ NothingRejected /\ TransmitterTimed
  BY DEF UartInv
<1>2. input \in 0 .. Room /\ Room \in Nat \ {0} /\ rxCnt \in 0 .. 2 /\ TxCounts \in Nat \ {0}
  BY <1>1 DEF UA!WellFormed, UA!TypeOK
<1>3. ASSUME UA!RxPumps
      PROVE  UartInv'
  <2>1. /\ UNCHANGED <<part, rxen, txen, udrie, dor, input, rejectedAt, xoff, xon, udre, txPump, txCnt>>
        /\ UNCHANGED txc /\ rxPump
    BY <1>3 DEF UA!RxPumps, UA!enables, UA!flow, UA!transmitter
  <2>2. input > 0 /\ rxen
    BY <1>1, <2>1 DEF FifoKept
  <2>3. rxc' = TRUE /\ rxCnt' = (IF rxc THEN rxCnt ELSE 0) /\ rxPump' = rxPump
    BY <1>3, <2>2 DEF UA!RxPumps
  <2>4. rxCnt' \in 0 .. 2
    BY <1>2, <2>3
  <2>5. UA!TypeOK'
    BY <1>1, <2>1, <2>3, <2>4, Zenon DEF UA!TypeOK
  <2>6. QED
    BY <1>1, <2>1, <2>2, <2>3, <2>5 DEF UartInv, FifoKept, NothingRejected, TransmitterTimed
<1>4. ASSUME UA!ReadStatus
      PROVE  UartInv'
  <2>1. /\ UNCHANGED <<part, rxen, txen, udrie, rxc, dor, input, rxPump, rxCnt, rejectedAt, udre>>
        /\ UNCHANGED <<txPump, txCnt, txc>> /\ input = 0 /\ xoff' = 0 /\ xon' = TRUE
    BY <1>4 DEF UA!ReadStatus, UA!TellRoom, UA!enables, UA!receiver, UA!transmitter
  <2>2. UA!TypeOK'
    BY <1>1, <2>1, Zenon DEF UA!TypeOK
  <2>3. FifoKept'
    BY <1>1, <1>2, <2>1 DEF FifoKept
  <2>4. QED  BY <1>1, <2>1, <2>2, <2>3 DEF UartInv, NothingRejected, TransmitterTimed
<1>5. ASSUME NEW clears \in BOOLEAN, UA!WriteStatus(clears)
      PROVE  UartInv'
  <2>1. /\ UNCHANGED <<part, rxen, txen, udrie, rxc, input, rxPump, rxCnt, rejectedAt, xoff, xon>>
        /\ UNCHANGED <<udre, txPump, txCnt>> /\ dor' = FALSE /\ txc' \in BOOLEAN
    BY <1>5 DEF UA!WriteStatus, UA!enables, UA!flow, UA!transmitter
  <2>2. UA!TypeOK'
    BY <1>1, <2>1, Zenon DEF UA!TypeOK
  <2>3. FifoKept'
    BY <1>1, <2>1 DEF FifoKept
  <2>4. QED  BY <1>1, <2>1, <2>2, <2>3 DEF UartInv, NothingRejected, TransmitterTimed
<1>6. ASSUME UA!Reset
      PROVE  UartInv'
  <2>1. 0 \in 0 .. Room /\ 0 \in 0 .. TxCounts - 1 /\ ~(0 > 0) /\ 0 < Room
    BY <1>2
  <2>2. UA!TypeOK'
    BY <1>1, <1>6, <2>1, Zenon DEF UA!Reset, UA!TypeOK, UA!flow
  <2>3. xon' => xoff' # 1
    BY <1>1, <1>6 DEF UA!Reset, UA!flow, FifoKept
  <2>4. FifoKept'
    BY <1>6, <2>1, <2>3, Zenon DEF UA!Reset, FifoKept
  <2>5. NothingRejected'
    BY <1>1, <1>6 DEF UA!Reset, NothingRejected
  <2>6. TransmitterTimed'
    BY <1>6, <2>1, Zenon DEF UA!Reset, TransmitterTimed
  <2>7. QED  BY <2>2, <2>4, <2>5, <2>6 DEF UartInv
<1>7. QED
  BY <1>3, <1>4, <1>5, <1>6, ReceiveKeeps, ReadKeeps, TransmitKeeps, WriteControlKeeps
     DEF UA!Next

LEMMA UartShows ==
    ASSUME UartInv
    PROVE  UA!WorkIsTimed /\ UA!SenderLosesNothing
BY DEF UartInv, FifoKept, NothingRejected, TransmitterTimed, UA!WorkIsTimed, UA!SenderLosesNothing,
       UA!Nowhere

-----------------------------------------------------------------------------
(* The classic ADC *)

\* Nothing triggers a conversion from outside but through the interlock of the
\* result, which is closed while ADCL was read and ADCH was not.
AdcInv ==
    /\ AD!TypeOK /\ AD!WorkIsTimed /\ AD!PairIsOneConversion
    /\ adcl # AD!Unread => interlock
    /\ orphan => adsc

LEMMA AdcInitHolds ==
    ASSUME AD!Init
    PROVE  AdcInv
<1>1. AD!TypeOK
  BY Zenon DEF AD!Init, AD!TypeOK
<1>2. AD!WorkIsTimed /\ AD!PairIsOneConversion /\ ~(adcl # AD!Unread) /\ ~orphan
  BY Zenon DEF AD!Init, AD!WorkIsTimed, AD!PairIsOneConversion
<1>3. QED  BY <1>1, <1>2 DEF AdcInv

\* A write of ADCSRA starts a conversion, or ends the one under way
\* (avr_adc_write_adcsra).
LEMMA WriteAdcsraKeeps ==
    ASSUME AdcInv, NEW en \in BOOLEAN, NEW sc \in BOOLEAN, NEW auto \in BOOLEAN,
           NEW clears \in BOOLEAN, AD!WriteAdcsra(en, sc, auto, clears)
    PROVE  /\ AD!WorkIsTimed' /\ (orphan' => adsc')
           /\ {aden', adsc', adate', adif', hooked', converting', raising', orphan'} \subseteq BOOLEAN
           /\ mode' \in {"none", "free", "vector"}
<1>1. AD!TypeOK /\ AD!WorkIsTimed
  BY DEF AdcInv
<1> DEFINE stays == adsc \/ sc
           stops == aden /\ ~en
           starts == en /\ ~adsc /\ sc
<1>2. /\ aden' = en /\ adate' = auto
      /\ adif' = (adif /\ ~clears)
      /\ adsc' = (stays /\ ~stops)
      /\ converting' = (~stops /\ (converting \/ starts))
      /\ raising' = (~stops /\ raising)
      /\ orphan' = (adsc' /\ (orphan \/ (~adsc /\ ~en)))
      /\ mode' = (IF auto THEN adts ELSE "none") /\ hooked' = (auto /\ adts = "vector")
  BY Zenon DEF AD!WriteAdcsra, AD!ConfigureTrigger
<1>3. /\ aden \in BOOLEAN /\ adsc \in BOOLEAN /\ converting \in BOOLEAN /\ raising \in BOOLEAN
      /\ orphan \in BOOLEAN /\ (orphan => adsc)
  BY <1>1 DEF AdcInv, AD!TypeOK
<1>4. AD!WorkIsTimed' /\ (orphan' => adsc')
  BY <1>1, <1>2, <1>3 DEF AD!WorkIsTimed
<1>5. QED  BY <1>1, <1>2, <1>4 DEF AD!TypeOK

LEMMA AdcKeeps ==
    ASSUME AdcInv, AD!Next
    PROVE  AdcInv'
<1>1. /\ AD!TypeOK /\ AD!WorkIsTimed /\ AD!PairIsOneConversion
      /\ (adcl # AD!Unread => interlock) /\ (orphan => adsc)
  BY DEF AdcInv
<1>2. /\ aden \in BOOLEAN /\ adsc \in BOOLEAN /\ adate \in BOOLEAN /\ adif \in BOOLEAN
      /\ converting \in BOOLEAN /\ raising \in BOOLEAN /\ orphan \in BOOLEAN
      /\ interlock \in BOOLEAN
  BY <1>1 DEF AD!TypeOK
<1>3. ASSUME NEW en \in BOOLEAN, NEW sc \in BOOLEAN, NEW auto \in BOOLEAN,
             NEW clears \in BOOLEAN, AD!WriteAdcsra(en, sc, auto, clears),
             source' \in {0, 1}, UNCHANGED <<adts, result, adc, interlock, adcl>>
      PROVE  AdcInv'
  <2>1. /\ AD!WorkIsTimed' /\ (orphan' => adsc')
        /\ {aden', adsc', adate', adif', hooked', converting', raising', orphan'} \subseteq BOOLEAN
        /\ mode' \in {"none", "free", "vector"}
    BY <1>3, WriteAdcsraKeeps
  <2>2. AD!TypeOK'
    BY <1>1, <1>3, <2>1 DEF AD!TypeOK
  <2>3. QED  BY <1>1, <1>3, <2>1, <2>2 DEF AdcInv, AD!PairIsOneConversion
<1>4. ASSUME AD!StartAuto \/ UNCHANGED <<aden, adsc, adate, adif, converting, raising, orphan, mode, hooked>>,
             source' \in {0, 1}, UNCHANGED <<adts, result, adc, interlock, adcl>>
      PROVE  AdcInv'
  <2>1. CASE UNCHANGED <<aden, adsc, adate, adif, converting, raising, orphan, mode, hooked>>
    BY <1>1, <1>4, <2>1 DEF AdcInv, AD!TypeOK, AD!WorkIsTimed, AD!PairIsOneConversion
  <2>2. CASE AD!WriteAdcsra(aden, TRUE, adate, FALSE)
    BY <1>2, <1>3, <1>4, <2>2
  <2>3. QED  BY <1>4, <2>1, <2>2 DEF AD!StartAuto, AD!timers
<1>5. ASSUME AD!WriteAdcsrb
      PROVE  AdcInv'
  <2>1. /\ UNCHANGED <<aden, adsc, adate, adif, source, converting, raising, result, adc, interlock, adcl>>
        /\ orphan' = orphan /\ adts' \in {"free", "vector"}
        /\ mode' \in {adts', "none"} /\ hooked' \in BOOLEAN
    BY <1>5 DEF AD!WriteAdcsrb, AD!ConfigureTrigger, AD!timers
  <2>2. AD!TypeOK'
    BY <1>1, <2>1 DEF AD!TypeOK
  <2>3. QED  BY <1>1, <2>1, <2>2 DEF AdcInv, AD!WorkIsTimed, AD!PairIsOneConversion
<1>6. ASSUME AD!Convert
      PROVE  AdcInv'
  <2>1. /\ converting /\ result' \in Samples /\ converting' = FALSE /\ raising' = TRUE
        /\ UNCHANGED <<aden, adsc, adate, adif, adts, mode, hooked, source, adc, interlock, adcl, orphan>>
    BY <1>6 DEF AD!Convert, AD!trigger
  <2>2. AD!TypeOK'
    <3>1. result' \in Samples \cup {0} /\ converting' \in BOOLEAN /\ raising' \in BOOLEAN
      BY <2>1
    <3>2. QED  BY <1>1, <2>1, <3>1 DEF AD!TypeOK
  <2>3. QED  BY <1>1, <2>1, <2>2 DEF AdcInv, AD!WorkIsTimed, AD!PairIsOneConversion
<1>7. ASSUME AD!EndConversion
      PROVE  AdcInv'
  <2>1. /\ raising /\ aden /\ adc' = (IF interlock THEN adc ELSE result) /\ adif' = TRUE
        /\ raising' = FALSE /\ adsc' = (mode = "free" /\ adate) /\ converting' = (mode = "free" /\ adate)
        /\ UNCHANGED <<aden, adate, adts, mode, hooked, source, result, interlock, adcl, orphan>>
    BY <1>7, Zenon DEF AD!EndConversion, AD!trigger, AD!Published
  <2>2. adc' \in Samples \cup {0} /\ adsc' \in BOOLEAN /\ converting' \in BOOLEAN
        /\ adif' \in BOOLEAN /\ raising' \in BOOLEAN
    BY <1>1, <2>1 DEF AD!TypeOK
  <2>3. AD!TypeOK'
    BY <1>1, <2>1, <2>2 DEF AD!TypeOK
  <2>4. AD!WorkIsTimed' /\ (orphan' => adsc')
    BY <1>1, <2>1 DEF AD!WorkIsTimed
  <2>5. QED  BY <1>1, <2>1, <2>3, <2>4 DEF AdcInv, AD!PairIsOneConversion
<1>8. ASSUME AD!ServeAdc
      PROVE  AdcInv'
  <2>1. /\ adif' = FALSE
        /\ UNCHANGED <<aden, adsc, adate, adts, mode, hooked, source, converting, raising, result, adc>>
        /\ UNCHANGED <<interlock, adcl, orphan>>
    BY <1>8 DEF AD!ServeAdc, AD!trigger, AD!timers
  <2>2. AD!TypeOK'
    <3>1. adif' \in BOOLEAN
      BY <2>1
    <3>2. QED  BY <1>1, <2>1, <3>1 DEF AD!TypeOK
  <2>3. QED  BY <1>1, <2>1, <2>2 DEF AdcInv, AD!WorkIsTimed, AD!PairIsOneConversion
<1>9. ASSUME AD!ReadL \/ AD!ReadH
      PROVE  AdcInv'
  <2>1. /\ (interlock' = TRUE /\ adcl' = adc) \/ (interlock' = FALSE /\ adcl' = AD!Unread)
        /\ UNCHANGED <<aden, adsc, adate, adif, adts, mode, hooked, source, converting, raising, result>>
        /\ UNCHANGED <<adc, orphan>>
    BY <1>9 DEF AD!ReadL, AD!ReadH, AD!trigger, AD!timers
  <2>2. adcl' \in Samples \cup {0, AD!Unread} /\ interlock' \in BOOLEAN
    BY <1>1, <2>1 DEF AD!TypeOK
  <2>3. AD!TypeOK'
    BY <1>1, <2>1, <2>2 DEF AD!TypeOK
  <2>4. QED  BY <1>1, <2>1, <2>3 DEF AdcInv, AD!WorkIsTimed, AD!PairIsOneConversion
<1>10. ASSUME AD!Reset
       PROVE  AdcInv'
  <2>1. AD!TypeOK'
    BY <1>1, <1>10, Zenon DEF AD!Reset, AD!TypeOK
  <2>2. AD!WorkIsTimed' /\ AD!PairIsOneConversion' /\ ~(adcl' # AD!Unread) /\ ~orphan'
    BY <1>10, Zenon DEF AD!Reset, AD!WorkIsTimed, AD!PairIsOneConversion
  <2>3. QED  BY <2>1, <2>2 DEF AdcInv
<1>11. ASSUME AD!Write \/ AD!Trigger \/ \E v \in {0, 1} : AD!SourceRaised(v)
       PROVE  AdcInv'
  <2>1. source \in {0, 1}
    BY <1>1 DEF AD!TypeOK
  <2>2. ASSUME AD!Write PROVE AdcInv'
    BY <1>3, <2>1, <2>2 DEF AD!Write
  <2>3. ASSUME AD!Trigger PROVE AdcInv'
    BY <1>4, <2>1, <2>3 DEF AD!Trigger
  <2>4. ASSUME NEW v \in {0, 1}, AD!SourceRaised(v) PROVE AdcInv'
    BY <1>4, <2>4 DEF AD!SourceRaised, AD!timers
  <2>5. QED  BY <1>11, <2>2, <2>3, <2>4
<1>12. QED  BY <1>5, <1>6, <1>7, <1>8, <1>9, <1>10, <1>11 DEF AD!Next

-----------------------------------------------------------------------------
(* The modern USART *)

UsartFlags ==
    /\ usRxen \in BOOLEAN /\ usTxen \in BOOLEAN /\ rxcie \in BOOLEAN /\ txcie \in BOOLEAN
    /\ lbme \in BOOLEAN /\ rxcif \in BOOLEAN /\ txcif \in BOOLEAN /\ rxcPending \in BOOLEAN
    /\ txcPending \in BOOLEAN /\ done \in BOOLEAN /\ loopback \in BOOLEAN

UsartReceives ==
    /\ rx \in 0 .. FifoSize
    /\ rxcif => rx > 0
    /\ ~rxcif => rx = 0 /\ ~rxcPending

\* The bits of a frame, whether its timer runs, and what waits behind it.
Shifting ==
    /\ frame \in Seq({0, 1}) /\ Len(frame) \in 0 .. 3
    /\ txq \in 0 .. TxqSize /\ tick \in BOOLEAN
    /\ tick => frame # <<>>
    /\ ~tick => frame = <<>> /\ txq = 0

UsartInv ==
    /\ UsartFlags /\ UsartReceives /\ Shifting
    /\ txd \in {US!Released, US!PinState(usTxen, frame)}
    /\ txd = US!Released => ~usTxen /\ ~tick

LEMMA UsartShows ==
    ASSUME UsartInv
    PROVE  US!TypeOK /\ US!WorkIsTimed
<1>1. UsartFlags /\ UsartReceives /\ Shifting
  BY DEF UsartInv
<1>2. tick \in BOOLEAN
  BY <1>1 DEF Shifting
<1>3. frame # <<>> => Head(frame) \in {0, 1}
  BY <1>1 DEF Shifting
<1>4. US!PinState(usTxen, frame) \in BOOLEAN \X {0, 1}
  BY <1>1, <1>3 DEF US!PinState, UsartFlags
<1>5. US!PinState(usTxen, frame)[1] = (usTxen \/ tick)
  BY <1>1 DEF US!PinState, Shifting
<1>6. US!Released \in BOOLEAN \X {0, 1} /\ US!Released[1] = FALSE
  BY DEF US!Released
<1>7. /\ \A f \in {usRxen, usTxen, rxcie, txcie, lbme, rxcif, txcif} : f \in BOOLEAN
      /\ \A f \in {rxcPending, txcPending, tick, done, loopback} : f \in BOOLEAN
  BY <1>1, <1>2, Zenon DEF UsartFlags
<1>8. US!TypeOK
  BY <1>1, <1>4, <1>6, <1>7 DEF US!TypeOK, UsartInv, UsartReceives, Shifting
<1>9. (txd[1] <=> usTxen \/ tick) /\ (txd[1] => txd = US!PinState(usTxen, frame))
  BY <1>1, <1>2, <1>4, <1>5, <1>6 DEF UsartInv, UsartFlags
<1>10. US!WorkIsTimed
  BY <1>1, <1>9 DEF US!WorkIsTimed, UsartReceives, Shifting
<1>11. QED  BY <1>8, <1>10

LEMMA UsartInitHolds ==
    ASSUME US!WellFormed, US!Init
    PROVE  UsartInv
<1>1. FifoSize \in Nat /\ TxqSize \in Nat
  BY DEF US!WellFormed
<1>2. UsartFlags
  BY DEF US!Init, UsartFlags
<1>3. ~rxcif /\ ~rxcPending /\ ~tick /\ tick \in BOOLEAN
  BY Zenon DEF US!Init
<1>4. rx \in 0 .. FifoSize /\ rx = 0 /\ txq \in 0 .. TxqSize /\ txq = 0
  BY <1>1 DEF US!Init
<1>5. frame \in Seq({0, 1}) /\ Len(frame) \in 0 .. 3 /\ frame = <<>>
  BY DEF US!Init
<1>6. UsartReceives /\ Shifting
  BY <1>3, <1>4, <1>5 DEF UsartReceives, Shifting
<1>7. QED  BY <1>2, <1>3, <1>6 DEF US!Init, UsartInv

\* usart_push_rx counts a byte up to the size of the fifo.
LEMMA PushRxKeeps ==
    ASSUME US!WellFormed, UsartInv, US!PushRx \/ UNCHANGED US!receiver
    PROVE  UsartReceives' /\ rxcif' \in BOOLEAN /\ rxcPending' \in BOOLEAN
<1>1. /\ rx \in 0 .. FifoSize /\ (rxcif => rx > 0) /\ (~rxcif => rx = 0 /\ ~rxcPending)
      /\ rxcif \in BOOLEAN /\ rxcPending \in BOOLEAN /\ rxcie \in BOOLEAN /\ FifoSize \in Nat
  BY DEF UsartInv, UsartReceives, UsartFlags, US!WellFormed
<1>2. CASE UNCHANGED US!receiver
  BY <1>1, <1>2 DEF US!receiver, UsartReceives
<1>3. CASE /\ rx < FifoSize /\ rx' = rx + 1 /\ rxcif' = TRUE
           /\ rxcPending' = (rxcPending \/ rxcie)
  BY <1>1, <1>3 DEF UsartReceives
<1>4. QED  BY <1>2, <1>3 DEF US!PushRx

\* usart_start_frame takes a byte of those that wait.
LEMMA StartFrameKeeps ==
    ASSUME US!WellFormed, NEW queued \in 0 .. TxqSize + 1, US!StartFrame(queued)
    PROVE  Shifting'
<1>1. CASE queued = 0
  <2>1. frame' = <<>> /\ txq' = 0 /\ ~tick' /\ tick' \in BOOLEAN
    BY <1>1, Zenon DEF US!StartFrame
  <2>2. txq' \in 0 .. TxqSize /\ frame' \in Seq({0, 1}) /\ Len(frame') \in 0 .. 3
    BY <2>1 DEF US!WellFormed
  <2>3. QED  BY <2>1, <2>2 DEF Shifting
<1>2. CASE queued # 0
  <2>1. frame' \in US!Frames /\ txq' = queued - 1 /\ tick' /\ tick' \in BOOLEAN
    BY <1>2, Zenon DEF US!StartFrame
  <2>2. PICK bit \in {0, 1} : frame' = <<0, bit, 1>>
    BY <2>1 DEF US!Frames
  <2>3. frame' \in Seq({0, 1}) /\ Len(frame') = 3 /\ frame' # <<>>
    BY <2>2
  <2>4. txq' \in 0 .. TxqSize
    BY <1>2, <2>1 DEF US!WellFormed
  <2>5. QED  BY <2>1, <2>3, <2>4 DEF Shifting
<1>3. QED  BY <1>1, <1>2

LEMMA UsartKeeps ==
    ASSUME US!WellFormed, UsartInv, US!Next
    PROVE  UsartInv'
<1>1. /\ UsartFlags /\ UsartReceives /\ Shifting /\ FifoSize \in Nat /\ TxqSize \in Nat
  BY DEF UsartInv, US!WellFormed
<1>2. ASSUME US!Input
      PROVE  UsartInv'
  <2>1. UsartReceives' /\ rxcif' \in BOOLEAN /\ rxcPending' \in BOOLEAN
    BY <1>2, PushRxKeeps DEF US!Input
  <2>2. UNCHANGED <<usRxen, usTxen, rxcie, txcie, lbme, txq, frame, tick, txd, txcif, txcPending,
                    done, loopback>>
    BY <1>2 DEF US!Input, US!enables, US!waveform, US!transmission
  <2>3. QED  BY <1>1, <2>1, <2>2 DEF UsartInv, UsartFlags, Shifting, US!PinState
<1>3. ASSUME US!ReadData
      PROVE  UsartInv'
  <2>1. /\ rx' = (IF rx > 0 THEN rx - 1 ELSE 0) /\ rxcif' = (rxcif /\ rx' > 0)
        /\ rxcPending' = (rxcPending /\ rx' > 0)
        /\ UNCHANGED <<usRxen, usTxen, rxcie, txcie, lbme, txq, frame, tick, txd, txcif,
                       txcPending, done, loopback>>
    BY <1>3 DEF US!ReadData, US!enables, US!waveform, US!transmission
  <2>2. rx' \in 0 .. FifoSize /\ (rx = 0 => rx' = 0) /\ (rx' > 0 \/ rx' = 0) /\ ~(0 > 0)
    BY <1>1, <2>1 DEF UsartReceives
  <2>3. UsartFlags'
    BY <1>1, <2>1 DEF UsartFlags
  <2>4. UsartReceives'
    BY <1>1, <2>1, <2>2, Zenon DEF UsartReceives
  <2>5. QED  BY <1>1, <2>1, <2>3, <2>4 DEF UsartInv, Shifting, US!PinState
<1>4. ASSUME US!PinTick
      PROVE  UsartInv'
  <2>1. /\ tick /\ txd' = US!PinState(usTxen, frame')
        /\ UNCHANGED <<usRxen, usTxen, rxcie, txcie, lbme, rx, rxcif, rxcPending, txcif,
                       txcPending, done, loopback>>
    BY <1>4 DEF US!PinTick, US!enables, US!receiver, US!transmission
  <2>2. Shifting'
    <3>1. CASE Len(frame) > 1
      <4>1. frame' = Tail(frame) /\ txq' = txq /\ tick' = tick
        BY <1>4, <3>1 DEF US!PinTick
      <4>2. Tail(frame) \in Seq({0, 1}) /\ Len(Tail(frame)) = Len(frame) - 1
        BY <1>1, <3>1 DEF Shifting
      <4>3. Len(frame) \in 0 .. 3 /\ tick' /\ txq' \in 0 .. TxqSize
        BY <1>1, <2>1, <4>1, Zenon DEF Shifting
      <4>4. Len(Tail(frame)) \in 1 .. 3 /\ Len(Tail(frame)) \in 0 .. 3
        BY <3>1, <4>2, <4>3
      <4>5. Tail(frame) # <<>>
        <5>1. Len(<<>>) = 0 /\ 0 \notin 1 .. 3
          OBVIOUS
        <5>2. QED  BY <4>4, <5>1, Zenon
      <4>6. tick' \in BOOLEAN
        BY <1>1, <4>1 DEF Shifting
      <4>7. QED  BY <4>1, <4>2, <4>3, <4>4, <4>5, <4>6 DEF Shifting
    <3>2. CASE ~(Len(frame) > 1)
      <4>1. US!StartFrame(txq)
        BY <1>4, <3>2 DEF US!PinTick
      <4>2. txq \in 0 .. TxqSize + 1
        BY <1>1 DEF Shifting
      <4>3. QED  BY <4>1, <4>2, StartFrameKeeps
    <3>3. QED  BY <3>1, <3>2
  <2>3. UsartFlags' /\ UsartReceives'
    BY <1>1, <2>1 DEF UsartFlags, UsartReceives
  <2>4. txd' = US!PinState(usTxen', frame')
    BY <2>1
  <2>5. US!PinState(usTxen', frame') = US!Released => ~usTxen' /\ frame' = <<>>
    BY DEF US!PinState, US!Released
  <2>6. QED  BY <2>2, <2>3, <2>4, <2>5 DEF UsartInv, Shifting
<1>5. ASSUME US!WriteData
      PROVE  UsartInv'
  <2>1. /\ usTxen /\ loopback' = (lbme /\ usRxen) /\ txcif' = FALSE /\ done' = TRUE
        /\ UNCHANGED <<usRxen, usTxen, rxcie, txcie, lbme, rx, rxcif, rxcPending, txcPending>>
    BY <1>5 DEF US!WriteData, US!enables, US!receiver
  <2>2. UsartFlags' /\ UsartReceives'
    BY <1>1, <2>1 DEF UsartFlags, UsartReceives
  <2>3. US!PinState(usTxen', frame') # US!Released
    BY <2>1 DEF US!PinState, US!Released
  <2>4. CASE frame = <<>>
    <3>1. US!StartFrame(1) /\ txd' = US!PinState(usTxen, frame')
      BY <1>5, <2>4 DEF US!WriteData
    <3>2. 1 \in 0 .. TxqSize + 1
      BY <1>1
    <3>3. Shifting'
      BY <3>1, <3>2, StartFrameKeeps
    <3>4. QED  BY <2>1, <2>2, <2>3, <3>1, <3>3 DEF UsartInv
  <2>5. CASE frame # <<>>
    <3>1. txq' = US!Min2(txq + 1, TxqSize) /\ frame' = frame /\ tick' = tick /\ txd' = txd
      BY <1>5, <2>5 DEF US!WriteData
    <3>2. txq' \in 0 .. TxqSize
      BY <1>1, <3>1 DEF US!Min2, Shifting
    <3>3. Shifting'
      BY <1>1, <2>5, <3>1, <3>2 DEF Shifting
    <3>4. txd = US!PinState(usTxen, frame)
      BY <2>1 DEF UsartInv
    <3>5. QED  BY <2>1, <2>2, <2>3, <3>1, <3>3, <3>4 DEF UsartInv
  <2>6. QED  BY <2>4, <2>5
<1>6. ASSUME US!TxDone
      PROVE  UsartInv'
  <2>1. US!PushRx \/ UNCHANGED US!receiver
    BY <1>6 DEF US!TxDone
  <2>2. UsartReceives' /\ rxcif' \in BOOLEAN /\ rxcPending' \in BOOLEAN
    BY <2>1, PushRxKeeps
  <2>3. /\ loopback' = FALSE /\ done' = FALSE /\ txcif' = TRUE
        /\ txcPending' = (txcPending \/ txcie)
        /\ UNCHANGED <<usRxen, usTxen, rxcie, txcie, lbme, txq, frame, tick, txd>>
    BY <1>6 DEF US!TxDone, US!enables, US!waveform
  <2>4. UsartFlags'
    BY <1>1, <2>2, <2>3 DEF UsartFlags
  <2>5. QED  BY <1>1, <2>2, <2>3, <2>4 DEF UsartInv, Shifting, US!PinState
<1>7. ASSUME US!ClearTxc \/ US!ServeRxc \/ US!ServeTxc
      PROVE  UsartInv'
  <2>1. /\ UNCHANGED <<usRxen, usTxen, rxcie, txcie, lbme, rx, rxcif, txq, frame, tick, txd>>
        /\ UNCHANGED <<done, loopback>>
        /\ rxcPending' \in {rxcPending, FALSE} /\ txcPending' \in {txcPending, FALSE}
        /\ txcif' \in {txcif, FALSE}
    BY <1>7 DEF US!ClearTxc, US!ServeRxc, US!ServeTxc, US!enables, US!receiver, US!waveform,
                US!transmission
  <2>2. UsartFlags'
    <3>1. rxcPending' \in BOOLEAN /\ txcPending' \in BOOLEAN /\ txcif' \in BOOLEAN
      BY <1>1, <2>1 DEF UsartFlags
    <3>2. QED  BY <1>1, <2>1, <3>1, Zenon DEF UsartFlags
  <2>3. UsartReceives'
    <3>1. ~rxcPending => ~rxcPending'
      BY <2>1, Zenon
    <3>2. rx' = rx /\ rxcif' = rxcif
      BY <2>1
    <3>3. QED  BY <1>1, <3>1, <3>2, Zenon DEF UsartReceives
  <2>4. QED  BY <1>1, <2>1, <2>2, <2>3 DEF UsartInv, Shifting, US!PinState
<1>8. ASSUME NEW ie \in BOOLEAN, NEW tie \in BOOLEAN, NEW loop \in BOOLEAN,
             US!WriteCtrla(ie, tie, loop)
      PROVE  UsartInv'
  <2>1. /\ rxcie' = ie /\ txcie' = tie /\ lbme' = loop
        /\ rxcPending' = (rxcPending \/ (ie /\ rxcif))
        /\ txcPending' = (txcPending \/ (tie /\ txcif))
        /\ UNCHANGED <<usRxen, usTxen, rx, rxcif, txq, frame, tick, txd, txcif, done, loopback>>
    BY <1>8 DEF US!WriteCtrla, US!waveform
  <2>2. UsartFlags'
    BY <1>1, <2>1 DEF UsartFlags
  <2>3. UsartReceives'
    BY <1>1, <2>1, Zenon DEF UsartReceives
  <2>4. QED  BY <1>1, <2>1, <2>2, <2>3 DEF UsartInv, Shifting, US!PinState
<1>9. ASSUME NEW receives \in BOOLEAN, NEW sends \in BOOLEAN, US!WriteCtrlb(receives, sends)
      PROVE  UsartInv'
  <2>1. /\ usRxen' = receives /\ usTxen' = sends /\ txd' = US!PinState(sends, frame)
        /\ UNCHANGED <<rxcie, txcie, lbme, rx, rxcif, rxcPending, txq, frame, tick, txcif,
                       txcPending, done, loopback>>
    BY <1>9 DEF US!WriteCtrlb, US!PinAfter, US!receiver, US!transmission
  <2>2. UsartFlags' /\ UsartReceives' /\ Shifting'
    BY <1>1, <2>1 DEF UsartFlags, UsartReceives, Shifting
  <2>3. txd' = US!PinState(usTxen', frame')
    BY <2>1
  <2>4. US!PinState(usTxen', frame') = US!Released => ~usTxen' /\ frame' = <<>>
    BY DEF US!PinState, US!Released
  <2>5. QED  BY <2>2, <2>3, <2>4 DEF UsartInv, Shifting
<1>10. ASSUME US!Reset
       PROVE  UsartInv'
  <2>1. UsartFlags'
    BY <1>1, <1>10 DEF US!Reset, UsartFlags
  <2>2. ~rxcif' /\ ~rxcPending' /\ ~tick' /\ tick' \in BOOLEAN
    BY <1>10, Zenon DEF US!Reset
  <2>3. rx' \in 0 .. FifoSize /\ rx' = 0 /\ txq' \in 0 .. TxqSize /\ txq' = 0
    BY <1>1, <1>10 DEF US!Reset
  <2>4. frame' \in Seq({0, 1}) /\ Len(frame') \in 0 .. 3 /\ frame' = <<>>
    BY <1>10 DEF US!Reset
  <2>5. UsartReceives' /\ Shifting'
    BY <2>2, <2>3, <2>4 DEF UsartReceives, Shifting
  <2>6. QED  BY <1>10, <2>1, <2>2, <2>5 DEF UsartInv, US!Reset
<1>11. QED
  BY <1>2, <1>3, <1>4, <1>5, <1>6, <1>7, <1>8, <1>9, <1>10 DEF US!Next

-----------------------------------------------------------------------------
(* The RTC *)

\* Without a timer for it CNT is past PER, and wraps in a cycle.
RtcTiming ==
    /\ cpt \in Rates /\ age \in Nat /\ target \in 0 .. RT!Most + 1 /\ due \in Int
    /\ ~on => due = RT!Never
    /\ on => due >= -Overshoot /\ (due = target * cpt - age \/ (target > per /\ due <= 1))

RtcRegisters ==
    /\ rate \in Rates /\ cnt \in Counts /\ per \in Counts /\ cmp \in Counts

RtcRequest ==
    /\ flags \subseteq RT!Sources /\ inten \subseteq RT!Sources
    /\ rtcPending \in BOOLEAN /\ (rtcPending => flags # {})

RtcInv == RT!WellFormed /\ on \in BOOLEAN /\ RtcTiming /\ RtcRegisters /\ RtcRequest

LEMMA RtcCounts ==
    ASSUME RT!WellFormed
    PROVE  /\ RT!Most \in Nat /\ Counts = 0 .. RT!Most
           /\ Overshoot \in Nat /\ \A r \in Rates : r \in Nat /\ r >= 1
<1>1. PICK n \in Nat : Counts = 0 .. n
  BY DEF RT!WellFormed
<1>2. n \in Counts /\ \A k \in Counts : k <= n
  BY <1>1
<1>3. RT!Most \in Counts /\ \A k \in Counts : k <= RT!Most
  BY <1>2, Zenon DEF RT!Most
<1>4. RT!Most = n
  BY <1>1, <1>2, <1>3
<1>5. \A r \in Rates : r \in Nat \ {0}
  BY DEF RT!WellFormed
<1>6. QED  BY <1>1, <1>4, <1>5 DEF RT!WellFormed

LEMMA RtcShows ==
    ASSUME RtcInv
    PROVE  RT!TypeOK /\ RT!WorkIsTimed
<1>1. RtcTiming /\ RtcRegisters /\ RtcRequest /\ on \in BOOLEAN
  BY DEF RtcInv
<1>2. RT!TypeOK
  BY <1>1 DEF RT!TypeOK, RtcTiming, RtcRegisters, RtcRequest
<1>3. Overshoot \in Nat /\ RT!Most \in Nat /\ Counts = 0 .. RT!Most
  BY RtcCounts DEF RtcInv
<1>4. on => due # RT!Never
  BY <1>1, <1>3 DEF RtcTiming, RT!Never
<1>5. on /\ due > 1 => due = target * cpt - age
  BY <1>1 DEF RtcTiming
<1>6. QED  BY <1>1, <1>2, <1>4, <1>5 DEF RT!WorkIsTimed, RtcTiming, RtcRequest

LEMMA RtcInitHolds ==
    ASSUME RT!WellFormed, RT!Init
    PROVE  RtcInv
<1>1. RT!Most \in Nat /\ Counts = 0 .. RT!Most /\ Overshoot \in Nat
  BY RtcCounts
<1>2. RtcTiming
  BY <1>1 DEF RT!Init, RtcTiming, RT!Never
<1>3. RtcRegisters
  BY <1>1 DEF RT!Init, RtcRegisters
<1>4. RtcRequest
  BY DEF RT!Init, RtcRequest
<1>5. QED  BY <1>2, <1>3, <1>4 DEF RT!Init, RtcInv

\* rtc_next_target is after the count it is given, up to the wrap.
LEMMA NextTargetIsLater ==
    ASSUME RT!WellFormed, NEW top \in Counts, NEW match \in Counts, NEW from \in Nat
    PROVE  /\ RT!NextTarget(top, match, from) \in 0 .. RT!Most + 1
           /\ RT!NextTarget(top, match, from) <= top + 1
           /\ from <= top => RT!NextTarget(top, match, from) > from
           /\ from > top => RT!NextTarget(top, match, from) = top + 1
<1>1. RT!Most \in Nat /\ Counts = 0 .. RT!Most
  BY RtcCounts
<1>2. CASE match \in from + 1 .. top
  BY <1>1, <1>2 DEF RT!NextTarget
<1>3. CASE ~(match \in from + 1 .. top)
  BY <1>1, <1>3 DEF RT!NextTarget
<1>4. QED  BY <1>2, <1>3

\* avr_rtc_cnt_reschedule arms the timer for the next target of the count.
LEMMA RescheduleTimes ==
    ASSUME RT!WellFormed, RtcTiming, RtcRegisters', on' \in BOOLEAN, NEW c \in Counts,
           RT!Reschedule(c)
    PROVE  RtcTiming'
<1>1. /\ RT!Most \in Nat /\ Counts = 0 .. RT!Most /\ Overshoot \in Nat
      /\ \A r \in Rates : r \in Nat /\ r >= 1
  BY RtcCounts
<1>2. CASE ~on'
  <2>1. due' = RT!Never /\ cpt' = cpt /\ age' = age /\ target' = target
    BY <1>2 DEF RT!Reschedule
  <2>2. RT!Never \in Int
    BY <1>1 DEF RT!Never
  <2>3. QED  BY <1>2, <2>1, <2>2 DEF RtcTiming
<1>3. CASE on'
  <2>1. /\ cpt' = rate' /\ age' = c * cpt' /\ target' = RT!NextTarget(per', cmp', c)
        /\ due' = (IF target' > c THEN (target' - c) * cpt' ELSE 1)
    BY <1>3 DEF RT!Reschedule
  <2>2. /\ cpt' \in Rates /\ cpt' \in Nat /\ cpt' >= 1 /\ c \in Nat
        /\ per' \in Counts /\ cmp' \in Counts /\ per' \in Nat
    BY <1>1, <2>1 DEF RtcRegisters
  <2>3. /\ target' \in 0 .. RT!Most + 1 /\ target' <= per' + 1
        /\ (c <= per' => target' > c) /\ (c > per' => target' = per' + 1)
    BY <2>1, <2>2, NextTargetIsLater
  <2>4. target' \in Nat /\ age' \in Nat /\ age' = c * cpt'
    <3>1. c * cpt' \in Nat
      BY <2>2, ProductIsNat
    <3>2. QED  BY <1>1, <2>1, <2>3, <3>1
  <2>5. CASE target' > c
    <3>1. due' = (target' - c) * cpt'
      BY <2>1, <2>5
    <3>2. (target' - c) * cpt' \in Nat /\ (target' - c) * cpt' = target' * cpt' - c * cpt'
      <4>1. target' \in Nat /\ c \in Nat /\ cpt' \in Nat
        BY <2>2, <2>4
      <4>2. target' > c
        BY <2>5
      <4>3. QED  BY <4>1, <4>2, ProductOfDifference
    <3>3. target' * cpt' \in Nat /\ c * cpt' \in Nat
      BY <2>2, <2>4, ProductIsNat
    <3>4. due' \in Int /\ due' >= -Overshoot /\ due' = target' * cpt' - age'
      BY <1>1, <2>1, <3>1, <3>2, <3>3
    <3>5. QED  BY <1>3, <2>2, <2>3, <2>4, <3>4 DEF RtcTiming
  <2>6. CASE ~(target' > c)
    <3>1. due' = 1 /\ c > per' /\ target' > per'
      BY <2>1, <2>2, <2>3, <2>4, <2>6
    <3>2. due' \in Int /\ due' >= -Overshoot /\ due' <= 1
      BY <1>1, <3>1
    <3>3. QED  BY <1>3, <2>2, <2>3, <2>4, <3>1, <3>2 DEF RtcTiming
  <2>7. QED  BY <2>5, <2>6
<1>4. QED  BY <1>2, <1>3

\* rtc_latch_cnt is a count from 0 to PER.
LEMMA LatchedIsCount ==
    ASSUME RtcInv
    PROVE  RT!Latched \in Counts
<1>1. /\ RT!Most \in Nat /\ Counts = 0 .. RT!Most /\ \A r \in Rates : r \in Nat /\ r >= 1
  BY RtcCounts DEF RtcInv
<1>2. /\ cnt \in Counts /\ per \in Counts /\ cpt \in Rates /\ age \in Nat
  BY DEF RtcInv, RtcTiming, RtcRegisters
<1>3. cpt \in Nat /\ cpt >= 1 /\ per \in Nat /\ per <= RT!Most
  BY <1>1, <1>2
<1>4. age \div cpt \in Nat
  BY <1>2, <1>3
<1>5. (age \div cpt) % (per + 1) \in 0 .. per
  BY <1>3, <1>4
<1>6. RT!Now \in Counts
  BY <1>1, <1>3, <1>5 DEF RT!Now
<1>7. QED  BY <1>2, <1>6 DEF RT!Latched

\* A write that latches the count and anchors the phase anew.
LEMMA RescheduleKeeps ==
    ASSUME RtcInv, RtcRegisters', on' \in BOOLEAN, NEW c \in Counts, RT!Reschedule(c),
           flags' = flags, inten' = inten, rtcPending' = rtcPending
    PROVE  RtcInv'
<1>1. RtcTiming'
  BY RescheduleTimes DEF RtcInv
<1>2. RtcRequest'
  BY DEF RtcInv, RtcRequest
<1>3. QED  BY <1>1, <1>2 DEF RtcInv, RT!WellFormed

LEMMA RtcEventTimes ==
    ASSUME RtcInv, RT!Event
    PROVE  RtcTiming'
<1>1. /\ RT!Most \in Nat /\ Counts = 0 .. RT!Most /\ Overshoot \in Nat
      /\ \A r \in Rates : r \in Nat /\ r >= 1
  BY RtcCounts DEF RtcInv
<1>2. /\ on /\ due <= 0 /\ due \in Int /\ due >= -Overshoot
      /\ (due = target * cpt - age \/ (target > per /\ due <= 1))
      /\ cpt \in Rates /\ age \in Nat /\ target \in 0 .. RT!Most + 1
      /\ per \in Counts /\ cmp \in Counts
  BY DEF RtcInv, RtcTiming, RtcRegisters, RT!Event
<1>3. cpt \in Nat /\ cpt >= 1 /\ per \in Nat /\ target \in Nat
  BY <1>1, <1>2
<1>4. on' = on /\ per' = per /\ cpt' = cpt /\ due' = target' * cpt - age'
  BY DEF RT!Event, RT!settings
<1>5. CASE target > per
  <2>1. age' = -due /\ target' = RT!NextTarget(per, cmp, 0)
    BY <1>5 DEF RT!Event
  <2>2. target' \in 0 .. RT!Most + 1 /\ target' > 0
    <3>1. RT!WellFormed /\ 0 \in Nat /\ 0 <= per
      BY <1>3 DEF RtcInv
    <3>2. QED  BY <1>2, <2>1, <3>1, NextTargetIsLater
  <2>3. target' \in Nat /\ age' \in Nat /\ age' <= Overshoot
    BY <1>1, <1>2, <2>1, <2>2
  <2>4. target' * cpt \in Nat
    BY <1>3, <2>3, ProductIsNat
  <2>5. due' \in Int /\ due' >= -Overshoot /\ due' = target' * cpt' - age'
    BY <1>1, <1>4, <2>3, <2>4
  <2>6. QED  BY <1>2, <1>4, <2>2, <2>3, <2>5 DEF RtcTiming
<1>6. CASE ~(target > per)
  <2>1. age' = age /\ target' = RT!NextTarget(per, cmp, target)
    BY <1>6 DEF RT!Event
  <2>2. target' \in 0 .. RT!Most + 1 /\ target' > target
    <3>1. RT!WellFormed /\ target <= per
      BY <1>3, <1>6 DEF RtcInv
    <3>2. QED  BY <1>2, <1>3, <2>1, <3>1, NextTargetIsLater
  <2>3. target' \in Nat /\ age' \in Nat
    BY <1>1, <1>2, <2>1, <2>2
  <2>4. /\ (target' - target) * cpt \in Nat
        /\ (target' - target) * cpt = target' * cpt - target * cpt
    <3>1. target' \in Nat /\ target \in Nat /\ cpt \in Nat
      BY <1>3, <2>3
    <3>2. target' > target
      BY <2>2
    <3>3. QED  BY <3>1, <3>2, ProductOfDifference
  <2>5. target' * cpt \in Nat /\ target * cpt \in Nat
    BY <1>3, <2>3, ProductIsNat
  <2>6. due = target * cpt - age
    BY <1>2, <1>6
  <2>7. due' \in Int /\ due' >= -Overshoot /\ due' = target' * cpt' - age'
    <3>1. PICK p, q \in Nat : p = target' * cpt /\ q = target * cpt
      BY <2>5
    <3>2. p - q \in Nat
      BY <2>4, <3>1
    <3>3. due' = p - age /\ due = q - age /\ due' = target' * cpt' - age'
      BY <1>4, <2>1, <2>6, <3>1
    <3>4. age \in Nat /\ due >= -Overshoot /\ Overshoot \in Nat
      BY <1>1, <1>2
    <3>5. QED  BY <3>2, <3>3, <3>4
  <2>8. QED  BY <1>2, <1>4, <2>2, <2>3, <2>7 DEF RtcTiming
<1>7. QED  BY <1>5, <1>6

LEMMA RtcEventRequests ==
    ASSUME RtcInv, RT!Event
    PROVE  RtcRequest'
<1>1. flags \subseteq RT!Sources /\ inten \subseteq RT!Sources /\ rtcPending \in BOOLEAN
      /\ (rtcPending => flags # {}) /\ inten' = inten
  BY DEF RtcInv, RtcRequest, RT!Event
<1>2. PICK events \in SUBSET RT!Sources : RT!Flag(events)
  <2>1. CASE target > per
    <3>1. RT!Flag({"OVF"} \cup (IF cmp = 0 THEN {"CMP"} ELSE {}))
      BY <2>1 DEF RT!Event
    <3>2. {"OVF"} \cup (IF cmp = 0 THEN {"CMP"} ELSE {}) \in SUBSET RT!Sources
      BY DEF RT!Sources
    <3>3. QED  BY <3>1, <3>2
  <2>2. CASE ~(target > per)
    <3>1. RT!Flag({"CMP"} \cap {IF cmp = target THEN "CMP" ELSE "none"})
      BY <2>2 DEF RT!Event
    <3>2. {"CMP"} \cap {IF cmp = target THEN "CMP" ELSE "none"} \in SUBSET RT!Sources
      BY DEF RT!Sources
    <3>3. QED  BY <3>1, <3>2
  <2>3. QED  BY <2>1, <2>2
<1>3. flags' = flags \cup events /\ rtcPending' = (rtcPending \/ events \cap inten # {})
  BY <1>2 DEF RT!Flag
<1>4. rtcPending' \in BOOLEAN /\ (rtcPending' => flags' # {})
  <2>1. CASE rtcPending' = rtcPending
    BY <1>1, <1>3, <2>1
  <2>2. CASE events \cap inten # {}
    BY <1>3, <2>2
  <2>3. rtcPending' \in BOOLEAN /\ (rtcPending' = rtcPending \/ events \cap inten # {})
    BY <1>1, <1>3, Zenon
  <2>4. QED  BY <2>1, <2>2, <2>3
<1>5. QED  BY <1>1, <1>2, <1>3, <1>4 DEF RtcRequest

LEMMA RtcKeeps ==
    ASSUME RtcInv, RT!Next
    PROVE  RtcInv'
<1>1. /\ RT!WellFormed /\ on \in BOOLEAN /\ RtcTiming /\ RtcRegisters /\ RtcRequest
      /\ RT!Latched \in Counts
  BY LatchedIsCount DEF RtcInv
<1>2. ASSUME NEW enable1 \in BOOLEAN, NEW r \in Rates, RT!WriteClock(enable1, r)
      PROVE  RtcInv'
  <2>1. /\ on' = enable1 /\ rate' = r /\ cnt' = RT!Latched /\ RT!Reschedule(cnt')
        /\ UNCHANGED <<per, cmp, flags, rtcPending, inten>>
    BY <1>2 DEF RT!WriteClock, RT!request
  <2>2. RtcRegisters' /\ on' \in BOOLEAN /\ cnt' \in Counts
    BY <1>1, <2>1 DEF RtcRegisters
  <2>3. QED  BY <2>1, <2>2, RescheduleKeeps
<1>3. ASSUME NEW top \in Counts, NEW match \in Counts, RT!WriteLimits(top, match)
      PROVE  RtcInv'
  <2>1. /\ per' = top /\ cmp' = match /\ cnt' = RT!Latched /\ RT!Reschedule(cnt')
        /\ UNCHANGED <<on, rate, flags, rtcPending, inten>>
    BY <1>3 DEF RT!WriteLimits, RT!request
  <2>2. RtcRegisters' /\ on' \in BOOLEAN /\ cnt' \in Counts
    BY <1>1, <2>1 DEF RtcRegisters
  <2>3. QED  BY <2>1, <2>2, RescheduleKeeps
<1>4. ASSUME NEW c \in Counts, RT!WriteCount(c)
      PROVE  RtcInv'
  <2>1. /\ cnt' = c /\ RT!Reschedule(c)
        /\ UNCHANGED <<on, rate, per, cmp, flags, rtcPending, inten>>
    BY <1>4 DEF RT!WriteCount, RT!request, RT!settings
  <2>2. RtcRegisters' /\ on' \in BOOLEAN
    BY <1>1, <2>1 DEF RtcRegisters
  <2>3. QED  BY <2>1, <2>2, RescheduleKeeps
<1>5. ASSUME RT!ReadCount
      PROVE  RtcInv'
  BY <1>1, <1>5 DEF RT!ReadCount, RT!settings, RT!timing, RT!request, RtcInv, RtcTiming,
     RtcRegisters, RtcRequest
<1>6. ASSUME UNCHANGED <<on, rate, per, cmp, cnt, cpt, age, target, due>>, RtcRequest'
      PROVE  RtcInv'
  BY <1>1, <1>6 DEF RtcInv, RtcTiming, RtcRegisters
<1>7. ASSUME NEW sources \in SUBSET RT!Sources, RT!WriteInten(sources)
      PROVE  RtcRequest'
  <2>1. inten' = sources /\ flags' = flags /\ rtcPending' = (rtcPending \/ flags \cap sources # {})
    BY <1>7 DEF RT!WriteInten
  <2>2. rtcPending' \in BOOLEAN /\ (rtcPending' => rtcPending \/ flags # {})
    BY <1>1, <2>1 DEF RtcRequest
  <2>3. QED  BY <1>1, <2>1, <2>2, Zenon DEF RtcRequest
<1>8. ASSUME NEW clears \in SUBSET RT!Sources, RT!WriteFlags(clears)
      PROVE  RtcRequest'
  <2>1. inten' = inten /\ flags' = flags \ clears /\ rtcPending' = (rtcPending /\ flags' # {})
    BY <1>8 DEF RT!WriteFlags
  <2>2. rtcPending' \in BOOLEAN /\ (rtcPending' => flags' # {})
    BY <1>1, <2>1, Zenon DEF RtcRequest
  <2>3. QED  BY <1>1, <2>1, <2>2 DEF RtcRequest
<1>9. ASSUME RT!Serve
      PROVE  RtcRequest'
  BY <1>1, <1>9 DEF RT!Serve, RtcRequest
<1>10. ASSUME NEW r \in Rates, RT!ChangeClock(r)
       PROVE  RtcInv'
  BY <1>1, <1>10 DEF RT!ChangeClock, RT!timing, RT!request, RtcInv, RtcTiming, RtcRegisters,
     RtcRequest
<1>11. ASSUME RT!Reset
       PROVE  RtcInv'
  <2>1. RT!Most \in Nat /\ Counts = 0 .. RT!Most /\ Overshoot \in Nat
    BY <1>1, RtcCounts
  <2>2. RtcTiming'
    BY <1>1, <1>11, <2>1 DEF RT!Reset, RtcTiming, RT!Never
  <2>3. RtcRegisters'
    BY <1>11, <2>1 DEF RT!Reset, RtcRegisters
  <2>4. RtcRequest' /\ on' \in BOOLEAN
    BY <1>11 DEF RT!Reset, RtcRequest
  <2>5. QED  BY <1>1, <2>2, <2>3, <2>4 DEF RtcInv
<1>12. ASSUME RT!Pass
       PROVE  RtcInv'
  <2>1. /\ on /\ due > -Overshoot /\ age' = age + 1 /\ due' = due - 1
        /\ UNCHANGED <<on, rate, per, cmp, cnt, cpt, target, flags, rtcPending, inten>>
    BY <1>12 DEF RT!Pass, RT!settings, RT!request
  <2>2. Overshoot \in Nat /\ RT!Most \in Nat /\ \A r \in Rates : r \in Nat
    BY <1>1, RtcCounts
  <2>3. /\ cpt \in Nat /\ age \in Nat /\ target \in Nat /\ due \in Int
        /\ (due = target * cpt - age \/ (target > per /\ due <= 1))
    BY <1>1, <2>1, <2>2 DEF RtcTiming
  <2>4. target * cpt \in Nat
    BY <2>3, ProductIsNat
  <2>5. /\ age' \in Nat /\ due' \in Int /\ due' >= -Overshoot
        /\ (due' = target * cpt - age' \/ (target > per /\ due' <= 1))
    BY <2>1, <2>2, <2>3, <2>4
  <2>6. RtcTiming'
    BY <1>1, <2>1, <2>5 DEF RtcTiming
  <2>7. RtcRegisters' /\ RtcRequest'
    BY <1>1, <2>1 DEF RtcRegisters, RtcRequest
  <2>8. QED  BY <1>1, <2>1, <2>6, <2>7 DEF RtcInv
<1>13. ASSUME RT!Event
       PROVE  RtcInv'
  <2>1. RtcTiming' /\ RtcRequest'
    BY <1>13, RtcEventTimes, RtcEventRequests
  <2>2. on' = on /\ RtcRegisters'
    BY <1>1, <1>13 DEF RT!Event, RT!settings, RtcRegisters
  <2>3. QED  BY <1>1, <2>1, <2>2 DEF RtcInv
<1>14. ASSUME RT!Serve \/ \E sources \in SUBSET RT!Sources :
                             RT!WriteInten(sources) \/ RT!WriteFlags(sources)
       PROVE  RtcInv'
  <2>1. RtcRequest'
    BY <1>7, <1>8, <1>9, <1>14
  <2>2. UNCHANGED <<on, rate, per, cmp, cnt, cpt, age, target, due>>
    BY <1>14 DEF RT!Serve, RT!WriteInten, RT!WriteFlags, RT!settings, RT!timing
  <2>3. QED  BY <1>6, <2>1, <2>2
<1>15. /\ \A enable1 \in BOOLEAN : RT!WriteClock(enable1, rate) => RtcInv'
       /\ \A r \in Rates : RT!WriteClock(on, r) => RtcInv'
       /\ \A n \in Counts : RT!WriteLimits(n, cmp) \/ RT!WriteLimits(per, n) => RtcInv'
  BY <1>1, <1>2, <1>3 DEF RtcRegisters
<1>16. QED
  BY <1>4, <1>5, <1>10, <1>11, <1>12, <1>13, <1>14, <1>15 DEF RT!Next

-----------------------------------------------------------------------------
(* The modern SPI *)

SpiFlags == {"bit7", "bit6", "DRE", "OVF"}
SpiSlot == Bytes \cup {SP!NoByte}

SpiRecord ==
    [enable : BOOLEAN, host : BOOLEAN, buffered : BOOLEAN, ie : Enables, flags : SUBSET SpiFlags,
     data : SP!MaybeByte, busy : BOOLEAN, timer : BOOLEAN, shift : SpiSlot, buf : SpiSlot,
     rx : Seq(Bytes), pending : BOOLEAN, served : BOOLEAN, owed : Seq(Bytes), turned : BOOLEAN,
     again : BOOLEAN]

\* What spi_update_interrupt leaves as it is, but for the flags.
SameBytes(u, t) ==
    /\ u.enable = t.enable /\ u.host = t.host /\ u.buffered = t.buffered /\ u.ie = t.ie
    /\ u.data = t.data /\ u.busy = t.busy /\ u.timer = t.timer /\ u.shift = t.shift
    /\ u.buf = t.buf /\ u.rx = t.rx /\ u.owed = t.owed /\ u.turned = t.turned

Told(t) == SP!Active(t) => t.pending \/ t.served \/ t.again

LEMMA UpdateInterruptTells ==
    ASSUME NEW t \in SpiRecord
    PROVE  LET u == SP!UpdateInterrupt(t)
           IN  u \in SpiRecord /\ SameBytes(u, t) /\ u.flags = t.flags /\ Told(u)
<1> DEFINE u == SP!UpdateInterrupt(t)
<1>1. SP!Active(t) \in BOOLEAN
  BY DEF SP!Active
<1>2. u = [t EXCEPT !.pending = SP!Active(t),
                    !.served = IF SP!Active(t) /\ ~t.pending THEN FALSE ELSE t.served,
                    !.again = FALSE]
  BY DEF SP!UpdateInterrupt
<1>3. u \in SpiRecord
  BY <1>1, <1>2 DEF SpiRecord
<1>4. SameBytes(u, t) /\ u.flags = t.flags /\ u.pending = SP!Active(t)
  BY <1>2 DEF SpiRecord, SameBytes
<1>5. SP!Active(u) = SP!Active(t)
  BY <1>4 DEF SP!Active, SameBytes
<1>6. QED  BY <1>3, <1>4, <1>5 DEF Told

\* spi_update_buffered_flags
FlagsAre(u, t, complete) ==
    /\ "bit7" \in u.flags <=> "bit7" \in t.flags
    /\ "DRE" \in u.flags <=> t.buf = SP!NoByte
    /\ "bit6" \in u.flags <=> complete /\ ~t.busy /\ t.buf = SP!NoByte /\ t.shift = SP!NoByte

LEMMA UpdateFlagsTells ==
    ASSUME NEW t \in SpiRecord, NEW complete \in BOOLEAN
    PROVE  LET u == SP!UpdateFlags(t, complete)
           IN  u \in SpiRecord /\ SameBytes(u, t) /\ FlagsAre(u, t, complete) /\ Told(u)
<1> DEFINE ends == complete /\ ~t.busy /\ t.buf = SP!NoByte /\ t.shift = SP!NoByte
           set == (t.flags \ {"DRE", "bit6"}) \cup (IF t.buf = SP!NoByte THEN {"DRE"} ELSE {})
                      \cup (IF ends THEN {"bit6"} ELSE {})
           w == [t EXCEPT !.flags = set]
<1>1. set \in SUBSET SpiFlags
  BY DEF SpiRecord, SpiFlags
<1>2. /\ "bit7" \in set <=> "bit7" \in t.flags
      /\ "DRE" \in set <=> t.buf = SP!NoByte
      /\ "bit6" \in set <=> ends
  OBVIOUS
<1>3. SP!UpdateFlags(t, complete) = SP!UpdateInterrupt(w)
  BY DEF SP!UpdateFlags
<1>4. /\ w \in SpiRecord /\ w.flags = set /\ SameBytes(w, t)
  <2> HIDE DEF set
  <2>1. QED  BY <1>1 DEF SpiRecord, SameBytes
<1>5. /\ SP!UpdateInterrupt(w) \in SpiRecord /\ SameBytes(SP!UpdateInterrupt(w), w)
      /\ SP!UpdateInterrupt(w).flags = w.flags /\ Told(SP!UpdateInterrupt(w))
  <2> HIDE DEF w
  <2>1. QED  BY <1>4, UpdateInterruptTells, Zenon
<1>6. SameBytes(SP!UpdateInterrupt(w), t)
  BY <1>4, <1>5, Zenon DEF SameBytes
<1>7. FlagsAre(SP!UpdateInterrupt(w), t, complete)
  BY <1>2, <1>4, <1>5, Zenon DEF FlagsAre
<1>8. QED  BY <1>3, <1>5, <1>6, <1>7, Zenon

\* What is on its way out, the byte that is shifted first.
SpiQueue(t) ==
    (IF t.shift = SP!NoByte THEN <<>> ELSE <<t.shift>>)
        \o (IF t.buf = SP!NoByte THEN <<>> ELSE <<t.buf>>)

\* In the buffer mode, unless the roles were changed with bytes on their way.
SpiLined(t) ==
    /\ t.owed = SpiQueue(t)
    /\ t.shift = SP!NoByte => t.buf = SP!NoByte
    /\ t.busy => t.enable /\ t.host /\ t.shift # SP!NoByte
    /\ t.enable /\ t.host /\ t.shift # SP!NoByte => t.busy
    /\ t.rx # <<>> => t.data = Head(t.rx)

SpiOrdered(t) ==
    /\ SpiLined(t)
    /\ "DRE" \in t.flags => t.buf = SP!NoByte
    /\ "bit6" \in t.flags => t.shift = SP!NoByte

\* At all times: no more is owed than there is room for.
SpiCounted(t) ==
    /\ t.busy <=> t.timer
    /\ Len(t.rx) <= 2
    /\ t.rx # <<>> => t.buffered
    /\ ~t.buffered => Len(t.owed) <= 1
    /\ t.buffered => Len(t.owed) <= Len(SpiQueue(t))

SpiInv(t) ==
    /\ t \in SpiRecord /\ SpiCounted(t) /\ Told(t)
    /\ t.buffered /\ ~t.turned => SpiOrdered(t)

LEMMA SpiQueueIs ==
    ASSUME NEW t \in SpiRecord
    PROVE  /\ t.shift = SP!NoByte /\ t.buf = SP!NoByte => SpiQueue(t) = <<>>
           /\ t.shift = SP!NoByte /\ t.buf # SP!NoByte => SpiQueue(t) = <<t.buf>>
           /\ t.shift # SP!NoByte /\ t.buf = SP!NoByte => SpiQueue(t) = <<t.shift>>
           /\ t.shift # SP!NoByte /\ t.buf # SP!NoByte => SpiQueue(t) = <<t.shift, t.buf>>
<1> DEFINE S == {t.shift, t.buf}
<1>1. <<>> \in Seq(S) /\ <<t.buf>> \in Seq(S) /\ <<t.shift>> \in Seq(S)
  OBVIOUS
<1>2. <<>> \o <<>> = <<>> /\ <<>> \o <<t.buf>> = <<t.buf>> /\ <<t.shift>> \o <<>> = <<t.shift>>
  BY <1>1, ConcatEmptySeq, Zenon
<1>3. <<t.shift>> \o <<t.buf>> = <<t.shift, t.buf>>
  <2> DEFINE both == <<t.shift>> \o <<t.buf>>
             pair == <<t.shift, t.buf>>
  <2>1. both \in Seq(S) /\ Len(both) = 2 /\ both[1] = t.shift /\ both[2] = t.buf
    BY <1>1
  <2>2. pair \in Seq(S) /\ Len(pair) = 2 /\ pair[1] = t.shift /\ pair[2] = t.buf
    OBVIOUS
  <2>3. \A i \in 1 .. 2 : i = 1 \/ i = 2
    OBVIOUS
  <2> HIDE DEF both, pair
  <2>4. \A i \in 1 .. Len(both) : both[i] = pair[i]
    BY <2>1, <2>2, <2>3
  <2>5. both = pair
    BY <2>1, <2>2, <2>4, SeqEqual
  <2>6. QED  BY <2>5 DEF both, pair
<1>4. QED  BY <1>2, <1>3, Zenon DEF SpiQueue

LEMMA SpiShows ==
    ASSUME SpiInv(spi)
    PROVE  SP!TypeOK /\ SP!WorkIsTimed /\ SP!BytesInOrder
<1>1. spi \in SpiRecord /\ SpiCounted(spi) /\ Told(spi)
      /\ (spi.buffered /\ ~spi.turned => SpiOrdered(spi))
  BY DEF SpiInv
<1>2. Len(SpiQueue(spi)) <= 2
  <2>1. Len(<<>>) = 0 /\ Len(<<spi.buf>>) = 1 /\ Len(<<spi.shift>>) = 1
        /\ Len(<<spi.shift, spi.buf>>) = 2
    OBVIOUS
  <2>2. Len(SpiQueue(spi)) \in {0, 1, 2}
    BY <1>1, <2>1, SpiQueueIs, Zenon
  <2>3. \A n \in {0, 1, 2} : n <= 2
    OBVIOUS
  <2>4. QED  BY <2>2, <2>3, Zenon
<1>3. spi.owed \in Seq(Bytes) /\ Len(spi.owed) \in Nat
  BY <1>1 DEF SpiRecord
<1>4. Len(spi.owed) <= 2
  <2>1. spi.buffered \in BOOLEAN /\ Len(SpiQueue(spi)) \in Nat
    BY <1>1 DEF SpiRecord, SpiQueue
  <2>2. QED  BY <1>1, <1>2, <1>3, <2>1 DEF SpiCounted
<1>5. SP!TypeOK
  <2>1. /\ {spi.enable, spi.host, spi.buffered, spi.busy, spi.timer, spi.pending, spi.served,
            spi.turned, spi.again} \subseteq BOOLEAN
        /\ spi.ie \in Enables /\ spi.flags \subseteq {"bit7", "bit6", "DRE", "OVF"}
        /\ spi.rx \in Seq(Bytes)
    BY <1>1 DEF SpiRecord, SpiFlags
  <2>2. {spi.data, spi.shift, spi.buf} \subseteq SP!MaybeByte
    BY <1>1 DEF SpiRecord, SpiSlot, SP!MaybeByte
  <2>3. Len(spi.rx) <= SP!RxFifoSize
    BY <1>1 DEF SpiCounted, SP!RxFifoSize
  <2>4. QED  BY <1>3, <1>4, <2>1, <2>2, <2>3 DEF SP!TypeOK
<1>6. SpiLined(spi) /\ spi.shift = SP!NoByte => spi.owed = <<>>
  BY <1>1, SpiQueueIs DEF SpiLined
<1>7. SP!WorkIsTimed
  BY <1>1, <1>6 DEF SP!WorkIsTimed, SpiCounted, SpiOrdered, SpiLined, Told
<1>8. SP!Queued = SpiQueue(spi)
  BY DEF SP!Queued, SpiQueue
<1>9. SP!BytesInOrder
  BY <1>1, <1>6, <1>8 DEF SP!BytesInOrder, SpiOrdered, SpiLined
<1>10. QED  BY <1>5, <1>7, <1>9

\* The SPI after a reset, and any that was emptied, with the flags it may have.
LEMMA SpiEmptyHolds ==
    ASSUME NEW t \in SpiRecord, Told(t),
           t.shift = SP!NoByte, t.buf = SP!NoByte, t.rx = <<>>, t.owed = <<>>,
           ~t.busy, ~t.timer
    PROVE  SpiInv(t)
<1>1. SpiQueue(t) = <<>>
  BY SpiQueueIs
<1>2. Len(<<>>) = 0 /\ 0 <= 2 /\ 0 <= 1 /\ 0 <= 0
  OBVIOUS
<1>3. SpiCounted(t)
  BY <1>1, <1>2, Zenon DEF SpiCounted
<1>4. SpiOrdered(t)
  BY <1>1, Zenon DEF SpiOrdered, SpiLined
<1>5. QED  BY <1>3, <1>4 DEF SpiInv

LEMMA SpiOffHolds ==
    ASSUME SP!WellFormed
    PROVE  SpiInv(SP!Off)
<1> DEFINE off == SP!Off
<1>1. off \in SpiRecord
  BY DEF SP!Off, SpiRecord, SP!WellFormed, SpiSlot, SP!MaybeByte
<1>2. /\ off.shift = SP!NoByte /\ off.buf = SP!NoByte /\ off.rx = <<>> /\ off.owed = <<>>
      /\ ~off.busy /\ ~off.timer /\ off.buffered = FALSE /\ off.flags = {}
  BY DEF SP!Off
<1>3. Told(off)
  BY <1>2, Zenon DEF Told, SP!Active
<1> HIDE DEF off
<1>4. SpiInv(off)
  BY <1>1, <1>2, <1>3, SpiEmptyHolds
<1>5. QED  BY <1>4 DEF off

\* What is left once flags and request are as they should be.
LEMMA UpdateFlagsHolds ==
    ASSUME NEW t \in SpiRecord, NEW complete \in BOOLEAN, SpiCounted(t),
           t.buffered /\ ~t.turned => SpiLined(t)
    PROVE  SpiInv(SP!UpdateFlags(t, complete))
<1> DEFINE u == SP!UpdateFlags(t, complete)
<1>1. u \in SpiRecord /\ SameBytes(u, t) /\ FlagsAre(u, t, complete) /\ Told(u)
  BY UpdateFlagsTells
<1> HIDE DEF u
<1>2. SpiQueue(u) = SpiQueue(t)
  BY <1>1 DEF SameBytes, SpiQueue
<1>3. SpiCounted(u)
  BY <1>1, <1>2, Zenon DEF SameBytes, SpiCounted, FlagsAre
<1>4. SpiLined(t) => SpiLined(u)
  BY <1>1, <1>2, Zenon DEF SameBytes, SpiLined
<1>5. SpiLined(u) => SpiOrdered(u)
  BY <1>1, Zenon DEF SpiOrdered, FlagsAre, SameBytes
<1>6. u.buffered = t.buffered /\ u.turned = t.turned
  BY <1>1 DEF SameBytes
<1>7. SpiInv(u)
  BY <1>1, <1>3, <1>4, <1>5, <1>6, Zenon DEF SpiInv
<1>8. QED  BY <1>7 DEF u

LEMMA UpdateInterruptHolds ==
    ASSUME NEW t \in SpiRecord, SpiCounted(t), t.buffered /\ ~t.turned => SpiOrdered(t)
    PROVE  SpiInv(SP!UpdateInterrupt(t))
<1> DEFINE u == SP!UpdateInterrupt(t)
<1>1. u \in SpiRecord /\ SameBytes(u, t) /\ u.flags = t.flags /\ Told(u)
  BY UpdateInterruptTells
<1> HIDE DEF u
<1>2. SpiQueue(u) = SpiQueue(t)
  BY <1>1 DEF SameBytes, SpiQueue
<1>3. SpiCounted(u)
  BY <1>1, <1>2, Zenon DEF SameBytes, SpiCounted
<1>4. SpiOrdered(t) => SpiOrdered(u)
  BY <1>1, <1>2, Zenon DEF SameBytes, SpiOrdered, SpiLined
<1>5. u.buffered = t.buffered /\ u.turned = t.turned
  BY <1>1 DEF SameBytes
<1>6. SpiInv(u)
  BY <1>1, <1>3, <1>4, <1>5, Zenon DEF SpiInv
<1>7. QED  BY <1>6 DEF u

LEMMA TornIsEmpty ==
    ASSUME NEW w \in SpiRecord
    PROVE  LET t == SP!Torn(w)
           IN  /\ t \in SpiRecord /\ t.shift = SP!NoByte /\ t.buf = SP!NoByte /\ t.rx = <<>>
               /\ t.owed = <<>> /\ ~t.busy /\ ~t.timer
<1> DEFINE t == SP!Torn(w)
<1>1. {} \in SUBSET SpiFlags /\ <<>> \in Seq(Bytes) /\ SP!NoByte \in SpiSlot
  BY DEF SpiSlot
<1>2. t \in SpiRecord
  BY <1>1 DEF SP!Torn, SpiRecord
<1>3. /\ t.shift = SP!NoByte /\ t.buf = SP!NoByte /\ t.rx = <<>>
      /\ t.owed = <<>> /\ t.busy = FALSE /\ t.timer = FALSE
  BY DEF SP!Torn, SpiRecord
<1>4. QED  BY <1>2, <1>3, Zenon

\* The registers that have no bytes.
LEMMA SpiRegistersKeep ==
    ASSUME SP!WellFormed, SpiInv(spi),
           \/ \E enable1, host1 \in BOOLEAN : SP!WriteCtrla(enable1, host1)
           \/ \E buffered1 \in BOOLEAN : SP!WriteCtrlb(buffered1)
           \/ \E ie \in Enables : SP!WriteIntctrl(ie)
           \/ \E f \in SP!Clearable : SP!WriteIntflags(f)
           \/ SP!Serve \/ SP!Reset
    PROVE  SpiInv(spi')
<1>1. /\ spi \in SpiRecord /\ SpiCounted(spi) /\ Told(spi)
      /\ (spi.buffered /\ ~spi.turned => SpiOrdered(spi))
  BY DEF SpiInv
<1>2. ASSUME NEW enable1 \in BOOLEAN, NEW host1 \in BOOLEAN, SP!WriteCtrla(enable1, host1)
      PROVE  SpiInv(spi')
  <2> DEFINE same == enable1 = spi.enable /\ host1 = spi.host
             idle == ~spi.busy /\ spi.shift = SP!NoByte /\ spi.rx = <<>> /\ spi.owed = <<>>
             now == spi.turned \/ (<<enable1, host1>> # <<spi.enable, spi.host>> /\
                        (spi.busy \/ spi.shift # SP!NoByte \/ spi.rx # <<>> \/ spi.owed # <<>>))
  <2>1. spi' = [spi EXCEPT !.enable = enable1, !.host = host1, !.turned = now]
    BY <1>2, Zenon DEF SP!WriteCtrla
  <2>2. now \in BOOLEAN /\ (~now => ~spi.turned /\ (same \/ idle))
    BY <1>1 DEF SpiRecord
  <2> HIDE DEF now
  <2>3. /\ spi' \in SpiRecord
        /\ spi'.enable = enable1 /\ spi'.host = host1 /\ spi'.turned = now
        /\ spi'.buffered = spi.buffered /\ spi'.ie = spi.ie /\ spi'.flags = spi.flags
        /\ spi'.data = spi.data /\ spi'.busy = spi.busy /\ spi'.timer = spi.timer
        /\ spi'.shift = spi.shift /\ spi'.buf = spi.buf /\ spi'.rx = spi.rx
        /\ spi'.pending = spi.pending /\ spi'.served = spi.served /\ spi'.again = spi.again
        /\ spi'.owed = spi.owed
    BY <1>1, <2>1, <2>2, ZenonT(30) DEF SpiRecord
  <2>4. SpiQueue(spi') = SpiQueue(spi) /\ SP!Active(spi') = SP!Active(spi)
    BY <2>3 DEF SpiQueue, SP!Active
  <2>5. SpiCounted(spi')
    BY <1>1, <2>3, <2>4, Zenon DEF SpiCounted
  <2>6. Told(spi')
    BY <1>1, <2>3, <2>4, Zenon DEF Told
  <2>7. SpiOrdered(spi) /\ (same \/ idle) => SpiOrdered(spi')
    BY <2>3, <2>4, Zenon DEF SpiOrdered, SpiLined
  <2>8. QED  BY <1>1, <2>2, <2>3, <2>5, <2>6, <2>7, Zenon DEF SpiInv
<1>3. ASSUME NEW buffered1 \in BOOLEAN, SP!WriteCtrlb(buffered1)
      PROVE  SpiInv(spi')
  <2> DEFINE w == [spi EXCEPT !.buffered = buffered1]
             t == SP!Torn(w)
  <2>1. CASE buffered1 = spi.buffered
    BY <1>3, <2>1 DEF SP!WriteCtrlb
  <2>2. CASE buffered1 # spi.buffered
    <3>1. spi' = (IF buffered1 THEN SP!UpdateFlags(t, FALSE) ELSE SP!UpdateInterrupt(t))
      BY <1>3, <2>2 DEF SP!WriteCtrlb
    <3>2. w \in SpiRecord
      BY <1>1 DEF SpiRecord
    <3>3. /\ t \in SpiRecord /\ t.shift = SP!NoByte /\ t.buf = SP!NoByte /\ t.rx = <<>>
          /\ t.owed = <<>> /\ ~t.busy /\ ~t.timer
      <4> HIDE DEF w
      <4>1. QED  BY <3>2, TornIsEmpty, Zenon
    <3> HIDE DEF t
    <3>4. spi' \in SpiRecord /\ Told(spi') /\ SameBytes(spi', t)
      BY <3>1, <3>3, UpdateFlagsTells, UpdateInterruptTells
    <3>5. QED  BY <3>3, <3>4, SpiEmptyHolds DEF SameBytes
  <2>3. QED  BY <2>1, <2>2
<1>4. ASSUME NEW ie \in Enables, SP!WriteIntctrl(ie)
      PROVE  SpiInv(spi')
  <2> DEFINE t == [spi EXCEPT !.ie = ie]
  <2>1. spi' = SP!UpdateInterrupt(t)
    BY <1>4 DEF SP!WriteIntctrl
  <2>2. /\ t \in SpiRecord /\ t.flags = spi.flags
        /\ t.enable = spi.enable /\ t.host = spi.host /\ t.buffered = spi.buffered
        /\ t.data = spi.data /\ t.busy = spi.busy /\ t.timer = spi.timer /\ t.shift = spi.shift
        /\ t.buf = spi.buf /\ t.rx = spi.rx /\ t.owed = spi.owed /\ t.turned = spi.turned
    BY <1>1 DEF SpiRecord
  <2> HIDE DEF t
  <2>3. SpiQueue(t) = SpiQueue(spi)
    BY <2>2 DEF SpiQueue
  <2>4. SpiCounted(t) /\ (t.buffered /\ ~t.turned => SpiOrdered(t))
    BY <1>1, <2>2, <2>3, Zenon DEF SpiCounted, SpiOrdered, SpiLined
  <2>5. QED  BY <2>1, <2>2, <2>4, UpdateInterruptHolds
<1>5. ASSUME NEW f \in SP!Clearable, SP!WriteIntflags(f)
      PROVE  SpiInv(spi')
  <2> DEFINE t == [spi EXCEPT !.flags = @ \ {f}]
  <2>1. spi' = SP!UpdateInterrupt(t)
    BY <1>5 DEF SP!WriteIntflags
  <2>2. /\ t \in SpiRecord /\ t.flags = spi.flags \ {f}
        /\ t.enable = spi.enable /\ t.host = spi.host /\ t.buffered = spi.buffered
        /\ t.data = spi.data /\ t.busy = spi.busy /\ t.timer = spi.timer /\ t.shift = spi.shift
        /\ t.buf = spi.buf /\ t.rx = spi.rx /\ t.owed = spi.owed /\ t.turned = spi.turned
    BY <1>1 DEF SpiRecord
  <2> HIDE DEF t
  <2>3. SpiQueue(t) = SpiQueue(spi)
    BY <2>2 DEF SpiQueue
  <2>4. t.flags \subseteq spi.flags
    BY <2>2
  <2>5. SpiCounted(t) /\ (t.buffered /\ ~t.turned => SpiOrdered(t))
    BY <1>1, <2>2, <2>3, <2>4, Zenon DEF SpiCounted, SpiOrdered, SpiLined
  <2>6. QED  BY <2>1, <2>2, <2>5, UpdateInterruptHolds
<1>6. ASSUME SP!Serve
      PROVE  SpiInv(spi')
  <2>1. spi' = [spi EXCEPT !.pending = FALSE, !.served = TRUE]
    BY <1>6 DEF SP!Serve
  <2>2. spi' \in SpiRecord /\ SameBytes(spi', spi) /\ spi'.flags = spi.flags /\ spi'.served
    BY <1>1, <2>1 DEF SpiRecord, SameBytes
  <2>3. SpiQueue(spi') = SpiQueue(spi)
    BY <2>2 DEF SpiQueue, SameBytes
  <2>4. SpiCounted(spi') /\ Told(spi')
    BY <1>1, <2>2, <2>3, Zenon DEF SpiCounted, SameBytes, Told
  <2>5. spi'.buffered /\ ~spi'.turned => SpiOrdered(spi')
    BY <1>1, <2>2, <2>3, Zenon DEF SpiOrdered, SpiLined, SameBytes
  <2>6. QED  BY <2>2, <2>4, <2>5 DEF SpiInv
<1>7. ASSUME SP!Reset
      PROVE  SpiInv(spi')
  BY <1>7, SpiOffHolds DEF SP!Reset
<1>8. QED  BY <1>2, <1>3, <1>4, <1>5, <1>6, <1>7

LEMMA ShortSequences ==
    ASSUME NEW a \in Bytes, NEW b \in Bytes
    PROVE  /\ Tail(<<a>>) = <<>> /\ Tail(<<a, b>>) = <<b>>
           /\ Append(<<>>, a) = <<a>> /\ Append(<<a>>, b) = <<a, b>>
           /\ <<a>> # <<>> /\ <<a, b>> # <<>>
<1>1. Tail(<<a>>) = <<>> /\ Append(<<>>, a) = <<a>>
  OBVIOUS
<1>2. <<a>> # <<>> /\ <<a, b>> # <<>>
  OBVIOUS
<1>3. \A p, q \in Seq(Bytes) : Len(p) = 1 /\ Len(q) = 1 /\ p[1] = q[1] => p = q
  <2>1. SUFFICES ASSUME NEW p \in Seq(Bytes), NEW q \in Seq(Bytes),
                        Len(p) = 1, Len(q) = 1, p[1] = q[1]
                 PROVE  p = q
    OBVIOUS
  <2>2. \A i \in 1 .. 1 : i = 1
    OBVIOUS
  <2>3. QED  BY <2>1, <2>2, SeqEqual
<1>4. Tail(<<a, b>>) = <<b>>
  <2> DEFINE p == Tail(<<a, b>>)
             q == <<b>>
  <2>1. p \in Seq(Bytes) /\ Len(p) = 1 /\ p[1] = b /\ q \in Seq(Bytes) /\ Len(q) = 1 /\ q[1] = b
    OBVIOUS
  <2> HIDE DEF p, q
  <2>2. p = q
    BY <1>3, <2>1
  <2>3. QED  BY <2>2 DEF p, q
<1>5. Append(<<a>>, b) = <<a, b>>
  <2> DEFINE p == Append(<<a>>, b)
             q == <<a, b>>
  <2>1. p \in Seq(Bytes) /\ Len(p) = 2 /\ p[1] = a /\ p[2] = b
    <3>1. <<a>> \in Seq(Bytes) /\ Len(<<a>>) = 1 /\ <<a>>[1] = a
      OBVIOUS
    <3>2. QED  BY <3>1, AppendProperties
  <2>2. q \in Seq(Bytes) /\ Len(q) = 2 /\ q[1] = a /\ q[2] = b
    OBVIOUS
  <2>3. \A i \in 1 .. 2 : i = 1 \/ i = 2
    OBVIOUS
  <2> HIDE DEF p, q
  <2>4. \A i \in 1 .. Len(p) : p[i] = q[i]
    BY <2>1, <2>2, <2>3
  <2>5. p = q
    BY <2>1, <2>2, <2>4, SeqEqual
  <2>6. QED  BY <2>5 DEF p, q
<1>6. QED  BY <1>1, <1>2, <1>4, <1>5

LEMMA SpiQueueLength ==
    ASSUME NEW t \in SpiRecord
    PROVE  Len(SpiQueue(t)) =
               (IF t.shift = SP!NoByte THEN 0 ELSE 1) + (IF t.buf = SP!NoByte THEN 0 ELSE 1)
<1>1. Len(<<>>) = 0 /\ Len(<<t.buf>>) = 1 /\ Len(<<t.shift>>) = 1 /\ Len(<<t.shift, t.buf>>) = 2
  OBVIOUS
<1>2. 0 + 0 = 0 /\ 0 + 1 = 1 /\ 1 + 0 = 1 /\ 1 + 1 = 2
  OBVIOUS
<1>3. QED  BY <1>1, <1>2, SpiQueueIs, Zenon

LEMMA SentIs ==
    ASSUME NEW t \in SpiRecord
    PROVE  LET u == SP!Sent(t)
           IN  /\ u \in SpiRecord /\ u.enable = t.enable /\ u.host = t.host
               /\ u.buffered = t.buffered /\ u.ie = t.ie /\ u.data = t.data /\ u.busy = t.busy
               /\ u.timer = t.timer /\ u.shift = t.shift /\ u.buf = t.buf /\ u.rx = t.rx
               /\ u.turned = t.turned /\ u.flags = t.flags /\ u.pending = t.pending
               /\ u.served = t.served /\ u.again = t.again
               /\ u.owed = (IF t.owed = <<>> THEN <<>> ELSE Tail(t.owed))
               /\ Len(u.owed) = (IF Len(t.owed) = 0 THEN 0 ELSE Len(t.owed) - 1)
<1> DEFINE left == IF t.owed = <<>> THEN t.owed ELSE Tail(t.owed)
<1>1. t.owed \in Seq(Bytes)
  BY DEF SpiRecord
<1>2. left \in Seq(Bytes) /\ Len(left) = (IF Len(t.owed) = 0 THEN 0 ELSE Len(t.owed) - 1)
  <2>1. CASE t.owed = <<>>
    BY <2>1
  <2>2. CASE t.owed # <<>>
    <3>1. Len(t.owed) # 0 /\ Tail(t.owed) \in Seq(Bytes) /\ Len(Tail(t.owed)) = Len(t.owed) - 1
      BY <1>1, <2>2
    <3>2. QED  BY <2>2, <3>1
  <2>3. QED  BY <2>1, <2>2
<1>3. SP!Sent(t) = [t EXCEPT !.owed = left]
  BY DEF SP!Sent
<1> HIDE DEF left
<1>4. /\ SP!Sent(t) \in SpiRecord /\ SP!Sent(t).owed = left
  BY <1>2, <1>3 DEF SpiRecord
<1>5. left = (IF t.owed = <<>> THEN <<>> ELSE Tail(t.owed))
  BY DEF left
<1>6. QED  BY <1>2, <1>3, <1>4, <1>5 DEF SpiRecord

\* A byte that comes in.
LEMMA SpiPushRxIs ==
    ASSUME NEW t \in SpiRecord, NEW w \in Bytes, Len(t.rx) <= 2
    PROVE  LET u == SP!PushRx(t, w)
           IN  /\ u \in SpiRecord /\ u.enable = t.enable /\ u.host = t.host
               /\ u.buffered = t.buffered /\ u.ie = t.ie /\ u.busy = t.busy
               /\ u.timer = t.timer /\ u.shift = t.shift /\ u.buf = t.buf
               /\ u.turned = t.turned /\ u.owed = t.owed
               /\ Len(u.rx) <= 2
               /\ (t.rx # <<>> => t.data = Head(t.rx)) => u.data = Head(u.rx)
<1> DEFINE u == SP!PushRx(t, w)
<1>1. t.rx \in Seq(Bytes) /\ t.flags \in SUBSET SpiFlags
  BY DEF SpiRecord
<1>2. CASE Len(t.rx) = 2
  <2>1. u = [t EXCEPT !.flags = t.flags \cup {"OVF"}]
    BY <1>2 DEF SP!PushRx, SP!RxFifoSize
  <2>2. t.flags \cup {"OVF"} \in SUBSET SpiFlags
    BY <1>1 DEF SpiFlags
  <2>3. t.rx # <<>>
    <3>1. Len(<<>>) # 2
      OBVIOUS
    <3>2. QED  BY <1>2, <3>1, Zenon
  <2> HIDE DEF u
  <2>4. /\ u \in SpiRecord /\ u.enable = t.enable /\ u.host = t.host
        /\ u.buffered = t.buffered /\ u.ie = t.ie /\ u.busy = t.busy
        /\ u.timer = t.timer /\ u.shift = t.shift /\ u.buf = t.buf
        /\ u.turned = t.turned /\ u.owed = t.owed /\ u.rx = t.rx /\ u.data = t.data
        /\ u.flags = t.flags \cup {"OVF"}
    BY <2>1, <2>2 DEF SpiRecord
  <2>5. QED  BY <2>3, <2>4 DEF u
<1>3. CASE Len(t.rx) # 2
  <2> DEFINE top == IF t.rx = <<>> THEN w ELSE t.data
  <2>1. u = [t EXCEPT !.rx = Append(t.rx, w), !.data = top, !.flags = t.flags \cup {"bit7"}]
    BY <1>3 DEF SP!PushRx, SP!RxFifoSize
  <2>2. t.flags \cup {"bit7"} \in SUBSET SpiFlags
    BY <1>1 DEF SpiFlags
  <2>3. Append(t.rx, w) \in Seq(Bytes) /\ Len(Append(t.rx, w)) <= 2
    <3>1. Len(t.rx) \in Nat /\ Len(Append(t.rx, w)) = Len(t.rx) + 1
      BY <1>1
    <3>2. \A n \in Nat : n <= 2 /\ n # 2 => n + 1 <= 2
      OBVIOUS
    <3>4. Len(t.rx) + 1 <= 2
      BY <1>3, <3>1, <3>2, Zenon
    <3>3. QED  BY <1>1, <3>1, <3>4
  <2>4. top \in SP!MaybeByte
    BY DEF SpiRecord, SP!MaybeByte
  <2>5. t.rx # <<>> => Head(Append(t.rx, w)) = Head(t.rx)
    BY <1>1
  <2>6. t.rx = <<>> => Head(Append(t.rx, w)) = w
    OBVIOUS
  <2>7. (t.rx # <<>> => t.data = Head(t.rx)) => top = Head(Append(t.rx, w))
    BY <2>5, <2>6
  <2> HIDE DEF u, top
  <2>8. /\ u \in SpiRecord /\ u.enable = t.enable /\ u.host = t.host
        /\ u.buffered = t.buffered /\ u.ie = t.ie /\ u.busy = t.busy
        /\ u.timer = t.timer /\ u.shift = t.shift /\ u.buf = t.buf
        /\ u.turned = t.turned /\ u.owed = t.owed /\ u.rx = Append(t.rx, w) /\ u.data = top
        /\ u.flags = t.flags \cup {"bit7"}
    BY <2>1, <2>2, <2>3, <2>4 DEF SpiRecord
  <2>9. QED  BY <2>3, <2>7, <2>8 DEF u
<1>4. QED  BY <1>2, <1>3

\* Fewer flags do not raise the request.
LEMMA FewerFlagsTell ==
    ASSUME NEW t, NEW u, u.flags \subseteq t.flags, u.ie = t.ie, u.buffered = t.buffered,
           u.pending = t.pending, u.served = t.served, t.again => u.again, Told(t)
    PROVE  Told(u)
<1>1. SP!Active(u) => SP!Active(t)
  BY DEF SP!Active
<1>2. QED  BY <1>1 DEF Told

\* A byte is written to DATA.
LEMMA SpiWriteDataKeeps ==
    ASSUME SP!WellFormed, SpiInv(spi), NEW w \in Bytes, SP!WriteData(w)
    PROVE  SpiInv(spi')
<1>1. /\ spi \in SpiRecord /\ SpiCounted(spi) /\ Told(spi)
      /\ (spi.buffered /\ ~spi.turned => SpiOrdered(spi))
  BY DEF SpiInv
<1>2. w # SP!NoByte /\ w \in SpiSlot /\ w \in SP!MaybeByte
  BY DEF SP!WellFormed, SpiSlot, SP!MaybeByte
<1>3. spi.owed \in Seq(Bytes) /\ Append(spi.owed, w) \in Seq(Bytes)
      /\ Len(Append(spi.owed, w)) = Len(spi.owed) + 1 /\ Len(spi.owed) \in Nat
  BY <1>1 DEF SpiRecord
<1>4. CASE ~spi.enable
  <2> DEFINE now == spi.turned \/ spi.rx # <<>>
  <2>1. spi' = [spi EXCEPT !.data = w, !.turned = now]
    BY <1>4 DEF SP!WriteData
  <2>2. now \in BOOLEAN /\ (~now => ~spi.turned /\ spi.rx = <<>>)
    BY <1>1 DEF SpiRecord
  <2> HIDE DEF now
  <2>3. /\ spi' \in SpiRecord
        /\ spi'.enable = spi.enable /\ spi'.host = spi.host /\ spi'.turned = now
        /\ spi'.buffered = spi.buffered /\ spi'.ie = spi.ie /\ spi'.flags = spi.flags
        /\ spi'.data = w /\ spi'.busy = spi.busy /\ spi'.timer = spi.timer
        /\ spi'.shift = spi.shift /\ spi'.buf = spi.buf /\ spi'.rx = spi.rx
        /\ spi'.pending = spi.pending /\ spi'.served = spi.served /\ spi'.again = spi.again
        /\ spi'.owed = spi.owed
    BY <1>1, <1>2, <2>1, <2>2 DEF SpiRecord
  <2>4. SpiQueue(spi') = SpiQueue(spi)
    BY <2>3 DEF SpiQueue
  <2>5. SpiCounted(spi')
    BY <1>1, <2>3, <2>4, Zenon DEF SpiCounted
  <2>6. Told(spi')
    BY <1>1, <2>3, FewerFlagsTell
  <2>7. SpiOrdered(spi) /\ spi.rx = <<>> => SpiOrdered(spi')
    BY <2>3, <2>4, Zenon DEF SpiOrdered, SpiLined
  <2>8. QED  BY <1>1, <2>2, <2>3, <2>5, <2>6, <2>7, Zenon DEF SpiInv
<1>5. CASE spi.enable /\ ~spi.buffered
  <2>1. spi.rx = <<>> /\ spi' = SP!WriteNormal(w)
    BY <1>1, <1>5, Zenon DEF SP!WriteData, SpiCounted
  <2>2. CASE spi.busy
    <3> DEFINE t == [spi EXCEPT !.flags = spi.flags \cup {"bit6"}]
    <3>1. spi' = SP!UpdateInterrupt(t)
      BY <2>1, <2>2 DEF SP!WriteNormal
    <3>2. /\ t \in SpiRecord /\ t.buffered = spi.buffered /\ t.rx = spi.rx
          /\ t.busy = spi.busy /\ t.timer = spi.timer /\ t.owed = spi.owed
      BY <1>1 DEF SpiRecord, SpiFlags
    <3> HIDE DEF t
    <3>3. SpiCounted(t) /\ ~t.buffered
      BY <1>1, <1>5, <2>1, <3>2, Zenon DEF SpiCounted
    <3>4. QED  BY <3>1, <3>2, <3>3, UpdateInterruptHolds
  <2>3. CASE ~spi.busy
    <3>1. <<w>> \in Seq(Bytes) /\ Len(<<w>>) = 1 /\ Len(<<w>>) <= 1
      OBVIOUS
    <3> DEFINE one == <<w>>
               t == [spi EXCEPT !.data = w, !.owed = one]
               u == [t EXCEPT !.busy = TRUE, !.shift = w, !.timer = TRUE]
    <3>2. spi' = (IF t.host THEN u ELSE t)
      BY <2>1, <2>3 DEF SP!WriteNormal, SP!StartTransfer
    <3>3. one \in Seq(Bytes) /\ Len(one) <= 1
      BY <3>1
    <3> HIDE DEF one
    <3>4. /\ t \in SpiRecord /\ t.buffered = spi.buffered /\ t.rx = spi.rx /\ t.ie = spi.ie
          /\ t.busy = spi.busy /\ t.timer = spi.timer /\ t.owed = one /\ t.flags = spi.flags
          /\ t.pending = spi.pending /\ t.served = spi.served /\ t.again = spi.again
      BY <1>1, <1>2, <3>3 DEF SpiRecord
    <3> HIDE DEF t
    <3>5. /\ u \in SpiRecord /\ u.buffered = t.buffered /\ u.rx = t.rx /\ u.ie = t.ie
          /\ u.busy = TRUE /\ u.timer = TRUE /\ u.owed = t.owed /\ u.flags = t.flags
          /\ u.pending = t.pending /\ u.served = t.served /\ u.again = t.again
      BY <1>2, <3>4 DEF SpiRecord
    <3> HIDE DEF u
    <3>6. Told(t) /\ Told(u)
      BY <1>1, <3>4, <3>5, FewerFlagsTell
    <3>7. SpiCounted(t) /\ SpiCounted(u)
      BY <1>1, <1>5, <2>1, <3>3, <3>4, <3>5, Zenon DEF SpiCounted
    <3>8. ~t.buffered /\ ~u.buffered
      BY <1>5, <3>4, <3>5
    <3>9. QED  BY <3>2, <3>4, <3>5, <3>6, <3>7, <3>8, Zenon DEF SpiInv
  <2>4. QED  BY <2>2, <2>3
<1>6. CASE spi.enable /\ spi.buffered
  <2> DEFINE t == [spi EXCEPT !.flags = spi.flags \ {"bit6"}]
  <2>1. spi' = SP!WriteBuffered(w)
    BY <1>6 DEF SP!WriteData
  <2>2. /\ t \in SpiRecord
        /\ t.enable = spi.enable /\ t.host = spi.host /\ t.turned = spi.turned
        /\ t.buffered = spi.buffered /\ t.ie = spi.ie /\ t.flags = spi.flags \ {"bit6"}
        /\ t.data = spi.data /\ t.busy = spi.busy /\ t.timer = spi.timer
        /\ t.shift = spi.shift /\ t.buf = spi.buf /\ t.rx = spi.rx
        /\ t.pending = spi.pending /\ t.served = spi.served /\ t.again = spi.again
        /\ t.owed = spi.owed
    BY <1>1 DEF SpiRecord
  <2>3. /\ spi' = CASE ~t.busy /\ t.shift = SP!NoByte ->
                          LET u == [SP!UpdateFlags(t, FALSE) EXCEPT !.owed = Append(@, w)]
                          IN  IF u.host THEN SP!StartTransfer(u, w) ELSE [u EXCEPT !.shift = w]
                   [] (t.busy \/ t.shift # SP!NoByte) /\ t.buf = SP!NoByte ->
                          SP!UpdateFlags([t EXCEPT !.buf = w, !.owed = Append(@, w)], FALSE)
                   [] (t.busy \/ t.shift # SP!NoByte) /\ t.buf # SP!NoByte -> t
    BY <2>1 DEF SP!WriteBuffered
  <2> HIDE DEF t
  <2>4. SpiQueue(t) = SpiQueue(spi)
    BY <2>2 DEF SpiQueue
  <2>5. SpiCounted(t) /\ Told(t)
    <3>1. SpiCounted(t)
      BY <1>1, <2>2, <2>4 DEF SpiCounted
    <3>2. Told(t)
      BY <1>1, <2>2, FewerFlagsTell
    <3>3. QED  BY <3>1, <3>2
  <2>6. t.buffered /\ ~t.turned => SpiOrdered(t) /\ "bit6" \notin t.flags
    <3>1. SpiLined(spi) => SpiLined(t)
      BY <2>2, <2>4, Zenon DEF SpiLined
    <3>2. QED  BY <1>1, <2>2, <3>1 DEF SpiOrdered
  <2>7. Append(t.owed, w) \in Seq(Bytes) /\ Len(Append(t.owed, w)) = Len(t.owed) + 1
        /\ Len(t.owed) \in Nat /\ t.buffered /\ Len(t.owed) <= Len(SpiQueue(t)) /\ t.enable
    BY <1>3, <1>6, <2>2, <2>5 DEF SpiCounted
  <2>8. CASE ~t.busy /\ t.shift = SP!NoByte
    <3> DEFINE f == SP!UpdateFlags(t, FALSE)
               longer == Append(f.owed, w)
               u == [f EXCEPT !.owed = longer]
               x == IF u.host THEN [u EXCEPT !.busy = TRUE, !.shift = w, !.timer = TRUE]
                    ELSE [u EXCEPT !.shift = w]
    <3>1. spi' = x
      BY <2>3, <2>8 DEF SP!StartTransfer
    <3>2. f \in SpiRecord /\ SameBytes(f, t) /\ FlagsAre(f, t, FALSE) /\ Told(f)
      BY <2>2, UpdateFlagsTells
    <3> HIDE DEF f
    <3>3. f.owed = t.owed /\ longer = Append(t.owed, w)
      BY <3>2 DEF SameBytes
    <3>4. longer \in Seq(Bytes) /\ Len(longer) = Len(t.owed) + 1
      BY <2>7, <3>3
    <3> HIDE DEF longer
    <3>5. /\ u \in SpiRecord /\ u.owed = longer
          /\ u.enable = f.enable /\ u.host = f.host /\ u.turned = f.turned
          /\ u.buffered = f.buffered /\ u.ie = f.ie /\ u.flags = f.flags
          /\ u.data = f.data /\ u.busy = f.busy /\ u.timer = f.timer
          /\ u.shift = f.shift /\ u.buf = f.buf /\ u.rx = f.rx
          /\ u.pending = f.pending /\ u.served = f.served /\ u.again = f.again
      BY <3>2, <3>4 DEF SpiRecord
    <3> HIDE DEF u
    <3>6. /\ x \in SpiRecord /\ x.owed = longer
          /\ x.enable = t.enable /\ x.host = t.host /\ x.turned = t.turned
          /\ x.buffered = t.buffered /\ x.ie = t.ie /\ x.flags = f.flags
          /\ x.data = t.data
          /\ x.shift = w /\ x.buf = t.buf /\ x.rx = t.rx
          /\ x.pending = f.pending /\ x.served = f.served /\ x.again = f.again
      <4>1. SameBytes(f, t)
        BY <3>2
      <4>2. QED  BY <1>2, <3>5, <4>1 DEF SpiRecord, SameBytes
    <3>7. /\ t.host => x.busy = TRUE /\ x.timer = TRUE
          /\ ~t.host => x.busy = t.busy /\ x.timer = t.timer
      <4>1. SameBytes(f, t)
        BY <3>2
      <4>2. QED  BY <3>5, <4>1 DEF SpiRecord, SameBytes
    <3> HIDE DEF x
    <3>8. Told(x)
      <4>1. x.ie = f.ie /\ x.buffered = f.buffered
        BY <3>2, <3>6 DEF SameBytes
      <4>2. QED  BY <3>2, <3>6, <4>1, FewerFlagsTell
    <3>9. SpiCounted(x)
      <4>1. Len(SpiQueue(t)) = 0 + (IF t.buf = SP!NoByte THEN 0 ELSE 1)
        BY <2>2, <2>8, SpiQueueLength
      <4>2. Len(SpiQueue(x)) = 1 + (IF t.buf = SP!NoByte THEN 0 ELSE 1)
        BY <1>2, <3>6, SpiQueueLength
      <4>3. Len(x.owed) <= Len(SpiQueue(x))
        BY <2>7, <3>4, <3>6, <4>1, <4>2
      <4>4. x.busy <=> x.timer
        BY <2>5, <3>7 DEF SpiCounted
      <4>5. Len(x.rx) <= 2 /\ x.buffered
        BY <2>5, <2>7, <3>6, Zenon DEF SpiCounted
      <4>6. QED  BY <4>3, <4>4, <4>5, Zenon DEF SpiCounted
    <3>10. ASSUME ~x.turned
           PROVE  SpiOrdered(x)
      <4>1. SpiOrdered(t)
        BY <2>6, <2>7, <3>6, <3>10
      <4>2. t.buf = SP!NoByte /\ t.owed = <<>>
        BY <2>2, <2>8, <4>1, SpiQueueIs DEF SpiOrdered, SpiLined
      <4>3. SpiQueue(x) = <<w>>
        BY <1>2, <3>6, <4>2, SpiQueueIs
      <4>4. x.owed = <<w>>
        BY <3>3, <3>6, <4>2, ShortSequences
      <4>5. SpiLined(x)
        BY <1>2, <2>7, <2>8, <3>6, <3>7, <4>1, <4>3, <4>4, Zenon DEF SpiOrdered, SpiLined
      <4>6. "bit6" \notin x.flags
        BY <3>2, <3>6, Zenon DEF FlagsAre
      <4>7. QED  BY <3>6, <4>2, <4>5, <4>6, Zenon DEF SpiOrdered
    <3>11. QED  BY <3>1, <3>6, <3>8, <3>9, <3>10, Zenon DEF SpiInv
  <2>9. CASE (t.busy \/ t.shift # SP!NoByte) /\ t.buf = SP!NoByte
    <3> DEFINE longer == Append(t.owed, w)
               u == [t EXCEPT !.buf = w, !.owed = longer]
    <3>1. spi' = SP!UpdateFlags(u, FALSE)
      BY <2>3, <2>9
    <3>2. longer \in Seq(Bytes) /\ Len(longer) = Len(t.owed) + 1
      BY <2>7
    <3> HIDE DEF longer
    <3>3. /\ u \in SpiRecord /\ u.owed = longer
          /\ u.enable = t.enable /\ u.host = t.host /\ u.turned = t.turned
          /\ u.buffered = t.buffered /\ u.flags = t.flags
          /\ u.data = t.data /\ u.busy = t.busy /\ u.timer = t.timer
          /\ u.shift = t.shift /\ u.buf = w /\ u.rx = t.rx
      BY <1>2, <2>2, <3>2 DEF SpiRecord
    <3> HIDE DEF u
    <3>4. SpiCounted(u)
      <4>1. Len(SpiQueue(t)) = (IF t.shift = SP!NoByte THEN 0 ELSE 1) + 0
        BY <2>2, <2>9, SpiQueueLength
      <4>2. Len(SpiQueue(u)) = (IF t.shift = SP!NoByte THEN 0 ELSE 1) + 1
        BY <1>2, <3>3, SpiQueueLength
      <4>3. Len(u.owed) <= Len(SpiQueue(u))
        BY <2>7, <3>2, <3>3, <4>1, <4>2
      <4>4. u.buffered
        BY <2>7, <3>3
      <4>5. QED  BY <2>5, <3>3, <4>3, <4>4, Zenon DEF SpiCounted
    <3>5. ASSUME ~u.turned
          PROVE  SpiLined(u)
      <4>1. SpiLined(t)
        BY <2>6, <2>7, <3>3, <3>5 DEF SpiOrdered
      <4>2. t.shift # SP!NoByte
        BY <2>9, <4>1 DEF SpiLined
      <4>3. t.owed = <<t.shift>>
        BY <2>2, <2>9, <4>1, <4>2, SpiQueueIs DEF SpiLined
      <4>4. SpiQueue(u) = <<t.shift, w>>
        BY <1>2, <3>3, <4>2, SpiQueueIs
      <4>5. u.owed = <<t.shift, w>>
        <5>1. t.shift \in Bytes
          BY <2>2, <4>2 DEF SpiRecord, SpiSlot
        <5>2. QED  BY <3>3, <4>3, <5>1, ShortSequences DEF longer
      <4>6. QED  BY <3>3, <4>1, <4>2, <4>4, <4>5, Zenon DEF SpiLined
    <3>6. QED  BY <3>1, <3>3, <3>4, <3>5, UpdateFlagsHolds
  <2>10. CASE (t.busy \/ t.shift # SP!NoByte) /\ t.buf # SP!NoByte
    <3>1. spi' = t
      BY <2>3, <2>10
    <3>2. QED  BY <2>2, <2>5, <2>6, <3>1 DEF SpiInv
  <2>11. QED  BY <2>8, <2>9, <2>10
<1>7. QED  BY <1>4, <1>5, <1>6

\* DATA is read.
LEMMA SpiReadDataKeeps ==
    ASSUME SpiInv(spi), SP!ReadData
    PROVE  SpiInv(spi')
<1>1. /\ spi \in SpiRecord /\ SpiCounted(spi) /\ Told(spi)
      /\ (spi.buffered /\ ~spi.turned => SpiOrdered(spi))
  BY DEF SpiInv
<1>2. spi.rx \in Seq(Bytes) /\ spi.flags \in SUBSET SpiFlags
  BY <1>1 DEF SpiRecord
<1>3. CASE spi.buffered /\ spi.rx # <<>>
  <2> DEFINE rest == Tail(spi.rx)
             top == IF rest = <<>> THEN SP!Idle ELSE Head(rest)
             set == (spi.flags \ {"bit7", "OVF"}) \cup (IF rest = <<>> THEN {} ELSE {"bit7"})
             now == spi.again \/ (rest # <<>> /\ "bit7" \notin spi.flags)
  <2>1. spi' = SP!PopRx(spi)
    BY <1>3 DEF SP!ReadData
  <2>2. spi' = [spi EXCEPT !.rx = rest, !.data = top, !.flags = set, !.again = now]
    BY <2>1 DEF SP!PopRx
  <2>3. rest \in Seq(Bytes) /\ Len(rest) <= 2
    <3>1. Len(spi.rx) <= 2 /\ Len(spi.rx) \in Nat
      BY <1>1, <1>2 DEF SpiCounted
    <3>2. Tail(spi.rx) \in Seq(Bytes) /\ Len(Tail(spi.rx)) = Len(spi.rx) - 1
      BY <1>2, <1>3
    <3>3. QED  BY <3>1, <3>2
  <2>4. top \in SP!MaybeByte /\ (rest # <<>> => top = Head(rest))
    BY <2>3 DEF SP!MaybeByte
  <2>5. /\ set \in SUBSET SpiFlags /\ now \in BOOLEAN
        /\ spi.again => now
        /\ ~now => set \subseteq spi.flags
    BY <1>1, <1>2 DEF SpiRecord, SpiFlags
  <2>6. /\ "DRE" \in set => "DRE" \in spi.flags
        /\ "bit6" \in set => "bit6" \in spi.flags
    OBVIOUS
  <2> HIDE DEF rest, top, set, now
  <2>7. /\ spi' \in SpiRecord
        /\ spi'.enable = spi.enable /\ spi'.host = spi.host /\ spi'.turned = spi.turned
        /\ spi'.buffered = spi.buffered /\ spi'.ie = spi.ie /\ spi'.flags = set
        /\ spi'.data = top /\ spi'.busy = spi.busy /\ spi'.timer = spi.timer
        /\ spi'.shift = spi.shift /\ spi'.buf = spi.buf /\ spi'.rx = rest
        /\ spi'.pending = spi.pending /\ spi'.served = spi.served /\ spi'.owed = spi.owed
        /\ spi'.again = now
    BY <1>1, <2>2, <2>3, <2>4, <2>5 DEF SpiRecord
  <2>8. SpiQueue(spi') = SpiQueue(spi)
    BY <2>7 DEF SpiQueue
  <2>9. Told(spi')
    <3>1. CASE now
      BY <2>7, <3>1 DEF Told
    <3>2. CASE ~now
      BY <1>1, <2>5, <2>7, <3>2, FewerFlagsTell
    <3>3. QED  BY <3>1, <3>2
  <2>10. SpiCounted(spi')
    BY <1>1, <1>3, <2>3, <2>5, <2>7, <2>8, Zenon DEF SpiCounted
  <2>11. SpiOrdered(spi) => SpiOrdered(spi')
    BY <2>4, <2>6, <2>7, <2>8, Zenon DEF SpiOrdered, SpiLined
  <2>12. QED  BY <1>1, <2>7, <2>9, <2>10, <2>11, Zenon DEF SpiInv
<1>4. CASE ~(spi.buffered /\ spi.rx # <<>>)
  <2> DEFINE set == IF spi.buffered THEN spi.flags \ {"bit7", "OVF"} ELSE spi.flags \ {"bit7"}
             t == [spi EXCEPT !.flags = set]
  <2>1. spi' = (IF spi.buffered THEN SP!UpdateInterrupt(t) ELSE t)
    <3>1. CASE spi.buffered
      BY <1>4, <3>1 DEF SP!ReadData
    <3>2. CASE ~spi.buffered
      BY <3>2 DEF SP!ReadData
    <3>3. QED  BY <3>1, <3>2
  <2>2. spi.rx = <<>>
    BY <1>1, <1>4 DEF SpiCounted
  <2>3. set \in SUBSET SpiFlags /\ set \subseteq spi.flags
    BY <1>2
  <2>4. /\ "DRE" \in set => "DRE" \in spi.flags
        /\ "bit6" \in set => "bit6" \in spi.flags
    BY <2>3
  <2> HIDE DEF set
  <2>5. /\ t \in SpiRecord
        /\ t.enable = spi.enable /\ t.host = spi.host /\ t.turned = spi.turned
        /\ t.buffered = spi.buffered /\ t.ie = spi.ie /\ t.flags = set
        /\ t.data = spi.data /\ t.busy = spi.busy /\ t.timer = spi.timer
        /\ t.shift = spi.shift /\ t.buf = spi.buf /\ t.rx = spi.rx
        /\ t.pending = spi.pending /\ t.served = spi.served /\ t.again = spi.again
        /\ t.owed = spi.owed
    BY <1>1, <2>3 DEF SpiRecord
  <2> HIDE DEF t
  <2>6. SpiQueue(t) = SpiQueue(spi)
    BY <2>5 DEF SpiQueue
  <2>7. SpiCounted(t)
    BY <1>1, <2>2, <2>5, <2>6, Zenon DEF SpiCounted
  <2>8. SpiOrdered(spi) => SpiOrdered(t)
    BY <2>4, <2>5, <2>6, Zenon DEF SpiOrdered, SpiLined
  <2>9. Told(t)
    BY <1>1, <2>3, <2>5, FewerFlagsTell
  <2>10. SpiInv(t)
    BY <1>1, <2>5, <2>7, <2>8, <2>9, Zenon DEF SpiInv
  <2>11. spi.buffered => SpiInv(SP!UpdateInterrupt(t))
    BY <1>1, <2>5, <2>7, <2>8, UpdateInterruptHolds
  <2>12. QED  BY <2>1, <2>10, <2>11
<1>5. QED  BY <1>3, <1>4

\* A byte comes in without the buffers: the one that was sent is done.
LEMMA SpiSingleHolds ==
    ASSUME NEW t \in SpiRecord, SpiCounted(t), ~t.buffered, NEW w \in Bytes
    PROVE  SpiInv(SP!UpdateInterrupt([SP!Sent(t) EXCEPT !.data = w, !.flags = @ \cup {"bit7"}]))
<1> DEFINE n == SP!Sent(t)
           set == n.flags \cup {"bit7"}
           u == [n EXCEPT !.data = w, !.flags = set]
<1>1. /\ n \in SpiRecord /\ n.buffered = t.buffered /\ n.busy = t.busy
      /\ n.timer = t.timer /\ n.rx = t.rx /\ n.flags = t.flags
      /\ Len(n.owed) = (IF Len(t.owed) = 0 THEN 0 ELSE Len(t.owed) - 1)
  BY SentIs
<1> HIDE DEF n
<1>2. set \in SUBSET SpiFlags
  BY <1>1 DEF SpiRecord, SpiFlags
<1>3. w \in SP!MaybeByte
  BY DEF SP!MaybeByte
<1> HIDE DEF set
<1>4. /\ u \in SpiRecord /\ u.buffered = t.buffered /\ u.busy = t.busy
      /\ u.timer = t.timer /\ u.rx = t.rx /\ u.owed = n.owed
  BY <1>1, <1>2, <1>3 DEF SpiRecord
<1> HIDE DEF u
<1>5. t.rx = <<>> /\ Len(t.owed) <= 1 /\ Len(t.owed) \in Nat
  BY DEF SpiCounted, SpiRecord
<1>6. Len(u.owed) <= 1
  BY <1>1, <1>4, <1>5
<1>7. SpiCounted(u) /\ ~u.buffered
  BY <1>4, <1>5, <1>6, Zenon DEF SpiCounted
<1>8. SpiInv(SP!UpdateInterrupt(u))
  BY <1>4, <1>7, UpdateInterruptHolds
<1>9. QED  BY <1>8 DEF u, set, n

\* The queue after the byte in front has left.
LEMMA SpiQueueMoves ==
    ASSUME SP!WellFormed, NEW t \in SpiRecord, NEW u \in SpiRecord,
           u.shift = t.buf, u.buf = SP!NoByte,
           u.owed = (IF t.owed = <<>> THEN <<>> ELSE Tail(t.owed)),
           Len(u.owed) = (IF Len(t.owed) = 0 THEN 0 ELSE Len(t.owed) - 1),
           Len(t.owed) <= Len(SpiQueue(t))
    PROVE  /\ Len(u.owed) <= Len(SpiQueue(u))
           /\ t.owed = SpiQueue(t) /\ (t.shift = SP!NoByte => t.buf = SP!NoByte)
                => u.owed = SpiQueue(u)
<1>1. Len(u.owed) <= Len(SpiQueue(u))
  <2>1. Len(t.owed) \in Nat
    BY DEF SpiRecord
  <2>2. Len(SpiQueue(u)) = (IF t.buf = SP!NoByte THEN 0 ELSE 1) + 0
    BY SpiQueueLength
  <2>3. Len(SpiQueue(t)) <= 1 + (IF t.buf = SP!NoByte THEN 0 ELSE 1)
    BY SpiQueueLength
  <2>4. QED  BY <2>1, <2>2, <2>3
<1>2. ASSUME t.owed = SpiQueue(t), t.shift = SP!NoByte => t.buf = SP!NoByte
      PROVE  u.owed = SpiQueue(u)
  <2>1. CASE t.shift = SP!NoByte
    BY <1>2, <2>1, SpiQueueIs
  <2>2. CASE t.shift # SP!NoByte /\ t.buf = SP!NoByte
    <3>1. t.shift \in Bytes /\ t.owed = <<t.shift>> /\ SpiQueue(u) = <<>>
      BY <1>2, <2>2, SpiQueueIs DEF SpiRecord, SpiSlot
    <3>2. QED  BY <3>1, ShortSequences, Zenon
  <2>3. CASE t.shift # SP!NoByte /\ t.buf # SP!NoByte
    <3>1. t.shift \in Bytes /\ t.buf \in Bytes /\ t.owed = <<t.shift, t.buf>>
          /\ SpiQueue(u) = <<t.buf>>
      BY <1>2, <2>3, SpiQueueIs DEF SpiRecord, SpiSlot
    <3>2. QED  BY <3>1, ShortSequences, Zenon
  <2>4. QED  BY <2>1, <2>2, <2>3
<1>3. QED  BY <1>1, <1>2

\* A byte for a client, which is answered.
LEMMA SpiInputKeeps ==
    ASSUME SP!WellFormed, SpiInv(spi), NEW w \in Bytes, SP!Input(w)
    PROVE  SpiInv(spi')
<1>1. /\ spi \in SpiRecord /\ SpiCounted(spi) /\ Told(spi)
      /\ (spi.buffered /\ ~spi.turned => SpiOrdered(spi))
  BY DEF SpiInv
<1>2. CASE ~spi.buffered
  <2>1. spi' = SP!UpdateInterrupt([SP!Sent(spi) EXCEPT !.data = w, !.flags = @ \cup {"bit7"}])
    BY <1>2 DEF SP!Input
  <2>2. QED  BY <1>1, <1>2, <2>1, SpiSingleHolds, Zenon
<1>3. CASE spi.buffered
  <2> DEFINE q == SP!PushRx(spi, w)
             n == SP!Sent(q)
             m == [n EXCEPT !.shift = spi.buf]
             u == [m EXCEPT !.buf = SP!NoByte]
  <2>1. spi' = SP!UpdateFlags(u, spi.buf = SP!NoByte) /\ spi.enable /\ ~spi.host
    BY <1>3 DEF SP!Input, SP!Taken
  <2>2. /\ q \in SpiRecord /\ q.enable = spi.enable /\ q.host = spi.host
        /\ q.buffered = spi.buffered /\ q.busy = spi.busy
        /\ q.timer = spi.timer /\ q.shift = spi.shift /\ q.buf = spi.buf
        /\ q.turned = spi.turned /\ q.owed = spi.owed
        /\ Len(q.rx) <= 2
        /\ (spi.rx # <<>> => spi.data = Head(spi.rx)) => q.data = Head(q.rx)
    BY <1>1, SpiPushRxIs DEF SpiCounted
  <2> HIDE DEF q
  <2>3. /\ n \in SpiRecord /\ n.enable = q.enable /\ n.host = q.host
        /\ n.buffered = q.buffered /\ n.data = q.data /\ n.busy = q.busy
        /\ n.timer = q.timer /\ n.shift = q.shift /\ n.buf = q.buf /\ n.rx = q.rx
        /\ n.turned = q.turned /\ n.flags = q.flags
        /\ n.owed = (IF q.owed = <<>> THEN <<>> ELSE Tail(q.owed))
        /\ Len(n.owed) = (IF Len(q.owed) = 0 THEN 0 ELSE Len(q.owed) - 1)
    BY <2>2, SentIs
  <2> HIDE DEF n
  <2>4. spi.buf \in SpiSlot /\ SP!NoByte \in SpiSlot
    BY <1>1 DEF SpiRecord, SpiSlot
  <2>5. /\ u \in SpiRecord /\ u.enable = n.enable /\ u.host = n.host
        /\ u.buffered = n.buffered /\ u.data = n.data /\ u.busy = n.busy
        /\ u.timer = n.timer /\ u.shift = spi.buf /\ u.buf = SP!NoByte /\ u.rx = n.rx
        /\ u.turned = n.turned /\ u.flags = n.flags /\ u.owed = n.owed
    BY <2>3, <2>4 DEF SpiRecord
  <2> HIDE DEF u
  <2>6. u.owed = (IF spi.owed = <<>> THEN <<>> ELSE Tail(spi.owed))
        /\ Len(u.owed) = (IF Len(spi.owed) = 0 THEN 0 ELSE Len(spi.owed) - 1)
    BY <2>2, <2>3, <2>5
  <2>7. /\ Len(u.owed) <= Len(SpiQueue(u))
        /\ spi.owed = SpiQueue(spi) /\ (spi.shift = SP!NoByte => spi.buf = SP!NoByte)
                => u.owed = SpiQueue(u)
    BY <1>1, <1>3, <2>5, <2>6, SpiQueueMoves DEF SpiCounted
  <2>8. SpiCounted(u)
    <3>1. u.buffered /\ Len(u.rx) <= 2
      BY <1>3, <2>2, <2>3, <2>5
    <3>2. u.busy <=> u.timer
      BY <1>1, <2>2, <2>3, <2>5 DEF SpiCounted
    <3>3. QED  BY <2>7, <3>1, <3>2, Zenon DEF SpiCounted
  <2>9. ASSUME ~u.turned
        PROVE  SpiLined(u)
    <3>1. SpiLined(spi)
      BY <1>1, <1>3, <2>2, <2>3, <2>5, <2>9 DEF SpiOrdered
    <3>2. u.owed = SpiQueue(u)
      BY <2>7, <3>1 DEF SpiLined
    <3>3. ~u.host /\ ~u.busy
      BY <2>1, <2>2, <2>3, <2>5, <3>1 DEF SpiLined
    <3>4. u.data = Head(u.rx)
      BY <2>2, <2>3, <2>5, <3>1 DEF SpiLined
    <3>5. QED  BY <2>5, <3>2, <3>3, <3>4, Zenon DEF SpiLined
  <2>10. (spi.buf = SP!NoByte) \in BOOLEAN
    OBVIOUS
  <2>11. SpiInv(SP!UpdateFlags(u, spi.buf = SP!NoByte))
    BY <2>5, <2>8, <2>9, <2>10, UpdateFlagsHolds
  <2>12. QED  BY <2>1, <2>11
<1>4. QED  BY <1>2, <1>3

\* A transfer ends, and the next begins if its byte is there.
LEMMA SpiXferKeeps ==
    ASSUME SP!WellFormed, SpiInv(spi), SP!Xfer
    PROVE  SpiInv(spi')
<1> DEFINE q == [spi EXCEPT !.busy = FALSE, !.timer = FALSE]
<1>1. /\ spi \in SpiRecord /\ SpiCounted(spi) /\ Told(spi)
      /\ (spi.buffered /\ ~spi.turned => SpiOrdered(spi))
  BY DEF SpiInv
<1>2. spi.timer /\ spi.busy
  BY <1>1 DEF SP!Xfer, SpiCounted
<1>3. PICK w \in Bytes :
         LET t == SP!PushRx(SP!Sent(q), w)
         IN  spi' = CASE ~(spi.enable /\ spi.host) -> q
                    [] spi.enable /\ spi.host /\ spi.buffered ->
                           IF spi.buf # SP!NoByte
                           THEN SP!StartTransfer(SP!UpdateFlags(SP!Taken(t), FALSE), spi.buf)
                           ELSE SP!UpdateFlags([t EXCEPT !.shift = SP!NoByte], TRUE)
                    [] spi.enable /\ spi.host /\ ~spi.buffered ->
                           SP!UpdateInterrupt(
                               [SP!Sent(q) EXCEPT !.data = w, !.flags = @ \cup {"bit7"}])
  BY DEF SP!Xfer
<1>4. /\ q \in SpiRecord
      /\ q.enable = spi.enable /\ q.host = spi.host /\ q.turned = spi.turned
      /\ q.buffered = spi.buffered /\ q.ie = spi.ie /\ q.flags = spi.flags
      /\ q.data = spi.data /\ q.busy = FALSE /\ q.timer = FALSE
      /\ q.shift = spi.shift /\ q.buf = spi.buf /\ q.rx = spi.rx
      /\ q.pending = spi.pending /\ q.served = spi.served /\ q.again = spi.again
      /\ q.owed = spi.owed
  BY <1>1 DEF SpiRecord
<1> HIDE DEF q
<1>5. SpiQueue(q) = SpiQueue(spi)
  BY <1>4 DEF SpiQueue
<1>6. SpiCounted(q)
  BY <1>1, <1>4, <1>5, Zenon DEF SpiCounted
<1>7. CASE ~(spi.enable /\ spi.host)
  <2>1. spi' = q
    BY <1>3, <1>7
  <2>2. Told(q)
    BY <1>1, <1>4, FewerFlagsTell
  <2>3. ~(spi.buffered /\ ~spi.turned)
    BY <1>1, <1>2, <1>7 DEF SpiOrdered, SpiLined
  <2>4. QED  BY <1>4, <1>6, <2>1, <2>2, <2>3 DEF SpiInv
<1>8. CASE spi.enable /\ spi.host /\ ~spi.buffered
  <2>1. spi' = SP!UpdateInterrupt([SP!Sent(q) EXCEPT !.data = w, !.flags = @ \cup {"bit7"}])
    BY <1>3, <1>8
  <2>2. QED  BY <1>4, <1>6, <1>8, <2>1, SpiSingleHolds, Zenon
<1>9. CASE spi.enable /\ spi.host /\ spi.buffered
  <2> DEFINE n == SP!Sent(q)
             t == SP!PushRx(n, w)
             u == IF spi.buf # SP!NoByte THEN SP!Taken(t) ELSE [t EXCEPT !.shift = SP!NoByte]
  <2>1. spi' = (IF spi.buf # SP!NoByte
                THEN SP!StartTransfer(SP!UpdateFlags(u, FALSE), spi.buf)
                ELSE SP!UpdateFlags(u, TRUE))
    BY <1>3, <1>9
  <2>2. /\ n \in SpiRecord /\ n.enable = q.enable /\ n.host = q.host
        /\ n.buffered = q.buffered /\ n.data = q.data /\ n.busy = q.busy
        /\ n.timer = q.timer /\ n.shift = q.shift /\ n.buf = q.buf /\ n.rx = q.rx
        /\ n.turned = q.turned /\ n.flags = q.flags
        /\ n.owed = (IF q.owed = <<>> THEN <<>> ELSE Tail(q.owed))
        /\ Len(n.owed) = (IF Len(q.owed) = 0 THEN 0 ELSE Len(q.owed) - 1)
    BY <1>4, SentIs
  <2> HIDE DEF n
  <2>3. Len(n.rx) <= 2
    BY <1>6, <2>2 DEF SpiCounted
  <2>4. /\ t \in SpiRecord /\ t.enable = n.enable /\ t.host = n.host
        /\ t.buffered = n.buffered /\ t.busy = n.busy
        /\ t.timer = n.timer /\ t.shift = n.shift /\ t.buf = n.buf
        /\ t.turned = n.turned /\ t.owed = n.owed
        /\ Len(t.rx) <= 2
        /\ (n.rx # <<>> => n.data = Head(n.rx)) => t.data = Head(t.rx)
    BY <2>2, <2>3, SpiPushRxIs
  <2> HIDE DEF t
  <2>5. /\ u \in SpiRecord /\ u.enable = t.enable /\ u.host = t.host
        /\ u.buffered = t.buffered /\ u.data = t.data /\ u.busy = t.busy
        /\ u.timer = t.timer /\ u.buf = SP!NoByte /\ u.rx = t.rx
        /\ u.turned = t.turned /\ u.flags = t.flags /\ u.owed = t.owed
        /\ u.shift = (IF spi.buf # SP!NoByte THEN spi.shift ELSE SP!NoByte)
    <3>1. SP!NoByte \in SpiSlot
      BY DEF SpiSlot
    <3>2. CASE spi.buf # SP!NoByte
      <4>1. u = [t EXCEPT !.buf = SP!NoByte]
        BY <3>2 DEF SP!Taken
      <4>2. /\ u \in SpiRecord /\ u.enable = t.enable /\ u.host = t.host
            /\ u.buffered = t.buffered /\ u.data = t.data /\ u.busy = t.busy
            /\ u.timer = t.timer /\ u.buf = SP!NoByte /\ u.rx = t.rx
            /\ u.turned = t.turned /\ u.flags = t.flags /\ u.owed = t.owed /\ u.shift = t.shift
        <5> HIDE DEF u
        <5>1. t \in SpiRecord
          BY <2>4
        <5>2. QED  BY <3>1, <4>1, <5>1 DEF SpiRecord
      <4>3. t.shift = spi.shift
        BY <1>4, <2>2, <2>4
      <4> HIDE DEF u
      <4>4. QED  BY <3>2, <4>2, <4>3
    <3>3. CASE spi.buf = SP!NoByte
      <4>1. u = [t EXCEPT !.shift = SP!NoByte]
        BY <3>3
      <4>2. /\ u \in SpiRecord /\ u.enable = t.enable /\ u.host = t.host
            /\ u.buffered = t.buffered /\ u.data = t.data /\ u.busy = t.busy
            /\ u.timer = t.timer /\ u.buf = t.buf /\ u.rx = t.rx
            /\ u.turned = t.turned /\ u.flags = t.flags /\ u.owed = t.owed
            /\ u.shift = SP!NoByte
        <5> HIDE DEF u
        <5>1. t \in SpiRecord
          BY <2>4
        <5>2. QED  BY <3>1, <4>1, <5>1 DEF SpiRecord
      <4>3. t.buf = spi.buf
        BY <1>4, <2>2, <2>4
      <4> HIDE DEF u
      <4>4. QED  BY <3>3, <4>2, <4>3
    <3>4. QED  BY <3>2, <3>3
  <2> HIDE DEF u
  <2>6. u.owed = (IF spi.owed = <<>> THEN <<>> ELSE Tail(spi.owed))
        /\ Len(u.owed) = (IF Len(spi.owed) = 0 THEN 0 ELSE Len(spi.owed) - 1)
    BY <1>4, <2>2, <2>4, <2>5
  <2>7. u.busy = FALSE /\ u.timer = FALSE /\ u.buffered /\ u.enable /\ u.host
    BY <1>4, <1>9, <2>2, <2>4, <2>5
  <2>8. ~u.turned => SpiLined(spi)
    BY <1>1, <1>4, <1>9, <2>2, <2>4, <2>5 DEF SpiOrdered
  <2>9. SpiLined(spi) => u.data = Head(u.rx)
    BY <1>4, <2>2, <2>4, <2>5 DEF SpiLined
  <2>10. u.owed \in Seq(Bytes) /\ Len(spi.owed) <= Len(SpiQueue(spi))
    BY <1>1, <1>9, <2>5 DEF SpiRecord, SpiCounted
  <2>11. CASE spi.buf = SP!NoByte
    <3>1. u.shift = spi.buf
      BY <2>5, <2>11
    <3>2. /\ Len(u.owed) <= Len(SpiQueue(u))
          /\ spi.owed = SpiQueue(spi) /\ (spi.shift = SP!NoByte => spi.buf = SP!NoByte)
                  => u.owed = SpiQueue(u)
      BY <1>1, <2>5, <2>6, <2>10, <3>1, SpiQueueMoves
    <3>3. SpiCounted(u)
      BY <2>4, <2>5, <2>7, <3>2, Zenon DEF SpiCounted
    <3>4. SpiLined(spi) => SpiLined(u)
      BY <2>5, <2>7, <2>9, <2>11, <3>1, <3>2, Zenon DEF SpiLined
    <3>5. SpiInv(SP!UpdateFlags(u, TRUE))
      BY <2>5, <2>8, <3>3, <3>4, UpdateFlagsHolds
    <3>6. QED  BY <2>1, <2>11, <3>5
  <2>12. CASE spi.buf # SP!NoByte
    <3> DEFINE f == SP!UpdateFlags(u, FALSE)
               x == [f EXCEPT !.busy = TRUE, !.shift = spi.buf, !.timer = TRUE]
    <3>1. spi' = x
      BY <2>1, <2>12 DEF SP!StartTransfer
    <3>2. f \in SpiRecord /\ SameBytes(f, u) /\ FlagsAre(f, u, FALSE) /\ Told(f)
      BY <2>5, UpdateFlagsTells
    <3> HIDE DEF f
    <3>3. spi.buf \in SpiSlot
      BY <1>1 DEF SpiRecord
    <3>4. /\ x \in SpiRecord /\ x.owed = u.owed
          /\ x.enable = u.enable /\ x.host = u.host /\ x.turned = u.turned
          /\ x.buffered = u.buffered /\ x.ie = f.ie /\ x.flags = f.flags
          /\ x.data = u.data /\ x.busy = TRUE /\ x.timer = TRUE
          /\ x.shift = spi.buf /\ x.buf = u.buf /\ x.rx = u.rx
          /\ x.pending = f.pending /\ x.served = f.served /\ x.again = f.again
      <4>1. SameBytes(f, u)
        BY <3>2
      <4>2. QED  BY <3>2, <3>3, <4>1 DEF SpiRecord, SameBytes
    <3> HIDE DEF x
    <3>5. /\ Len(x.owed) <= Len(SpiQueue(x))
          /\ spi.owed = SpiQueue(spi) /\ (spi.shift = SP!NoByte => spi.buf = SP!NoByte)
                  => x.owed = SpiQueue(x)
      BY <1>1, <2>5, <2>6, <2>10, <3>4, SpiQueueMoves
    <3>6. Told(x)
      <4>1. x.buffered = f.buffered
        BY <3>2, <3>4 DEF SameBytes
      <4>2. QED  BY <3>2, <3>4, <4>1, FewerFlagsTell
    <3>7. SpiCounted(x)
      <4>1. Len(x.rx) <= 2
        BY <2>4, <2>5, <3>4
      <4>2. QED  BY <2>7, <3>4, <3>5, <4>1, Zenon DEF SpiCounted
    <3>8. SpiLined(spi) => SpiLined(x)
      BY <2>5, <2>7, <2>9, <2>12, <3>4, <3>5, Zenon DEF SpiLined
    <3>9. "bit6" \notin x.flags /\ x.buf = SP!NoByte
      BY <2>5, <3>2, <3>4 DEF FlagsAre
    <3>10. ~x.turned => SpiOrdered(x)
      BY <2>8, <3>4, <3>8, <3>9, Zenon DEF SpiOrdered
    <3>11. QED  BY <3>1, <3>4, <3>6, <3>7, <3>10 DEF SpiInv
  <2>13. QED  BY <2>11, <2>12
<1>10. QED  BY <1>7, <1>8, <1>9

LEMMA SpiInitHolds ==
    ASSUME SP!WellFormed, SP!Init
    PROVE  SpiInv(spi)
BY SpiOffHolds DEF SP!Init

LEMMA SpiKeeps ==
    ASSUME SP!WellFormed, SpiInv(spi), SP!Next
    PROVE  SpiInv(spi')
<1>1. CASE \/ \E enable1, host1 \in BOOLEAN : SP!WriteCtrla(enable1, host1)
           \/ \E buffered1 \in BOOLEAN : SP!WriteCtrlb(buffered1)
           \/ \E ie \in Enables : SP!WriteIntctrl(ie)
           \/ \E f \in SP!Clearable : SP!WriteIntflags(f)
           \/ SP!Serve \/ SP!Reset
  BY <1>1, SpiRegistersKeep
<1>2. CASE \E w \in Bytes : SP!WriteData(w)
  BY <1>2, SpiWriteDataKeeps
<1>3. CASE \E w \in Bytes : SP!Input(w)
  BY <1>3, SpiInputKeeps
<1>4. CASE SP!ReadData
  BY <1>4, SpiReadDataKeeps
<1>5. CASE SP!Xfer
  BY <1>5, SpiXferKeeps
<1>6. QED  BY <1>1, <1>2, <1>3, <1>4, <1>5 DEF SP!Next

-----------------------------------------------------------------------------
(* The modern ADC *)

LEMMA SequenceOfMore ==
    ASSUME NEW S, NEW T, S \subseteq T, NEW s \in Seq(S)
    PROVE  s \in Seq(T)
<1>1. Len(s) \in Nat /\ s \in [1 .. Len(s) -> S]
  BY LenProperties
<1>2. s \in [1 .. Len(s) -> T]
  BY <1>1
<1>3. QED  BY <1>1, <1>2

\* Totals of the first samples of a sequence.
IsTotal(f, s, n) ==
    f \in [0 .. n -> Nat] /\ f[0] = 0 /\ \A i \in 1 .. n : f[i] = f[i - 1] + s[i]

LEMMA TotalsExist ==
    ASSUME NEW s \in Seq(Nat)
    PROVE  \E f : IsTotal(f, s, Len(s))
<1> DEFINE Without == {n \in Nat : n <= Len(s) /\ ~\E f : IsTotal(f, s, n)}
<1>1. ASSUME Without # {}
      PROVE  FALSE
  <2>1. PICK n \in Without : \A m \in Without : n <= m
    BY <1>1, LeastExists
  <2>2. n \in Nat /\ n <= Len(s) /\ ~\E f : IsTotal(f, s, n)
    BY <2>1
  <2>3. n # 0
    <3>1. IsTotal([i \in 0 .. 0 |-> 0], s, 0)
      BY DEF IsTotal
    <3>2. QED  BY <2>2, <3>1
  <2>4. n - 1 \in Nat /\ n - 1 <= Len(s) /\ n - 1 \notin Without
    <3>1. n - 1 \in Nat /\ n - 1 <= Len(s) /\ n - 1 < n
      BY <2>2, <2>3
    <3>2. QED  BY <2>1, <3>1
  <2>5. PICK f : IsTotal(f, s, n - 1)
    BY <2>4
  <2> DEFINE h == [i \in 0 .. n |-> IF i = n THEN f[n - 1] + s[n] ELSE f[i]]
  <2>6. s[n] \in Nat /\ f[n - 1] \in Nat
    BY <2>2, <2>3, <2>4, <2>5 DEF IsTotal
  <2>7. h \in [0 .. n -> Nat]
    <3>1. ASSUME NEW i \in 0 .. n, i # n
          PROVE  i \in 0 .. n - 1
      BY <2>2, <3>1
    <3>2. QED  BY <2>5, <2>6, <3>1 DEF IsTotal
  <2>8. h[0] = 0
    BY <2>2, <2>3, <2>5 DEF IsTotal
  <2>9. ASSUME NEW i \in 1 .. n
        PROVE  h[i] = h[i - 1] + s[i]
    <3>1. CASE i = n
      BY <2>2, <2>3, <2>9, <3>1
    <3>2. CASE i # n
      <4>1. i \in 1 .. n - 1 /\ i - 1 # n /\ i - 1 \in 0 .. n /\ i \in 0 .. n
        BY <2>2, <2>9, <3>2
      <4>2. f[i] = f[i - 1] + s[i]
        BY <2>5, <4>1 DEF IsTotal
      <4>3. QED  BY <3>2, <4>1, <4>2
    <3>3. QED  BY <3>1, <3>2
  <2>10. IsTotal(h, s, n)
    <3> HIDE DEF h
    <3>1. QED  BY <2>7, <2>8, <2>9 DEF IsTotal
  <2>11. QED  BY <2>2, <2>10
<1>2. Len(s) \in Nat
  OBVIOUS
<1>3. QED  BY <1>1, <1>2

LEMMA TotalsAgree ==
    ASSUME NEW n \in Nat, NEW m \in Nat, n <= m, NEW s, NEW t, NEW f, NEW h,
           IsTotal(f, s, n), IsTotal(h, t, m), \A i \in 1 .. n : s[i] = t[i]
    PROVE  f[n] = h[n]
<1> DEFINE Differ == {i \in Nat : i <= n /\ f[i] # h[i]}
<1>1. ASSUME Differ # {}
      PROVE  FALSE
  <2>1. PICK i \in Differ : \A j \in Differ : i <= j
    BY <1>1, LeastExists
  <2>2. i \in Nat /\ i <= n /\ f[i] # h[i]
    BY <2>1
  <2>3. i # 0
    BY <2>2 DEF IsTotal
  <2>4. i - 1 \in Nat /\ i - 1 <= n /\ i \in 1 .. n /\ i \in 1 .. m
    BY <2>2, <2>3
  <2>5. f[i - 1] = h[i - 1]
    <3>1. i - 1 < i
      BY <2>2
    <3>2. QED  BY <2>1, <2>4, <3>1
  <2>6. f[i] = f[i - 1] + s[i] /\ h[i] = h[i - 1] + t[i] /\ s[i] = t[i]
    BY <2>4 DEF IsTotal
  <2>7. QED  BY <2>2, <2>5, <2>6
<1>2. QED  BY <1>1

LEMMA TotalIs ==
    ASSUME NEW s \in Seq(Nat)
    PROVE  \E f : IsTotal(f, s, Len(s)) /\ AM!Total(s) = f[Len(s)]
<1> DEFINE N == Len(s)
           Rec(f) == [n \in 0 .. N |-> IF n = 0 THEN 0 ELSE f[n - 1] + s[n]]
           up == CHOOSE f : f = Rec(f)
<1>1. N \in Nat
  OBVIOUS
<1>2. PICK f : IsTotal(f, s, N)
  BY TotalsExist
<1>3. AM!Total(s) = up[N]
  BY DEF AM!Total
<1> HIDE DEF N
<1>4. f = Rec(f)
  BY <1>1, <1>2 DEF IsTotal
<1>5. up = Rec(up)
  BY <1>4
<1> HIDE DEF up
<1>6. \A i \in 1 .. N : up[i] = up[i - 1] + s[i]
  BY <1>1, <1>5
<1>7. up[0] = 0
  BY <1>1, <1>5
<1>8. DOMAIN up = 0 .. N /\ up = [i \in 0 .. N |-> up[i]]
  BY <1>5
<1> DEFINE Differ == {i \in Nat : i <= N /\ f[i] # up[i]}
<1>9. ASSUME Differ # {}
      PROVE  FALSE
  <2>1. PICK i \in Differ : \A j \in Differ : i <= j
    BY <1>9, LeastExists
  <2>2. i \in Nat /\ i <= N /\ f[i] # up[i]
    BY <2>1
  <2>3. i # 0
    BY <1>2, <1>7, <2>2 DEF IsTotal
  <2>4. i - 1 \in Nat /\ i - 1 <= N /\ i \in 1 .. N
    BY <1>1, <2>2, <2>3
  <2>5. f[i - 1] = up[i - 1]
    <3>1. i - 1 < i
      BY <2>2
    <3>2. QED  BY <2>1, <2>4, <3>1
  <2>6. QED  BY <1>2, <1>6, <2>2, <2>4, <2>5 DEF IsTotal
<1>10. f[N] = up[N]
  BY <1>1, <1>9
<1>11. QED  BY <1>2, <1>3, <1>10 DEF N

\* The total of no samples, and with another one.
LEMMA TotalGrows ==
    ASSUME NEW s \in Seq(Nat), NEW c \in Nat
    PROVE  /\ AM!Total(s) \in Nat
           /\ AM!Total(Append(s, c)) = AM!Total(s) + c
<1> DEFINE t == Append(s, c)
<1>1. t \in Seq(Nat) /\ Len(t) = Len(s) + 1 /\ t[Len(t)] = c /\ \A i \in 1 .. Len(s) : s[i] = t[i]
  BY AppendProperties
<1> HIDE DEF t
<1>2. PICK f : IsTotal(f, s, Len(s)) /\ AM!Total(s) = f[Len(s)]
  BY TotalIs
<1>3. PICK h : IsTotal(h, t, Len(t)) /\ AM!Total(t) = h[Len(t)]
  BY <1>1, TotalIs
<1>4. Len(s) \in Nat /\ Len(t) \in Nat /\ Len(s) <= Len(t) /\ Len(t) \in 1 .. Len(t)
      /\ Len(t) - 1 = Len(s) /\ Len(s) \in 0 .. Len(s)
  BY <1>1
<1>5. f[Len(s)] = h[Len(s)]
  BY <1>1, <1>2, <1>3, <1>4, TotalsAgree
<1>6. h[Len(t)] = h[Len(t) - 1] + t[Len(t)]
  BY <1>3, <1>4 DEF IsTotal
<1>7. f[Len(s)] \in Nat
  BY <1>2, <1>4 DEF IsTotal
<1>8. AM!Total(t) = AM!Total(s) + c
  BY <1>1, <1>2, <1>3, <1>4, <1>5, <1>6
<1>9. QED  BY <1>2, <1>7, <1>8 DEF t

LEMMA TotalOfNone == AM!Total(<<>>) = 0
<1>1. <<>> \in Seq(Nat) /\ Len(<<>>) = 0
  OBVIOUS
<1>2. PICK f : IsTotal(f, <<>>, Len(<<>>)) /\ AM!Total(<<>>) = f[Len(<<>>)]
  BY <1>1, TotalIs
<1>3. QED  BY <1>1, <1>2 DEF IsTotal

AdcmBurst == [wanted : Lengths \cup {0}, taken : Seq(Samples)]

AdcmRecord ==
    [on : BOOLEAN, free : BOOLEAN, length : Lengths, stconv : BOOLEAN, inten : BOOLEAN,
     flags : SUBSET AM!Sources, pending : SUBSET AM!Sources, due : BOOLEAN, sum : Nat,
     count : Nat, target : Lengths \cup {0}, res : Nat, burst : AdcmBurst, last : AdcmBurst,
     ignored : SUBSET AM!Requests]

\* While the timer waits the sum is that of the samples that were taken.
AdcmSums(t) ==
    t.due => /\ t.on /\ t.count < t.target /\ t.burst.wanted = t.target
             /\ Len(t.burst.taken) = t.count /\ t.sum = AM!Total(t.burst.taken)

\* A switched off ADC keeps FREERUN, and has ignored it.
AdcmAsked(t) ==
    /\ t.stconv => t.due \/ "STCONV" \in t.ignored
    /\ t.free => t.due \/ "FREERUN" \in t.ignored

AdcmResult(t) ==
    t.res = AM!Total(t.last.taken) /\ Len(t.last.taken) = t.last.wanted

AdcmInv(t) ==
    t \in AdcmRecord /\ AdcmSums(t) /\ AdcmAsked(t) /\ AdcmResult(t) /\ t.pending \subseteq t.flags

LEMMA AdcmShows ==
    ASSUME AdcmInv(adcm)
    PROVE  AM!TypeOK /\ AM!WorkIsTimed /\ AM!ResultIsBurst
<1>1. adcm \in AdcmRecord /\ AdcmSums(adcm) /\ AdcmAsked(adcm) /\ AdcmResult(adcm)
      /\ adcm.pending \subseteq adcm.flags
  BY DEF AdcmInv
<1>2. AM!TypeOK
  <2>1. /\ adcm.on \in BOOLEAN /\ adcm.free \in BOOLEAN /\ adcm.length \in Lengths
        /\ adcm.stconv \in BOOLEAN /\ adcm.inten \in BOOLEAN /\ adcm.flags \subseteq AM!Sources
        /\ adcm.pending \subseteq AM!Sources /\ adcm.due \in BOOLEAN /\ adcm.sum \in Nat
        /\ adcm.count \in Nat /\ adcm.target \in Lengths \cup {0} /\ adcm.res \in Nat
        /\ adcm.ignored \subseteq AM!Requests
    BY <1>1 DEF AdcmRecord
  <2>2. adcm.burst \in AdcmBurst /\ adcm.last \in AdcmBurst
    BY <1>1 DEF AdcmRecord
  <2>3. \A b \in {adcm.burst, adcm.last} : b.wanted \in Lengths \cup {0} /\ b.taken \in Seq(Samples)
    BY <2>2 DEF AdcmBurst
  <2>4. QED  BY <2>1, <2>3 DEF AM!TypeOK
<1>3. AM!WorkIsTimed
  BY <1>1 DEF AM!WorkIsTimed, AdcmSums, AdcmAsked
<1>4. AM!ResultIsBurst
  BY <1>1 DEF AM!ResultIsBurst, AdcmResult
<1>5. QED  BY <1>2, <1>3, <1>4

LEMMA NoBurstIs ==
    /\ AM!NoBurst \in AdcmBurst /\ AM!NoBurst.taken = <<>> /\ AM!NoBurst.wanted = 0
    /\ AM!Total(AM!NoBurst.taken) = 0 /\ Len(AM!NoBurst.taken) = AM!NoBurst.wanted
<1>1. AM!NoBurst \in AdcmBurst /\ AM!NoBurst.taken = <<>> /\ AM!NoBurst.wanted = 0
      /\ Len(AM!NoBurst.taken) = AM!NoBurst.wanted
  BY DEF AM!NoBurst, AdcmBurst
<1>2. QED  BY <1>1, TotalOfNone

\* The ADC after a reset.
AdcmOff(t) ==
    t \in AdcmRecord /\ ~t.due /\ t.stconv = FALSE /\ t.free = FALSE /\ t.res = 0
    /\ t.last = AM!NoBurst /\ t.pending = {}

LEMMA AdcmOffHolds ==
    ASSUME NEW t, AdcmOff(t)
    PROVE  AdcmInv(t)
BY NoBurstIs DEF AdcmOff, AdcmInv, AdcmSums, AdcmAsked, AdcmResult

LEMMA AdcmInitHolds ==
    ASSUME AM!WellFormed, AM!Init
    PROVE  AdcmInv(adcm)
<1> DEFINE off == AM!Off
<1>1. AdcmOff(off)
  BY NoBurstIs DEF AM!Off, AdcmOff, AdcmRecord, AM!WellFormed
<1> HIDE DEF off
<1>2. QED  BY <1>1, AdcmOffHolds DEF AM!Init, off

\* A burst begins.
LEMMA FreshIs ==
    ASSUME AM!WellFormed, NEW t \in AdcmRecord
    PROVE  LET u == AM!Fresh(t)
           IN  /\ u \in AdcmRecord /\ u.on = t.on /\ u.free = t.free /\ u.length = t.length
               /\ u.stconv = t.stconv /\ u.inten = t.inten /\ u.flags = t.flags
               /\ u.pending = t.pending /\ u.due = t.due /\ u.res = t.res /\ u.last = t.last
               /\ u.ignored = t.ignored
               /\ u.count < u.target /\ u.burst.wanted = u.target
               /\ Len(u.burst.taken) = u.count /\ u.sum = AM!Total(u.burst.taken)
<1> DEFINE b == [wanted |-> t.length, taken |-> << >>]
           u == [t EXCEPT !.sum = 0, !.count = 0, !.target = t.length, !.burst = b]
<1>1. t.length \in Lengths /\ t.length \in Nat /\ t.length > 0 /\ t.length \in Lengths \cup {0}
  <2>1. t.length \in Lengths
    BY DEF AdcmRecord
  <2>2. t.length \in Nat \ {0}
    BY <2>1 DEF AM!WellFormed
  <2>3. QED  BY <2>1, <2>2
<1>2. b \in AdcmBurst /\ b.wanted = t.length /\ b.taken = <<>> /\ Len(b.taken) = 0
  BY <1>1 DEF AdcmBurst
<1>3. AM!Total(b.taken) = 0
  BY <1>2, TotalOfNone
<1>4. AM!Fresh(t) = u
  BY DEF AM!Fresh
<1> HIDE DEF b
<1>5. /\ u \in AdcmRecord /\ u.on = t.on /\ u.free = t.free /\ u.length = t.length
      /\ u.stconv = t.stconv /\ u.inten = t.inten /\ u.flags = t.flags
      /\ u.pending = t.pending /\ u.due = t.due /\ u.res = t.res /\ u.last = t.last
      /\ u.ignored = t.ignored /\ u.sum = 0 /\ u.count = 0 /\ u.target = t.length /\ u.burst = b
  BY <1>1, <1>2 DEF AdcmRecord
<1> HIDE DEF u
<1>6. u.count < u.target
  BY <1>1, <1>5
<1>7. QED  BY <1>2, <1>3, <1>4, <1>5, <1>6

LEMMA AdcmStartHolds ==
    ASSUME AM!WellFormed, NEW t \in AdcmRecord, AdcmResult(t), t.pending \subseteq t.flags,
           ~t.on => AdcmInv(t)
    PROVE  AdcmInv(AM!Start(t))
<1> DEFINE n == AM!Fresh(t)
           u == [n EXCEPT !.due = TRUE, !.ignored = {}]
<1>1. CASE ~t.on
  BY <1>1 DEF AM!Start
<1>2. CASE t.on
  <2>1. AM!Start(t) = u
    BY <1>2 DEF AM!Start
  <2>2. /\ n \in AdcmRecord /\ n.on = t.on /\ n.free = t.free /\ n.stconv = t.stconv
        /\ n.flags = t.flags /\ n.pending = t.pending /\ n.res = t.res /\ n.last = t.last
        /\ n.count < n.target /\ n.burst.wanted = n.target
        /\ Len(n.burst.taken) = n.count /\ n.sum = AM!Total(n.burst.taken)
    BY FreshIs
  <2> HIDE DEF n
  <2>3. /\ u \in AdcmRecord /\ u.on = n.on /\ u.due = TRUE /\ u.flags = n.flags
        /\ u.pending = n.pending /\ u.res = n.res /\ u.last = n.last /\ u.count = n.count
        /\ u.target = n.target /\ u.burst = n.burst /\ u.sum = n.sum
    BY <2>2 DEF AdcmRecord
  <2> HIDE DEF u
  <2>4. AdcmSums(u)
    BY <1>2, <2>2, <2>3, Zenon DEF AdcmSums
  <2>5. AdcmAsked(u)
    BY <2>3 DEF AdcmAsked
  <2>6. AdcmResult(u)
    BY <2>2, <2>3, Zenon DEF AdcmResult
  <2>7. QED  BY <2>1, <2>2, <2>3, <2>4, <2>5, <2>6 DEF AdcmInv
<1>3. QED  BY <1>1, <1>2

\* The result of a burst is taken.
LEMMA FinishIs ==
    ASSUME NEW t \in AdcmRecord, NEW hit \in BOOLEAN, t.pending \subseteq t.flags
    PROVE  LET u == AM!Finish(t, hit)
           IN  /\ u \in AdcmRecord /\ u.on = t.on /\ u.free = t.free /\ u.stconv = FALSE
               /\ u.due = t.due /\ u.res = t.sum /\ u.last = t.burst
               /\ u.ignored = t.ignored /\ u.pending \subseteq u.flags
<1> DEFINE w == [t EXCEPT !.res = t.sum, !.last = t.burst, !.stconv = FALSE]
           S == {"RESRDY"} \cup (IF hit THEN {"WCMP"} ELSE {})
           more == IF w.inten THEN w.pending \cup S ELSE w.pending
           set == w.flags \cup S
           u == [w EXCEPT !.flags = set, !.pending = more]
<1>1. AM!Finish(t, hit) = u
  BY DEF AM!Finish, AM!Raise
<1>2. S \in SUBSET AM!Sources
  BY DEF AM!Sources
<1> HIDE DEF S
<1>3. /\ w \in AdcmRecord /\ w.on = t.on /\ w.free = t.free /\ w.stconv = FALSE
      /\ w.due = t.due /\ w.res = t.sum /\ w.last = t.burst /\ w.ignored = t.ignored
      /\ w.pending = t.pending /\ w.flags = t.flags
  BY DEF AdcmRecord
<1> HIDE DEF w
<1>4. set \in SUBSET AM!Sources /\ more \in SUBSET AM!Sources /\ more \subseteq set
  BY <1>2, <1>3 DEF AdcmRecord
<1> HIDE DEF set, more
<1>5. /\ u \in AdcmRecord /\ u.on = w.on /\ u.free = w.free /\ u.stconv = w.stconv
      /\ u.due = w.due /\ u.res = w.res /\ u.last = w.last /\ u.ignored = w.ignored
      /\ u.flags = set /\ u.pending = more
  BY <1>3, <1>4 DEF AdcmRecord
<1> HIDE DEF u
<1>6. QED  BY <1>1, <1>3, <1>4, <1>5

LEMMA BurstCancelledIs ==
    ASSUME NEW t \in AdcmRecord
    PROVE  LET u == AM!Cancelled(t)
           IN  /\ u \in AdcmRecord /\ u.on = t.on /\ u.free = t.free /\ u.stconv = t.stconv
               /\ u.due = FALSE /\ u.res = t.res /\ u.last = t.last
               /\ u.ignored = t.ignored /\ u.pending = t.pending /\ u.flags = t.flags
<1> DEFINE b == AM!NoBurst
           u == [t EXCEPT !.due = FALSE, !.burst = b]
<1>1. b \in AdcmBurst
  BY NoBurstIs
<1>2. AM!Cancelled(t) = u
  BY DEF AM!Cancelled
<1> HIDE DEF b
<1>3. QED  BY <1>1, <1>2 DEF AdcmRecord

\* A sample is taken, and the last of a burst is its result.
LEMMA AdcmCompleteKeeps ==
    ASSUME AM!WellFormed, AdcmInv(adcm), NEW code \in Samples, NEW hit \in BOOLEAN,
           AM!Complete(code, hit)
    PROVE  AdcmInv(adcm')
<1> DEFINE more == Append(adcm.burst.taken, code)
           b == [adcm.burst EXCEPT !.taken = more]
           t == [adcm EXCEPT !.sum = adcm.sum + code, !.count = adcm.count + 1, !.burst = b]
           ended == AM!Finish(t, hit)
<1>1. adcm \in AdcmRecord /\ AdcmSums(adcm) /\ AdcmAsked(adcm) /\ AdcmResult(adcm)
      /\ adcm.pending \subseteq adcm.flags
  BY DEF AdcmInv
<1>2. adcm.due /\ adcm.on
  BY <1>1 DEF AM!Complete, AdcmSums
<1>3. /\ t.count < t.target => adcm' = t
      /\ ~(t.count < t.target) /\ t.free => adcm' = AM!Fresh(ended)
      /\ ~(t.count < t.target) /\ ~t.free => adcm' = AM!Cancelled(ended)
  <2>1. [adcm EXCEPT !.sum = @ + code, !.count = @ + 1, !.burst.taken = Append(@, code)] = t
    BY <1>1 DEF AdcmRecord, AdcmBurst
  <2>2. t.count \in Nat /\ t.target \in Nat
    BY <1>1 DEF AdcmRecord, AM!WellFormed
  <2>3. adcm' = CASE ~adcm.on -> AM!Cancelled(adcm)
                  [] adcm.on /\ t.count < t.target -> t
                  [] adcm.on /\ t.count >= t.target /\ t.free -> AM!Fresh(ended)
                  [] OTHER -> AM!Cancelled(ended)
    BY <2>1 DEF AM!Complete
  <2> HIDE DEF t, ended
  <2>4. t.count >= t.target <=> ~(t.count < t.target)
    BY <2>2
  <2>5. QED  BY <1>2, <2>3, <2>4
<1>4. /\ adcm.count \in Nat /\ adcm.sum \in Nat /\ adcm.target \in Nat
      /\ code \in Nat /\ adcm.burst \in AdcmBurst /\ adcm.burst.taken \in Seq(Samples)
      /\ adcm.burst.taken \in Seq(Nat)
  <2>1. Samples \subseteq Nat /\ Lengths \cup {0} \subseteq Nat
    BY DEF AM!WellFormed
  <2>2. /\ adcm.count \in Nat /\ adcm.sum \in Nat /\ adcm.target \in Lengths \cup {0}
        /\ adcm.burst \in AdcmBurst
    BY <1>1 DEF AdcmRecord
  <2>3. adcm.burst.taken \in Seq(Samples)
    BY <2>2 DEF AdcmBurst
  <2>4. adcm.burst.taken \in Seq(Nat)
    BY <2>1, <2>3, SequenceOfMore
  <2>5. QED  BY <2>1, <2>2, <2>3, <2>4
<1>5. more \in Seq(Samples) /\ Len(more) = Len(adcm.burst.taken) + 1
      /\ AM!Total(more) = AM!Total(adcm.burst.taken) + code
  BY <1>4, TotalGrows
<1> HIDE DEF more
<1>6. b \in AdcmBurst /\ b.taken = more /\ b.wanted = adcm.burst.wanted
  BY <1>4, <1>5 DEF AdcmBurst
<1> HIDE DEF b
<1>7. adcm.sum + code \in Nat /\ adcm.count + 1 \in Nat
  BY <1>4
<1>8. /\ t \in AdcmRecord /\ t.on = adcm.on /\ t.free = adcm.free /\ t.length = adcm.length
      /\ t.stconv = adcm.stconv /\ t.flags = adcm.flags /\ t.pending = adcm.pending
      /\ t.due = adcm.due /\ t.res = adcm.res /\ t.last = adcm.last /\ t.ignored = adcm.ignored
      /\ t.target = adcm.target
      /\ t.sum = adcm.sum + code /\ t.count = adcm.count + 1 /\ t.burst = b
  BY <1>1, <1>6, <1>7 DEF AdcmRecord
<1> HIDE DEF t
<1>9. /\ t.burst.wanted = t.target /\ Len(t.burst.taken) = t.count
      /\ t.sum = AM!Total(t.burst.taken) /\ t.count <= t.target
  <2>1. /\ adcm.count < adcm.target /\ adcm.burst.wanted = adcm.target
        /\ Len(adcm.burst.taken) = adcm.count /\ adcm.sum = AM!Total(adcm.burst.taken)
    BY <1>1, <1>2 DEF AdcmSums
  <2>2. adcm.count + 1 <= adcm.target
    BY <1>4, <2>1
  <2>3. QED  BY <1>5, <1>6, <1>8, <2>1, <2>2, Zenon
<1>10. CASE t.count < t.target
  <2>1. AdcmSums(t)
    BY <1>2, <1>8, <1>9, <1>10 DEF AdcmSums
  <2>2. AdcmAsked(t) /\ AdcmResult(t)
    BY <1>1, <1>8 DEF AdcmAsked, AdcmResult
  <2>3. QED  BY <1>1, <1>3, <1>8, <1>10, <2>1, <2>2 DEF AdcmInv
<1>11. CASE ~(t.count < t.target)
  <2>1. /\ ended \in AdcmRecord /\ ended.on = t.on /\ ended.free = t.free /\ ended.stconv = FALSE
        /\ ended.due = t.due /\ ended.res = t.sum /\ ended.last = t.burst
        /\ ended.ignored = t.ignored /\ ended.pending \subseteq ended.flags
    BY <1>1, <1>8, FinishIs
  <2>2. t.count = t.target
    BY <1>4, <1>8, <1>9, <1>11
  <2>3. ended.res = AM!Total(ended.last.taken) /\ Len(ended.last.taken) = ended.last.wanted
    BY <1>9, <2>1, <2>2
  <2> HIDE DEF ended
  <2>4. CASE t.free
    <3> DEFINE u == AM!Fresh(ended)
    <3>1. /\ u \in AdcmRecord /\ u.on = ended.on /\ u.free = ended.free
          /\ u.stconv = ended.stconv /\ u.flags = ended.flags
          /\ u.pending = ended.pending /\ u.due = ended.due /\ u.res = ended.res /\ u.last = ended.last
          /\ u.ignored = ended.ignored
          /\ u.count < u.target /\ u.burst.wanted = u.target
          /\ Len(u.burst.taken) = u.count /\ u.sum = AM!Total(u.burst.taken)
      BY <2>1, FreshIs
    <3> HIDE DEF u
    <3>2. AdcmSums(u)
      BY <1>2, <1>8, <2>1, <3>1, Zenon DEF AdcmSums
    <3>3. AdcmAsked(u)
      BY <1>2, <1>8, <2>1, <3>1, Zenon DEF AdcmAsked
    <3>4. AdcmResult(u)
      BY <2>3, <3>1, Zenon DEF AdcmResult
    <3>5. adcm' = u
      BY <1>3, <1>11, <2>4 DEF u
    <3>6. QED  BY <2>1, <3>1, <3>2, <3>3, <3>4, <3>5 DEF AdcmInv
  <2>5. CASE ~t.free
    <3> DEFINE u == AM!Cancelled(ended)
    <3>1. /\ u \in AdcmRecord /\ u.on = ended.on /\ u.free = ended.free /\ u.stconv = ended.stconv
          /\ u.due = FALSE /\ u.res = ended.res /\ u.last = ended.last
          /\ u.ignored = ended.ignored /\ u.pending = ended.pending /\ u.flags = ended.flags
      BY <2>1, BurstCancelledIs
    <3> HIDE DEF u
    <3>2. AdcmSums(u)
      BY <3>1, Zenon DEF AdcmSums
    <3>3. AdcmAsked(u)
      BY <2>1, <2>5, <3>1, Zenon DEF AdcmAsked
    <3>4. AdcmResult(u)
      BY <2>3, <3>1, Zenon DEF AdcmResult
    <3>5. adcm' = u
      BY <1>3, <1>11, <2>5 DEF u
    <3>6. QED  BY <2>1, <3>1, <3>2, <3>3, <3>4, <3>5 DEF AdcmInv
  <2>6. QED  BY <2>4, <2>5
<1>12. QED  BY <1>10, <1>11

\* What a write leaves of the burst that runs, and of the last result.
AdcmSame(u, t) ==
    /\ u.due = t.due /\ u.on = t.on /\ u.count = t.count /\ u.target = t.target
    /\ u.burst = t.burst /\ u.sum = t.sum /\ u.res = t.res /\ u.last = t.last

LEMMA AdcmSameHolds ==
    ASSUME NEW t, NEW u, AdcmSame(u, t), AdcmSums(t), AdcmResult(t)
    PROVE  AdcmSums(u) /\ AdcmResult(u)
BY Zenon DEF AdcmSame, AdcmSums, AdcmResult

LEMMA AdcmCtrlaKeeps ==
    ASSUME AM!WellFormed, AdcmInv(adcm), NEW on1 \in BOOLEAN, NEW free1 \in BOOLEAN,
           AM!WriteCtrla(on1, free1)
    PROVE  AdcmInv(adcm')
<1> DEFINE left == IF free1 THEN adcm.ignored ELSE adcm.ignored \ {"FREERUN"}
           t == [adcm EXCEPT !.on = on1, !.free = free1, !.ignored = left]
<1>1. adcm \in AdcmRecord /\ AdcmSums(adcm) /\ AdcmAsked(adcm) /\ AdcmResult(adcm)
      /\ adcm.pending \subseteq adcm.flags
  BY DEF AdcmInv
<1>2. adcm.ignored \in SUBSET AM!Requests /\ adcm.free \in BOOLEAN
  BY <1>1 DEF AdcmRecord
<1>3. /\ left \in SUBSET AM!Requests
      /\ "STCONV" \in adcm.ignored => "STCONV" \in left
      /\ free1 /\ "FREERUN" \in adcm.ignored => "FREERUN" \in left
  BY <1>2
<1>4. adcm' = CASE ~on1 ->
                 AM!Ignored(AM!Cancelled(t), (IF free1 THEN {"FREERUN"} ELSE {}) \cup
                                       (IF t.stconv THEN {"STCONV"} ELSE {}))
              [] on1 /\ free1 /\ ~adcm.free -> AM!Start(t)
              [] OTHER -> t
  BY DEF AM!WriteCtrla
<1> HIDE DEF left
<1>5. /\ t \in AdcmRecord /\ t.on = on1 /\ t.free = free1 /\ t.stconv = adcm.stconv
      /\ t.due = adcm.due /\ t.res = adcm.res /\ t.last = adcm.last /\ t.ignored = left
      /\ t.pending = adcm.pending /\ t.flags = adcm.flags /\ t.count = adcm.count
      /\ t.target = adcm.target /\ t.burst = adcm.burst /\ t.sum = adcm.sum
  BY <1>1, <1>3 DEF AdcmRecord
<1> HIDE DEF t
<1>6. AdcmResult(t) /\ t.pending \subseteq t.flags
  BY <1>1, <1>5, Zenon DEF AdcmResult
<1>7. CASE ~on1
  <2> DEFINE c == AM!Cancelled(t)
             asks == (IF free1 THEN {"FREERUN"} ELSE {}) \cup (IF t.stconv THEN {"STCONV"} ELSE {})
             set == c.ignored \cup asks
             u == [c EXCEPT !.ignored = set]
  <2>1. adcm' = u
    BY <1>4, <1>7 DEF AM!Ignored
  <2>2. /\ c \in AdcmRecord /\ c.on = t.on /\ c.free = t.free /\ c.stconv = t.stconv
        /\ c.due = FALSE /\ c.res = t.res /\ c.last = t.last
        /\ c.ignored = t.ignored /\ c.pending = t.pending /\ c.flags = t.flags
    BY <1>5, BurstCancelledIs
  <2> HIDE DEF c
  <2>3. asks \in SUBSET AM!Requests /\ (free1 => "FREERUN" \in asks)
        /\ (t.stconv => "STCONV" \in asks)
    BY DEF AM!Requests
  <2> HIDE DEF asks
  <2>4. set \in SUBSET AM!Requests /\ (free1 => "FREERUN" \in set)
        /\ (t.stconv => "STCONV" \in set)
    BY <1>3, <1>5, <2>2, <2>3
  <2> HIDE DEF set
  <2>5. /\ u \in AdcmRecord /\ u.free = free1 /\ u.stconv = t.stconv /\ u.due = FALSE
        /\ u.res = t.res /\ u.last = t.last /\ u.ignored = set /\ u.pending = t.pending
        /\ u.flags = t.flags
    BY <1>5, <2>2, <2>4 DEF AdcmRecord
  <2> HIDE DEF u
  <2>6. AdcmSums(u) /\ AdcmAsked(u) /\ AdcmResult(u)
    BY <1>6, <2>4, <2>5, Zenon DEF AdcmSums, AdcmAsked, AdcmResult
  <2>7. QED  BY <1>6, <2>1, <2>5, <2>6 DEF AdcmInv
<1>8. CASE on1 /\ free1 /\ ~adcm.free
  <2>1. adcm' = AM!Start(t)
    BY <1>4, <1>8
  <2>2. QED  BY <1>5, <1>6, <1>8, <2>1, AdcmStartHolds
<1>9. CASE on1 /\ ~(free1 /\ ~adcm.free)
  <2>1. adcm' = t
    BY <1>4, <1>9
  <2>2. AdcmSums(t)
    BY <1>1, <1>5, <1>9, Zenon DEF AdcmSums
  <2>3. AdcmAsked(t)
    BY <1>1, <1>2, <1>3, <1>5, <1>9 DEF AdcmAsked
  <2>4. QED  BY <1>5, <1>6, <2>1, <2>2, <2>3 DEF AdcmInv
<1>10. QED  BY <1>7, <1>8, <1>9

LEMMA AdcmCommandKeeps ==
    ASSUME AM!WellFormed, AdcmInv(adcm), NEW stconv1 \in BOOLEAN, AM!WriteCommand(stconv1)
    PROVE  AdcmInv(adcm')
<1> DEFINE left == adcm.ignored \ {"STCONV"}
           t == [adcm EXCEPT !.stconv = stconv1, !.ignored = left]
<1>1. adcm \in AdcmRecord /\ AdcmSums(adcm) /\ AdcmAsked(adcm) /\ AdcmResult(adcm)
      /\ adcm.pending \subseteq adcm.flags
  BY DEF AdcmInv
<1>2. left \in SUBSET AM!Requests /\ ("FREERUN" \in adcm.ignored => "FREERUN" \in left)
  BY <1>1 DEF AdcmRecord
<1>3. adcm' = CASE stconv1 /\ t.on -> AM!Start(t)
                [] stconv1 /\ ~t.on -> AM!Ignored(t, {"STCONV"})
                [] OTHER -> t
  BY DEF AM!WriteCommand
<1> HIDE DEF left
<1>4. /\ t \in AdcmRecord /\ t.on = adcm.on /\ t.free = adcm.free /\ t.stconv = stconv1
      /\ t.ignored = left /\ t.pending = adcm.pending /\ t.flags = adcm.flags /\ AdcmSame(t, adcm)
  BY <1>1, <1>2 DEF AdcmRecord, AdcmSame
<1> HIDE DEF t
<1>5. AdcmSums(t) /\ AdcmResult(t)
  BY <1>1, <1>4, AdcmSameHolds
<1>6. t.free => t.due \/ "FREERUN" \in t.ignored
  BY <1>1, <1>2, <1>4 DEF AdcmAsked, AdcmSame
<1>7. CASE stconv1 /\ t.on
  <2>1. adcm' = AM!Start(t)
    BY <1>3, <1>7
  <2>2. QED  BY <1>1, <1>4, <1>5, <1>7, <2>1, AdcmStartHolds
<1>8. CASE stconv1 /\ ~t.on
  <2> DEFINE set == t.ignored \cup {"STCONV"}
             u == [t EXCEPT !.ignored = set]
  <2>1. adcm' = u
    BY <1>3, <1>8 DEF AM!Ignored
  <2>2. set \in SUBSET AM!Requests /\ "STCONV" \in set
        /\ ("FREERUN" \in t.ignored => "FREERUN" \in set)
    BY <1>2, <1>4 DEF AM!Requests
  <2> HIDE DEF set
  <2>3. /\ u \in AdcmRecord /\ u.free = t.free /\ u.stconv = t.stconv /\ u.due = t.due
        /\ u.ignored = set /\ u.pending = t.pending /\ u.flags = t.flags /\ AdcmSame(u, t)
    BY <1>4, <2>2 DEF AdcmRecord, AdcmSame
  <2> HIDE DEF u
  <2>4. AdcmSums(u) /\ AdcmResult(u)
    BY <1>5, <2>3, AdcmSameHolds
  <2>5. AdcmAsked(u)
    BY <1>6, <2>2, <2>3, Zenon DEF AdcmAsked
  <2>6. QED  BY <1>1, <1>4, <2>1, <2>3, <2>4, <2>5 DEF AdcmInv
<1>9. CASE ~stconv1
  <2>1. adcm' = t
    BY <1>3, <1>9
  <2>2. AdcmAsked(t)
    BY <1>4, <1>6, <1>9 DEF AdcmAsked
  <2>3. QED  BY <1>1, <1>4, <1>5, <2>1, <2>2 DEF AdcmInv
<1>10. QED  BY <1>7, <1>8, <1>9

LEMMA AdcmRegistersHold ==
    ASSUME AdcmInv(adcm), NEW length \in Lengths, NEW b \in BOOLEAN,
           NEW set \in SUBSET AM!Sources, NEW left \in SUBSET AM!Sources, left \subseteq set,
           adcm' = [adcm EXCEPT !.length = length, !.inten = b, !.flags = set, !.pending = left]
    PROVE  AdcmInv(adcm')
<1>1. adcm \in AdcmRecord /\ AdcmSums(adcm) /\ AdcmAsked(adcm) /\ AdcmResult(adcm)
  BY DEF AdcmInv
<1>2. /\ adcm' \in AdcmRecord /\ adcm'.free = adcm.free /\ adcm'.stconv = adcm.stconv
      /\ adcm'.ignored = adcm.ignored /\ adcm'.flags = set /\ adcm'.pending = left
      /\ AdcmSame(adcm', adcm)
  BY <1>1 DEF AdcmRecord, AdcmSame
<1>3. AdcmSums(adcm') /\ AdcmResult(adcm')
  BY <1>1, <1>2, AdcmSameHolds
<1>4. AdcmAsked(adcm')
  BY <1>1, <1>2, Zenon DEF AdcmAsked, AdcmSame
<1>5. QED  BY <1>2, <1>3, <1>4 DEF AdcmInv

LEMMA AdcmRegistersKeep ==
    ASSUME AdcmInv(adcm),
           \/ \E length \in Lengths : AM!WriteCtrlb(length)
           \/ \E b \in BOOLEAN : AM!WriteIntctrl(b)
           \/ \E clears \in SUBSET AM!Sources : AM!WriteIntflags(clears)
           \/ \E x \in AM!Sources : AM!Serve(x)
    PROVE  AdcmInv(adcm')
<1>1. adcm \in AdcmRecord /\ adcm.pending \subseteq adcm.flags
  BY DEF AdcmInv
<1>2. /\ adcm.length \in Lengths /\ adcm.inten \in BOOLEAN
      /\ adcm.flags \in SUBSET AM!Sources /\ adcm.pending \in SUBSET AM!Sources
  BY <1>1 DEF AdcmRecord
<1>3. ASSUME NEW length \in Lengths, AM!WriteCtrlb(length)
      PROVE  AdcmInv(adcm')
  <2>1. adcm' = [adcm EXCEPT !.length = length, !.inten = adcm.inten,
                             !.flags = adcm.flags, !.pending = adcm.pending]
    BY <1>1, <1>3 DEF AM!WriteCtrlb, AdcmRecord
  <2>2. QED  BY <1>1, <1>2, <2>1, AdcmRegistersHold, Zenon
<1>4. ASSUME NEW b \in BOOLEAN, AM!WriteIntctrl(b)
      PROVE  AdcmInv(adcm')
  <2>1. adcm' = [adcm EXCEPT !.length = adcm.length, !.inten = b,
                             !.flags = adcm.flags, !.pending = adcm.pending]
    BY <1>1, <1>4 DEF AM!WriteIntctrl, AdcmRecord
  <2>2. QED  BY <1>1, <1>2, <2>1, AdcmRegistersHold, Zenon
<1>5. ASSUME NEW clears \in SUBSET AM!Sources, AM!WriteIntflags(clears)
      PROVE  AdcmInv(adcm')
  <2> DEFINE f == adcm.flags \ clears
             q == adcm.pending \cap (adcm.flags \ clears)
  <2>1. adcm' = [adcm EXCEPT !.flags = f, !.pending = q]
    BY <1>5, Zenon DEF AM!WriteIntflags
  <2>2. f \in SUBSET AM!Sources /\ q \in SUBSET AM!Sources /\ q \subseteq f
    BY <1>2
  <2> HIDE DEF f, q
  <2>3. adcm' = [adcm EXCEPT !.length = adcm.length, !.inten = adcm.inten,
                             !.flags = f, !.pending = q]
    BY <1>1, <2>1 DEF AdcmRecord
  <2>4. QED  BY <1>2, <2>2, <2>3, AdcmRegistersHold, Zenon
<1>6. ASSUME NEW x \in AM!Sources, AM!Serve(x)
      PROVE  AdcmInv(adcm')
  <2> DEFINE q == adcm.pending \ {x}
  <2>1. adcm' = [adcm EXCEPT !.pending = q]
    BY <1>6 DEF AM!Serve
  <2>2. q \in SUBSET AM!Sources /\ q \subseteq adcm.flags
    BY <1>1, <1>2
  <2> HIDE DEF q
  <2>3. adcm' = [adcm EXCEPT !.length = adcm.length, !.inten = adcm.inten,
                             !.flags = adcm.flags, !.pending = q]
    BY <1>1, <2>1 DEF AdcmRecord
  <2>4. QED  BY <1>2, <2>2, <2>3, AdcmRegistersHold, Zenon
<1>7. QED  BY <1>3, <1>4, <1>5, <1>6

LEMMA AdcmKeeps ==
    ASSUME AM!WellFormed, AdcmInv(adcm), AM!Next
    PROVE  AdcmInv(adcm')
<1>1. CASE \E code \in Samples, hit \in BOOLEAN : AM!Complete(code, hit)
  BY <1>1, AdcmCompleteKeeps
<1>2. CASE \E on1, free1 \in BOOLEAN : AM!WriteCtrla(on1, free1)
  BY <1>2, AdcmCtrlaKeeps
<1>3. CASE \E b \in BOOLEAN : AM!WriteCommand(b)
  BY <1>3, AdcmCommandKeeps
<1>4. CASE \/ \E length \in Lengths : AM!WriteCtrlb(length)
           \/ \E b \in BOOLEAN : AM!WriteIntctrl(b)
           \/ \E clears \in SUBSET AM!Sources : AM!WriteIntflags(clears)
           \/ \E x \in AM!Sources : AM!Serve(x)
  BY <1>4, AdcmRegistersKeep
<1>5. CASE AM!Event
  <2>1. adcm \in AdcmRecord /\ AdcmResult(adcm) /\ adcm.pending \subseteq adcm.flags
    BY DEF AdcmInv
  <2>2. QED  BY <1>5, <2>1, AdcmStartHolds DEF AM!Event
<1>6. CASE AM!Reset
  <2> DEFINE off == AM!Off
             u == [off EXCEPT !.sum = adcm.sum, !.count = adcm.count, !.target = adcm.target]
  <2>1. adcm' = u
    BY <1>6 DEF AM!Reset
  <2>2. AdcmOff(off)
    BY NoBurstIs DEF AM!Off, AdcmOff, AdcmRecord, AM!WellFormed
  <2>3. adcm.sum \in Nat /\ adcm.count \in Nat /\ adcm.target \in Lengths \cup {0}
    BY DEF AdcmInv, AdcmRecord
  <2> HIDE DEF off
  <2>4. AdcmOff(u)
    BY <2>2, <2>3 DEF AdcmOff, AdcmRecord
  <2>5. QED  BY <2>1, <2>4, AdcmOffHolds
<1>7. QED  BY <1>1, <1>2, <1>3, <1>4, <1>5, <1>6 DEF AM!Next

-----------------------------------------------------------------------------
(* The recorder of value changes *)

VcdEntry == [sig : Signals, when : 0 .. MaxNow]
VcdLine == [sig : Signals, when : 0 .. MaxNow, at : Int, flush : Nat]
VcdRecord ==
    [out : BOOLEAN, timed : BOOLEAN, start : 0 .. MaxNow, cycle : 0 .. MaxNow,
     log : Seq(VcdEntry), file : Seq(VcdLine), flushes : Nat, offered : Seq(VcdEntry),
     reset : BOOLEAN]

\* The file and then the log are what was offered.
VcdLengths(t) ==
    /\ Len(t.offered) = Len(t.file) + Len(t.log) /\ Len(t.offered) <= MaxChanges
    /\ Len(t.log) <= LogRoom /\ t.flushes <= Len(t.file)

VcdWhole(t) ==
    /\ ~t.out => t.log = <<>>
    /\ \A i \in 1 .. Len(t.file) : t.offered[i] = VO!Noted(t.file[i])
    /\ \A i \in 1 .. Len(t.file) : t.file[i].flush < t.flushes
    /\ \A k \in 1 .. Len(t.log) : t.offered[Len(t.file) + k] = t.log[k]

\* Changes are offered as time goes on.
VcdTimes(t) ==
    ~t.reset =>
        /\ t.out => t.start <= t.cycle
        /\ \A i \in 1 .. Len(t.offered) : t.start <= t.offered[i].when
        /\ \A i \in 1 .. Len(t.offered) : t.out => t.offered[i].when <= t.cycle
        /\ \A i, j \in 1 .. Len(t.offered) : i < j => t.offered[i].when <= t.offered[j].when

\* A signal changed twice at one time, among the first lines.
CrowdAt(file, last, when) ==
    \E i, k \in 1 .. last :
        i < k /\ file[i].sig = file[k].sig /\ file[i].when = when /\ file[k].when = when
CrowdedIn(file, j) == CrowdAt(file, j - 1, file[j].when)

\* avr_cycles_to_nsec before the stamps wrap.
Stamp(from, when) == Scale * (when - from)

Stands(file, j, from) ==
    file[j].at = Stamp(from, file[j].when) \/ file[j].at = Stamp(from, file[j].when) + 1
Shows(file, i, j) ==
    file[i].sig = file[j].sig /\ file[i].at = file[j].at =>
        CrowdedIn(file, j) \/ file[i].flush # file[j].flush

VcdPulses(t) ==
    ~t.reset =>
        /\ \A j \in 1 .. Len(t.file) : Stands(t.file, j, t.start)
        /\ \A i, j \in 1 .. Len(t.file) : i < j => Shows(t.file, i, j)

VcdTimed(t) ==
    /\ t.timed => t.out /\ ~t.reset
    /\ t.out /\ ~t.reset => t.timed

VcdInv(t) == t \in VcdRecord /\ VcdLengths(t) /\ VcdWhole(t) /\ VcdTimes(t) /\ VcdPulses(t) /\ VcdTimed(t)

LEMMA ProductsApart ==
    ASSUME NEW a \in Nat, NEW b \in Nat, NEW c \in Nat, c >= 2, a < b
    PROVE  c * a \in Nat /\ c * b \in Nat /\ c * a + 2 <= c * b
<1>1. c * a \in Nat /\ c * b \in Nat
  BY ProductIsNat
<1>2. a + 1 \in Nat /\ a + 1 <= b
  OBVIOUS
<1>3. (a + 1) * c <= b * c
  BY <1>2, ProductGrows
<1>4. (a + 1) * c = c * a + c /\ b * c = c * b
  OBVIOUS
<1>5. QED  BY <1>1, <1>3, <1>4

LEMMA StampIs ==
    ASSUME VO!WellFormed, NEW from \in 0 .. MaxNow, NEW x \in 0 .. MaxNow, from <= x
    PROVE  Stamp(from, x) \in Nat /\ Stamp(from, x) % Width = Stamp(from, x)
<1>1. MaxNow \in Nat /\ Scale \in Nat /\ Width \in Nat /\ Scale * MaxNow < Width
  BY DEF VO!WellFormed
<1>2. x - from \in Nat /\ x - from <= MaxNow
  BY <1>1
<1>3. \A d \in Nat : d <= MaxNow => Scale * d \in Nat /\ Scale * d <= Scale * MaxNow
  <2>1. SUFFICES ASSUME NEW d \in Nat, d <= MaxNow
                 PROVE  Scale * d \in Nat /\ Scale * d <= Scale * MaxNow
    OBVIOUS
  <2>2. d * Scale <= MaxNow * Scale
    BY <1>1, <2>1, ProductGrows
  <2>3. d * Scale = Scale * d /\ MaxNow * Scale = Scale * MaxNow /\ Scale * d \in Nat
    BY <1>1, <2>1, ProductIsNat
  <2>4. QED  BY <2>2, <2>3
<1>4. Stamp(from, x) \in Nat /\ Stamp(from, x) <= Scale * MaxNow
  BY <1>2, <1>3 DEF Stamp
<1>5. \A p \in Nat : p < Width => p % Width = p
  BY <1>1
<1>6. Scale * MaxNow \in Nat
  BY <1>1, ProductIsNat
<1>7. Stamp(from, x) < Width
  <2>1. \A p, q \in Nat : p <= q /\ q < Width => p < Width
    BY <1>1
  <2>2. QED  BY <1>1, <1>4, <1>6, <2>1
<1>8. QED  BY <1>4, <1>5, <1>7

LEMMA StampsApart ==
    ASSUME VO!WellFormed, NEW from \in 0 .. MaxNow, NEW x \in 0 .. MaxNow,
           NEW y \in 0 .. MaxNow, from <= x, x < y
    PROVE  Stamp(from, x) + 2 <= Stamp(from, y)
<1>1. Scale \in Nat /\ Scale >= 2 /\ MaxNow \in Nat
  BY DEF VO!WellFormed
<1>2. x - from \in Nat /\ y - from \in Nat /\ x - from < y - from
  BY <1>1
<1> DEFINE p == x - from
           q == y - from
<1>3. p \in Nat /\ q \in Nat /\ p < q
  BY <1>2
<1> HIDE DEF p, q
<1>4. Scale * p + 2 <= Scale * q
  BY <1>1, <1>3, ProductsApart
<1>5. QED  BY <1>4 DEF Stamp, p, q

LEMMA VcdShows ==
    ASSUME VO!WellFormed, VcdInv(vcd)
    PROVE  VO!TypeOK /\ VO!WorkIsTimed /\ VO!EveryChangeWritten /\ VO!PulsesShow
<1>1. vcd \in VcdRecord /\ VcdLengths(vcd) /\ VcdWhole(vcd) /\ VcdTimes(vcd)
      /\ VcdPulses(vcd) /\ VcdTimed(vcd)
  BY DEF VcdInv
<1>2. /\ vcd.file \in Seq(VcdLine) /\ vcd.log \in Seq(VcdEntry) /\ vcd.offered \in Seq(VcdEntry)
      /\ vcd.flushes \in Nat /\ vcd.start \in 0 .. MaxNow
  BY <1>1 DEF VcdRecord
<1>3. Len(vcd.file) \in Nat /\ Len(vcd.log) \in Nat /\ Len(vcd.offered) \in Nat
      /\ DOMAIN vcd.file = 1 .. Len(vcd.file)
  BY <1>2
<1>4. VO!TypeOK
  <2>1. /\ vcd.out \in BOOLEAN /\ vcd.timed \in BOOLEAN /\ vcd.reset \in BOOLEAN
        /\ vcd.start \in 0 .. MaxNow /\ vcd.cycle \in 0 .. MaxNow
    BY <1>1 DEF VcdRecord
  <2>2. MaxChanges \in Nat
    BY DEF VO!WellFormed
  <2>3. vcd.flushes \in 0 .. MaxChanges /\ Len(vcd.log) <= LogRoom
    <3>1. \A a, b, c, e, m \in Nat : c = a + b /\ c <= m /\ e <= a => e \in 0 .. m
      OBVIOUS
    <3>2. QED  BY <1>1, <1>2, <1>3, <2>2, <3>1, Zenon DEF VcdLengths
  <2>4. QED  BY <1>2, <2>1, <2>3 DEF VO!TypeOK, VcdEntry
<1>5. VO!WorkIsTimed
  BY <1>1 DEF VO!WorkIsTimed, VcdTimed
<1>6. VO!EveryChangeWritten
  <2> DEFINE written == [i \in DOMAIN vcd.file |-> VO!Noted(vcd.file[i])]
             all == written \o vcd.log
  <2>1. written = [i \in 1 .. Len(vcd.file) |-> VO!Noted(vcd.file[i])]
    BY <1>3
  <2>2. \A i \in 1 .. Len(vcd.file) : VO!Noted(vcd.file[i]) \in VcdEntry
    <3>1. \A i \in 1 .. Len(vcd.file) : vcd.file[i] \in VcdLine
      BY <1>2
    <3>2. \A x \in VcdLine : VO!Noted(x) \in VcdEntry
      BY DEF VO!Noted, VcdLine, VcdEntry
    <3>3. QED  BY <3>1, <3>2
  <2>3. written \in Seq(VcdEntry) /\ Len(written) = Len(vcd.file)
        /\ \A i \in 1 .. Len(vcd.file) : written[i] = VO!Noted(vcd.file[i])
    <3>1. \A i \in 1 .. Len(vcd.file) : written[i] = VO!Noted(vcd.file[i])
      BY <2>1
    <3>2. written \in [1 .. Len(vcd.file) -> VcdEntry]
      BY <2>1, <2>2
    <3> HIDE DEF written
    <3>3. QED  BY <1>3, <3>1, <3>2
  <2> HIDE DEF written
  <2>4. all \in Seq(VcdEntry) /\ Len(all) = Len(vcd.file) + Len(vcd.log)
        /\ \A i \in 1 .. Len(all) : all[i] =
               IF i <= Len(vcd.file) THEN written[i] ELSE vcd.log[i - Len(vcd.file)]
    <3> DEFINE p == vcd.log
    <3>1. p \in Seq(VcdEntry)
      BY <1>2
    <3> HIDE DEF p
    <3>2. /\ written \o p \in Seq(VcdEntry) /\ Len(written \o p) = Len(written) + Len(p)
          /\ \A i \in 1 .. Len(written) + Len(p) : (written \o p)[i] =
               IF i <= Len(written) THEN written[i] ELSE p[i - Len(written)]
      BY <2>3, <3>1, ConcatProperties, ZenonT(30)
    <3>3. QED  BY <2>3, <3>2, Zenon DEF p
  <2> HIDE DEF all
  <2>5. ASSUME NEW i \in 1 .. Len(all)
        PROVE  vcd.offered[i] = all[i]
    <3>1. CASE i <= Len(vcd.file)
      <4>1. i \in 1 .. Len(vcd.file)
        BY <1>3, <2>4, <2>5, <3>1
      <4>2. QED  BY <1>1, <2>3, <2>4, <2>5, <3>1, <4>1, Zenon DEF VcdWhole
    <3>2. CASE ~(i <= Len(vcd.file))
      <4> DEFINE d == i - Len(vcd.file)
      <4>4. d \in 1 .. Len(vcd.log)
        <5>1. i \in 1 .. Len(vcd.file) + Len(vcd.log)
          BY <2>4
        <5>2. \A a, b, x \in Nat : x \in 1 .. a + b /\ ~(x <= a) => x - a \in 1 .. b
          OBVIOUS
        <5>3. i \in Nat
          OBVIOUS
        <5>4. QED  BY <1>3, <3>2, <5>1, <5>2, <5>3, Zenon
      <4>1. PICK k \in 1 .. Len(vcd.log) : k = d
        BY <4>4
      <4>2. i = Len(vcd.file) + k
        <5>1. i \in Nat
          BY <1>3, <2>4
        <5>2. QED  BY <1>3, <4>1, <5>1
      <4>3. QED  BY <1>1, <2>4, <2>5, <3>2, <4>1, <4>2, Zenon DEF VcdWhole
    <3>3. QED  BY <3>1, <3>2
  <2>6. vcd.offered = all
    <3>1. Len(vcd.offered) = Len(all)
      BY <1>1, <2>4 DEF VcdLengths
    <3>2. QED  BY <1>2, <2>4, <2>5, <3>1, SeqEqual
  <2>7. ~vcd.out => all = written
    <3>1. ASSUME vcd.log = <<>>
          PROVE  all = written
      BY <2>3, <3>1, ConcatEmptySeq DEF all
    <3>2. QED  BY <1>1, <3>1 DEF VcdWhole
  <2>8. QED  BY <2>6, <2>7 DEF VO!EveryChangeWritten, all, written
<1>7. VO!PulsesShow
  <2>1. SUFFICES ASSUME ~vcd.reset, NEW j \in DOMAIN vcd.file
                 PROVE  /\ vcd.file[j].at - VO!Nsec(vcd.file[j].when) \in {0, 1}
                        /\ \A i \in 1 .. j - 1 :
                              vcd.file[i].sig = vcd.file[j].sig /\ vcd.file[i].at = vcd.file[j].at =>
                                  VO!Crowded(j) \/ vcd.file[i].flush # vcd.file[j].flush
    BY DEF VO!PulsesShow
  <2>2. j \in 1 .. Len(vcd.file)
    BY <1>3, <2>1
  <2>3. vcd.file[j].at - VO!Nsec(vcd.file[j].when) \in {0, 1}
    <3>1. vcd.file[j] \in VcdLine
      BY <1>2, <2>2
    <3>2. vcd.file[j].when \in 0 .. MaxNow /\ vcd.file[j].at \in Int
      BY <3>1 DEF VcdLine
    <3>3. vcd.start <= vcd.file[j].when
      <4>1. j \in 1 .. Len(vcd.offered)
        <5>1. \A a, b, c, x \in Nat : x \in 1 .. a /\ c = a + b => x \in 1 .. c
          OBVIOUS
        <5>2. j \in Nat
          BY <2>2
        <5>3. QED  BY <1>1, <1>3, <2>2, <5>1, <5>2, Zenon DEF VcdLengths
      <4>2. vcd.offered[j].when = vcd.file[j].when
        <5>1. vcd.offered[j] = VO!Noted(vcd.file[j])
          BY <1>1, <2>2 DEF VcdWhole
        <5>2. QED  BY <5>1 DEF VO!Noted
      <4>3. QED  BY <1>1, <2>1, <4>1, <4>2 DEF VcdTimes
    <3>4. Stamp(vcd.start, vcd.file[j].when) \in Nat
          /\ VO!Nsec(vcd.file[j].when) = Stamp(vcd.start, vcd.file[j].when)
      <4>1. VO!Nsec(vcd.file[j].when) = Stamp(vcd.start, vcd.file[j].when) % Width
        BY DEF VO!Nsec, Stamp
      <4>2. QED  BY <1>2, <3>2, <3>3, <4>1, StampIs
    <3>5. Stands(vcd.file, j, vcd.start)
      BY <1>1, <2>1, <2>2 DEF VcdPulses
    <3>6. QED  BY <3>2, <3>4, <3>5 DEF Stands
  <2>4. ASSUME NEW i \in 1 .. j - 1
        PROVE  Shows(vcd.file, i, j)
    <3>1. i \in 1 .. Len(vcd.file) /\ i < j
      BY <1>3, <2>2, <2>4
    <3>2. QED  BY <1>1, <2>1, <2>2, <3>1 DEF VcdPulses
  <2>5. CrowdedIn(vcd.file, j) => VO!Crowded(j)
    BY DEF CrowdedIn, CrowdAt, VO!Crowded
  <2>6. QED  BY <2>3, <2>4, <2>5 DEF Shows
<1>8. QED  BY <1>4, <1>5, <1>6, <1>7

\* Nothing offered: as at the start of a recording.
LEMMA VcdEmptyHolds ==
    ASSUME VO!WellFormed, NEW t \in VcdRecord, t.log = <<>>, t.file = <<>>, t.offered = <<>>,
           t.flushes = 0, VcdTimed(t), t.out => t.start <= t.cycle
    PROVE  VcdInv(t)
<1>1. Len(<<>>) = 0 /\ 0 + 0 = 0 /\ 1 .. 0 = {} /\ 0 <= 0
  OBVIOUS
<1>2. 0 <= MaxChanges /\ 0 <= LogRoom
  BY DEF VO!WellFormed
<1>3. VcdWhole(t) /\ VcdLengths(t)
  BY <1>1, <1>2, Zenon DEF VcdWhole, VcdLengths
<1>4. VcdTimes(t)
  BY <1>1, Zenon DEF VcdTimes
<1>5. VcdPulses(t)
  BY <1>1, Zenon DEF VcdPulses
<1>6. QED  BY <1>3, <1>4, <1>5 DEF VcdInv

LEMMA VcdInitHolds ==
    ASSUME VO!WellFormed, VO!Init
    PROVE  VcdInv(vcd)
<1>1. vcd \in VcdRecord
  BY DEF VO!Init, VcdRecord, VO!WellFormed
<1>2. /\ vcd.log = <<>> /\ vcd.file = <<>> /\ vcd.offered = <<>> /\ vcd.flushes = 0
      /\ vcd.timed = FALSE /\ vcd.out = FALSE
  BY DEF VO!Init
<1>3. VcdTimed(vcd)
  BY <1>2 DEF VcdTimed
<1>4. QED  BY <1>1, <1>2, <1>3, VcdEmptyHolds

\* What a flush has written after the first n entries of the log.
IsAfter(f, n) ==
    /\ f = [k \in 0 .. n |-> f[k]]
    /\ f[0] = [old |-> 0, seen |-> {}, file |-> vcd.file]
    /\ \A k \in 1 .. n : f[k] = VO!Written(f[k - 1], vcd.log[k])

LEMMA FlushedIs ==
    ASSUME vcd.log \in Seq(VcdEntry), vcd.log # <<>>, vcd.out
    PROVE  \E f : /\ IsAfter(f, Len(vcd.log))
                  /\ VO!Flushed(vcd) = [vcd EXCEPT !.log = <<>>, !.flushes = @ + 1,
                                                   !.file = f[Len(vcd.log)].file]
<1> DEFINE N == Len(vcd.log)
           none == [old |-> 0, seen |-> {}, file |-> vcd.file]
           Rec(f, n) == [k \in 0 .. n |-> IF k = 0 THEN none ELSE VO!Written(f[k - 1], vcd.log[k])]
           after == CHOOSE f : f = Rec(f, N)
           Without == {n \in Nat : ~\E f : f = Rec(f, n)}
<1>1. N \in Nat
  OBVIOUS
<1>2. VO!Flushed(vcd) = [vcd EXCEPT !.log = <<>>, !.flushes = @ + 1, !.file = after[N].file]
  BY DEF VO!Flushed
<1> HIDE DEF N, none, after
<1>3. ASSUME Without # {}
      PROVE  FALSE
  <2>1. PICK n \in Without : \A m \in Without : n <= m
    BY <1>3, LeastExists
  <2>2. n \in Nat /\ ~\E f : f = Rec(f, n)
    BY <2>1
  <2>3. n # 0
    <3> DEFINE z == [k \in 0 .. 0 |-> none]
    <3>1. \A k \in 0 .. 0 : k = 0
      OBVIOUS
    <3>2. z = Rec(z, 0)
      BY <3>1
    <3>3. QED  BY <2>2, <3>2
  <2>4. n - 1 \in Nat /\ n - 1 \notin Without
    <3>1. n - 1 \in Nat /\ ~(n <= n - 1)
      BY <2>2, <2>3
    <3>2. QED  BY <2>1, <3>1
  <2>5. PICK f : f = Rec(f, n - 1)
    BY <2>4
  <2> DEFINE h == [k \in 0 .. n |-> IF k = n THEN VO!Written(f[n - 1], vcd.log[n]) ELSE f[k]]
  <2>6. \A k \in 0 .. n : h[k] = IF k = 0 THEN none ELSE VO!Written(h[k - 1], vcd.log[k])
    <3>1. SUFFICES ASSUME NEW k \in 0 .. n
                   PROVE  h[k] = IF k = 0 THEN none ELSE VO!Written(h[k - 1], vcd.log[k])
      OBVIOUS
    <3>2. 0 \in 0 .. n - 1 /\ 0 \in 0 .. n
      BY <2>2, <2>3
    <3>3. CASE k = 0
      BY <2>3, <2>5, <3>2, <3>3
    <3>4. CASE k = n
      <4>1. n - 1 \in 0 .. n /\ n - 1 # n
        BY <2>2, <2>3
      <4>2. h[n - 1] = f[n - 1]
        BY <4>1
      <4>3. QED  BY <2>3, <3>1, <3>4, <4>2
    <3>5. CASE k # 0 /\ k # n
      <4>1. k \in 0 .. n - 1 /\ k - 1 \in 0 .. n - 1 /\ k - 1 # n /\ k - 1 \in 0 .. n
        BY <2>2, <3>1, <3>5
      <4>2. f[k] = VO!Written(f[k - 1], vcd.log[k])
        BY <2>5, <3>5, <4>1
      <4>3. h[k] = f[k] /\ h[k - 1] = f[k - 1]
        BY <3>1, <3>5, <4>1
      <4>4. QED  BY <3>5, <4>2, <4>3
    <3>6. QED  BY <3>3, <3>4, <3>5
  <2>7. h = [k \in 0 .. n |-> h[k]]
    OBVIOUS
  <2> HIDE DEF h
  <2>8. h = Rec(h, n)
    BY <2>6, <2>7
  <2>9. QED  BY <2>2, <2>8
<1>4. \E f : f = Rec(f, N)
  BY <1>1, <1>3
<1>5. after = Rec(after, N)
  BY <1>4 DEF after
<1>6. after[0] = none
  BY <1>1, <1>5
<1>7. \A k \in 1 .. N : after[k] = VO!Written(after[k - 1], vcd.log[k])
  BY <1>1, <1>5
<1>8. after = [k \in 0 .. N |-> after[k]]
  BY <1>5
<1>9. IsAfter(after, N)
  BY <1>6, <1>7, <1>8 DEF IsAfter, none
<1>10. QED  BY <1>2, <1>9, Zenon DEF N

LEMMA NsecIsInt ==
    ASSUME VO!WellFormed, vcd.start \in 0 .. MaxNow, NEW x \in 0 .. MaxNow
    PROVE  VO!Nsec(x) \in Int
<1>1. Scale \in Nat /\ Width \in Nat /\ Width # 0 /\ x - vcd.start \in Int
  <2>1. MaxNow \in Nat /\ Scale \in Nat /\ Width \in Nat /\ Scale * MaxNow < Width
    BY DEF VO!WellFormed
  <2>2. Scale * MaxNow \in Nat
    BY <2>1, ProductIsNat
  <2>3. Width # 0
    BY <2>1, <2>2
  <2>4. QED  BY <2>1, <2>3
<1>2. \A s, y, z \in Int : z # 0 => s * y \in Int /\ (z > 0 => (s * y) % z \in Int)
  OBVIOUS
<1>3. Width > 0
  BY <1>1
<1>4. QED  BY <1>1, <1>2, <1>3 DEF VO!Nsec

\* The part of the file under one stamp: old, and the signals told there.
StampPart(file, first, last, old, told, from) ==
    /\ \A j \in 1 .. last : Stands(file, j, from)
    /\ \A i, j \in 1 .. last : i < j => Shows(file, i, j)
    /\ \A i \in first .. last : file[i].at <= old /\ (file[i].at = old => file[i].sig \in told)
    /\ last < first => told = {}
    /\ first <= last => told # {}
    /\ first <= last => old = Stamp(from, file[last].when)
                        \/ old = Stamp(from, file[last].when) + 1
    /\ \A s \in told : \E i \in first .. last : file[i].sig = s /\ file[i].at = old
    /\ first <= last /\ old = Stamp(from, file[last].when) + 1 =>
           CrowdAt(file, last, file[last].when)

\* avr_vcd_flush_log, with the line of the next entry.
LEMMA NextLineShows ==
    ASSUME NEW first \in Nat, NEW m \in Nat, first <= m, first >= 1,
           NEW x, NEW y, NEW old \in Int, NEW told, NEW from, NEW fl \in Nat,
           \A i \in 1 .. m : Stamp(from, y[i].when) \in Nat /\ y[i].at \in Int,
           \A i \in 1 .. m : y[i].when = y[m].when
                             \/ Stamp(from, y[i].when) + 2 <= Stamp(from, y[m].when),
           \A i \in 1 .. m - 1 : y[i] = x[i],
           \A i \in 1 .. first - 1 : y[i].flush < fl,
           y[m].flush = fl,
           StampPart(x, first, m - 1, old, told, from),
           NEW base, base = VO!Fudged(Stamp(from, y[m].when),
                                      [old |-> old, seen |-> told, file |-> x], y[m].sig),
           NEW stamps \in BOOLEAN, stamps <=> base > old \/ told = {},
           y[m].at = (IF stamps THEN base ELSE old)
    PROVE  StampPart(y, first, m, y[m].at, {y[m].sig} \cup (IF stamps THEN {} ELSE told), from)
<1> DEFINE N == Stamp(from, y[m].when)
           sig == y[m].sig
           at == y[m].at
           now == {y[m].sig} \cup (IF stamps THEN {} ELSE told)
           w == y[m].when
<1>1. m \in 1 .. m /\ N \in Nat /\ at \in Int
  OBVIOUS
<1>2. base = (IF N = old /\ sig \in told THEN N + 1 ELSE N)
  BY DEF VO!Fudged
<1>3. base \in Int /\ (base = N \/ base = N + 1)
  BY <1>1, <1>2
<1>4. \A i \in 1 .. m - 1 : i \in 1 .. m /\ y[i] = x[i]
  OBVIOUS
<1>5. \A j \in 1 .. m - 1 : Stands(y, j, from)
  BY <1>4 DEF StampPart, Stands
<1>6. \A i \in first .. m - 1 : i \in 1 .. m - 1
  OBVIOUS
<1>7. \A i \in first .. m - 1 : y[i].at <= old /\ (y[i].at = old => y[i].sig \in told)
  BY <1>4, <1>6 DEF StampPart
<1>8. \A last \in 1 .. m - 1 : \A when : CrowdAt(x, last, when) => CrowdAt(y, last, when)
  <2>1. SUFFICES ASSUME NEW last \in 1 .. m - 1, NEW when, CrowdAt(x, last, when)
                 PROVE  CrowdAt(y, last, when)
    OBVIOUS
  <2>2. \A i \in 1 .. last : i \in 1 .. m - 1
    OBVIOUS
  <2>3. QED  BY <1>4, <2>1, <2>2, Zenon DEF CrowdAt
<1>9. \A i, j \in 1 .. m - 1 : i < j => Shows(y, i, j)
  <2>1. SUFFICES ASSUME NEW i \in 1 .. m - 1, NEW j \in 1 .. m - 1, i < j
                 PROVE  Shows(y, i, j)
    OBVIOUS
  <2>2. y[i] = x[i] /\ y[j] = x[j] /\ Shows(x, i, j)
    BY <1>4, <2>1 DEF StampPart
  <2>3. j - 1 \in 1 .. m - 1
    BY <2>1
  <2>4. CrowdedIn(x, j) => CrowdedIn(y, j)
    BY <1>8, <2>2, <2>3 DEF CrowdedIn
  <2>5. QED  BY <2>2, <2>4 DEF Shows
<1>10. \A i \in 1 .. first - 1 : y[i].flush # y[m].flush
  <2>1. SUFFICES ASSUME NEW i \in 1 .. first - 1, y[i].flush = y[m].flush
                 PROVE  FALSE
    OBVIOUS
  <2>2. y[i].flush < fl /\ y[i].flush = fl
    BY <2>1
  <2>3. QED  BY <2>2
<1>11. \A i \in 1 .. m - 1 : i \in 1 .. first - 1 \/ i \in first .. m - 1
  OBVIOUS
<1>12. ASSUME at = N \/ at = N + 1,
              \A i \in first .. m - 1 : y[i].sig = sig /\ y[i].at = at => CrowdAt(y, m - 1, w),
              \A i \in first .. m - 1 : y[i].at <= at /\ (y[i].at = at => y[i].sig \in now),
              \A s \in now : s = sig \/ \E i \in first .. m - 1 : y[i].sig = s /\ y[i].at = at,
              at = N + 1 => CrowdAt(y, m, w)
       PROVE  StampPart(y, first, m, at, now, from)
  <2>1. \A j \in 1 .. m : j = m \/ j \in 1 .. m - 1
    OBVIOUS
  <2>2. \A j \in first .. m : j = m \/ j \in first .. m - 1
    OBVIOUS
  <2>3. Stands(y, m, from)
    BY <1>12 DEF Stands
  <2>4. \A j \in 1 .. m : Stands(y, j, from)
    BY <1>5, <2>1, <2>3
  <2>5. \A i \in 1 .. m - 1 : Shows(y, i, m)
    <3>1. SUFFICES ASSUME NEW i \in 1 .. m - 1, y[i].sig = y[m].sig, y[i].at = y[m].at,
                          y[i].flush = y[m].flush
                   PROVE  CrowdedIn(y, m)
      BY DEF Shows
    <3>2. i \in first .. m - 1
      BY <1>10, <1>11, <3>1
    <3>3. QED  BY <1>12, <3>1, <3>2 DEF CrowdedIn
  <2>6. \A i, j \in 1 .. m : i < j => Shows(y, i, j)
    <3>1. SUFFICES ASSUME NEW i \in 1 .. m, NEW j \in 1 .. m, i < j
                   PROVE  Shows(y, i, j)
      OBVIOUS
    <3>2. i \in 1 .. m - 1
      BY <3>1
    <3>3. QED  BY <1>9, <2>1, <2>5, <3>1, <3>2
  <2>7. sig \in now /\ at <= at /\ now # {}
    BY <1>1
  <2>8. \A i \in first .. m : y[i].at <= at /\ (y[i].at = at => y[i].sig \in now)
    BY <1>12, <2>2, <2>7
  <2>9. m \in first .. m /\ ~(m < first)
    OBVIOUS
  <2>10. \A s \in now : \E i \in first .. m : y[i].sig = s /\ y[i].at = at
    <3>1. SUFFICES ASSUME NEW s \in now
                   PROVE  \E i \in first .. m : y[i].sig = s /\ y[i].at = at
      OBVIOUS
    <3>2. CASE s = sig
      BY <2>9, <3>2
    <3>3. CASE s # sig
      <4>1. \A i \in first .. m - 1 : i \in first .. m
        OBVIOUS
      <4>2. QED  BY <1>12, <3>1, <3>3, <4>1, Zenon
    <3>4. QED  BY <3>2, <3>3
  <2> HIDE DEF now
  <2>11. QED  BY <1>12, <2>4, <2>6, <2>7, <2>8, <2>9, <2>10 DEF StampPart
<1>13. ASSUME told = {}
       PROVE  StampPart(y, first, m, at, now, from)
  <2>1. stamps /\ at = N /\ now = {sig}
    BY <1>1, <1>2, <1>13
  <2>2. ~(first <= m - 1)
    <3>1. ASSUME first <= m - 1
          PROVE  FALSE
      <4>1. QED  BY <1>13, <3>1 DEF StampPart
    <3>2. QED  BY <3>1
  <2>3. first .. m - 1 = {}
    BY <2>2
  <2>4. at # N + 1
    BY <1>1, <2>1
  <2> HIDE DEF at, N, sig, w, now
  <2>5. QED  BY <1>12, <2>1, <2>3, <2>4, Zenon
<1>14. ASSUME told # {} /\ stamps
       PROVE  StampPart(y, first, m, at, now, from)
  <2>1. at = base /\ now = {sig} /\ base > old
    BY <1>14
  <2>2. \A i \in first .. m - 1 : y[i].at < at
    <3>1. SUFFICES ASSUME NEW i \in first .. m - 1
                   PROVE  y[i].at < at
      OBVIOUS
    <3>2. y[i].at \in Int /\ y[i].at <= old
      BY <1>4, <1>6, <1>7
    <3>3. \A a, b, c \in Int : a <= b /\ c > b => a < c
      OBVIOUS
    <3>4. QED  BY <1>3, <2>1, <3>2, <3>3, Zenon
  <2>3. \A i \in first .. m - 1 : y[i].at # at /\ y[i].at <= at
    <3>1. \A a, b \in Int : a < b => a # b /\ a <= b
      OBVIOUS
    <3>2. \A i \in first .. m - 1 : y[i].at \in Int
      BY <1>4, <1>6
    <3>3. QED  BY <1>1, <2>2, <3>1, <3>2, Zenon
  <2>4. ASSUME at = N + 1
        PROVE  CrowdAt(y, m, w)
    <3>1. N = old /\ sig \in told
      BY <1>1, <1>2, <2>1, <2>4
    <3>2. PICK i \in first .. m - 1 : x[i].sig = sig /\ x[i].at = old
      BY <3>1 DEF StampPart
    <3>3. i \in 1 .. m - 1 /\ i \in 1 .. m /\ y[i].sig = sig /\ y[i].at = N /\ i < m
      BY <1>4, <1>6, <3>1, <3>2
    <3>4. Stands(y, i, from) /\ Stamp(from, y[i].when) \in Nat
      BY <1>5, <3>3
    <3>5. y[i].when = w
      <4>1. y[i].when = w \/ Stamp(from, y[i].when) + 2 <= N
        BY <3>3
      <4>2. N = Stamp(from, y[i].when) \/ N = Stamp(from, y[i].when) + 1
        BY <3>3, <3>4 DEF Stands
      <4>3. \A a, b \in Nat : ~(a + 2 <= b /\ (b = a \/ b = a + 1))
        OBVIOUS
      <4>4. QED  BY <1>1, <3>4, <4>1, <4>2, <4>3, Zenon
    <3>6. QED  BY <1>1, <3>3, <3>5, Zenon DEF CrowdAt
  <2>5. at = N \/ at = N + 1
    BY <1>3, <2>1
  <2> HIDE DEF at, N, sig, w, now
  <2>6. QED  BY <1>12, <2>1, <2>3, <2>4, <2>5, Zenon
<1>15. ASSUME told # {} /\ ~stamps
       PROVE  StampPart(y, first, m, at, now, from)
  <2>1. at = old /\ now = {sig} \cup told /\ ~(base > old)
    BY <1>15
  <2>2. first <= m - 1 /\ m - 1 \in 1 .. m - 1
    <3>1. ~(m - 1 < first)
      BY <1>15 DEF StampPart
    <3>2. QED  BY <3>1
  <2>3. /\ old = Stamp(from, y[m - 1].when) \/ old = Stamp(from, y[m - 1].when) + 1
        /\ old = Stamp(from, y[m - 1].when) + 1 => CrowdAt(y, m - 1, y[m - 1].when)
    <3>1. y[m - 1] = x[m - 1]
      BY <1>4, <2>2
    <3>2. /\ old = Stamp(from, x[m - 1].when) \/ old = Stamp(from, x[m - 1].when) + 1
          /\ old = Stamp(from, x[m - 1].when) + 1 => CrowdAt(x, m - 1, x[m - 1].when)
      BY <2>2 DEF StampPart
    <3>3. QED  BY <1>8, <2>2, <3>1, <3>2
  <2>4. y[m - 1].when = w
    <3>1. y[m - 1].when = w \/ Stamp(from, y[m - 1].when) + 2 <= N
      BY <1>4, <2>2
    <3>2. Stamp(from, y[m - 1].when) \in Nat
      BY <1>4, <2>2
    <3>3. \A a, b \in Nat, c, d \in Int :
              ~(a + 2 <= b /\ (c = a \/ c = a + 1) /\ (d = b \/ d = b + 1) /\ ~(d > c))
      OBVIOUS
    <3>4. QED  BY <1>1, <1>3, <2>1, <2>3, <3>1, <3>2, <3>3, Zenon
  <2>5. at = N \/ at = N + 1
    BY <2>1, <2>3, <2>4
  <2>6. at = N + 1 => CrowdAt(y, m - 1, w)
    BY <2>1, <2>3, <2>4
  <2>7. CrowdAt(y, m - 1, w) => CrowdAt(y, m, w)
    <3>1. \A i \in 1 .. m - 1 : i \in 1 .. m
      OBVIOUS
    <3>2. QED  BY <3>1, Zenon DEF CrowdAt
  <2>8. ASSUME NEW i \in first .. m - 1, y[i].sig = sig, y[i].at = at
        PROVE  CrowdAt(y, m - 1, w)
    <3>1. sig \in told
      BY <1>7, <2>1, <2>8
    <3>2. at # N
      <4>1. \A a, b, c \in Int : a = c /\ b = c + 1 => b > a
        OBVIOUS
      <4>2. ASSUME at = N
            PROVE  FALSE
        <5>1. old = N /\ base = N + 1
          BY <1>2, <2>1, <3>1, <4>2
        <5>2. N \in Int
          BY <1>1
        <5>3. QED  BY <1>3, <2>1, <4>1, <5>1, <5>2, Zenon
      <4>3. QED  BY <4>2
    <3>3. QED  BY <2>5, <2>6, <3>2
  <2>9. \A i \in first .. m - 1 : y[i].at <= at /\ (y[i].at = at => y[i].sig \in now)
    BY <1>7, <2>1
  <2>10. \A s \in now : s = sig \/ \E i \in first .. m - 1 : y[i].sig = s /\ y[i].at = at
    <3>1. SUFFICES ASSUME NEW s \in told
                   PROVE  \E i \in first .. m - 1 : y[i].sig = s /\ y[i].at = at
      BY <2>1
    <3>2. PICK i \in first .. m - 1 : x[i].sig = s /\ x[i].at = old
      BY DEF StampPart
    <3>3. QED  BY <1>4, <1>6, <2>1, <3>2
  <2> HIDE DEF at, N, sig, w, now
  <2>11. QED  BY <1>12, <2>5, <2>6, <2>7, <2>8, <2>9, <2>10, Zenon
<1>16. QED  BY <1>13, <1>14, <1>15

\* The loop of avr_vcd_flush_log, n entries done.
LoopFile(x, n) ==
    /\ x.old \in Int /\ x.file \in Seq(VcdLine) /\ Len(x.file) = Len(vcd.file) + n
    /\ \A i \in 1 .. Len(vcd.file) : x.file[i] = vcd.file[i]
    /\ \A i \in Len(vcd.file) + 1 .. Len(vcd.file) + n : x.file[i].flush = vcd.flushes
    /\ \A i \in 1 .. Len(vcd.file) + n : vcd.offered[i] = VO!Noted(x.file[i])

LoopStamps(x, n) ==
    ~vcd.reset =>
        StampPart(x.file, Len(vcd.file) + 1, Len(vcd.file) + n, x.old, x.seen, vcd.start)

LEMMA LoopBegins ==
    ASSUME VcdInv(vcd), NEW x, x = [old |-> 0, seen |-> {}, file |-> vcd.file]
    PROVE  LoopFile(x, 0) /\ LoopStamps(x, 0)
<1>1. vcd \in VcdRecord /\ VcdWhole(vcd) /\ VcdPulses(vcd)
  BY DEF VcdInv
<1>2. vcd.file \in Seq(VcdLine) /\ Len(vcd.file) \in Nat
  BY <1>1 DEF VcdRecord
<1>3. x.old = 0 /\ x.seen = {} /\ x.file = vcd.file
  OBVIOUS
<1>4. PICK L \in Nat : L = Len(vcd.file)
  BY <1>2
<1>5. L + 0 = L /\ L + 1 .. L = {} /\ L < L + 1 /\ ~(L + 1 <= L) /\ 0 \in Int
  OBVIOUS
<1>6. LoopFile(x, 0)
  BY <1>1, <1>2, <1>3, <1>4, <1>5, Zenon DEF LoopFile, VcdWhole
<1>7. LoopStamps(x, 0)
  BY <1>1, <1>3, <1>4, <1>5, Zenon DEF LoopStamps, StampPart, VcdPulses
<1>8. QED  BY <1>6, <1>7

LEMMA LoopGoesOn ==
    ASSUME VO!WellFormed, VcdInv(vcd), vcd.out, NEW n \in 1 .. Len(vcd.log), NEW x,
           LoopFile(x, n - 1), LoopStamps(x, n - 1), NEW l, l = vcd.log[n]
    PROVE  LET y == VO!Written(x, l)
           IN  LoopFile(y, n) /\ LoopStamps(y, n)
<1> DEFINE y == VO!Written(x, l)
           base == VO!Fudged(VO!Nsec(l.when), x, l.sig)
           stamps == base > x.old \/ x.seen = {}
           at == IF stamps THEN base ELSE x.old
           line == [sig |-> l.sig, when |-> l.when, at |-> at, flush |-> vcd.flushes]
<1>1. vcd \in VcdRecord /\ VcdLengths(vcd) /\ VcdWhole(vcd) /\ VcdTimes(vcd) /\ VcdPulses(vcd)
  BY DEF VcdInv
<1>2. /\ vcd.file \in Seq(VcdLine) /\ vcd.log \in Seq(VcdEntry) /\ vcd.offered \in Seq(VcdEntry)
      /\ vcd.flushes \in Nat /\ vcd.start \in 0 .. MaxNow /\ vcd.cycle \in 0 .. MaxNow
  BY <1>1 DEF VcdRecord
<1>3. l \in VcdEntry /\ n \in Nat /\ n >= 1 /\ Len(vcd.log) \in Nat /\ n <= Len(vcd.log)
  <2>1. Len(vcd.log) \in Nat
    BY <1>2, LenProperties
  <2>2. l \in VcdEntry
    BY <1>2, ElementOfSeq
  <2>3. QED  BY <2>1, <2>2
<1>4. l.when \in 0 .. MaxNow /\ VO!Nsec(l.when) \in Int
  BY <1>2, <1>3, NsecIsInt DEF VcdEntry
<1>5. PICK L \in Nat : L = Len(vcd.file)
  BY <1>2
<1>6. PICK m \in Nat : m = L + n
  BY <1>3
<1>7. m - 1 = L + (n - 1) /\ L + 1 <= m /\ L + 1 >= 1 /\ m \in 1 .. m /\ L + 1 \in Nat
      /\ L < m
  BY <1>3, <1>6
<1>8. /\ x.old \in Int /\ x.file \in Seq(VcdLine) /\ Len(x.file) = m - 1
      /\ \A i \in 1 .. L : x.file[i] = vcd.file[i]
      /\ \A i \in L + 1 .. m - 1 : x.file[i].flush = vcd.flushes
      /\ \A i \in 1 .. m - 1 : vcd.offered[i] = VO!Noted(x.file[i])
  BY <1>5, <1>7, Zenon DEF LoopFile
<1> DEFINE told == {l.sig} \cup (IF stamps THEN {} ELSE x.seen)
<1>9. /\ y = [old |-> at, seen |-> told, file |-> Append(x.file, line)]
      /\ line \in VcdLine /\ VO!Noted(line) = l /\ at \in Int
  <2>1. x.old \in Int /\ VO!Nsec(l.when) \in Int
    BY <1>4, <1>8
  <2>2. base \in Int
    BY <2>1 DEF VO!Fudged
  <2> HIDE DEF base
  <2>3. at \in Int
    BY <2>1, <2>2
  <2>4. y = [old |-> at, seen |-> told, file |-> Append(x.file, line)]
    BY DEF VO!Written, base
  <2> HIDE DEF at
  <2>5. line \in VcdLine
    BY <1>2, <1>3, <2>3 DEF VcdLine, VcdEntry
  <2>6. VO!Noted(line) = l
    BY <1>3 DEF VO!Noted, VcdEntry
  <2> HIDE DEF y, line, told
  <2>7. QED  BY <2>3, <2>4, <2>5, <2>6
<1>10. line.sig = l.sig /\ line.when = l.when /\ line.at = at /\ line.flush = vcd.flushes
  OBVIOUS
<1> HIDE DEF y, at, line, told
<1>a. y.old = at /\ y.seen = told /\ y.file = Append(x.file, line)
  BY <1>9
<1>11. /\ y.file \in Seq(VcdLine) /\ Len(y.file) = m /\ y.file[m] = line
       /\ \A i \in 1 .. m - 1 : y.file[i] = x.file[i]
  <2> DEFINE p == x.file
  <2>1. p \in Seq(VcdLine) /\ Len(p) = m - 1
    BY <1>8
  <2> HIDE DEF p
  <2>2. /\ Append(p, line) \in Seq(VcdLine) /\ Len(Append(p, line)) = Len(p) + 1
        /\ \A i \in 1 .. Len(p) : Append(p, line)[i] = p[i]
        /\ Append(p, line)[Len(p) + 1] = line
    BY <1>9, <2>1, AppendProperties
  <2>3. Len(p) + 1 = m
    BY <2>1
  <2>4. QED  BY <1>a, <2>1, <2>2, <2>3, Zenon DEF p
<1>12. vcd.offered[m] = l
  BY <1>1, <1>5, <1>6, Zenon DEF VcdWhole
<1>13. \A i \in 1 .. m : i = m \/ i \in 1 .. m - 1
  OBVIOUS
<1>14. \A i \in 1 .. m : vcd.offered[i] = VO!Noted(y.file[i])
  <2>1. VO!Noted(y.file[m]) = vcd.offered[m]
    BY <1>9, <1>11, <1>12
  <2>2. \A i \in 1 .. m - 1 : vcd.offered[i] = VO!Noted(y.file[i])
    <3>1. SUFFICES ASSUME NEW i \in 1 .. m - 1
                   PROVE  vcd.offered[i] = VO!Noted(y.file[i])
      OBVIOUS
    <3>2. y.file[i] = x.file[i] /\ vcd.offered[i] = VO!Noted(x.file[i])
      BY <1>8, <1>11
    <3>3. QED  BY <3>2
  <2>3. QED  BY <1>13, <2>1, <2>2
<1>15. LoopFile(y, n)
  <2>1. \A i \in 1 .. L : i \in 1 .. m - 1
    BY <1>7
  <2>2. \A i \in L + 1 .. m : i = m \/ i \in L + 1 .. m - 1
    OBVIOUS
  <2>3. \A i \in L + 1 .. m - 1 : i \in 1 .. m - 1
    OBVIOUS
  <2>4. \A i \in 1 .. L : y.file[i] = vcd.file[i]
    BY <1>8, <1>11, <2>1
  <2>5. \A i \in L + 1 .. m : y.file[i].flush = vcd.flushes
    BY <1>8, <1>10, <1>11, <2>2, <2>3
  <2>6. QED  BY <1>5, <1>6, <1>9, <1>a, <1>11, <1>14, <2>4, <2>5, Zenon DEF LoopFile
<1>16. ASSUME ~vcd.reset
       PROVE  StampPart(y.file, L + 1, m, y.old, y.seen, vcd.start)
  <2> DEFINE N == Stamp(vcd.start, y.file[m].when)
  <2>1. \A i \in 1 .. m : y.file[i] \in VcdLine /\ y.file[i].when \in 0 .. MaxNow
                          /\ y.file[i].at \in Int /\ i \in Nat
    <3>1. \A i \in 1 .. m : y.file[i] \in VcdLine /\ i \in Nat
      BY <1>11
    <3>2. QED  BY <3>1 DEF VcdLine
  <2>2. \A i \in 1 .. m : y.file[i].when = vcd.offered[i].when
    <3>1. \A z : VO!Noted(z).when = z.when
      BY DEF VO!Noted
    <3>2. QED  BY <1>14, <3>1, Zenon
  <2>3. Len(vcd.offered) \in Nat /\ m <= Len(vcd.offered)
    <3>1. Len(vcd.offered) = L + Len(vcd.log)
      BY <1>1, <1>5 DEF VcdLengths
    <3>2. QED  BY <1>3, <1>6, <3>1
  <2>4. \A i \in 1 .. m : i \in 1 .. Len(vcd.offered)
    BY <2>3
  <2>5. \A i \in 1 .. m : vcd.start <= y.file[i].when
    BY <1>1, <1>16, <2>2, <2>4 DEF VcdTimes
  <2>6. \A i \in 1 .. m : y.file[i].when <= y.file[m].when
    <3>1. SUFFICES ASSUME NEW i \in 1 .. m
                   PROVE  y.file[i].when <= y.file[m].when
      OBVIOUS
    <3>2. CASE i = m
      BY <1>7, <2>1, <3>2
    <3>3. CASE i # m
      <4>1. i < m
        BY <3>3
      <4>2. vcd.offered[i].when <= vcd.offered[m].when
        BY <1>1, <1>7, <1>16, <2>4, <4>1 DEF VcdTimes
      <4>3. QED  BY <1>7, <2>2, <4>2
    <3>4. QED  BY <3>2, <3>3
  <2>7. \A i \in 1 .. m : Stamp(vcd.start, y.file[i].when) \in Nat
                          /\ Stamp(vcd.start, y.file[i].when) % Width
                               = Stamp(vcd.start, y.file[i].when)
    BY <1>2, <2>1, <2>5, StampIs
  <2>8. \A i \in 1 .. m : y.file[i].when = y.file[m].when
                          \/ Stamp(vcd.start, y.file[i].when) + 2 <= N
    <3>1. SUFFICES ASSUME NEW i \in 1 .. m, y.file[i].when # y.file[m].when
                   PROVE  Stamp(vcd.start, y.file[i].when) + 2 <= N
      OBVIOUS
    <3>2. y.file[i].when \in 0 .. MaxNow /\ y.file[m].when \in 0 .. MaxNow
          /\ vcd.start <= y.file[i].when /\ y.file[i].when <= y.file[m].when
      BY <1>7, <2>1, <2>5, <2>6
    <3>3. y.file[i].when < y.file[m].when
      <4>1. \A a, b \in 0 .. MaxNow : a <= b /\ a # b => a < b
        <5>1. MaxNow \in Nat
          BY DEF VO!WellFormed
        <5>2. QED  BY <5>1
      <4>2. QED  BY <3>1, <3>2, <4>1, Zenon
    <3> HIDE DEF N
    <3>4. QED  BY <1>2, <3>2, <3>3, StampsApart DEF N
  <2>9. VO!Nsec(l.when) = N /\ y.file[m].sig = l.sig /\ y.file[m].at = at
        /\ y.file[m].flush = vcd.flushes
    <3>1. y.file[m].when = l.when
      BY <1>10, <1>11
    <3>2. VO!Nsec(l.when) = N % Width
      BY <3>1 DEF VO!Nsec, Stamp
    <3>3. QED  BY <1>7, <1>10, <1>11, <2>7, <3>2
  <2>10. \A i \in 1 .. (L + 1) - 1 : y.file[i].flush < vcd.flushes
    <3>1. (L + 1) - 1 = L
      OBVIOUS
    <3>2. \A i \in 1 .. L : y.file[i] = vcd.file[i]
      <4>1. \A i \in 1 .. L : i \in 1 .. m - 1
        BY <1>7
      <4>2. QED  BY <1>8, <1>11, <4>1
    <3>3. QED  BY <1>1, <1>5, <3>1, <3>2 DEF VcdWhole
  <2>11. StampPart(x.file, L + 1, m - 1, x.old, x.seen, vcd.start)
    BY <1>5, <1>7, <1>16 DEF LoopStamps
  <2>12. base = VO!Fudged(N, [old |-> x.old, seen |-> x.seen, file |-> x.file], y.file[m].sig)
    BY <2>9 DEF VO!Fudged
  <2>13. stamps \in BOOLEAN /\ (stamps <=> base > x.old \/ x.seen = {})
    OBVIOUS
  <2>14. y.file[m].at = (IF stamps THEN base ELSE x.old)
    BY <2>9 DEF at
  <2> DEFINE F == y.file
             G == x.file
             o == x.old
             s == x.seen
             st == vcd.start
             fl == vcd.flushes
  <2>15. /\ \A i \in 1 .. m : Stamp(st, F[i].when) \in Nat /\ F[i].at \in Int
         /\ \A i \in 1 .. m : F[i].when = F[m].when
                              \/ Stamp(st, F[i].when) + 2 <= Stamp(st, F[m].when)
         /\ \A i \in 1 .. m - 1 : F[i] = G[i]
         /\ \A i \in 1 .. (L + 1) - 1 : F[i].flush < fl
         /\ F[m].flush = fl /\ o \in Int /\ fl \in Nat
         /\ StampPart(G, L + 1, m - 1, o, s, st)
         /\ base = VO!Fudged(Stamp(st, F[m].when), [old |-> o, seen |-> s, file |-> G], F[m].sig)
         /\ stamps \in BOOLEAN /\ (stamps <=> base > o \/ s = {})
         /\ F[m].at = (IF stamps THEN base ELSE o)
    BY <1>2, <1>8, <1>11, <2>1, <2>7, <2>8, <2>9, <2>10, <2>11, <2>12, <2>13, <2>14
  <2> HIDE DEF F, G, o, s, st, fl, base, stamps
  <2>16. StampPart(F, L + 1, m, F[m].at, {F[m].sig} \cup (IF stamps THEN {} ELSE s), st)
    <3>1. L + 1 \in Nat /\ L + 1 <= m /\ L + 1 >= 1
      BY <1>7
    <3>2. QED  BY <2>15, <3>1, NextLineShows, ZenonT(30)
  <2>17. y.old = F[m].at /\ y.seen = {F[m].sig} \cup (IF stamps THEN {} ELSE s)
    BY <1>a, <2>9 DEF F, s, told
  <2>18. QED  BY <2>16, <2>17 DEF F, st
<1>17. LoopStamps(y, n)
  BY <1>5, <1>6, <1>16 DEF LoopStamps
<1>18. QED  BY <1>15, <1>17 DEF y

LEMMA LoopHolds ==
    ASSUME VO!WellFormed, VcdInv(vcd), vcd.out, NEW f, IsAfter(f, Len(vcd.log))
    PROVE  LoopFile(f[Len(vcd.log)], Len(vcd.log)) /\ LoopStamps(f[Len(vcd.log)], Len(vcd.log))
<1> DEFINE Wrong == {n \in Nat : n <= Len(vcd.log)
                                 /\ ~(LoopFile(f[n], n) /\ LoopStamps(f[n], n))}
<1>1. Len(vcd.log) \in Nat
  BY DEF VcdInv, VcdRecord
<1>2. ASSUME Wrong # {}
      PROVE  FALSE
  <2>1. PICK n \in Wrong : \A m \in Wrong : n <= m
    BY <1>2, LeastExists
  <2>2. n \in Nat /\ n <= Len(vcd.log) /\ ~(LoopFile(f[n], n) /\ LoopStamps(f[n], n))
    BY <2>1
  <2>3. n # 0
    BY <2>2, LoopBegins DEF IsAfter
  <2>4. n - 1 \in Nat /\ n - 1 <= Len(vcd.log) /\ ~(n <= n - 1) /\ n \in 1 .. Len(vcd.log)
    BY <1>1, <2>2, <2>3
  <2>5. LoopFile(f[n - 1], n - 1) /\ LoopStamps(f[n - 1], n - 1)
    BY <2>1, <2>4
  <2>6. f[n] = VO!Written(f[n - 1], vcd.log[n])
    BY <2>4 DEF IsAfter
  <2>7. QED  BY <2>2, <2>4, <2>5, <2>6, LoopGoesOn
<1>3. QED  BY <1>1, <1>2

-----------------------------------------------------------------------------
\* avr_vcd_flush_log
LEMMA FlushHolds ==
    ASSUME VO!WellFormed, VcdInv(vcd)
    PROVE  /\ VcdInv(VO!Flushed(vcd))
           /\ VO!Flushed(vcd).out = vcd.out /\ VO!Flushed(vcd).cycle = vcd.cycle
           /\ VO!Flushed(vcd).reset = vcd.reset /\ VO!Flushed(vcd).start = vcd.start
           /\ VO!Flushed(vcd).offered = vcd.offered /\ VO!Flushed(vcd).timed = vcd.timed
           /\ vcd.out => VO!Flushed(vcd).log = <<>>
<1>1. /\ vcd \in VcdRecord /\ VcdLengths(vcd) /\ VcdWhole(vcd) /\ VcdTimes(vcd)
      /\ VcdPulses(vcd) /\ VcdTimed(vcd)
  BY DEF VcdInv
<1>2. CASE vcd.log = <<>> \/ ~vcd.out
  <2>1. VO!Flushed(vcd) = vcd
    BY <1>2 DEF VO!Flushed
  <2>2. QED  BY <1>2, <2>1
<1>3. CASE vcd.log # <<>> /\ vcd.out
  <2>1. vcd.log \in Seq(VcdEntry) /\ vcd.file \in Seq(VcdLine) /\ vcd.flushes \in Nat
    BY <1>1 DEF VcdRecord
  <2>2. PICK f : /\ IsAfter(f, Len(vcd.log))
                 /\ VO!Flushed(vcd) = [vcd EXCEPT !.log = <<>>, !.flushes = @ + 1,
                                                  !.file = f[Len(vcd.log)].file]
    BY <1>3, <2>1, FlushedIs, Zenon
  <2> DEFINE x == f[Len(vcd.log)]
             t == VO!Flushed(vcd)
             fl == vcd.flushes + 1
  <2>3. LoopFile(x, Len(vcd.log)) /\ LoopStamps(x, Len(vcd.log))
    BY <1>3, <2>2, LoopHolds
  <2>4. t = [vcd EXCEPT !.log = <<>>, !.flushes = fl, !.file = x.file]
    BY <2>2
  <2>5. PICK L \in Nat : L = Len(vcd.file)
    BY <2>1
  <2>6. PICK N \in Nat : N = Len(vcd.log) /\ N # 0
    BY <1>3, <2>1
  <2>7. PICK M \in Nat : M = L + N /\ L < M
    BY <2>6
  <2>8. /\ x.file \in Seq(VcdLine) /\ Len(x.file) = M
        /\ \A i \in 1 .. L : x.file[i] = vcd.file[i]
        /\ \A i \in L + 1 .. M : x.file[i].flush = vcd.flushes
        /\ \A i \in 1 .. M : vcd.offered[i] = VO!Noted(x.file[i])
    BY <2>3, <2>5, <2>6, <2>7, Zenon DEF LoopFile
  <2>9. ~vcd.reset => StampPart(x.file, L + 1, M, x.old, x.seen, vcd.start)
    BY <2>3, <2>5, <2>6, <2>7, Zenon DEF LoopStamps
  <2> DEFINE F == x.file
             o == x.old
             s == x.seen
  <2>10. /\ F \in Seq(VcdLine) /\ Len(F) = M
         /\ \A i \in 1 .. L : F[i] = vcd.file[i]
         /\ \A i \in L + 1 .. M : F[i].flush = vcd.flushes
         /\ \A i \in 1 .. M : vcd.offered[i] = VO!Noted(F[i])
         /\ ~vcd.reset => StampPart(F, L + 1, M, o, s, vcd.start)
    BY <2>8, <2>9
  <2>11. t = [vcd EXCEPT !.log = <<>>, !.flushes = fl, !.file = F]
    BY <2>4
  <2> HIDE DEF x, F, o, s, t
  <2>12. /\ t \in VcdRecord
         /\ t.out = vcd.out /\ t.cycle = vcd.cycle /\ t.reset = vcd.reset
         /\ t.start = vcd.start /\ t.offered = vcd.offered /\ t.timed = vcd.timed
         /\ t.log = <<>> /\ t.file = F /\ t.flushes = fl
    <3>1. fl \in Nat /\ <<>> \in Seq(VcdEntry)
      BY <2>1
    <3> HIDE DEF fl
    <3>2. QED  BY <1>1, <2>10, <2>11, <3>1 DEF VcdRecord
  <2>13. VcdLengths(t)
    <3>1. /\ Len(vcd.offered) = L + N /\ Len(vcd.offered) <= MaxChanges
          /\ vcd.flushes <= L
      BY <1>1, <2>5, <2>6 DEF VcdLengths
    <3>2. LogRoom \in Nat /\ Len(<<>>) = 0
      BY DEF VO!WellFormed
    <3>3. fl <= M /\ M = M + 0 /\ 0 <= LogRoom
      BY <2>1, <2>7, <3>1, <3>2
    <3> HIDE DEF fl
    <3>4. QED  BY <2>7, <2>10, <2>12, <3>1, <3>2, <3>3, Zenon DEF VcdLengths
  <2>14. VcdWhole(t)
    <3>1. \A i \in 1 .. M : F[i].flush < fl
      <4>1. \A i \in 1 .. M : i \in 1 .. L \/ i \in L + 1 .. M
        OBVIOUS
      <4>2. \A i \in 1 .. L : F[i].flush < fl
        <5>1. SUFFICES ASSUME NEW i \in 1 .. L
                       PROVE  F[i].flush < fl
          OBVIOUS
        <5>2. vcd.file[i].flush < vcd.flushes
          BY <1>1, <2>5 DEF VcdWhole
        <5>3. vcd.file[i] \in VcdLine
          BY <2>1, <2>5
        <5>4. vcd.file[i].flush \in Nat
          BY <5>3 DEF VcdLine
        <5>5. QED  BY <2>1, <2>10, <5>2, <5>4
      <4>3. vcd.flushes < fl
        BY <2>1
      <4> HIDE DEF fl
      <4>4. QED  BY <2>10, <4>1, <4>2, <4>3
    <3> HIDE DEF fl
    <3>2. \A k \in 1 .. Len(t.log) : FALSE
      <4>1. Len(<<>>) = 0 /\ 1 .. 0 = {}
        OBVIOUS
      <4>2. QED  BY <2>12, <4>1, Zenon
    <3>3. QED  BY <2>10, <2>12, <3>1, <3>2, Zenon DEF VcdWhole
  <2>15. VcdTimes(t)
    BY <1>1, <2>12, Zenon DEF VcdTimes
  <2>16. VcdPulses(t)
    BY <2>10, <2>12, Zenon DEF VcdPulses, StampPart
  <2>17. VcdTimed(t)
    BY <1>1, <2>12, Zenon DEF VcdTimed
  <2>18. VcdInv(t) /\ (vcd.out => t.log = <<>>)
    BY <2>12, <2>13, <2>14, <2>15, <2>16, <2>17 DEF VcdInv
  <2>19. QED  BY <2>12, <2>18 DEF t
<1>4. QED  BY <1>2, <1>3

\* _avr_vcd_notify, with room in the log.
LEMMA AppendHolds ==
    ASSUME VO!WellFormed, NEW e, VcdInv(e), e.out, Len(e.log) < LogRoom,
           Len(e.offered) < MaxChanges, NEW sig \in Signals, NEW c \in VcdEntry,
           c = [sig |-> sig, when |-> e.cycle],
           NEW t, t = [e EXCEPT !.log = Append(@, c), !.offered = Append(@, c)]
    PROVE  VcdInv(t)
<1>1. /\ e \in VcdRecord /\ VcdLengths(e) /\ VcdWhole(e) /\ VcdTimes(e)
      /\ VcdPulses(e) /\ VcdTimed(e)
  BY DEF VcdInv
<1>2. e.log \in Seq(VcdEntry) /\ e.offered \in Seq(VcdEntry) /\ e.cycle \in 0 .. MaxNow
      /\ e.file \in Seq(VcdLine) /\ e.start \in 0 .. MaxNow
  BY <1>1 DEF VcdRecord
<1> DEFINE p == e.log
           o == e.offered
           pc == Append(p, c)
           oc == Append(o, c)
<1>3. p \in Seq(VcdEntry) /\ o \in Seq(VcdEntry)
  BY <1>2
<1>4. t = [e EXCEPT !.log = pc, !.offered = oc]
  OBVIOUS
<1>5. p = e.log /\ o = e.offered
  OBVIOUS
<1> HIDE DEF p, o
<1>6. /\ pc \in Seq(VcdEntry) /\ Len(pc) = Len(p) + 1 /\ pc[Len(p) + 1] = c
      /\ \A i \in 1 .. Len(p) : pc[i] = p[i]
      /\ oc \in Seq(VcdEntry) /\ Len(oc) = Len(o) + 1 /\ oc[Len(o) + 1] = c
      /\ \A i \in 1 .. Len(o) : oc[i] = o[i]
  BY <1>3, AppendProperties
<1> HIDE DEF pc, oc
<1>7. /\ t \in VcdRecord /\ t.out = e.out /\ t.timed = e.timed /\ t.cycle = e.cycle
      /\ t.reset = e.reset /\ t.start = e.start /\ t.file = e.file /\ t.flushes = e.flushes
      /\ t.log = pc /\ t.offered = oc
  BY <1>1, <1>4, <1>6 DEF VcdRecord
<1>8. PICK P \in Nat : P = Len(p)
  BY <1>3
<1>9. PICK F \in Nat : F = Len(e.file)
  BY <1>2
<1>10. PICK O \in Nat : O = Len(o)
  BY <1>3
<1>11. O = F + P /\ O + 1 = F + (P + 1) /\ O < MaxChanges /\ P < LogRoom /\ e.flushes <= F
  <2>1. O = F + P /\ O < MaxChanges /\ P < LogRoom /\ e.flushes <= F
    BY <1>1, <1>5, <1>8, <1>9, <1>10, Zenon DEF VcdLengths
  <2>2. QED  BY <2>1
<1>12. VcdLengths(t)
  <2>1. O + 1 <= MaxChanges /\ P + 1 <= LogRoom
    BY <1>11 DEF VO!WellFormed
  <2>2. QED  BY <1>6, <1>7, <1>8, <1>9, <1>10, <1>11, <2>1, Zenon DEF VcdLengths
<1>13. \A i \in 1 .. O + 1 : i = O + 1 \/ i \in 1 .. O
  OBVIOUS
<1>14. VcdWhole(t)
  <2>1. \A i \in 1 .. F : i \in 1 .. O
    BY <1>11
  <2>2. \A i \in 1 .. F : oc[i] = VO!Noted(e.file[i])
    BY <1>1, <1>5, <1>6, <1>9, <1>10, <2>1, Zenon DEF VcdWhole
  <2>3. \A k \in 1 .. P + 1 : k = P + 1 \/ (k \in 1 .. P /\ F + k \in 1 .. O)
    BY <1>11
  <2>4. \A k \in 1 .. P + 1 : oc[F + k] = pc[k]
    <3>1. oc[F + (P + 1)] = pc[P + 1]
      BY <1>6, <1>8, <1>10, <1>11, Zenon
    <3>2. \A k \in 1 .. P : F + k \in 1 .. O => oc[F + k] = pc[k]
      BY <1>1, <1>5, <1>6, <1>8, <1>9, <1>10, Zenon DEF VcdWhole
    <3>3. QED  BY <2>3, <3>1, <3>2, Zenon
  <2>5. \A i \in 1 .. F : e.file[i].flush < e.flushes
    BY <1>1, <1>9, Zenon DEF VcdWhole
  <2>6. t.out
    BY <1>7
  <2>7. Len(t.file) = F /\ Len(t.log) = P + 1
    BY <1>6, <1>7, <1>8, <1>9, Zenon
  <2>8. /\ t.offered = oc /\ t.log = pc /\ t.file = e.file /\ t.flushes = e.flushes
    BY <1>7
  <2>9. QED  BY <2>2, <2>4, <2>5, <2>6, <2>7, <2>8 DEF VcdWhole
<1>15. VcdTimes(t)
  <2>1. SUFFICES ASSUME ~e.reset
                 PROVE  /\ e.start <= e.cycle
                        /\ \A i \in 1 .. O + 1 : e.start <= oc[i].when
                        /\ \A i \in 1 .. O + 1 : oc[i].when <= e.cycle
                        /\ \A i, j \in 1 .. O + 1 : i < j => oc[i].when <= oc[j].when
    BY <1>6, <1>7, <1>10, Zenon DEF VcdTimes
  <2>2. /\ e.start <= e.cycle
        /\ \A i \in 1 .. O : e.start <= o[i].when
        /\ \A i \in 1 .. O : o[i].when <= e.cycle
        /\ \A i, j \in 1 .. O : i < j => o[i].when <= o[j].when
    BY <1>1, <1>5, <1>10, <2>1, Zenon DEF VcdTimes
  <2>3. oc[O + 1].when = e.cycle /\ e.cycle <= e.cycle /\ \A i \in 1 .. O : oc[i] = o[i]
    BY <1>2, <1>6, <1>10
  <2>4. \A i, j \in 1 .. O + 1 : i < j => i \in 1 .. O
    BY <1>10
  <2>5. \A i \in 1 .. O + 1 : e.start <= oc[i].when
    BY <1>13, <2>2, <2>3, Zenon
  <2>6. \A i \in 1 .. O + 1 : oc[i].when <= e.cycle
    BY <1>13, <2>2, <2>3, Zenon
  <2>7. \A i, j \in 1 .. O + 1 : i < j => oc[i].when <= oc[j].when
    <3>1. SUFFICES ASSUME NEW i \in 1 .. O + 1, NEW j \in 1 .. O + 1, i < j
                   PROVE  oc[i].when <= oc[j].when
      OBVIOUS
    <3>2. i \in 1 .. O
      BY <2>4, <3>1
    <3>3. CASE j = O + 1
      BY <2>3, <2>6, <3>3, Zenon
    <3>4. CASE j \in 1 .. O
      BY <2>2, <2>3, <3>1, <3>2, <3>4, Zenon
    <3>5. QED  BY <1>13, <3>3, <3>4
  <2>8. QED  BY <2>2, <2>5, <2>6, <2>7
<1>16. VcdPulses(t) /\ VcdTimed(t)
  BY <1>1, <1>7, Zenon DEF VcdPulses, VcdTimed
<1>17. QED  BY <1>7, <1>12, <1>14, <1>15, <1>16 DEF VcdInv

LEMMA VcdKeeps ==
    ASSUME VO!WellFormed, VcdInv(vcd), VO!Next
    PROVE  VcdInv(vcd')
<1>1. /\ vcd \in VcdRecord /\ VcdLengths(vcd) /\ VcdWhole(vcd) /\ VcdTimes(vcd)
      /\ VcdPulses(vcd) /\ VcdTimed(vcd)
  BY DEF VcdInv
<1>2. /\ vcd.out \in BOOLEAN /\ vcd.reset \in BOOLEAN /\ vcd.timed \in BOOLEAN
      /\ vcd.start \in 0 .. MaxNow /\ vcd.cycle \in 0 .. MaxNow /\ MaxNow \in Nat
  BY <1>1 DEF VcdRecord, VO!WellFormed
<1>3. ASSUME VO!FlushTimer
      PROVE  VcdInv(vcd')
  BY <1>3, FlushHolds DEF VO!FlushTimer
<1>4. ASSUME VO!Start
      PROVE  VcdInv(vcd')
  <2>1. vcd' = [vcd EXCEPT !.out = TRUE, !.timed = TRUE, !.start = vcd.cycle, !.log = <<>>,
                           !.file = <<>>, !.flushes = 0, !.offered = <<>>, !.reset = FALSE]
    BY <1>4 DEF VO!Start
  <2>2. /\ vcd' \in VcdRecord /\ vcd'.log = <<>> /\ vcd'.file = <<>> /\ vcd'.offered = <<>>
        /\ vcd'.flushes = 0 /\ vcd'.out = TRUE /\ vcd'.timed = TRUE /\ vcd'.reset = FALSE
        /\ vcd'.start = vcd.cycle /\ vcd'.cycle = vcd.cycle
    <3>1. <<>> \in Seq(VcdEntry) /\ <<>> \in Seq(VcdLine) /\ 0 \in Nat
      OBVIOUS
    <3>2. vcd' \in VcdRecord
      BY <1>1, <1>2, <2>1, <3>1, Zenon DEF VcdRecord
    <3>3. QED  BY <1>1, <2>1, <3>2 DEF VcdRecord
  <2>3. vcd'.start <= vcd'.cycle
    BY <1>2, <2>2
  <2>4. VcdTimed(vcd')
    BY <2>2 DEF VcdTimed
  <2>5. QED  BY <2>2, <2>3, <2>4, VcdEmptyHolds
<1>5. ASSUME VO!Stop
      PROVE  VcdInv(vcd')
  <2> DEFINE e == VO!Flushed(vcd)
  <2>1. vcd.out /\ vcd' = [e EXCEPT !.out = FALSE, !.timed = FALSE]
    BY <1>5 DEF VO!Stop, VO!Closing
  <2>2. VcdInv(e) /\ e.log = <<>>
    BY <2>1, FlushHolds
  <2> HIDE DEF e
  <2>3. e \in VcdRecord
    BY <2>2 DEF VcdInv
  <2>4. /\ vcd' \in VcdRecord /\ vcd'.log = <<>> /\ vcd'.log = e.log /\ vcd'.file = e.file
        /\ vcd'.offered = e.offered /\ vcd'.flushes = e.flushes /\ vcd'.out = FALSE
        /\ vcd'.timed = FALSE /\ vcd'.reset = e.reset /\ vcd'.start = e.start
        /\ vcd'.cycle = e.cycle
    BY <2>1, <2>2, <2>3 DEF VcdRecord
  <2>5. VcdLengths(vcd') /\ VcdWhole(vcd')
    BY <2>2, <2>4, Zenon DEF VcdInv, VcdLengths, VcdWhole
  <2>6. VcdTimes(vcd')
    BY <2>2, <2>4, Zenon DEF VcdInv, VcdTimes
  <2>7. VcdPulses(vcd') /\ VcdTimed(vcd')
    BY <2>2, <2>4, Zenon DEF VcdInv, VcdPulses, VcdTimed
  <2>8. QED  BY <2>4, <2>5, <2>6, <2>7 DEF VcdInv
<1>6. ASSUME VO!Reset
      PROVE  VcdInv(vcd')
  <2>1. /\ vcd' \in VcdRecord /\ vcd'.log = vcd.log /\ vcd'.file = vcd.file
        /\ vcd'.offered = vcd.offered /\ vcd'.flushes = vcd.flushes /\ vcd'.out = vcd.out
        /\ vcd'.timed = FALSE /\ vcd'.start = vcd.start
        /\ vcd'.reset = (vcd.reset \/ vcd.out)
    <3> DEFINE w == vcd.reset \/ vcd.out
    <3>1. vcd' = [vcd EXCEPT !.timed = FALSE, !.cycle = 0, !.reset = w]
      BY <1>6 DEF VO!Reset
    <3>2. w \in BOOLEAN /\ 0 \in 0 .. MaxNow
      BY <1>2
    <3> HIDE DEF w
    <3>3. vcd' \in VcdRecord
      BY <1>1, <3>1, <3>2 DEF VcdRecord
    <3>4. QED  BY <1>1, <3>1, <3>3, Zenon DEF VcdRecord, w
  <2>2. VcdLengths(vcd') /\ VcdWhole(vcd')
    BY <1>1, <2>1, Zenon DEF VcdLengths, VcdWhole
  <2>3. ~vcd'.reset => ~vcd.reset /\ ~vcd'.out
    BY <1>2, <2>1
  <2>4. VcdTimes(vcd')
    BY <1>1, <2>1, <2>3, Zenon DEF VcdTimes
  <2>5. VcdPulses(vcd')
    BY <1>1, <2>1, <2>3, Zenon DEF VcdPulses
  <2>6. VcdTimed(vcd')
    BY <2>1, <2>3 DEF VcdTimed
  <2>7. QED  BY <2>1, <2>2, <2>4, <2>5, <2>6 DEF VcdInv
<1>7. ASSUME VO!Pass
      PROVE  VcdInv(vcd')
  <2>1. /\ vcd' \in VcdRecord /\ vcd'.log = vcd.log /\ vcd'.file = vcd.file
        /\ vcd'.offered = vcd.offered /\ vcd'.flushes = vcd.flushes /\ vcd'.out = vcd.out
        /\ vcd'.timed = vcd.timed /\ vcd'.start = vcd.start /\ vcd'.reset = vcd.reset
        /\ vcd'.cycle = vcd.cycle + 1
    <3> DEFINE w == vcd.cycle + 1
    <3>1. vcd' = [vcd EXCEPT !.cycle = w]
      BY <1>7 DEF VO!Pass
    <3>2. w \in 0 .. MaxNow
      BY <1>2, <1>7 DEF VO!Pass
    <3> HIDE DEF w
    <3>3. vcd' \in VcdRecord
      BY <1>1, <3>1, <3>2 DEF VcdRecord
    <3>4. QED  BY <1>1, <3>1, <3>3, Zenon DEF VcdRecord, w
  <2>2. VcdLengths(vcd') /\ VcdWhole(vcd') /\ VcdPulses(vcd') /\ VcdTimed(vcd')
    BY <1>1, <2>1, Zenon DEF VcdLengths, VcdWhole, VcdPulses, VcdTimed
  <2>3. \A w \in 0 .. MaxNow : w <= vcd.cycle => w <= vcd.cycle + 1
    BY <1>2
  <2>4. \A i \in 1 .. Len(vcd.offered) : vcd.offered[i].when \in 0 .. MaxNow
    <3>1. vcd.offered \in Seq(VcdEntry)
      BY <1>1 DEF VcdRecord
    <3>2. \A i \in 1 .. Len(vcd.offered) : vcd.offered[i] \in VcdEntry
      BY <3>1
    <3>3. QED  BY <3>2 DEF VcdEntry
  <2>5. VcdTimes(vcd')
    BY <1>1, <1>2, <2>1, <2>3, <2>4, Zenon DEF VcdTimes
  <2>6. QED  BY <2>1, <2>2, <2>5 DEF VcdInv
<1>8. ASSUME NEW sig \in Signals, VO!Change(sig)
      PROVE  VcdInv(vcd')
  <2> DEFINE e == VO!Emptied(vcd)
             c == [sig |-> sig, when |-> vcd.cycle]
  <2>1. CASE ~vcd.out
    BY <1>8, <2>1 DEF VO!Change
  <2>2. CASE vcd.out
    <3>1. VcdInv(e) /\ e.out /\ e.cycle = vcd.cycle /\ e.offered = vcd.offered
          /\ Len(e.log) < LogRoom
      <4>1. CASE Len(vcd.log) = LogRoom
        <5>1. e = VO!Flushed(vcd)
          BY <4>1 DEF VO!Emptied
        <5>2. Len(<<>>) = 0 /\ 0 < LogRoom
          BY DEF VO!WellFormed
        <5> HIDE DEF e
        <5>3. QED  BY <2>2, <5>1, <5>2, FlushHolds
      <4>2. CASE Len(vcd.log) # LogRoom
        <5>1. e = vcd
          BY <4>2 DEF VO!Emptied
        <5>2. Len(vcd.log) < LogRoom
          <6>1. PICK P \in Nat : P = Len(vcd.log)
            BY <1>1 DEF VcdRecord
          <6>2. P <= LogRoom
            BY <1>1, <6>1 DEF VcdLengths
          <6>3. QED  BY <4>2, <6>1, <6>2 DEF VO!WellFormed
        <5> HIDE DEF e
        <5>3. QED  BY <2>2, <5>1, <5>2
      <4>3. QED  BY <4>1, <4>2
    <3>2. Len(e.offered) < MaxChanges
          /\ vcd' = [e EXCEPT !.log = Append(@, c), !.offered = Append(@, c)]
      <4>1. Len(vcd.offered) < MaxChanges
            /\ vcd' = [e EXCEPT !.log = Append(@, c), !.offered = Append(@, c)]
        BY <1>8, <2>2 DEF VO!Change
      <4> HIDE DEF e, c
      <4>2. QED  BY <3>1, <4>1
    <3>3. c \in VcdEntry /\ c = [sig |-> sig, when |-> e.cycle]
      <4>1. c \in VcdEntry
        BY <1>2 DEF VcdEntry
      <4> HIDE DEF e
      <4>2. QED  BY <3>1, <4>1
    <3> HIDE DEF e, c
    <3>4. QED  BY <3>1, <3>2, <3>3, AppendHolds, Zenon
  <2>3. QED  BY <1>2, <2>1, <2>2
<1>9. QED  BY <1>3, <1>4, <1>5, <1>6, <1>7, <1>8 DEF VO!Next

-----------------------------------------------------------------------------
(* The real time counter counts in every cycle *)

RtcPeriod == (per + 1) * cpt
RtcMatch == cmp * cpt

\* The cycles of the period that runs, and those passed since it ended.
RtcSpan == IF target > per THEN RtcPeriod - due ELSE age

\* The timer waits for the next match or the wrap; what lies before it is passed.
\* Past PER it waits one cycle.
RtcCounting ==
    on => /\ target = per + 1 \/ (target = cmp /\ cmp \in 1 .. per)
          /\ target > per /\ cmp <= per => RtcMatch <= RtcSpan
          /\ \/ due = target * cpt - age
             \/ target > per /\ due <= 1 /\ (due = 1 => age >= RtcPeriod)

LEMMA RtcNumbers ==
    ASSUME RtcInv
    PROVE  /\ RtcPeriod \in Nat /\ RtcMatch \in Nat /\ RtcPeriod >= 1
           /\ cpt \in Nat /\ cpt >= 1 /\ per \in Nat /\ cmp \in Nat /\ target \in Nat
           /\ age \in Nat /\ due \in Int /\ Overshoot \in Nat /\ RT!Most \in Nat
           /\ cmp <= per => RtcMatch + cpt <= RtcPeriod
           /\ cmp > per => RtcMatch >= RtcPeriod
           /\ (RtcMatch = 0 <=> cmp = 0)
<1>1. /\ RT!Most \in Nat /\ Counts = 0 .. RT!Most /\ Overshoot \in Nat
      /\ \A r \in Rates : r \in Nat /\ r >= 1
  BY RtcCounts DEF RtcInv
<1>2. /\ cpt \in Nat /\ cpt >= 1 /\ per \in Nat /\ cmp \in Nat /\ target \in Nat
      /\ age \in Nat /\ due \in Int
  BY <1>1 DEF RtcInv, RtcTiming, RtcRegisters
<1>3. (per + 1) * cpt \in Nat /\ cmp * cpt \in Nat
  BY <1>2, ProductIsNat
<1>4. 1 * cpt <= (per + 1) * cpt
  BY <1>2, ProductGrows
<1>5. cmp <= per => (cmp + 1) * cpt <= (per + 1) * cpt
  BY <1>2, ProductGrows
<1>6. (cmp + 1) * cpt = cmp * cpt + cpt
  BY <1>2
<1>7. cmp > per => (per + 1) * cpt <= cmp * cpt
  BY <1>2, ProductGrows
<1>8. cmp >= 1 => 1 * cpt <= cmp * cpt
  BY <1>2, ProductGrows
<1>9. 0 * cpt = 0 /\ 1 * cpt = cpt
  BY <1>2
<1>10. PICK C \in Nat, P \in Nat : C = cmp * cpt /\ P = (per + 1) * cpt
  BY <1>3
<1>11. /\ P >= 1 /\ (cmp <= per => C + cpt <= P) /\ (cmp > per => C >= P)
       /\ (C = 0 <=> cmp = 0)
  BY <1>2, <1>4, <1>5, <1>6, <1>7, <1>8, <1>9, <1>10
<1>12. RtcMatch = C /\ RtcPeriod = P
  BY <1>10 DEF RtcMatch, RtcPeriod
<1>13. QED  BY <1>1, <1>2, <1>11, <1>12

RtcCount == IF on THEN RT!Position \div cpt ELSE cnt
RtcInto == IF on THEN RT!Position % cpt ELSE 0
RtcFlags == flags \cup RT!Owed
RtcAsked == rtcPending \/ RT!Owed \cap inten # {}
RtcShow == <<on, rate, cpt, RtcCount, RtcInto, per, cmp, RtcFlags, inten, RtcAsked>>

\* CMP has happened by now: once, or in a period after a wrap.
RtcMatched ==
    cmp <= per /\ (IF target <= per THEN RtcSpan >= RtcMatch ELSE RtcSpan >= RtcPeriod + RtcMatch)

LEMMA RtcSpans ==
    ASSUME RtcInv, RtcCounting, on, due <= 0 \/ due = target * cpt - age
    PROVE  /\ RtcSpan \in Nat
           /\ target <= per => target = cmp /\ RtcSpan = age /\ due = RtcMatch - RtcSpan
           /\ target > per => due = RtcPeriod - RtcSpan
           /\ due > 0 => RtcSpan = age /\ RtcSpan < RtcPeriod
<1>1. /\ RtcPeriod \in Nat /\ RtcMatch \in Nat /\ RtcPeriod >= 1
      /\ cpt \in Nat /\ cpt >= 1 /\ per \in Nat /\ cmp \in Nat /\ target \in Nat
      /\ age \in Nat /\ due \in Int
      /\ cmp <= per => RtcMatch + cpt <= RtcPeriod
  BY RtcNumbers
<1>2. /\ target = per + 1 \/ (target = cmp /\ cmp \in 1 .. per)
      /\ \/ due = target * cpt - age
         \/ target > per /\ due <= 0
  BY <1>1 DEF RtcCounting
<1>3. CASE target <= per
  <2>1. target = cmp /\ RtcSpan = age /\ target * cpt = RtcMatch /\ due = RtcMatch - age
    BY <1>1, <1>2, <1>3 DEF RtcSpan, RtcMatch
  <2>2. due > 0 => age < RtcPeriod
    BY <1>1, <1>3, <2>1
  <2>3. QED  BY <1>1, <1>3, <2>1, <2>2
<1>4. CASE target > per
  <2>1. target = per + 1 /\ RtcSpan = RtcPeriod - due /\ target * cpt = RtcPeriod
    <3>1. target = per + 1
      BY <1>1, <1>2, <1>4
    <3>2. QED  BY <1>4, <3>1 DEF RtcSpan, RtcPeriod
  <2>2. due = RtcPeriod - age \/ due <= 0
    BY <1>2, <2>1
  <2>3. QED  BY <1>1, <1>4, <2>1, <2>2
<1>5. QED  BY <1>1, <1>3, <1>4

\* What the counter shows, from the cycles of its period.
LEMMA RtcShows2 ==
    ASSUME RtcInv, RtcCounting, on, due <= 0 \/ due = target * cpt - age
    PROVE  /\ RT!Position = RtcSpan % RtcPeriod
           /\ "OVF" \in RT!Owed <=> RtcSpan >= RtcPeriod
           /\ "CMP" \in RT!Owed <=> RtcMatched
<1>1. /\ RtcPeriod \in Nat \ {0} /\ RtcMatch \in Nat
      /\ cpt \in Nat /\ per \in Nat /\ cmp \in Nat /\ target \in Nat
      /\ age \in Nat /\ due \in Int /\ (cmp <= per => RtcMatch + cpt <= RtcPeriod)
      /\ (RtcMatch = 0 <=> cmp = 0)
  BY RtcNumbers
<1>2. /\ RtcSpan \in Nat
      /\ target <= per => target = cmp /\ RtcSpan = age /\ due = RtcMatch - RtcSpan
      /\ target > per => due = RtcPeriod - RtcSpan
      /\ due > 0 => RtcSpan = age /\ RtcSpan < RtcPeriod
  BY RtcSpans, Zenon
<1>3. RT!Wrapped = RtcSpan - RtcPeriod
  <2>1. RT!Wrapped = IF target > per THEN -due ELSE age - RtcPeriod
    BY DEF RT!Wrapped, RtcPeriod
  <2>2. QED  BY <1>1, <1>2, <2>1
<1>4. RT!HasWrapped <=> RtcSpan >= RtcPeriod
  <2>1. RT!HasWrapped <=> due <= 0 /\ RtcSpan - RtcPeriod >= 0
    BY <1>3 DEF RT!HasWrapped
  <2>2. RtcSpan >= RtcPeriod => due <= 0
    BY <1>1, <1>2
  <2>3. QED  BY <1>1, <1>2, <2>1, <2>2
<1>5. RT!HasMatched <=> RtcMatched
  <2>1. RT!HasMatched <=>
            due <= 0 /\ (target <= per \/ (RtcSpan >= RtcPeriod /\ cmp <= per /\ RtcMatch <= RtcSpan - RtcPeriod))
    BY <1>3, <1>4 DEF RT!HasMatched, RtcMatch
  <2>2. CASE target <= per
    BY <1>1, <1>2, <2>1, <2>2 DEF RtcMatched
  <2>3. CASE target > per
    BY <1>1, <1>2, <2>1, <2>3 DEF RtcMatched
  <2>4. QED  BY <1>1, <2>2, <2>3
<1>6. RT!Position = RtcSpan % RtcPeriod
  <2>1. CASE RtcSpan >= RtcPeriod
    <3>1. RT!Position = (RtcSpan - RtcPeriod) % RtcPeriod
      BY <1>3, <1>4, <2>1 DEF RT!Position, RtcPeriod
    <3>2. QED  BY <1>1, <1>2, <2>1, <3>1, RemainderOnce
  <2>2. CASE ~(RtcSpan >= RtcPeriod)
    <3>1. RT!Position = age
      BY <1>4, <2>2 DEF RT!Position
    <3>2. RtcSpan = age /\ RtcSpan < RtcPeriod
      BY <1>1, <1>2, <2>2
    <3>3. QED  BY <1>1, <1>2, <3>1, <3>2, RemainderOnce
  <2>3. QED  BY <2>1, <2>2
<1>7. ("OVF" \in RT!Owed <=> RT!HasWrapped) /\ ("CMP" \in RT!Owed <=> RT!HasMatched)
  BY DEF RT!Owed
<1>8. QED  BY <1>4, <1>5, <1>6, <1>7

RtcSeen == RtcInv /\ RtcCounting /\ on /\ (due <= 0 \/ due = target * cpt - age)
RtcView ==
    /\ RtcSpan \in Nat
    /\ target <= per => target = cmp /\ RtcSpan = age /\ due = RtcMatch - RtcSpan
    /\ target > per => due = RtcPeriod - RtcSpan
    /\ due > 0 => RtcSpan = age /\ RtcSpan < RtcPeriod
    /\ RT!Position = RtcSpan % RtcPeriod
    /\ "OVF" \in RT!Owed <=> RtcSpan >= RtcPeriod
    /\ "CMP" \in RT!Owed <=> RtcMatched

LEMMA RtcViews == RtcSeen => RtcView
BY RtcSpans, RtcShows2, Zenon DEF RtcSeen, RtcView

LEMMA RtcViewsNext == RtcSeen' => RtcView'
BY RtcViews, PTL

\* Nothing is owed while the timer waits.
LEMMA RtcOwesNothing ==
    ASSUME due \in Int, ~on \/ due > 0
    PROVE  RT!Owed = {} /\ (on => RT!Position = age)
BY DEF RT!Owed, RT!HasWrapped, RT!HasMatched, RT!Position

-----------------------------------------------------------------------------
(* A cycle passes *)

LEMMA RtcPassKeeps ==
    ASSUME RtcInv, RtcCounting, RT!Pass
    PROVE  /\ RtcCounting' /\ RtcSpan' = RtcSpan + 1 /\ on' /\ on
           /\ RtcPeriod' = RtcPeriod /\ RtcMatch' = RtcMatch
           /\ UNCHANGED <<on, rate, cpt, per, cmp, target, flags, inten, rtcPending>>
           /\ due <= 1 => due' <= 0
           /\ due = target * cpt - age => due' = target' * cpt' - age'
<1>1. /\ on /\ age' = age + 1 /\ due' = due - 1
      /\ UNCHANGED <<on, rate, per, cmp, cpt, target, flags, rtcPending, inten>>
  BY DEF RT!Pass, RT!settings, RT!request
<1>2. /\ RtcPeriod \in Nat /\ RtcMatch \in Nat /\ RtcPeriod >= 1
      /\ cpt \in Nat /\ target \in Nat /\ per \in Nat
      /\ age \in Nat /\ due \in Int
  BY RtcNumbers
<1>3. RtcPeriod' = RtcPeriod /\ RtcMatch' = RtcMatch
  BY <1>1 DEF RtcPeriod, RtcMatch
<1>4. RtcSpan' = RtcSpan + 1 /\ RtcSpan \in Int
  BY <1>1, <1>2, <1>3 DEF RtcSpan
<1>5. target * cpt \in Nat
  BY <1>2, ProductIsNat
<1>6. /\ due = target * cpt - age => due' = target' * cpt' - age'
      /\ target > per /\ due <= 1 => target' > per' /\ due' <= 0
  BY <1>1, <1>2, <1>5
<1>7. RtcCounting'
  <2>1. /\ target = per + 1 \/ (target = cmp /\ cmp \in 1 .. per)
        /\ target > per /\ cmp <= per => RtcMatch <= RtcSpan
        /\ \/ due = target * cpt - age
           \/ target > per /\ due <= 1
    BY <1>1 DEF RtcCounting
  <2>2. target' > per' /\ cmp' <= per' => RtcMatch' <= RtcSpan'
    BY <1>1, <1>2, <1>3, <1>4, <2>1
  <2>3. target' = per' + 1 \/ (target' = cmp' /\ cmp' \in 1 .. per')
    BY <1>1, <2>1
  <2>4. \/ due' = target' * cpt' - age'
        \/ target' > per' /\ due' <= 1 /\ (due' = 1 => age' >= RtcPeriod')
    <3>1. CASE due = target * cpt - age
      BY <1>6, <3>1
    <3>2. CASE target > per /\ due <= 1
      <4>1. target' > per' /\ due' <= 0 /\ due' \in Int
        BY <1>1, <1>2, <1>6, <3>2
      <4>2. QED  BY <4>1
    <3>3. QED  BY <2>1, <3>1, <3>2
  <2>5. QED  BY <2>2, <2>3, <2>4 DEF RtcCounting
<1>8. due <= 1 => due' <= 0
  BY <1>1, <1>2
<1>9. QED  BY <1>1, <1>3, <1>4, <1>6, <1>7, <1>8

\* The counter shows a cycle when the position moves on, with the event of the
\* count it reaches, or the period ends.
LEMMA PositionMovesOn ==
    ASSUME RtcInv, on, UNCHANGED <<on, rate, cpt, per, cmp, flags, inten, rtcPending>>,
           RT!Position \in Nat, NEW events \in SUBSET RT!Sources, RT!Owed' = RT!Owed \cup events,
           \/ /\ RT!Position + 1 < RtcPeriod /\ RT!Position' = RT!Position + 1
              /\ events = IF RT!Position + 1 = RtcMatch THEN {"CMP"} ELSE {}
           \/ /\ RT!Position + 1 >= RtcPeriod /\ RT!Position' = 0
              /\ events = {"OVF"} \cup (IF cmp = 0 THEN {"CMP"} ELSE {})
    PROVE  RT!Counter!Cycle
<1>1. /\ cpt \in Nat \ {0} /\ per \in Nat /\ cmp \in Nat
      /\ RtcPeriod \in Nat /\ RtcMatch \in Nat
  BY RtcNumbers
<1>2. PICK q \in Nat, r \in 0 .. cpt - 1 :
        /\ q = RT!Position \div cpt /\ r = RT!Position % cpt /\ RT!Position = q * cpt + r
        /\ r + 1 < cpt => (RT!Position + 1) \div cpt = q /\ (RT!Position + 1) % cpt = r + 1
        /\ r + 1 >= cpt => (RT!Position + 1) \div cpt = q + 1 /\ (RT!Position + 1) % cpt = 0
  BY <1>1, Divides, DividesNext
<1>3. RtcCount = q /\ RtcInto = r
  BY <1>2 DEF RtcCount, RtcInto
<1>4. RtcFlags' = RtcFlags \cup events /\ RtcAsked' = (RtcAsked \/ events \cap inten # {})
  BY DEF RtcFlags, RtcAsked
<1>5. q * cpt \in Nat /\ (q + 1) * cpt = q * cpt + cpt /\ per * cpt \in Nat
      /\ RtcPeriod = per * cpt + cpt
  BY <1>1 DEF RtcPeriod
<1>6. CASE /\ RT!Position + 1 < RtcPeriod /\ RT!Position' = RT!Position + 1
           /\ events = IF RT!Position + 1 = RtcMatch THEN {"CMP"} ELSE {}
  <2>1. q <= per
    <3>1. q * cpt < (per + 1) * cpt
      BY <1>1, <1>2, <1>5, <1>6 DEF RtcPeriod
    <3>2. ASSUME q >= per + 1 PROVE (per + 1) * cpt <= q * cpt
      BY <1>1, <3>2, ProductGrows
    <3>3. (per + 1) * cpt \in Nat
      BY <1>1 DEF RtcPeriod
    <3>4. QED  BY <1>1, <1>5, <3>1, <3>2, <3>3
  <2>2. CASE r + 1 < cpt
    <3>1. RtcCount' = q /\ RtcInto' = r + 1
      BY <1>2, <1>6, <2>2 DEF RtcCount, RtcInto
    <3>2. RT!Position + 1 # RtcMatch
      <4>1. (cmp * cpt) % cpt = 0
        BY <1>1, ExactQuotient
      <4>2. (RT!Position + 1) % cpt = r + 1 /\ r + 1 # 0
        BY <1>2, <2>2
      <4>3. QED  BY <4>1, <4>2 DEF RtcMatch
    <3>3. RtcFlags' = RtcFlags /\ RtcAsked' = RtcAsked
      BY <1>4, <1>6, <3>2 DEF RtcAsked
    <3>4. QED
      BY <1>3, <2>1, <2>2, <3>1, <3>3
         DEF RT!Counter!Cycle, RT!Counter!Lasts, RT!Counter!settings, RtcCount, RtcInto, RtcFlags,
             RtcAsked
  <2>3. CASE r + 1 >= cpt
    <3>1. RtcCount' = q + 1 /\ RtcInto' = 0
      BY <1>2, <1>6, <2>3 DEF RtcCount, RtcInto
    <3>2. RT!Position + 1 = (q + 1) * cpt
      BY <1>1, <1>2, <1>5, <2>3
    <3>3. q < per
      <4>1. ASSUME q + 1 >= per + 1 PROVE (per + 1) * cpt <= (q + 1) * cpt
        BY <1>1, <4>1, ProductGrows
      <4>2. (per + 1) * cpt \in Nat /\ (q + 1) * cpt \in Nat
        BY <1>1, ProductIsNat
      <4>3. (q + 1) * cpt < (per + 1) * cpt
        BY <1>6, <3>2 DEF RtcPeriod
      <4>4. QED  BY <1>1, <4>1, <4>2, <4>3
    <3>4. RT!Position + 1 = RtcMatch <=> q + 1 = cmp
      <4>1. ((q + 1) * cpt) \div cpt = q + 1 /\ (cmp * cpt) \div cpt = cmp
        BY <1>1, ExactQuotient
      <4>2. QED  BY <3>2, <4>1 DEF RtcMatch
    <3>5. /\ RtcFlags' = RtcFlags \cup (IF RtcCount' = cmp THEN {"CMP"} ELSE {})
          /\ RtcAsked' = (RtcAsked \/ (IF RtcCount' = cmp THEN {"CMP"} ELSE {}) \cap inten # {})
      BY <1>4, <1>6, <3>1, <3>4
    <3>6. RT!Counter!CountUp
      BY <1>3, <3>1, <3>3, <3>5
         DEF RT!Counter!CountUp, RT!Counter!Happens, RtcCount, RtcFlags, RtcAsked
    <3>7. QED
      BY <1>1, <1>2, <1>3, <2>3, <3>1, <3>6
         DEF RT!Counter!Cycle, RT!Counter!Lasts, RT!Counter!settings, RtcCount, RtcInto
  <2>4. QED  BY <1>1, <2>2, <2>3
<1>7. CASE /\ RT!Position + 1 >= RtcPeriod /\ RT!Position' = 0
           /\ events = {"OVF"} \cup (IF cmp = 0 THEN {"CMP"} ELSE {})
  <2>1. RtcCount' = 0 /\ RtcInto' = 0
    <3>1. 0 \div cpt = 0 /\ 0 % cpt = 0
      BY <1>1
    <3>2. QED  BY <1>7, <3>1 DEF RtcCount, RtcInto
  <2>2. q >= per
    <3>1. ASSUME q + 1 <= per PROVE (q + 1) * cpt <= per * cpt
      BY <1>1, <3>1, ProductGrows
    <3>2. q * cpt + r + 1 >= per * cpt + cpt
      BY <1>1, <1>2, <1>5, <1>7
    <3>3. QED  BY <1>1, <1>5, <3>1, <3>2
  <2>3. ~(r + 1 < cpt) \/ q > per
    <3>1. CASE q = per
      <4>1. q * cpt + r + 1 >= q * cpt + cpt
        BY <1>1, <1>2, <1>5, <1>7, <3>1
      <4>2. QED  BY <1>1, <1>5, <4>1
    <3>2. QED  BY <1>1, <2>2, <3>1
  <2>4. RT!Counter!Wrap
    BY <1>3, <1>4, <1>7, <2>1, <2>2
       DEF RT!Counter!Wrap, RT!Counter!Happens, RtcCount, RtcFlags, RtcAsked
  <2>5. ~RT!Counter!Lasts
    BY <1>1, <1>3, <2>3 DEF RT!Counter!Lasts, RtcCount, RtcInto
  <2>6. QED
    BY <2>1, <2>4, <2>5 DEF RT!Counter!Cycle, RT!Counter!settings, RtcInto
<1>8. QED  BY <1>6, <1>7

LEMMA RtcPassCounts ==
    ASSUME RtcInv, RtcInv', RtcCounting, RT!Pass
    PROVE  RT!Counter!Cycle
<1>1. /\ RtcCounting' /\ RtcSpan' = RtcSpan + 1 /\ on' /\ on
      /\ RtcPeriod' = RtcPeriod /\ RtcMatch' = RtcMatch
      /\ UNCHANGED <<on, rate, cpt, per, cmp, target, flags, inten, rtcPending>>
      /\ due <= 1 => due' <= 0
      /\ due = target * cpt - age => due' = target' * cpt' - age'
  BY RtcPassKeeps, Zenon
<1>2. /\ RtcPeriod \in Nat /\ RtcMatch \in Nat /\ RtcPeriod >= 1
      /\ cpt \in Nat /\ cpt >= 1 /\ per \in Nat /\ cmp \in Nat /\ target \in Nat
      /\ age \in Nat /\ due \in Int
      /\ cmp <= per => RtcMatch + cpt <= RtcPeriod
      /\ cmp > per => RtcMatch >= RtcPeriod
      /\ (RtcMatch = 0 <=> cmp = 0)
  BY RtcNumbers
<1>3. /\ target = per + 1 \/ (target = cmp /\ cmp \in 1 .. per)
      /\ target > per /\ cmp <= per => RtcMatch <= RtcSpan
      /\ \/ due = target * cpt - age
         \/ target > per /\ due <= 1 /\ (due = 1 => age >= RtcPeriod)
  BY <1>1 DEF RtcCounting
<1>4. CASE due <= 0 \/ due = target * cpt - age
  <2>1. RtcSeen /\ RtcSeen'
    <3>1. due' <= 0 \/ due' = target' * cpt' - age'
      BY <1>1, <1>2, <1>4
    <3>2. QED  BY <1>1, <1>4, <3>1 DEF RtcSeen
  <2>2. RtcView /\ RtcView'
    BY <2>1, RtcViews, RtcViewsNext, Zenon
  <2>3. PICK V \in Nat, X \in Nat : V = RtcSpan /\ X = RT!Position /\ X = V % RtcPeriod
    <3>1. RtcSpan % RtcPeriod \in Nat /\ RtcSpan \in Nat
      BY <1>2, <2>2, RemainderOnce DEF RtcView
    <3>2. QED  BY <2>2, <3>1 DEF RtcView
  <2>4. /\ X < RtcPeriod /\ (V < RtcPeriod => X = V) /\ (V >= RtcPeriod => X <= V - RtcPeriod)
        /\ X + 1 < RtcPeriod => (V + 1) % RtcPeriod = X + 1
        /\ X + 1 >= RtcPeriod => (V + 1) % RtcPeriod = 0
        /\ V >= RtcPeriod /\ V - RtcPeriod < RtcPeriod => X = V - RtcPeriod
    <3>1. PICK P \in Nat \ {0} : P = RtcPeriod
      BY <1>2
    <3>2. X = V % P
      BY <2>3, <3>1
    <3>3. QED  BY <3>1, <3>2, RemainderMoves
  <2>5. RT!Position' = (V + 1) % RtcPeriod
    BY <1>1, <2>2, <2>3 DEF RtcView
  <2>6. /\ "OVF" \in RT!Owed <=> V >= RtcPeriod
        /\ "OVF" \in RT!Owed' <=> V + 1 >= RtcPeriod
    BY <1>1, <2>2, <2>3 DEF RtcView
  <2>7. /\ "CMP" \in RT!Owed <=>
               cmp <= per /\ (IF target <= per THEN V >= RtcMatch ELSE V >= RtcPeriod + RtcMatch)
        /\ "CMP" \in RT!Owed' <=>
               cmp <= per /\ (IF target <= per THEN V + 1 >= RtcMatch
                              ELSE V + 1 >= RtcPeriod + RtcMatch)
    BY <1>1, <2>2, <2>3 DEF RtcView, RtcMatched
  <2>8. target > per /\ cmp <= per => RtcMatch <= V
    BY <1>3, <2>3
  <2>9. V + RtcPeriod \in Nat /\ V + 1 \in Nat
    BY <1>2
  <2>10. CASE X + 1 < RtcPeriod
    <3> DEFINE events == IF X + 1 = RtcMatch THEN {"CMP"} ELSE {}
    <3>1. "OVF" \in RT!Owed' <=> "OVF" \in RT!Owed
      BY <1>2, <2>3, <2>4, <2>6, <2>10
    <3>2. "CMP" \in RT!Owed' <=> ("CMP" \in RT!Owed \/ X + 1 = RtcMatch)
      <4>1. CASE target <= per
        BY <1>2, <1>3, <2>3, <2>4, <2>7, <2>10, <4>1
      <4>2. CASE target > per
        <5>1. ASSUME X + 1 = RtcMatch
              PROVE  cmp <= per /\ V + 1 >= RtcPeriod + RtcMatch
          <6>1. cmp <= per
            BY <1>2, <2>10, <5>1
          <6>2. V >= RtcMatch /\ V >= RtcPeriod
            BY <1>2, <2>4, <2>8, <4>2, <5>1, <6>1
          <6>3. QED  BY <1>2, <2>4, <5>1, <6>1, <6>2
        <5>2. ASSUME V + 1 = RtcPeriod + RtcMatch, cmp <= per
              PROVE  X + 1 = RtcMatch
          <6>1. RtcMatch # 0
            BY <1>2, <2>3, <2>4, <2>10, <5>2
          <6>2. X + 1 <= RtcMatch /\ V >= RtcPeriod
            BY <1>2, <2>4, <5>2, <6>1
          <6>3. V - RtcPeriod < RtcPeriod /\ V - RtcPeriod = RtcMatch - 1
            BY <1>2, <5>2, <6>2
          <6>4. X = V - RtcPeriod
            BY <2>4, <6>2, <6>3
          <6>5. QED  BY <1>2, <6>3, <6>4
        <5>3. QED  BY <1>2, <2>7, <4>2, <5>1, <5>2
      <4>3. QED  BY <1>2, <4>1, <4>2
    <3>3. RT!Owed' = RT!Owed \cup events
      <4>1. RT!Owed \subseteq {"OVF", "CMP"} /\ RT!Owed' \subseteq {"OVF", "CMP"}
        BY DEF RT!Owed
      <4>2. QED  BY <3>1, <3>2, <4>1
    <3>4. events \in SUBSET RT!Sources
      BY DEF RT!Sources
    <3>5. RT!Position' = X + 1
      BY <2>4, <2>5, <2>10
    <3>6. QED
      BY <1>1, <2>3, <2>10, <3>3, <3>4, <3>5, PositionMovesOn
  <2>11. CASE X + 1 >= RtcPeriod
    <3> DEFINE events == {"OVF"} \cup (IF cmp = 0 THEN {"CMP"} ELSE {})
    <3>1. "OVF" \in RT!Owed'
      BY <1>2, <2>3, <2>4, <2>6, <2>11
    <3>2. "CMP" \in RT!Owed' <=> ("CMP" \in RT!Owed \/ cmp = 0)
      <4>1. CASE target <= per
        BY <1>2, <1>3, <2>3, <2>4, <2>7, <2>11, <4>1
      <4>2. CASE target > per
        <5>1. cmp = 0 => V + 1 >= RtcPeriod + RtcMatch
          BY <1>2, <2>3, <2>4, <2>11
        <5>2. ASSUME V + 1 = RtcPeriod + RtcMatch, cmp <= per, cmp # 0
              PROVE  FALSE
          <6>1. V >= RtcPeriod
            BY <1>2, <5>2
          <6>2. X <= V - RtcPeriod
            BY <2>4, <6>1
          <6>3. X + 1 <= RtcMatch /\ RtcMatch < RtcPeriod
            BY <1>2, <2>3, <5>2, <6>2
          <6>4. QED  BY <1>2, <2>3, <2>11, <6>3
        <5>3. QED  BY <1>2, <2>7, <4>2, <5>1, <5>2
      <4>3. QED  BY <1>2, <4>1, <4>2
    <3>3. RT!Owed' = RT!Owed \cup events
      <4>1. RT!Owed \subseteq {"OVF", "CMP"} /\ RT!Owed' \subseteq {"OVF", "CMP"}
        BY DEF RT!Owed
      <4>2. QED  BY <3>1, <3>2, <4>1
    <3>4. events \in SUBSET RT!Sources
      BY DEF RT!Sources
    <3>5. RT!Position' = 0
      BY <2>4, <2>5, <2>11
    <3>6. QED
      BY <1>1, <2>3, <2>11, <3>3, <3>4, <3>5, PositionMovesOn
  <2>12. QED  BY <1>2, <2>3, <2>10, <2>11
<1>5. CASE ~(due <= 0 \/ due = target * cpt - age)
  <2>1. due = 1 /\ age >= RtcPeriod /\ target > per
    BY <1>2, <1>3, <1>5
  <2>2. RT!Position = age /\ RT!Owed = {}
    BY <1>1, <1>2, <2>1, RtcOwesNothing
  <2>3. RtcSeen'
    BY <1>1, <2>1 DEF RtcSeen
  <2>4. RtcView'
    BY <2>3, RtcViewsNext, Zenon
  <2>5. RtcSpan' = RtcPeriod
    BY <1>1, <1>2, <2>1 DEF RtcSpan
  <2>6. RT!Position' = 0
    <3>1. RtcPeriod % RtcPeriod = 0
      <4>1. RtcPeriod \in Nat \ {0} /\ RtcPeriod >= RtcPeriod
        BY <1>2
      <4>2. (RtcPeriod - RtcPeriod) % RtcPeriod = RtcPeriod % RtcPeriod
        BY <4>1, RemainderOnce
      <4>3. RtcPeriod - RtcPeriod = 0 /\ 0 % RtcPeriod = 0
        BY <4>1
      <4>4. QED  BY <4>2, <4>3
    <3>2. QED  BY <1>1, <2>4, <2>5, <3>1 DEF RtcView
  <2>7. /\ "OVF" \in RT!Owed'
        /\ "CMP" \in RT!Owed' <=> cmp = 0
    <3>1. "OVF" \in RT!Owed'
      BY <1>1, <1>2, <2>4, <2>5 DEF RtcView
    <3>2. "CMP" \in RT!Owed' <=> cmp <= per /\ RtcPeriod >= RtcPeriod + RtcMatch
      BY <1>1, <1>2, <2>1, <2>4, <2>5 DEF RtcView, RtcMatched
    <3>3. QED  BY <1>2, <3>1, <3>2
  <2>8. RT!Owed' = RT!Owed \cup ({"OVF"} \cup (IF cmp = 0 THEN {"CMP"} ELSE {}))
    <3>1. RT!Owed' \subseteq {"OVF", "CMP"}
      BY DEF RT!Owed
    <3>2. QED  BY <2>2, <2>7, <3>1
  <2>9. {"OVF"} \cup (IF cmp = 0 THEN {"CMP"} ELSE {}) \in SUBSET RT!Sources
    BY DEF RT!Sources
  <2>10. RT!Position \in Nat /\ RT!Position + 1 >= RtcPeriod
    BY <1>2, <2>1, <2>2
  <2>11. QED
    BY <1>1, <2>6, <2>8, <2>9, <2>10, PositionMovesOn
<1>6. QED  BY <1>4, <1>5

-----------------------------------------------------------------------------
(* The timer runs: what it does has been shown already *)

LEMMA RtcEventKeeps ==
    ASSUME RtcInv, RtcCounting, RT!Event
    PROVE  /\ RtcCounting' /\ on' /\ due' = target' * cpt' - age'
           /\ target > per => RtcSpan' = RtcSpan - RtcPeriod /\ target' = RT!NextTarget(per, cmp, 0)
           /\ target <= per => RtcSpan' = RtcSpan /\ target' = per + 1
<1>1. /\ on /\ due <= 0 /\ UNCHANGED <<on, rate, per, cmp, cnt, cpt, inten>>
      /\ due' = target' * cpt - age'
  BY DEF RT!Event, RT!settings
<1>2. /\ RtcPeriod \in Nat /\ RtcMatch \in Nat /\ RtcPeriod >= 1
      /\ cpt \in Nat /\ cpt >= 1 /\ per \in Nat /\ cmp \in Nat /\ target \in Nat
      /\ age \in Nat /\ due \in Int
      /\ cmp <= per => RtcMatch + cpt <= RtcPeriod
      /\ (RtcMatch = 0 <=> cmp = 0)
  BY RtcNumbers
<1>3. RtcPeriod' = RtcPeriod /\ RtcMatch' = RtcMatch
  BY <1>1 DEF RtcPeriod, RtcMatch
<1>4. /\ RtcSpan \in Nat
      /\ target <= per => target = cmp /\ RtcSpan = age /\ due = RtcMatch - RtcSpan
      /\ target > per => due = RtcPeriod - RtcSpan
  BY <1>1, RtcSpans
<1>5. CASE target > per
  <2>1. age' = -due /\ target' = RT!NextTarget(per, cmp, 0)
    BY <1>5 DEF RT!Event
  <2>2. age' \in Nat /\ age' = RtcSpan - RtcPeriod
    BY <1>1, <1>2, <1>4, <1>5, <2>1
  <2>3. CASE cmp \in 1 .. per
    <3>1. target' = cmp
      BY <1>2, <2>1, <2>3 DEF RT!NextTarget
    <3>2. RtcSpan' = age' /\ target' <= per'
      BY <1>1, <1>2, <2>3, <3>1 DEF RtcSpan
    <3>3. RtcCounting'
      BY <1>1, <1>2, <2>3, <3>1, <3>2 DEF RtcCounting
    <3>4. QED  BY <1>1, <1>2, <1>5, <2>1, <2>2, <3>2, <3>3
  <2>4. CASE cmp \notin 1 .. per
    <3>1. target' = per + 1
      BY <1>2, <2>1, <2>4 DEF RT!NextTarget
    <3>2. due' = RtcPeriod - age'
      BY <1>1, <3>1 DEF RtcPeriod
    <3>3. RtcSpan' = age' /\ target' > per'
      BY <1>1, <1>2, <1>3, <2>2, <3>1, <3>2 DEF RtcSpan
    <3>4. cmp' <= per' => RtcMatch' <= RtcSpan'
      BY <1>1, <1>2, <1>3, <2>2, <2>4, <3>3
    <3>5. RtcCounting'
      BY <1>1, <3>1, <3>4 DEF RtcCounting
    <3>6. QED  BY <1>1, <1>2, <1>5, <2>1, <2>2, <3>3, <3>5
  <2>5. QED  BY <2>3, <2>4
<1>6. CASE target <= per
  <2>1. target = cmp /\ RtcSpan = age /\ due = RtcMatch - age
    BY <1>4, <1>6
  <2>2. age' = age /\ target' = RT!NextTarget(per, cmp, target)
    BY <1>2, <1>6 DEF RT!Event
  <2>3. target' = per + 1
    BY <1>2, <2>1, <2>2 DEF RT!NextTarget
  <2>4. due' = RtcPeriod - age
    BY <1>1, <2>2, <2>3 DEF RtcPeriod
  <2>5. RtcSpan' = age /\ target' > per'
    BY <1>1, <1>2, <1>3, <2>3, <2>4 DEF RtcSpan
  <2>6. RtcMatch' <= RtcSpan'
    BY <1>1, <1>2, <1>3, <2>1, <2>5
  <2>7. RtcCounting'
    BY <1>1, <2>3, <2>6 DEF RtcCounting
  <2>8. QED  BY <1>1, <1>2, <1>6, <2>1, <2>3, <2>5, <2>7
<1>7. QED  BY <1>2, <1>5, <1>6

LEMMA RtcEventShows ==
    ASSUME RtcInv, RtcInv', RtcCounting, RT!Event
    PROVE  RtcShow' = RtcShow
<1>1. /\ on /\ due <= 0 /\ UNCHANGED <<on, rate, per, cmp, cnt, cpt, inten>>
  BY DEF RT!Event, RT!settings
<1>2. /\ RtcPeriod \in Nat /\ RtcMatch \in Nat /\ RtcPeriod >= 1
      /\ cpt \in Nat /\ cpt >= 1 /\ per \in Nat /\ cmp \in Nat /\ target \in Nat
      /\ age \in Nat /\ due \in Int
      /\ cmp <= per => RtcMatch + cpt <= RtcPeriod
      /\ (RtcMatch = 0 <=> cmp = 0)
  BY RtcNumbers
<1>3. RtcPeriod' = RtcPeriod /\ RtcMatch' = RtcMatch
  BY <1>1 DEF RtcPeriod, RtcMatch
<1>4. /\ RtcCounting' /\ on' /\ due' = target' * cpt' - age'
      /\ target > per => RtcSpan' = RtcSpan - RtcPeriod /\ target' = RT!NextTarget(per, cmp, 0)
      /\ target <= per => RtcSpan' = RtcSpan /\ target' = per + 1
  BY RtcEventKeeps, Zenon
<1>5. RtcSeen /\ RtcSeen'
  BY <1>1, <1>4 DEF RtcSeen
<1>6. RtcView /\ RtcView'
  BY <1>5, RtcViews, RtcViewsNext, Zenon
<1>7. RtcSpan \in Nat
  BY <1>6 DEF RtcView
<1>8. RT!Position' = RT!Position
  <2>1. RT!Position = RtcSpan % RtcPeriod /\ RT!Position' = RtcSpan' % RtcPeriod
    BY <1>3, <1>6 DEF RtcView
  <2>2. CASE target > per
    <3>1. PICK P \in Nat \ {0} : P = RtcPeriod
      BY <1>2
    <3>2. RtcSpan >= P
      BY <1>1, <1>2, <1>6, <1>7, <2>2, <3>1 DEF RtcView
    <3>3. (RtcSpan - P) % P = RtcSpan % P
      BY <1>7, <3>2, RemainderOnce
    <3>4. QED  BY <1>4, <2>1, <2>2, <3>1, <3>3
  <2>3. CASE target <= per
    BY <1>4, <2>1, <2>3
  <2>4. QED  BY <1>2, <2>2, <2>3
<1>9. RtcCount' = RtcCount /\ RtcInto' = RtcInto
  BY <1>1, <1>4, <1>8 DEF RtcCount, RtcInto
<1> DEFINE flagged == IF target > per THEN {"OVF"} \cup (IF cmp = 0 THEN {"CMP"} ELSE {})
                      ELSE {"CMP"}
<1>10. RT!Flag(flagged)
  <2>1. CASE target > per
    BY <2>1 DEF RT!Event
  <2>2. CASE target <= per
    <3>1. target = cmp /\ ~(target > per)
      BY <1>2, <1>6, <2>2 DEF RtcView
    <3>2. {"CMP"} \cap {IF cmp = target THEN "CMP" ELSE "none"} = {"CMP"}
      BY <3>1
    <3>3. RT!Flag({"CMP"} \cap {IF cmp = target THEN "CMP" ELSE "none"})
      BY <3>1 DEF RT!Event
    <3>4. QED  BY <3>1, <3>2, <3>3
  <2>3. QED  BY <1>2, <2>1, <2>2
<1>11. RT!Owed = flagged \cup RT!Owed'
  <2>1. /\ "OVF" \in RT!Owed <=> RtcSpan >= RtcPeriod
        /\ "OVF" \in RT!Owed' <=> RtcSpan' >= RtcPeriod
        /\ "CMP" \in RT!Owed <=> cmp <= per
               /\ (IF target <= per THEN RtcSpan >= RtcMatch ELSE RtcSpan >= RtcPeriod + RtcMatch)
        /\ "CMP" \in RT!Owed' <=> cmp <= per
               /\ (IF target' <= per THEN RtcSpan' >= RtcMatch
                   ELSE RtcSpan' >= RtcPeriod + RtcMatch)
    BY <1>1, <1>3, <1>6 DEF RtcView, RtcMatched
  <2>2. CASE target > per
    <3>1. RtcSpan' = RtcSpan - RtcPeriod /\ RtcSpan >= RtcPeriod
      BY <1>1, <1>2, <1>4, <1>6, <1>7, <2>2 DEF RtcView
    <3>2. target' = IF cmp \in 1 .. per THEN cmp ELSE per + 1
      BY <1>2, <1>4, <2>2 DEF RT!NextTarget
    <3>3. "OVF" \in RT!Owed /\ "OVF" \in flagged /\ ("CMP" \in flagged <=> cmp = 0)
      BY <2>1, <2>2, <3>1
    <3>4. "CMP" \in RT!Owed <=> ("CMP" \in RT!Owed' \/ cmp = 0)
      <4>1. CASE cmp \in 1 .. per
        BY <1>2, <1>7, <2>1, <2>2, <3>1, <3>2, <4>1
      <4>2. CASE cmp \notin 1 .. per
        <5>1. cmp = 0 \/ cmp > per
          BY <1>2, <4>2
        <5>2. CASE cmp = 0
          BY <1>2, <1>7, <2>1, <2>2, <3>1, <5>2
        <5>3. CASE cmp > per
          BY <1>2, <2>1, <5>3
        <5>4. QED  BY <5>1, <5>2, <5>3
      <4>3. QED  BY <4>1, <4>2
    <3>5. RT!Owed \subseteq {"OVF", "CMP"} /\ RT!Owed' \subseteq {"OVF", "CMP"}
      BY DEF RT!Owed
    <3>6. flagged \subseteq {"OVF", "CMP"}
      OBVIOUS
    <3>7. QED  BY <3>3, <3>4, <3>5, <3>6
  <2>3. CASE target <= per
    <3>1. RtcSpan' = RtcSpan /\ target' = per + 1
      BY <1>4, <2>3
    <3>2. "CMP" \in RT!Owed /\ flagged = {"CMP"}
      <4>1. cmp <= per /\ RtcSpan >= RtcMatch
        BY <1>1, <1>2, <1>6, <1>7, <2>3 DEF RtcView
      <4>2. ~(target > per)
        BY <1>2, <2>3
      <4>3. QED  BY <2>1, <2>3, <4>1, <4>2
    <3>3. "OVF" \in RT!Owed <=> "OVF" \in RT!Owed'
      BY <2>1, <3>1
    <3>4. RT!Owed \subseteq {"OVF", "CMP"} /\ RT!Owed' \subseteq {"OVF", "CMP"}
      BY DEF RT!Owed
    <3>5. QED  BY <3>2, <3>3, <3>4
  <2>4. QED  BY <1>2, <2>2, <2>3
<1>12. RtcFlags' = RtcFlags
  BY <1>10, <1>11 DEF RT!Flag, RtcFlags
<1>13. RtcAsked' = RtcAsked
  <2>1. rtcPending' = (rtcPending \/ flagged \cap inten # {})
    BY <1>10 DEF RT!Flag
  <2>2. RT!Owed \cap inten # {} <=> (flagged \cap inten # {} \/ RT!Owed' \cap inten # {})
    BY <1>11
  <2>3. RtcAsked' = (rtcPending \/ flagged \cap inten # {} \/ RT!Owed' \cap inten # {})
    BY <1>1, <2>1 DEF RtcAsked
  <2>4. QED  BY <2>2, <2>3 DEF RtcAsked
<1>14. QED  BY <1>1, <1>9, <1>12, <1>13 DEF RtcShow

-----------------------------------------------------------------------------
(* Writes *)

RtcMeasures ==
    /\ RtcPeriod \in Nat /\ RtcMatch \in Nat /\ RtcPeriod >= 1
    /\ cpt \in Nat /\ cpt >= 1 /\ per \in Nat /\ cmp \in Nat /\ target \in Nat
    /\ age \in Nat /\ due \in Int
    /\ cmp <= per => RtcMatch + cpt <= RtcPeriod

LEMMA RtcMeasured == RtcInv => RtcMeasures
BY RtcNumbers DEF RtcMeasures

LEMMA RtcMeasuredNext == RtcInv' => RtcMeasures'
BY RtcMeasured, PTL

RtcWaits == due \in Int /\ (~on \/ due > 0)
RtcAtRest == RT!Owed = {} /\ (on => RT!Position = age)

LEMMA RtcRests == RtcWaits => RtcAtRest
BY RtcOwesNothing DEF RtcAtRest, RtcWaits

LEMMA RtcRestsNext == RtcWaits' => RtcAtRest'
BY RtcRests, PTL

\* Between instructions CNT is as it would be read, and nothing is owed.
LEMMA RtcInstruction ==
    ASSUME RtcInv, RT!Instruction
    PROVE  RT!Owed = {} /\ RT!Latched = RtcCount /\ RtcCount \in Counts
<1>1. due \in Int /\ per \in Nat /\ age \in Nat /\ cpt \in Nat \ {0}
  BY RtcNumbers
<1>2. RT!Owed = {} /\ (on => RT!Position = age)
  BY <1>1, RtcOwesNothing DEF RT!Instruction
<1>3. RT!Latched = RtcCount
  <2>1. CASE on
    <3>1. age \div cpt \in Nat /\ age \div cpt <= per
      BY <1>1, <2>1, Divides DEF RT!Instruction
    <3>2. PICK q \in Nat : q = age \div cpt /\ q < per + 1
      BY <1>1, <3>1
    <3>3. q % (per + 1) = q
      BY <1>1, <3>2, RemainderOnce
    <3>4. QED  BY <1>2, <2>1, <3>2, <3>3 DEF RT!Latched, RT!Now, RtcCount
  <2>2. CASE ~on
    BY <2>2 DEF RT!Latched, RtcCount
  <2>3. QED  BY <2>1, <2>2
<1>4. QED  BY <1>2, <1>3, LatchedIsCount

\* The cycles of avr_rtc_cnt_reschedule.
LEMMA RescheduleCycles ==
    ASSUME NEW c \in Nat, NEW k \in Nat \ {0}, NEW top \in Nat, NEW match \in Nat,
           NEW t \in Nat, NEW d \in Int,
           t = IF match \in c + 1 .. top THEN match ELSE top + 1,
           d = IF t > c THEN (t - c) * k ELSE 1
    PROVE  /\ d > 0
           /\ t = top + 1 \/ (t = match /\ match \in 1 .. top)
           /\ \/ d = t * k - c * k
              \/ t > top /\ d <= 1 /\ (d = 1 => c * k >= (top + 1) * k)
           /\ t > top /\ match <= top => match * k <= (top + 1) * k - d
<1>1. c * k \in Nat /\ t * k \in Nat /\ match * k \in Nat /\ (top + 1) * k \in Nat
  BY ProductIsNat
<1>2. t = top + 1 \/ (t = match /\ match \in 1 .. top)
  OBVIOUS
<1>3. t > top => t = top + 1
  BY <1>2
<1>4. CASE t > c
  <2>1. d = (t - c) * k
    BY <1>4
  <2>2. (t - c) * k = t * k - c * k
    BY <1>4, ProductOfDifference
  <2>3. t - c \in Nat /\ 1 <= t - c
    BY <1>4
  <2>4. 1 * k <= (t - c) * k
    BY <2>3, ProductGrows
  <2>5. d > 0
    BY <2>1, <2>4
  <2>6. ASSUME t > top, match <= top PROVE match * k <= (top + 1) * k - d
    <3>1. match <= c
      BY <1>3, <1>4, <2>6
    <3>2. match * k <= c * k
      BY <3>1, ProductGrows
    <3>3. d = (top + 1) * k - c * k
      BY <1>3, <2>1, <2>2, <2>6
    <3>4. QED  BY <1>1, <3>2, <3>3
  <2>7. QED  BY <1>2, <2>1, <2>2, <2>5, <2>6
<1>5. CASE ~(t > c)
  <2>1. d = 1 /\ t = top + 1 /\ c >= top + 1
    BY <1>5
  <2>2. (top + 1) * k <= c * k
    BY <2>1, ProductGrows
  <2>3. ASSUME match <= top PROVE match * k <= (top + 1) * k - d
    <3>1. match * k <= top * k
      BY <2>3, ProductGrows
    <3>2. (top + 1) * k = top * k + k /\ top * k \in Nat
      BY ProductIsNat
    <3>3. QED  BY <1>1, <2>1, <3>1, <3>2
  <2>4. QED  BY <1>1, <1>2, <2>1, <2>2, <2>3
<1>6. QED  BY <1>4, <1>5

LEMMA RtcReschedulesOn ==
    ASSUME RtcInv', NEW c \in Counts, RT!Reschedule(c), on'
    PROVE  /\ RtcCounting' /\ RT!Owed' = {} /\ RtcCount' = c /\ RtcInto' = 0
           /\ cpt' = rate'
<1>1. /\ cpt' \in Nat /\ cpt' >= 1 /\ per' \in Nat /\ cmp' \in Nat /\ target' \in Nat
      /\ age' \in Nat /\ due' \in Int
  BY RtcMeasuredNext DEF RtcMeasures
<1>2. c \in Nat
  BY RtcCounts DEF RtcInv, RT!WellFormed
<1>3. /\ cpt' = rate' /\ age' = c * cpt' /\ target' = RT!NextTarget(per', cmp', c)
      /\ due' = (IF target' > c THEN (target' - c) * cpt' ELSE 1)
  BY  DEF RT!Reschedule
<1>4. PICK k \in Nat \ {0}, top \in Nat, match \in Nat, t \in Nat, a \in Nat, d \in Int :
        k = cpt' /\ top = per' /\ match = cmp' /\ t = target' /\ a = age' /\ d = due'
  BY <1>1
<1>5. /\ a = c * k /\ t = (IF match \in c + 1 .. top THEN match ELSE top + 1)
      /\ d = IF t > c THEN (t - c) * k ELSE 1
  BY <1>3, <1>4 DEF RT!NextTarget
<1>6. /\ d > 0
      /\ t = top + 1 \/ (t = match /\ match \in 1 .. top)
      /\ \/ d = t * k - c * k
         \/ t > top /\ d <= 1 /\ (d = 1 => c * k >= (top + 1) * k)
      /\ t > top /\ match <= top => match * k <= (top + 1) * k - d
  BY <1>2, <1>5, RescheduleCycles
<1>7. RT!Owed' = {} /\ RT!Position' = a
  <2>1. RtcWaits'
    BY <1>4, <1>6 DEF RtcWaits
  <2>2. QED  BY <1>4, <2>1, RtcRestsNext DEF RtcAtRest
<1>8. RtcCount' = c /\ RtcInto' = 0
  <2>1. (c * k) \div k = c /\ (c * k) % k = 0
    BY <1>2, ExactQuotient
  <2>2. QED  BY <1>4, <1>5, <1>7, <2>1 DEF RtcCount, RtcInto
<1>9. RtcMatch' = match * k /\ RtcPeriod' = (top + 1) * k
  BY <1>4 DEF RtcMatch, RtcPeriod
<1>10. t > top => RtcSpan' = (top + 1) * k - d
  BY <1>4, <1>9 DEF RtcSpan
<1>11. t > top /\ match <= top => RtcMatch' <= RtcSpan'
  BY <1>6, <1>9, <1>10
<1>12. RtcCounting'
  BY <1>4, <1>5, <1>6, <1>9, <1>11 DEF RtcCounting
<1>13. QED  BY <1>3, <1>7, <1>8, <1>12

LEMMA RtcReschedulesOff ==
    ASSUME RtcInv', NEW c \in Counts, RT!Reschedule(c), ~on', cnt' = c
    PROVE  /\ RtcCounting' /\ RT!Owed' = {} /\ RtcCount' = c /\ RtcInto' = 0
           /\ cpt' = cpt
<1>1. due' \in Int
  BY RtcMeasuredNext DEF RtcMeasures
<1>2. RtcAtRest'
  BY <1>1, RtcRestsNext DEF RtcWaits
<1>3. cpt' = cpt
  BY DEF RT!Reschedule
<1>4. QED  BY <1>2, <1>3 DEF RtcAtRest, RtcCounting, RtcCount, RtcInto

\* A register is written.
LEMMA RtcWriteShows ==
    ASSUME RtcInv, RtcInv', RT!Instruction, NEW c \in Counts, RT!Reschedule(c),
           cnt' = c, UNCHANGED <<flags, inten, rtcPending>>,
           c = RtcCount \/ UNCHANGED <<on, rate, per, cmp>>
    PROVE  RtcCounting' /\ RT!Counter!Write
<1>1. RT!Owed = {} /\ RtcCount \in Counts
  BY RtcInstruction
<1>2. on' \in BOOLEAN /\ rate' \in Rates /\ per' \in Counts /\ cmp' \in Counts
  BY DEF RtcInv, RtcRegisters
<1>3. /\ RtcCounting' /\ RT!Owed' = {} /\ RtcCount' = c /\ RtcInto' = 0
      /\ cpt' = IF on' THEN rate' ELSE cpt
  BY RtcReschedulesOn, RtcReschedulesOff, Zenon
<1>4. RtcFlags' = RtcFlags /\ RtcAsked' = RtcAsked
  BY <1>1, <1>3 DEF RtcFlags, RtcAsked
<1>5. RtcCount' # RtcCount => UNCHANGED <<on, rate, per, cmp>>
  BY <1>3
<1>6. RT!Counter!Write
  BY <1>2, <1>3, <1>4, <1>5
     DEF RT!Counter!Write, RT!Counter!interrupt, RtcCount, RtcInto, RtcFlags, RtcAsked
<1>7. QED  BY <1>3, <1>6

\* Nothing the counter shows is in the variables that a step leaves alone.
LEMMA RtcStays ==
    ASSUME UNCHANGED <<on, rate, per, cmp, cnt, cpt, age, target, due>>, RtcCounting
    PROVE  /\ RtcCounting' /\ RT!Owed' = RT!Owed /\ RtcCount' = RtcCount /\ RtcInto' = RtcInto
<1>1. RtcPeriod' = RtcPeriod /\ RtcMatch' = RtcMatch
  BY DEF RtcPeriod, RtcMatch
<1>2. RtcSpan' = RtcSpan
  BY <1>1 DEF RtcSpan
<1>3. RT!Wrapped' = RT!Wrapped
  BY DEF RT!Wrapped
<1>4. RT!HasWrapped' = RT!HasWrapped
  BY <1>3 DEF RT!HasWrapped
<1>5. RT!HasMatched' = RT!HasMatched
  BY <1>3, <1>4 DEF RT!HasMatched
<1>6. RT!Owed' = RT!Owed /\ RT!Position' = RT!Position
  BY <1>3, <1>4, <1>5 DEF RT!Owed, RT!Position
<1>7. QED  BY <1>1, <1>2, <1>6 DEF RtcCounting, RtcCount, RtcInto

\* Every step of the RTC is one of the counter, or is not seen.
LEMMA RtcRefines ==
    ASSUME RtcInv, RtcCounting, RT!Next
    PROVE  RtcCounting' /\ (RT!Counter!Next \/ RtcShow' = RtcShow)
<1>1. RtcInv'
  BY RtcKeeps
<1>2. ASSUME RT!Instruction
      PROVE  RT!Owed = {} /\ RT!Latched = RtcCount /\ RtcCount \in Counts
  BY <1>2, RtcInstruction
<1>3. ASSUME NEW enable1, NEW r, RT!WriteClock(enable1, r)
      PROVE  RtcCounting' /\ RT!Counter!Write
  <2>1. /\ RT!Instruction /\ cnt' = RT!Latched /\ RT!Reschedule(cnt')
        /\ UNCHANGED <<flags, inten, rtcPending>>
    BY <1>3 DEF RT!WriteClock, RT!request
  <2>2. cnt' = RtcCount /\ cnt' \in Counts
    BY <1>2, <2>1
  <2>3. QED  BY <1>1, <2>1, <2>2, RtcWriteShows
<1>4. ASSUME NEW top, NEW match, RT!WriteLimits(top, match)
      PROVE  RtcCounting' /\ RT!Counter!Write
  <2>1. /\ RT!Instruction /\ cnt' = RT!Latched /\ RT!Reschedule(cnt')
        /\ UNCHANGED <<flags, inten, rtcPending>>
    BY <1>4 DEF RT!WriteLimits, RT!request
  <2>2. cnt' = RtcCount /\ cnt' \in Counts
    BY <1>2, <2>1
  <2>3. QED  BY <1>1, <2>1, <2>2, RtcWriteShows
<1>5. ASSUME NEW c \in Counts, RT!WriteCount(c)
      PROVE  RtcCounting' /\ RT!Counter!Write
  <2>1. /\ RT!Instruction /\ cnt' = c /\ RT!Reschedule(c)
        /\ UNCHANGED <<flags, inten, rtcPending>> /\ UNCHANGED <<on, rate, per, cmp>>
    BY <1>5 DEF RT!WriteCount, RT!request, RT!settings
  <2>2. QED  BY <1>1, <2>1, RtcWriteShows
<1>6. ASSUME RT!ReadCount
      PROVE  RtcCounting' /\ RtcShow' = RtcShow
  <2>1. /\ RT!Instruction /\ cnt' = RT!Latched
        /\ UNCHANGED <<on, rate, per, cmp, cpt, age, target, due, flags, inten, rtcPending>>
    BY <1>6 DEF RT!ReadCount, RT!settings, RT!timing, RT!request
  <2>2. cnt' = RtcCount
    BY <1>2, <2>1
  <2>3. /\ RT!Wrapped' = RT!Wrapped /\ RtcPeriod' = RtcPeriod /\ RtcMatch' = RtcMatch
    BY <2>1 DEF RT!Wrapped, RtcPeriod, RtcMatch
  <2>4. RT!HasWrapped' = RT!HasWrapped /\ RtcSpan' = RtcSpan
    BY <2>1, <2>3 DEF RT!HasWrapped, RtcSpan
  <2>5. RT!HasMatched' = RT!HasMatched
    BY <2>1, <2>3, <2>4 DEF RT!HasMatched
  <2>6. RT!Owed' = RT!Owed /\ RT!Position' = RT!Position
    BY <2>1, <2>3, <2>4, <2>5 DEF RT!Owed, RT!Position
  <2>7. RtcCount' = RtcCount
    BY <2>1, <2>2, <2>6 DEF RtcCount
  <2>8. RtcInto' = RtcInto
    BY <2>1, <2>6 DEF RtcInto
  <2>9. RtcFlags' = RtcFlags /\ RtcAsked' = RtcAsked
    BY <2>1, <2>6 DEF RtcFlags, RtcAsked
  <2>10. RtcCounting'
    BY <2>1, <2>3, <2>4 DEF RtcCounting
  <2>11. QED  BY <2>1, <2>7, <2>8, <2>9, <2>10 DEF RtcShow
<1>7. ASSUME NEW sources \in SUBSET RT!Sources, RT!WriteInten(sources)
      PROVE  RtcCounting' /\ RT!Counter!Enable(sources)
  <2>1. /\ RT!Instruction /\ inten' = sources /\ flags' = flags
        /\ rtcPending' = (rtcPending \/ flags \cap sources # {})
        /\ UNCHANGED <<on, rate, per, cmp, cnt, cpt, age, target, due>>
    BY <1>7 DEF RT!WriteInten, RT!settings, RT!timing
  <2>2. /\ RtcCounting' /\ RT!Owed' = RT!Owed /\ RtcCount' = RtcCount /\ RtcInto' = RtcInto
        /\ RT!Owed = {}
    BY <1>2, <2>1, RtcStays
  <2>3. RtcFlags' = flags /\ RtcFlags = flags
    BY <2>1, <2>2 DEF RtcFlags
  <2>4. (RtcAsked <=> rtcPending) /\ (RtcAsked' <=> rtcPending')
    BY <2>2 DEF RtcAsked
  <2>5. RtcAsked' = (RtcAsked \/ RtcFlags \cap sources # {})
    BY <2>1, <2>3, <2>4 DEF RtcAsked
  <2>6. QED
    BY <2>1, <2>2, <2>3, <2>5
       DEF RT!Counter!Enable, RT!Counter!settings, RT!Counter!counter, RtcCount, RtcInto, RtcFlags,
           RtcAsked
<1>8. ASSUME NEW clears \in SUBSET RT!Sources, RT!WriteFlags(clears)
      PROVE  RtcCounting' /\ RT!Counter!Clear(clears)
  <2>1. /\ RT!Instruction /\ inten' = inten /\ flags' = flags \ clears
        /\ rtcPending' = (rtcPending /\ flags' # {})
        /\ UNCHANGED <<on, rate, per, cmp, cnt, cpt, age, target, due>>
    BY <1>8 DEF RT!WriteFlags, RT!settings, RT!timing
  <2>2. /\ RtcCounting' /\ RT!Owed' = RT!Owed /\ RtcCount' = RtcCount /\ RtcInto' = RtcInto
        /\ RT!Owed = {}
    BY <1>2, <2>1, RtcStays
  <2>3. RtcFlags' = flags' /\ RtcFlags = flags
    BY <2>1, <2>2 DEF RtcFlags
  <2>4. (RtcAsked <=> rtcPending) /\ (RtcAsked' <=> rtcPending')
    BY <2>2 DEF RtcAsked
  <2>5. RtcAsked' = (RtcAsked /\ RtcFlags' # {})
    BY <2>1, <2>3, <2>4 DEF RtcAsked
  <2>6. QED
    BY <2>1, <2>2, <2>3, <2>5
       DEF RT!Counter!Clear, RT!Counter!settings, RT!Counter!counter, RtcCount, RtcInto, RtcFlags,
           RtcAsked
<1>9. ASSUME RT!Serve
      PROVE  RtcCounting' /\ RT!Counter!Serve
  <2>1. /\ RT!Instruction /\ rtcPending /\ inten # {} /\ rtcPending' = FALSE
        /\ inten' = inten /\ flags' = flags
        /\ UNCHANGED <<on, rate, per, cmp, cnt, cpt, age, target, due>>
    BY <1>9 DEF RT!Serve, RT!settings, RT!timing
  <2>2. /\ RtcCounting' /\ RT!Owed' = RT!Owed /\ RtcCount' = RtcCount /\ RtcInto' = RtcInto
        /\ RT!Owed = {}
    BY <1>2, <2>1, RtcStays
  <2>3. RtcFlags' = RtcFlags /\ RtcAsked /\ RtcAsked' = FALSE
    BY <2>1, <2>2 DEF RtcFlags, RtcAsked
  <2>4. QED
    BY <2>1, <2>2, <2>3
       DEF RT!Counter!Serve, RT!Counter!settings, RT!Counter!counter, RtcCount, RtcInto, RtcFlags,
           RtcAsked
<1>10. ASSUME NEW r \in Rates, RT!ChangeClock(r)
       PROVE  RtcCounting' /\ RT!Counter!ChangeClock
  <2>1. /\ rate' = r
        /\ UNCHANGED <<on, per, cmp, cnt, cpt, age, target, due, flags, inten, rtcPending>>
    BY <1>10 DEF RT!ChangeClock, RT!timing, RT!request
  <2>2. /\ RT!Wrapped' = RT!Wrapped /\ RtcPeriod' = RtcPeriod /\ RtcMatch' = RtcMatch
    BY <2>1 DEF RT!Wrapped, RtcPeriod, RtcMatch
  <2>3. RT!HasWrapped' = RT!HasWrapped /\ RtcSpan' = RtcSpan
    BY <2>1, <2>2 DEF RT!HasWrapped, RtcSpan
  <2>4. RT!HasMatched' = RT!HasMatched
    BY <2>1, <2>2, <2>3 DEF RT!HasMatched
  <2>5. RT!Owed' = RT!Owed /\ RT!Position' = RT!Position
    BY <2>1, <2>2, <2>3, <2>4 DEF RT!Owed, RT!Position
  <2>6. RtcCounting'
    BY <2>1, <2>2, <2>3 DEF RtcCounting
  <2>7. RtcFlags' = RtcFlags /\ RtcAsked' = RtcAsked /\ RtcCount' = RtcCount /\ RtcInto' = RtcInto
    BY <2>1, <2>5 DEF RtcFlags, RtcAsked, RtcCount, RtcInto
  <2>8. QED
    BY <2>1, <2>6, <2>7
       DEF RT!Counter!ChangeClock, RT!Counter!counter, RT!Counter!interrupt, RtcCount, RtcInto,
           RtcFlags, RtcAsked
<1>11. ASSUME RT!Reset
       PROVE  RtcCounting' /\ RT!Counter!Reset
  <2>1. /\ on' = FALSE /\ rate' \in Rates /\ cnt' = 0 /\ per' = RT!Most /\ cmp' = 0
        /\ flags' = {} /\ inten' = {} /\ rtcPending' = FALSE /\ cpt' = cpt
    BY <1>11 DEF RT!Reset
  <2>2. RT!Owed' = {}
    BY <2>1 DEF RT!Owed, RT!HasWrapped, RT!HasMatched
  <2>3. RtcFlags' = {} /\ RtcAsked' = FALSE /\ RtcCount' = 0 /\ RtcInto' = 0
    BY <2>1, <2>2 DEF RtcFlags, RtcAsked, RtcCount, RtcInto
  <2>4. cpt \in Rates
    BY DEF RtcInv, RtcTiming
  <2>5. per' \in Counts /\ \A n \in Counts : n <= per'
    <3>1. RT!Most \in Nat /\ Counts = 0 .. RT!Most
      BY RtcCounts DEF RtcInv
    <3>2. QED  BY <2>1, <3>1
  <2>6. RtcCounting'
    BY <2>1 DEF RtcCounting
  <2>7. QED
    BY <2>1, <2>3, <2>4, <2>5, <2>6
       DEF RT!Counter!Reset, RT!Counter!Init, RtcCount, RtcInto, RtcFlags, RtcAsked
<1>12. ASSUME RT!Pass
       PROVE  RtcCounting' /\ RT!Counter!Cycle
  BY <1>1, <1>12, RtcPassKeeps, RtcPassCounts, Zenon
<1>13. ASSUME RT!Event
       PROVE  RtcCounting' /\ RtcShow' = RtcShow
  BY <1>1, <1>13, RtcEventKeeps, RtcEventShows, Zenon
<1>14. RT!Sources = RT!Counter!Sources
  BY DEF RT!Sources, RT!Counter!Sources
<1>15. QED
  <2>1. ASSUME NEW enable1 \in BOOLEAN, NEW r \in Rates,
               RT!WriteClock(enable1, rate) \/ RT!WriteClock(on, r)
        PROVE  RtcCounting' /\ RT!Counter!Write
    BY <1>3, <2>1, Zenon
  <2>2. ASSUME NEW n \in Counts,
               RT!WriteLimits(n, cmp) \/ RT!WriteLimits(per, n) \/ RT!WriteCount(n)
        PROVE  RtcCounting' /\ RT!Counter!Write
    BY <1>4, <1>5, <2>2, Zenon
  <2>3. ASSUME NEW sources \in SUBSET RT!Sources, RT!WriteInten(sources) \/ RT!WriteFlags(sources)
        PROVE  RtcCounting' /\ (RT!Counter!Enable(sources) \/ RT!Counter!Clear(sources))
    BY <1>7, <1>8, <2>3, Zenon
  <2>4. QED
    BY <1>6, <1>9, <1>10, <1>11, <1>12, <1>13, <1>14, <2>1, <2>2, <2>3, Zenon
       DEF RT!Next, RT!Counter!Next

LEMMA RtcStartsCounting ==
    ASSUME RT!WellFormed, RT!Init
    PROVE  RtcCounting /\ RT!Counter!Init
<1>1. on = FALSE /\ RT!Owed = {}
  BY DEF RT!Init, RT!Owed, RT!HasWrapped, RT!HasMatched
<1>2. RT!Most \in Nat /\ Counts = 0 .. RT!Most
  BY RtcCounts
<1>3. per \in Counts /\ \A n \in Counts : n <= per
  BY <1>2 DEF RT!Init
<1>4. RtcCounting
  BY <1>1 DEF RtcCounting
<1>5. RT!Counter!Init
  BY <1>1, <1>3 DEF RT!Init, RT!Counter!Init
<1>6. QED  BY <1>4, <1>5

=============================================================================
