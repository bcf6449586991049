--------------------------- MODULE ProtectedProofs ---------------------------
(***************************************************************************)
(* The proofs about MCProtected.  Each peripheral has an invariant of its  *)
(* own, with the lemmas that it holds initially (...InitHolds), is kept by *)
(* every step of the peripheral (...Keeps) and by those that leave it      *)
(* alone (...Stands), shows the properties of the peripheral (...Shows),   *)
(* and lets registers and memories change in sequence only (...InSequence).*)
(* The invariant of a part is their conjunction, with Counted: what the    *)
(* peripherals share, the CCP window, is open by what was executed since   *)
(* the signature.  The counters of the timers A and B are computed from    *)
(* the cycles since they were set; their invariants say where in its       *)
(* period the cycle timer that waits for the next event stands.            *)
(***************************************************************************)
EXTENDS MCProtected, TLAPS

-----------------------------------------------------------------------------
(* The timer A *)

BufferSets == UNION {[S -> Tops] : S \in SUBSET TA!Buffers}

TcaTypes ==
    [enable : BOOLEAN, clk : Scaled, mode : TA!Modes, act : TA!Actions, line : BOOLEAN, per : Tops,
     cmp : TA!Word, buf : BufferSets, lupd : BOOLEAN, sw : BOOLEAN, down : BOOLEAN, cnt : TA!Word,
     run : BOOLEAN, div : Scaled, since : Nat, phase : Nat, due : Int,
     flags : SUBSET {"OVF", "CMP"}, wo : BOOLEAN, counted : BOOLEAN]

\* The phase the clock has reached, if the period has not ended since.
Reached(t) == t.since \div t.div

IsDue(t) == t.due # TA!Never /\ t.due <= 0

\* The timer waits for the next phase to come, or for a cycle if the count was
\* written past the end of its period; it passes over no match.
WaitsForPhase(t) ==
    /\ t.phase \in 1 .. TA!Period(t) /\ t.due >= -Lateness
    /\ \/ t.due + t.since = t.phase * t.div
       \/ /\ t.phase = TA!Period(t) /\ t.since >= t.phase * t.div
          /\ t.due + t.since = t.phase * t.div + 1
          /\ t.due > 0 => ~t.counted
    /\ t.due > 0 => \A m \in TA!Matches(t) : ~(Reached(t) < m /\ m < t.phase)

\* A count that the clock moved to is flagged if it matches.
MatchIsFlagged(t) ==
    ~IsDue(t) /\ t.counted /\ TA!Position(t).cnt = t.cmp => "CMP" \in t.flags

LevelIsCounted(t) == ~IsDue(t) /\ ~(t.mode = "single" /\ t.down) => t.wo = TA!WoLevel(t)

Timed(t) ==
    /\ t \in TcaTypes
    /\ t.run <=> t.due # TA!Never
    /\ t.run <=> TA!ShouldRun(t)
    /\ t.run => WaitsForPhase(t)
    /\ MatchIsFlagged(t)

TcaSound(t) == Timed(t) /\ LevelIsCounted(t)

TcaInv == TcaSound(tca)

-----------------------------------------------------------------------------
(* The count *)

\* A quotient is below a bound that the product is below.
LEMMA QuotientBelow ==
    ASSUME NEW a \in Nat, NEW b \in Nat, NEW d \in Nat \ {0}, a < b * d
    PROVE  a \div d \in Nat /\ a \div d < b
<1> DEFINE q == a \div d
<1>1. q \in Nat /\ q * d <= a
  OBVIOUS
<1>2. q * d < b * d
  BY <1>1
<1>3. ASSUME q >= b
      PROVE  q * d >= b * d
  BY <1>1, <1>3
<1>4. QED  BY <1>1, <1>2, <1>3

LEMMA QuotientAbove ==
    ASSUME NEW a \in Nat, NEW b \in Nat, NEW d \in Nat \ {0}, a >= b * d
    PROVE  a \div d \in Nat /\ a \div d >= b
<1> DEFINE q == a \div d
<1>1. q \in Nat /\ a < (q + 1) * d
  OBVIOUS
<1>2. b * d < (q + 1) * d
  BY <1>1
<1>3. ASSUME b >= q + 1
      PROVE  b * d >= (q + 1) * d
  BY <1>1, <1>3
<1>4. QED  BY <1>1, <1>2, <1>3

\* The quotient of the next number is the same or one more.
LEMMA QuotientSteps ==
    ASSUME NEW a \in Nat, NEW d \in Nat \ {0}
    PROVE  (a + 1) \div d \in {a \div d, a \div d + 1}
<1> DEFINE q == a \div d
           r == (a + 1) \div d
<1>1. q \in Nat /\ q * d <= a /\ a < (q + 1) * d
  OBVIOUS
<1>2. r \in Nat /\ r * d <= a + 1 /\ a + 1 < (r + 1) * d
  OBVIOUS
<1>3. r >= q
  <2>1. q * d < (r + 1) * d
    BY <1>1, <1>2
  <2>2. ASSUME q >= r + 1
        PROVE  q * d >= (r + 1) * d
    BY <1>1, <1>2, <2>2
  <2>3. QED  BY <1>1, <1>2, <2>1, <2>2
<1>4. r <= q + 1
  <2>1. r * d < (q + 2) * d
    <3>1. (q + 2) * d = (q + 1) * d + d
      BY <1>1
    <3>2. r * d \in Int /\ (q + 1) * d \in Int
      BY <1>1, <1>2
    <3>3. QED  BY <1>1, <1>2, <3>1, <3>2
  <2>2. ASSUME r >= q + 2
        PROVE  r * d >= (q + 2) * d
    BY <1>1, <1>2, <2>2
  <2>3. QED  BY <1>1, <1>2, <2>1, <2>2
<1>5. QED  BY <1>1, <1>2, <1>3, <1>4

LEMMA Remainder ==
    ASSUME NEW a \in Nat, NEW n \in Nat \ {0}
    PROVE  a % n \in 0 .. n - 1 /\ (a < n => a % n = a)
OBVIOUS

LEMMA FieldsAreTyped ==
    ASSUME TA!WellFormed, NEW t \in TcaTypes
    PROVE  /\ t.per \in Nat /\ t.cmp \in Nat /\ t.cnt \in Nat /\ t.per <= MaxCount
           /\ t.div \in Nat /\ t.div # 0 /\ t.since \in Nat /\ t.phase \in Nat
           /\ t.due \in Int /\ MaxCount \in Nat /\ Lateness \in Nat
<1>1. t.per \in Tops /\ t.cmp \in TA!Word /\ t.cnt \in TA!Word /\ t.div \in Scaled
  BY DEF TcaTypes
<1>2. Tops \subseteq TA!Word /\ Scaled \subseteq Nat \ {0} /\ MaxCount \in Nat /\ Lateness \in Nat
  BY DEF TA!WellFormed
<1>3. t.since \in Nat /\ t.phase \in Nat /\ t.due \in Int
  BY DEF TcaTypes
<1>4. t.per \in 0 .. MaxCount
  BY <1>1, <1>2 DEF TA!Word
<1>5. t.cmp \in 0 .. MaxCount /\ t.cnt \in 0 .. MaxCount
  BY <1>1 DEF TA!Word
<1>6. t.div \in Nat \ {0}
  BY <1>1, <1>2
<1>7. t.per \in Nat /\ t.cmp \in Nat /\ t.cnt \in Nat /\ t.per <= MaxCount
  BY <1>2, <1>4, <1>5
<1>8. t.div \in Nat /\ t.div # 0
  BY <1>6
<1>9. QED  BY <1>2, <1>3, <1>7, <1>8

LEMMA PeriodIsPositive ==
    ASSUME TA!WellFormed, NEW t \in TcaTypes
    PROVE  TA!Period(t) \in Nat /\ TA!Period(t) > 0
BY FieldsAreTyped DEF TA!Period

\* The count of a phase of the period.
LEMMA CountIsTyped ==
    ASSUME TA!WellFormed, NEW t \in TcaTypes, NEW r \in Nat, r < TA!Period(t)
    PROVE  TA!CountAt(t, r).cnt \in TA!Word /\ TA!CountAt(t, r).down \in BOOLEAN
<1>1. t.per \in Nat /\ t.per <= MaxCount /\ MaxCount \in Nat
  BY FieldsAreTyped
<1>2. t.down \in BOOLEAN
  BY DEF TcaTypes
<1>3. CASE TA!Dual(t)
  <2>1. /\ TA!CountAt(t, r).cnt = IF r > t.per THEN 2 * t.per - r ELSE r
        /\ TA!CountAt(t, r).down = (r > t.per)
    BY <1>3 DEF TA!CountAt
  <2>2. TA!CountAt(t, r).cnt \in 0 .. MaxCount
    BY <1>1, <1>3, <2>1 DEF TA!Period
  <2>3. QED  BY <2>1, <2>2 DEF TA!Word
<1>4. CASE ~TA!Dual(t)
  <2>1. /\ TA!CountAt(t, r).cnt = IF t.down THEN t.per - r ELSE r
        /\ TA!CountAt(t, r).down = t.down
    BY <1>4 DEF TA!CountAt
  <2>2. TA!CountAt(t, r).cnt \in 0 .. MaxCount
    BY <1>1, <1>4, <2>1 DEF TA!Period
  <2>3. QED  BY <1>2, <2>1, <2>2 DEF TA!Word
<1>5. QED  BY <1>3, <1>4

\* The position of a timer that runs, and of one that stands.
LEMMA PositionIsTyped ==
    ASSUME TA!WellFormed, NEW t \in TcaTypes
    PROVE  TA!Position(t).cnt \in TA!Word /\ TA!Position(t).down \in BOOLEAN
<1>1. CASE t.run
  <2>1. Reached(t) \in Nat
    BY FieldsAreTyped DEF Reached
  <2>2. TA!Period(t) \in Nat \ {0}
    BY PeriodIsPositive
  <2>3. Reached(t) % TA!Period(t) \in 0 .. TA!Period(t) - 1
    BY <2>1, <2>2, Remainder
  <2>4. Reached(t) % TA!Period(t) \in Nat /\ Reached(t) % TA!Period(t) < TA!Period(t)
    BY <2>2, <2>3
  <2>5. QED  BY <1>1, <2>4, CountIsTyped DEF TA!Position, Reached
<1>2. CASE ~t.run
  BY <1>2 DEF TA!Position, TcaTypes
<1>3. QED  BY <1>1, <1>2

LEMMA PositionIsReached ==
    ASSUME TA!WellFormed, NEW t \in TcaTypes, t.run, Reached(t) < TA!Period(t)
    PROVE  TA!Position(t) = TA!CountAt(t, Reached(t))
<1>1. Reached(t) \in Nat
  BY FieldsAreTyped DEF Reached
<1>2. Reached(t) % TA!Period(t) = Reached(t)
  BY <1>1, PeriodIsPositive, Remainder
<1>3. QED  BY <1>2 DEF TA!Position, Reached

\* A count that is CMP has a phase that matches.
LEMMA MatchIsPhase ==
    ASSUME TA!WellFormed, NEW t \in TcaTypes, NEW r \in Nat, r < TA!Period(t),
           TA!CountAt(t, r).cnt = t.cmp
    PROVE  r \in TA!Matches(t)
<1>1. t.per \in Nat /\ t.cmp \in Nat
  BY FieldsAreTyped
<1>2. CASE TA!Dual(t)
  <2>1. t.cmp = IF r > t.per THEN 2 * t.per - r ELSE r
    BY <1>2 DEF TA!CountAt
  <2>2. t.cmp <= t.per /\ (r = t.cmp \/ r = 2 * t.per - t.cmp)
    BY <1>1, <1>2, <2>1 DEF TA!Period
  <2>3. QED  BY <1>1, <1>2, <2>2 DEF TA!Matches
<1>3. CASE ~TA!Dual(t)
  <2>1. t.cmp = IF t.down THEN t.per - r ELSE r
    BY <1>3 DEF TA!CountAt
  <2>2. t.cmp <= t.per /\ r = IF t.down THEN t.per - t.cmp ELSE t.cmp
    BY <1>1, <1>3, <2>1 DEF TA!Period
  <2>3. QED  BY <1>1, <1>3, <2>2 DEF TA!Matches
<1>4. QED  BY <1>2, <1>3

\* The next phase is the end of the period or a match before it, and no match is
\* passed over.
LEMMA NextPhaseIsNext ==
    ASSUME TA!WellFormed, NEW t \in TcaTypes, NEW phase \in Nat
    PROVE  /\ TA!NextPhase(t, phase) \in 1 .. TA!Period(t)
           /\ TA!NextPhase(t, phase) > phase \/ TA!NextPhase(t, phase) = TA!Period(t)
           /\ \A m \in TA!Matches(t) : ~(phase < m /\ m < TA!NextPhase(t, phase))
<1> DEFINE S == {TA!Period(t)} \cup {m \in TA!Matches(t) : m > phase /\ m < TA!Period(t)}
<1>1. TA!Period(t) \in Nat /\ TA!Period(t) > 0
  BY PeriodIsPositive
<1>2. PICK a, b \in Int : TA!Matches(t) = {} \/ TA!Matches(t) = {a, b}
  <2>1. t.per \in Nat /\ t.cmp \in Nat
    BY FieldsAreTyped
  <2>2. CASE t.cmp > t.per
    BY <2>2 DEF TA!Matches
  <2>3. CASE t.cmp <= t.per /\ TA!Dual(t)
    BY <2>1, <2>3 DEF TA!Matches
  <2>4. CASE t.cmp <= t.per /\ ~TA!Dual(t)
    <3>1. TA!Matches(t) = {IF t.down THEN t.per - t.cmp ELSE t.cmp}
      BY <2>1, <2>4 DEF TA!Matches
    <3>2. QED  BY <2>1, <3>1
  <2>5. QED  BY <2>1, <2>2, <2>3, <2>4
<1>3. \E x \in S : \A y \in S : x <= y
  BY <1>1, <1>2
<1>4. TA!Min(S) \in S /\ \A y \in S : TA!Min(S) <= y
  BY <1>3 DEF TA!Min
<1>5. TA!NextPhase(t, phase) = TA!Min(S)
  BY DEF TA!NextPhase
<1>6. QED  BY <1>1, <1>2, <1>4, <1>5

\* The output keeps its level from one match to the next.
LEMMA LevelStays ==
    ASSUME TA!WellFormed, NEW t \in TcaTypes, NEW u \in TcaTypes,
           \A f \in {"enable", "mode", "per", "cmp", "down"} : u[f] = t[f],
           t.run, u.run, Reached(t) <= Reached(u), Reached(u) < TA!Period(t),
           \A m \in TA!Matches(t) : ~(Reached(t) < m /\ m <= Reached(u)),
           ~(t.mode = "single" /\ t.down)
    PROVE  TA!WoLevel(u) <=> TA!WoLevel(t)
<1>1. /\ u.enable = t.enable /\ u.mode = t.mode /\ u.per = t.per /\ u.cmp = t.cmp
      /\ u.down = t.down /\ (TA!Dual(u) <=> TA!Dual(t)) /\ TA!Period(u) = TA!Period(t)
  BY DEF TA!Dual, TA!Period
<1>2. /\ Reached(t) \in Nat /\ Reached(u) \in Nat /\ t.per \in Nat /\ t.cmp \in Nat
      /\ Reached(t) < TA!Period(t) /\ TA!Period(t) \in Nat
  BY FieldsAreTyped, PeriodIsPositive DEF Reached
<1>3. TA!Position(t) = TA!CountAt(t, Reached(t)) /\ TA!Position(u) = TA!CountAt(t, Reached(u))
  <2>1. TA!CountAt(u, Reached(u)) = TA!CountAt(t, Reached(u))
    BY <1>1 DEF TA!CountAt
  <2>2. QED  BY <1>1, <1>2, <2>1, PositionIsReached
<1>4. CASE t.cmp > t.per
  BY <1>1, <1>2, <1>4 DEF TA!WoLevel
<1>5. CASE t.cmp <= t.per /\ TA!Dual(t)
  <2>1. TA!Matches(t) = {t.cmp, 2 * t.per - t.cmp}
    BY <1>2, <1>5 DEF TA!Matches
  <2>2. /\ TA!Position(t).cnt = IF Reached(t) > t.per THEN 2 * t.per - Reached(t) ELSE Reached(t)
        /\ TA!Position(t).down = (Reached(t) > t.per)
        /\ TA!Position(u).cnt = IF Reached(u) > t.per THEN 2 * t.per - Reached(u) ELSE Reached(u)
        /\ TA!Position(u).down = (Reached(u) > t.per)
    BY <1>3, <1>5 DEF TA!CountAt
  <2>3. CASE t.cmp = t.per
    BY <1>1, <1>5, <2>3 DEF TA!WoLevel
  <2>4. CASE t.cmp < t.per
    <3>1. /\ ~(Reached(t) < t.cmp /\ t.cmp <= Reached(u))
          /\ ~(Reached(t) < 2 * t.per - t.cmp /\ 2 * t.per - t.cmp <= Reached(u))
      BY <2>1
    <3>2. ASSUME NEW r \in Nat, NEW n \in Int, NEW d \in BOOLEAN, r < 2 * t.per,
                 n = (IF r > t.per THEN 2 * t.per - r ELSE r), d = (r > t.per)
          PROVE  (n < t.cmp \/ (d /\ n = t.cmp)) <=> (r < t.cmp \/ r >= 2 * t.per - t.cmp)
      <4>1. CASE r > t.per
        <5>1. d /\ n = 2 * t.per - r
          BY <3>2, <4>1
        <5>2. QED  BY <1>2, <2>4, <4>1, <5>1
      <4>2. CASE ~(r > t.per)
        <5>1. ~d
          BY <3>2, <4>2
        <5>2. n = r
          BY <3>2, <4>2
        <5>3. QED  BY <1>2, <2>4, <4>2, <5>1, <5>2
      <4>3. QED  BY <1>2, <4>1, <4>2
    <3>3. Reached(t) < 2 * t.per /\ Reached(u) < 2 * t.per
      BY <1>2, <1>5, <2>4 DEF TA!Period
    <3>4. /\ TA!WoLevel(t) <=> /\ t.enable /\ t.cmp # 0
                               /\ TA!Position(t).cnt < t.cmp
                                  \/ (TA!Position(t).down /\ TA!Position(t).cnt = t.cmp)
          /\ TA!WoLevel(u) <=> /\ t.enable /\ t.cmp # 0
                               /\ TA!Position(u).cnt < t.cmp
                                  \/ (TA!Position(u).down /\ TA!Position(u).cnt = t.cmp)
      BY <1>1, <1>2, <1>5, <2>4 DEF TA!WoLevel
    <3>5. TA!Position(t).cnt \in Int /\ TA!Position(u).cnt \in Int
      BY <1>2, <2>2
    <3>6. (TA!Position(t).cnt < t.cmp \/ (TA!Position(t).down /\ TA!Position(t).cnt = t.cmp))
             <=> (Reached(t) < t.cmp \/ Reached(t) >= 2 * t.per - t.cmp)
      <4> DEFINE n == TA!Position(t).cnt
                 d == TA!Position(t).down
                 r == Reached(t)
      <4>1. r \in Nat /\ n \in Int /\ d \in BOOLEAN /\ r < 2 * t.per
            /\ n = (IF r > t.per THEN 2 * t.per - r ELSE r) /\ d = (r > t.per)
        BY <1>2, <2>2, <3>3, <3>5
      <4> HIDE DEF n, d, r
      <4>2. (n < t.cmp \/ (d /\ n = t.cmp)) <=> (r < t.cmp \/ r >= 2 * t.per - t.cmp)
        BY <3>2, <4>1
      <4>3. QED  BY <4>2 DEF n, d, r
    <3>7. (TA!Position(u).cnt < t.cmp \/ (TA!Position(u).down /\ TA!Position(u).cnt = t.cmp))
             <=> (Reached(u) < t.cmp \/ Reached(u) >= 2 * t.per - t.cmp)
      <4> DEFINE n == TA!Position(u).cnt
                 d == TA!Position(u).down
                 r == Reached(u)
      <4>1. r \in Nat /\ n \in Int /\ d \in BOOLEAN /\ r < 2 * t.per
            /\ n = (IF r > t.per THEN 2 * t.per - r ELSE r) /\ d = (r > t.per)
        BY <1>2, <2>2, <3>3, <3>5
      <4> HIDE DEF n, d, r
      <4>2. (n < t.cmp \/ (d /\ n = t.cmp)) <=> (r < t.cmp \/ r >= 2 * t.per - t.cmp)
        BY <3>2, <4>1
      <4>3. QED  BY <4>2 DEF n, d, r
    <3>8. QED  BY <1>2, <2>4, <3>1, <3>4, <3>6, <3>7
  <2>5. QED  BY <1>2, <1>5, <2>3, <2>4
<1>6. CASE t.cmp <= t.per /\ ~TA!Dual(t)
  <2>1. ~t.down
    BY <1>6 DEF TA!Dual, TcaTypes, TA!Modes
  <2>2. TA!Matches(t) = {t.cmp}
    BY <1>2, <1>6, <2>1 DEF TA!Matches
  <2>3. TA!Position(t).cnt = Reached(t) /\ TA!Position(u).cnt = Reached(u)
    BY <1>3, <1>6, <2>1 DEF TA!CountAt
  <2>4. QED  BY <1>1, <1>2, <1>6, <2>2, <2>3 DEF TA!WoLevel
<1>7. QED  BY <1>2, <1>4, <1>5, <1>6

\* What the count is read from.
LEMMA CountReads ==
    ASSUME NEW t, NEW u,
           u.mode = t.mode, u.per = t.per, u.cmp = t.cmp, u.down = t.down
    PROVE  /\ TA!Period(u) = TA!Period(t) /\ TA!Matches(u) = TA!Matches(t)
           /\ (TA!Dual(u) <=> TA!Dual(t))
           /\ \A r : TA!CountAt(u, r) = TA!CountAt(t, r)
BY DEF TA!Dual, TA!Period, TA!Matches, TA!CountAt

\* What the output is read from.
LEMMA LevelReads ==
    ASSUME NEW t, NEW u,
           \A f \in {"enable", "mode", "per", "cmp", "down", "cnt", "run", "since", "div"} :
               u[f] = t[f]
    PROVE  TA!Position(u) = TA!Position(t) /\ (TA!WoLevel(u) <=> TA!WoLevel(t))
<1>1. /\ u.enable = t.enable /\ u.mode = t.mode /\ u.per = t.per /\ u.cmp = t.cmp
      /\ u.down = t.down /\ u.cnt = t.cnt /\ u.run = t.run /\ u.since = t.since
      /\ u.div = t.div
  OBVIOUS
<1>2. TA!Period(u) = TA!Period(t) /\ (TA!Dual(u) <=> TA!Dual(t)) /\ \A r : TA!CountAt(u,
        r) = TA!CountAt(t, r)
  BY CountReads
<1>3. TA!Position(u) = TA!Position(t)
  BY <1>1, <1>2 DEF TA!Position
<1>4. QED  BY <1>1, <1>2, <1>3 DEF TA!WoLevel

\* The output is set from the count.
LEMMA EmitIsSound ==
    ASSUME NEW t, Timed(t)
    PROVE  TcaSound(TA!EmitWo(t))
<1> DEFINE u == TA!EmitWo(t)
<1>1. t \in TcaTypes /\ TA!WoLevel(t) \in BOOLEAN
  BY DEF Timed, TA!WoLevel
<1>2. u = [t EXCEPT !.wo = TA!WoLevel(t)]
  BY DEF TA!EmitWo
<1>3. /\ u \in TcaTypes /\ u.wo = TA!WoLevel(t)
      /\ \A f \in {"enable", "mode", "act", "line", "per", "cmp", "down", "cnt", "run", "div",
                   "since", "phase", "due", "flags", "counted"} : u[f] = t[f]
  BY <1>1, <1>2 DEF TcaTypes
<1> HIDE DEF u
<1>4. /\ u.enable = t.enable /\ u.act = t.act /\ u.line = t.line /\ u.run = t.run
      /\ u.div = t.div /\ u.since = t.since /\ u.phase = t.phase /\ u.due = t.due
      /\ u.flags = t.flags /\ u.counted = t.counted /\ u.cmp = t.cmp
  BY <1>3
<1>5. TA!Period(u) = TA!Period(t) /\ TA!Matches(u) = TA!Matches(t)
  BY <1>3, CountReads
<1>6. TA!Position(u) = TA!Position(t) /\ (TA!WoLevel(u) <=> TA!WoLevel(t))
  BY <1>3, LevelReads
<1>7. (TA!ShouldRun(u) <=> TA!ShouldRun(t)) /\ (WaitsForPhase(u) <=> WaitsForPhase(t))
  BY <1>4, <1>5 DEF TA!ShouldRun, WaitsForPhase, Reached
<1>8. MatchIsFlagged(u) <=> MatchIsFlagged(t)
  BY <1>4, <1>6 DEF MatchIsFlagged, IsDue
<1>9. Timed(u)
  BY <1>3, <1>4, <1>7, <1>8 DEF Timed
<1>10. u.wo = TA!WoLevel(u)
  BY <1>1, <1>3, <1>6, Zenon DEF TA!WoLevel
<1>11. QED  BY <1>9, <1>10 DEF TcaSound, LevelIsCounted, u

\* A timer that stands is timed.
LEMMA IdleIsTimed ==
    ASSUME NEW t \in TcaTypes, ~t.run, t.due = TA!Never, ~TA!ShouldRun(t),
           t.counted /\ t.cnt = t.cmp => "CMP" \in t.flags
    PROVE  Timed(t)
<1>1. TA!Position(t).cnt = t.cnt
  BY DEF TA!Position
<1>2. QED  BY <1>1 DEF Timed, MatchIsFlagged

LEMMA StopIsTyped ==
    ASSUME TA!WellFormed, NEW t \in TcaTypes
    PROVE  TA!Stop(t) \in TcaTypes /\ ~TA!Stop(t).run /\ TA!Stop(t).due = TA!Never
           /\ \A f \in {"enable", "act", "line", "mode", "per", "cmp"} : TA!Stop(t)[f] = t[f]
<1>1. PICK n \in TA!Word, d \in BOOLEAN : n = TA!Position(t).cnt /\ d = TA!Position(t).down
  BY PositionIsTyped
<1>2. PICK v \in Int : v = TA!Never
  BY DEF TA!Never
<1>3. PICK s : s = TA!Stop(t)
  OBVIOUS
<1>4. s = [t EXCEPT !.cnt = n, !.down = d, !.run = FALSE, !.due = v, !.since = 0, !.phase = 0]
  BY <1>1, <1>2, <1>3 DEF TA!Stop
<1>5. s \in TcaTypes
  BY <1>4 DEF TcaTypes
<1>6. /\ ~s.run /\ s.due = v
      /\ \A f \in {"enable", "act", "line", "mode", "per", "cmp"} : s[f] = t[f]
  BY <1>4 DEF TcaTypes
<1>7. QED  BY <1>2, <1>3, <1>5, <1>6

LEMMA PhaseIsBounded ==
    ASSUME TA!WellFormed, NEW t \in TcaTypes
    PROVE  TA!PhaseOf(t) \in Nat /\ TA!PhaseOf(t) <= TA!Period(t)
<1>1. t.per \in Nat /\ t.cnt \in Nat /\ TA!Period(t) \in Nat /\ TA!Period(t) > 0
  BY FieldsAreTyped, PeriodIsPositive
<1>2. CASE TA!Dual(t) /\ t.cnt <= t.per
  <2>1. TA!PhaseOf(t) = IF t.down /\ t.cnt # 0 THEN 2 * t.per - t.cnt ELSE t.cnt
    BY <1>2 DEF TA!PhaseOf
  <2>2. QED  BY <1>1, <1>2, <2>1 DEF TA!Period
<1>3. CASE ~TA!Dual(t) /\ t.cnt <= t.per
  <2>1. TA!PhaseOf(t) = IF t.down THEN t.per - t.cnt ELSE t.cnt
    BY <1>3 DEF TA!PhaseOf
  <2>2. QED  BY <1>1, <1>3, <2>1 DEF TA!Period
<1>4. CASE ~(t.cnt <= t.per)
  <2>1. TA!PhaseOf(t) = IF ~TA!Dual(t) /\ t.down THEN 0 ELSE TA!Period(t)
    BY <1>4 DEF TA!PhaseOf
  <2>2. QED  BY <1>1, <2>1
<1>5. QED  BY <1>1, <1>2, <1>3, <1>4

\* A product is divided again.
LEMMA QuotientOfProduct ==
    ASSUME NEW a \in Nat, NEW d \in Nat \ {0}
    PROVE  (a * d) \div d = a
<1>1. a * d \in Nat /\ a * d < (a + 1) * d
  OBVIOUS
<1>2. (a * d) \div d < a + 1 /\ (a * d) \div d >= a /\ (a * d) \div d \in Nat
  <2>1. a * d >= a * d
    BY <1>1
  <2>2. a + 1 \in Nat
    OBVIOUS
  <2>3. QED  BY <1>1, <2>1, <2>2, QuotientBelow, QuotientAbove
<1>3. QED  BY <1>2

\* The counter is anchored at the phase of the count in its register.
LEMMA AnchoredIsTimed ==
    ASSUME TA!WellFormed, NEW t \in TcaTypes, TA!ShouldRun(t), ~t.counted
    PROVE  Timed(TA!Anchored(t))
<1> DEFINE ph == TA!PhaseOf(t)
           next == TA!NextPhase(t, ph)
           due == IF next > ph THEN (next - ph) * t.div ELSE 1
           a == TA!Anchored(t)
<1>1. ph \in Nat /\ ph <= TA!Period(t) /\ TA!Period(t) \in Nat /\ TA!Period(t) > 0
  BY PhaseIsBounded, PeriodIsPositive
<1>2. t.div \in Nat \ {0} /\ Lateness \in Nat
  BY FieldsAreTyped
<1>3. next \in 1 .. TA!Period(t) /\ (next > ph \/ next = TA!Period(t))
      /\ \A m \in TA!Matches(t) : ~(ph < m /\ m < next)
  BY <1>1, NextPhaseIsNext
<1> HIDE DEF ph, next
<1>4. next \in Nat /\ ph * t.div \in Nat
  BY <1>1, <1>2, <1>3
<1>5. due \in Nat /\ due > 0
  <2>1. CASE next > ph
    <3>1. next - ph \in Nat /\ next - ph > 0
      BY <1>1, <1>4, <2>1
    <3>2. ASSUME NEW x \in Nat, x > 0, NEW y \in Nat \ {0}
          PROVE  x * y \in Nat /\ x * y > 0
      BY <3>2
    <3>3. (next - ph) * t.div \in Nat /\ (next - ph) * t.div > 0
      BY <1>2, <3>1, <3>2
    <3>4. QED  BY <2>1, <3>3
  <2>2. CASE ~(next > ph)
    BY <2>2
  <2>3. QED  BY <2>1, <2>2
<1>6. a = [t EXCEPT !.run = TRUE, !.cnt = 0, !.since = ph * t.div, !.phase = next, !.due = due]
  BY DEF TA!Anchored, ph, next
<1> HIDE DEF due
<1>7. 0 \in TA!Word
  BY DEF TA!Word, TA!WellFormed
<1>8. PICK elapsed \in Nat, p \in Nat, d \in Int : elapsed = ph * t.div /\ p = next /\ d = due
  BY <1>4, <1>5
<1> HIDE DEF a
<1>9. /\ a \in TcaTypes /\ a.run /\ a.since = ph * t.div /\ a.phase = next /\ a.due = due
      /\ \A f \in {"enable", "act", "line", "mode", "per", "cmp", "down", "div",
                   "counted"} : a[f] = t[f]
  <2>1. a = [t EXCEPT !.run = TRUE, !.cnt = 0, !.since = elapsed, !.phase = p, !.due = d]
    BY <1>6, <1>8
  <2>2. /\ a \in TcaTypes /\ a.run /\ a.since = elapsed /\ a.phase = p /\ a.due = d
        /\ \A f \in {"enable", "act", "line", "mode", "per", "cmp", "down", "div",
                     "counted"} : a[f] = t[f]
    BY <1>7, <2>1 DEF TcaTypes
  <2>3. QED  BY <1>8, <2>2
<1>10. TA!Period(a) = TA!Period(t) /\ TA!Matches(a) = TA!Matches(t)
  BY <1>9, CountReads
<1>11. Reached(a) = ph
  BY <1>1, <1>2, <1>9, QuotientOfProduct DEF Reached
<1>12. WaitsForPhase(a)
  <2>1. a.phase \in 1 .. TA!Period(a) /\ a.due >= -Lateness
    BY <1>2, <1>3, <1>5, <1>9, <1>10
  <2>2. \A m \in TA!Matches(a) : ~(Reached(a) < m /\ m < a.phase)
    BY <1>3, <1>9, <1>10, <1>11
  <2>3. CASE next > ph
    <3>1. due = (next - ph) * t.div
      BY <2>3 DEF due
    <3>2. due + ph * t.div = next * t.div
      BY <1>1, <1>2, <1>4, <3>1
    <3>3. a.due + a.since = a.phase * a.div
      BY <1>9, <3>2
    <3>4. QED  BY <2>1, <2>2, <3>3 DEF WaitsForPhase
  <2>4. CASE ~(next > ph)
    <3>1. next = ph /\ next = TA!Period(t) /\ due = 1
      BY <1>1, <1>3, <1>4, <2>4 DEF due
    <3>2. a.phase = TA!Period(a) /\ a.since = a.phase * a.div /\ ~a.counted /\ a.due = 1
      BY <1>9, <1>10, <3>1
    <3>3. a.due + a.since = a.phase * a.div + 1 /\ a.since >= a.phase * a.div
      BY <1>4, <1>9, <3>2
    <3>4. QED  BY <2>1, <2>2, <3>2, <3>3 DEF WaitsForPhase
  <2>5. QED  BY <2>3, <2>4
<1>13. a.due # TA!Never
  BY <1>5, <1>9 DEF TA!Never
<1>14. TA!ShouldRun(a)
  BY <1>9 DEF TA!ShouldRun
<1>15. MatchIsFlagged(a)
  BY <1>9 DEF MatchIsFlagged
<1>16. QED  BY <1>9, <1>12, <1>13, <1>14, <1>15 DEF Timed, a

LEMMA TcaRescheduleIsSound ==
    ASSUME TA!WellFormed, NEW t \in TcaTypes
    PROVE  TcaSound(TA!Reschedule(t))
<1> DEFINE s == [TA!Stop(t) EXCEPT !.counted = FALSE]
           a == [s EXCEPT !.div = s.clk, !.down = IF TA!Dual(s) THEN @ ELSE TA!WantDown(s)]
<1>1. /\ s \in TcaTypes /\ ~s.run /\ s.due = TA!Never /\ ~s.counted
      /\ s.clk \in Scaled /\ s.down \in BOOLEAN
  BY StopIsTyped DEF TcaTypes
<1> HIDE DEF s
<1>2. TA!WantDown(s) \in BOOLEAN
  BY <1>1 DEF TA!WantDown, TcaTypes
<1>3. TA!Reschedule(t) = TA!EmitWo(IF ~TA!ShouldRun(s) THEN s ELSE TA!Anchored(a))
  BY DEF TA!Reschedule, s
<1>4. CASE ~TA!ShouldRun(s)
  <2>1. Timed(s)
    BY <1>1, <1>4, IdleIsTimed
  <2>2. QED  BY <1>3, <1>4, <2>1, EmitIsSound
<1>5. CASE TA!ShouldRun(s)
  <2>1. a = [s EXCEPT !.div = s.clk, !.down = IF TA!Dual(s) THEN s.down ELSE TA!WantDown(s)]
    BY <1>1 DEF TcaTypes
  <2> HIDE DEF a
  <2>2. PICK d \in BOOLEAN,
             v \in Scaled : d = (IF TA!Dual(s) THEN s.down ELSE TA!WantDown(s)) /\ v = s.clk
    BY <1>1, <1>2
  <2>3. /\ a \in TcaTypes
        /\ \A f \in {"enable", "act", "line", "counted"} : a[f] = s[f]
    <3>1. a = [s EXCEPT !.div = v, !.down = d]
      BY <2>1, <2>2
    <3>2. QED  BY <1>1, <3>1 DEF TcaTypes
  <2>4. TA!ShouldRun(a) /\ ~a.counted
    BY <1>1, <1>5, <2>3 DEF TA!ShouldRun
  <2>5. QED  BY <1>3, <1>5, <2>3, <2>4, AnchoredIsTimed, EmitIsSound
<1>6. QED  BY <1>4, <1>5

\* A matching count is flagged.
LEMMA MatchedIsTyped ==
    ASSUME NEW t \in TcaTypes, NEW n
    PROVE  /\ TA!Matched(t, n) \in TcaTypes /\ (t.cmp = n => "CMP" \in TA!Matched(t, n).flags)
           /\ \A f \in {"enable", "act", "line", "mode", "sw", "per", "cmp", "down", "cnt", "run",
                        "div", "since", "phase", "due", "counted"} : TA!Matched(t, n)[f] = t[f]
<1> DEFINE m == TA!Matched(t, n)
<1>1. CASE t.cmp = n
  <2>1. m = [t EXCEPT !.flags = t.flags \cup {"CMP"}]
    BY <1>1 DEF TA!Matched, TA!Flagged, TcaTypes
  <2> HIDE DEF m
  <2>2. PICK F \in SUBSET {"OVF", "CMP"} : F = t.flags \cup {"CMP"}
    BY DEF TcaTypes
  <2>3. m = [t EXCEPT !.flags = F]
    BY <2>1, <2>2
  <2>4. /\ m \in TcaTypes /\ m.flags = F
        /\ \A f \in {"enable", "act", "line", "mode", "sw", "per", "cmp", "down", "cnt", "run",
                     "div", "since", "phase", "due", "counted"} : m[f] = t[f]
    BY <2>3 DEF TcaTypes
  <2>5. QED  BY <2>2, <2>4 DEF m
<1>2. CASE t.cmp # n
  BY <1>2 DEF TA!Matched
<1>3. QED  BY <1>1, <1>2

LEMMA MatchesAreIntegers ==
    ASSUME TA!WellFormed, NEW t \in TcaTypes, NEW x \in TA!Matches(t)
    PROVE  x \in Int
<1>1. t.per \in Int /\ t.cmp \in Int
  BY FieldsAreTyped
<1>2. x \in {t.cmp, 2 * t.per - t.cmp} \/ x = (IF t.down THEN t.per - t.cmp ELSE t.cmp)
  BY DEF TA!Matches
<1>3. QED  BY <1>1, <1>2

\* The next phase lies after the one that is due.
LEMMA DueIsLater ==
    ASSUME TA!WellFormed, NEW t \in TcaTypes, NEW ph \in Nat, ph < TA!Period(t),
           t.since + t.due = ph * t.div, NEW next, next = TA!NextPhase(t, ph)
    PROVE  /\ next \in Nat /\ next > ph
           /\ next * t.div - t.since \in Int /\ next * t.div - t.since > t.due
<1>1. /\ t.div \in Nat \ {0} /\ t.since \in Nat /\ t.due \in Int
      /\ TA!Period(t) \in Nat /\ TA!Period(t) > 0
  BY FieldsAreTyped, PeriodIsPositive
<1>2. next \in Nat /\ next > ph
  BY <1>1, NextPhaseIsNext
<1>3. ASSUME NEW x \in Nat, NEW y \in Nat, y > x, NEW z \in Nat \ {0}
      PROVE  y * z \in Nat /\ x * z \in Nat /\ y * z > x * z
  BY <1>3
<1>4. next * t.div \in Nat /\ ph * t.div \in Nat /\ next * t.div > ph * t.div
  BY <1>1, <1>2, <1>3
<1>5. QED  BY <1>1, <1>2, <1>4

\* What the event arms for a count of the period that it flagged.
LEMMA EventIsSound ==
    ASSUME TA!WellFormed, NEW t \in TcaTypes, NEW ph \in Nat, ph < TA!Period(t), t.run,
           TA!ShouldRun(t),
           t.due <= 0, t.due >= -Lateness, t.since + t.due = ph * t.div,
           NEW next, next = TA!NextPhase(t, ph), NEW due, due = next * t.div - t.since,
           NEW m, m = TA!Matched(t, TA!CountAt(t, ph).cnt),
           NEW u \in TcaTypes, u.phase = next, u.due = due,
           \A f \in {"enable", "act", "line", "mode", "per", "cmp", "down", "cnt", "run", "div",
                    "since", "flags", "counted"} : u[f] = m[f]
    PROVE  TcaSound(TA!EmitWo(u))
<1>1. /\ m \in TcaTypes /\ (t.cmp = TA!CountAt(t, ph).cnt => "CMP" \in m.flags)
      /\ \A f \in {"enable", "act", "line", "mode", "sw", "per", "cmp", "down", "cnt", "run",
                   "div", "since", "phase", "due", "counted"} : m[f] = t[f]
  BY MatchedIsTyped
<1>2. /\ t.div \in Nat \ {0} /\ Lateness \in Nat /\ t.since \in Nat /\ t.due \in Int
      /\ TA!Period(t) \in Nat /\ TA!Period(t) > 0
  BY FieldsAreTyped, PeriodIsPositive
<1>3. /\ next \in Nat /\ next > ph /\ due \in Int /\ due > t.due
  BY DueIsLater
<1>4. /\ next \in 1 .. TA!Period(t)
      /\ \A x \in TA!Matches(t) : ~(ph < x /\ x < next)
  BY NextPhaseIsNext
<1>5. /\ u.enable = t.enable /\ u.act = t.act /\ u.line = t.line /\ u.run = t.run
      /\ u.div = t.div /\ u.since = t.since /\ u.flags = m.flags /\ u.cmp = t.cmp
      /\ u.mode = t.mode /\ u.per = t.per /\ u.down = t.down
  BY <1>1
<1>6. /\ TA!Period(u) = TA!Period(t) /\ TA!Matches(u) = TA!Matches(t)
      /\ \A r : TA!CountAt(u, r) = TA!CountAt(t, r)
  BY <1>5, CountReads
<1>7. Reached(u) \in Nat /\ Reached(u) >= ph /\ (due > 0 => Reached(u) < next)
  <2>1. ph * t.div \in Nat /\ next * t.div \in Nat
    BY <1>2, <1>3
  <2>2. t.since >= ph * t.div
    BY <1>2, <2>1
  <2>3. due > 0 => t.since < next * t.div
    BY <1>2, <2>1
  <2>4. QED  BY <1>2, <1>3, <1>5, <2>2, <2>3, QuotientBelow, QuotientAbove DEF Reached
<1>8. u.due # TA!Never /\ u.due >= -Lateness /\ u.due \in Int
  BY <1>2, <1>3 DEF TA!Never, TA!WellFormed
<1>9. WaitsForPhase(u)
  <2>1. u.phase \in 1 .. TA!Period(u)
    BY <1>4, <1>6
  <2>2. u.due + u.since = u.phase * u.div
    <3>1. next * t.div \in Nat
      BY <1>2, <1>3
    <3>2. due + t.since = next * t.div
      BY <1>2, <3>1
    <3>3. QED  BY <1>5, <3>2
  <2>3. ASSUME NEW x \in TA!Matches(u)
        PROVE  ~(Reached(u) < x /\ x < u.phase)
    <3>1. x \in Int
      BY <1>6, MatchesAreIntegers
    <3>2. ~(ph < x /\ x < next)
      BY <1>4, <1>6
    <3>3. QED  BY <1>3, <1>7, <3>1, <3>2
  <2>4. QED  BY <1>8, <2>1, <2>2, <2>3 DEF WaitsForPhase
<1>10. MatchIsFlagged(u)
  <2>1. SUFFICES ASSUME ~IsDue(u), TA!Position(u).cnt = u.cmp
                 PROVE  "CMP" \in u.flags
    BY DEF MatchIsFlagged
  <2>2. due > 0
    BY <1>8, <2>1 DEF IsDue
  <2>3. Reached(u) < next /\ Reached(u) < TA!Period(t)
    BY <1>2, <1>3, <1>4, <1>7, <2>2
  <2>4. TA!Position(u) = TA!CountAt(t, Reached(u))
    BY <1>5, <1>6, <2>3, PositionIsReached
  <2>5. Reached(u) \in TA!Matches(t)
    BY <1>5, <1>7, <2>1, <2>3, <2>4, MatchIsPhase
  <2>6. Reached(u) = ph
    BY <1>4, <1>7, <2>3, <2>5
  <2>7. QED  BY <1>1, <1>5, <2>1, <2>4, <2>6
<1>11. TA!ShouldRun(u)
  BY <1>5 DEF TA!ShouldRun
<1>12. Timed(u)
  BY <1>5, <1>8, <1>9, <1>10, <1>11 DEF Timed
<1>13. QED  BY <1>12, EmitIsSound

\* The buffers that are valid are taken.
LEMMA UpdateIsTyped ==
    ASSUME TA!WellFormed, NEW t \in TcaTypes, NEW force \in BOOLEAN
    PROVE  /\ TA!Update(t, force) \in TcaTypes
           /\ \A f \in {"enable", "act", "line", "sw", "run", "div", "since", "phase", "due"} :
                  TA!Update(t, force)[f] = t[f]
<1>1. CASE t.lupd /\ ~force
  BY <1>1 DEF TA!Update
<1>2. CASE ~(t.lupd /\ ~force)
  <2>1. t.buf \in BufferSets /\ t.per \in Tops /\ t.cmp \in TA!Word
    BY DEF TcaTypes
  <2>2. PICK S \in SUBSET TA!Buffers : t.buf \in [S -> Tops]
    BY <2>1 DEF BufferSets
  <2>3. \A b \in DOMAIN t.buf : t.buf[b] \in Tops
    BY <2>2
  <2>4. Tops \subseteq TA!Word
    BY DEF TA!WellFormed
  <2>5. PICK per \in Tops, cmp \in TA!Word :
              /\ per = IF "per" \in DOMAIN t.buf THEN t.buf["per"] ELSE t.per
              /\ cmp = IF "cmp" \in DOMAIN t.buf THEN t.buf["cmp"] ELSE t.cmp
    BY <2>1, <2>3, <2>4
  <2>6. PICK none \in BufferSets : none = << >>
    <3>1. << >> \in [{} -> Tops]
      OBVIOUS
    <3>2. QED  BY <3>1 DEF BufferSets
  <2>7. PICK u : u = TA!Update(t, force)
    OBVIOUS
  <2>8. u = [t EXCEPT !.buf = none, !.per = per, !.cmp = cmp]
    BY <1>2, <2>5, <2>6, <2>7 DEF TA!Update, TcaTypes
  <2>9. u \in TcaTypes
    BY <2>8 DEF TcaTypes
  <2>10. \A f \in {"enable", "act", "line", "sw", "run", "div", "since", "phase", "due"} :
             u[f] = t[f]
    BY <2>8 DEF TcaTypes
  <2>11. QED  BY <2>7, <2>9, <2>10
<1>3. QED  BY <1>1, <1>2

-----------------------------------------------------------------------------
(* The actions *)

LEMMA TcaEventKeeps ==
    ASSUME TA!WellFormed, TcaInv, TA!Event
    PROVE  TcaInv'
<1>1. /\ tca \in TcaTypes /\ tca.run /\ TA!ShouldRun(tca) /\ WaitsForPhase(tca) /\ tca.due <= 0
      /\ tca.due >= -Lateness
  BY DEF TcaInv, TcaSound, Timed, TA!Event, TA!Due, WaitsForPhase
<1>2. /\ tca.div \in Nat \ {0} /\ Lateness \in Nat /\ tca.since \in Nat /\ tca.due \in Int
      /\ tca.phase \in Nat /\ TA!Period(tca) \in Nat /\ TA!Period(tca) > 0
         /\ tca.phase <= TA!Period(tca)
  BY <1>1, FieldsAreTyped, PeriodIsPositive DEF WaitsForPhase
<1>3. ASSUME NEW t \in TcaTypes, NEW ph \in Nat, ph < TA!Period(t), t.run, TA!ShouldRun(t),
             t.due = tca.due, t.since + t.due = ph * t.div,
             tca' = TA!EmitWo([TA!Matched(t, TA!CountAt(t, ph).cnt) EXCEPT
                             !.phase = TA!NextPhase(t, ph),
                             !.due = IF TA!NextPhase(t, ph) * t.div - t.since <= tca.due
                                     THEN tca.due + 1 ELSE TA!NextPhase(t, ph) * t.div - t.since])
      PROVE  TcaSound(tca')
  <2> DEFINE next == TA!NextPhase(t, ph)
             due == next * t.div - t.since
             m == TA!Matched(t, TA!CountAt(t, ph).cnt)
  <2>1. /\ next \in Nat /\ next > ph /\ due \in Int /\ due > tca.due
    BY <1>3, DueIsLater
  <2>2. tca' = TA!EmitWo([m EXCEPT !.phase = next, !.due = due])
    <3>1. (IF due <= tca.due THEN tca.due + 1 ELSE due) = due
      BY <1>2, <2>1
    <3>2. tca' = TA!EmitWo([m EXCEPT !.phase = next,
                            !.due = IF due <= tca.due THEN tca.due + 1 ELSE due])
      BY <1>3, Zenon
    <3>3. QED  BY <3>1, <3>2
  <2>3. m \in TcaTypes
    BY MatchedIsTyped
  <2> HIDE DEF next, due, m
  <2>4. PICK u : u = [m EXCEPT !.phase = next, !.due = due]
    OBVIOUS
  <2>5. /\ u \in TcaTypes /\ u.phase = next /\ u.due = due
        /\ \A f \in {"enable", "act", "line", "mode", "per", "cmp", "down", "cnt", "run", "div",
                     "since", "flags", "counted"} : u[f] = m[f]
    <3>1. PICK p \in Nat, d \in Int : p = next /\ d = due
      BY <2>1
    <3>2. u = [m EXCEPT !.phase = p, !.due = d]
      BY <2>4, <3>1
    <3>3. /\ u \in TcaTypes /\ u.phase = p /\ u.due = d
          /\ \A f \in {"enable", "act", "line", "mode", "per", "cmp", "down", "cnt", "run",
                       "div", "since", "flags", "counted"} : u[f] = m[f]
      BY <2>3, <3>2 DEF TcaTypes
    <3>4. QED  BY <3>1, <3>3
  <2>6. next = TA!NextPhase(t, ph) /\ due = next * t.div - t.since
        /\ m = TA!Matched(t, TA!CountAt(t, ph).cnt)
    BY DEF next, due, m
  <2>7. t.due <= 0 /\ t.due >= -Lateness
    BY <1>1, <1>3
  <2>8. TcaSound(TA!EmitWo(u))
    BY <1>3, <2>5, <2>6, <2>7, EventIsSound
  <2>9. QED  BY <2>2, <2>4, <2>8
<1>4. CASE tca.phase >= TA!Period(tca)
  <2>1. PICK s : s = TA!Flagged([tca EXCEPT !.since = -tca.due], {"OVF"})
    OBVIOUS
  <2>2. PICK n \in Nat : n = -tca.due
    BY <1>1, <1>2
  <2>3. PICK F \in SUBSET {"OVF", "CMP"} : F = tca.flags \cup {"OVF"}
    BY <1>1 DEF TcaTypes
  <2>4. s = [tca EXCEPT !.since = n, !.flags = F]
    BY <1>1, <2>1, <2>2, <2>3 DEF TA!Flagged, TcaTypes
  <2>5. /\ s \in TcaTypes /\ s.since = n
        /\ \A f \in {"enable", "act", "line", "run", "div", "due"} : s[f] = tca[f]
    BY <1>1, <2>4 DEF TcaTypes
  <2>6. PICK t : t = TA!Update(s, FALSE)
    OBVIOUS
  <2>7. /\ t \in TcaTypes
        /\ \A f \in {"enable", "act", "line", "sw", "run", "div", "since", "phase", "due"} :
               t[f] = s[f]
    <3>1. s \in TcaTypes /\ FALSE \in BOOLEAN
      BY <2>5
    <3>2. QED  BY <2>6, <3>1, UpdateIsTyped, Zenon
  <2>8. /\ t.enable = tca.enable /\ t.act = tca.act /\ t.line = tca.line /\ t.run = tca.run
        /\ t.div = tca.div /\ t.since = -tca.due /\ t.due = tca.due
    BY <2>2, <2>5, <2>7
  <2>9. t.run /\ TA!ShouldRun(t)
    BY <1>1, <2>8 DEF TA!ShouldRun
  <2>10. t.since + t.due = 0 * t.div /\ 0 < TA!Period(t) /\ 0 \in Nat
    BY <1>2, <2>7, <2>8, PeriodIsPositive
  <2>11. tca' = TA!EmitWo([TA!Matched(t, TA!CountAt(t, 0).cnt) EXCEPT
                                     !.phase = TA!NextPhase(t, 0),
                                     !.due = IF TA!NextPhase(t, 0) * t.div - t.since <= tca.due
                                             THEN tca.due + 1 ELSE TA!NextPhase(t,
                                               0) * t.div - t.since])
    BY <1>4, <2>1, <2>6 DEF TA!Event
  <2>12. QED  BY <1>3, <2>7, <2>8, <2>9, <2>10, <2>11 DEF TcaInv
<1>5. CASE ~(tca.phase >= TA!Period(tca))
  <2>1. tca.since + tca.due = tca.phase * tca.div /\ tca.phase < TA!Period(tca)
    BY <1>1, <1>2, <1>5 DEF WaitsForPhase
  <2>2. tca' = TA!EmitWo([TA!Matched(tca, TA!CountAt(tca, tca.phase).cnt) EXCEPT
                                     !.phase = TA!NextPhase(tca, tca.phase),
                                     !.due = IF TA!NextPhase(tca,
                                       tca.phase) * tca.div - tca.since <= tca.due
                                             THEN tca.due + 1 ELSE TA!NextPhase(tca,
                                               tca.phase) * tca.div - tca.since])
    BY <1>5 DEF TA!Event
  <2>3. QED  BY <1>1, <1>2, <1>3, <2>1, <2>2 DEF TcaInv
<1>6. QED  BY <1>4, <1>5

LEMMA TcaPassKeeps ==
    ASSUME TA!WellFormed, TcaInv, TA!Pass
    PROVE  TcaInv'
<1> DEFINE t == [tca EXCEPT !.since = @ + 1, !.due = @ - 1]
<1>1. tca \in TcaTypes /\ tca.due \in Int /\ tca.since \in Nat
  BY DEF TcaInv, TcaSound, Timed, TcaTypes
<1>2. /\ tca.div \in Nat \ {0} /\ Lateness \in Nat /\ TA!Period(tca) \in Nat /\ TA!Period(tca) > 0
      /\ tca.phase \in Nat
  BY <1>1, FieldsAreTyped, PeriodIsPositive
<1>3. tca.due > -Lateness /\ tca.flags = {} /\ ~(tca.counted /\ ~TA!Due)
  BY DEF TA!Pass
<1>4. tca.due # TA!Never
  BY <1>1, <1>2, <1>3 DEF TA!WellFormed, TA!Never
<1>5. tca.run /\ TA!ShouldRun(tca) /\ WaitsForPhase(tca) /\ LevelIsCounted(tca)
  BY <1>4 DEF TcaInv, TcaSound, Timed
<1>6. PICK counted \in BOOLEAN : counted = (TA!Position(t) # TA!Position(tca) \/ tca.counted)
  BY <1>1 DEF TcaTypes
<1>7. tca' = [tca EXCEPT !.since = tca.since + 1, !.due = tca.due - 1, !.counted = counted]
  <2>1. tca' = [t EXCEPT !.counted = TA!Position(t) # TA!Position(tca) \/ @]
    BY DEF TA!Pass
  <2>2. t.counted = tca.counted
    BY <1>1 DEF TcaTypes
  <2>3. QED  BY <1>1, <1>6, <2>1, <2>2 DEF TcaTypes
<1>8. PICK elapsed \in Nat, due \in Int : elapsed = tca.since + 1 /\ due = tca.due - 1
  BY <1>1
<1>9. /\ tca' \in TcaTypes /\ tca'.since = elapsed /\ tca'.due = due /\ tca'.counted = counted
      /\ \A f \in {"enable", "act", "line", "mode", "per", "cmp", "down", "cnt", "run", "div",
                   "phase", "flags", "wo"} : tca'[f] = tca[f]
  BY <1>1, <1>7, <1>8 DEF TcaTypes
<1>10. /\ t.run = tca.run /\ t.since = elapsed /\ t.div = tca.div /\ t.mode = tca.mode
       /\ t.per = tca.per /\ t.cmp = tca.cmp /\ t.down = tca.down /\ t.cnt = tca.cnt
       /\ t.enable = tca.enable
  BY <1>1, <1>8 DEF TcaTypes
<1> HIDE DEF t
<1>11. /\ TA!Period(tca') = TA!Period(tca) /\ TA!Matches(tca') = TA!Matches(tca)
       /\ \A r : TA!CountAt(tca', r) = TA!CountAt(tca, r)
  <2>1. tca'.mode = tca.mode /\ tca'.per = tca.per /\ tca'.cmp = tca.cmp /\ tca'.down = tca.down
    BY <1>9
  <2>2. QED  BY <2>1, CountReads
<1>12. TA!Position(tca') = TA!Position(t)
  <2>1. \A f \in {"enable", "mode", "per", "cmp", "down", "cnt", "run", "since", "div"} :
            tca'[f] = t[f]
    BY <1>9, <1>10
  <2>2. QED  BY <2>1, LevelReads
<1>13. /\ Reached(tca) \in Nat /\ Reached(tca') \in Nat
       /\ Reached(tca') \in {Reached(tca), Reached(tca) + 1}
  <2>1. Reached(tca') = (tca.since + 1) \div tca.div /\ Reached(tca) = tca.since \div tca.div
    BY <1>8, <1>9 DEF Reached
  <2>2. (tca.since + 1) \div tca.div \in {tca.since \div tca.div, tca.since \div tca.div + 1}
    BY <1>1, <1>2, QuotientSteps
  <2>3. tca.since \div tca.div \in Nat
    BY <1>1, <1>2
  <2>4. QED  BY <2>1, <2>2, <2>3
<1>14. due > 0 => /\ tca.due > 0 /\ ~tca.counted /\ elapsed < tca.phase * tca.div
                  /\ Reached(tca') < tca.phase /\ tca.phase <= TA!Period(tca)
                  /\ \A m \in TA!Matches(tca) : ~(Reached(tca) < m /\ m < tca.phase)
  <2>1. SUFFICES ASSUME due > 0
                 PROVE  /\ tca.due > 0 /\ ~tca.counted /\ elapsed < tca.phase * tca.div
                        /\ Reached(tca') < tca.phase /\ tca.phase <= TA!Period(tca)
                        /\ \A m \in TA!Matches(tca) : ~(Reached(tca) < m /\ m < tca.phase)
    OBVIOUS
  <2>2. tca.due > 1
    BY <1>1, <1>8, <2>1
  <2>3. ~tca.counted
    BY <1>1, <1>3, <2>2 DEF TA!Due
  <2>4. tca.phase * tca.div \in Nat
    BY <1>2
  <2>5. tca.due + tca.since = tca.phase * tca.div
    BY <1>1, <1>5, <2>2, <2>4 DEF WaitsForPhase
  <2>6. elapsed < tca.phase * tca.div
    BY <1>1, <1>8, <2>2, <2>4, <2>5
  <2>7. Reached(tca') < tca.phase
    BY <1>2, <1>9, <2>6, QuotientBelow DEF Reached
  <2>8. QED  BY <1>1, <1>2, <1>5, <2>2, <2>3, <2>6, <2>7 DEF WaitsForPhase
<1>15. WaitsForPhase(tca')
  <2>1. tca'.phase \in 1 .. TA!Period(tca') /\ tca'.due >= -Lateness
    BY <1>1, <1>2, <1>3, <1>5, <1>8, <1>9, <1>11 DEF WaitsForPhase
  <2>2. \/ tca'.due + tca'.since = tca'.phase * tca'.div
        \/ /\ tca'.phase = TA!Period(tca') /\ tca'.since >= tca'.phase * tca'.div
           /\ tca'.due + tca'.since = tca'.phase * tca'.div + 1
           /\ tca'.due > 0 => ~tca'.counted
    <3>1. tca.phase * tca.div \in Nat
      BY <1>2
    <3>2. tca'.phase * tca'.div = tca.phase * tca.div
          /\ tca'.due + tca'.since = tca.due + tca.since
      BY <1>1, <1>8, <1>9
    <3>3. CASE tca.due + tca.since = tca.phase * tca.div
      BY <3>2, <3>3
    <3>4. CASE /\ tca.phase = TA!Period(tca) /\ tca.since >= tca.phase * tca.div
               /\ tca.due + tca.since = tca.phase * tca.div + 1
      <4>1. tca'.due <= 0 /\ tca'.since >= tca.phase * tca.div
        BY <1>1, <1>8, <1>9, <3>1, <3>4
      <4>2. QED  BY <1>8, <1>9, <1>11, <3>2, <3>4, <4>1
    <3>5. QED  BY <1>5, <3>3, <3>4 DEF WaitsForPhase
  <2>3. ASSUME tca'.due > 0, NEW m \in TA!Matches(tca')
        PROVE  ~(Reached(tca') < m /\ m < tca'.phase)
    <3>1. m \in Int
      BY <1>1, <1>11, MatchesAreIntegers
    <3>2. ~(Reached(tca) < m /\ m < tca.phase)
      BY <1>9, <1>11, <1>14, <2>3
    <3>3. QED  BY <1>2, <1>9, <1>13, <3>1, <3>2
  <2>4. QED  BY <2>1, <2>2, <2>3 DEF WaitsForPhase
<1>16. tca'.due # TA!Never
  BY <1>1, <1>2, <1>3, <1>8, <1>9 DEF TA!WellFormed, TA!Never
<1>17. TA!ShouldRun(tca')
  <2>1. tca'.enable = tca.enable /\ tca'.act = tca.act /\ tca'.line = tca.line
    BY <1>9
  <2>2. QED  BY <1>5, <2>1 DEF TA!ShouldRun
<1>18. ASSUME ~IsDue(tca')
       PROVE  due > 0
  BY <1>8, <1>9, <1>16, <1>18 DEF IsDue
<1>19. ASSUME due > 0, NEW m \in TA!Matches(tca)
       PROVE  ~(Reached(tca) < m /\ m <= Reached(tca'))
  <2>1. m \in Int
    BY <1>1, MatchesAreIntegers
  <2>2. QED  BY <1>2, <1>13, <1>14, <1>19, <2>1
<1>20. MatchIsFlagged(tca')
  <2>1. SUFFICES ASSUME ~IsDue(tca'), tca'.counted, TA!Position(tca').cnt = tca'.cmp
                 PROVE  FALSE
    BY DEF MatchIsFlagged
  <2>2. due > 0 /\ ~tca.counted /\ TA!Position(tca') # TA!Position(tca)
    BY <1>6, <1>9, <1>12, <1>14, <1>18, <2>1
  <2>3. Reached(tca') < TA!Period(tca) /\ Reached(tca) < TA!Period(tca)
    BY <1>2, <1>13, <1>14, <2>2
  <2>4. tca'.run
    BY <1>5, <1>9
  <2>5. TA!Position(tca') = TA!CountAt(tca, Reached(tca')) /\ TA!Position(tca) = TA!CountAt(tca,
          Reached(tca))
    BY <1>1, <1>5, <1>9, <1>11, <2>3, <2>4, PositionIsReached
  <2>6. Reached(tca') = Reached(tca) + 1
    BY <1>13, <2>2, <2>5
  <2>7. Reached(tca') \in TA!Matches(tca)
    BY <1>1, <1>9, <1>13, <2>1, <2>3, <2>5, MatchIsPhase
  <2>8. QED  BY <1>13, <1>19, <2>2, <2>6, <2>7
<1>21. LevelIsCounted(tca')
  <2>1. SUFFICES ASSUME ~IsDue(tca'), ~(tca'.mode = "single" /\ tca'.down)
                 PROVE  tca'.wo = TA!WoLevel(tca')
    BY DEF LevelIsCounted
  <2>2. due > 0 /\ tca.due > 0
    BY <1>14, <1>18, <2>1
  <2>3. ~(tca.mode = "single" /\ tca.down)
    BY <1>9, <2>1
  <2>4. tca.wo = TA!WoLevel(tca)
    BY <1>1, <1>5, <2>2, <2>3 DEF LevelIsCounted, IsDue
  <2>5. Reached(tca) <= Reached(tca') /\ Reached(tca') < TA!Period(tca)
    BY <1>2, <1>13, <1>14, <2>2
  <2>6. tca'.run /\ \A f \in {"enable", "mode", "per", "cmp", "down"} : tca'[f] = tca[f]
    BY <1>5, <1>9
  <2>7. \A m \in TA!Matches(tca) : ~(Reached(tca) < m /\ m <= Reached(tca'))
    BY <1>19, <2>2
  <2>8. TA!WoLevel(tca') <=> TA!WoLevel(tca)
    BY <1>1, <1>5, <1>9, <2>3, <2>5, <2>6, <2>7, LevelStays
  <2>9. tca'.wo = tca.wo
    BY <1>9
  <2>10. QED  BY <2>4, <2>8, <2>9, Zenon DEF TA!WoLevel
<1>22. QED
  BY <1>5, <1>9, <1>15, <1>16, <1>17, <1>20, <1>21 DEF TcaInv, TcaSound, Timed

\* An edge counts a counter that stands.
LEMMA TickIsSound ==
    ASSUME TA!WellFormed, NEW t \in TcaTypes, ~t.run, t.due = TA!Never, ~TA!ShouldRun(t)
    PROVE  TcaSound(TA!Tick(t))
<1> DEFINE wraps == IF t.sw THEN t.cnt = 0 ELSE t.cnt >= t.per
           cnt == IF wraps THEN IF t.sw THEN t.per ELSE 0 ELSE t.cnt + (IF t.sw THEN -1 ELSE 1)
           s == IF wraps THEN TA!Update(TA!Flagged(t, {"OVF"}), FALSE) ELSE t
           m == TA!Matched(s, cnt)
<1>1. /\ t.per \in Nat /\ t.cnt \in Nat /\ t.per <= MaxCount /\ MaxCount \in Nat
      /\ t.cnt <= MaxCount
  <2>1. t.cnt \in 0 .. MaxCount
    BY DEF TcaTypes, TA!Word
  <2>2. QED  BY <2>1, FieldsAreTyped
<1>2. cnt \in TA!Word
  BY <1>1 DEF TA!Word
<1>3. /\ s \in TcaTypes
      /\ \A f \in {"enable", "act", "line", "run", "due"} : s[f] = t[f]
  <2>1. CASE wraps
    <3>1. PICK F \in SUBSET {"OVF", "CMP"} : F = t.flags \cup {"OVF"}
      BY DEF TcaTypes
    <3>2. PICK o : o = TA!Flagged(t, {"OVF"})
      OBVIOUS
    <3>3. o = [t EXCEPT !.flags = F]
      BY <3>1, <3>2 DEF TA!Flagged, TcaTypes
    <3>4. o \in TcaTypes /\ \A f \in {"enable", "act", "line", "run", "due"} : o[f] = t[f]
      BY <3>3 DEF TcaTypes
    <3>5. o \in TcaTypes /\ FALSE \in BOOLEAN
      BY <3>4
    <3>6. /\ TA!Update(o, FALSE) \in TcaTypes
          /\ \A f \in {"enable", "act", "line", "sw", "run", "div", "since", "phase", "due"} :
                 TA!Update(o, FALSE)[f] = o[f]
      BY <3>5, UpdateIsTyped, Zenon
    <3>7. s = TA!Update(o, FALSE)
      BY <2>1, <3>2
    <3>8. QED  BY <3>4, <3>6, <3>7
  <2>2. CASE ~wraps
    BY <2>2
  <2>3. QED  BY <2>1, <2>2
<1>4. TA!Tick(t) = TA!EmitWo([m EXCEPT !.cnt = cnt, !.counted = TRUE])
  BY DEF TA!Tick
<1> HIDE DEF cnt, s
<1>5. /\ m \in TcaTypes /\ (s.cmp = cnt => "CMP" \in m.flags)
      /\ \A f \in {"enable", "act", "line", "mode", "sw", "per", "cmp", "down", "cnt", "run",
                   "div", "since", "phase", "due", "counted"} : m[f] = s[f]
  BY <1>3, MatchedIsTyped
<1> HIDE DEF m
<1>6. PICK n \in TA!Word : n = cnt
  BY <1>2
<1>7. PICK u : u = [m EXCEPT !.cnt = cnt, !.counted = TRUE]
  OBVIOUS
<1>8. u = [m EXCEPT !.cnt = n, !.counted = TRUE]
  BY <1>6, <1>7
<1>9. /\ u \in TcaTypes /\ u.cnt = n
      /\ \A f \in {"enable", "act", "line", "run", "due", "cmp", "flags"} : u[f] = m[f]
  BY <1>5, <1>8 DEF TcaTypes
<1>10. /\ u.enable = t.enable /\ u.act = t.act /\ u.line = t.line /\ u.run = t.run
       /\ u.due = t.due /\ u.cmp = s.cmp /\ u.flags = m.flags
  BY <1>3, <1>5, <1>9
<1>11. ~TA!ShouldRun(u)
  BY <1>10 DEF TA!ShouldRun
<1>12. u.cnt = u.cmp => "CMP" \in u.flags
  BY <1>5, <1>6, <1>9, <1>10
<1>13. Timed(u)
  BY <1>9, <1>10, <1>11, <1>12, IdleIsTimed
<1>14. QED  BY <1>4, <1>7, <1>13, EmitIsSound

LEMMA TcaInputKeeps ==
    ASSUME TA!WellFormed, TcaInv, TA!Input
    PROVE  TcaInv'
<1>1. tca \in TcaTypes /\ (tca.run <=> tca.due # TA!Never) /\ (tca.run <=> TA!ShouldRun(tca))
  BY DEF TcaInv, TcaSound, Timed
<1>2. PICK t : t = [tca EXCEPT !.line = ~@]
  OBVIOUS
<1>3. PICK b \in BOOLEAN : b = ~tca.line
  BY <1>1 DEF TcaTypes
<1>4. /\ t \in TcaTypes /\ t.line = b
      /\ \A f \in {"enable", "act", "mode", "per", "cmp", "down", "cnt", "run", "div", "since",
                   "phase", "due", "flags", "wo", "counted"} : t[f] = tca[f]
  <2>1. t = [tca EXCEPT !.line = b]
    BY <1>1, <1>2, <1>3 DEF TcaTypes
  <2>2. QED  BY <1>1, <2>1 DEF TcaTypes
<1>5. /\ t.enable = tca.enable /\ t.act = tca.act /\ t.run = tca.run /\ t.due = tca.due
      /\ t.div = tca.div /\ t.since = tca.since /\ t.phase = tca.phase /\ t.cmp = tca.cmp
      /\ t.flags = tca.flags /\ t.counted = tca.counted /\ t.wo = tca.wo /\ t.mode = tca.mode
      /\ t.down = tca.down /\ t.per = tca.per /\ t.cnt = tca.cnt
  BY <1>4
<1>6. tca' = CASE t.enable /\ t.act = "edge" /\ t.line -> TA!Tick(t)
              [] t.enable /\ t.act \in {"high", "updown"} -> TA!Reschedule(t)
              [] OTHER -> t
  BY <1>2 DEF TA!Input
<1>7. CASE t.enable /\ t.act = "edge" /\ t.line
  <2>1. ~TA!ShouldRun(tca) /\ ~TA!ShouldRun(t)
    BY <1>5, <1>7 DEF TA!ShouldRun
  <2>2. ~t.run /\ t.due = TA!Never
    BY <1>1, <1>5, <2>1
  <2>3. TcaSound(TA!Tick(t))
    BY <1>4, <2>1, <2>2, TickIsSound
  <2>4. tca' = TA!Tick(t)
    BY <1>6, <1>7
  <2>5. QED  BY <2>3, <2>4 DEF TcaInv
<1>8. CASE t.enable /\ t.act \in {"high", "updown"}
  <2>1. tca' = TA!Reschedule(t)
    BY <1>6, <1>8
  <2>2. QED  BY <1>4, <2>1, TcaRescheduleIsSound DEF TcaInv
<1>9. CASE ~(t.enable /\ t.act = "edge" /\ t.line) /\ ~(t.enable /\ t.act \in {"high", "updown"})
  <2>1. tca' = t
    BY <1>6, <1>9
  <2>2. TA!ShouldRun(t) <=> TA!ShouldRun(tca)
    BY <1>5, <1>9 DEF TA!ShouldRun
  <2>3. TA!Period(t) = TA!Period(tca) /\ TA!Matches(t) = TA!Matches(tca)
    BY <1>5, CountReads
  <2>4. TA!Position(t) = TA!Position(tca) /\ (TA!WoLevel(t) <=> TA!WoLevel(tca))
    BY <1>4, LevelReads
  <2>5. WaitsForPhase(t) <=> WaitsForPhase(tca)
    BY <1>5, <2>3 DEF WaitsForPhase, Reached
  <2>6. MatchIsFlagged(t) <=> MatchIsFlagged(tca)
    BY <1>5, <2>4 DEF MatchIsFlagged, IsDue
  <2>7. TA!WoLevel(t) = TA!WoLevel(tca)
    BY <2>4, Zenon DEF TA!WoLevel
  <2>8. LevelIsCounted(t) <=> LevelIsCounted(tca)
    BY <1>5, <2>7 DEF LevelIsCounted, IsDue
  <2>9. TcaSound(t)
    BY <1>4, <1>5, <2>2, <2>5, <2>6, <2>8 DEF TcaInv, TcaSound, Timed
  <2>10. QED  BY <2>1, <2>9 DEF TcaInv
<1>10. QED  BY <1>7, <1>8, <1>9

\* A register that is written stops the counter and anchors it anew.
LEMMA TcaWritesKeep ==
    ASSUME TA!WellFormed, TcaInv,
           \/ \E enable \in BOOLEAN, rate \in Scaled : TA!WriteCtrla(enable, rate)
           \/ \E m \in TA!Modes : TA!WriteCtrlb(m)
           \/ \E act \in TA!Actions : TA!WriteEvctrl(act)
           \/ \E n \in TA!Word : TA!WriteCnt(n)
           \/ \E b \in BOOLEAN : TA!SetLock(b) \/ TA!SetDirection(b)
           \/ TA!CommandUpdate \/ TA!Restart
    PROVE  TcaInv'
<1>1. PICK s : s = TA!Stop(tca)
  OBVIOUS
<1>2. tca \in TcaTypes /\ s \in TcaTypes
  BY <1>1, StopIsTyped DEF TcaInv, TcaSound, Timed
<1>3. tca.down \in BOOLEAN /\ s.down \in BOOLEAN
  BY <1>2 DEF TcaTypes
<1>4. \E t \in TcaTypes : tca' = TA!Reschedule(t)
  <2>1. ASSUME NEW enable \in BOOLEAN, NEW rate \in Scaled, TA!WriteCtrla(enable, rate)
        PROVE  \E t \in TcaTypes : tca' = TA!Reschedule(t)
    <3>1. [s EXCEPT !.enable = enable, !.clk = rate] \in TcaTypes
      BY <1>2 DEF TcaTypes
    <3>2. QED  BY <1>1, <2>1, <3>1 DEF TA!WriteCtrla
  <2>2. ASSUME NEW m \in TA!Modes, TA!WriteCtrlb(m)
        PROVE  \E t \in TcaTypes : tca' = TA!Reschedule(t)
    <3>1. [s EXCEPT !.mode = m] \in TcaTypes
      BY <1>2 DEF TcaTypes
    <3>2. QED  BY <1>1, <2>2, <3>1 DEF TA!WriteCtrlb
  <2>3. ASSUME NEW act \in TA!Actions, TA!WriteEvctrl(act)
        PROVE  \E t \in TcaTypes : tca' = TA!Reschedule(t)
    <3>1. [s EXCEPT !.act = act] \in TcaTypes
      BY <1>2 DEF TcaTypes
    <3>2. QED  BY <1>1, <2>3, <3>1 DEF TA!WriteEvctrl
  <2>4. ASSUME NEW n \in TA!Word, TA!WriteCnt(n)
        PROVE  \E t \in TcaTypes : tca' = TA!Reschedule(t)
    <3>1. [s EXCEPT !.cnt = n] \in TcaTypes
      BY <1>2 DEF TcaTypes
    <3>2. QED  BY <1>1, <2>4, <3>1 DEF TA!WriteCnt
  <2>5. ASSUME NEW b \in BOOLEAN, TA!SetLock(b)
        PROVE  \E t \in TcaTypes : tca' = TA!Reschedule(t)
    <3>1. [s EXCEPT !.lupd = b] \in TcaTypes
      BY <1>2 DEF TcaTypes
    <3>2. QED  BY <1>1, <2>5, <3>1 DEF TA!SetLock
  <2>6. ASSUME NEW b \in BOOLEAN, TA!SetDirection(b)
        PROVE  \E t \in TcaTypes : tca' = TA!Reschedule(t)
    <3>1. PICK d \in BOOLEAN : d = IF tca.act = "updown" THEN s.down ELSE b
      BY <1>3
    <3>2. [s EXCEPT !.sw = b, !.down = d] \in TcaTypes
      BY <1>2 DEF TcaTypes
    <3>3. tca' = TA!Reschedule([s EXCEPT !.sw = b, !.down = d])
      BY <1>1, <1>2, <2>6, <3>1 DEF TA!SetDirection, TcaTypes
    <3>4. QED  BY <3>2, <3>3
  <2>7. ASSUME TA!CommandUpdate
        PROVE  \E t \in TcaTypes : tca' = TA!Reschedule(t)
    <3>1. TRUE \in BOOLEAN
      OBVIOUS
    <3>2. TA!Update(s, TRUE) \in TcaTypes
      BY <1>2, <3>1, UpdateIsTyped
    <3>3. QED  BY <1>1, <2>7, <3>2 DEF TA!CommandUpdate
  <2>8. ASSUME TA!Restart
        PROVE  \E t \in TcaTypes : tca' = TA!Reschedule(t)
    <3>1. 0 \in TA!Word
      BY DEF TA!Word, TA!WellFormed
    <3>2. [s EXCEPT !.cnt = 0, !.sw = FALSE, !.down = FALSE] \in TcaTypes
      BY <1>2, <3>1 DEF TcaTypes
    <3>3. QED  BY <1>1, <2>8, <3>2 DEF TA!Restart
  <2>9. QED  BY <2>1, <2>2, <2>3, <2>4, <2>5, <2>6, <2>7, <2>8, Zenon
<1>5. QED  BY <1>4, TcaRescheduleIsSound DEF TcaInv

LEMMA ConfiguredIsSound ==
    ASSUME TA!WellFormed, TcaInv, ~tca.counted, NEW per \in Tops, NEW cmp \in TA!Word
    PROVE  TcaSound(TA!Configured(tca, per, cmp))
<1>1. tca \in TcaTypes /\ (tca.run <=> tca.due # TA!Never) /\ (tca.run <=> TA!ShouldRun(tca))
  BY DEF TcaInv, TcaSound, Timed
<1>2. CASE tca.enable
  <2>1. PICK s : s = TA!Stop(tca)
    OBVIOUS
  <2>2. s \in TcaTypes
    BY <1>1, <2>1, StopIsTyped
  <2>3. [s EXCEPT !.per = per, !.cmp = cmp] \in TcaTypes
    BY <2>2 DEF TcaTypes
  <2>4. QED  BY <1>2, <2>1, <2>3, TcaRescheduleIsSound DEF TA!Configured
<1>3. CASE ~tca.enable
  <2>1. PICK t : t = [tca EXCEPT !.per = per, !.cmp = cmp]
    OBVIOUS
  <2>2. t \in TcaTypes /\ \A f \in {"enable", "run", "due", "counted"} : t[f] = tca[f]
    BY <1>1, <2>1 DEF TcaTypes
  <2>3. ~TA!ShouldRun(tca) /\ ~TA!ShouldRun(t) /\ ~t.counted
    BY <1>3, <2>2 DEF TA!ShouldRun
  <2>4. ~t.run /\ t.due = TA!Never
    BY <1>1, <2>2, <2>3
  <2>5. Timed(t)
    BY <2>2, <2>3, <2>4, IdleIsTimed
  <2>6. QED  BY <1>3, <2>1, <2>5, EmitIsSound DEF TA!Configured
<1>4. QED  BY <1>2, <1>3

\* What leaves the count and the output alone keeps them sound.
LEMMA UncountedIsSound ==
    ASSUME TcaInv, NEW t \in TcaTypes,
           \A f \in {"enable", "act", "line", "mode", "per", "cmp", "down", "cnt", "run", "div",
                    "since", "phase", "due", "wo"} : t[f] = tca[f],
           t.counted => t.flags = tca.flags /\ tca.counted
    PROVE  TcaSound(t)
<1>1. /\ t.enable = tca.enable /\ t.act = tca.act /\ t.line = tca.line /\ t.run = tca.run
      /\ t.div = tca.div /\ t.since = tca.since /\ t.phase = tca.phase /\ t.due = tca.due
      /\ t.cmp = tca.cmp /\ t.wo = tca.wo /\ t.mode = tca.mode /\ t.per = tca.per
         /\ t.down = tca.down
  OBVIOUS
<1>2. TA!ShouldRun(t) <=> TA!ShouldRun(tca)
  BY <1>1 DEF TA!ShouldRun
<1>3. TA!Period(t) = TA!Period(tca) /\ TA!Matches(t) = TA!Matches(tca)
  BY <1>1, CountReads
<1>4. TA!Position(t) = TA!Position(tca) /\ (TA!WoLevel(t) <=> TA!WoLevel(tca))
  BY LevelReads
<1>5. WaitsForPhase(tca) => WaitsForPhase(t)
  BY <1>1, <1>3 DEF WaitsForPhase, Reached
<1>6. MatchIsFlagged(tca) => MatchIsFlagged(t)
  BY <1>1, <1>4 DEF MatchIsFlagged, IsDue
<1>7. TA!WoLevel(t) = TA!WoLevel(tca)
  BY <1>4, Zenon DEF TA!WoLevel
<1>8. LevelIsCounted(tca) => LevelIsCounted(t)
  BY <1>1, <1>7 DEF LevelIsCounted, IsDue
<1>9. QED  BY <1>1, <1>2, <1>5, <1>6, <1>8 DEF TcaInv, TcaSound, Timed

LEMMA TcaBuffersKeep ==
    ASSUME TA!WellFormed, TcaInv, NEW b \in TA!Buffers,
           TA!ClearBuffers(b) \/ \E n \in Tops : TA!WriteBuffer(b, n)
    PROVE  TcaInv'
<1>1. tca \in TcaTypes /\ tca.buf \in BufferSets
  BY DEF TcaInv, TcaSound, Timed, TcaTypes
<1>2. PICK S \in SUBSET TA!Buffers : tca.buf \in [S -> Tops]
  BY <1>1 DEF BufferSets
<1>3. ASSUME NEW new \in BufferSets, tca' = [tca EXCEPT !.buf = new]
      PROVE  TcaSound(tca')
  <2>1. /\ tca' \in TcaTypes
        /\ \A f \in {"enable", "act", "line", "mode", "per", "cmp", "down", "cnt", "run", "div",
                     "since", "phase", "due", "wo"} : tca'[f] = tca[f]
    BY <1>1, <1>3 DEF TcaTypes
  <2>2. tca'.counted = tca.counted /\ tca'.flags = tca.flags
    BY <1>1, <1>3 DEF TcaTypes
  <2>3. QED  BY <2>1, <2>2, UncountedIsSound
<1>4. CASE TA!ClearBuffers(b)
  <2>1. [x \in S \ {b} |-> tca.buf[x]] \in [S \ {b} -> Tops]
    BY <1>2
  <2>2. [x \in S \ {b} |-> tca.buf[x]] \in BufferSets
    BY <1>2, <2>1 DEF BufferSets
  <2>3. tca' = [tca EXCEPT !.buf = [x \in S \ {b} |-> tca.buf[x]]]
    BY <1>1, <1>2, <1>4 DEF TA!ClearBuffers, TcaTypes
  <2>4. QED  BY <1>3, <2>2, <2>3 DEF TcaInv
<1>5. ASSUME NEW n \in Tops, TA!WriteBuffer(b, n)
      PROVE  TcaInv'
  <2>1. [x \in S \cup {b} |-> IF x = b THEN n ELSE tca.buf[x]] \in [S \cup {b} -> Tops]
    BY <1>2, <1>5
  <2>2. [x \in S \cup {b} |-> IF x = b THEN n ELSE tca.buf[x]] \in BufferSets
    BY <1>2, <2>1 DEF BufferSets
  <2>3. tca' = [tca EXCEPT !.buf = [x \in S \cup {b} |-> IF x = b THEN n ELSE tca.buf[x]]]
    BY <1>1, <1>2, <1>5 DEF TA!WriteBuffer, TcaTypes
  <2>4. QED  BY <1>3, <2>2, <2>3 DEF TcaInv
<1>6. QED  BY <1>4, <1>5

LEMMA TcaClearKeeps ==
    ASSUME TA!WellFormed, TcaInv, TA!ClearFlags
    PROVE  TcaInv'
<1>1. tca \in TcaTypes
  BY DEF TcaInv, TcaSound, Timed
<1>2. tca' = [tca EXCEPT !.flags = {}, !.counted = FALSE]
  BY DEF TA!ClearFlags
<1>3. /\ tca' \in TcaTypes /\ ~tca'.counted
      /\ \A f \in {"enable", "act", "line", "mode", "per", "cmp", "down", "cnt", "run", "div",
                   "since", "phase", "due", "wo"} : tca'[f] = tca[f]
  BY <1>1, <1>2 DEF TcaTypes
<1>4. QED  BY <1>3, UncountedIsSound DEF TcaInv

LEMMA OffIsSound ==
    ASSUME TA!WellFormed
    PROVE  TcaSound(TA!Off)
<1>1. TA!Min(Scaled) \in Scaled
  BY DEF TA!Min, TA!WellFormed
<1>2. TA!Off \in TcaTypes
  <2>1. PICK d \in Scaled : d = TA!Min(Scaled)
    BY <1>1
  <2>2. PICK none \in BufferSets : none = << >>
    <3>1. << >> \in [{} -> Tops]
      OBVIOUS
    <3>2. QED  BY <3>1 DEF BufferSets
  <2>3. PICK top \in Tops, zero \in TA!Word : top = MaxCount /\ zero = 0
    BY DEF TA!WellFormed, TA!Word
  <2>4. PICK n \in Int : n = TA!Never
    BY DEF TA!Never
  <2>5. PICK o : o = TA!Off
    OBVIOUS
  <2>6. o = [enable |-> FALSE, clk |-> d, mode |-> "single", act |-> "none", line |-> FALSE,
             per |-> top, cmp |-> zero, buf |-> none,
             lupd |-> FALSE, sw |-> FALSE, down |-> FALSE, cnt |-> zero,
             run |-> FALSE, div |-> d, since |-> 0, phase |-> 0, due |-> n,
             flags |-> {}, wo |-> FALSE, counted |-> FALSE]
    BY <2>1, <2>2, <2>3, <2>4, <2>5 DEF TA!Off
  <2>7. o \in TcaTypes
    BY <2>6 DEF TcaTypes, TA!Modes, TA!Actions
  <2>8. QED  BY <2>5, <2>7
<1>3. /\ ~TA!Off.enable /\ ~TA!Off.run /\ TA!Off.due = TA!Never /\ ~TA!Off.counted
         /\ TA!Off.wo = FALSE
  BY DEF TA!Off
<1>4. ~TA!ShouldRun(TA!Off)
  BY <1>3 DEF TA!ShouldRun
<1>5. Timed(TA!Off)
  BY <1>2, <1>3, <1>4, IdleIsTimed
<1>6. ~TA!WoLevel(TA!Off)
  BY <1>3 DEF TA!WoLevel
<1>7. TA!WoLevel(TA!Off) = FALSE
  BY <1>6, Zenon DEF TA!WoLevel
<1>8. QED  BY <1>3, <1>5, <1>7 DEF TcaSound, LevelIsCounted

LEMMA TcaInitHolds ==
    ASSUME TA!WellFormed, TA!Init
    PROVE  TcaInv
BY OffIsSound DEF TA!Init, TcaInv

LEMMA TcaStands ==
    ASSUME TcaInv, UNCHANGED tca
    PROVE  TcaInv'
BY DEF TcaInv

LEMMA TcaKeeps ==
    ASSUME TA!WellFormed, TcaInv, TA!Next
    PROVE  TcaInv'
<1>1. CASE TA!Event \/ TA!Input \/ TA!Pass
  BY <1>1, TcaEventKeeps, TcaInputKeeps, TcaPassKeeps
<1>2. CASE \/ \E enable \in BOOLEAN, rate \in Scaled : TA!WriteCtrla(enable, rate)
           \/ \E m \in TA!Modes : TA!WriteCtrlb(m)
           \/ \E act \in TA!Actions : TA!WriteEvctrl(act)
           \/ \E n \in TA!Word : TA!WriteCnt(n)
           \/ \E b \in BOOLEAN : TA!SetLock(b) \/ TA!SetDirection(b)
           \/ TA!CommandUpdate \/ TA!Restart
  BY <1>2, TcaWritesKeep
<1>3. ASSUME NEW n \in TA!Word, TA!WriteCmp(n)
      PROVE  TcaInv'
  <2>1. tca.per \in Tops
    BY DEF TcaInv, TcaSound, Timed, TcaTypes
  <2>2. QED  BY <1>3, <2>1, ConfiguredIsSound DEF TA!WriteCmp, TA!Instruction, TcaInv
<1>4. ASSUME NEW n \in Tops, TA!WritePer(n)
      PROVE  TcaInv'
  <2>1. tca.cmp \in TA!Word
    BY DEF TcaInv, TcaSound, Timed, TcaTypes
  <2>2. QED  BY <1>4, <2>1, ConfiguredIsSound DEF TA!WritePer, TA!Instruction, TcaInv
<1>5. ASSUME NEW b \in TA!Buffers, TA!ClearBuffers(b) \/ \E n \in Tops : TA!WriteBuffer(b, n)
      PROVE  TcaInv'
  BY <1>5, TcaBuffersKeep
<1>6. CASE TA!ClearFlags
  BY <1>6, TcaClearKeeps
<1>7. CASE TA!Reset
  BY <1>7, OffIsSound DEF TA!Reset, TcaInv
<1>8. CASE TA!CommandReset
  <2>1. PICK s : s = TA!HardReset(TA!Stop(tca))
    OBVIOUS
  <2>2. tca \in TcaTypes /\ TA!Off \in TcaTypes
    BY OffIsSound DEF TcaInv, TcaSound, Timed
  <2>3. TA!Stop(tca) \in TcaTypes
    BY <2>2, StopIsTyped
  <2>4. s \in TcaTypes
    BY <2>1, <2>2, <2>3 DEF TA!HardReset, TcaTypes
  <2>5. tca' = TA!Reschedule(s)
    BY <1>8, <2>1 DEF TA!CommandReset
  <2>6. QED  BY <2>4, <2>5, TcaRescheduleIsSound DEF TcaInv
<1>9. QED
  BY <1>1, <1>2, <1>3, <1>4, <1>5, <1>6, <1>7, <1>8, Zenon DEF TA!Next

LEMMA TcaShows ==
    ASSUME TcaInv
    PROVE  TA!TypeOK /\ TA!WorkIsTimed /\ TA!OutputFollowsCount
<1>1. tca \in TcaTypes
  BY DEF TcaInv, TcaSound, Timed
<1>2. TA!TypeOK
  <2>1. /\ tca.enable \in BOOLEAN /\ tca.clk \in Scaled /\ tca.mode \in TA!Modes
           /\ tca.act \in TA!Actions
        /\ tca.line \in BOOLEAN /\ tca.cmp \in TA!Word /\ tca.cnt \in TA!Word /\ tca.per \in Tops
    BY <1>1 DEF TcaTypes
  <2>2. /\ tca.lupd \in BOOLEAN /\ tca.sw \in BOOLEAN /\ tca.down \in BOOLEAN
        /\ tca.run \in BOOLEAN /\ tca.div \in Scaled /\ tca.since \in Nat /\ tca.phase \in Nat
    BY <1>1 DEF TcaTypes
  <2>3. tca.due \in Int /\ tca.flags \subseteq {"OVF", "CMP"} /\ tca.wo \in BOOLEAN
    BY <1>1 DEF TcaTypes
  <2>4. DOMAIN tca.buf \subseteq TA!Buffers
    <3>1. tca.buf \in BufferSets
      BY <1>1 DEF TcaTypes
    <3>2. QED  BY <3>1 DEF BufferSets
  <2>5. QED  BY <2>1, <2>2, <2>3, <2>4 DEF TA!TypeOK
<1>3. TA!WorkIsTimed
  BY DEF TcaInv, TcaSound, Timed, MatchIsFlagged, IsDue, TA!Due, TA!WorkIsTimed
<1>4. TA!OutputFollowsCount
  BY DEF TcaInv, TcaSound, LevelIsCounted, IsDue, TA!Due, TA!OutputFollowsCount
<1>5. QED  BY <1>2, <1>3, <1>4

-----------------------------------------------------------------------------
(* The timer B *)

TcbTypes ==
    [enable : BOOLEAN, mode : TB!Modes, out : BOOLEAN, captei : BOOLEAN, clk : Divs, lo : TB!Byte,
     hi : TB!Byte, reg : TB!Word, run : BOOLEAN, div : Divs, top : TB!Word, since : Nat,
     count : TB!Word,
     armed : BOOLEAN, stage : 0 .. 2, level : BOOLEAN, wo : BOOLEAN,
     flags : SUBSET {"CAPT", "OVF"}, due : Int, gauge : Int, shown : Int, stale : BOOLEAN]

\* The cycle timer is armed exactly while the counter runs, and called in time.
TcbArmed(t) ==
    /\ t.run <=> t.due # TB!Never
    /\ t.run => t.enable /\ t.due >= -Lateness

\* A capturing counter is called when it wraps, or as early as the wrap before
\* was noticed late.
WrapIsTimed(t) ==
    t.run /\ t.mode \in TB!Capturing =>
        (TB!Max + 1) * t.div - (t.count * t.div + t.since) - t.due \in 0 .. Lateness

\* A time-out counter is called when it passes CCMP, which is its TOP.
TopIsTimed(t) ==
    t.mode = "timeout" /\ ~t.stale =>
        /\ t.top = TB!Ccmp(t)
        /\ t.run => \/ t.due = (TB!Ccmp(t) + 1) * t.div - (t.count * t.div + t.since)
                    \/ /\ t.due = (TB!Max + 1 + TB!Ccmp(t) + 1) * t.div
                                 - (t.count * t.div + t.since)
                       /\ t.count > TB!Ccmp(t)

\* What is measured is the time since the edge, whole periods left out; no wrap
\* since was noticed late.
GaugeIsSince(t) ==
    t.gauge # TB!Never =>
        /\ t.run /\ t.mode \in TB!Capturing /\ t.count = 0
        /\ t.since + t.due = (TB!Max + 1) * t.div
        /\ t.gauge = t.since % ((TB!Max + 1) * t.div)

WidthIsShown(t) == t.shown # TB!Never => t.shown = TB!Ccmp(t)

\* The count at which the output of a count changes next.
NextChange(t, n) == IF t.hi > n /\ t.hi <= t.lo THEN t.hi ELSE t.lo + 1

\* The output was set for the count n, b cycles after it began; the timer waits
\* for the next change, or for a tick less a cycle beyond it.
OutputIsTimed(t) ==
    /\ t.wo => t.mode = "pwm8" /\ t.enable /\ t.out
    /\ t.mode = "pwm8" /\ t.enable =>
          /\ t.run
          /\ \E n \in 0 .. t.lo, b \in Nat, i \in Int :
                /\ n * t.div + b = t.count * t.div + t.since + i * ((t.lo + 1) * t.div)
                /\ t.due + b <= (NextChange(t, n) - n) * t.div + t.div - 1
                /\ t.out => (t.wo <=> (t.hi > t.lo \/ n < t.hi))

TcbSound(t) ==
    /\ t \in TcbTypes
    /\ TcbArmed(t) /\ WrapIsTimed(t) /\ TopIsTimed(t)
    /\ GaugeIsSince(t) /\ WidthIsShown(t) /\ OutputIsTimed(t)

TcbInv == TcbSound(tcb)

-----------------------------------------------------------------------------
(* Division *)

\* What the quotient and the remainder are.
LEMMA QuotientIs ==
    ASSUME NEW a \in Nat, NEW q \in Nat, NEW r \in Nat, NEW d \in Nat \ {0},
           r < d, a = q * d + r
    PROVE  a \div d = q /\ a % d = r
<1> DEFINE x == a \div d
           y == a % d
<1>1. x \in Nat /\ y \in Nat /\ y < d /\ a = x * d + y
  OBVIOUS
<1> HIDE DEF x, y
<1>2. ASSUME x > q
      PROVE  FALSE
  <2>1. x * d >= (q + 1) * d
    BY <1>1, <1>2
  <2>2. (q + 1) * d = q * d + d
    OBVIOUS
  <2>3. q * d \in Nat /\ x * d \in Nat
    BY <1>1
  <2>4. QED  BY <1>1, <2>1, <2>2, <2>3
<1>3. ASSUME q > x
      PROVE  FALSE
  <2>1. q * d >= (x + 1) * d
    BY <1>1, <1>3
  <2>2. (x + 1) * d = x * d + d
    BY <1>1
  <2>3. q * d \in Nat /\ x * d \in Nat
    BY <1>1
  <2>4. QED  BY <1>1, <2>1, <2>2, <2>3
<1>4. x = q
  BY <1>1, <1>2, <1>3
<1>5. y = r
  <2>1. q * d \in Nat
    OBVIOUS
  <2>2. QED  BY <1>1, <1>4, <2>1
<1>6. QED  BY <1>4, <1>5 DEF x, y

\* A number is its quotient and its remainder.
LEMMA TcbDivided ==
    ASSUME NEW a \in Nat, NEW d \in Nat \ {0}
    PROVE  /\ a \div d \in Nat /\ a % d \in Nat /\ a % d < d
           /\ a = (a \div d) * d + (a % d)
OBVIOUS

\* A count in ticks is the count in cycles, divided.
LEMMA TicksOfCycles ==
    ASSUME NEW n \in Nat, NEW s \in Nat, NEW d \in Nat \ {0}
    PROVE  n + s \div d = (n * d + s) \div d /\ n * d + s \in Nat
<1>1. s \div d \in Nat /\ s % d \in Nat /\ s % d < d /\ s = (s \div d) * d + (s % d)
  BY TcbDivided
<1>2. \A q \in Nat : (n + q) * d = n * d + q * d /\ q * d \in Nat /\ n * d \in Nat
  OBVIOUS
<1>3. PICK q \in Nat, r \in Nat : q = n + s \div d /\ r = s % d
  BY <1>1
<1>4. PICK a \in Nat : a = n * d + s
  BY <1>2
<1>5. a = q * d + r /\ r < d
  <2>1. q * d = n * d + (s \div d) * d
    BY <1>1, <1>2, <1>3
  <2>2. s = (s \div d) * d + r
    BY <1>1, <1>3
  <2>3. n * d \in Nat /\ (s \div d) * d \in Nat
    BY <1>1, <1>2
  <2>4. QED  BY <1>1, <1>3, <1>4, <2>1, <2>2, <2>3
<1>6. a \div d = q
  BY <1>5, QuotientIs
<1>7. QED  BY <1>3, <1>4, <1>6

\* Cycles that are a count within a period after whole periods have its count.
LEMMA CountInPeriod ==
    ASSUME NEW a \in Nat, NEW i \in Int, NEW m \in Nat \ {0}, NEW d \in Nat \ {0},
           NEW n \in Nat, NEW b \in Nat, n < m, b < d, a = n * d + b + i * (m * d)
    PROVE  (a \div d) % m = n
<1>1. i * (m * d) = (i * m) * d
  OBVIOUS
<1>2. i \in Nat
  <2>1. SUFFICES ASSUME i <= -1
                 PROVE  FALSE
    OBVIOUS
  <2>2. i * (m * d) <= -(m * d)
    <3>1. \A x \in Nat : i * x <= -x
      BY <2>1
    <3>2. m * d \in Nat
      OBVIOUS
    <3>3. QED  BY <3>1, <3>2
  <2>3. n * d + b < m * d
    <3>1. (n + 1) * d <= m * d
      OBVIOUS
    <3>2. (n + 1) * d = n * d + d
      OBVIOUS
    <3>3. n * d \in Nat /\ m * d \in Nat
      OBVIOUS
    <3>4. QED  BY <3>1, <3>2, <3>3
  <2>4. n * d \in Nat /\ m * d \in Nat /\ i * (m * d) \in Int
    OBVIOUS
  <2>5. QED  BY <2>2, <2>3, <2>4
<1>3. i * m \in Nat /\ i * m + n \in Nat
  BY <1>2
<1>4. a = (i * m + n) * d + b
  BY <1>1, <1>3
<1>5. a \div d = i * m + n
  BY <1>3, <1>4, QuotientIs
<1>6. (i * m + n) % m = n
  BY <1>2, <1>3, QuotientIs
<1>7. QED  BY <1>5, <1>6

\* Whole periods may be left out before or after the division into ticks.
LEMMA RemainderOfCycles ==
    ASSUME NEW s \in Nat, NEW d \in Nat \ {0}, NEW m \in Nat \ {0}
    PROVE  (s \div d) % m = (s % (m * d)) \div d
<1>1. PICK N \in Nat \ {0} : N = m * d
  OBVIOUS
<1>2. /\ s \div N \in Nat /\ s % N \in Nat /\ s % N < N
      /\ s = (s \div N) * N + (s % N)
  BY TcbDivided
<1>3. PICK g \in Nat, i \in Nat : g = s % N /\ i = s \div N /\ g < N /\ s = i * N + g
  BY <1>2
<1>4. /\ g \div d \in Nat /\ g % d \in Nat /\ g % d < d /\ g = (g \div d) * d + (g % d)
  BY TcbDivided
<1>5. PICK n \in Nat, b \in Nat : n = g \div d /\ b < d /\ g = n * d + b
  BY <1>4
<1>6. n < m
  BY <1>1, <1>3, <1>5, QuotientBelow
<1>7. s = n * d + b + i * (m * d)
  <2>1. i * N \in Nat /\ n * d \in Nat
    OBVIOUS
  <2>2. s = n * d + b + i * N
    BY <1>3, <1>5, <2>1
  <2>3. QED  BY <1>1, <2>2
<1>8. (s \div d) % m = n
  <2>1. i \in Int /\ m \in Nat \ {0} /\ b < d
    BY <1>5
  <2>2. QED  BY <1>6, <1>7, <2>1, CountInPeriod, Zenon
<1>9. QED  BY <1>1, <1>3, <1>5, <1>8

-----------------------------------------------------------------------------
(* The counter *)

LEMMA TcbConstants ==
    ASSUME TB!WellFormed
    PROVE  /\ Base \in Nat \ {0} /\ TB!Max \in Nat /\ TB!Max + 1 \in Nat \ {0}
           /\ Base - 1 <= TB!Max
           /\ TB!Max + 1 = Base * Base /\ Lateness \in Nat /\ -Lateness > TB!Never
           /\ \A d \in Divs : d \in Nat \ {0} /\ d <= Lateness + 1
           /\ 1 \in Divs /\ 0 \in TB!Byte /\ 0 \in TB!Word /\ TB!Never \in Int
<1>1. Base \in Nat \ {0} /\ Lateness \in Nat /\ -Lateness > TB!Never
  BY DEF TB!WellFormed
<1>2. \A d \in Divs : d \in 1 .. Lateness + 1
  BY DEF TB!WellFormed
<1>3. \A d \in Divs : d \in Nat \ {0} /\ d <= Lateness + 1
  BY <1>1, <1>2
<1>4. Base * Base \in Nat /\ Base * Base >= Base
  BY <1>1
<1>5. TB!Max \in Nat /\ TB!Max + 1 \in Nat \ {0} /\ Base - 1 <= TB!Max /\ TB!Max + 1 = Base * Base
  BY <1>1, <1>4 DEF TB!Max
<1>6. 0 \in TB!Byte /\ 0 \in TB!Word
  BY <1>1, <1>5 DEF TB!Byte, TB!Word
<1>7. QED  BY <1>1, <1>3, <1>5, <1>6 DEF TB!WellFormed, TB!Never

LEMMA TcbFields ==
    ASSUME TB!WellFormed, NEW t \in TcbTypes
    PROVE  /\ t.lo \in Nat /\ t.lo <= Base - 1 /\ t.hi \in Nat /\ t.hi <= Base - 1
           /\ t.count \in Nat /\ t.count <= TB!Max /\ t.reg \in Nat /\ t.reg <= TB!Max
           /\ t.top \in Nat /\ t.top <= TB!Max /\ t.since \in Nat /\ t.due \in Int
           /\ t.div \in Nat \ {0} /\ t.div <= Lateness + 1
<1>1. Base \in Nat \ {0} /\ TB!Max \in Nat
  BY TcbConstants
<1>2. t.lo \in 0 .. Base - 1 /\ t.hi \in 0 .. Base - 1
  BY DEF TcbTypes, TB!Byte
<1>3. t.count \in 0 .. TB!Max /\ t.reg \in 0 .. TB!Max /\ t.top \in 0 .. TB!Max
  BY DEF TcbTypes, TB!Word
<1>4. t.div \in Divs /\ t.since \in Nat /\ t.due \in Int
  BY DEF TcbTypes
<1>5. t.div \in Nat \ {0} /\ t.div <= Lateness + 1
  BY <1>4, TcbConstants
<1>6. t.lo \in Nat /\ t.lo <= Base - 1 /\ t.hi \in Nat /\ t.hi <= Base - 1
  BY <1>1, <1>2
<1>7. /\ t.count \in Nat /\ t.count <= TB!Max /\ t.reg \in Nat /\ t.reg <= TB!Max
      /\ t.top \in Nat /\ t.top <= TB!Max
  BY <1>1, <1>3
<1>8. QED  BY <1>4, <1>5, <1>6, <1>7

\* The count of the cycles since it was set.
LEMMA CurrentIs ==
    ASSUME TB!WellFormed, NEW t \in TcbTypes, t.run,
           NEW m, m = IF t.mode = "pwm8" THEN t.lo + 1 ELSE TB!Max + 1
    PROVE  /\ m \in Nat \ {0} /\ m <= TB!Max + 1 /\ t.count * t.div + t.since \in Nat
           /\ TB!Current(t) = ((t.count * t.div + t.since) \div t.div) % m
           /\ TB!Current(t) \in Nat /\ TB!Current(t) < m
<1>1. /\ t.lo \in Nat /\ t.lo <= Base - 1 /\ t.count \in Nat /\ t.since \in Nat
      /\ t.div \in Nat \ {0} /\ TB!Max \in Nat /\ Base - 1 <= TB!Max /\ Base \in Nat
  BY TcbConstants, TcbFields
<1>2. m \in Nat \ {0} /\ m <= TB!Max + 1
  BY <1>1
<1>3. /\ t.count + t.since \div t.div = (t.count * t.div + t.since) \div t.div
      /\ t.count * t.div + t.since \in Nat
  BY <1>1, TicksOfCycles
<1>4. TB!Current(t) = (t.count + t.since \div t.div) % m
  BY DEF TB!Current
<1>5. PICK a \in Nat : a = (t.count * t.div + t.since) \div t.div
  <2>1. \A x \in Nat : x \div t.div \in Nat
    BY <1>1
  <2>2. QED  BY <1>3, <2>1
<1>6. a % m \in 0 .. m - 1
  BY <1>2, Remainder
<1>7. a % m \in Nat /\ a % m < m
  BY <1>2, <1>6
<1>8. QED  BY <1>2, <1>3, <1>4, <1>5, <1>7

LEMMA CurrentIsTyped ==
    ASSUME TB!WellFormed, NEW t \in TcbTypes
    PROVE  TB!Current(t) \in TB!Word
<1>1. CASE t.run
  <2>1. PICK m : m = IF t.mode = "pwm8" THEN t.lo + 1 ELSE TB!Max + 1
    OBVIOUS
  <2>2. TB!Current(t) \in Nat /\ TB!Current(t) < m /\ m \in Nat /\ m <= TB!Max + 1
        /\ TB!Max \in Nat
    BY <1>1, <2>1, CurrentIs, TcbConstants
  <2>3. QED  BY <2>2 DEF TB!Word
<1>2. CASE ~t.run
  BY <1>2 DEF TB!Current, TcbTypes
<1>3. QED  BY <1>1, <1>2

\* A counter that was set in this cycle is where it was set.
LEMMA CurrentIsCount ==
    ASSUME TB!WellFormed, NEW t \in TcbTypes, t.run, t.since = 0,
           t.mode = "pwm8" => t.count <= t.lo
    PROVE  TB!Current(t) = t.count
<1>1. PICK m : m = IF t.mode = "pwm8" THEN t.lo + 1 ELSE TB!Max + 1
  OBVIOUS
<1>2. /\ t.lo \in Nat /\ t.count \in Nat /\ t.count <= TB!Max /\ t.div \in Nat \ {0}
         /\ TB!Max \in Nat
  BY TcbConstants, TcbFields
<1>3. t.count < m /\ m \in Nat \ {0}
  BY <1>1, <1>2
<1>4. t.since \div t.div = 0
  BY <1>2
<1>5. TB!Current(t) = (t.count + 0) % m
  BY <1>1, <1>4 DEF TB!Current
<1>6. t.count + 0 = t.count
  BY <1>2
<1>7. QED  BY <1>2, <1>3, <1>5, <1>6, Remainder

-----------------------------------------------------------------------------
(* Starting and stopping *)

LEMMA StoppedIsTyped ==
    ASSUME TB!WellFormed, NEW t \in TcbTypes
    PROVE  \E s \in TcbTypes :
              /\ s = TB!Stopped(t) /\ ~s.run /\ s.due = TB!Never
              /\ \A f \in {"enable", "mode", "out", "lo", "hi", "div", "top", "armed", "stage",
                           "wo", "flags", "gauge", "shown", "stale"} : s[f] = t[f]
<1>1. PICK n \in TB!Word : n = TB!Current(t)
  BY CurrentIsTyped
<1>2. PICK v \in Int : v = TB!Never
  BY TcbConstants
<1>3. PICK s : s = TB!Stopped(t)
  OBVIOUS
<1>4. s = [t EXCEPT !.run = FALSE, !.count = n, !.reg = n, !.since = 0, !.due = v]
  BY <1>1, <1>2, <1>3 DEF TB!Stopped, TB!SetRunning
<1>5. s \in TcbTypes /\ ~s.run /\ s.due = v
  BY <1>4 DEF TcbTypes
<1>6. \A f \in {"enable", "mode", "out", "lo", "hi", "div", "top", "armed", "stage", "wo",
               "flags", "gauge", "shown", "stale"} : s[f] = t[f]
  BY <1>4 DEF TcbTypes
<1>7. QED  BY <1>2, <1>3, <1>5, <1>6

\* The counter is set to a count and its timer armed.
LEMMA StartedIsTyped ==
    ASSUME TB!WellFormed, NEW t \in TcbTypes, NEW n \in TB!Word,
           TB!Delta(TB!SetRunning(t, TRUE, n)) \in Int
    PROVE  \E s \in TcbTypes :
              /\ s = TB!Timed(TB!SetRunning(t, TRUE, n)) /\ s.run /\ s.count = n /\ s.since = 0
              /\ s.due = TB!Delta(TB!SetRunning(t, TRUE, n))
              /\ \A f \in {"enable", "mode", "out", "lo", "hi", "div", "top", "armed", "stage",
                           "wo", "flags", "gauge", "shown", "stale"} : s[f] = t[f]
<1>1. PICK v \in Int : v = TB!Delta(TB!SetRunning(t, TRUE, n))
  OBVIOUS
<1>2. PICK s : s = TB!Timed(TB!SetRunning(t, TRUE, n))
  OBVIOUS
<1>3. s = [t EXCEPT !.run = TRUE, !.count = n, !.reg = n, !.since = 0, !.due = v]
  BY <1>1, <1>2 DEF TB!Timed, TB!SetRunning
<1>4. s \in TcbTypes /\ s.run /\ s.count = n /\ s.since = 0 /\ s.due = v
  BY <1>3 DEF TcbTypes
<1>5. \A f \in {"enable", "mode", "out", "lo", "hi", "div", "top", "armed", "stage", "wo",
               "flags", "gauge", "shown", "stale"} : s[f] = t[f]
  BY <1>3 DEF TcbTypes
<1>6. QED  BY <1>1, <1>2, <1>4, <1>5

LEMMA SetIsTyped ==
    ASSUME NEW t \in TcbTypes, NEW r \in BOOLEAN, NEW n \in TB!Word
    PROVE  \E s \in TcbTypes :
              /\ s = TB!SetRunning(t, r, n) /\ s.run = r /\ s.count = n /\ s.since = 0
              /\ \A f \in {"enable", "mode", "out", "lo", "hi", "div", "top", "armed", "stage",
                           "wo", "flags", "gauge", "shown", "stale", "due"} : s[f] = t[f]
<1>1. PICK s : s = TB!SetRunning(t, r, n)
  OBVIOUS
<1>2. s = [t EXCEPT !.run = r, !.count = n, !.reg = n, !.since = 0]
  BY <1>1 DEF TB!SetRunning
<1>3. s \in TcbTypes /\ s.run = r /\ s.count = n /\ s.since = 0
  BY <1>2 DEF TcbTypes
<1>4. \A f \in {"enable", "mode", "out", "lo", "hi", "div", "top", "armed", "stage", "wo",
               "flags", "gauge", "shown", "stale", "due"} : s[f] = t[f]
  BY <1>2 DEF TcbTypes
<1>5. QED  BY <1>1, <1>3, <1>4

\* What the cycle timer of a counter that is set now is armed with.
LEMMA DeltaIs ==
    ASSUME TB!WellFormed, NEW t \in TcbTypes, t.run, t.since = 0,
           t.mode = "pwm8" => t.count <= t.lo
    PROVE  /\ t.mode = "int" => TB!Delta(t) = (t.top + 1) * t.div
           /\ t.mode = "timeout" => TB!Delta(t) = (t.top + 1 - t.count) * t.div
           /\ t.mode \in TB!Capturing => TB!Delta(t) = (TB!Max + 1 - t.count) * t.div
           /\ t.mode = "pwm8" => TB!Delta(t) = (NextChange(t, t.count) - t.count) * t.div
<1>1. TB!Current(t) = t.count
  BY CurrentIsCount
<1>2. t.lo \in Nat /\ t.hi \in Nat /\ t.count \in Nat
  BY TcbFields
<1>3. CASE t.mode = "pwm8"
  <2>1. NextChange(t, t.count) > t.count
    BY <1>2, <1>3 DEF NextChange
  <2>2. TB!Delta(t) = TB!PwmDelta(t, t.count)
    BY <1>1, <1>3 DEF TB!Delta, TB!Capturing
  <2>3. TB!PwmDelta(t, t.count) = (NextChange(t, t.count) - t.count) * t.div
    BY <2>1 DEF TB!PwmDelta, NextChange
  <2>4. QED  BY <1>3, <2>2, <2>3 DEF TB!Capturing
<1>4. CASE t.mode # "pwm8"
  BY <1>1, <1>4 DEF TB!Delta, TB!Capturing
<1>5. QED  BY <1>3, <1>4

\* The counter starts at 0.
LEMMA RestartedIsTyped ==
    ASSUME TB!WellFormed, NEW t \in TcbTypes, t.mode \in {"timeout"} \cup TB!Capturing
    PROVE  \E s \in TcbTypes :
              /\ s = TB!Restarted(t) /\ s.run /\ s.count = 0 /\ s.since = 0
              /\ s.due = IF t.mode = "timeout" THEN (t.top + 1) * t.div ELSE (TB!Max + 1) * t.div
              /\ \A f \in {"enable", "mode", "out", "lo", "hi", "div", "top", "armed", "stage",
                           "wo", "flags", "gauge", "shown", "stale"} : s[f] = t[f]
<1>1. PICK zero \in TB!Word : zero = 0
  BY TcbConstants
<1>2. PICK r \in TcbTypes :
          /\ r = TB!SetRunning(t, TRUE, zero) /\ r.run = TRUE /\ r.count = zero /\ r.since = 0
          /\ \A f \in {"enable", "mode", "out", "lo", "hi", "div", "top", "armed", "stage", "wo",
                       "flags", "gauge", "shown", "stale", "due"} : r[f] = t[f]
  <2>1. TRUE \in BOOLEAN
    OBVIOUS
  <2>2. QED  BY <2>1, SetIsTyped
<1>3. r.run /\ r.since = 0 /\ r.mode # "pwm8" /\ r.mode = t.mode /\ r.top = t.top /\ r.div = t.div
      /\ r.count = 0
  BY <1>1, <1>2 DEF TB!Capturing
<1>4. /\ t.top \in Nat /\ t.div \in Nat \ {0} /\ TB!Max \in Nat
  BY TcbFields, TcbConstants
<1>5. /\ t.mode = "timeout" => TB!Delta(r) = (r.top + 1 - r.count) * r.div
      /\ t.mode \in TB!Capturing => TB!Delta(r) = (TB!Max + 1 - r.count) * r.div
  BY <1>3, DeltaIs
<1>6. t.top + 1 - 0 = t.top + 1 /\ TB!Max + 1 - 0 = TB!Max + 1
  BY <1>4
<1>7. TB!Delta(r) = IF t.mode = "timeout" THEN (t.top + 1) * t.div ELSE (TB!Max + 1) * t.div
  BY <1>3, <1>5, <1>6
<1>8. TB!Delta(r) \in Int
  <2>1. (t.top + 1) * t.div \in Int /\ (TB!Max + 1) * t.div \in Int
    BY <1>4
  <2>2. QED  BY <1>7, <2>1
<1>9. PICK s \in TcbTypes :
          /\ s = TB!Timed(TB!SetRunning(t, TRUE, zero)) /\ s.run /\ s.count = zero /\ s.since = 0
          /\ s.due = TB!Delta(TB!SetRunning(t, TRUE, zero))
          /\ \A f \in {"enable", "mode", "out", "lo", "hi", "div", "top", "armed", "stage",
                       "wo", "flags", "gauge", "shown", "stale"} : s[f] = t[f]
  BY <1>2, <1>8, StartedIsTyped
<1>10. s = TB!Restarted(t)
  BY <1>1, <1>9 DEF TB!Restarted
<1>11. QED  BY <1>1, <1>2, <1>7, <1>9, <1>10

\* What is captured is the count, and the time that was measured up to it.
LEMMA CapturedIsTyped ==
    ASSUME TB!WellFormed, NEW t \in TcbTypes, GaugeIsSince(t)
    PROVE  \E s \in TcbTypes :
              /\ s = TB!Captured(t) /\ WidthIsShown(s)
              /\ \A f \in {"enable", "mode", "out", "run", "div", "top", "since", "count", "armed",
                           "stage", "wo", "gauge", "due", "stale"} : s[f] = t[f]
<1>1. /\ Base \in Nat \ {0} /\ TB!Max \in Nat /\ TB!Max + 1 = Base * Base /\ t.div \in Nat \ {0}
      /\ t.since \in Nat
  BY TcbConstants, TcbFields
<1>2. PICK n \in Nat : n = TB!Current(t) /\ n < Base * Base
  <2>1. TB!Current(t) \in 0 .. TB!Max
    BY CurrentIsTyped DEF TB!Word
  <2>2. QED  BY <1>1, <2>1
<1>3. PICK lo \in TB!Byte : lo = TB!Current(t) % Base
  <2>1. n % Base \in 0 .. Base - 1
    BY <1>1, Remainder
  <2>2. QED  BY <1>2, <2>1 DEF TB!Byte
<1>4. PICK hi \in TB!Byte : hi = TB!Current(t) \div Base
  <2>1. n \div Base \in Nat /\ n \div Base < Base
    BY <1>1, <1>2, QuotientBelow
  <2>2. n \div Base \in 0 .. Base - 1
    BY <1>1, <2>1
  <2>3. QED  BY <1>2, <2>2 DEF TB!Byte
<1>5. hi * Base + lo = TB!Current(t)
  BY <1>1, <1>2, <1>3, <1>4, TcbDivided
<1>6. PICK shown \in Int : /\ shown = IF t.gauge = TB!Never THEN TB!Never ELSE t.gauge \div t.div
                           /\ shown # TB!Never => shown = TB!Current(t)
  <2>1. CASE t.gauge = TB!Never
    BY <2>1, TcbConstants
  <2>2. CASE t.gauge # TB!Never
    <3>1. /\ t.run /\ t.mode \in TB!Capturing /\ t.count = 0
          /\ t.gauge = t.since % ((TB!Max + 1) * t.div)
      BY <2>2 DEF GaugeIsSince
    <3>2. (t.since \div t.div) % (TB!Max + 1) = t.gauge \div t.div
      <4>1. TB!Max + 1 \in Nat \ {0}
        BY <1>1
      <4>2. (t.since \div t.div) % (TB!Max + 1) = (t.since % ((TB!Max + 1) * t.div)) \div t.div
        BY <1>1, <4>1, RemainderOfCycles, Zenon
      <4>3. QED  BY <3>1, <4>2
    <3>3. t.since \div t.div \in Nat
      BY <1>1
    <3>4. TB!Current(t) = t.gauge \div t.div
      <4>1. t.mode # "pwm8"
        BY <3>1 DEF TB!Capturing
      <4>2. TB!Current(t) = (0 + t.since \div t.div) % (TB!Max + 1)
        BY <3>1, <4>1 DEF TB!Current
      <4>3. 0 + t.since \div t.div = t.since \div t.div
        BY <3>3
      <4>4. QED  BY <3>2, <4>2, <4>3
    <3>5. t.gauge \div t.div \in Int
      BY <1>2, <3>4
    <3>6. QED  BY <2>2, <3>4, <3>5
  <2>3. QED  BY <2>1, <2>2
<1>7. PICK F \in SUBSET {"CAPT", "OVF"} : F = t.flags \cup {"CAPT"}
  BY DEF TcbTypes
<1>8. PICK s : s = TB!Captured(t)
  OBVIOUS
<1>9. s = [t EXCEPT !.flags = F, !.lo = lo, !.hi = hi, !.shown = shown]
  BY <1>3, <1>4, <1>6, <1>7, <1>8 DEF TB!Captured, TB!Flagged, TcbTypes
<1>10. s \in TcbTypes /\ s.lo = lo /\ s.hi = hi /\ s.shown = shown
  BY <1>9 DEF TcbTypes
<1>11. \A f \in {"enable", "mode", "out", "run", "div", "top", "since", "count", "armed",
                "stage", "wo", "gauge", "due", "stale"} : s[f] = t[f]
  BY <1>9 DEF TcbTypes
<1>12. TB!Ccmp(s) = TB!Current(t)
  BY <1>5, <1>10 DEF TB!Ccmp
<1>13. WidthIsShown(s)
  BY <1>6, <1>10, <1>12 DEF WidthIsShown
<1>14. QED  BY <1>8, <1>10, <1>11, <1>13

-----------------------------------------------------------------------------
(* What is sound *)

\* A counter that stands.
LEMMA StandingIsSound ==
    ASSUME NEW t \in TcbTypes, ~t.run, t.due = TB!Never, t.gauge = TB!Never, ~t.wo,
           ~(t.mode = "pwm8" /\ t.enable), WidthIsShown(t),
           t.mode = "timeout" /\ ~t.stale => t.top = TB!Ccmp(t)
    PROVE  TcbSound(t)
BY DEF TcbSound, TcbArmed, WrapIsTimed, TopIsTimed, GaugeIsSince, OutputIsTimed

\* A counter that an edge started.
LEMMA StartIsSound ==
    ASSUME TB!WellFormed, NEW t \in TcbTypes, t.run, t.enable,
           t.mode \in {"timeout"} \cup TB!Capturing, t.count = 0, t.since = 0,
           t.due = (IF t.mode = "timeout" THEN (t.top + 1) * t.div ELSE (TB!Max + 1) * t.div),
           ~t.wo, t.gauge \in {0, TB!Never}, t.gauge = 0 => t.mode \in TB!Capturing,
           WidthIsShown(t), t.mode = "timeout" /\ ~t.stale => t.top = TB!Ccmp(t)
    PROVE  TcbSound(t)
<1>1. /\ t.top \in Nat /\ t.div \in Nat \ {0} /\ TB!Max \in Nat /\ Lateness \in Nat
      /\ -Lateness > TB!Never
  BY TcbConstants, TcbFields
<1>2. t.mode # "pwm8" /\ (t.mode \in TB!Capturing => t.mode # "timeout")
  BY DEF TB!Capturing
<1>3. /\ (t.top + 1) * t.div \in Nat /\ (t.top + 1) * t.div > 0
      /\ (TB!Max + 1) * t.div \in Nat /\ (TB!Max + 1) * t.div > 0
  <2>1. \A x \in Nat, y \in Nat \ {0} : (x + 1) * y \in Nat /\ (x + 1) * y > 0
    OBVIOUS
  <2>2. QED  BY <1>1, <2>1
<1>4. t.count * t.div + t.since = 0
  BY <1>1
<1>5. TcbArmed(t)
  BY <1>1, <1>3 DEF TcbArmed, TB!Never
<1>6. WrapIsTimed(t)
  <2>1. SUFFICES ASSUME t.mode \in TB!Capturing
                 PROVE  (TB!Max + 1) * t.div - 0 - t.due \in 0 .. Lateness
    BY <1>4 DEF WrapIsTimed
  <2>2. t.due = (TB!Max + 1) * t.div
    BY <1>2, <2>1
  <2>3. QED  BY <1>1, <1>3, <2>2
<1>7. TopIsTimed(t)
  <2>1. SUFFICES ASSUME t.mode = "timeout", ~t.stale
                 PROVE  t.top = TB!Ccmp(t) /\ t.due = (TB!Ccmp(t) + 1) * t.div - 0
    BY <1>4 DEF TopIsTimed
  <2>2. t.top = TB!Ccmp(t) /\ t.due = (t.top + 1) * t.div
    BY <2>1
  <2>3. QED  BY <1>3, <2>2
<1>8. GaugeIsSince(t)
  <2>1. SUFFICES ASSUME t.gauge # TB!Never
                 PROVE  /\ t.mode \in TB!Capturing /\ t.since + t.due = (TB!Max + 1) * t.div
                        /\ t.gauge = t.since % ((TB!Max + 1) * t.div)
    BY DEF GaugeIsSince
  <2>2. t.mode \in TB!Capturing /\ t.gauge = 0
    BY <2>1
  <2>3. t.due = (TB!Max + 1) * t.div
    BY <1>2, <2>2
  <2>4. t.since + t.due = (TB!Max + 1) * t.div
    BY <1>3, <2>3
  <2>5. 0 % ((TB!Max + 1) * t.div) = 0
    BY <1>3, Remainder
  <2>6. QED  BY <2>2, <2>4, <2>5
<1>9. OutputIsTimed(t)
  BY <1>2 DEF OutputIsTimed
<1>10. QED  BY <1>5, <1>6, <1>7, <1>8, <1>9 DEF TcbSound

\* What leaves the counter and its timer alone; a capture is written to CCMP.
LEMMA UntouchedIsSound ==
    ASSUME NEW t, TcbSound(t), NEW u \in TcbTypes, WidthIsShown(u),
           \A f \in {"enable", "mode", "out", "run", "div", "top", "since", "count", "wo", "due",
                    "gauge", "stale"} : u[f] = t[f],
           (u.lo = t.lo /\ u.hi = t.hi) \/ t.mode \in TB!Capturing
    PROVE  TcbSound(u)
<1>1. /\ u.enable = t.enable /\ u.mode = t.mode /\ u.out = t.out /\ u.run = t.run
      /\ u.div = t.div /\ u.top = t.top /\ u.since = t.since /\ u.count = t.count
      /\ u.wo = t.wo /\ u.due = t.due /\ u.gauge = t.gauge /\ u.stale = t.stale
  OBVIOUS
<1>2. TcbArmed(u) /\ WrapIsTimed(u) /\ GaugeIsSince(u)
  BY <1>1 DEF TcbSound, TcbArmed, WrapIsTimed, GaugeIsSince
<1>3. TopIsTimed(u)
  <2>1. CASE t.mode \in TB!Capturing
    BY <1>1, <2>1 DEF TopIsTimed, TB!Capturing
  <2>2. CASE u.lo = t.lo /\ u.hi = t.hi
    <3>1. TB!Ccmp(u) = TB!Ccmp(t)
      BY <2>2 DEF TB!Ccmp
    <3>2. QED  BY <1>1, <3>1 DEF TcbSound, TopIsTimed
  <2>3. QED  BY <2>1, <2>2
<1>4. OutputIsTimed(u)
  <2>1. CASE t.mode \in TB!Capturing
    BY <1>1, <2>1 DEF TcbSound, OutputIsTimed, TB!Capturing
  <2>2. CASE u.lo = t.lo /\ u.hi = t.hi
    <3>1. \A n : NextChange(u, n) = NextChange(t, n)
      BY <2>2 DEF NextChange
    <3>2. QED  BY <1>1, <2>2, <3>1 DEF TcbSound, OutputIsTimed
  <2>3. QED  BY <2>1, <2>2
<1>5. QED  BY <1>2, <1>3, <1>4 DEF TcbSound

LEMMA SoundFacts ==
    ASSUME NEW t, TcbSound(t)
    PROVE  /\ t \in TcbTypes /\ GaugeIsSince(t) /\ WidthIsShown(t)
           /\ t.mode # "pwm8" => ~t.wo
           /\ t.mode \notin TB!Capturing => t.gauge = TB!Never
           /\ t.mode = "timeout" /\ ~t.stale => t.top = TB!Ccmp(t)
BY DEF TcbSound, GaugeIsSince, TopIsTimed, OutputIsTimed

\* But for the history of a measurement, how far it has come and the flags.
Alike(u, t) ==
    /\ u.enable = t.enable /\ u.mode = t.mode /\ u.out = t.out /\ u.lo = t.lo /\ u.hi = t.hi
    /\ u.run = t.run /\ u.div = t.div /\ u.top = t.top /\ u.since = t.since
    /\ u.count = t.count /\ u.wo = t.wo /\ u.due = t.due /\ u.shown = t.shown
    /\ u.stale = t.stale

\* An edge starts the counter, and a measurement with it.
LEMMA RestartIsSound ==
    ASSUME TB!WellFormed, NEW t \in TcbTypes, t.enable, t.mode \in {"timeout"} \cup TB!Capturing,
           ~t.wo, WidthIsShown(t), t.mode = "timeout" /\ ~t.stale => t.top = TB!Ccmp(t),
           NEW u \in TcbTypes, Alike(u, TB!Restarted(t)),
           u.gauge = TB!Never \/ (u.gauge = 0 /\ t.mode \in TB!Capturing)
    PROVE  TcbSound(u)
<1>1. PICK r \in TcbTypes :
          /\ r = TB!Restarted(t) /\ r.run /\ r.count = 0 /\ r.since = 0
          /\ r.due = IF t.mode = "timeout" THEN (t.top + 1) * t.div ELSE (TB!Max + 1) * t.div
          /\ \A f \in {"enable", "mode", "out", "lo", "hi", "div", "top", "armed", "stage",
                       "wo", "flags", "gauge", "shown", "stale"} : r[f] = t[f]
  BY RestartedIsTyped
<1>2. Alike(u, r)
  BY <1>1
<1>3. /\ u.run /\ u.count = 0 /\ u.since = 0 /\ u.enable = t.enable /\ u.mode = t.mode
      /\ u.lo = t.lo /\ u.hi = t.hi /\ u.div = t.div /\ u.top = t.top /\ u.wo = t.wo
      /\ u.shown = t.shown /\ u.stale = t.stale
      /\ u.due = IF t.mode = "timeout" THEN (t.top + 1) * t.div ELSE (TB!Max + 1) * t.div
  BY <1>1, <1>2 DEF Alike
<1>4. TB!Ccmp(u) = TB!Ccmp(t)
  BY <1>3 DEF TB!Ccmp
<1>5. WidthIsShown(u)
  BY <1>3, <1>4 DEF WidthIsShown
<1>6. u.due = IF u.mode = "timeout" THEN (u.top + 1) * u.div ELSE (TB!Max + 1) * u.div
  BY <1>3
<1>7. /\ u.mode \in {"timeout"} \cup TB!Capturing /\ u.gauge \in {0, TB!Never}
      /\ u.gauge = 0 => u.mode \in TB!Capturing
      /\ u.mode = "timeout" /\ ~u.stale => u.top = TB!Ccmp(u)
  BY <1>3, <1>4 DEF TB!Never
<1>8. QED  BY <1>3, <1>5, <1>6, <1>7, StartIsSound

\* An edge stops it.
LEMMA StopIsSound ==
    ASSUME TB!WellFormed, NEW t \in TcbTypes, t.mode # "pwm8",
           ~t.wo, WidthIsShown(t), t.mode = "timeout" /\ ~t.stale => t.top = TB!Ccmp(t),
           NEW u \in TcbTypes, Alike(u, TB!Stopped(t)), u.gauge = TB!Never
    PROVE  TcbSound(u)
<1>1. PICK s \in TcbTypes :
          /\ s = TB!Stopped(t) /\ ~s.run /\ s.due = TB!Never
          /\ \A f \in {"enable", "mode", "out", "lo", "hi", "div", "top", "armed", "stage",
                       "wo", "flags", "gauge", "shown", "stale"} : s[f] = t[f]
  BY StoppedIsTyped
<1>2. Alike(u, s)
  BY <1>1
<1>3. /\ ~u.run /\ u.due = TB!Never /\ u.mode = t.mode /\ u.lo = t.lo /\ u.hi = t.hi
      /\ u.top = t.top /\ u.wo = t.wo /\ u.shown = t.shown /\ u.stale = t.stale
  BY <1>1, <1>2 DEF Alike
<1>4. TB!Ccmp(u) = TB!Ccmp(t)
  BY <1>3 DEF TB!Ccmp
<1>5. WidthIsShown(u)
  BY <1>3, <1>4 DEF WidthIsShown
<1>6. QED  BY <1>3, <1>4, <1>5, StandingIsSound

-----------------------------------------------------------------------------
(* The edges *)

LEMMA RestartedIs ==
    ASSUME TB!WellFormed, NEW t \in TcbTypes, t.mode \in {"timeout"} \cup TB!Capturing
    PROVE  /\ TB!Restarted(t) \in TcbTypes
           /\ TB!Restarted(t).gauge = t.gauge
<1>1. PICK s \in TcbTypes :
          /\ s = TB!Restarted(t)
          /\ \A f \in {"enable", "mode", "out", "lo", "hi", "div", "top", "armed", "stage",
                       "wo", "flags", "gauge", "shown", "stale"} : s[f] = t[f]
  BY RestartedIsTyped
<1>2. QED  BY <1>1

LEMMA CapturedIs ==
    ASSUME TB!WellFormed, NEW t, TcbSound(t), t.mode # "pwm8"
    PROVE  \E k \in TcbTypes :
              /\ k = TB!Captured(t) /\ WidthIsShown(k) /\ k.enable = t.enable /\ k.mode = t.mode
              /\ ~k.wo
<1>1. t \in TcbTypes /\ GaugeIsSince(t) /\ ~t.wo
  BY SoundFacts
<1>2. PICK s \in TcbTypes :
          /\ s = TB!Captured(t) /\ WidthIsShown(s)
          /\ \A f \in {"enable", "mode", "out", "run", "div", "top", "since", "count", "armed",
                       "stage", "wo", "gauge", "due", "stale"} : s[f] = t[f]
  BY <1>1, CapturedIsTyped
<1>3. QED  BY <1>1, <1>2

\* A capture of a counter that is not stopped.
LEMMA CaptureIsSound ==
    ASSUME TB!WellFormed, NEW t, TcbSound(t), t.mode \in TB!Capturing,
           NEW n \in 0 .. 2, NEW F \in SUBSET {"CAPT", "OVF"}
    PROVE  TcbSound([TB!Captured(t) EXCEPT !.stage = n, !.flags = F])
<1>1. t \in TcbTypes /\ GaugeIsSince(t)
  BY SoundFacts
<1>2. PICK k \in TcbTypes :
          /\ k = TB!Captured(t) /\ WidthIsShown(k)
          /\ \A f \in {"enable", "mode", "out", "run", "div", "top", "since", "count", "armed",
                       "stage", "wo", "gauge", "due", "stale"} : k[f] = t[f]
  BY <1>1, CapturedIsTyped
<1>3. PICK u : u = [k EXCEPT !.stage = n, !.flags = F]
  OBVIOUS
<1>4. u \in TcbTypes
  BY <1>3 DEF TcbTypes
<1>5. /\ \A f \in {"enable", "mode", "out", "run", "div", "top", "since", "count", "wo", "due",
                   "gauge", "stale"} : u[f] = k[f]
      /\ u.shown = k.shown /\ u.lo = k.lo /\ u.hi = k.hi
  BY <1>3 DEF TcbTypes
<1>6. WidthIsShown(u)
  BY <1>2, <1>5 DEF WidthIsShown, TB!Ccmp
<1>7. \A f \in {"enable", "mode", "out", "run", "div", "top", "since", "count", "wo", "due",
               "gauge", "stale"} : u[f] = t[f]
  BY <1>2, <1>5
<1>8. TcbSound(u)
  BY <1>4, <1>6, <1>7, UntouchedIsSound
<1>9. QED  BY <1>2, <1>3, <1>8

LEMMA PulseIsSound ==
    ASSUME TB!WellFormed, NEW t, TcbSound(t), t.enable, t.mode = "pw", NEW rises \in BOOLEAN
    PROVE  TcbSound(TB!Pulse(t, rises))
<1>1. /\ t \in TcbTypes /\ GaugeIsSince(t) /\ WidthIsShown(t) /\ ~t.wo
  BY SoundFacts
<1>2. "pw" \in TB!Capturing /\ "pw" \in {"timeout"} \cup TB!Capturing
  BY DEF TB!Capturing
<1>3. CASE rises
  <2>1. PICK a : a = [t EXCEPT !.armed = TRUE]
    OBVIOUS
  <2>2. /\ a \in TcbTypes /\ a.armed = TRUE
        /\ \A f \in {"enable", "mode", "lo", "hi", "wo", "shown"} : a[f] = t[f]
    BY <1>1, <2>1 DEF TcbTypes
  <2>3. WidthIsShown(a) /\ a.enable /\ a.mode = "pw" /\ ~a.wo
    BY <1>1, <2>2 DEF WidthIsShown, TB!Ccmp
  <2>4. PICK r \in TcbTypes : r = TB!Restarted(a)
    BY <1>2, <2>2, <2>3, RestartedIs
  <2>5. PICK u : u = [r EXCEPT !.gauge = 0]
    OBVIOUS
  <2>6. u \in TcbTypes /\ u.gauge = 0 /\ Alike(u, r)
    BY <2>5 DEF TcbTypes, Alike
  <2>7. TcbSound(u)
    BY <1>2, <2>2, <2>3, <2>4, <2>6, RestartIsSound
  <2>8. TB!Pulse(t, rises) = u
    BY <1>3, <2>1, <2>4, <2>5 DEF TB!Pulse, TB!Gauged
  <2>9. QED  BY <2>7, <2>8
<1>4. CASE ~rises /\ t.armed
  <2>1. PICK k \in TcbTypes : /\ k = TB!Captured(t) /\ WidthIsShown(k) /\ k.mode = "pw" /\ ~k.wo
    BY CapturedIs
  <2>2. PICK s \in TcbTypes : s = TB!Stopped(k)
    BY <2>1, StoppedIsTyped
  <2>3. PICK v \in Int : v = TB!Never
    BY TcbConstants
  <2>4. PICK u : u = [[s EXCEPT !.gauge = v] EXCEPT !.armed = FALSE]
    OBVIOUS
  <2>5. u \in TcbTypes /\ u.gauge = v /\ Alike(u, s)
    BY <2>4 DEF TcbTypes, Alike
  <2>6. TcbSound(u)
    BY <2>1, <2>2, <2>3, <2>5, StopIsSound
  <2>7. TB!Pulse(t, rises) = u
    BY <1>4, <2>1, <2>2, <2>3, <2>4 DEF TB!Pulse, TB!Ungauged
  <2>8. QED  BY <2>6, <2>7
<1>5. CASE ~rises /\ ~t.armed
  BY <1>5 DEF TB!Pulse
<1>6. QED  BY <1>3, <1>4, <1>5

LEMMA PeriodAndPulseIsSound ==
    ASSUME TB!WellFormed, NEW t, TcbSound(t), t.enable, t.mode = "frqpw", NEW rises \in BOOLEAN
    PROVE  TcbSound(TB!PeriodAndPulse(t, rises))
<1>1. /\ t \in TcbTypes /\ GaugeIsSince(t) /\ WidthIsShown(t) /\ ~t.wo /\ t.stage \in 0 .. 2
  BY SoundFacts DEF TcbTypes
<1>2. "frqpw" \in TB!Capturing /\ "frqpw" \in {"timeout"} \cup TB!Capturing
  BY DEF TB!Capturing
<1>3. CASE rises /\ t.stage = 0
  <2>1. PICK r \in TcbTypes : r = TB!Restarted(t)
    BY <1>1, <1>2, RestartedIs
  <2>2. PICK u : u = [[r EXCEPT !.gauge = 0] EXCEPT !.stage = 1]
    OBVIOUS
  <2>3. u \in TcbTypes /\ u.gauge = 0 /\ Alike(u, r)
    <3>1. PICK n \in 0 .. 2, z \in Int : n = 1 /\ z = 0
      OBVIOUS
    <3>2. u = [[r EXCEPT !.gauge = z] EXCEPT !.stage = n]
      BY <2>2, <3>1
    <3>3. u \in TcbTypes /\ u.gauge = z
      BY <3>2 DEF TcbTypes
    <3>4. Alike(u, r)
      BY <3>2 DEF TcbTypes, Alike
    <3>5. QED  BY <3>1, <3>3, <3>4
  <2>4. TcbSound(u)
    BY <1>1, <1>2, <2>1, <2>3, RestartIsSound
  <2>5. TB!PeriodAndPulse(t, rises) = u
    BY <1>3, <2>1, <2>2 DEF TB!PeriodAndPulse, TB!Gauged
  <2>6. QED  BY <2>4, <2>5
<1>4. CASE rises /\ t.stage # 0
  <2>1. PICK s \in TcbTypes : s = TB!Stopped(t)
    BY <1>1, StoppedIsTyped
  <2>2. PICK v \in Int : v = TB!Never
    BY TcbConstants
  <2>3. PICK g : g = [s EXCEPT !.gauge = v]
    OBVIOUS
  <2>4. g \in TcbTypes /\ g.gauge = v /\ Alike(g, s)
    BY <2>3 DEF TcbTypes, Alike
  <2>5. PICK F \in SUBSET {"CAPT", "OVF"} : F = g.flags \cup {"CAPT"}
    BY <2>4 DEF TcbTypes
  <2>6. PICK u : u = [[g EXCEPT !.flags = F] EXCEPT !.stage = 0]
    OBVIOUS
  <2>7. u \in TcbTypes /\ u.gauge = v /\ Alike(u, g)
    <3>1. PICK n \in 0 .. 2 : n = 0
      OBVIOUS
    <3>2. u = [[g EXCEPT !.flags = F] EXCEPT !.stage = n] /\ g \in TcbTypes
      BY <2>4, <2>6, <3>1
    <3>3. u \in TcbTypes /\ u.gauge = g.gauge
      BY <3>2 DEF TcbTypes
    <3>4. Alike(u, g)
      BY <3>2 DEF TcbTypes, Alike
    <3>5. QED  BY <2>4, <3>3, <3>4
  <2>8. Alike(u, s)
    BY <2>4, <2>7 DEF Alike
  <2>9. TcbSound(u)
    BY <1>1, <2>1, <2>2, <2>7, <2>8, StopIsSound
  <2>10. TB!Flagged(g, "CAPT") = [g EXCEPT !.flags = F]
    BY <2>4, <2>5 DEF TB!Flagged, TcbTypes
  <2>11. TB!PeriodAndPulse(t, rises) = u
    BY <1>4, <2>1, <2>2, <2>3, <2>6, <2>10 DEF TB!PeriodAndPulse, TB!Ungauged
  <2>12. QED  BY <2>9, <2>11
<1>5. CASE ~rises /\ t.stage = 1
  <2>1. t.flags \in SUBSET {"CAPT", "OVF"} /\ 2 \in 0 .. 2
    BY <1>1 DEF TcbTypes
  <2>2. TcbSound([TB!Captured(t) EXCEPT !.stage = 2, !.flags = t.flags])
    BY <1>2, <2>1, CaptureIsSound
  <2>3. TB!PeriodAndPulse(t, rises) = [TB!Captured(t) EXCEPT !.stage = 2, !.flags = t.flags]
    BY <1>5 DEF TB!PeriodAndPulse
  <2>4. QED  BY <2>2, <2>3
<1>6. CASE ~rises /\ t.stage # 1
  <2>1. TB!PeriodAndPulse(t, rises) = t
    BY <1>6 DEF TB!PeriodAndPulse
  <2>2. QED  BY <2>1
<1>7. QED  BY <1>3, <1>4, <1>5, <1>6

LEMMA OnEdgeIsSound ==
    ASSUME TB!WellFormed, NEW t, TcbSound(t), t.enable, NEW rises \in BOOLEAN
    PROVE  TcbSound(TB!OnEdge(t, rises))
<1>1. /\ t \in TcbTypes /\ GaugeIsSince(t) /\ WidthIsShown(t) /\ (t.mode # "pwm8" => ~t.wo)
      /\ (t.mode \notin TB!Capturing => t.gauge = TB!Never)
      /\ (t.mode = "timeout" /\ ~t.stale => t.top = TB!Ccmp(t))
  BY SoundFacts
<1>2. CASE t.mode = "pw"
  <2>1. TB!OnEdge(t, rises) = TB!Pulse(t, rises)
    BY <1>2 DEF TB!OnEdge
  <2>2. QED  BY <1>2, <2>1, PulseIsSound
<1>3. CASE t.mode = "frqpw"
  <2>1. TB!OnEdge(t, rises) = TB!PeriodAndPulse(t, rises)
    BY <1>3 DEF TB!OnEdge
  <2>2. QED  BY <1>3, <2>1, PeriodAndPulseIsSound
<1>4. CASE t.mode = "timeout" /\ rises
  <2>1. TB!OnEdge(t, rises) = IF t.run THEN TB!Stopped(t) ELSE TB!Restarted(t)
    BY <1>4 DEF TB!OnEdge
  <2>2. t.mode \in {"timeout"} \cup TB!Capturing /\ t.gauge = TB!Never /\ t.mode # "pwm8" /\ ~t.wo
    BY <1>1, <1>4 DEF TB!Capturing
  <2>3. TcbSound(TB!Stopped(t))
    <3>1. PICK s \in TcbTypes :
              /\ s = TB!Stopped(t)
              /\ \A f \in {"enable", "mode", "out", "lo", "hi", "div", "top", "armed", "stage",
                           "wo", "flags", "gauge", "shown", "stale"} : s[f] = t[f]
      BY <1>1, StoppedIsTyped
    <3>2. s.gauge = TB!Never /\ Alike(s, TB!Stopped(t))
      BY <2>2, <3>1 DEF Alike
    <3>3. TcbSound(s)
      BY <1>1, <2>2, <3>2, StopIsSound
    <3>4. QED  BY <3>1, <3>3
  <2>4. TcbSound(TB!Restarted(t))
    <3>1. PICK s \in TcbTypes : s = TB!Restarted(t) /\ s.gauge = TB!Never
      BY <1>1, <2>2, RestartedIs
    <3>2. Alike(s, TB!Restarted(t))
      BY <3>1 DEF Alike
    <3>3. TcbSound(s)
      BY <1>1, <2>2, <3>1, <3>2, RestartIsSound
    <3>4. QED  BY <3>1, <3>3
  <2>5. QED  BY <2>1, <2>3, <2>4
<1>5. CASE t.mode = "capt" /\ rises
  <2>1. TB!OnEdge(t, rises) = TB!Captured(t)
    BY <1>5 DEF TB!OnEdge
  <2>2. PICK k \in TcbTypes :
            /\ k = TB!Captured(t) /\ WidthIsShown(k)
            /\ \A f \in {"enable", "mode", "out", "run", "div", "top", "since", "count", "armed",
                         "stage", "wo", "gauge", "due", "stale"} : k[f] = t[f]
    BY <1>1, CapturedIsTyped
  <2>3. \A f \in {"enable", "mode", "out", "run", "div", "top", "since", "count", "wo", "due",
                 "gauge", "stale"} : k[f] = t[f]
    BY <2>2
  <2>4. t.mode \in TB!Capturing
    BY <1>5 DEF TB!Capturing
  <2>5. TcbSound(k)
    BY <2>2, <2>3, <2>4, UntouchedIsSound
  <2>6. QED  BY <2>1, <2>2, <2>5
<1>6. CASE t.mode = "frq" /\ rises
  <2>1. TB!OnEdge(t, rises) = TB!Gauged(TB!Restarted(TB!Captured(t)))
    BY <1>6 DEF TB!OnEdge
  <2>2. "frq" \in TB!Capturing /\ "frq" \in {"timeout"} \cup TB!Capturing
    BY DEF TB!Capturing
  <2>3. PICK k \in TcbTypes :
            k = TB!Captured(t) /\ WidthIsShown(k) /\ k.enable /\ k.mode = "frq" /\ ~k.wo
    BY <1>6, CapturedIs
  <2>4. PICK r \in TcbTypes : r = TB!Restarted(k)
    BY <2>2, <2>3, RestartedIs
  <2>5. PICK u : u = [r EXCEPT !.gauge = 0]
    OBVIOUS
  <2>6. u \in TcbTypes /\ u.gauge = 0 /\ Alike(u, r)
    BY <2>5 DEF TcbTypes, Alike
  <2>7. TcbSound(u)
    BY <2>2, <2>3, <2>4, <2>6, RestartIsSound
  <2>8. QED  BY <2>1, <2>3, <2>4, <2>5, <2>7 DEF TB!Gauged
<1>7. CASE t.mode \in {"int", "pwm8"} \/ (t.mode \in {"timeout", "capt", "frq"} /\ ~rises)
  <2>1. TB!OnEdge(t, rises) = t
    BY <1>7 DEF TB!OnEdge
  <2>2. QED  BY <2>1
<1>8. t.mode \in {"int", "timeout", "pwm8", "capt", "frq", "pw", "frqpw"}
  BY <1>1 DEF TcbTypes, TB!Modes, TB!Capturing
<1>9. QED  BY <1>2, <1>3, <1>4, <1>5, <1>6, <1>7, <1>8

LEMMA TcbEventKeeps ==
    ASSUME TB!WellFormed, TcbInv, TB!Event
    PROVE  TcbInv'
<1>1. tcb \in TcbTypes /\ TcbSound(tcb) /\ WidthIsShown(tcb)
  BY SoundFacts DEF TcbInv
<1>2. PICK q : q = [tcb EXCEPT !.level = ~@]
  OBVIOUS
<1>3. q \in TcbTypes
  BY <1>1, <1>2 DEF TcbTypes
<1>4. /\ \A f \in {"enable", "mode", "out", "run", "div", "top", "since", "count", "wo", "due",
                   "gauge", "stale"} : q[f] = tcb[f]
      /\ q.lo = tcb.lo /\ q.hi = tcb.hi /\ q.shown = tcb.shown
  BY <1>1, <1>2 DEF TcbTypes
<1>5. WidthIsShown(q)
  BY <1>1, <1>4 DEF WidthIsShown, TB!Ccmp
<1>6. TcbSound(q)
  BY <1>1, <1>3, <1>4, <1>5, UntouchedIsSound
<1>7. tcb' = IF q.enable /\ q.captei THEN TB!OnEdge(q, q.level) ELSE q
  BY <1>2 DEF TB!Event
<1>8. q.level \in BOOLEAN
  BY <1>3 DEF TcbTypes
<1>9. q.enable => TcbSound(TB!OnEdge(q, q.level))
  BY <1>6, <1>8, OnEdgeIsSound
<1>10. TcbSound(tcb')
  BY <1>6, <1>7, <1>9
<1>11. QED  BY <1>10 DEF TcbInv

-----------------------------------------------------------------------------
(* The output *)

\* What count, delay and level are computed from.
SameCount(u, t) ==
    /\ u.run = t.run /\ u.count = t.count /\ u.since = t.since /\ u.div = t.div
    /\ u.mode = t.mode /\ u.lo = t.lo /\ u.hi = t.hi /\ u.top = t.top
    /\ u.enable = t.enable /\ u.out = t.out

LEMMA CountStays ==
    ASSUME NEW t, NEW u, SameCount(u, t)
    PROVE  /\ TB!Current(u) = TB!Current(t) /\ TB!Delta(u) = TB!Delta(t)
           /\ TB!WoLevel(u) = TB!WoLevel(t)
           /\ TB!Ccmp(u) = TB!Ccmp(t)
<1>1. TB!Current(u) = TB!Current(t)
  BY DEF SameCount, TB!Current
<1>2. \A n : TB!PwmDelta(u, n) = TB!PwmDelta(t, n)
  BY DEF SameCount, TB!PwmDelta
<1>3. TB!Delta(u) = TB!Delta(t)
  BY <1>1, <1>2 DEF SameCount, TB!Delta
<1>4. TB!WoLevel(u) = TB!WoLevel(t)
  BY <1>1 DEF SameCount, TB!WoLevel
<1>5. QED  BY <1>1, <1>3, <1>4 DEF SameCount, TB!Ccmp

\* The timer of a pulse width modulated counter waits for the next change.
LEMMA PwmDeltaIs ==
    ASSUME TB!WellFormed, NEW t \in TcbTypes, t.mode = "pwm8", t.run
    PROVE  /\ TB!Current(t) \in 0 .. t.lo
           /\ TB!Delta(t) = (NextChange(t, TB!Current(t)) - TB!Current(t)) * t.div
           /\ TB!Delta(t) \in Nat \ {0}
<1>1. t.lo \in Nat /\ t.hi \in Nat /\ t.div \in Nat \ {0}
  BY TcbFields
<1>2. PICK m : m = t.lo + 1
  OBVIOUS
<1>3. PICK n \in 0 .. t.lo : n = TB!Current(t)
  <2>1. TB!Current(t) \in Nat /\ TB!Current(t) < m
    BY <1>2, CurrentIs
  <2>2. QED  BY <1>1, <1>2, <2>1
<1>4. NextChange(t, n) > n /\ NextChange(t, n) \in Nat
  BY <1>1 DEF NextChange
<1>5. TB!Delta(t) = TB!PwmDelta(t, n)
  BY <1>3 DEF TB!Delta, TB!Capturing
<1>6. TB!PwmDelta(t, n) = (NextChange(t, n) - n) * t.div
  BY <1>4 DEF TB!PwmDelta, NextChange
<1>7. (NextChange(t, n) - n) * t.div \in Nat \ {0}
  <2>1. PICK k \in Nat \ {0} : k = NextChange(t, n) - n
    BY <1>4
  <2>2. k * t.div \in Nat \ {0}
    BY <1>1
  <2>3. QED  BY <2>1, <2>2
<1>8. QED  BY <1>3, <1>5, <1>6, <1>7

LEMMA EmitIsTyped ==
    ASSUME NEW t \in TcbTypes
    PROVE  \E u \in TcbTypes :
              /\ u = TB!EmitWo(t) /\ u.wo = TB!WoLevel(t) /\ SameCount(u, t)
              /\ u.due = t.due /\ u.gauge = t.gauge /\ u.shown = t.shown /\ u.stale = t.stale
<1>1. PICK w \in BOOLEAN : w = TB!WoLevel(t)
  BY Zenon DEF TB!WoLevel
<1>2. PICK u : u = TB!EmitWo(t)
  OBVIOUS
<1>3. u = [t EXCEPT !.wo = w]
  BY <1>1, <1>2 DEF TB!EmitWo
<1>4. u \in TcbTypes /\ u.wo = w
  BY <1>3 DEF TcbTypes
<1>5. SameCount(u, t) /\ u.due = t.due /\ u.gauge = t.gauge /\ u.shown = t.shown
      /\ u.stale = t.stale
  BY <1>3 DEF TcbTypes, SameCount
<1>6. QED  BY <1>1, <1>2, <1>4, <1>5

\* A number of cycles is a count within the period, a part of a tick and whole
\* periods.
LEMMA CyclesInPeriod ==
    ASSUME NEW K \in Nat, NEW d \in Nat \ {0}, NEW m \in Nat \ {0}
    PROVE  /\ K % d \in Nat /\ K % d <= d - 1
           /\ \E i \in Int : ((K \div d) % m) * d + (K % d) = K + i * (m * d)
<1>1. /\ K \div d \in Nat /\ K % d \in Nat /\ K % d < d
      /\ K = (K \div d) * d + (K % d)
  BY TcbDivided
<1>2. PICK q \in Nat, b \in Nat : q = K \div d /\ b = K % d
  BY <1>1
<1>3. K = q * d + b /\ b <= d - 1
  BY <1>1, <1>2
<1>4. /\ q \div m \in Nat /\ q % m \in Nat /\ q = (q \div m) * m + (q % m)
  BY TcbDivided
<1>5. PICK j \in Nat, n \in Nat : j = q \div m /\ n = q % m /\ q = j * m + n
  BY <1>4
<1>6. q * d = j * (m * d) + n * d
  <2>1. (j * m + n) * d = j * (m * d) + n * d
    OBVIOUS
  <2>2. QED  BY <1>5, <2>1
<1>7. -j \in Int /\ (-j) * (m * d) = -(j * (m * d))
  OBVIOUS
<1>8. n * d + b = K + (-j) * (m * d)
  <2>1. n * d \in Nat /\ j * (m * d) \in Nat /\ q * d \in Nat
    OBVIOUS
  <2>2. QED  BY <1>3, <1>6, <1>7, <2>1
<1>9. n * d + b = ((K \div d) % m) * d + (K % d)
  BY <1>2, <1>5
<1>10. QED  BY <1>2, <1>3, <1>7, <1>8, <1>9

\* The output was set now, and the timer waits no longer than for its next change.
LEMMA PwmIsSound ==
    ASSUME TB!WellFormed, NEW u \in TcbTypes, u.mode = "pwm8", u.enable, u.run,
           -Lateness <= u.due, u.due <= TB!Delta(u), u.wo = TB!WoLevel(u), u.gauge = TB!Never,
           WidthIsShown(u)
    PROVE  TcbSound(u)
<1>1. /\ u.lo \in Nat /\ u.div \in Nat \ {0} /\ u.due \in Int /\ Lateness \in Nat
      /\ -Lateness > TB!Never /\ TB!Never \in Int
  BY TcbFields, TcbConstants
<1>2. PICK m \in Nat \ {0} : m = u.lo + 1
  BY <1>1
<1>3. PICK K \in Nat : /\ K = u.count * u.div + u.since
                       /\ TB!Current(u) = (K \div u.div) % m
  BY <1>2, CurrentIs
<1>4. /\ TB!Current(u) \in 0 .. u.lo
      /\ TB!Delta(u) = (NextChange(u, TB!Current(u)) - TB!Current(u)) * u.div
      /\ TB!Delta(u) \in Nat
  BY PwmDeltaIs
<1>5. PICK n \in 0 .. u.lo : n = TB!Current(u)
  BY <1>4
<1>6. PICK b \in Nat, i \in Int : b <= u.div - 1 /\ n * u.div + b = K + i * (m * u.div)
  <2>1. u.div \in Nat \ {0}
    BY <1>1
  <2>2. /\ K % u.div \in Nat /\ K % u.div <= u.div - 1
        /\ \E i \in Int : ((K \div u.div) % m) * u.div + (K % u.div) = K + i * (m * u.div)
    BY <2>1, CyclesInPeriod, Zenon
  <2>3. n = (K \div u.div) % m
    BY <1>3, <1>5
  <2>4. QED  BY <2>2, <2>3, Zenon
<1>7. u.due + b <= (NextChange(u, n) - n) * u.div + u.div - 1
  <2>1. PICK D \in Nat : D = (NextChange(u, n) - n) * u.div /\ u.due <= D
    BY <1>4, <1>5
  <2>2. QED  BY <1>1, <1>6, <2>1
<1>8. u.out => (u.wo <=> (u.hi > u.lo \/ n < u.hi))
  BY <1>5 DEF TB!WoLevel
<1>9. n * u.div + b = u.count * u.div + u.since + i * ((u.lo + 1) * u.div)
  BY <1>2, <1>3, <1>6
<1>10. OutputIsTimed(u)
  <2>1. u.wo => u.out
    BY DEF TB!WoLevel
  <2>2. \E k \in 0 .. u.lo, c \in Nat, j \in Int :
            /\ k * u.div + c = u.count * u.div + u.since + j * ((u.lo + 1) * u.div)
            /\ u.due + c <= (NextChange(u, k) - k) * u.div + u.div - 1
            /\ u.out => (u.wo <=> (u.hi > u.lo \/ k < u.hi))
    <3>1. n \in 0 .. u.lo /\ b \in Nat /\ i \in Int
      OBVIOUS
    <3>2. QED  BY <1>7, <1>8, <1>9, <3>1, Zenon
  <2>3. QED  BY <2>1, <2>2 DEF OutputIsTimed
<1>11. TcbArmed(u)
  BY <1>1 DEF TcbArmed
<1>12. WrapIsTimed(u) /\ TopIsTimed(u) /\ GaugeIsSince(u)
  BY DEF WrapIsTimed, TopIsTimed, GaugeIsSince, TB!Capturing
<1>13. QED  BY <1>10, <1>11, <1>12 DEF TcbSound


-----------------------------------------------------------------------------
(* Configuration *)

LEMMA CcmpIsTyped ==
    ASSUME TB!WellFormed, NEW t \in TcbTypes
    PROVE  TB!Ccmp(t) \in TB!Word
<1>1. /\ t.lo \in Nat /\ t.lo <= Base - 1 /\ t.hi \in Nat /\ t.hi <= Base - 1
      /\ Base \in Nat \ {0} /\ TB!Max \in Nat /\ TB!Max + 1 = Base * Base
  BY TcbFields, TcbConstants
<1>2. t.hi * Base \in Nat /\ t.hi * Base <= (Base - 1) * Base
  BY <1>1
<1>3. (Base - 1) * Base = Base * Base - Base
  BY <1>1
<1>4. Base * Base \in Nat
  BY <1>1
<1>5. t.hi * Base + t.lo \in Nat /\ t.hi * Base + t.lo <= TB!Max
  BY <1>1, <1>2, <1>3, <1>4
<1>6. QED  BY <1>1, <1>5 DEF TB!Ccmp, TB!Word

LEMMA DeltaIsTyped ==
    ASSUME TB!WellFormed, NEW t \in TcbTypes, t.run
    PROVE  TB!Delta(t) \in Int /\ (t.mode # "timeout" => TB!Delta(t) >= 1)
<1>1. PICK n \in Nat : n = TB!Current(t) /\ n <= TB!Max
  <2>1. TB!Current(t) \in 0 .. TB!Max /\ TB!Max \in Nat
    BY CurrentIsTyped, TcbConstants DEF TB!Word
  <2>2. QED  BY <2>1
<1>2. PICK d \in Nat \ {0}, top \in Nat : d = t.div /\ top = t.top
  BY TcbFields
<1>3. TB!Max \in Nat
  BY TcbConstants
<1>4. \A k \in Nat \ {0} : k * d \in Int /\ k * d >= 1
  OBVIOUS
<1>5. \A k \in Int : k * d \in Int
  OBVIOUS
<1>6. CASE t.mode = "int"
  <2>1. TB!Delta(t) = (top + 1) * d
    BY <1>2, <1>6 DEF TB!Delta, TB!Capturing
  <2>2. top + 1 \in Nat \ {0}
    OBVIOUS
  <2>3. QED  BY <1>4, <2>1, <2>2
<1>7. CASE t.mode = "timeout"
  <2>1. TB!Delta(t) = (top + 1 - n) * d
    BY <1>1, <1>2, <1>7 DEF TB!Delta, TB!Capturing
  <2>2. top + 1 - n \in Int
    OBVIOUS
  <2>3. QED  BY <1>5, <1>7, <2>1, <2>2
<1>8. CASE t.mode \in TB!Capturing
  <2>1. TB!Delta(t) = (TB!Max + 1 - n) * d
    BY <1>1, <1>2, <1>8 DEF TB!Delta, TB!Capturing
  <2>2. TB!Max + 1 - n \in Nat \ {0}
    BY <1>1, <1>3
  <2>3. QED  BY <1>4, <2>1, <2>2
<1>9. CASE t.mode = "pwm8"
  <2>1. TB!Delta(t) \in Nat \ {0}
    BY <1>9, PwmDeltaIs
  <2>2. QED  BY <2>1
<1>10. t.mode \in {"int", "timeout", "pwm8"} \cup TB!Capturing
  BY DEF TcbTypes, TB!Modes
<1>11. QED  BY <1>6, <1>7, <1>8, <1>9, <1>10

\* What is set up, not what is counted.
SameSetting(u, t) ==
    /\ u.enable = t.enable /\ u.mode = t.mode /\ u.out = t.out /\ u.lo = t.lo /\ u.hi = t.hi
    /\ u.div = t.div /\ u.top = t.top /\ u.wo = t.wo /\ u.gauge = t.gauge
    /\ u.shown = t.shown /\ u.stale = t.stale

LEMMA SetIs ==
    ASSUME NEW t \in TcbTypes, NEW r \in BOOLEAN, NEW n \in TB!Word
    PROVE  \E s \in TcbTypes :
              /\ s = TB!SetRunning(t, r, n) /\ s.run = r /\ s.count = n /\ s.since = 0
              /\ s.due = t.due /\ SameSetting(s, t)
<1>1. PICK s \in TcbTypes :
          /\ s = TB!SetRunning(t, r, n) /\ s.run = r /\ s.count = n /\ s.since = 0
          /\ \A f \in {"enable", "mode", "out", "lo", "hi", "div", "top", "armed", "stage",
                       "wo", "flags", "gauge", "shown", "stale", "due"} : s[f] = t[f]
  BY SetIsTyped
<1>2. s.due = t.due /\ SameSetting(s, t)
  BY <1>1 DEF SameSetting
<1>3. QED  BY <1>1, <1>2

LEMMA StoppedIs ==
    ASSUME TB!WellFormed, NEW t \in TcbTypes
    PROVE  \E s \in TcbTypes : s = TB!Stopped(t) /\ ~s.run /\ s.due = TB!Never /\ SameSetting(s, t)
<1>1. PICK s \in TcbTypes :
          /\ s = TB!Stopped(t) /\ ~s.run /\ s.due = TB!Never
          /\ \A f \in {"enable", "mode", "out", "lo", "hi", "div", "top", "armed", "stage",
                       "wo", "flags", "gauge", "shown", "stale"} : s[f] = t[f]
  BY StoppedIsTyped
<1>2. SameSetting(s, t)
  BY <1>1 DEF SameSetting
<1>3. QED  BY <1>1, <1>2

LEMMA StartedIs ==
    ASSUME TB!WellFormed, NEW t \in TcbTypes, NEW n \in TB!Word
    PROVE  \E s \in TcbTypes :
              /\ s = TB!Timed(TB!SetRunning(t, TRUE, n)) /\ s.run /\ s.count = n /\ s.since = 0
              /\ s.due = TB!Delta(s) /\ SameSetting(s, t)
<1>1. PICK r \in TcbTypes :
          /\ r = TB!SetRunning(t, TRUE, n) /\ r.run = TRUE /\ r.count = n /\ r.since = 0
          /\ SameSetting(r, t)
  <2>1. TRUE \in BOOLEAN
    OBVIOUS
  <2>2. QED  BY <2>1, SetIs
<1>2. TB!Delta(TB!SetRunning(t, TRUE, n)) \in Int
  BY <1>1, DeltaIsTyped
<1>3. PICK s \in TcbTypes :
          /\ s = TB!Timed(TB!SetRunning(t, TRUE, n)) /\ s.run /\ s.count = n /\ s.since = 0
          /\ s.due = TB!Delta(TB!SetRunning(t, TRUE, n))
          /\ \A f \in {"enable", "mode", "out", "lo", "hi", "div", "top", "armed", "stage",
                       "wo", "flags", "gauge", "shown", "stale"} : s[f] = t[f]
  BY <1>2, StartedIsTyped
<1>4. SameSetting(s, t)
  BY <1>3 DEF SameSetting
<1>5. SameCount(s, r)
  <2>1. s.run = TRUE
    BY <1>3 DEF TcbTypes
  <2>2. QED  BY <1>1, <1>3, <1>4, <2>1 DEF SameSetting, SameCount
<1>6. s.due = TB!Delta(s)
  BY <1>1, <1>3, <1>5, CountStays
<1>7. QED  BY <1>3, <1>4, <1>6

\* A capturing counter is called when it wraps.
LEMMA CapturingIsSound ==
    ASSUME TB!WellFormed, NEW u \in TcbTypes, u.run, u.enable, u.mode \in TB!Capturing, ~u.wo,
           u.since = 0, WidthIsShown(u), -Lateness <= u.due,
           (TB!Max + 1) * u.div - u.count * u.div - u.due \in 0 .. Lateness,
           u.gauge = TB!Never \/ (u.gauge = 0 /\ u.count = 0 /\ u.due = (TB!Max + 1) * u.div)
    PROVE  TcbSound(u)
<1>1. /\ u.div \in Nat \ {0} /\ u.count \in Nat /\ TB!Max \in Nat /\ Lateness \in Nat
      /\ u.due \in Int /\ -Lateness > TB!Never /\ TB!Never \in Int
  BY TcbConstants, TcbFields
<1>2. u.mode # "pwm8" /\ u.mode # "timeout"
  BY DEF TB!Capturing
<1>3. PICK P \in Nat \ {0} : P = (TB!Max + 1) * u.div
  BY <1>1
<1>4. TcbArmed(u)
  BY <1>1 DEF TcbArmed
<1>5. u.count * u.div + u.since = u.count * u.div
  BY <1>1
<1>6. WrapIsTimed(u)
  BY <1>5 DEF WrapIsTimed
<1>7. TopIsTimed(u) /\ OutputIsTimed(u)
  BY <1>2 DEF TopIsTimed, OutputIsTimed
<1>8. GaugeIsSince(u)
  <2>1. SUFFICES ASSUME u.gauge # TB!Never
                 PROVE  u.since + u.due = P /\ u.gauge = u.since % P /\ u.count = 0
    BY <1>3 DEF GaugeIsSince
  <2>2. u.gauge = 0 /\ u.count = 0 /\ u.due = P
    BY <1>3, <2>1
  <2>3. 0 % P = 0
    BY Remainder
  <2>4. QED  BY <2>2, <2>3
<1>9. QED  BY <1>4, <1>6, <1>7, <1>8 DEF TcbSound

LEMMA IntervalIsSound ==
    ASSUME TB!WellFormed, NEW u \in TcbTypes, u.run, u.enable, u.mode = "int", ~u.wo,
           u.gauge = TB!Never, WidthIsShown(u), -Lateness <= u.due
    PROVE  TcbSound(u)
<1>1. Lateness \in Nat /\ u.due \in Int /\ -Lateness > TB!Never /\ TB!Never \in Int
  BY TcbConstants, TcbFields
<1>2. TcbArmed(u)
  BY <1>1 DEF TcbArmed
<1>3. /\ WrapIsTimed(u) /\ TopIsTimed(u) /\ GaugeIsSince(u) /\ OutputIsTimed(u)
  BY DEF WrapIsTimed, TopIsTimed, GaugeIsSince, OutputIsTimed, TB!Capturing
<1>4. QED  BY <1>2, <1>3 DEF TcbSound

\* A counter that the configuration starts.
LEMMA RunningIsSound ==
    ASSUME TB!WellFormed, NEW u \in TcbTypes, u.run, u.enable, u.mode \in {"int", "capt", "frq",
             "pwm8"},
           u.since = 0, u.due = TB!Delta(u), u.wo = TB!WoLevel(u), u.gauge = TB!Never,
           WidthIsShown(u)
    PROVE  TcbSound(u)
<1>1. u.mode # "timeout"
  OBVIOUS
<1>2. TB!Delta(u) >= 1 /\ u.due \in Int /\ Lateness \in Nat
  BY <1>1, DeltaIsTyped, TcbConstants, TcbFields
<1>3. -Lateness <= u.due /\ u.due <= TB!Delta(u)
  BY <1>2
<1>4. CASE u.mode = "pwm8"
  BY <1>3, <1>4, PwmIsSound
<1>5. ASSUME u.mode # "pwm8"
      PROVE  ~u.wo
  BY <1>5 DEF TB!WoLevel
<1>6. CASE u.mode = "int"
  BY <1>3, <1>5, <1>6, IntervalIsSound
<1>7. CASE u.mode \in {"capt", "frq"}
  <2>1. u.mode \in TB!Capturing /\ u.mode # "pwm8"
    BY <1>7 DEF TB!Capturing
  <2>2. u.due = (TB!Max + 1 - u.count) * u.div
    BY <2>1, DeltaIs
  <2>3. /\ u.div \in Nat \ {0} /\ u.count \in Nat /\ TB!Max \in Nat
    BY TcbConstants, TcbFields
  <2>4. (TB!Max + 1 - u.count) * u.div = (TB!Max + 1) * u.div - u.count * u.div
    BY <2>3
  <2>5. (TB!Max + 1) * u.div \in Int /\ u.count * u.div \in Int
    BY <2>3
  <2>6. (TB!Max + 1) * u.div - u.count * u.div - u.due \in 0 .. Lateness
    BY <1>2, <2>2, <2>4, <2>5
  <2>7. QED  BY <1>3, <1>5, <2>1, <2>6, CapturingIsSound
<1>8. QED  BY <1>4, <1>6, <1>7

LEMMA TcbRescheduleIsSound ==
    ASSUME TB!WellFormed, NEW t \in TcbTypes, t.shown = TB!Never
    PROVE  TcbSound(TB!Reschedule(t))
<1>1. PICK top \in TB!Word : top = TB!Ccmp(t)
  BY CcmpIsTyped
<1>2. PICK v \in Int : v = TB!Never
  BY TcbConstants
<1>3. PICK q : q = [t EXCEPT !.div = t.clk, !.top = top, !.due = v, !.gauge = v, !.stale = FALSE]
  OBVIOUS
<1>4. /\ q \in TcbTypes /\ q.top = top /\ q.due = TB!Never /\ q.gauge = TB!Never /\ q.lo = t.lo
      /\ q.hi = t.hi /\ q.shown = TB!Never
  BY <1>2, <1>3 DEF TcbTypes
<1>5. TB!Ccmp(q) = q.top /\ WidthIsShown(q)
  BY <1>1, <1>4 DEF TB!Ccmp, WidthIsShown
<1>6. q.reg \in TB!Word
  BY <1>4 DEF TcbTypes
<1>7. TB!Reschedule(t)
        = TB!EmitWo(IF ~q.enable THEN TB!Stopped(q)
                    ELSE IF q.mode \in {"int", "capt", "frq", "pwm8"}
                         THEN TB!Timed(TB!SetRunning(q, TRUE, q.reg))
                         ELSE TB!SetRunning(q, FALSE, q.reg))
  BY <1>1, <1>2, <1>3 DEF TB!Reschedule
<1>8. ASSUME NEW s \in TcbTypes, SameSetting(s, q), ~s.run, s.due = TB!Never,
             ~(s.mode = "pwm8" /\ s.enable)
      PROVE  TcbSound(TB!EmitWo(s))
  <2>1. PICK u \in TcbTypes :
            /\ u = TB!EmitWo(s) /\ u.wo = TB!WoLevel(s) /\ SameCount(u, s)
            /\ u.due = s.due /\ u.gauge = s.gauge /\ u.shown = s.shown /\ u.stale = s.stale
    BY EmitIsTyped
  <2>2. ~TB!WoLevel(s)
    BY <1>8 DEF TB!WoLevel
  <2>3. /\ ~u.run /\ u.due = TB!Never /\ u.gauge = TB!Never /\ ~u.wo /\ u.shown = TB!Never
        /\ ~(u.mode = "pwm8" /\ u.enable) /\ u.top = q.top /\ u.lo = q.lo /\ u.hi = q.hi
    BY <1>4, <1>8, <2>1, <2>2 DEF SameCount, SameSetting
  <2>4. u.top = TB!Ccmp(u) /\ WidthIsShown(u)
    BY <1>5, <2>3 DEF TB!Ccmp, WidthIsShown
  <2>5. TcbSound(u)
    BY <2>3, <2>4, StandingIsSound
  <2>6. QED  BY <2>1, <2>5
<1>9. CASE ~q.enable
  <2>1. PICK s \in TcbTypes : s = TB!Stopped(q) /\ ~s.run /\ s.due = TB!Never /\ SameSetting(s, q)
    BY <1>4, StoppedIs
  <2>2. ~s.enable
    BY <1>9, <2>1 DEF SameSetting
  <2>3. QED  BY <1>7, <1>8, <1>9, <2>1, <2>2
<1>10. CASE q.enable /\ q.mode \notin {"int", "capt", "frq", "pwm8"}
  <2>1. PICK s \in TcbTypes :
            /\ s = TB!SetRunning(q, FALSE, q.reg) /\ s.run = FALSE /\ s.due = q.due
            /\ SameSetting(s, q)
    <3>1. FALSE \in BOOLEAN
      OBVIOUS
    <3>2. QED  BY <1>4, <1>6, <3>1, SetIs
  <2>2. s.mode # "pwm8" /\ s.due = TB!Never
    BY <1>4, <1>10, <2>1 DEF SameSetting
  <2>3. TcbSound(TB!EmitWo(s))
    BY <1>8, <2>1, <2>2
  <2>4. QED  BY <1>7, <1>10, <2>1, <2>3
<1>11. CASE q.enable /\ q.mode \in {"int", "capt", "frq", "pwm8"}
  <2>1. PICK s \in TcbTypes :
            /\ s = TB!Timed(TB!SetRunning(q, TRUE, q.reg)) /\ s.run /\ s.since = 0
            /\ s.due = TB!Delta(s) /\ SameSetting(s, q)
    BY <1>4, <1>6, StartedIs
  <2>2. PICK u \in TcbTypes :
            /\ u = TB!EmitWo(s) /\ u.wo = TB!WoLevel(s) /\ SameCount(u, s)
            /\ u.due = s.due /\ u.gauge = s.gauge /\ u.shown = s.shown /\ u.stale = s.stale
    BY EmitIsTyped
  <2>3. u.due = TB!Delta(u) /\ u.wo = TB!WoLevel(u)
    BY <2>1, <2>2, CountStays
  <2>4. /\ u.run /\ u.enable /\ u.mode \in {"int", "capt", "frq", "pwm8"} /\ u.since = 0
        /\ u.gauge = TB!Never /\ u.shown = TB!Never
    BY <1>4, <1>11, <2>1, <2>2 DEF SameCount, SameSetting
  <2>5. WidthIsShown(u)
    BY <2>4 DEF WidthIsShown
  <2>6. TcbSound(u)
    BY <2>3, <2>4, <2>5, RunningIsSound
  <2>7. QED  BY <1>7, <1>11, <2>1, <2>2, <2>6
<1>12. QED  BY <1>9, <1>10, <1>11


-----------------------------------------------------------------------------
(* Registers *)

LEMMA TcbWritesKeep ==
    ASSUME TB!WellFormed, TcbInv,
           \/ \E enable \in BOOLEAN, rate \in Divs : TB!WriteCtrla(enable, rate)
           \/ \E m \in TB!Modes, out \in BOOLEAN : TB!WriteCtrlb(m, out)
    PROVE  TcbInv'
<1>1. tcb \in TcbTypes
  BY DEF TcbInv, TcbSound
<1>2. ASSUME NEW enable \in BOOLEAN, NEW rate \in Divs, TB!WriteCtrla(enable, rate)
      PROVE  TcbSound(tcb')
  <2>1. PICK t : t = [tcb EXCEPT !.enable = enable, !.clk = rate]
    OBVIOUS
  <2>2. t \in TcbTypes /\ t.shown = tcb.shown
    BY <1>1, <2>1 DEF TcbTypes
  <2>3. tcb' = TB!Reschedule(t) /\ tcb.shown = TB!Never
    BY <1>2, <2>1 DEF TB!WriteCtrla, TB!Instruction
  <2>4. QED  BY <2>2, <2>3, TcbRescheduleIsSound
<1>3. ASSUME NEW m \in TB!Modes, NEW out \in BOOLEAN, TB!WriteCtrlb(m, out)
      PROVE  TcbSound(tcb')
  <2>1. PICK t : t = [tcb EXCEPT !.mode = m, !.out = out, !.armed = FALSE, !.stage = 0]
    OBVIOUS
  <2>2. t \in TcbTypes /\ t.shown = tcb.shown
    <3>1. PICK n \in 0 .. 2 : n = 0
      OBVIOUS
    <3>2. t = [tcb EXCEPT !.mode = m, !.out = out, !.armed = FALSE, !.stage = n]
      BY <2>1, <3>1
    <3>3. QED  BY <1>1, <3>2 DEF TcbTypes
  <2>3. tcb' = TB!Reschedule(t) /\ tcb.shown = TB!Never
    BY <1>3, <2>1 DEF TB!WriteCtrlb, TB!Instruction
  <2>4. QED  BY <2>2, <2>3, TcbRescheduleIsSound
<1>4. QED  BY <1>2, <1>3 DEF TcbInv

\* The new TOP is written to a counter that runs.
LEMMA NewTopIsSound ==
    ASSUME TB!WellFormed, NEW q \in TcbTypes, q.run, q.enable, q.mode \in {"int", "timeout"},
           ~q.wo, q.gauge = TB!Never, q.shown = TB!Never
    PROVE  TcbSound(TB!NewTop(q))
<1>1. PICK n \in TB!Word : n = TB!Current(q)
  BY CurrentIsTyped
<1>2. PICK top \in TB!Word : top = TB!Ccmp(q)
  BY CcmpIsTyped
<1>3. PICK d \in Divs : d = q.clk
  BY DEF TcbTypes
<1>4. d \in Nat \ {0} /\ TB!Max \in Nat /\ Lateness \in Nat /\ -Lateness > TB!Never
      /\ TB!Never \in Int
  BY TcbConstants
<1>5. n \in Nat /\ n <= TB!Max /\ top \in Nat
  BY <1>4 DEF TB!Word
<1>6. PICK k \in Nat \ {0} : k = IF n <= top THEN top + 1 - n ELSE TB!Max + 1 - n + top + 1
  <2>1. CASE n <= top
    <3>1. top + 1 - n \in Nat \ {0}
      BY <1>5, <2>1
    <3>2. QED  BY <2>1, <3>1
  <2>2. CASE ~(n <= top)
    <3>1. TB!Max + 1 - n + top + 1 \in Nat \ {0}
      BY <1>4, <1>5
    <3>2. QED  BY <2>2, <3>1
  <2>3. QED  BY <2>1, <2>2
<1>7. PICK D \in Nat \ {0} : D = k * d
  BY <1>4
<1>8. PICK t : t = [q EXCEPT !.div = d, !.top = top]
  OBVIOUS
<1>9. PICK s : s = TB!SetRunning(t, TRUE, n)
  OBVIOUS
<1>10. PICK u : u = [s EXCEPT !.due = D]
  OBVIOUS
<1>11. t \in TcbTypes /\ t.clk = d /\ t.div = d /\ t.top = top
  BY <1>3, <1>8 DEF TcbTypes
<1>12. u = TB!NewTop(q)
  <2>1. s.div = d
    BY <1>9, <1>11 DEF TB!SetRunning, TcbTypes
  <2>2. [q EXCEPT !.div = q.clk, !.top = TB!Ccmp(q)] = t
    BY <1>2, <1>3, <1>8
  <2>3. TB!NewTop(q) = [s EXCEPT !.due = (IF n <= top THEN top + 1 - n
                                          ELSE TB!Max + 1 - n + top + 1) * s.div]
    BY <1>1, <1>2, <1>9, <2>2 DEF TB!NewTop
  <2>4. QED  BY <1>6, <1>7, <1>10, <2>1, <2>3
<1>13. /\ u \in TcbTypes /\ u.run = TRUE /\ u.count = n /\ u.since = 0 /\ u.due = D
       /\ u.div = d /\ u.top = top
  <2>1. PICK v \in Int : v = D
    OBVIOUS
  <2>2. u = [t EXCEPT !.run = TRUE, !.count = n, !.reg = n, !.since = 0, !.due = v]
    BY <1>9, <1>10, <2>1 DEF TB!SetRunning
  <2>3. u \in TcbTypes
    BY <1>11, <2>2 DEF TcbTypes
  <2>4. /\ u.run = TRUE /\ u.count = n /\ u.since = 0 /\ u.due = v
        /\ u.div = t.div /\ u.top = t.top
    BY <1>11, <2>2 DEF TcbTypes
  <2>5. QED  BY <1>11, <2>1, <2>3, <2>4
<1>14. /\ u.enable = q.enable /\ u.mode = q.mode /\ u.lo = q.lo /\ u.hi = q.hi /\ u.wo = q.wo
       /\ u.gauge = q.gauge /\ u.shown = q.shown
  BY <1>8, <1>9, <1>10 DEF TcbTypes, TB!SetRunning
<1>15. TB!Ccmp(u) = top /\ WidthIsShown(u)
  BY <1>2, <1>14 DEF TB!Ccmp, WidthIsShown
<1>16. TcbArmed(u)
  BY <1>4, <1>13, <1>14 DEF TcbArmed
<1>17. WrapIsTimed(u) /\ GaugeIsSince(u) /\ OutputIsTimed(u)
  BY <1>14 DEF WrapIsTimed, GaugeIsSince, OutputIsTimed, TB!Capturing
<1>18. TopIsTimed(u)
  <2>1. u.count * u.div + u.since = n * d
    BY <1>4, <1>5, <1>13
  <2>2. CASE n <= top
    <3>1. (top + 1 - n) * d = (top + 1) * d - n * d
      BY <1>4, <1>5
    <3>2. D = (top + 1) * d - n * d
      BY <1>6, <1>7, <2>2, <3>1
    <3>3. QED  BY <1>13, <1>15, <2>1, <3>2 DEF TopIsTimed
  <2>3. CASE n > top
    <3>1. (TB!Max + 1 - n + top + 1) * d = (TB!Max + 1 + top + 1) * d - n * d
      <4>1. \A a, b \in Int : (a - b) * d = a * d - b * d
        BY <1>4
      <4>2. TB!Max + 1 - n + top + 1 = (TB!Max + 1 + top + 1) - n
            /\ TB!Max + 1 + top + 1 \in Int /\ n \in Int
        BY <1>4, <1>5
      <4>3. QED  BY <4>1, <4>2
    <3>2. k = TB!Max + 1 - n + top + 1
      BY <1>5, <1>6, <2>3
    <3>3. D = (TB!Max + 1 + top + 1) * d - n * d
      BY <1>7, <3>1, <3>2
    <3>4. QED  BY <1>13, <1>15, <2>1, <2>3, <3>3 DEF TopIsTimed
  <2>4. QED  BY <1>5, <2>2, <2>3
<1>19. QED  BY <1>12, <1>13, <1>15, <1>16, <1>17, <1>18 DEF TcbSound

LEMMA TcbCcmpKeeps ==
    ASSUME TB!WellFormed, TcbInv, NEW lo \in TB!Byte, NEW hi \in TB!Byte, TB!WriteCcmp(lo, hi)
    PROVE  TcbInv'
<1>1. /\ tcb \in TcbTypes /\ TcbArmed(tcb) /\ WrapIsTimed(tcb) /\ TopIsTimed(tcb)
         /\ GaugeIsSince(tcb)
      /\ OutputIsTimed(tcb) /\ tcb.shown = TB!Never
  BY DEF TcbInv, TcbSound, TB!WriteCcmp, TB!Instruction
<1>2. PICK q : q = [tcb EXCEPT !.lo = lo, !.hi = hi]
  OBVIOUS
<1>3. /\ q \in TcbTypes /\ q.lo = lo /\ q.hi = hi
      /\ \A f \in {"enable", "mode", "out", "run", "div", "top", "since", "count", "wo", "due",
                   "gauge", "shown", "stale", "armed", "stage", "reg"} : q[f] = tcb[f]
  BY <1>1, <1>2 DEF TcbTypes
<1>4. /\ q.enable = tcb.enable /\ q.mode = tcb.mode /\ q.run = tcb.run /\ q.wo = tcb.wo
      /\ q.gauge = tcb.gauge /\ q.shown = TB!Never
  BY <1>1, <1>3
<1>5. CASE q.run /\ q.mode = "pwm8"
  <2>1. tcb' = TB!EmitWo(TB!Timed(TB!SetRunning(q, TRUE, TB!Current(q))))
    BY <1>2, <1>5 DEF TB!WriteCcmp
  <2>2. PICK n \in TB!Word : n = TB!Current(q)
    BY <1>3, CurrentIsTyped
  <2>3. PICK s \in TcbTypes :
            /\ s = TB!Timed(TB!SetRunning(q, TRUE, n)) /\ s.run /\ s.count = n /\ s.since = 0
            /\ s.due = TB!Delta(s) /\ SameSetting(s, q)
    BY <1>3, StartedIs
  <2>4. PICK u \in TcbTypes :
            /\ u = TB!EmitWo(s) /\ u.wo = TB!WoLevel(s) /\ SameCount(u, s)
            /\ u.due = s.due /\ u.gauge = s.gauge /\ u.shown = s.shown /\ u.stale = s.stale
    BY EmitIsTyped
  <2>5. u.due = TB!Delta(u) /\ u.wo = TB!WoLevel(u)
    BY <2>3, <2>4, CountStays
  <2>6. tcb.enable /\ tcb.gauge = TB!Never
    BY <1>1, <1>4, <1>5 DEF TcbArmed, GaugeIsSince, TB!Capturing
  <2>7. /\ u.run /\ u.enable /\ u.mode = "pwm8" /\ u.since = 0
        /\ u.gauge = TB!Never /\ u.shown = TB!Never
    BY <1>4, <1>5, <2>3, <2>4, <2>6 DEF SameCount, SameSetting
  <2>8. WidthIsShown(u)
    BY <2>7 DEF WidthIsShown
  <2>9. TcbSound(u)
    BY <2>5, <2>7, <2>8, RunningIsSound
  <2>10. QED  BY <2>1, <2>2, <2>3, <2>4, <2>9 DEF TcbInv
<1>6. CASE q.run /\ q.mode \in {"int", "timeout"}
  <2>1. tcb' = TB!NewTop(q)
    BY <1>2, <1>6 DEF TB!WriteCcmp
  <2>2. q.enable /\ ~q.wo /\ q.gauge = TB!Never
    BY <1>1, <1>4, <1>6 DEF TcbArmed, OutputIsTimed, GaugeIsSince, TB!Capturing
  <2>3. TcbSound(TB!NewTop(q))
    BY <1>3, <1>4, <1>6, <2>2, NewTopIsSound
  <2>4. QED  BY <2>1, <2>3 DEF TcbInv
<1>7. CASE ~(q.run /\ q.mode \in {"int", "timeout", "pwm8"})
  <2>1. PICK x \in BOOLEAN : x = ((q.mode = "timeout") /\ (lo # tcb.lo \/ hi # tcb.hi
               \/ tcb.stale))
    <3>1. tcb.stale \in BOOLEAN
      BY <1>1 DEF TcbTypes
    <3>2. QED  BY <3>1, Zenon
  <2>2. PICK u : u = [q EXCEPT !.stale = x]
    OBVIOUS
  <2>3. tcb' = u
    <3>1. q.stale = tcb.stale
      BY <1>3
    <3>2. tcb' = [q EXCEPT !.stale = (q.mode = "timeout") /\ (lo # tcb.lo \/ hi # tcb.hi
            \/ q.stale)]
      BY <1>2, <1>7 DEF TB!WriteCcmp
    <3>3. QED  BY <2>1, <2>2, <3>1, <3>2
  <2>4. u \in TcbTypes /\ u.stale = x /\ u.lo = lo /\ u.hi = hi
    BY <1>3, <2>2 DEF TcbTypes
  <2>5. /\ u.enable = tcb.enable /\ u.mode = tcb.mode /\ u.run = tcb.run /\ u.div = tcb.div
        /\ u.top = tcb.top /\ u.since = tcb.since /\ u.count = tcb.count /\ u.wo = tcb.wo
        /\ u.due = tcb.due /\ u.gauge = tcb.gauge /\ u.shown = TB!Never
    <3>1. \A f \in {"enable", "mode", "run", "div", "top", "since", "count", "wo", "due",
                    "gauge", "shown"} : u[f] = q[f]
      BY <1>3, <2>2 DEF TcbTypes
    <3>2. QED  BY <1>1, <1>3, <3>1
  <2>6. WidthIsShown(u)
    BY <2>5 DEF WidthIsShown
  <2>7. CASE tcb.mode \in TB!Capturing
    <3>1. TcbArmed(u) /\ WrapIsTimed(u) /\ GaugeIsSince(u)
      BY <1>1, <2>5 DEF TcbArmed, WrapIsTimed, GaugeIsSince
    <3>2. TopIsTimed(u)
      BY <2>5, <2>7 DEF TopIsTimed, TB!Capturing
    <3>3. OutputIsTimed(u)
      BY <1>1, <2>5, <2>7 DEF OutputIsTimed, TB!Capturing
    <3>4. QED  BY <2>3, <2>4, <2>6, <3>1, <3>2, <3>3 DEF TcbInv, TcbSound
  <2>8. CASE tcb.mode \notin TB!Capturing
    <3>1. tcb.mode \in {"int", "timeout", "pwm8"}
      BY <1>1, <2>8 DEF TcbTypes, TB!Modes
    <3>2. ~tcb.run /\ tcb.due = TB!Never /\ tcb.gauge = TB!Never
      BY <1>1, <1>4, <1>7, <2>8, <3>1 DEF TcbArmed, GaugeIsSince
    <3>3. ~tcb.wo /\ ~(tcb.mode = "pwm8" /\ tcb.enable)
      BY <1>1, <3>2 DEF OutputIsTimed
    <3>4. ASSUME u.mode = "timeout", ~u.stale
          PROVE  u.top = TB!Ccmp(u)
      <4>1. lo = tcb.lo /\ hi = tcb.hi /\ ~tcb.stale /\ tcb.mode = "timeout"
        BY <1>4, <2>1, <2>4, <2>5, <3>4
      <4>2. tcb.top = TB!Ccmp(tcb)
        BY <1>1, <4>1 DEF TopIsTimed
      <4>3. TB!Ccmp(u) = TB!Ccmp(tcb)
        BY <2>4, <4>1 DEF TB!Ccmp
      <4>4. QED  BY <2>5, <4>2, <4>3
    <3>5. TcbSound(u)
      BY <2>4, <2>5, <2>6, <3>2, <3>3, <3>4, StandingIsSound
    <3>6. QED  BY <2>3, <3>5 DEF TcbInv
  <2>9. QED  BY <2>7, <2>8
<1>8. QED  BY <1>5, <1>6, <1>7

LEMMA TcbReadsKeep ==
    ASSUME TB!WellFormed, TcbInv,
           TB!ReadCnt \/ TB!ClearFlags \/ (\E captei \in BOOLEAN : TB!WriteEvctrl(captei))
                      \/ (\E n \in TB!Word : TB!WriteCnt(n))
    PROVE  TcbInv'
<1>1. tcb \in TcbTypes /\ TcbSound(tcb) /\ WidthIsShown(tcb)
  BY SoundFacts DEF TcbInv
<1>2. ASSUME NEW u \in TcbTypes, tcb' = u, u.shown \in {tcb.shown, TB!Never}, u.lo = tcb.lo,
             u.hi = tcb.hi,
             \A f \in {"enable", "mode", "out", "run", "div", "top", "since", "count", "wo",
                       "due", "gauge", "stale"} : u[f] = tcb[f]
      PROVE  TcbInv'
  <2>1. WidthIsShown(u)
    BY <1>1, <1>2 DEF WidthIsShown, TB!Ccmp
  <2>2. TcbSound(u)
    BY <1>1, <1>2, <2>1, UntouchedIsSound
  <2>3. QED  BY <1>2, <2>2 DEF TcbInv
<1>3. CASE TB!ReadCnt
  <2>1. PICK n \in TB!Word : n = TB!Current(tcb)
    BY <1>1, CurrentIsTyped
  <2>2. PICK u : u = [tcb EXCEPT !.reg = n]
    OBVIOUS
  <2>3. tcb' = u
    BY <1>3, <2>1, <2>2 DEF TB!ReadCnt
  <2>4. /\ u \in TcbTypes /\ u.shown = tcb.shown /\ u.lo = tcb.lo /\ u.hi = tcb.hi
        /\ \A f \in {"enable", "mode", "out", "run", "div", "top", "since", "count", "wo",
                     "due", "gauge", "stale"} : u[f] = tcb[f]
    BY <1>1, <2>2 DEF TcbTypes
  <2>5. QED  BY <1>2, <2>3, <2>4
<1>4. CASE TB!ClearFlags
  <2>1. PICK F \in SUBSET {"CAPT", "OVF"}, v \in Int : F = {} /\ v = TB!Never
    BY TcbConstants
  <2>2. PICK u : u = [tcb EXCEPT !.flags = F, !.shown = v]
    OBVIOUS
  <2>3. tcb' = u
    BY <1>4, <2>1, <2>2 DEF TB!ClearFlags
  <2>4. /\ u \in TcbTypes /\ u.shown = v /\ u.lo = tcb.lo /\ u.hi = tcb.hi
        /\ \A f \in {"enable", "mode", "out", "run", "div", "top", "since", "count", "wo",
                     "due", "gauge", "stale"} : u[f] = tcb[f]
    BY <1>1, <2>2 DEF TcbTypes
  <2>5. QED  BY <1>2, <2>1, <2>3, <2>4
<1>5. ASSUME NEW captei \in BOOLEAN, TB!WriteEvctrl(captei)
      PROVE  TcbInv'
  <2>1. PICK u : u = [tcb EXCEPT !.captei = captei]
    OBVIOUS
  <2>2. tcb' = u
    BY <1>5, <2>1 DEF TB!WriteEvctrl
  <2>3. /\ u \in TcbTypes /\ u.shown = tcb.shown /\ u.lo = tcb.lo /\ u.hi = tcb.hi
        /\ \A f \in {"enable", "mode", "out", "run", "div", "top", "since", "count", "wo",
                     "due", "gauge", "stale"} : u[f] = tcb[f]
    BY <1>1, <2>1 DEF TcbTypes
  <2>4. QED  BY <1>2, <2>2, <2>3
<1>6. ASSUME NEW n \in TB!Word, TB!WriteCnt(n)
      PROVE  TcbInv'
  <2>1. PICK u : u = [tcb EXCEPT !.reg = n]
    OBVIOUS
  <2>2. tcb' = u
    BY <1>6, <2>1 DEF TB!WriteCnt
  <2>3. /\ u \in TcbTypes /\ u.shown = tcb.shown /\ u.lo = tcb.lo /\ u.hi = tcb.hi
        /\ \A f \in {"enable", "mode", "out", "run", "div", "top", "since", "count", "wo",
                     "due", "gauge", "stale"} : u[f] = tcb[f]
    BY <1>1, <2>1 DEF TcbTypes
  <2>4. QED  BY <1>2, <2>2, <2>3
<1>7. QED  BY <1>3, <1>4, <1>5, <1>6

LEMMA StillIsSound ==
    ASSUME TB!WellFormed
    PROVE  TcbSound(TB!Off)
<1>1. PICK o : o = TB!Off
  OBVIOUS
<1>2. PICK d \in Divs, b \in TB!Byte, w \in TB!Word, v \in Int :
          d = 1 /\ b = 0 /\ w = 0 /\ v = TB!Never
  BY TcbConstants
<1>3. o = [enable |-> FALSE, mode |-> "int", out |-> FALSE, captei |-> FALSE, clk |-> d,
           lo |-> b, hi |-> b, reg |-> w, run |-> FALSE, div |-> d, top |-> w,
           since |-> 0, count |-> w, armed |-> FALSE, stage |-> 0, level |-> FALSE,
           wo |-> FALSE, flags |-> {}, due |-> v, gauge |-> v, shown |-> v, stale |-> FALSE]
  BY <1>1, <1>2 DEF TB!Off
<1>4. /\ o \in TcbTypes /\ ~o.run /\ o.due = TB!Never /\ o.gauge = TB!Never /\ ~o.wo
      /\ o.mode = "int" /\ o.shown = TB!Never
  BY <1>2, <1>3 DEF TcbTypes, TB!Modes
<1>5. WidthIsShown(o)
  BY <1>4 DEF WidthIsShown
<1>6. TcbSound(o)
  BY <1>4, <1>5, StandingIsSound
<1>7. QED  BY <1>1, <1>6


-----------------------------------------------------------------------------
(* Time *)

\* The timer is armed again, from the cycle it was due.
LEMMA AgainIs ==
    ASSUME TB!WellFormed, NEW t \in TcbTypes, t.run, t.mode # "timeout",
           NEW e \in Int, -Lateness <= e, e <= 0
    PROVE  \E u \in TcbTypes :
              /\ u = [t EXCEPT !.due = TB!Delta(t) + e] /\ u.due = TB!Delta(t) + e
              /\ SameCount(u, t) /\ SameSetting(u, t) /\ TB!Delta(u) = TB!Delta(t)
              /\ u.wo = t.wo /\ TB!WoLevel(u) = TB!WoLevel(t)
              /\ -Lateness <= u.due /\ u.due <= TB!Delta(u)
<1>1. PICK D \in Int : D = TB!Delta(t) /\ D >= 1
  BY DeltaIsTyped
<1>2. Lateness \in Nat
  BY TcbConstants
<1>3. PICK v \in Int : v = D + e /\ -Lateness <= v /\ v <= D
  BY <1>1, <1>2
<1>4. PICK u : u = [t EXCEPT !.due = v]
  OBVIOUS
<1>5. u \in TcbTypes /\ u.due = v /\ SameCount(u, t) /\ SameSetting(u, t)
  BY <1>4 DEF TcbTypes, SameCount, SameSetting
<1>6. TB!Delta(u) = TB!Delta(t) /\ TB!WoLevel(u) = TB!WoLevel(t)
  BY <1>5, CountStays
<1>7. u.wo = t.wo
  BY <1>5 DEF SameSetting
<1>8. QED  BY <1>1, <1>3, <1>4, <1>5, <1>6, <1>7

LEMMA IntervalTickIsSound ==
    ASSUME TB!WellFormed, NEW t \in TcbTypes, t.mode = "int", t.run, t.enable, ~t.wo,
           t.gauge = TB!Never, WidthIsShown(t), NEW e \in Int, -Lateness <= e, e <= 0
    PROVE  TcbSound([t EXCEPT !.due = TB!Delta(t) + e])
<1>1. PICK u \in TcbTypes :
          /\ u = [t EXCEPT !.due = TB!Delta(t) + e] /\ SameCount(u, t) /\ SameSetting(u, t)
          /\ -Lateness <= u.due
  BY AgainIs
<1>2. /\ u.run /\ u.enable /\ u.mode = "int" /\ ~u.wo /\ u.gauge = TB!Never
      /\ u.shown = t.shown /\ u.lo = t.lo /\ u.hi = t.hi
  BY <1>1 DEF SameCount, SameSetting
<1>3. WidthIsShown(u)
  BY <1>2 DEF WidthIsShown, TB!Ccmp
<1>4. QED  BY <1>1, <1>2, <1>3, IntervalIsSound

LEMMA CapturingTickIsSound ==
    ASSUME TB!WellFormed, NEW t \in TcbTypes, t.mode \in TB!Capturing, t.run, t.enable, ~t.wo,
           t.count = 0, t.since = 0, WidthIsShown(t), NEW e \in Int, -Lateness <= e, e <= 0,
           t.gauge = TB!Never \/ (t.gauge = 0 /\ e = 0)
    PROVE  TcbSound([t EXCEPT !.due = TB!Delta(t) + e])
<1>1. t.mode # "timeout" /\ t.mode # "pwm8"
  BY DEF TB!Capturing
<1>2. PICK u \in TcbTypes :
          /\ u = [t EXCEPT !.due = TB!Delta(t) + e] /\ u.due = TB!Delta(t) + e
          /\ SameCount(u, t) /\ SameSetting(u, t) /\ -Lateness <= u.due
  BY <1>1, AgainIs
<1>3. /\ u.run /\ u.enable /\ u.mode = t.mode /\ ~u.wo /\ u.count = 0 /\ u.since = 0
      /\ u.div = t.div /\ u.gauge = t.gauge /\ u.shown = t.shown /\ u.lo = t.lo /\ u.hi = t.hi
  BY <1>2 DEF SameCount, SameSetting
<1>4. WidthIsShown(u)
  BY <1>3 DEF WidthIsShown, TB!Ccmp
<1>5. /\ t.div \in Nat \ {0} /\ TB!Max \in Nat /\ Lateness \in Nat
  BY TcbFields, TcbConstants
<1>6. TB!Delta(t) = (TB!Max + 1) * t.div
  <2>1. TB!Delta(t) = (TB!Max + 1 - t.count) * t.div
    BY <1>1, DeltaIs
  <2>2. TB!Max + 1 - 0 = TB!Max + 1
    BY <1>5
  <2>3. QED  BY <2>1, <2>2
<1>7. PICK P \in Nat \ {0} : P = (TB!Max + 1) * t.div
  BY <1>5
<1>8. u.count * u.div = 0
  BY <1>3, <1>5
<1>9. u.due = P + e
  BY <1>2, <1>6, <1>7
<1>10. (TB!Max + 1) * u.div - u.count * u.div - u.due \in 0 .. Lateness
  <2>1. P - 0 - (P + e) \in 0 .. Lateness
    BY <1>5
  <2>2. QED  BY <1>3, <1>7, <1>8, <1>9, <2>1
<1>11. u.gauge = TB!Never \/ (u.gauge = 0 /\ u.count = 0 /\ u.due = (TB!Max + 1) * u.div)
  BY <1>3, <1>7, <1>9
<1>12. QED  BY <1>2, <1>3, <1>4, <1>10, <1>11, CapturingIsSound

LEMMA PwmTickIsSound ==
    ASSUME TB!WellFormed, NEW s \in TcbTypes, s.mode = "pwm8", s.run, s.enable,
           s.gauge = TB!Never, WidthIsShown(s), NEW e \in Int, -Lateness <= e, e <= 0
    PROVE  TcbSound([TB!EmitWo(s) EXCEPT !.due = TB!Delta(TB!EmitWo(s)) + e])
<1>1. PICK t \in TcbTypes :
          /\ t = TB!EmitWo(s) /\ t.wo = TB!WoLevel(s) /\ SameCount(t, s)
          /\ t.gauge = s.gauge /\ t.shown = s.shown
  BY EmitIsTyped
<1>2. /\ t.mode = "pwm8" /\ t.run /\ t.enable /\ t.gauge = TB!Never /\ t.lo = s.lo /\ t.hi = s.hi
      /\ t.mode # "timeout"
  BY <1>1 DEF SameCount
<1>3. t.wo = TB!WoLevel(t)
  BY <1>1, CountStays
<1>4. PICK u \in TcbTypes :
          /\ u = [t EXCEPT !.due = TB!Delta(t) + e]
          /\ SameCount(u, t) /\ SameSetting(u, t)
          /\ u.wo = t.wo /\ TB!WoLevel(u) = TB!WoLevel(t)
          /\ -Lateness <= u.due /\ u.due <= TB!Delta(u)
  BY <1>2, AgainIs
<1>5. /\ u.mode = "pwm8" /\ u.enable /\ u.run /\ u.gauge = TB!Never /\ u.shown = s.shown
      /\ u.lo = s.lo /\ u.hi = s.hi
  BY <1>1, <1>2, <1>4 DEF SameSetting, SameCount
<1>6. WidthIsShown(u)
  BY <1>5 DEF WidthIsShown, TB!Ccmp
<1>7. u.wo = TB!WoLevel(u)
  BY <1>3, <1>4
<1>8. TcbSound(u)
  BY <1>4, <1>5, <1>6, <1>7, PwmIsSound
<1>9. QED  BY <1>1, <1>4, <1>8

LEMMA FlaggedIs ==
    ASSUME NEW t \in TcbTypes, NEW f \in {"CAPT", "OVF"}
    PROVE  \E u \in TcbTypes : u = TB!Flagged(t, f) /\ SameCount(u, t) /\ SameSetting(u, t)
<1>1. PICK F \in SUBSET {"CAPT", "OVF"} : F = t.flags \cup {f}
  BY DEF TcbTypes
<1>2. PICK u : u = TB!Flagged(t, f)
  OBVIOUS
<1>3. u = [t EXCEPT !.flags = F]
  BY <1>1, <1>2 DEF TB!Flagged, TcbTypes
<1>4. u \in TcbTypes /\ SameCount(u, t) /\ SameSetting(u, t)
  BY <1>3 DEF TcbTypes, SameCount, SameSetting
<1>5. QED  BY <1>2, <1>4

LEMMA TcbTickKeeps ==
    ASSUME TB!WellFormed, TcbInv, TB!Tick
    PROVE  TcbInv'
<1>1. /\ tcb \in TcbTypes /\ TcbArmed(tcb) /\ TopIsTimed(tcb) /\ GaugeIsSince(tcb)
         /\ WidthIsShown(tcb)
      /\ OutputIsTimed(tcb) /\ tcb.due # TB!Never /\ tcb.due <= 0
  BY DEF TcbInv, TcbSound, TB!Tick, TB!Due
<1>2. tcb.run /\ tcb.enable /\ -Lateness <= tcb.due /\ tcb.due \in Int
  BY <1>1, TcbFields DEF TcbArmed
<1>3. PICK zero \in TcbTypes :
          /\ zero = TB!SetRunning(tcb, TRUE, 0) /\ zero.run = TRUE /\ zero.count = 0
          /\ zero.since = 0 /\ SameSetting(zero, tcb)
  <2>1. TRUE \in BOOLEAN /\ 0 \in TB!Word
    BY TcbConstants
  <2>2. QED  BY <1>1, <2>1, SetIs
<1>4. /\ zero.enable /\ zero.mode = tcb.mode /\ zero.lo = tcb.lo /\ zero.hi = tcb.hi
         /\ zero.wo = tcb.wo
      /\ zero.gauge = tcb.gauge /\ zero.shown = tcb.shown
  BY <1>2, <1>3 DEF SameSetting
<1>5. CASE tcb.mode = "int"
  <2>1. PICK top \in TB!Word, d \in Divs : top = TB!Ccmp(tcb) /\ d = tcb.clk
    BY <1>1, CcmpIsTyped DEF TcbTypes
  <2>2. PICK z : z = [zero EXCEPT !.top = top, !.div = d]
    OBVIOUS
  <2>3. /\ z \in TcbTypes /\ z.run = zero.run /\ z.enable = zero.enable /\ z.mode = zero.mode
        /\ z.lo = zero.lo /\ z.hi = zero.hi /\ z.wo = zero.wo /\ z.gauge = zero.gauge
        /\ z.shown = zero.shown
    BY <2>2 DEF TcbTypes
  <2>4. PICK t \in TcbTypes : t = TB!Flagged(z, "CAPT") /\ SameCount(t, z) /\ SameSetting(t, z)
    BY <2>3, FlaggedIs
  <2>5. ~tcb.wo /\ tcb.gauge = TB!Never
    BY <1>1, <1>5 DEF OutputIsTimed, GaugeIsSince, TB!Capturing
  <2>6. /\ t.mode = "int" /\ t.run /\ t.enable /\ ~t.wo /\ t.gauge = TB!Never
        /\ t.lo = tcb.lo /\ t.hi = tcb.hi /\ t.shown = tcb.shown
    BY <1>3, <1>4, <1>5, <2>3, <2>4, <2>5 DEF SameCount, SameSetting
  <2>7. WidthIsShown(t)
    BY <1>1, <2>6 DEF WidthIsShown, TB!Ccmp
  <2>8. TcbSound([t EXCEPT !.due = TB!Delta(t) + tcb.due])
    BY <1>1, <1>2, <2>6, <2>7, IntervalTickIsSound
  <2>9. tcb' = [t EXCEPT !.due = TB!Delta(t) + tcb.due]
    BY <1>3, <1>5, <2>1, <2>2, <2>4 DEF TB!Tick, TB!Capturing
  <2>10. QED  BY <2>8, <2>9 DEF TcbInv
<1>6. CASE tcb.mode = "timeout"
  <2>1. PICK top \in TB!Word : top = tcb.top
    BY <1>1 DEF TcbTypes
  <2>2. PICK s \in TcbTypes :
            /\ s = TB!SetRunning(tcb, FALSE, top) /\ s.run = FALSE /\ SameSetting(s, tcb)
    <3>1. FALSE \in BOOLEAN
      OBVIOUS
    <3>2. QED  BY <1>1, <3>1, SetIs
  <2>3. PICK v \in Int : v = TB!Never
    BY TcbConstants
  <2>4. PICK z : z = [s EXCEPT !.due = v]
    OBVIOUS
  <2>5. z \in TcbTypes /\ z.due = v /\ z.run = s.run /\ SameSetting(z, s)
    BY <2>4 DEF TcbTypes, SameSetting
  <2>6. PICK u \in TcbTypes : u = TB!Flagged(z, "CAPT") /\ SameCount(u, z) /\ SameSetting(u, z)
                              /\ u.due = z.due
    <3>1. PICK u \in TcbTypes : u = TB!Flagged(z, "CAPT") /\ SameCount(u, z) /\ SameSetting(u, z)
      BY <2>5, FlaggedIs
    <3>2. u.due = z.due
      BY <2>5, <3>1 DEF TB!Flagged, TcbTypes
    <3>3. QED  BY <3>1, <3>2
  <2>7. ~tcb.wo /\ tcb.gauge = TB!Never
    BY <1>1, <1>6 DEF OutputIsTimed, GaugeIsSince, TB!Capturing
  <2>8. /\ ~u.run /\ u.due = TB!Never /\ u.gauge = TB!Never /\ ~u.wo /\ u.mode = "timeout"
        /\ u.top = tcb.top /\ u.lo = tcb.lo /\ u.hi = tcb.hi /\ u.shown = tcb.shown
           /\ u.stale = tcb.stale
    BY <1>6, <2>2, <2>3, <2>5, <2>6, <2>7 DEF SameCount, SameSetting
  <2>9. TB!Ccmp(u) = TB!Ccmp(tcb)
    BY <2>8 DEF TB!Ccmp
  <2>10. WidthIsShown(u)
    BY <1>1, <2>8, <2>9 DEF WidthIsShown
  <2>11. u.mode = "timeout" /\ ~u.stale => u.top = TB!Ccmp(u)
    BY <1>1, <1>6, <2>8, <2>9 DEF TopIsTimed
  <2>12. TcbSound(u)
    BY <2>8, <2>10, <2>11, StandingIsSound
  <2>13. tcb' = u
    BY <1>6, <2>1, <2>2, <2>3, <2>4, <2>6 DEF TB!Tick, TB!Capturing
  <2>14. QED  BY <2>12, <2>13 DEF TcbInv
<1>7. CASE tcb.mode \in TB!Capturing
  <2>1. PICK z : z = IF tcb.due = 0 THEN zero ELSE TB!Ungauged(zero)
    OBVIOUS
  <2>2. /\ z \in TcbTypes /\ z.run = zero.run /\ z.enable = zero.enable /\ z.mode = zero.mode
        /\ z.count = zero.count /\ z.since = zero.since
        /\ z.lo = zero.lo /\ z.hi = zero.hi /\ z.wo = zero.wo /\ z.shown = zero.shown
        /\ z.gauge = IF tcb.due = 0 THEN zero.gauge ELSE TB!Never
    <3>1. CASE tcb.due = 0
      BY <2>1, <3>1
    <3>2. CASE tcb.due # 0
      <4>1. PICK v \in Int : v = TB!Never
        BY TcbConstants
      <4>2. z = [zero EXCEPT !.gauge = v]
        BY <2>1, <3>2, <4>1 DEF TB!Ungauged
      <4>3. /\ z \in TcbTypes /\ z.run = zero.run /\ z.enable = zero.enable
            /\ z.mode = zero.mode /\ z.count = zero.count /\ z.since = zero.since
            /\ z.lo = zero.lo /\ z.hi = zero.hi /\ z.wo = zero.wo /\ z.shown = zero.shown
            /\ z.gauge = v
        BY <4>2 DEF TcbTypes
      <4>4. QED  BY <3>2, <4>1, <4>3
    <3>3. QED  BY <3>1, <3>2
  <2>3. PICK t \in TcbTypes : t = TB!Flagged(z, "OVF") /\ SameCount(t, z) /\ SameSetting(t, z)
    BY <2>2, FlaggedIs
  <2>4. ~tcb.wo
    BY <1>1, <1>7 DEF OutputIsTimed, TB!Capturing
  <2>5. /\ t.mode = tcb.mode /\ t.run /\ t.enable /\ ~t.wo /\ t.count = 0 /\ t.since = 0
        /\ t.lo = tcb.lo /\ t.hi = tcb.hi /\ t.shown = tcb.shown
        /\ t.gauge = IF tcb.due = 0 THEN tcb.gauge ELSE TB!Never
    BY <1>3, <1>4, <2>2, <2>3, <2>4 DEF SameCount, SameSetting
  <2>6. WidthIsShown(t)
    BY <1>1, <2>5 DEF WidthIsShown, TB!Ccmp
  <2>7. t.gauge = TB!Never \/ (t.gauge = 0 /\ tcb.due = 0)
    <3>1. SUFFICES ASSUME t.gauge # TB!Never
                   PROVE  t.gauge = 0 /\ tcb.due = 0
      OBVIOUS
    <3>2. tcb.due = 0 /\ t.gauge = tcb.gauge /\ tcb.gauge # TB!Never
      BY <2>5, <3>1
    <3>3. tcb.since + tcb.due = (TB!Max + 1) * tcb.div
          /\ tcb.gauge = tcb.since % ((TB!Max + 1) * tcb.div)
      BY <1>1, <3>2 DEF GaugeIsSince
    <3>4. PICK P \in Nat \ {0} : P = (TB!Max + 1) * tcb.div
      <4>1. tcb.div \in Nat \ {0} /\ TB!Max \in Nat
        BY <1>1, TcbFields, TcbConstants
      <4>2. QED  BY <4>1
    <3>5. tcb.since = P
      <4>1. tcb.since \in Nat
        BY <1>1, TcbFields
      <4>2. QED  BY <3>2, <3>3, <3>4, <4>1
    <3>6. P % P = 0
      OBVIOUS
    <3>7. QED  BY <3>2, <3>3, <3>4, <3>5, <3>6
  <2>8. TcbSound([t EXCEPT !.due = TB!Delta(t) + tcb.due])
    BY <1>1, <1>2, <1>7, <2>5, <2>6, <2>7, CapturingTickIsSound
  <2>9. tcb' = [t EXCEPT !.due = TB!Delta(t) + tcb.due]
    BY <1>3, <1>7, <2>1, <2>3 DEF TB!Tick, TB!Capturing
  <2>10. QED  BY <2>8, <2>9 DEF TcbInv
<1>8. CASE tcb.mode = "pwm8"
  <2>1. PICK s : s = IF TB!Current(tcb) = 0 THEN TB!Flagged(zero, "CAPT") ELSE tcb
    OBVIOUS
  <2>2. tcb.gauge = TB!Never
    BY <1>1, <1>8 DEF GaugeIsSince, TB!Capturing
  <2>3. /\ s \in TcbTypes /\ s.mode = "pwm8" /\ s.run /\ s.enable /\ s.gauge = TB!Never
        /\ s.lo = tcb.lo /\ s.hi = tcb.hi /\ s.shown = tcb.shown
    <3>1. CASE TB!Current(tcb) = 0
      <4>1. PICK f \in TcbTypes :
                f = TB!Flagged(zero, "CAPT") /\ SameCount(f, zero) /\ SameSetting(f, zero)
        BY FlaggedIs
      <4>2. s = f
        BY <2>1, <3>1, <4>1
      <4>3. QED  BY <1>3, <1>4, <1>8, <2>2, <4>1, <4>2 DEF SameCount, SameSetting
    <3>2. CASE TB!Current(tcb) # 0
      BY <1>1, <1>2, <1>8, <2>1, <2>2, <3>2
    <3>3. QED  BY <3>1, <3>2
  <2>4. WidthIsShown(s)
    BY <1>1, <2>3 DEF WidthIsShown, TB!Ccmp
  <2>5. TcbSound([TB!EmitWo(s) EXCEPT !.due = TB!Delta(TB!EmitWo(s)) + tcb.due])
    BY <1>1, <1>2, <2>3, <2>4, PwmTickIsSound
  <2>6. tcb' = [TB!EmitWo(s) EXCEPT !.due = TB!Delta(TB!EmitWo(s)) + tcb.due]
    BY <1>3, <1>8, <2>1 DEF TB!Tick, TB!Capturing
  <2>7. QED  BY <2>5, <2>6 DEF TcbInv
<1>9. tcb.mode \in {"int", "timeout", "pwm8"} \cup TB!Capturing
  BY <1>1 DEF TcbTypes, TB!Modes
<1>10. QED  BY <1>5, <1>6, <1>7, <1>8, <1>9


\* A number and its remainder, one later.
LEMMA NextRemainder ==
    ASSUME NEW s \in Nat, NEW P \in Nat \ {0}
    PROVE  ((s % P) + 1) % P = (s + 1) % P
<1>1. /\ s \div P \in Nat /\ s % P \in Nat /\ s % P < P /\ s = (s \div P) * P + (s % P)
  BY TcbDivided
<1>2. PICK j \in Nat, g \in Nat : j = s \div P /\ g = s % P /\ g < P /\ s = j * P + g
  BY <1>1
<1>3. j * P \in Nat /\ (j + 1) * P = j * P + P
  OBVIOUS
<1>4. CASE g + 1 < P
  <2>1. PICK h \in Nat, z \in Nat : h = g + 1 /\ z = s + 1
    OBVIOUS
  <2>2. z = j * P + h /\ h < P
    BY <1>2, <1>3, <1>4, <2>1
  <2>3. z % P = h
    BY <2>2, QuotientIs
  <2>4. h % P = h
    BY <2>2, Remainder
  <2>5. QED  BY <1>2, <2>1, <2>3, <2>4
<1>5. CASE g + 1 = P
  <2>1. s + 1 \in Nat /\ j + 1 \in Nat /\ s + 1 = (j + 1) * P + 0
    BY <1>2, <1>3, <1>5
  <2>2. (s + 1) % P = 0
    <3>1. 0 \in Nat /\ 0 < P
      OBVIOUS
    <3>2. QED  BY <2>1, <3>1, QuotientIs
  <2>3. P % P = 0
    OBVIOUS
  <2>4. QED  BY <1>2, <1>5, <2>2, <2>3
<1>6. QED  BY <1>2, <1>4, <1>5

LEMMA TcbPassKeeps ==
    ASSUME TB!WellFormed, TcbInv, TB!Pass
    PROVE  TcbInv'
<1>1. /\ tcb \in TcbTypes /\ TcbArmed(tcb) /\ WrapIsTimed(tcb) /\ TopIsTimed(tcb)
         /\ GaugeIsSince(tcb)
      /\ WidthIsShown(tcb) /\ OutputIsTimed(tcb)
  BY DEF TcbInv, TcbSound
<1>2. /\ tcb.div \in Nat \ {0} /\ tcb.lo \in Nat /\ tcb.count \in Nat /\ tcb.since \in Nat
      /\ tcb.due \in Int /\ TB!Max \in Nat /\ Lateness \in Nat /\ -Lateness > TB!Never
         /\ TB!Never \in Int
  BY <1>1, TcbFields, TcbConstants
<1>3. tcb.due > -Lateness /\ tcb.shown = TB!Never
  BY DEF TB!Pass
<1>4. tcb.due # TB!Never
  BY <1>2, <1>3
<1>5. tcb.run /\ tcb.enable
  BY <1>1, <1>4 DEF TcbArmed
<1>6. PICK P \in Nat \ {0} :
          /\ P = TB!Period(tcb)
          /\ P = (IF tcb.mode = "pwm8" THEN tcb.lo + 1 ELSE TB!Max + 1) * tcb.div
  <2>1. \A k \in Nat : (k + 1) * tcb.div \in Nat \ {0}
    BY <1>2
  <2>2. QED  BY <1>2, <2>1 DEF TB!Period
<1>7. PICK e \in Int : e = tcb.due - 1 /\ -Lateness <= e /\ e # TB!Never
  BY <1>2, <1>3
<1>8. PICK s \in Nat : s = IF tcb.mode = "pwm8" THEN (tcb.since + 1) % P ELSE tcb.since + 1
  <2>1. tcb.since + 1 \in Nat
    BY <1>2
  <2>2. (tcb.since + 1) % P \in Nat
    BY <2>1
  <2>3. QED  BY <2>1, <2>2
<1>9. PICK g \in Int : g = IF tcb.gauge = TB!Never THEN TB!Never ELSE (tcb.gauge + 1) % P
  <2>1. tcb.gauge \in Int
    BY <1>1 DEF TcbTypes
  <2>2. (tcb.gauge + 1) % P \in Int
    BY <2>1
  <2>3. QED  BY <1>2, <2>2
<1>10. PICK u : u = [tcb EXCEPT !.due = e, !.since = s, !.gauge = g]
  OBVIOUS
<1>11. tcb' = u
  BY <1>6, <1>7, <1>8, <1>9, <1>10 DEF TB!Pass
<1>12. /\ u \in TcbTypes /\ u.due = e /\ u.since = s /\ u.gauge = g
       /\ u.enable = tcb.enable /\ u.mode = tcb.mode /\ u.out = tcb.out /\ u.lo = tcb.lo
          /\ u.hi = tcb.hi
       /\ u.run = tcb.run /\ u.div = tcb.div /\ u.top = tcb.top /\ u.count = tcb.count
          /\ u.wo = tcb.wo
       /\ u.shown = tcb.shown /\ u.stale = tcb.stale
  BY <1>1, <1>10 DEF TcbTypes
<1>13. TB!Ccmp(u) = TB!Ccmp(tcb) /\ WidthIsShown(u)
  BY <1>3, <1>12 DEF TB!Ccmp, WidthIsShown
<1>14. TcbArmed(u)
  BY <1>5, <1>7, <1>12 DEF TcbArmed
<1>15. PICK K \in Nat : K = tcb.count * tcb.div /\ tcb.count * tcb.div + tcb.since = K + tcb.since
  BY <1>2
<1>16. WrapIsTimed(u)
  <2>1. SUFFICES ASSUME tcb.mode \in TB!Capturing
                 PROVE  P - (K + s) - e \in 0 .. Lateness
    BY <1>6, <1>12, <1>15 DEF WrapIsTimed, TB!Capturing
  <2>2. s = tcb.since + 1
    BY <1>8, <2>1 DEF TB!Capturing
  <2>3. P - (K + tcb.since) - tcb.due \in 0 .. Lateness
    BY <1>1, <1>5, <1>6, <1>15, <2>1 DEF WrapIsTimed, TB!Capturing
  <2>4. QED  BY <1>2, <1>7, <2>2, <2>3
<1>17. TopIsTimed(u)
  <2>1. SUFFICES ASSUME tcb.mode = "timeout", ~tcb.stale
                 PROVE  /\ tcb.top = TB!Ccmp(tcb)
                        /\ \/ e = (TB!Ccmp(tcb) + 1) * tcb.div - (K + s)
                           \/ /\ e = (TB!Max + 1 + TB!Ccmp(tcb) + 1) * tcb.div - (K + s)
                              /\ tcb.count > TB!Ccmp(tcb)
    BY <1>12, <1>13, <1>15 DEF TopIsTimed
  <2>2. s = tcb.since + 1
    BY <1>8, <2>1
  <2>3. TB!Ccmp(tcb) \in Int
    <3>1. TB!Ccmp(tcb) \in 0 .. TB!Max
      BY <1>1, CcmpIsTyped DEF TB!Word
    <3>2. QED  BY <1>2, <3>1
  <2>4. PICK a \in Int, b \in Int :
            a = (TB!Ccmp(tcb) + 1) * tcb.div /\ b = (TB!Max + 1 + TB!Ccmp(tcb) + 1) * tcb.div
    BY <1>2, <2>3
  <2>5. /\ tcb.top = TB!Ccmp(tcb)
        /\ \/ tcb.due = a - (K + tcb.since)
           \/ tcb.due = b - (K + tcb.since) /\ tcb.count > TB!Ccmp(tcb)
    BY <1>1, <1>5, <1>15, <2>1, <2>4 DEF TopIsTimed
  <2>6. e = tcb.due - 1 /\ tcb.due \in Int /\ tcb.since \in Nat
    BY <1>2, <1>7
  <2>7. \/ e = a - (K + s)
        \/ e = b - (K + s) /\ tcb.count > TB!Ccmp(tcb)
    BY <2>2, <2>5, <2>6
  <2>8. QED  BY <2>4, <2>5, <2>7
<1>18. GaugeIsSince(u)
  <2>1. SUFFICES ASSUME u.gauge # TB!Never
                 PROVE  /\ u.run /\ u.mode \in TB!Capturing /\ u.count = 0
                        /\ u.since + u.due = (TB!Max + 1) * u.div
                        /\ u.gauge = u.since % ((TB!Max + 1) * u.div)
    BY DEF GaugeIsSince
  <2>2. tcb.gauge # TB!Never /\ g = (tcb.gauge + 1) % P
    BY <1>9, <1>12, <2>1
  <2>3. tcb.mode \in TB!Capturing /\ tcb.count = 0
    BY <1>1, <2>2 DEF GaugeIsSince
  <2>4. P = (TB!Max + 1) * tcb.div /\ s = tcb.since + 1
    BY <1>6, <1>8, <2>3 DEF TB!Capturing
  <2>5. tcb.since + tcb.due = P /\ tcb.gauge = tcb.since % P
    BY <1>1, <2>2, <2>4 DEF GaugeIsSince
  <2>6. s + e = P
    BY <1>2, <1>7, <2>4, <2>5
  <2>7. g = s % P
    BY <1>2, <2>2, <2>4, <2>5, NextRemainder
  <2>8. QED  BY <1>5, <1>12, <2>3, <2>4, <2>6, <2>7
<1>19. OutputIsTimed(u)
  <2>1. CASE tcb.mode # "pwm8"
    BY <1>1, <1>12, <2>1 DEF OutputIsTimed
  <2>2. CASE tcb.mode = "pwm8"
    <3>1. P = (tcb.lo + 1) * tcb.div /\ s = (tcb.since + 1) % P
      BY <1>6, <1>8, <2>2
    <3>2. PICK n \in 0 .. tcb.lo, b \in Nat, i \in Int :
              /\ n * tcb.div + b = tcb.count * tcb.div + tcb.since + i * ((tcb.lo + 1) * tcb.div)
              /\ tcb.due + b <= (NextChange(tcb, n) - n) * tcb.div + tcb.div - 1
              /\ tcb.out => (tcb.wo <=> (tcb.hi > tcb.lo \/ n < tcb.hi))
      BY <1>1, <1>5, <2>2 DEF OutputIsTimed
    <3>3. PICK j \in Nat : tcb.since + 1 = j * P + s
      <4>1. tcb.since + 1 \in Nat
        BY <1>2
      <4>2. /\ (tcb.since + 1) \div P \in Nat
            /\ tcb.since + 1 = ((tcb.since + 1) \div P) * P + ((tcb.since + 1) % P)
        BY <4>1, TcbDivided
      <4>3. QED  BY <3>1, <4>2
    <3>4. n * tcb.div + (b + 1) = tcb.count * tcb.div + s + (i + j) * P
      <4>1. (i + j) * P = i * P + j * P /\ i * P \in Int /\ j * P \in Int /\ n * tcb.div \in Int
        BY <1>2
      <4>2. n * tcb.div + b = K + tcb.since + i * P
        BY <1>2, <1>15, <3>1, <3>2
      <4>3. PICK nd \in Int, iP \in Int, jP \in Int :
                nd = n * tcb.div /\ iP = i * P /\ jP = j * P
        BY <4>1
      <4>4. nd + (b + 1) = K + s + (iP + jP)
        <5>1. PICK S \in Nat : S = tcb.since
          BY <1>2
        <5>2. nd + b = K + S + iP /\ S + 1 = jP + s
          BY <3>3, <4>2, <4>3, <5>1
        <5>3. QED  BY <5>2
      <4>5. QED  BY <1>2, <1>15, <4>1, <4>3, <4>4
    <3>5. NextChange(u, n) = NextChange(tcb, n)
      BY <1>12 DEF NextChange
    <3>6. e + (b + 1) = tcb.due + b
      BY <1>2, <1>7
    <3>7. /\ n * u.div + (b + 1) = u.count * u.div + u.since + (i + j) * ((u.lo + 1) * u.div)
          /\ u.due + (b + 1) <= (NextChange(u, n) - n) * u.div + u.div - 1
          /\ u.out => (u.wo <=> (u.hi > u.lo \/ n < u.hi))
      BY <1>12, <3>1, <3>2, <3>4, <3>5, <3>6
    <3>8. n \in 0 .. u.lo /\ b + 1 \in Nat /\ i + j \in Int
      BY <1>12
    <3>9. \E m \in 0 .. u.lo, c \in Nat, k \in Int :
              /\ m * u.div + c = u.count * u.div + u.since + k * ((u.lo + 1) * u.div)
              /\ u.due + c <= (NextChange(u, m) - m) * u.div + u.div - 1
              /\ u.out => (u.wo <=> (u.hi > u.lo \/ m < u.hi))
      BY <3>7, <3>8, Zenon
    <3>10. u.wo => u.mode = "pwm8" /\ u.enable /\ u.out
      BY <1>1, <1>12 DEF OutputIsTimed
    <3>11. QED  BY <1>5, <1>12, <3>9, <3>10 DEF OutputIsTimed
  <2>3. QED  BY <2>1, <2>2
<1>20. QED
  BY <1>11, <1>12, <1>13, <1>14, <1>16, <1>17, <1>18, <1>19 DEF TcbInv, TcbSound

-----------------------------------------------------------------------------
(* The invariant *)

LEMMA TcbInitHolds ==
    ASSUME TB!WellFormed, TB!Init
    PROVE  TcbInv
BY StillIsSound DEF TB!Init, TcbInv

LEMMA TcbStands ==
    ASSUME TcbInv, UNCHANGED tcb
    PROVE  TcbInv'
BY DEF TcbInv

LEMMA TcbKeeps ==
    ASSUME TB!WellFormed, TcbInv, TB!Next
    PROVE  TcbInv'
<1>1. CASE \/ \E enable \in BOOLEAN, rate \in Divs : TB!WriteCtrla(enable, rate)
           \/ \E m \in TB!Modes, out \in BOOLEAN : TB!WriteCtrlb(m, out)
  BY <1>1, TcbWritesKeep
<1>2. CASE TB!ReadCnt \/ TB!ClearFlags \/ (\E captei \in BOOLEAN : TB!WriteEvctrl(captei))
                      \/ (\E n \in TB!Word : TB!WriteCnt(n))
  BY <1>2, TcbReadsKeep
<1>3. ASSUME NEW lo \in TB!Byte, NEW hi \in TB!Byte, TB!WriteCcmp(lo, hi)
      PROVE  TcbInv'
  BY <1>3, TcbCcmpKeeps
<1>4. CASE TB!Reset
  BY <1>4, StillIsSound DEF TB!Reset, TcbInv
<1>5. CASE TB!Event \/ TB!Pass \/ TB!Tick
  BY <1>5, TcbEventKeeps, TcbPassKeeps, TcbTickKeeps
<1>6. QED  BY <1>1, <1>2, <1>3, <1>4, <1>5, Zenon DEF TB!Next

\* A counter whose timer is not due is where its output says, or was when the
\* change that was last noticed was due.
LEMMA OutputIsShown ==
    ASSUME TB!WellFormed, TcbInv, ~TB!Due, tcb.mode = "pwm8", tcb.enable, tcb.out
    PROVE  TB!OutputFollowsCount
<1>1. tcb \in TcbTypes /\ TcbArmed(tcb) /\ OutputIsTimed(tcb)
  BY DEF TcbInv, TcbSound
<1>2. /\ tcb.div \in Nat \ {0} /\ tcb.div <= Lateness + 1 /\ tcb.lo \in Nat /\ tcb.hi \in Nat
      /\ tcb.count \in Nat /\ tcb.since \in Nat /\ tcb.due \in Int /\ Lateness \in Nat
  BY <1>1, TcbFields, TcbConstants
<1>3. PICK n \in 0 .. tcb.lo, b \in Nat, i \in Int :
          /\ n * tcb.div + b = tcb.count * tcb.div + tcb.since + i * ((tcb.lo + 1) * tcb.div)
          /\ tcb.due + b <= (NextChange(tcb, n) - n) * tcb.div + tcb.div - 1
          /\ tcb.wo <=> (tcb.hi > tcb.lo \/ n < tcb.hi)
  BY <1>1 DEF OutputIsTimed
<1>4. tcb.run /\ tcb.due >= 1
  BY <1>1, <1>2 DEF OutputIsTimed, TcbArmed, TB!Due
<1>5. PICK d \in Nat \ {0}, m \in Nat \ {0} : d = tcb.div /\ m = tcb.lo + 1 /\ d <= Lateness + 1
  BY <1>2
<1>6. PICK N \in Nat \ {0} : N = m * d /\ N = TB!Period(tcb) /\ N >= d
  <2>1. m * d \in Nat \ {0} /\ m * d >= d
    OBVIOUS
  <2>2. QED  BY <1>5, <2>1 DEF TB!Period
<1>7. PICK D \in Nat \ {0} : D = NextChange(tcb, n) - n /\ n + D <= m
  BY <1>2, <1>5 DEF NextChange
<1>8. PICK E \in Nat \ {0} : E = D * d
  OBVIOUS
<1>9. b <= E + d - 2
  <2>1. tcb.due + b <= E + d - 1
    BY <1>3, <1>5, <1>7, <1>8
  <2>2. QED  BY <1>2, <1>4, <2>1
<1>10. PICK late \in 0 .. Lateness, c \in Nat : c = b - late /\ c < E /\ late < d
  <2>1. CASE b < E
    <3>1. 0 \in 0 .. Lateness /\ b - 0 = b
      BY <1>2
    <3>2. QED  BY <2>1, <3>1
  <2>2. CASE b >= E
    <3>1. b - E + 1 \in 0 .. Lateness /\ b - (b - E + 1) = E - 1 /\ b - E + 1 < d
      BY <1>2, <1>5, <1>9, <2>2
    <3>2. E - 1 \in Nat /\ E - 1 < E
      OBVIOUS
    <3>3. QED  BY <3>1, <3>2
  <2>3. QED  BY <2>1, <2>2
<1>11. /\ c \div d \in Nat /\ c % d \in Nat /\ c % d < d /\ c = (c \div d) * d + (c % d)
  BY TcbDivided
<1>12. PICK q \in Nat, r \in Nat : q = c \div d /\ r < d /\ c = q * d + r
  BY <1>11
<1>13. q < D
  BY <1>8, <1>10, <1>12, QuotientBelow
<1>14. PICK a \in Nat : a = tcb.since + N - late
  BY <1>2, <1>6, <1>10
<1>15. PICK x : x = [tcb EXCEPT !.since = @ + TB!Period(tcb) - late]
  OBVIOUS
<1>16. /\ x.since = a /\ x.run = tcb.run /\ x.count = tcb.count /\ x.div = d /\ x.mode = "pwm8"
       /\ x.lo = tcb.lo /\ x.hi = tcb.hi /\ x.enable = tcb.enable /\ x.out = tcb.out
  <2>1. x = [tcb EXCEPT !.since = a]
    BY <1>6, <1>14, <1>15
  <2>2. QED  BY <1>1, <1>5, <2>1 DEF TcbTypes
<1>17. TB!Current(x) = ((tcb.count * d + a) \div d) % m
  <2>1. tcb.count + a \div d = (tcb.count * d + a) \div d
    <3>1. PICK w \in Nat : w = tcb.count
      BY <1>2
    <3>2. w + a \div d = (w * d + a) \div d
      BY TicksOfCycles
    <3>3. QED  BY <3>1, <3>2
  <2>2. TB!Current(x) = (tcb.count + a \div d) % m
    BY <1>4, <1>5, <1>16 DEF TB!Current
  <2>3. QED  BY <2>1, <2>2
<1>18. PICK y \in Nat, k \in Nat : y = tcb.count * d + a /\ k = n + q /\ k < m
  <2>1. tcb.count * d + a \in Nat
    BY <1>2
  <2>2. n + q \in Nat /\ n + q < m
    BY <1>7, <1>13
  <2>3. QED  BY <2>1, <2>2
<1>19. y = k * d + r + (1 - i) * (m * d)
  <2>1. PICK C \in Nat, nd \in Nat, qd \in Nat, iN \in Int :
            C = tcb.count * d /\ nd = n * d /\ qd = q * d /\ iN = i * N
    BY <1>2
  <2>2. nd + b = C + tcb.since + iN
    BY <1>3, <1>5, <1>6, <2>1
  <2>3. (1 - i) * N = N - iN /\ k * d = nd + qd
    <3>1. (1 - i) * N = N - i * N
      OBVIOUS
    <3>2. (n + q) * d = n * d + q * d
      OBVIOUS
    <3>3. QED  BY <1>18, <2>1, <3>1, <3>2
  <2>4. y = C + tcb.since + N - late
    BY <1>2, <1>14, <1>18, <2>1
  <2>5. b - late = qd + r
    BY <1>10, <1>12, <2>1
  <2>6. y = k * d + r + (1 - i) * N
    BY <1>2, <2>2, <2>3, <2>4, <2>5
  <2>7. QED  BY <1>6, <2>6
<1>20. (y \div d) % m = k
  <2>1. 1 - i \in Int /\ r < d /\ k < m
    BY <1>12, <1>18
  <2>2. QED  BY <1>19, <2>1, CountInPeriod
<1>21. TB!Current(x) = n + q
  BY <1>17, <1>18, <1>20
<1>22. TB!WoLevel(x) <=> (tcb.hi > tcb.lo \/ n + q < tcb.hi)
  BY <1>16, <1>21 DEF TB!WoLevel
<1>23. (tcb.hi > tcb.lo \/ n + q < tcb.hi) <=> (tcb.hi > tcb.lo \/ n < tcb.hi)
  BY <1>2, <1>7, <1>13 DEF NextChange
<1>24. tcb.wo = TB!WoLevel(x)
  <2>1. tcb.wo \in BOOLEAN /\ TB!WoLevel(x) \in BOOLEAN
    BY <1>1, Zenon DEF TcbTypes, TB!WoLevel
  <2>2. tcb.wo <=> TB!WoLevel(x)
    BY <1>3, <1>22, <1>23, Zenon
  <2>3. QED  BY <2>1, <2>2
<1>25. QED  BY <1>15, <1>24 DEF TB!OutputFollowsCount

LEMMA TcbShows ==
    ASSUME TB!WellFormed, TcbInv
    PROVE  TB!TypeOK /\ TB!WorkIsTimed /\ TB!CaptureIsWidth /\ TB!OutputFollowsCount
<1>1. /\ tcb \in TcbTypes /\ TcbArmed(tcb) /\ WrapIsTimed(tcb) /\ TopIsTimed(tcb)
         /\ WidthIsShown(tcb)
      /\ OutputIsTimed(tcb)
  BY DEF TcbInv, TcbSound
<1>2. TB!TypeOK
  <2>1. /\ tcb.enable \in BOOLEAN /\ tcb.mode \in TB!Modes /\ tcb.out \in BOOLEAN
           /\ tcb.captei \in BOOLEAN
        /\ tcb.clk \in Divs /\ tcb.div \in Divs /\ tcb.lo \in TB!Byte /\ tcb.hi \in TB!Byte
    BY <1>1 DEF TcbTypes
  <2>2. /\ tcb.reg \in TB!Word /\ tcb.top \in TB!Word /\ tcb.count \in TB!Word /\ tcb.since \in Nat
        /\ tcb.run \in BOOLEAN /\ tcb.armed \in BOOLEAN /\ tcb.stage \in 0 .. 2
        /\ tcb.level \in BOOLEAN /\ tcb.wo \in BOOLEAN
    BY <1>1 DEF TcbTypes
  <2>3. /\ tcb.flags \subseteq {"CAPT", "OVF"} /\ tcb.due \in Int /\ tcb.gauge \in Int
        /\ tcb.shown \in Int /\ tcb.stale \in BOOLEAN
    BY <1>1 DEF TcbTypes
  <2>4. QED  BY <2>1, <2>2, <2>3 DEF TB!TypeOK
<1>3. TB!WorkIsTimed
  BY <1>1 DEF TcbArmed, WrapIsTimed, TopIsTimed, TB!WorkIsTimed, TB!Phase
<1>4. TB!CaptureIsWidth
  BY <1>1 DEF WidthIsShown, TB!CaptureIsWidth
<1>5. TB!OutputFollowsCount
  <2>1. CASE ~TB!Due /\ tcb.mode = "pwm8" /\ tcb.enable /\ tcb.out
    BY <2>1, OutputIsShown
  <2>2. CASE ~(tcb.mode = "pwm8" /\ tcb.enable /\ tcb.out)
    <3>1. PICK x : x = [tcb EXCEPT !.since = @ + TB!Period(tcb) - 0]
      OBVIOUS
    <3>2. x.mode = tcb.mode /\ x.enable = tcb.enable /\ x.out = tcb.out
      BY <1>1, <3>1 DEF TcbTypes
    <3>3. TB!WoLevel(x) = FALSE
      BY <2>2, <3>2, Zenon DEF TB!WoLevel
    <3>4. tcb.wo = FALSE
      BY <1>1, <2>2 DEF OutputIsTimed, TcbTypes
    <3>5. 0 \in 0 .. Lateness
      BY TcbConstants
    <3>6. QED  BY <3>1, <3>3, <3>4, <3>5 DEF TB!OutputFollowsCount
  <2>3. CASE TB!Due
    BY <2>3 DEF TB!OutputFollowsCount
  <2>4. QED  BY <2>1, <2>2, <2>3
<1>6. QED  BY <1>2, <1>3, <1>4, <1>5

-----------------------------------------------------------------------------
(* The CCP window *)

\* The CCP window and the instructions since the signature add up.
Counted ==
    /\ ccp \in Nat /\ signed \in Nat
    /\ signed <= CcpWindow + 1
    /\ IF signed < CcpWindow THEN ccp = CcpWindow - signed ELSE ccp = 0

\* An open window and the time since the sequence add up to its length.
WatchdogWindowRuns == wdce /\ window > 0 => since + window <= Window

\* A time-out that was ignored has left its flag set and its enable.
IgnoredShows == part.exact /\ wde /\ missed > 0 => wdif /\ wdie /\ missed = 1

WatchdogInv ==
    /\ part.exact \in BOOLEAN /\ part.alwaysOn \in BOOLEAN
    /\ WD!TypeOK /\ WD!TimersFollowRegisters /\ WatchdogWindowRuns /\ IgnoredShows

-----------------------------------------------------------------------------
(* Time *)

\* A cycle takes one from a timer that is set, and never below zero.
LEMMA PassCounts ==
    ASSUME NEW t \in Nat \cup {WD!Off}, t # 0
    PROVE  /\ WD!Pass(t) \in Nat \cup {WD!Off}
           /\ t = WD!Off => WD!Pass(t) = WD!Off
           /\ t # WD!Off => WD!Pass(t) \in Nat /\ WD!Pass(t) = t - 1
BY DEF WD!Pass, WD!Off

\* The history counts up by one at most.
LEMMA OlderCounts ==
    ASSUME WD!WellFormed, since \in 1 .. Far
    PROVE  WD!Older \in 1 .. Far /\ WD!Older <= since + 1
BY DEF WD!Older, WD!WellFormed

\* What one counter gains the other loses.
LEMMA SumKept ==
    ASSUME NEW a \in Int, NEW b \in Int, NEW c \in Int, NEW d \in Int, NEW n \in Int,
           a <= b + 1, c = d - 1, b + d <= n
    PROVE  a + c <= n
OBVIOUS

\* Cycles that pass keep what is said of an open window.
LEMMA WatchdogWindowPasses ==
    ASSUME WD!WellFormed, WatchdogInv, window # 0, window' = WD!Pass(window), since' = WD!Older,
           wdce' \in BOOLEAN, wdce' => wdce
    PROVE  /\ window' \in Nat \cup {WD!Off} /\ since' \in 1 .. Far
           /\ wdce' => window' \in 0 .. Window
           /\ WatchdogWindowRuns'
<1>1. window \in Nat \cup {WD!Off} /\ since \in 1 .. Far /\ Window \in Nat /\ Far \in Nat
  BY DEF WatchdogInv, WD!TypeOK, WD!WellFormed
<1>2. since' \in 1 .. Far /\ since' <= since + 1
  BY <1>1, OlderCounts
<1>3. wdce => window \in 0 .. Window
  BY DEF WatchdogInv, WD!TimersFollowRegisters
<1>4. /\ window' \in Nat \cup {WD!Off}
      /\ window # WD!Off => window' = window - 1
      /\ window = WD!Off => window' = WD!Off
  BY <1>1, PassCounts
<1>5. ASSUME wdce'
      PROVE  window' \in 0 .. Window
  BY <1>1, <1>3, <1>4, <1>5 DEF WD!Off
<1>6. ASSUME wdce', window' > 0
      PROVE  since' + window' <= Window
  <2>1. window > 0 /\ window' = window - 1
    BY <1>1, <1>3, <1>4, <1>6 DEF WD!Off
  <2>2. since + window <= Window
    BY <2>1, <1>6 DEF WatchdogInv, WatchdogWindowRuns
  <2>3. QED  BY <2>1, <2>2, <1>1, <1>2, <1>3, <1>6
<1>7. QED  BY <1>2, <1>4, <1>5, <1>6 DEF WatchdogWindowRuns

\* So they do for a time-out.
LEMMA TimeoutPasses ==
    ASSUME WD!WellFormed, WatchdogInv, timeout # 0, timeout' = WD!Pass(timeout),
           UNCHANGED <<part, wde, wdie, wdp, count>>
    PROVE  /\ timeout' \in Nat \cup {WD!Off}
           /\ WD!On' <=> timeout' # WD!Off
           /\ WD!On' => count' = Count[wdp'] /\ \E e \in Elapsed : timeout' <= Count[wdp'] + e
<1>1. timeout \in Nat \cup {WD!Off} /\ wdp \in DOMAIN Count /\ Count[wdp] \in Nat
  BY DEF WatchdogInv, WD!TypeOK, WD!WellFormed
<1>2. WD!On' <=> WD!On
  BY DEF WD!On
<1>3. /\ WD!On <=> timeout # WD!Off
      /\ WD!On => count = Count[wdp] /\ \E e \in Elapsed : timeout <= Count[wdp] + e
  BY DEF WatchdogInv, WD!TimersFollowRegisters
<1>4. /\ timeout' \in Nat \cup {WD!Off}
      /\ timeout # WD!Off => timeout' \in Nat /\ timeout' = timeout - 1
      /\ timeout = WD!Off => timeout' = WD!Off
  BY <1>1, PassCounts
<1>5. WD!On' <=> timeout' # WD!Off
  BY <1>2, <1>3, <1>4, <1>1 DEF WD!Off
<1>6. ASSUME WD!On'
      PROVE  count' = Count[wdp'] /\ \E e \in Elapsed : timeout' <= Count[wdp'] + e
  <2>1. PICK e \in Elapsed : timeout <= Count[wdp] + e
    BY <1>2, <1>3, <1>6
  <2>2. timeout # WD!Off
    BY <1>2, <1>3, <1>6
  <2>3. e \in Nat
    BY DEF WD!WellFormed
  <2>4. timeout' = timeout - 1 /\ timeout \in Nat
    BY <1>1, <1>4, <2>2
  <2>5. timeout' <= Count[wdp'] + e
    BY <2>1, <2>3, <2>4, <1>1
  <2>6. QED  BY <2>5, <1>2, <1>3, <1>6
<1>7. QED  BY <1>4, <1>5, <1>6

\* A write of WDTCSR starts the time-out again, or lets it run
\* (avr_watchdog_set_cycle_count_and_timer).
LEMMA SetTimeout ==
    ASSUME WD!WellFormed, WatchdogInv, timeout # 0, wde' \in BOOLEAN, wdie' \in BOOLEAN,
           wdp' \in DOMAIN Count, NEW new \in BOOLEAN, ~new => wdp' = wdp,
           WD!SetCycleCountAndTimer(new)
    PROVE  /\ timeout' \in Nat \cup {WD!Off} /\ count' \in Nat
           /\ WD!On' <=> timeout' # WD!Off
           /\ WD!On' => count' = Count[wdp'] /\ \E e \in Elapsed : timeout' <= Count[wdp'] + e
<1>1. /\ timeout \in Nat \cup {WD!Off} /\ wdp \in DOMAIN Count
      /\ Count[wdp] \in Nat \ {0} /\ Count[wdp'] \in Nat \ {0}
  BY DEF WatchdogInv, WD!TypeOK, WD!WellFormed
<1>2. /\ WD!On <=> timeout # WD!Off
      /\ WD!On => count = Count[wdp] /\ \E e \in Elapsed : timeout <= Count[wdp] + e
  BY DEF WatchdogInv, WD!TimersFollowRegisters
<1>3. count' = Count[wdp'] /\ WD!On \in BOOLEAN /\ WD!On' \in BOOLEAN
  BY DEF WD!SetCycleCountAndTimer, WD!On, WatchdogInv, WD!TypeOK
<1>4. CASE WD!RestartsIf(WD!On, new) /\ WD!On'
  <2>1. timeout' = WD!Pass(count')
    BY <1>4 DEF WD!SetCycleCountAndTimer
  <2>2. timeout' \in Nat /\ timeout' = Count[wdp'] - 1
    BY <2>1, <1>1, <1>3 DEF WD!Pass, WD!Off
  <2>3. 0 \in Elapsed /\ timeout' <= Count[wdp'] + 0
    BY <2>2, <1>1 DEF WD!WellFormed
  <2>4. QED  BY <2>2, <2>3, <1>3, <1>4, <1>1 DEF WD!Off
<1>5. CASE WD!RestartsIf(WD!On, new) /\ ~WD!On'
  <2>1. timeout' = WD!Pass(WD!Off)
    BY <1>5 DEF WD!SetCycleCountAndTimer
  <2>2. timeout' = WD!Off
    BY <2>1 DEF WD!Pass, WD!Off
  <2>3. QED  BY <2>2, <1>3, <1>5, <1>1
<1>6. CASE ~WD!RestartsIf(WD!On, new)
  <2>1. timeout' = WD!Pass(timeout)
    BY <1>6 DEF WD!SetCycleCountAndTimer
  <2>2. (WD!On <=> WD!On') /\ wdp' = wdp
    BY <1>6, <1>3 DEF WD!RestartsIf
  <2>3. /\ timeout' \in Nat \cup {WD!Off}
        /\ timeout # WD!Off => timeout' \in Nat /\ timeout' = timeout - 1
        /\ timeout = WD!Off => timeout' = WD!Off
    BY <2>1, <1>1, PassCounts
  <2>4. WD!On' <=> timeout' # WD!Off
    BY <2>2, <2>3, <1>1, <1>2 DEF WD!Off
  <2>5. ASSUME WD!On'
        PROVE  \E e \in Elapsed : timeout' <= Count[wdp'] + e
    <3>1. PICK e \in Elapsed : timeout <= Count[wdp] + e
      BY <2>2, <2>5, <1>2
    <3>2. timeout # WD!Off /\ e \in Nat
      BY <2>2, <2>5, <1>2 DEF WD!WellFormed
    <3>3. timeout' = timeout - 1 /\ timeout \in Nat
      BY <2>3, <3>2, <1>1
    <3>4. timeout' <= Count[wdp'] + e
      BY <3>1, <3>2, <3>3, <2>2, <1>1
    <3>5. QED  BY <3>4
  <2>6. QED  BY <2>3, <2>4, <2>5, <1>1, <1>3
<1>7. QED  BY <1>4, <1>5, <1>6

\* The bits a write may set are bits.
LEMMA FusedIsRegister ==
    ASSUME WatchdogInv, NEW v \in WD!Registers
    PROVE  WD!AsFused(v) \in WD!Registers
BY DEF WD!AsFused, WD!Registers, WatchdogInv

-----------------------------------------------------------------------------
(* The actions keep the invariant *)

\* A write of WDTCSR, inside the window, opening it or outside.
LEMMA WriteKeeps ==
    ASSUME WD!WellFormed, WatchdogInv, NEW v \in WD!Registers, WD!Write(v)
    PROVE  WatchdogInv'
<1> DEFINE w == WD!AsFused(v)
<1>1. w \in WD!Registers
  BY FusedIsRegister
<1>2. /\ w.wde \in BOOLEAN /\ w.wdie \in BOOLEAN /\ w.wdif \in BOOLEAN /\ w.wdce \in BOOLEAN
      /\ w.wdp \in DOMAIN Count
  BY <1>1 DEF WD!Registers
<1>3. /\ since' = IF w.wdce /\ w.wde THEN 1 ELSE WD!Older
      /\ missed' = 0 /\ part' = part /\ wdrf' = wdrf
      /\ WD!WriteInWindow(w) \/ WD!OpenWindow(w) \/ WD!WriteOutside(w)
  BY DEF WD!Write
<1> HIDE DEF w
<1>4. /\ wde \in BOOLEAN /\ wdie \in BOOLEAN /\ wdif \in BOOLEAN /\ wdce \in BOOLEAN
      /\ wdrf \in BOOLEAN /\ pending \in BOOLEAN
      /\ wdp \in DOMAIN Count /\ count \in Nat
      /\ timeout \in Nat \cup {WD!Off} /\ window \in Nat \cup {WD!Off} /\ since \in 1 .. Far
  BY DEF WatchdogInv, WD!TypeOK
<1>5. timeout # 0 /\ window # 0
  BY <1>3 DEF WD!WriteInWindow, WD!OpenWindow, WD!WriteOutside, WD!Instruction
<1>6. wdif' \in BOOLEAN /\ pending' \in BOOLEAN
  <2>1. \E stored \in BOOLEAN : WD!FlagWritten(w, stored)
    BY <1>3 DEF WD!WriteInWindow, WD!OpenWindow, WD!WriteOutside
  <2>2. PICK stored \in BOOLEAN : WD!FlagWritten(w, stored)
    BY <2>1
  <2>3. QED  BY <2>2, <1>2, <1>4 DEF WD!FlagWritten
<1>7. IgnoredShows'
  BY <1>3 DEF IgnoredShows
<1>8. Window \in Nat /\ Far \in Nat \ {0}
  BY DEF WD!WellFormed
<1>9. /\ wde' \in BOOLEAN /\ wdie' \in BOOLEAN /\ wdce' \in BOOLEAN /\ wdp' \in DOMAIN Count
      /\ count' \in Nat /\ timeout' \in Nat \cup {WD!Off}
      /\ WD!On' <=> timeout' # WD!Off
      /\ WD!On' => count' = Count[wdp'] /\ \E e \in Elapsed : timeout' <= Count[wdp'] + e
  <2>1. CASE WD!WriteInWindow(w)
    <3>1. /\ wde' = (w.wde \/ wdrf) /\ wdie' = w.wdie /\ wdce' = w.wdce /\ wdp' = w.wdp
          /\ WD!SetCycleCountAndTimer(w.wdp # wdp)
      BY <2>1 DEF WD!WriteInWindow
    <3>2. wde' \in BOOLEAN
      BY <3>1, <1>2, <1>4
    <3>3. wdie' \in BOOLEAN /\ wdce' \in BOOLEAN /\ wdp' \in DOMAIN Count
      BY <3>1, <1>2
    <3>4. (w.wdp # wdp) \in BOOLEAN /\ (~(w.wdp # wdp) => wdp' = wdp)
      BY <3>1
    <3>5. QED  BY <3>1, <3>2, <3>3, <3>4, <1>5, SetTimeout
  <2>2. CASE WD!WriteOutside(w)
    <3>1. /\ wde' = (wde \/ w.wde) /\ wdie' = w.wdie /\ wdce' = wdce /\ wdp' = wdp
          /\ WD!SetCycleCountAndTimer(FALSE)
      BY <2>2 DEF WD!WriteOutside
    <3>2. wde' \in BOOLEAN
      BY <3>1, <1>2, <1>4
    <3>3. wdie' \in BOOLEAN /\ wdce' \in BOOLEAN /\ wdp' \in DOMAIN Count
      BY <3>1, <1>2, <1>4
    <3>4. QED  BY <3>1, <3>2, <3>3, <1>5, SetTimeout
  <2>3. CASE WD!OpenWindow(w)
    <3>1. wdce' = TRUE /\ timeout' = WD!Pass(timeout) /\ UNCHANGED <<wde, wdie, wdp, count>>
      BY <2>3 DEF WD!OpenWindow
    <3>2. UNCHANGED <<part, wde, wdie, wdp, count>>
      BY <3>1, <1>3
    <3>3. QED  BY <3>1, <3>2, <1>4, <1>5, TimeoutPasses
  <2>4. QED  BY <1>3, <2>1, <2>2, <2>3
<1>10. since' \in 1 .. Far /\ window' \in Nat \cup {WD!Off}
  <2>1. WD!Older \in 1 .. Far
    BY <1>4, OlderCounts
  <2>2. WD!Pass(window) \in Nat \cup {WD!Off} /\ WD!Pass(Window) \in Nat
    BY <1>4, <1>5, <1>8, PassCounts DEF WD!Pass, WD!Off
  <2>3. window' \in {WD!Pass(window), WD!Pass(Window)}
    BY <1>3 DEF WD!WriteInWindow, WD!OpenWindow, WD!WriteOutside, WD!OpenedWindow
  <2>4. QED  BY <2>1, <2>2, <2>3, <1>3, <1>8
<1>11. (wdce' => window' \in 0 .. Window) /\ WatchdogWindowRuns'
  <2>1. CASE WD!OpenWindow(w)
    <3>1. window' = WD!Pass(Window) /\ w.wdce /\ w.wde
      BY <2>1 DEF WD!OpenWindow, WD!OpenedWindow
    <3>2. since' = 1
      BY <3>1, <1>3
    <3>3. window' \in 0 .. Window /\ (window' > 0 => 1 + window' <= Window)
      BY <3>1, <1>8 DEF WD!Pass
    <3>4. QED  BY <3>2, <3>3 DEF WatchdogWindowRuns
  <2>2. CASE WD!WriteInWindow(w)
    <3>1. window' = WD!Pass(window) /\ wdce /\ wdce' = w.wdce
      BY <2>2 DEF WD!WriteInWindow
    <3>2. window \in 0 .. Window /\ window > 0
      BY <3>1, <1>4, <1>5, <1>8 DEF WatchdogInv, WD!TimersFollowRegisters
    <3>3. window' = window - 1 /\ since + window <= Window
      BY <3>1, <3>2 DEF WD!Pass, WatchdogInv, WatchdogWindowRuns
    <3>4. since' <= since + 1 \/ since' = 1
      BY <1>3, <1>4, OlderCounts
    <3>5. since \in Int /\ since' \in Int /\ window \in Int /\ Window \in Int
      BY <3>2, <1>4, <1>8, <1>10
    <3>6. window' \in 0 .. Window /\ window' = window - 1
      BY <3>2, <3>3, <3>5
    <3>7. since' + window' <= Window
      <4>1. window' \in Int /\ window' = window - 1 /\ since + window <= Window
        BY <3>3, <3>5, <3>6
      <4>2. window <= Window
        BY <3>2, <3>5
      <4>3. CASE since' = 1
        BY <3>5, <4>1, <4>2, <4>3
      <4>4. CASE since' <= since + 1
        BY <3>5, <4>1, <4>4, SumKept
      <4>5. QED  BY <3>4, <4>3, <4>4
    <3>8. QED  BY <3>6, <3>7 DEF WatchdogWindowRuns
  <2>3. CASE WD!WriteOutside(w)
    <3>1. wdce' = wdce /\ ~wdce
      BY <2>3 DEF WD!WriteOutside
    <3>2. QED  BY <3>1 DEF WatchdogWindowRuns
  <2>4. QED  BY <1>3, <2>1, <2>2, <2>3
<1>12. WD!TypeOK'
  BY <1>3, <1>4, <1>6, <1>9, <1>10 DEF WD!TypeOK
<1>13. WD!TimersFollowRegisters'
  BY <1>9, <1>11 DEF WD!TimersFollowRegisters
<1>14. QED  BY <1>3, <1>4, <1>7, <1>11, <1>12, <1>13 DEF WatchdogInv

\* The reset handler starts the time-out, or none.
LEMMA AvrResetKeeps ==
    ASSUME WD!WellFormed, WatchdogInv, NEW rf \in BOOLEAN, WD!AvrReset(rf)
    PROVE  WatchdogInv'
<1>1. /\ wdrf' = rf /\ wde' = (rf \/ part.alwaysOn) /\ wdie' = FALSE /\ wdif' = FALSE
      /\ wdce' = FALSE /\ wdp' = 0 /\ window' = WD!Off /\ pending' = FALSE
      /\ since' = Far /\ missed' = 0 /\ part' = part
  BY DEF WD!AvrReset
<1>2. part.exact \in BOOLEAN /\ part.alwaysOn \in BOOLEAN
  BY DEF WatchdogInv
<1>3. wde' \in BOOLEAN
  BY <1>1, <1>2
<1>4. 0 \in DOMAIN Count /\ Count[0] \in Nat \ {0} /\ Far \in Nat \ {0}
  BY DEF WD!WellFormed
<1>5. /\ count' \in Nat /\ timeout' \in Nat \cup {WD!Off}
      /\ WD!On' <=> timeout' # WD!Off
      /\ WD!On' => count' = Count[wdp'] /\ \E e \in Elapsed : timeout' <= Count[wdp'] + e
  <2>1. WD!On' <=> wde'
    BY <1>1 DEF WD!On
  <2>2. CASE wde'
    <3>1. PICK e \in Elapsed : count' = Count[0] /\ timeout' = Count[0] + e
      BY <2>2 DEF WD!AvrReset
    <3>2. e \in Nat
      BY DEF WD!WellFormed
    <3>3. timeout' \in Nat /\ timeout' <= Count[0] + e
      BY <3>1, <3>2, <1>4
    <3>4. QED  BY <2>1, <2>2, <3>1, <3>3, <1>1, <1>4 DEF WD!Off
  <2>3. CASE ~wde'
    BY <2>1, <2>3 DEF WD!AvrReset, WatchdogInv, WD!TypeOK
  <2>4. QED  BY <2>2, <2>3
<1>6. WD!TypeOK'
  <2>1. wdif' \in BOOLEAN /\ wdie' \in BOOLEAN /\ wdce' \in BOOLEAN /\ wdrf' \in BOOLEAN
        /\ pending' \in BOOLEAN
    BY <1>1
  <2>2. window' \in Nat \cup {WD!Off} /\ since' \in 1 .. Far /\ missed' \in 0 .. 2
    BY <1>1, <1>4
  <2>3. wdp' \in DOMAIN Count
    BY <1>1, <1>4
  <2>4. QED  BY <2>1, <2>2, <2>3, <1>3, <1>5 DEF WD!TypeOK
<1>7. WD!TimersFollowRegisters'
  BY <1>1, <1>5 DEF WD!TimersFollowRegisters
<1>8. WatchdogWindowRuns' /\ IgnoredShows'
  BY <1>1 DEF WatchdogWindowRuns, IgnoredShows
<1>9. QED  BY <1>1, <1>2, <1>6, <1>7, <1>8 DEF WatchdogInv

\* The instructions that leave the registers alone, but for WDRF.
LEMMA IdleKeeps ==
    ASSUME WD!WellFormed, WatchdogInv, WD!Plain \/ WD!ClearResetFlag
    PROVE  WatchdogInv'
<1>1. /\ timeout # 0 /\ window # 0 /\ timeout' = WD!Pass(timeout) /\ window' = WD!Pass(window)
      /\ since' = WD!Older /\ UNCHANGED <<part, wde, wdie, wdif, wdce, wdp, count, pending,
         missed>>
      /\ wdrf' \in {wdrf, FALSE}
  BY DEF WD!Plain, WD!ClearResetFlag, WD!Instruction, WD!control
<1>2. UNCHANGED <<part, wde, wdie, wdp, count>>
  BY <1>1
<1>3. /\ wdce \in BOOLEAN /\ wdrf \in BOOLEAN
  BY DEF WatchdogInv, WD!TypeOK
<1>4. /\ timeout' \in Nat \cup {WD!Off}
      /\ WD!On' <=> timeout' # WD!Off
      /\ WD!On' => count' = Count[wdp'] /\ \E e \in Elapsed : timeout' <= Count[wdp'] + e
  BY <1>1, <1>2, TimeoutPasses
<1>5. wdce' \in BOOLEAN /\ (wdce' => wdce)
  BY <1>1, <1>3
<1>6. /\ window' \in Nat \cup {WD!Off} /\ since' \in 1 .. Far
      /\ wdce' => window' \in 0 .. Window
      /\ WatchdogWindowRuns'
  BY <1>1, <1>5, WatchdogWindowPasses
<1>7. IgnoredShows'
  BY <1>1 DEF WatchdogInv, IgnoredShows
<1>8. WD!TypeOK'
  BY <1>1, <1>3, <1>4, <1>6 DEF WatchdogInv, WD!TypeOK
<1>9. WD!TimersFollowRegisters'
  BY <1>4, <1>6 DEF WD!TimersFollowRegisters
<1>10. QED  BY <1>1, <1>3, <1>6, <1>7, <1>8, <1>9 DEF WatchdogInv

\* The WDR instruction gives a running time-out its full length.
LEMMA WatchdogWdrKeeps ==
    ASSUME WD!WellFormed, WatchdogInv, WD!Wdr
    PROVE  WatchdogInv'
<1>1. /\ timeout # 0 /\ window # 0 /\ timeout' = WD!Pass(IF WD!On THEN count ELSE timeout)
      /\ window' = WD!Pass(window) /\ since' = WD!Older /\ missed' = 0
      /\ UNCHANGED <<part, wde, wdie, wdif, wdce, wdp, wdrf, count, pending>>
  BY DEF WD!Wdr, WD!Instruction, WD!control
<1>2. UNCHANGED <<part, wde, wdie, wdp, count>>
  BY <1>1
<1>3. wdce \in BOOLEAN /\ wdp \in DOMAIN Count /\ Count[wdp] \in Nat \ {0}
  BY DEF WatchdogInv, WD!TypeOK, WD!WellFormed
<1>4. /\ timeout' \in Nat \cup {WD!Off}
      /\ WD!On' <=> timeout' # WD!Off
      /\ WD!On' => count' = Count[wdp'] /\ \E e \in Elapsed : timeout' <= Count[wdp'] + e
  <2>1. WD!On' <=> WD!On
    BY <1>2 DEF WD!On
  <2>2. CASE WD!On
    <3>1. count = Count[wdp] /\ timeout' = WD!Pass(Count[wdp])
      BY <1>1, <2>2 DEF WatchdogInv, WD!TimersFollowRegisters
    <3>2. timeout' \in Nat /\ timeout' <= Count[wdp] + 0 /\ 0 \in Elapsed
      BY <3>1, <1>3 DEF WD!Pass, WD!WellFormed
    <3>3. QED  BY <2>1, <2>2, <3>1, <3>2, <1>2 DEF WD!Off
  <2>3. CASE ~WD!On
    <3>1. timeout' = WD!Pass(timeout)
      BY <1>1, <2>3
    <3>2. QED  BY <3>1, <1>1, <1>2, TimeoutPasses
  <2>4. QED  BY <2>2, <2>3
<1>5. wdce' \in BOOLEAN /\ (wdce' => wdce)
  BY <1>1, <1>3
<1>6. /\ window' \in Nat \cup {WD!Off} /\ since' \in 1 .. Far
      /\ wdce' => window' \in 0 .. Window
      /\ WatchdogWindowRuns'
  BY <1>1, <1>5, WatchdogWindowPasses
<1>7. IgnoredShows'
  BY <1>1 DEF IgnoredShows
<1>8. WD!TypeOK'
  BY <1>1, <1>4, <1>6 DEF WatchdogInv, WD!TypeOK
<1>9. WD!TimersFollowRegisters'
  BY <1>4, <1>6 DEF WD!TimersFollowRegisters
<1>10. QED  BY <1>1, <1>3, <1>6, <1>7, <1>8, <1>9 DEF WatchdogInv

\* A service clears the flag and takes no time.
LEMMA ServeKeeps ==
    ASSUME WD!WellFormed, WatchdogInv, WD!Serve
    PROVE  WatchdogInv'
<1>1. /\ UNCHANGED <<part, wde, wdce, wdp, wdrf, count, timeout, window, since>>
      /\ pending' = FALSE
      /\ \/ /\ wdie /\ wdie' = ~(wdif /\ wde) /\ wdif' = FALSE /\ missed' = 0
         \/ ~wdie /\ UNCHANGED <<wdie, wdif, missed>>
  BY DEF WD!Serve
<1>2. wdie' \in BOOLEAN /\ wdif' \in BOOLEAN /\ missed' \in 0 .. 2
  <2>1. /\ wdie \in BOOLEAN /\ wdif \in BOOLEAN /\ missed \in 0 .. 2
    BY DEF WatchdogInv, WD!TypeOK
  <2>2. wdie' \in BOOLEAN
    BY <1>1, <2>1
  <2>3. wdif' \in BOOLEAN
    BY <1>1, <2>1
  <2>4. missed' \in 0 .. 2
    BY <1>1, <2>1
  <2>5. QED  BY <2>2, <2>3, <2>4
<1>3. WD!On' <=> WD!On
  <2>1. CASE wdie
    <3>1. wdie' = ~(wdif /\ wde)
      BY <1>1, <2>1
    <3>2. WD!On /\ WD!On'
      BY <1>1, <2>1, <3>1, Zenon DEF WD!On
    <3>3. QED  BY <3>2
  <2>2. CASE ~wdie
    BY <1>1, <2>2 DEF WD!On
  <2>3. QED  BY <2>1, <2>2
<1>4. WD!TypeOK'
  BY <1>1, <1>2 DEF WatchdogInv, WD!TypeOK
<1>5. WD!TimersFollowRegisters'
  BY <1>1, <1>3 DEF WatchdogInv, WD!TimersFollowRegisters
<1>6. WatchdogWindowRuns' /\ IgnoredShows'
  BY <1>1 DEF WatchdogInv, WatchdogWindowRuns, IgnoredShows
<1>7. QED  BY <1>1, <1>4, <1>5, <1>6 DEF WatchdogInv

\* A time-out that interrupts is the first one the firmware ignores.
LEMMA TimeoutInterruptsKeeps ==
    ASSUME WD!WellFormed, WatchdogInv, WD!TimeoutInterrupts
    PROVE  WatchdogInv'
<1>1. /\ ~WD!Hung /\ wdie /\ wdif' = TRUE /\ pending' = TRUE /\ timeout' = count
      /\ missed' = IF missed < 2 THEN missed + 1 ELSE missed
      /\ UNCHANGED <<part, wde, wdie, wdce, wdp, wdrf, count, window, since>>
  BY DEF WD!TimeoutInterrupts
<1>2. missed \in 0 .. 2 /\ WD!On /\ WD!On' /\ Count[wdp] \in Nat \ {0} /\ 0 \in Elapsed
  BY <1>1 DEF WatchdogInv, WD!TypeOK, WD!WellFormed, WD!On
<1>3. count = Count[wdp] /\ timeout' \in Nat /\ timeout' <= Count[wdp] + 0
  BY <1>1, <1>2 DEF WatchdogInv, WD!TimersFollowRegisters
<1>4. WD!TypeOK'
  <2>1. missed' \in 0 .. 2
    BY <1>1, <1>2
  <2>2. QED  BY <1>1, <1>3, <2>1 DEF WatchdogInv, WD!TypeOK
<1>5. WD!TimersFollowRegisters'
  <2>1. WD!On' <=> timeout' # WD!Off
    BY <1>2, <1>3 DEF WD!Off
  <2>2. count' = Count[wdp'] /\ \E e \in Elapsed : timeout' <= Count[wdp'] + e
    BY <1>1, <1>2, <1>3
  <2>3. wdce' => window' \in 0 .. Window
    BY <1>1 DEF WatchdogInv, WD!TimersFollowRegisters
  <2>4. QED  BY <2>1, <2>2, <2>3 DEF WD!TimersFollowRegisters
<1>6. WatchdogWindowRuns'
  BY <1>1 DEF WatchdogInv, WatchdogWindowRuns
<1>7. ASSUME part.exact, wde
      PROVE  missed' = 1
  <2>1. ~(missed > 0)
    BY <1>1, <1>7 DEF WatchdogInv, IgnoredShows, WD!Hung
  <2>2. QED  BY <2>1, <1>1, <1>2
<1>8. IgnoredShows'
  BY <1>1, <1>7 DEF IgnoredShows
<1>9. QED  BY <1>1, <1>4, <1>5, <1>6, <1>8 DEF WatchdogInv

\* The window closes.
LEMMA WindowClosesKeeps ==
    ASSUME WD!WellFormed, WatchdogInv, WD!WindowCloses
    PROVE  WatchdogInv'
<1>1. /\ window' = WD!Off /\ wdce' = FALSE
      /\ UNCHANGED <<part, wde, wdie, wdif, wdp, wdrf, count, timeout, pending, since,
                     missed>>
  BY DEF WD!WindowCloses
<1>2. WD!On' <=> WD!On
  BY <1>1 DEF WD!On
<1>3. WD!TypeOK'
  BY <1>1 DEF WatchdogInv, WD!TypeOK
<1>4. WD!TimersFollowRegisters'
  BY <1>1, <1>2 DEF WatchdogInv, WD!TimersFollowRegisters
<1>5. WatchdogWindowRuns' /\ IgnoredShows'
  BY <1>1 DEF WatchdogInv, WatchdogWindowRuns, IgnoredShows
<1>6. QED  BY <1>1, <1>3, <1>4, <1>5 DEF WatchdogInv

\* A step of another peripheral leaves the watchdog alone.
LEMMA WatchdogStands ==
    ASSUME WatchdogInv,
           UNCHANGED <<part, wde, wdie, wdif, wdce, wdp, wdrf, count, timeout, window,
                       pending, since, missed>>
    PROVE  WatchdogInv'
<1>1. WD!On' <=> WD!On
  BY DEF WD!On
<1>2. WD!TypeOK'
  BY DEF WatchdogInv, WD!TypeOK
<1>3. WD!TimersFollowRegisters'
  BY <1>1 DEF WatchdogInv, WD!TimersFollowRegisters
<1>4. WatchdogWindowRuns' /\ IgnoredShows'
  BY DEF WatchdogInv, WatchdogWindowRuns, IgnoredShows
<1>5. QED  BY <1>2, <1>3, <1>4 DEF WatchdogInv

-----------------------------------------------------------------------------
(* The invariant *)

\* A part that is switched on runs the time-out of its fuse.
LEMMA WatchdogInitHolds ==
    ASSUME WD!WellFormed, WD!Init, part.exact \in BOOLEAN, part.alwaysOn \in BOOLEAN
    PROVE  WatchdogInv
<1>1. 0 \in DOMAIN Count /\ Count[0] \in Nat \ {0} /\ Far \in Nat \ {0} /\ 0 \in Elapsed
  BY DEF WD!WellFormed
<1>2. part.alwaysOn \in BOOLEAN
  OBVIOUS
<1>3. WD!On <=> part.alwaysOn
  BY DEF WD!Init, WD!On
<1>4. count \in Nat /\ timeout \in Nat \cup {WD!Off}
  BY <1>1 DEF WD!Init
<1>5. WD!TypeOK
  <2>1. wde \in BOOLEAN /\ wdp \in DOMAIN Count
    BY <1>1, <1>2 DEF WD!Init
  <2>2. wdie \in BOOLEAN /\ wdif \in BOOLEAN /\ wdce \in BOOLEAN /\ wdrf \in BOOLEAN
        /\ pending \in BOOLEAN
    BY DEF WD!Init
  <2>3. window \in Nat \cup {WD!Off} /\ missed \in 0 .. 2 /\ since \in 1 .. Far
    BY <1>1 DEF WD!Init
  <2>4. QED  BY <1>4, <2>1, <2>2, <2>3 DEF WD!TypeOK
<1>6. WD!On <=> timeout # WD!Off
  BY <1>1, <1>3 DEF WD!Init, WD!Off
<1>7. ASSUME WD!On
      PROVE  count = Count[wdp] /\ \E e \in Elapsed : timeout <= Count[wdp] + e
  <2>1. count = Count[wdp] /\ timeout = Count[wdp]
    BY <1>3, <1>7 DEF WD!Init
  <2>2. Count[wdp] <= Count[wdp] + 0
    BY <1>1 DEF WD!Init
  <2>3. QED  BY <2>1, <2>2, <1>1
<1>8. WD!TimersFollowRegisters
  BY <1>6, <1>7 DEF WD!Init, WD!TimersFollowRegisters
<1>9. WatchdogWindowRuns /\ IgnoredShows
  BY DEF WD!Init, WatchdogWindowRuns, IgnoredShows
<1>10. QED  BY <1>5, <1>8, <1>9 DEF WatchdogInv

\* Every step keeps it.
LEMMA WatchdogKeeps ==
    ASSUME WD!WellFormed, WatchdogInv, WD!Next
    PROVE  WatchdogInv'
<1>1. CASE \E v \in WD!Registers : WD!Write(v)
  BY <1>1, WriteKeeps
<1>2. CASE WD!ClearResetFlag \/ WD!Plain
  BY <1>2, IdleKeeps
<1>3. CASE WD!Wdr
  BY <1>3, WatchdogWdrKeeps
<1>4. CASE WD!Serve
  BY <1>4, ServeKeeps
<1>5. CASE WD!TimeoutInterrupts
  BY <1>5, TimeoutInterruptsKeeps
<1>6. CASE WD!TimeoutResets
  <2>1. WD!AvrReset(TRUE)
    BY <1>6 DEF WD!TimeoutResets
  <2>2. QED  BY <2>1, AvrResetKeeps
<1>7. CASE WD!WindowCloses
  BY <1>7, WindowClosesKeeps
<1>8. CASE WD!Reset
  <2>1. WD!AvrReset(wdrf) /\ wdrf \in BOOLEAN
    BY <1>8 DEF WD!Reset, WatchdogInv, WD!TypeOK
  <2>2. QED  BY <2>1, AvrResetKeeps
<1>9. QED  BY <1>1, <1>2, <1>3, <1>4, <1>5, <1>6, <1>7, <1>8 DEF WD!Next

\* A write changes the guarded registers in the window only.
LEMMA WriteInSequence ==
    ASSUME WD!WellFormed, WatchdogInv, NEW v \in WD!Registers, WD!Write(v)
    PROVE  WD!ChangesInSequence
<1> DEFINE w == WD!AsFused(v)
<1>1. WD!WriteInWindow(w) \/ WD!OpenWindow(w) \/ WD!WriteOutside(w)
  BY DEF WD!Write
<1> HIDE DEF w
<1>2. CASE WD!WriteInWindow(w)
  <2>1. wdce /\ window # 0 /\ wde' = (w.wde \/ wdrf)
    BY <1>2 DEF WD!WriteInWindow, WD!Instruction
  <2>2. window \in 0 .. Window /\ Window \in Nat /\ since \in 1 .. Far /\ Far \in Nat
    BY <2>1 DEF WatchdogInv, WD!TimersFollowRegisters, WD!TypeOK, WD!WellFormed
  <2>3. since + window <= Window
    BY <2>1, <2>2 DEF WatchdogInv, WatchdogWindowRuns
  <2>4. since < Window
    BY <2>1, <2>2, <2>3
  <2>5. wde /\ ~wde' => ~wdrf
    BY <2>1
  <2>6. QED  BY <2>4, <2>5 DEF WD!ChangesInSequence
<1>3. CASE WD!OpenWindow(w)
  BY <1>3 DEF WD!OpenWindow, WD!ChangesInSequence
<1>4. CASE WD!WriteOutside(w)
  BY <1>4 DEF WD!WriteOutside, WD!ChangesInSequence
<1>5. QED  BY <1>1, <1>2, <1>3, <1>4

\* No write, however often repeated, stops the watchdog or changes its
\* prescaler but within the window after the timed sequence.
LEMMA WatchdogInSequence ==
    ASSUME WD!WellFormed, WatchdogInv, WD!Next
    PROVE  WD!ChangesInSequence
<1>1. CASE \E v \in WD!Registers : WD!Write(v)
  BY <1>1, WriteInSequence
<1>2. CASE WD!ClearResetFlag \/ WD!Plain \/ WD!Wdr
  BY <1>2 DEF WD!ClearResetFlag, WD!Plain, WD!Wdr, WD!control, WD!ChangesInSequence
<1>3. CASE WD!Serve \/ WD!TimeoutInterrupts \/ WD!WindowCloses
  BY <1>3 DEF WD!Serve, WD!TimeoutInterrupts, WD!WindowCloses, WD!ChangesInSequence
<1>4. CASE WD!TimeoutResets \/ WD!Reset
  BY <1>4 DEF WD!ChangesInSequence
<1>5. QED  BY <1>1, <1>2, <1>3, <1>4 DEF WD!Next

\* What the properties ask of the classic watchdog.
LEMMA WatchdogShows ==
    ASSUME WatchdogInv
    PROVE  WD!TypeOK /\ WD!TimersFollowRegisters /\ WD!HungIsReset
<1>1. WD!TypeOK /\ WD!TimersFollowRegisters
  BY DEF WatchdogInv
<1>2. WD!HungIsReset
  BY DEF WatchdogInv, WD!TypeOK, IgnoredShows, WD!HungIsReset
<1>3. QED  BY <1>1, <1>2

-----------------------------------------------------------------------------
(* The modern watchdog and the reset controller *)

\* A debugger takes avr->run only from a reset that is still pending.
WdtArmed ==
    /\ run = "reset" <=> resetPending /\ ~usurped
    /\ resetPending <=> pendingCause # {}
    /\ savedRun # "reset"
    /\ usurped => resetPending
    /\ resetPending \in BOOLEAN /\ usurped \in BOOLEAN /\ gdb \in BOOLEAN

\* The lengths are those of the fields at one of the clocks.
Lengths ==
    /\ timeoutCycles \in 0 .. Late /\ windowCycles \in Nat
    /\ \E f \in Frequencies : timeoutCycles = Clocks[period] * f

\* A watchdog that is on is timed from armed_at, unless it has already bitten.
Timing ==
    /\ timeoutCycles = 0 => expiry = WT!Off
    /\ timeoutCycles # 0 =>
           \/ expiry \in Nat /\ expiry + age = timeoutCycles
           \/ "WDRF" \in pendingCause

\* The types but for those of Armed and Lengths.
WdtTypes ==
    /\ period \in WT!Fields /\ windowed \in WT!Fields /\ locked \in BOOLEAN
    /\ frequency \in Frequencies
    /\ expiry \in Nat \cup {WT!Off} /\ age \in 0 .. Late
    /\ run \in {"raw", "gdb", "reset"} /\ savedRun \in {"raw", "gdb"}
    /\ pendingCause \subseteq WT!Causes
    /\ rstfr \subseteq WT!Causes \cup {"PORF"}
    /\ cpu \in {"running", "stopped", "crashed"} /\ burst \in BOOLEAN

WdtInv == WdtArmed /\ WdtTypes /\ Lengths /\ Timing

\* What a reset asked for does to the callbacks (avr_rstctrl_request_reset).
LEMMA RequestKeeps ==
    ASSUME WdtArmed, WdtTypes, NEW cause \in WT!Causes, WT!RequestReset(cause)
    PROVE  /\ WdtArmed'
           /\ run' \in {"raw", "gdb", "reset"} /\ savedRun' \in {"raw", "gdb"}
           /\ pendingCause' \subseteq WT!Causes /\ rstfr' = rstfr /\ cpu' = cpu
           /\ cause \in pendingCause' /\ pendingCause \subseteq pendingCause'
<1>1. CASE resetPending
  BY <1>1 DEF WdtArmed, WdtTypes, WT!RequestReset, WT!FirstRequest
<1>2. CASE ~resetPending
  BY <1>2 DEF WdtArmed, WdtTypes, WT!RequestReset, WT!FirstRequest
<1>3. QED  BY <1>1, <1>2 DEF WdtArmed

\* A cycle passes for the time-out and the history alike.
LEMMA TicksKeep ==
    ASSUME WT!WellFormed, WdtTypes, Lengths, Timing, expiry # 0, WT!Ticks,
           timeoutCycles' = timeoutCycles, pendingCause \subseteq pendingCause'
    PROVE  Timing' /\ expiry' \in Nat \cup {WT!Off} /\ age' \in 0 .. Late
<1>1. /\ expiry \in Nat \cup {WT!Off} /\ age \in 0 .. Late /\ Late \in Nat \ {0}
      /\ timeoutCycles \in 0 .. Late
  BY DEF WT!WellFormed, WdtTypes, Lengths
<1>2. expiry' = WT!Pass(expiry) /\ age' = WT!Older(age)
  BY DEF WT!Ticks
<1>3. expiry' \in Nat \cup {WT!Off} /\ (expiry = WT!Off => expiry' = WT!Off)
  BY <1>1, <1>2 DEF WT!Pass, WT!Off
<1>4. age' \in 0 .. Late
  BY <1>1, <1>2 DEF WT!Older
<1>5. ASSUME timeoutCycles # 0, "WDRF" \notin pendingCause'
      PROVE  expiry' \in Nat /\ expiry' + age' = timeoutCycles'
  <2>1. expiry \in Nat /\ expiry + age = timeoutCycles
    BY <1>5 DEF Timing
  <2>2. expiry' = expiry - 1 /\ age' = age + 1
    BY <2>1, <1>1, <1>2 DEF WT!Pass, WT!Older
  <2>3. QED  BY <2>1, <2>2, <1>1
<1>6. Timing'
  BY <1>3, <1>5 DEF Timing
<1>7. QED  BY <1>3, <1>4, <1>6

\* What an instruction does that leaves the watchdog alone.
LEMMA PlainKeeps ==
    ASSUME WT!WellFormed, WdtInv, WT!Executes, WT!Ticks, WdtArmed',
           UNCHANGED <<period, windowed, timeoutCycles, windowCycles, burst>>,
           locked' \in BOOLEAN, frequency' \in Frequencies,
           run' \in {"raw", "gdb", "reset"}, savedRun' \in {"raw", "gdb"},
           pendingCause' \subseteq WT!Causes, pendingCause \subseteq pendingCause',
           rstfr' \subseteq WT!Causes \cup {"PORF"}, cpu' \in {"running", "stopped", "crashed"}
    PROVE  WdtInv'
<1>1. WdtTypes /\ Lengths /\ Timing /\ expiry # 0
  BY DEF WdtInv, WT!Executes
<1>2. Timing' /\ expiry' \in Nat \cup {WT!Off} /\ age' \in 0 .. Late
  BY <1>1, TicksKeep
<1>3. Lengths'
  BY <1>1 DEF Lengths
<1>4. WdtTypes'
  BY <1>1, <1>2 DEF WdtTypes
<1>5. QED  BY <1>2, <1>3, <1>4 DEF WdtInv

LEMMA PassedOne ==
    ASSUME NEW t \in Nat, t # 0
    PROVE  WT!Pass(t) \in Nat /\ WT!Pass(t) + 1 = t
BY DEF WT!Pass

\* Arming (wdt_arm) starts the time-out and the closed window together.
LEMMA ArmKeeps ==
    ASSUME WT!WellFormed, timeoutCycles' \in Nat, timeoutCycles' # 0, WT!Arm
    PROVE  Timing' /\ expiry' \in Nat /\ age' \in 0 .. Late
<1>1. expiry' = WT!Pass(timeoutCycles') /\ age' = 1 /\ Late \in Nat \ {0}
  BY DEF WT!Arm, WT!WellFormed
<1>2. expiry' \in Nat /\ expiry' + 1 = timeoutCycles'
  BY <1>1, PassedOne
<1>3. expiry' + age' = timeoutCycles' /\ age' \in 0 .. Late
  BY <1>1, <1>2
<1>4. QED  BY <1>2, <1>3 DEF Timing

\* A write of CTRLA computes the lengths at the present clock.
LEMMA WriteCtrlaKeeps ==
    ASSUME WT!WellFormed, WdtInv, NEW v \in WT!Fields, NEW w \in WT!Fields, WT!WriteCtrla(v, w),
           UNCHANGED burst
    PROVE  WdtInv'
<1>1. /\ period' = v /\ windowed' = w /\ locked' = locked /\ frequency' = frequency
      /\ timeoutCycles' = Clocks[v] * frequency /\ windowCycles' = Clocks[w] * frequency
      /\ UNCHANGED WT!resetVars /\ expiry # 0
  BY DEF WT!WriteCtrla, WT!KeepsReset, WT!FieldCycles, WT!Executes
<1>2. /\ frequency \in Frequencies /\ frequency \in Nat /\ Clocks[v] \in Nat /\ Clocks[w] \in Nat
      /\ Clocks[v] * frequency <= Late /\ Late \in Nat \ {0}
  BY DEF WT!WellFormed, WdtInv, WdtTypes
<1>3. Clocks[v] * frequency \in Nat /\ Clocks[w] * frequency \in Nat
  BY <1>2
<1>4. timeoutCycles' \in 0 .. Late /\ windowCycles' \in Nat
  BY <1>1, <1>2, <1>3
<1>5. Lengths'
  BY <1>1, <1>2, <1>4 DEF Lengths
<1>6. Timing' /\ expiry' \in Nat \cup {WT!Off} /\ age' \in 0 .. Late
  <2>1. CASE timeoutCycles' = 0
    <3>1. expiry' = WT!Off /\ age' = WT!Older(age)
      BY <2>1 DEF WT!WriteCtrla
    <3>2. age \in 0 .. Late
      BY DEF WdtInv, WdtTypes
    <3>3. age' \in 0 .. Late
      BY <3>1, <3>2, <1>2 DEF WT!Older
    <3>4. QED  BY <3>1, <3>3, <2>1 DEF Timing
  <2>2. CASE timeoutCycles' # 0
    <3>1. WT!Arm
      BY <2>2 DEF WT!WriteCtrla
    <3>2. timeoutCycles' \in Nat
      BY <1>4, <1>2
    <3>3. QED  BY <2>2, <3>1, <3>2, ArmKeeps
  <2>3. QED  BY <2>1, <2>2
<1>7. WdtArmed' /\ WdtTypes'
  BY <1>1, <1>6 DEF WdtInv, WdtArmed, WdtTypes, WT!resetVars
<1>8. QED  BY <1>5, <1>6, <1>7 DEF WdtInv

LEMMA WdtWdrKeeps ==
    ASSUME WT!WellFormed, WdtInv, WT!Wdr, UNCHANGED burst
    PROVE  WdtInv'
<1>1. WT!Executes /\ WT!KeepsWdt /\ timeoutCycles # 0
  BY DEF WT!Wdr
<1>2. UNCHANGED <<period, windowed, locked, frequency, timeoutCycles, windowCycles>>
  BY <1>1 DEF WT!KeepsWdt
<1>3. WdtTypes /\ WdtArmed /\ Lengths
  BY DEF WdtInv
<1>4. locked' \in BOOLEAN /\ frequency' \in Frequencies /\ Late \in Nat
  BY <1>2, <1>3 DEF WdtTypes, WT!WellFormed
<1>5. CASE WT!RequestReset("WDRF") /\ WT!Ticks
  <2>1. "WDRF" \in WT!Causes
    BY DEF WT!Causes
  <2>2. /\ WdtArmed' /\ run' \in {"raw", "gdb", "reset"} /\ savedRun' \in {"raw", "gdb"}
        /\ pendingCause' \subseteq WT!Causes /\ rstfr' = rstfr /\ cpu' = cpu
        /\ pendingCause \subseteq pendingCause'
    BY <1>3, <1>5, <2>1, RequestKeeps
  <2>3. rstfr' \subseteq WT!Causes \cup {"PORF"} /\ cpu' \in {"running", "stopped", "crashed"}
    BY <2>2, <1>3 DEF WdtTypes
  <2>4. QED  BY <1>1, <1>2, <1>4, <1>5, <2>2, <2>3, PlainKeeps
<1>6. CASE WT!Arm /\ WT!KeepsReset
  <2>1. timeoutCycles' \in Nat /\ timeoutCycles' # 0
    BY <1>1, <1>2, <1>3, <1>4 DEF Lengths
  <2>2. Timing' /\ expiry' \in Nat /\ age' \in 0 .. Late
    BY <2>1, <1>6, ArmKeeps
  <2>3. WdtArmed' /\ WdtTypes' /\ Lengths'
    BY <1>2, <1>3, <1>6, <2>2 DEF WdtArmed, WdtTypes, Lengths, WT!KeepsReset, WT!resetVars
  <2>4. QED  BY <2>2, <2>3 DEF WdtInv
<1>7. QED  BY <1>5, <1>6 DEF WT!Wdr

LEMMA InstructionKeeps ==
    ASSUME WT!WellFormed, WdtInv, WT!Instruction
    PROVE  WdtInv'
<1>1. UNCHANGED burst /\ WdtArmed /\ WdtTypes
  BY DEF WT!Instruction, WdtInv
<1>2. ASSUME UNCHANGED WT!resetVars
      PROVE  /\ WdtArmed' /\ run' \in {"raw", "gdb", "reset"} /\ savedRun' \in {"raw", "gdb"}
             /\ pendingCause' \subseteq WT!Causes /\ pendingCause \subseteq pendingCause'
             /\ rstfr' \subseteq WT!Causes \cup {"PORF"} /\ cpu' \in {"running", "stopped",
                  "crashed"}
  BY <1>1, <1>2 DEF WdtArmed, WdtTypes, WT!resetVars
<1>3. locked \in BOOLEAN /\ frequency \in Frequencies
  BY <1>1 DEF WdtTypes
<1>4. CASE WT!WriteSignature \/ WT!Plain
  <2>1. WT!Executes /\ WT!Ticks /\ WT!KeepsWdt /\ WT!KeepsReset
    BY <1>4 DEF WT!WriteSignature, WT!Plain
  <2>2. /\ UNCHANGED <<period, windowed, timeoutCycles, windowCycles, burst>>
        /\ locked' \in BOOLEAN /\ frequency' \in Frequencies
    BY <2>1, <1>1, <1>3 DEF WT!KeepsWdt
  <2>3. UNCHANGED WT!resetVars
    BY <2>1 DEF WT!KeepsReset
  <2>4. QED  BY <2>1, <2>2, <2>3, <1>2, PlainKeeps
<1>5. CASE WT!Lock
  <2>1. /\ WT!Executes /\ WT!Ticks /\ WT!KeepsReset
        /\ UNCHANGED <<period, windowed, timeoutCycles, windowCycles, burst>>
        /\ locked' \in BOOLEAN /\ frequency' \in Frequencies
    BY <1>5, <1>1, <1>3 DEF WT!Lock
  <2>2. UNCHANGED WT!resetVars
    BY <2>1 DEF WT!KeepsReset
  <2>3. QED  BY <2>1, <2>2, <1>2, PlainKeeps
<1>6. ASSUME NEW f \in Frequencies, WT!ChangeClock(f)
      PROVE  WdtInv'
  <2>1. /\ WT!Executes /\ WT!Ticks /\ WT!KeepsReset
        /\ UNCHANGED <<period, windowed, timeoutCycles, windowCycles, burst>>
        /\ locked' \in BOOLEAN /\ frequency' \in Frequencies
    BY <1>6, <1>1, <1>3 DEF WT!ChangeClock
  <2>2. UNCHANGED WT!resetVars
    BY <2>1 DEF WT!KeepsReset
  <2>3. QED  BY <2>1, <2>2, <1>2, PlainKeeps
<1>7. CASE WT!SoftwareReset
  <2>1. WT!Executes /\ WT!Ticks /\ WT!KeepsWdt /\ WT!RequestReset("SWRF") /\ "SWRF" \in WT!Causes
    BY <1>7 DEF WT!SoftwareReset, WT!Causes
  <2>2. /\ UNCHANGED <<period, windowed, timeoutCycles, windowCycles, burst>>
        /\ locked' \in BOOLEAN /\ frequency' \in Frequencies
    BY <2>1, <1>1, <1>3 DEF WT!KeepsWdt
  <2>3. /\ WdtArmed' /\ run' \in {"raw", "gdb", "reset"} /\ savedRun' \in {"raw", "gdb"}
        /\ pendingCause' \subseteq WT!Causes /\ rstfr' = rstfr /\ cpu' = cpu
        /\ pendingCause \subseteq pendingCause'
    BY <2>1, <1>1, RequestKeeps
  <2>4. rstfr' \subseteq WT!Causes \cup {"PORF"} /\ cpu' \in {"running", "stopped", "crashed"}
    BY <2>3, <1>1 DEF WdtTypes
  <2>5. QED  BY <2>1, <2>2, <2>3, <2>4, PlainKeeps
<1>8. ASSUME NEW f, WT!ClearFlags(f)
      PROVE  WdtInv'
  <2>1. /\ WT!Executes /\ WT!Ticks /\ WT!KeepsWdt /\ rstfr' = rstfr \ f
        /\ UNCHANGED <<run, savedRun, resetPending, pendingCause, cpu, gdb, usurped>>
    BY <1>8 DEF WT!ClearFlags
  <2>2. /\ UNCHANGED <<period, windowed, timeoutCycles, windowCycles, burst>>
        /\ locked' \in BOOLEAN /\ frequency' \in Frequencies
    BY <2>1, <1>1, <1>3 DEF WT!KeepsWdt
  <2>3. /\ WdtArmed' /\ run' \in {"raw", "gdb", "reset"} /\ savedRun' \in {"raw", "gdb"}
        /\ pendingCause' \subseteq WT!Causes /\ pendingCause \subseteq pendingCause'
        /\ rstfr' \subseteq WT!Causes \cup {"PORF"} /\ cpu' \in {"running", "stopped", "crashed"}
    BY <2>1, <1>1 DEF WdtArmed, WdtTypes
  <2>4. QED  BY <2>1, <2>2, <2>3, PlainKeeps
<1>9. CASE WT!Crash
  <2>1. /\ WT!Executes /\ WT!Ticks /\ WT!KeepsWdt
        /\ UNCHANGED <<savedRun, resetPending, pendingCause, rstfr>>
    BY <1>9 DEF WT!Crash
  <2>2. /\ UNCHANGED <<period, windowed, timeoutCycles, windowCycles, burst>>
        /\ locked' \in BOOLEAN /\ frequency' \in Frequencies
    BY <2>1, <1>1, <1>3 DEF WT!KeepsWdt
  <2>3. WdtArmed' /\ run' \in {"raw", "gdb", "reset"} /\ cpu' \in {"running", "stopped", "crashed"}
    <3>1. CASE part.port /\ ~gdb
      BY <2>1, <3>1, <1>1, <1>9 DEF WdtArmed, WdtTypes, WT!Crash
    <3>2. CASE part.port /\ gdb
      BY <2>1, <3>2, <1>1, <1>9 DEF WdtArmed, WdtTypes, WT!Crash
    <3>3. CASE ~part.port
      BY <2>1, <3>3, <1>1, <1>9 DEF WdtArmed, WdtTypes, WT!Crash
    <3>4. QED  BY <3>1, <3>2, <3>3
  <2>4. /\ savedRun' \in {"raw", "gdb"}
        /\ pendingCause' \subseteq WT!Causes /\ pendingCause \subseteq pendingCause'
        /\ rstfr' \subseteq WT!Causes \cup {"PORF"}
    BY <2>1, <1>1 DEF WdtTypes
  <2>5. QED  BY <2>1, <2>2, <2>3, <2>4, PlainKeeps
<1>10. ASSUME NEW v \in WT!Fields, NEW w \in WT!Fields, WT!WriteCtrla(v, w)
       PROVE  WdtInv'
  BY <1>10, <1>1, WriteCtrlaKeeps
<1>11. CASE WT!Wdr
  BY <1>11, <1>1, WdtWdrKeeps
<1>12. QED
  BY <1>4, <1>5, <1>6, <1>7, <1>8, <1>9, <1>10, <1>11 DEF WT!Instruction

\* The end of a burst, where the time-out bites.
LEMMA EndKeeps ==
    ASSUME WT!WellFormed, WdtInv, WT!End
    PROVE  WdtInv'
<1>1. /\ burst' = FALSE /\ age' = age
      /\ UNCHANGED <<period, windowed, locked, frequency, timeoutCycles, windowCycles>>
  BY DEF WT!End, WT!KeepsWdt
<1>2. WdtArmed /\ WdtTypes /\ Lengths /\ Timing
  BY DEF WdtInv
<1>3. Lengths'
  BY <1>1, <1>2 DEF Lengths
<1>4. CASE expiry = 0
  <2>1. WT!RequestReset("WDRF") /\ expiry' = WT!Off /\ "WDRF" \in WT!Causes
    BY <1>4 DEF WT!End, WT!Causes
  <2>2. /\ WdtArmed' /\ run' \in {"raw", "gdb", "reset"} /\ savedRun' \in {"raw", "gdb"}
        /\ pendingCause' \subseteq WT!Causes /\ rstfr' = rstfr /\ cpu' = cpu
        /\ "WDRF" \in pendingCause'
    BY <2>1, <1>2, RequestKeeps
  <2>3. WdtTypes' /\ Timing'
    BY <2>1, <2>2, <1>1, <1>2 DEF WdtTypes, Timing
  <2>4. QED  BY <2>2, <2>3, <1>3 DEF WdtInv
<1>5. CASE expiry # 0
  <2>1. UNCHANGED WT!resetVars /\ expiry' = expiry
    BY <1>5 DEF WT!End, WT!KeepsReset
  <2>2. WdtArmed' /\ WdtTypes' /\ Timing'
    BY <2>1, <1>1, <1>2 DEF WdtArmed, WdtTypes, Timing, WT!resetVars
  <2>3. QED  BY <2>2, <1>3 DEF WdtInv
<1>6. QED  BY <1>4, <1>5

LEMMA ResetKeeps ==
    ASSUME WT!WellFormed, WdtInv, WT!AvrReset
    PROVE  WdtInv'
<1>1. /\ resetPending' = FALSE /\ pendingCause' = {} /\ usurped' = FALSE /\ savedRun' = savedRun
      /\ run' = (IF resetPending THEN savedRun ELSE run) /\ gdb' = gdb
      /\ period' = 0 /\ windowed' = 0 /\ locked' = FALSE /\ frequency' = StartFrequency
      /\ timeoutCycles' = 0 /\ windowCycles' = 0 /\ expiry' = WT!Off /\ age' = 0
      /\ rstfr' = pendingCause /\ cpu' = "running" /\ burst' = burst
  BY DEF WT!AvrReset
<1>2. WdtArmed /\ WdtTypes
  BY DEF WdtInv
<1>3. run' \in {"raw", "gdb"}
  BY <1>1, <1>2 DEF WdtArmed, WdtTypes
<1>4. WdtArmed'
  BY <1>1, <1>2, <1>3 DEF WdtArmed
<1>5. /\ 0 \in WT!Fields /\ StartFrequency \in Frequencies /\ Late \in Nat
      /\ StartFrequency \in Nat /\ Clocks[0] = 0
  BY DEF WT!WellFormed
<1>6. WdtTypes'
  <2>1. age' \in 0 .. Late /\ expiry' \in Nat \cup {WT!Off}
    BY <1>1, <1>5
  <2>2. /\ rstfr' \subseteq WT!Causes \cup {"PORF"} /\ pendingCause' \subseteq WT!Causes
        /\ savedRun' \in {"raw", "gdb"} /\ burst' \in BOOLEAN /\ locked' \in BOOLEAN
    BY <1>1, <1>2 DEF WdtTypes
  <2>3. period' \in WT!Fields /\ windowed' \in WT!Fields /\ frequency' \in Frequencies
    BY <1>1, <1>5
  <2>4. QED  BY <2>1, <2>2, <2>3, <1>1, <1>3 DEF WdtTypes
<1>7. Lengths'
  <2>1. 0 * StartFrequency = 0
    BY <1>5
  <2>2. timeoutCycles' = Clocks[period'] * StartFrequency
    BY <1>1, <1>5, <2>1
  <2>3. QED  BY <1>1, <1>5, <2>2 DEF Lengths
<1>8. Timing'
  BY <1>1 DEF Timing
<1>9. QED  BY <1>4, <1>6, <1>7, <1>8 DEF WdtInv

LEMMA WdtInitHolds ==
    ASSUME WT!WellFormed, WT!Init
    PROVE  WdtInv
<1>1. /\ 0 \in WT!Fields /\ StartFrequency \in Frequencies /\ Late \in Nat
      /\ StartFrequency \in Nat /\ Clocks[0] = 0
  BY DEF WT!WellFormed
<1>2. WdtArmed /\ Timing
  BY DEF WT!Init, WdtArmed, Timing
<1>3. WdtTypes
  <2>1. age \in 0 .. Late /\ expiry \in Nat \cup {WT!Off}
    BY <1>1 DEF WT!Init
  <2>2. /\ rstfr \subseteq WT!Causes \cup {"PORF"} /\ pendingCause \subseteq WT!Causes
        /\ run \in {"raw", "gdb", "reset"} /\ savedRun \in {"raw", "gdb"}
        /\ burst \in BOOLEAN /\ cpu \in {"running", "stopped", "crashed"}
        /\ locked \in BOOLEAN
    BY DEF WT!Init
  <2>3. period \in WT!Fields /\ windowed \in WT!Fields /\ frequency \in Frequencies
    BY <1>1 DEF WT!Init
  <2>4. QED  BY <2>1, <2>2, <2>3 DEF WdtTypes
<1>4. Lengths
  <2>1. 0 * StartFrequency = 0
    BY <1>1
  <2>2. timeoutCycles = Clocks[period] * StartFrequency
    BY <1>1, <2>1 DEF WT!Init
  <2>3. QED  BY <1>1, <2>2 DEF Lengths, WT!Init
<1>5. QED  BY <1>2, <1>3, <1>4 DEF WdtInv

LEMMA WdtKeeps ==
    ASSUME WT!WellFormed, WdtInv, WT!Next
    PROVE  WdtInv'
<1>1. WdtArmed /\ WdtTypes /\ Lengths /\ Timing
  BY DEF WdtInv
<1>2. CASE WT!Instruction
  BY <1>2, InstructionKeeps
<1>3. CASE WT!Begin \/ WT!Continue
  <2>1. /\ UNCHANGED <<WT!wdtVars, run, savedRun, resetPending, pendingCause, rstfr, gdb, usurped>>
        /\ cpu' \in {"running", cpu} /\ burst' \in {TRUE, burst}
    BY <1>3 DEF WT!Begin, WT!Continue, WT!resetVars
  <2>2. WdtArmed' /\ WdtTypes' /\ Lengths' /\ Timing'
    BY <2>1, <1>1 DEF WdtArmed, WdtTypes, Lengths, Timing, WT!wdtVars
  <2>3. QED  BY <2>2 DEF WdtInv
<1>4. CASE WT!End
  BY <1>4, EndKeeps
<1>5. CASE WT!RunReset \/ WT!HostReset
  BY <1>5, ResetKeeps DEF WT!RunReset, WT!HostReset
<1>6. CASE WT!RequestOutside
  <2>1. PICK cause \in Outside : WT!RequestReset(cause)
    BY <1>6 DEF WT!RequestOutside
  <2>2. cause \in WT!Causes /\ UNCHANGED <<WT!wdtVars, burst>>
    BY <1>6 DEF WT!RequestOutside, WT!Causes
  <2>3. /\ WdtArmed' /\ run' \in {"raw", "gdb", "reset"} /\ savedRun' \in {"raw", "gdb"}
        /\ pendingCause' \subseteq WT!Causes /\ rstfr' = rstfr /\ cpu' = cpu
        /\ pendingCause \subseteq pendingCause'
    BY <2>1, <2>2, <1>1, RequestKeeps
  <2>4. WdtTypes' /\ Lengths' /\ Timing'
    BY <2>2, <2>3, <1>1 DEF WdtTypes, Lengths, Timing, WT!wdtVars
  <2>5. QED  BY <2>3, <2>4 DEF WdtInv
<1>7. QED  BY <1>2, <1>3, <1>4, <1>5, <1>6 DEF WT!Next

LEMMA WdtCounts ==
    ASSUME Counted, WT!Next
    PROVE  Counted'
<1>1. ASSUME UNCHANGED <<ccp, signed>>
      PROVE  Counted'
  BY <1>1 DEF Counted
<1>2. CASE WT!Instruction
  <2>1. WT!WriteCcp \/ WT!OtherInstruction
    BY <1>2 DEF WT!Instruction, WT!WriteSignature, WT!Plain, WT!Lock, WT!Wdr, WT!SoftwareReset,
       WT!Crash,
                WT!WriteCtrla, WT!ChangeClock, WT!ClearFlags
  <2>2. CASE WT!WriteCcp
    BY <2>2, CcpAssumption DEF Counted, WT!WriteCcp, WT!OpenedCcp, WT!AfterInstruction
  <2>3. CASE WT!OtherInstruction
    BY <2>3, CcpAssumption DEF Counted, WT!OtherInstruction, WT!AfterInstruction
  <2>4. QED  BY <2>1, <2>2, <2>3
<1>3. CASE WT!Begin \/ WT!End \/ WT!RequestOutside \/ WT!Continue
  BY <1>3, <1>1 DEF WT!Begin, WT!End, WT!RequestOutside, WT!Continue
<1>4. CASE WT!RunReset \/ WT!HostReset
  BY <1>4, <1>1 DEF WT!RunReset, WT!HostReset, WT!AvrReset
<1>5. QED  BY <1>2, <1>3, <1>4 DEF WT!Next

\* CTRLA changes behind the signature and the lock only.
LEMMA WdtInSequence ==
    ASSUME Counted, WT!Next
    PROVE  WT!ChangesInSequence
<1>1. ASSUME UNCHANGED <<period, windowed>>
      PROVE  WT!ChangesInSequence
  BY <1>1 DEF WT!ChangesInSequence
<1>2. CASE WT!Instruction
  <2>1. ASSUME NEW v, NEW w, WT!WriteCtrla(v, w)
        PROVE  WT!ChangesInSequence
    <3>1. ccp > 0 /\ ~locked
      BY <2>1 DEF WT!WriteCtrla, WT!Writable, WT!Unlocked
    <3>2. signed < CcpWindow
      BY <3>1, CcpAssumption DEF Counted
    <3>3. QED  BY <3>1, <3>2 DEF WT!ChangesInSequence
  <2>2. CASE WT!WriteSignature \/ WT!Plain \/ WT!Wdr \/ WT!SoftwareReset \/ WT!Crash
    BY <2>2, <1>1 DEF WT!WriteSignature, WT!Plain, WT!Wdr, WT!SoftwareReset, WT!Crash, WT!KeepsWdt
  <2>3. CASE WT!Lock \/ (\E f \in Frequencies : WT!ChangeClock(f))
                     \/ (\E f \in SUBSET (WT!Causes \cup {"PORF"}) : WT!ClearFlags(f))
    BY <2>3, <1>1 DEF WT!Lock, WT!ChangeClock, WT!ClearFlags, WT!KeepsWdt
  <2>4. QED  BY <1>2, <2>1, <2>2, <2>3 DEF WT!Instruction
<1>3. CASE WT!Begin \/ WT!End \/ WT!RequestOutside \/ WT!Continue
  BY <1>3, <1>1 DEF WT!Begin, WT!End, WT!RequestOutside, WT!Continue, WT!wdtVars, WT!KeepsWdt
<1>4. CASE WT!RunReset \/ WT!HostReset
  BY <1>4 DEF WT!ChangesInSequence
<1>5. QED  BY <1>2, <1>3, <1>4 DEF WT!Next

\* A step of another peripheral leaves the watchdog alone.
LEMMA WdtStands ==
    ASSUME WdtInv, UNCHANGED <<part, period, windowed, locked, frequency, timeoutCycles,
           windowCycles,
                               expiry, age, run, savedRun, resetPending, pendingCause, rstfr,
                               cpu, gdb, burst, usurped>>
    PROVE  WdtInv'
BY DEF WdtInv, WdtArmed, WdtTypes, Lengths, Timing

\* What the properties ask of the modern watchdog.
LEMMA WdtShows ==
    ASSUME WT!WellFormed, WdtInv, Counted
    PROVE  WT!TypeOK /\ WT!TimerFollowsRegisters /\ WT!ResetIsArmed
<1>1. WdtArmed /\ WdtTypes /\ Lengths /\ Timing /\ Late \in Nat
  BY DEF WdtInv, WT!WellFormed
<1>2. WT!CcpTypeOK
  BY CcpAssumption DEF Counted, WT!CcpTypeOK
<1>3. timeoutCycles \in Nat /\ windowCycles \in Nat
  BY <1>1 DEF Lengths
<1>4. WT!TypeOK
  BY <1>1, <1>2, <1>3 DEF WT!TypeOK, WdtArmed, WdtTypes
<1>5. WT!TimerFollowsRegisters
  BY <1>1 DEF Lengths, Timing, WT!TimerFollowsRegisters
<1>6. WT!ResetIsArmed
  BY <1>1 DEF WdtArmed, WT!ResetIsArmed
<1>7. QED  BY <1>4, <1>5, <1>6

-----------------------------------------------------------------------------
(* The modern clock controllers *)

\* The board has set the external rate, and no prescaler divides it to nothing.
RateIsSet(q) == q.extclk # 0 /\ \A d \in DOMAIN Divisors : q.extclk >= Divisors[d]

ClkInv ==
    /\ reg \in CC!Registers /\ sosc \in BOOLEAN /\ clk \in Nat
    /\ part.extclk \in Nat /\ part.dd \in BOOLEAN
    /\ RateIsSet(part) => CC!ClockFollowsRegisters

LEMMA QuotientIsPositive ==
    ASSUME NEW n \in Nat, NEW d \in Nat, d # 0, n >= d
    PROVE  n \div d \in Nat /\ n \div d # 0
OBVIOUS

LEMMA QuotientIsNat ==
    ASSUME NEW n \in Nat, NEW d \in Nat, d # 0
    PROVE  n \div d \in Nat
OBVIOUS

\* A rate is a number, and one that is set does not depend on the frequency of
\* before; it is never so low that a prescaler divides it to nothing.
LEMMA RatesAreKnown ==
    ASSUME CC!WellFormed, part.extclk \in Nat, NEW r \in CC!Registers, NEW before \in Nat
    PROVE  /\ CC!SourceRate(r, before) \in Nat
           /\ RateIsSet(part) => /\ \A b \in Nat : CC!SourceRate(r, b) = CC!SourceRate(r, before)
                                 /\ CC!SourceRate(r, before) # 0 =>
                                        CC!SourceRate(r, before) >= Divisors[r.pdiv]
<1>1. r.clksel \in CC!Sources /\ r.frqsel \in DOMAIN OscRates /\ r.pdiv \in DOMAIN Divisors
  BY DEF CC!Registers
<1>2. OscRates[r.frqsel] \in Nat /\ SlowRate \in Nat
  BY <1>1 DEF CC!WellFormed
<1>3. CASE CC!Stopped(r)
  <2>1. r.clksel # "osc"
    BY <1>3 DEF CC!Stopped
  <2>2. \A b : CC!SourceRate(r, b) = 0
    BY <1>3, <2>1 DEF CC!SourceRate
  <2>3. QED  BY <2>2
<1>4. CASE ~CC!Stopped(r) /\ r.clksel = "osc"
  BY <1>4, <1>1, <1>2 DEF CC!SourceRate, CC!WellFormed
<1>5. CASE ~CC!Stopped(r) /\ r.clksel \in {"osc32k", "xosc32k"}
  BY <1>5, <1>1, <1>2 DEF CC!SourceRate, CC!WellFormed
<1>6. CASE ~CC!Stopped(r) /\ r.clksel = "extclk"
  BY <1>6, <1>1 DEF CC!SourceRate, RateIsSet
<1>7. QED  BY <1>1, <1>3, <1>4, <1>5, <1>6 DEF CC!Sources

\* The frequency that follows the registers.
LEMMA RecomputeFollows ==
    ASSUME CC!WellFormed, ClkInv, CC!Recompute, UNCHANGED part, reg' \in CC!Registers
    PROVE  ClkInv'
<1>1. /\ clk \in Nat /\ part.extclk \in Nat /\ part.dd \in BOOLEAN
      /\ part'.extclk \in Nat /\ part'.dd \in BOOLEAN
  BY DEF ClkInv
<1> DEFINE rate == CC!SourceRate(reg', clk)
           div == Divisors[reg'.pdiv]
<1>2. /\ rate \in Nat /\ div \in Nat \ {0}
      /\ RateIsSet(part) => /\ \A b \in Nat : CC!SourceRate(reg', b) = rate
                            /\ rate # 0 => rate >= div
  BY <1>1, RatesAreKnown DEF CC!Registers, CC!WellFormed
<1>3. clk' = (IF rate # 0 THEN rate \div div ELSE clk) /\ sosc' = (part.dd /\ rate = 0)
  BY DEF CC!Recompute, CC!Frequency
<1>4. clk' \in Nat
  BY <1>1, <1>2, <1>3, QuotientIsNat
<1>5. sosc' \in BOOLEAN
  BY <1>3
<1>6. ASSUME RateIsSet(part')
      PROVE  CC!ClockFollowsRegisters'
  <2>1. RateIsSet(part) /\ clk # 0
    BY <1>6 DEF RateIsSet, ClkInv, CC!ClockFollowsRegisters
  <2>2. CC!SourceRate(reg', clk') = rate /\ (rate # 0 => rate >= div)
    BY <2>1, <1>2, <1>4
  <2>3. clk' # 0
    BY <2>1, <2>2, <1>1, <1>2, <1>3, QuotientIsPositive
  <2>4. (rate # 0 => clk' = rate \div div /\ ~sosc') /\ (part.dd /\ rate = 0 => sosc')
    BY <1>3
  <2>5. CC!SourceRate(reg, clk)' = rate
    BY <2>2 DEF CC!SourceRate, CC!Stopped
  <2>6. QED  BY <2>3, <2>4, <2>5 DEF CC!ClockFollowsRegisters
<1>7. QED  BY <1>1, <1>4, <1>5, <1>6 DEF ClkInv

\* A register is written with one field changed.
LEMMA RegistersStay ==
    ASSUME NEW r \in CC!Registers
    PROVE  /\ \A s \in CC!Sources : [r EXCEPT !.clksel = s] \in CC!Registers
           /\ \A d \in DOMAIN Divisors : [r EXCEPT !.pdiv = d] \in CC!Registers
           /\ \A f \in DOMAIN OscRates : [r EXCEPT !.frqsel = f] \in CC!Registers
           /\ \A b \in BOOLEAN : /\ [r EXCEPT !.xosc32k = b] \in CC!Registers
                                 /\ [r EXCEPT !.xoschf = b] \in CC!Registers
           /\ [r EXCEPT !.lock = TRUE] \in CC!Registers
BY DEF CC!Registers

LEMMA ResetRegistersAreSome ==
    ASSUME CC!WellFormed
    PROVE  CC!ResetRegisters \in CC!Registers
BY DEF CC!WellFormed, CC!ResetRegisters, CC!Registers, CC!Sources

LEMMA ClkCtrlInitHolds ==
    ASSUME CC!WellFormed, CC!Init, part.extclk \in Nat, part.dd \in BOOLEAN
    PROVE  ClkInv
<1>1. /\ reg = CC!ResetRegisters /\ reg \in CC!Registers /\ sosc = FALSE
      /\ clk = CC!Frequency(reg, 1) /\ reg.clksel \in {"osc", "osc32k"}
      /\ reg.frqsel \in {0, ResetFrqsel}
      /\ reg.pdiv \in DOMAIN Divisors /\ reg.frqsel \in DOMAIN OscRates
  BY ResetRegistersAreSome DEF CC!Init, CC!ResetRegisters, CC!WellFormed
<1>2. PICK rate : rate = IF reg.clksel = "osc" THEN OscRates[reg.frqsel] ELSE SlowRate
  OBVIOUS
<1>3. \A b : CC!SourceRate(reg, b) = rate
  BY <1>1, <1>2 DEF CC!SourceRate, CC!Stopped
<1>4. rate \in Nat \ {0} /\ Divisors[reg.pdiv] \in Nat \ {0} /\ rate >= Divisors[reg.pdiv]
  BY <1>1, <1>2 DEF CC!WellFormed
<1>5. clk = rate \div Divisors[reg.pdiv]
  BY <1>1, <1>3, <1>4 DEF CC!Frequency
<1>6. clk \in Nat /\ clk # 0
  BY <1>4, <1>5, QuotientIsPositive
<1>7. CC!ClockFollowsRegisters
  BY <1>1, <1>3, <1>4, <1>5, <1>6 DEF CC!ClockFollowsRegisters
<1>8. QED  BY <1>1, <1>6, <1>7 DEF ClkInv

\* A step of another peripheral leaves the clock alone.
LEMMA ClkCtrlStands ==
    ASSUME ClkInv, UNCHANGED <<part, reg, sosc, clk>>
    PROVE  ClkInv'
BY DEF ClkInv, RateIsSet, CC!ClockFollowsRegisters, CC!SourceRate, CC!Stopped, CC!Registers

LEMMA ClkCtrlKeeps ==
    ASSUME CC!WellFormed, ClkInv, CC!Next
    PROVE  ClkInv'
<1>1. reg \in CC!Registers
  BY DEF ClkInv
<1>2. ASSUME NEW r \in CC!Registers, CC!WriteClock(r)
      PROVE  ClkInv'
  BY <1>2, RecomputeFollows DEF CC!WriteClock
<1>3. CASE CC!WriteLock
  <2>1. /\ reg' = [reg EXCEPT !.lock = TRUE] /\ sosc' = sosc /\ clk' = clk /\ part' = part
        /\ reg' \in CC!Registers
    BY <1>1, <1>3, RegistersStay DEF CC!WriteLock
  <2>2. CC!SourceRate(reg', clk') = CC!SourceRate(reg, clk) /\ reg'.pdiv = reg.pdiv
    BY <2>1, <1>1 DEF CC!SourceRate, CC!Stopped, CC!Registers
  <2>3. CC!SourceRate(reg, clk)' = CC!SourceRate(reg, clk)
    BY <2>1, <2>2 DEF CC!SourceRate, CC!Stopped
  <2>4. CC!ClockFollowsRegisters' = CC!ClockFollowsRegisters
    BY <2>1, <2>2, <2>3 DEF CC!ClockFollowsRegisters
  <2>5. RateIsSet(part') => RateIsSet(part)
    BY <2>1 DEF RateIsSet
  <2>6. QED  BY <2>1, <2>4, <2>5 DEF ClkInv
<1>4. CASE CC!Write
  BY <1>1, <1>2, <1>3, <1>4, RegistersStay DEF CC!Write
<1>5. CASE CC!Reset
  <2>1. reg' \in CC!Registers
    BY <1>5, ResetRegistersAreSome DEF CC!Reset
  <2>2. QED  BY <2>1, <1>5, RecomputeFollows DEF CC!Reset
<1>6. CASE CC!WriteSignature \/ CC!Plain
  BY <1>6, ClkCtrlStands DEF CC!WriteSignature, CC!Plain
<1>7. QED  BY <1>4, <1>5, <1>6 DEF CC!Next

LEMMA ClkCtrlCounts ==
    ASSUME Counted, CC!Next
    PROVE  Counted'
<1>1. CASE UNCHANGED <<ccp, signed>>
  BY <1>1 DEF Counted
<1>2. CASE CC!WriteCcp
  BY <1>2, CcpAssumption DEF Counted, CC!WriteCcp, CC!OpenedCcp, CC!AfterInstruction
<1>3. CASE CC!OtherInstruction
  BY <1>3, CcpAssumption DEF Counted, CC!OtherInstruction, CC!AfterInstruction
<1>4. QED
  BY <1>1, <1>2, <1>3 DEF CC!Next, CC!WriteSignature, CC!Plain, CC!Write, CC!WriteClock,
     CC!WriteLock, CC!Reset

\* A register changes behind the signature and the lock only.
LEMMA ClkCtrlInSequence ==
    ASSUME Counted, CC!Next
    PROVE  CC!ChangesInSequence
<1>1. CASE CC!Writable
  <2>1. signed < CcpWindow /\ ~reg.lock
    BY <1>1, CcpAssumption DEF CC!Writable, CC!Unlocked, Counted
  <2>2. QED  BY <2>1 DEF CC!ChangesInSequence
<1>2. CASE CC!Reset
  BY <1>2 DEF CC!ChangesInSequence
<1>3. CASE UNCHANGED reg
  BY <1>3 DEF CC!ChangesInSequence
<1>4. QED
  BY <1>1, <1>2, <1>3 DEF CC!Next, CC!WriteSignature, CC!Plain, CC!Write, CC!WriteClock,
     CC!WriteLock

\* What the properties ask of the clock controllers.
LEMMA ClkCtrlShows ==
    ASSUME CC!WellFormed, ClkInv, Counted
    PROVE  CC!TypeOK /\ (RateIsSet(part) => CC!ClockFollowsRegisters)
<1>1. CC!CcpTypeOK
  BY CcpAssumption DEF Counted, CC!CcpTypeOK
<1>2. QED  BY <1>1 DEF ClkInv, CC!TypeOK

-----------------------------------------------------------------------------
(* The classic clock prescaler *)

Divisions == {CP!Division(n) : n \in 0 .. Slowest}

ClkprTypes ==
    [ps : Prescalings, open : BOOLEAN, due : Int, fuse : {0, Fused}, div : Divisions,
     resetDiv : Divisions, base : Nat, last : Nat, freq : Nat, opened : Int, source : Nat,
     home : Nat]

\* The cycles left of the window and those since it was opened add up.
OpenedIsTimed ==
    /\ clkpr.open <=> clkpr.due # CP!Never
    /\ clkpr.open <=> clkpr.opened # CP!Never
    /\ clkpr.due # CP!Never => clkpr.due \in -1 .. ChangeCycles
       /\ clkpr.due + clkpr.opened = ChangeCycles

\* The module knows the undivided clock, unless a load it has not seen yet set
\* the frequency.
ClkprDivided(c) ==
    /\ c.source = IF c.freq = c.last THEN c.base ELSE c.freq * c.div
    /\ c.last = CP!Rounded(c.base, c.div)
    /\ c.home # 0 => c.freq = c.last /\ c.base = c.home * c.resetDiv

ClkprInv ==
    /\ clkpr \in ClkprTypes /\ OpenedIsTimed /\ ClkprDivided(clkpr)
    /\ clkpr.ps <= Slowest => clkpr.div = CP!Division(clkpr.ps)

LEMMA DivisionsArePositive ==
    ASSUME CP!WellFormed
    PROVE  /\ Divisions \subseteq Nat \ {0}
           /\ \A n \in 0 .. Slowest : CP!Division(n) \in Divisions
           /\ CP!Division(0) \in Divisions /\ CP!Division(Fused) \in Divisions
BY DEF CP!WellFormed, Divisions

\* The window and its timer change together.
LEMMA WindowStaysTyped ==
    ASSUME NEW c \in ClkprTypes, NEW o \in BOOLEAN, NEW d \in Int, NEW e \in Int
    PROVE  [c EXCEPT !.open = o, !.due = d, !.opened = e] \in ClkprTypes
BY DEF ClkprTypes

LEMMA TimerStaysTyped ==
    ASSUME NEW c \in ClkprTypes, NEW d \in Int, NEW e \in Int
    PROVE  [c EXCEPT !.due = d, !.opened = e] \in ClkprTypes
BY DEF ClkprTypes

LEMMA PrescalingStaysTyped ==
    ASSUME NEW c \in ClkprTypes, NEW n \in Prescalings
    PROVE  [c EXCEPT !.ps = n] \in ClkprTypes
BY DEF ClkprTypes

LEMMA NeverIsTyped == CP!Never \in Int
BY DEF CP!Never

\* Rounding a multiple gives it back.
LEMMA RoundedBack ==
    ASSUME NEW hz \in Nat, NEW div \in Nat, div # 0
    PROVE  CP!Rounded(hz * div, div) = hz
<1> DEFINE half == div \div 2
<1>1. half \in Nat /\ half < div
  OBVIOUS
<1>2. hz * div \in Nat
  OBVIOUS
<1>3. (hz * div + half) \div div = hz
  <2> HIDE DEF half
  <2>1. div * hz <= hz * div + half /\ hz * div + half < div * (hz + 1)
    BY <1>1, <1>2
  <2>2. QED  BY <2>1, <1>1, <1>2
<1>4. QED  BY <1>3 DEF CP!Rounded

LEMMA RoundedIsNat ==
    ASSUME NEW n \in Nat, NEW div \in Nat, div # 0
    PROVE  CP!Rounded(n, div) \in Nat
<1> DEFINE half == div \div 2
<1>1. half \in Nat
  OBVIOUS
<1>2. n + half \in Nat
  BY <1>1
<1>3. (n + half) \div div \in Nat
  <2> HIDE DEF half
  <2>1. QED  BY <1>2
<1>4. QED  BY <1>3 DEF CP!Rounded

\* clkpr_sync takes over the frequency of a load.
LEMMA SyncedIsDivided ==
    ASSUME CP!WellFormed, NEW c \in ClkprTypes, ClkprDivided(c)
    PROVE  /\ CP!Synced(c) \in ClkprTypes /\ ClkprDivided(CP!Synced(c))
           /\ CP!Synced(c).freq = c.freq /\ CP!Synced(c).last = c.freq
              /\ CP!Synced(c).base = c.source
           /\ CP!Synced(c).source = c.source /\ CP!Synced(c).home = c.home
           /\ CP!Synced(c).div = c.div /\ CP!Synced(c).resetDiv = c.resetDiv
           /\ c.home # 0 => CP!Synced(c) = c
<1>1. /\ c.freq \in Nat /\ c.div \in Nat \ {0} /\ c.div \in Divisions
  BY DivisionsArePositive DEF ClkprTypes
<1>2. CASE c.freq = c.last
  BY <1>2 DEF CP!Synced, ClkprDivided
<1>3. CASE c.freq # c.last
  <2> DEFINE base == c.freq * c.div
  <2>1. base \in Nat /\ CP!Rounded(base, c.div) = c.freq
    BY <1>1, RoundedBack
  <2> HIDE DEF base
  <2>2. CP!Synced(c) = [c EXCEPT !.base = base, !.last = c.freq]
    BY <1>3 DEF CP!Synced, base
  <2>3. c.source = base /\ c.home = 0
    BY <1>3 DEF ClkprDivided, base
  <2>4. CP!Synced(c) \in ClkprTypes
    BY <2>1, <2>2, <1>1 DEF ClkprTypes
  <2>5. /\ CP!Synced(c).freq = c.freq /\ CP!Synced(c).last = c.freq /\ CP!Synced(c).base = base
        /\ CP!Synced(c).source = base /\ CP!Synced(c).home = c.home
        /\ CP!Synced(c).div = c.div /\ CP!Synced(c).resetDiv = c.resetDiv
    BY <2>2, <2>3 DEF ClkprTypes
  <2>6. ClkprDivided(CP!Synced(c))
    BY <2>1, <2>3, <2>5 DEF ClkprDivided
  <2>7. QED  BY <2>3, <2>4, <2>5, <2>6
<1>4. QED  BY <1>2, <1>3

\* clkpr_set_div divides the undivided clock anew.
LEMMA SetDivIsDivided ==
    ASSUME CP!WellFormed, NEW c \in ClkprTypes, ClkprDivided(c), NEW div \in Divisions
    PROVE  /\ CP!SetDiv(c, div) \in ClkprTypes /\ ClkprDivided(CP!SetDiv(c, div))
           /\ CP!SetDiv(c, div).div = div /\ CP!SetDiv(c, div).resetDiv = c.resetDiv
           /\ CP!SetDiv(c, div).home = c.home
           /\ CP!SetDiv(c, div).freq = CP!Rounded(c.source, div)
           /\ CP!SetDiv(c, div).last = CP!SetDiv(c, div).freq
           /\ \A f \in {"ps", "open", "due", "opened", "fuse"} : CP!SetDiv(c, div)[f] = c[f]
<1> DEFINE s == CP!Synced(c)
           hz == CP!Rounded(c.source, div)
<1>1. /\ s \in ClkprTypes /\ ClkprDivided(s) /\ s.base = c.source /\ s.source = c.source
      /\ s.home = c.home /\ s.resetDiv = c.resetDiv
      /\ \A f \in {"ps", "open", "due", "opened", "fuse"} : s[f] = c[f]
  BY SyncedIsDivided DEF CP!Synced, ClkprTypes
<1>2. c.source \in Nat /\ div \in Nat \ {0}
  BY DivisionsArePositive DEF ClkprTypes
<1>3. hz \in Nat
  BY <1>2, RoundedIsNat
<1>4. CP!SetDiv(c, div) = [s EXCEPT !.div = div, !.freq = hz, !.last = hz]
  BY <1>1 DEF CP!SetDiv
<1>5. s.home # 0 => s.base = s.home * s.resetDiv
  BY <1>1 DEF ClkprDivided
<1> HIDE DEF s
<1>6. CP!SetDiv(c, div) \in ClkprTypes
  BY <1>1, <1>3, <1>4 DEF ClkprTypes
<1>7. /\ CP!SetDiv(c, div).div = div /\ CP!SetDiv(c, div).freq = hz /\ CP!SetDiv(c, div).last = hz
      /\ CP!SetDiv(c, div).home = s.home /\ CP!SetDiv(c, div).resetDiv = s.resetDiv
      /\ CP!SetDiv(c, div).base = s.base /\ CP!SetDiv(c, div).source = s.source
      /\ \A f \in {"ps", "open", "due", "opened", "fuse"} : CP!SetDiv(c, div)[f] = s[f]
  BY <1>1, <1>4 DEF ClkprTypes
<1>8. ClkprDivided(CP!SetDiv(c, div))
  BY <1>1, <1>5, <1>7 DEF ClkprDivided
<1>9. QED  BY <1>1, <1>6, <1>7, <1>8

LEMMA ClkprInitHolds ==
    ASSUME CP!WellFormed, CP!Init
    PROVE  ClkprInv
<1>1. PICK n \in {0, Fused}, hz \in Given : clkpr = CP!Started(n, hz)
  BY DEF CP!Init
<1>2. /\ n \in Prescalings /\ n \in 0 .. Slowest /\ hz \in Nat
      /\ CP!Division(n) \in Divisions /\ CP!Division(n) \in Nat \ {0}
  BY DivisionsArePositive DEF CP!WellFormed
<1>3. hz * CP!Division(n) \in Nat /\ CP!Rounded(hz * CP!Division(n), CP!Division(n)) = hz
  BY <1>2, RoundedBack
<1>4. clkpr \in ClkprTypes
  BY <1>1, <1>2, <1>3 DEF CP!Started, ClkprTypes, CP!Never
<1>5. OpenedIsTimed
  BY <1>1 DEF CP!Started, OpenedIsTimed
<1>6. ClkprDivided(clkpr)
  BY <1>1, <1>3 DEF CP!Started, ClkprDivided
<1>7. QED  BY <1>1, <1>4, <1>5, <1>6 DEF ClkprInv, CP!Started

\* A write of CLKPR (clkpr_write).
LEMMA ClkprWriteKeeps ==
    ASSUME CP!WellFormed, ClkprInv, NEW pce \in BOOLEAN, NEW n \in Prescalings, CP!Write(pce, n)
    PROVE  ClkprInv'
<1>1. clkpr \in ClkprTypes /\ OpenedIsTimed /\ ClkprDivided(clkpr) /\ ~CP!Due
  BY DEF ClkprInv, CP!Write
<1>2. CASE pce /\ n = 0 /\ ~clkpr.open
  <2>1. clkpr' = [clkpr EXCEPT !.open = TRUE, !.due = ChangeCycles, !.opened = 0]
    BY <1>2 DEF CP!Write, CP!Opened
  <2>2. ChangeCycles \in Nat /\ ChangeCycles \in Int /\ 0 \in Int /\ TRUE \in BOOLEAN
    BY DEF CP!WellFormed
  <2>3. clkpr' \in ClkprTypes
    BY <2>1, <2>2, <1>1, WindowStaysTyped
  <2>4. OpenedIsTimed'
    BY <2>1, <2>2, <1>1 DEF OpenedIsTimed, ClkprTypes, CP!Never
  <2>5. ClkprDivided(clkpr')
    BY <2>1, <1>1 DEF ClkprDivided, ClkprTypes
  <2>6. clkpr'.ps = clkpr.ps /\ clkpr'.div = clkpr.div
    BY <2>1, <1>1 DEF ClkprTypes
  <2>7. QED  BY <2>3, <2>4, <2>5, <2>6 DEF ClkprInv, ClkprDivided, OpenedIsTimed
<1>3. CASE ~pce /\ clkpr.open
  <2> DEFINE w == [clkpr EXCEPT !.open = FALSE, !.due = CP!Never, !.opened = CP!Never, !.ps = n]
  <2>1. clkpr' = IF n <= Slowest THEN CP!SetDiv(w, CP!Division(n)) ELSE w
    BY <1>3 DEF CP!Write, CP!Changed
  <2>2. w \in ClkprTypes
    <3>1. [clkpr EXCEPT !.open = FALSE, !.due = CP!Never, !.opened = CP!Never] \in ClkprTypes
      BY <1>1, NeverIsTyped, WindowStaysTyped
    <3>2. w = [[clkpr EXCEPT !.open = FALSE, !.due = CP!Never,
                !.opened = CP!Never] EXCEPT !.ps = n]
      BY <1>1 DEF ClkprTypes
    <3>3. QED  BY <3>1, <3>2, PrescalingStaysTyped
  <2>3. /\ w.ps = n /\ ~w.open /\ w.due = CP!Never /\ w.opened = CP!Never
        /\ \A f \in {"source", "freq", "last", "base", "div", "home", "resetDiv"} : w[f] = clkpr[f]
    BY <1>1 DEF ClkprTypes
  <2> HIDE DEF w
  <2>4. ClkprDivided(w)
    BY <2>3, <1>1 DEF ClkprDivided
  <2>5. CASE n <= Slowest
    <3>1. CP!Division(n) \in Divisions
      BY <2>5, DivisionsArePositive DEF CP!WellFormed
    <3>2. /\ clkpr' \in ClkprTypes /\ ClkprDivided(clkpr') /\ clkpr'.div = CP!Division(n)
          /\ \A f \in {"ps", "open", "due", "opened", "fuse"} : clkpr'[f] = w[f]
      BY <2>1, <2>2, <2>4, <2>5, <3>1, SetDivIsDivided
    <3>3. QED  BY <3>2, <2>3 DEF ClkprInv, ClkprDivided, OpenedIsTimed
  <2>6. CASE ~(n <= Slowest)
    BY <2>1, <2>2, <2>3, <2>4, <2>6 DEF ClkprInv, ClkprDivided, OpenedIsTimed
  <2>7. QED  BY <2>5, <2>6
<1>4. CASE UNCHANGED clkpr
  BY <1>4 DEF ClkprInv, ClkprDivided, OpenedIsTimed
<1>5. QED  BY <1>2, <1>3, <1>4 DEF CP!Write, CP!Opened

\* A load of firmware gives another frequency, or that of before.
LEMMA LoadKeeps ==
    ASSUME CP!WellFormed, ClkprInv, NEW hz \in Given, NEW n \in {0, Fused}, CP!Load(hz, n)
    PROVE  ClkprInv'
<1>1. clkpr \in ClkprTypes /\ OpenedIsTimed /\ ClkprDivided(clkpr) /\ hz \in Nat
  BY DEF ClkprInv, CP!WellFormed
<1> DEFINE source == IF hz = clkpr.last THEN clkpr.base ELSE hz * clkpr.div
           home == IF hz = clkpr.freq THEN clkpr.home ELSE 0
<1>2. clkpr.div \in Nat /\ clkpr.base \in Nat /\ clkpr.home \in Nat
  BY <1>1, DivisionsArePositive DEF ClkprTypes
<1>3. source \in Nat /\ home \in Nat
  BY <1>1, <1>2
<1>4. clkpr' = [clkpr EXCEPT !.freq = hz, !.fuse = n, !.source = source, !.home = home]
  BY <1>1 DEF CP!Load, ClkprTypes
<1>5. clkpr'.freq = hz /\ clkpr'.source = source /\ clkpr'.home = home
  BY <1>1, <1>4 DEF ClkprTypes
<1>6. \A f \in {"ps", "open", "due", "opened", "last", "base", "div",
                "resetDiv"} : clkpr'[f] = clkpr[f]
  BY <1>1, <1>4 DEF ClkprTypes
<1>7. ClkprDivided(clkpr')
  BY <1>1, <1>5, <1>6 DEF ClkprDivided
<1> HIDE DEF source, home
<1>8. clkpr' \in ClkprTypes
  BY <1>1, <1>3, <1>4 DEF ClkprTypes
<1>9. QED  BY <1>1, <1>6, <1>7, <1>8 DEF ClkprInv, OpenedIsTimed, ClkprDivided

\* A reset goes back to the start-up clock (clkpr_reset).
LEMMA ClkprResetKeeps ==
    ASSUME CP!WellFormed, ClkprInv, CP!Reset
    PROVE  ClkprInv'
<1> DEFINE c == IF clkpr.div = clkpr.resetDiv THEN clkpr ELSE CP!SetDiv(clkpr, clkpr.resetDiv)
           s == CP!Synced(c)
           div == CP!Division(clkpr.fuse)
           base == s.freq * div
           home == IF s.home = 0 THEN s.freq ELSE s.home
<1>1. clkpr \in ClkprTypes /\ ClkprDivided(clkpr) /\ clkpr.resetDiv \in Divisions
      /\ clkpr.fuse \in {0, Fused}
  BY DEF ClkprInv, ClkprTypes
<1>2. /\ c \in ClkprTypes /\ ClkprDivided(c) /\ c.home = clkpr.home /\ c.resetDiv = clkpr.resetDiv
      /\ c.div = clkpr.resetDiv
  BY <1>1, SetDivIsDivided
<1>3. /\ s \in ClkprTypes /\ ClkprDivided(s) /\ s.freq = c.freq /\ s.last = c.freq
      /\ s.home = c.home /\ s.div = c.div /\ s.resetDiv = c.resetDiv
  BY <1>2, SyncedIsDivided
<1>4. /\ div \in Divisions /\ div \in Nat \ {0} /\ clkpr.fuse \in 0 .. Slowest
      /\ clkpr.fuse \in Prescalings
  BY <1>1, DivisionsArePositive DEF CP!WellFormed
<1>5. s.freq \in Nat /\ s.home \in Nat /\ s.div \in Nat \ {0}
  BY <1>3, DivisionsArePositive DEF ClkprTypes
<1>6. base \in Nat /\ home \in Nat /\ CP!Rounded(base, div) = s.freq
  BY <1>4, <1>5, RoundedBack
<1>7. clkpr' = [s EXCEPT !.ps = clkpr.fuse, !.open = FALSE, !.due = CP!Never, !.opened = CP!Never,
                         !.div = div, !.resetDiv = div, !.base = base, !.source = base,
                         !.home = home]
  BY <1>3 DEF CP!Reset, ClkprTypes
<1>8. s.home # 0 => s.freq = s.home
  <2>1. SUFFICES ASSUME s.home # 0
                 PROVE  s.freq = s.home
    OBVIOUS
  <2>2. s.freq = CP!Rounded(s.home * s.div, s.div)
    BY <2>1, <1>2, <1>3 DEF ClkprDivided
  <2>3. QED  BY <2>2, <1>5, RoundedBack
<1> HIDE DEF c, s, div, base, home
<1>9. clkpr' \in ClkprTypes
  <2> DEFINE w == [s EXCEPT !.open = FALSE, !.due = CP!Never, !.opened = CP!Never]
  <2>1. w \in ClkprTypes
    BY <1>3, NeverIsTyped, WindowStaysTyped
  <2>2. clkpr' = [w EXCEPT !.ps = clkpr.fuse, !.div = div, !.resetDiv = div, !.base = base,
                           !.source = base, !.home = home]
    BY <1>3, <1>7 DEF ClkprTypes
  <2> HIDE DEF w
  <2>3. QED  BY <2>1, <2>2, <1>4, <1>6 DEF ClkprTypes
<1>10. /\ clkpr'.ps = clkpr.fuse /\ clkpr'.open = FALSE /\ clkpr'.due = CP!Never
          /\ clkpr'.opened = CP!Never
       /\ clkpr'.div = div /\ clkpr'.resetDiv = div /\ clkpr'.base = base /\ clkpr'.source = base
       /\ clkpr'.home = home /\ clkpr'.freq = s.freq /\ clkpr'.last = s.last
  BY <1>3, <1>7 DEF ClkprTypes
<1>11. home = s.freq
  BY <1>8 DEF home
<1>12. ClkprDivided(clkpr')
  BY <1>3, <1>6, <1>10, <1>11 DEF ClkprDivided, base
<1>13. OpenedIsTimed'
  BY <1>10 DEF OpenedIsTimed
<1>14. QED  BY <1>4, <1>9, <1>10, <1>12, <1>13 DEF ClkprInv, div, ClkprDivided

LEMMA ClkprKeeps ==
    ASSUME CP!WellFormed, ClkprInv, CP!Next
    PROVE  ClkprInv'
<1>1. clkpr \in ClkprTypes /\ OpenedIsTimed /\ ClkprDivided(clkpr)
  BY DEF ClkprInv
<1>2. CASE \E pce \in BOOLEAN, n \in Prescalings : CP!Write(pce, n)
  BY <1>2, ClkprWriteKeeps
<1>3. CASE \E hz \in Given, n \in {0, Fused} : CP!Load(hz, n)
  BY <1>3, LoadKeeps
<1>4. CASE CP!Reset
  BY <1>4, ClkprResetKeeps
<1>5. CASE CP!Expire \/ CP!Pass
  <2>1. \A f \in {"ps", "freq", "last", "base", "div", "resetDiv", "source", "home"} :
            clkpr'[f] = clkpr[f]
    BY <1>1, <1>5 DEF CP!Expire, CP!Pass, ClkprTypes
  <2>2. clkpr' \in ClkprTypes
    <3>1. CASE CP!Expire
      BY <3>1, <1>1, NeverIsTyped, WindowStaysTyped DEF CP!Expire
    <3>2. CASE CP!Pass
      <4>1. clkpr.due \in Int /\ clkpr.opened \in Int
        BY <1>1 DEF ClkprTypes
      <4>2. clkpr.due - 1 \in Int /\ clkpr.opened + 1 \in Int
        BY <4>1
      <4>3. QED  BY <4>2, <3>2, <1>1, TimerStaysTyped DEF CP!Pass
    <3>3. QED  BY <3>1, <3>2, <1>1, <1>5
  <2>3. OpenedIsTimed'
    <3>1. CASE CP!Expire
      BY <3>1, <1>1 DEF CP!Expire, OpenedIsTimed, ClkprTypes
    <3>2. CASE CP!Pass
      <4>1. /\ clkpr'.due = clkpr.due - 1 /\ clkpr'.opened = clkpr.opened + 1
               /\ clkpr'.open = clkpr.open
            /\ clkpr.due > -1 /\ clkpr.due \in Int /\ clkpr.opened \in Int /\ ChangeCycles \in Nat
        BY <3>2, <1>1 DEF CP!Pass, ClkprTypes, CP!WellFormed
      <4>2. clkpr.due # CP!Never /\ clkpr.due \in -1 .. ChangeCycles
            /\ clkpr.due + clkpr.opened = ChangeCycles
        BY <4>1, <1>1 DEF OpenedIsTimed, CP!Never
      <4>3. /\ clkpr'.due # CP!Never /\ clkpr'.due \in -1 .. ChangeCycles
               /\ clkpr'.opened # CP!Never
            /\ clkpr'.due + clkpr'.opened = ChangeCycles
        BY <4>1, <4>2 DEF CP!Never
      <4>4. QED  BY <4>1, <4>2, <4>3, <1>1 DEF OpenedIsTimed
    <3>3. QED  BY <3>1, <3>2, <1>5, <1>1 DEF OpenedIsTimed
  <2>4. ClkprDivided(clkpr')
    BY <2>1, <1>1 DEF ClkprDivided
  <2>5. QED  BY <2>1, <2>2, <2>3, <2>4 DEF ClkprInv, ClkprDivided
<1>6. QED  BY <1>2, <1>3, <1>4, <1>5 DEF CP!Next

\* The prescaler changes inside the window only.
LEMMA ClkprInSequence ==
    ASSUME CP!WellFormed, ClkprInv, CP!Next
    PROVE  CP!ChangesInSequence
<1>1. clkpr \in ClkprTypes /\ OpenedIsTimed /\ ChangeCycles \in Nat
  BY DEF ClkprInv, CP!WellFormed
<1>2. ASSUME NEW pce \in BOOLEAN, NEW n \in Prescalings, CP!Write(pce, n)
      PROVE  CP!ChangesInSequence
  <2>1. CASE clkpr.open
    <3>1. clkpr.due # CP!Never /\ clkpr.due > 0 /\ clkpr.opened # CP!Never
          /\ clkpr.due \in Int /\ clkpr.opened \in Int
      BY <1>1, <1>2, <2>1 DEF CP!Write, CP!Due, OpenedIsTimed, ClkprTypes
    <3>2. clkpr.opened < ChangeCycles
      BY <3>1, <1>1 DEF OpenedIsTimed
    <3>3. QED  BY <3>1, <3>2 DEF CP!ChangesInSequence
  <2>2. CASE ~clkpr.open
    BY <1>1, <1>2, <2>2 DEF CP!Write, CP!Opened, ClkprTypes, CP!ChangesInSequence
  <2>3. QED  BY <2>1, <2>2
<1>3. CASE CP!Expire \/ CP!Pass
  BY <1>1, <1>3 DEF CP!Expire, CP!Pass, ClkprTypes, CP!ChangesInSequence
<1>4. CASE \E hz \in Given, n \in {0, Fused} : CP!Load(hz, n)
  BY <1>1, <1>4 DEF CP!Load, ClkprTypes, CP!ChangesInSequence
<1>5. QED  BY <1>2, <1>3, <1>4 DEF CP!Next, CP!ChangesInSequence

\* A step of another peripheral leaves the prescaler alone.
LEMMA ClkprStands ==
    ASSUME ClkprInv, UNCHANGED clkpr
    PROVE  ClkprInv'
BY DEF ClkprInv, OpenedIsTimed, ClkprDivided

\* What the properties ask of the prescaler.
LEMMA ClkprShows ==
    ASSUME CP!WellFormed, ClkprInv
    PROVE  CP!TypeOK /\ CP!TimerFollowsWindow /\ CP!ClockFollowsPrescaler
<1>1. clkpr \in ClkprTypes /\ OpenedIsTimed /\ ClkprDivided(clkpr) /\ ChangeCycles \in Nat
  BY DEF ClkprInv, CP!WellFormed
<1>2. clkpr.div \in Nat \ {0} /\ clkpr.freq \in Nat /\ clkpr.home \in Nat
  BY <1>1, DivisionsArePositive DEF ClkprTypes
<1>3. CP!TypeOK
  <2>1. clkpr.due \in -1 .. ChangeCycles \cup {CP!Never}
    BY <1>1 DEF OpenedIsTimed
  <2>2. clkpr.opened \in 0 .. ChangeCycles + 1 \cup {CP!Never}
    <3>1. CASE clkpr.due = CP!Never
      BY <3>1, <1>1 DEF OpenedIsTimed
    <3>2. CASE clkpr.due # CP!Never
      <4>1. /\ clkpr.due \in Int /\ clkpr.opened \in Int /\ clkpr.due >= -1
               /\ clkpr.due <= ChangeCycles
            /\ clkpr.due + clkpr.opened = ChangeCycles
        BY <3>2, <1>1 DEF OpenedIsTimed, ClkprTypes
      <4>2. QED  BY <4>1, <1>1
    <3>3. QED  BY <3>1, <3>2
  <2>3. QED  BY <2>1, <2>2, <1>1 DEF CP!TypeOK, ClkprTypes, Divisions
<1>4. clkpr.freq = CP!Rounded(clkpr.source, clkpr.div)
  BY <1>1, <1>2, RoundedBack DEF ClkprDivided
<1>5. ASSUME clkpr.home # 0, clkpr.div = clkpr.resetDiv
      PROVE  clkpr.freq = clkpr.home
  <2>1. clkpr.freq = CP!Rounded(clkpr.home * clkpr.div, clkpr.div)
    BY <1>1, <1>5 DEF ClkprDivided
  <2>2. QED  BY <2>1, <1>2, RoundedBack
<1>6. CP!ClockFollowsPrescaler
  BY <1>4, <1>5 DEF ClkprInv, CP!ClockFollowsPrescaler
<1>7. CP!TimerFollowsWindow
  BY <1>1 DEF OpenedIsTimed, CP!TimerFollowsWindow
<1>8. QED  BY <1>3, <1>6, <1>7

-----------------------------------------------------------------------------
(* The classic EEPROM *)

\* A window that is open still has the cycles that are not over since EEMPE.
EepromWindowRuns ==
    /\ eeWindow \in Nat \cup {EE!Off} /\ eeSince \in 1 .. Far
    /\ eeWindow # EE!Off /\ eeWindow # 0 => eeSince + eeWindow <= Window
    /\ eempe => eeWindow # EE!Off

BusyIsTimed ==
    /\ done \in Nat \cup {EE!Off}
    /\ part.timed => (busy <=> done # EE!Off)

ReadyIsRequested ==
    /\ retry \in Nat \cup {EE!Off}
    /\ EE!ReadyRequested

EepromTypes ==
    /\ eempe \in BOOLEAN /\ eerie \in BOOLEAN /\ eedr \in EE!Bits /\ cell \in EE!Bits
    /\ busy \in BOOLEAN /\ mode \in 0 .. 2 /\ data \in EE!Bits
    /\ eePending \in BOOLEAN /\ eeCpu \in {"running", "idle", "deep"}

EepromInv == EepromTypes /\ EepromWindowRuns /\ BusyIsTimed /\ ReadyIsRequested

\* Cycles pass for a timer.
LEMMA PassRuns ==
    ASSUME NEW t \in Nat \cup {EE!Off}, NEW n \in Nat
    PROVE  /\ EE!Pass(t, n) \in Nat \cup {EE!Off}
           /\ EE!Pass(t, n) = EE!Off <=> t = EE!Off
BY DEF EE!Pass, EE!Off

\* And for the window and its history.
LEMMA EepromWindowPasses ==
    ASSUME EE!WellFormed, EepromWindowRuns, NEW n \in Nat \ {0}
    PROVE  /\ EE!Pass(eeWindow, n) \in Nat \cup {EE!Off} /\ EE!Older(n) \in 1 .. Far
           /\ EE!Pass(eeWindow, n) = EE!Off <=> eeWindow = EE!Off
           /\ EE!Pass(eeWindow, n) # EE!Off /\ EE!Pass(eeWindow, n) # 0
              => EE!Older(n) + EE!Pass(eeWindow, n) <= Window
<1>1. Window \in Nat /\ Far \in Nat \ {0} /\ eeSince \in 1 .. Far /\ eeWindow \in Nat \cup {EE!Off}
  BY DEF EE!WellFormed, EepromWindowRuns
<1>2. eeSince \in Nat \ {0} /\ eeSince + n \in Nat \ {0}
  BY <1>1
<1>3. EE!Older(n) \in 1 .. Far /\ EE!Older(n) <= eeSince + n
  BY <1>1, <1>2 DEF EE!Older, EE!Capped
<1>4. EE!Pass(eeWindow, n) \in Nat \cup {EE!Off} /\ (EE!Pass(eeWindow,
        n) = EE!Off <=> eeWindow = EE!Off)
  BY <1>1, PassRuns
<1>5. ASSUME EE!Pass(eeWindow, n) # EE!Off, EE!Pass(eeWindow, n) # 0
      PROVE  EE!Older(n) + EE!Pass(eeWindow, n) <= Window
  <2>1. eeWindow \in Nat /\ eeWindow > n /\ EE!Pass(eeWindow, n) = eeWindow - n
    BY <1>1, <1>5 DEF EE!Pass, EE!Off
  <2>2. eeSince + eeWindow <= Window
    BY <2>1 DEF EepromWindowRuns, EE!Off
  <2>3. QED  BY <2>1, <2>2, <1>1, <1>2, <1>3
<1>6. QED  BY <1>3, <1>4, <1>5

\* A window that opens in an instruction of n cycles.
LEMMA WindowOpens ==
    ASSUME EE!WellFormed, NEW n \in Nat \ {0}
    PROVE  /\ EE!Pass(Window, n) \in Nat /\ EE!Capped(n) \in 1 .. Far
           /\ EE!Pass(Window, n) # 0 => EE!Capped(n) + EE!Pass(Window, n) <= Window
<1>1. Window \in Nat \ {0} /\ Far \in Nat \ {0}
  BY DEF EE!WellFormed
<1>2. EE!Capped(n) \in 1 .. Far /\ EE!Capped(n) <= n
  BY <1>1 DEF EE!Capped
<1>3. EE!Pass(Window, n) \in Nat /\ (EE!Pass(Window, n) # 0 => EE!Pass(Window, n) = Window - n)
  BY <1>1 DEF EE!Pass, EE!Off
<1>4. QED  BY <1>1, <1>2, <1>3

LEMMA EepromInitHolds ==
    ASSUME EE!WellFormed, EE!Init
    PROVE  EepromInv
<1>1. EepromTypes
  <2>1. eempe \in BOOLEAN /\ eerie \in BOOLEAN /\ busy \in BOOLEAN /\ eePending \in BOOLEAN
    BY DEF EE!Init
  <2>2. eedr \in EE!Bits /\ cell \in EE!Bits /\ data \in EE!Bits /\ mode \in 0 .. 2
    BY DEF EE!Init, EE!Bits
  <2>3. eeCpu \in {"running", "idle", "deep"}
    BY DEF EE!Init
  <2>4. QED  BY <2>1, <2>2, <2>3 DEF EepromTypes
<1>2. Far \in 1 .. Far
  BY DEF EE!WellFormed
<1>3. EepromWindowRuns
  BY <1>2 DEF EE!Init, EepromWindowRuns
<1>4. BusyIsTimed /\ ReadyIsRequested
  BY DEF EE!Init, BusyIsTimed, ReadyIsRequested, EE!ReadyRequested
<1>5. QED  BY <1>1, <1>3, <1>4 DEF EepromInv

\* Steps that let a cycle pass.
LEMMA ElapsesKeeps ==
    ASSUME EE!WellFormed, EepromInv, EE!Elapses, eedr' \in EE!Bits, eeCpu' \in {"running",
             "idle", "deep"}
    PROVE  EepromInv'
<1>1. EepromTypes /\ EepromWindowRuns /\ BusyIsTimed /\ ReadyIsRequested
  BY DEF EepromInv
<1>2. /\ eeWindow' = EE!Pass(eeWindow, 1) /\ done' = EE!Pass(done, 1) /\ retry' = EE!Pass(retry, 1)
      /\ eeSince' = EE!Older(1)
      /\ UNCHANGED <<part, eempe, eerie, cell, busy, mode, data, eePending>>
  BY DEF EE!Elapses
<1>3. EepromTypes'
  BY <1>1, <1>2 DEF EepromTypes
<1>4. EepromWindowRuns'
  BY <1>1, <1>2, EepromWindowPasses DEF EepromWindowRuns
<1>5. BusyIsTimed'
  BY <1>1, <1>2, PassRuns DEF BusyIsTimed
<1>6. ReadyIsRequested'
  BY <1>1, <1>2, PassRuns DEF ReadyIsRequested, EE!ReadyRequested
<1>7. QED  BY <1>3, <1>4, <1>5, <1>6 DEF EepromInv

\* Writes of EECR.
LEMMA WriteUntimedKeeps ==
    ASSUME EE!WellFormed, EepromInv, NEW c \in EE!Commands, EE!WriteUntimed(c), EE!Executes,
           UNCHANGED part
    PROVE  EepromInv'
<1>1. EepromTypes /\ EepromWindowRuns /\ BusyIsTimed /\ ReadyIsRequested
  BY DEF EepromInv
<1>2. c.eempe \in BOOLEAN /\ c.eerie \in BOOLEAN
  BY DEF EE!Commands
<1>3. EepromTypes'
  <2>1. eempe' \in BOOLEAN /\ eerie' \in BOOLEAN
    BY <1>2 DEF EE!WriteUntimed
  <2>2. cell' \in EE!Bits /\ eedr' \in EE!Bits
    BY <1>1 DEF EE!WriteUntimed, EepromTypes
  <2>3. QED  BY <2>1, <2>2, <1>1 DEF EE!WriteUntimed, EepromTypes
<1>4. EepromWindowRuns'
  <2>1. CASE EE!Enables(c)
    <3>1. eeWindow' = Window - 1 /\ eeSince' = 1
      BY <2>1 DEF EE!WriteUntimed
    <3>2. Window \in Nat \ {0} /\ Far \in Nat /\ Window <= Far
      BY DEF EE!WellFormed
    <3>3. eeWindow' \in Nat /\ eeSince' \in 1 .. Far /\ eeSince' + eeWindow' <= Window
          /\ eeWindow' # EE!Off
      BY <3>1, <3>2 DEF EE!Off
    <3>4. QED  BY <3>3 DEF EepromWindowRuns
  <2>2. CASE ~EE!Enables(c)
    <3>1. eeWindow' = EE!Pass(eeWindow, 1) /\ eeSince' = EE!Older(1) /\ (eempe' => eempe)
      BY <2>2, <1>1 DEF EE!WriteUntimed, EE!Enables
    <3>2. QED  BY <3>1, <1>1, EepromWindowPasses DEF EepromWindowRuns
  <2>3. QED  BY <2>1, <2>2
<1>5. BusyIsTimed'
  <2>1. LongTime - 1 \in Nat /\ EE!Pass(done, 1) \in Nat \cup {EE!Off}
    BY <1>1, PassRuns DEF BusyIsTimed, EE!WellFormed
  <2>2. QED  BY <2>1 DEF EE!WriteUntimed, BusyIsTimed
<1>6. ReadyIsRequested'
  BY <1>1, PassRuns DEF ReadyIsRequested, EE!ReadyRequested, EE!WriteUntimed
<1>7. QED  BY <1>3, <1>4, <1>5, <1>6 DEF EepromInv

LEMMA WriteWhileBusyKeeps ==
    ASSUME EE!WellFormed, EepromInv, NEW c \in EE!Commands, EE!WriteWhileBusy(c), UNCHANGED part
    PROVE  EepromInv'
<1>1. EepromTypes /\ EepromWindowRuns /\ BusyIsTimed /\ ReadyIsRequested
  BY DEF EepromInv
<1>2. EepromTypes'
  BY <1>1 DEF EE!Commands, EE!WriteWhileBusy, EepromTypes
<1>3. EepromWindowRuns'
  BY <1>1, EepromWindowPasses DEF EepromWindowRuns, EE!WriteWhileBusy
<1>4. BusyIsTimed'
  BY <1>1, PassRuns DEF BusyIsTimed, EE!WriteWhileBusy
<1>5. ReadyIsRequested'
  BY <1>1, PassRuns DEF ReadyIsRequested, EE!ReadyRequested, EE!WriteWhileBusy
<1>6. QED  BY <1>2, <1>3, <1>4, <1>5 DEF EepromInv

LEMMA WriteWhileIdleKeeps ==
    ASSUME EE!WellFormed, EepromInv, NEW c \in EE!Commands, EE!WriteWhileIdle(c), EE!Executes,
           UNCHANGED part
    PROVE  EepromInv'
<1>1. EepromTypes /\ EepromWindowRuns /\ BusyIsTimed /\ ReadyIsRequested
  BY DEF EepromInv
<1>2. /\ c.eempe \in BOOLEAN /\ c.eerie \in BOOLEAN /\ c.eepe \in BOOLEAN /\ c.eere \in BOOLEAN
      /\ c.mode \in 0 .. 3
  BY DEF EE!Commands
<1>3. EE!Halted(c) \in Nat \ {0}
  BY DEF EE!Halted
<1>4. EepromTypes'
  <2>1. eempe' \in BOOLEAN /\ eerie' \in BOOLEAN /\ busy' \in BOOLEAN
    BY <1>1, <1>2 DEF EE!WriteWhileIdle, EE!Starts, EE!Programs, EepromTypes
  <2>2. eePending' \in BOOLEAN /\ eeCpu' \in {"running", "idle", "deep"}
    BY <1>1 DEF EE!WriteWhileIdle, EE!Request, EE!Accepted, EepromTypes
  <2>3. eedr' \in EE!Bits /\ cell' \in EE!Bits /\ data' \in EE!Bits
    BY <1>1 DEF EE!WriteWhileIdle, EepromTypes
  <2>4. mode' \in 0 .. 2
    BY <1>1, <1>2 DEF EE!WriteWhileIdle, EepromTypes, EE!Starts
  <2>5. QED  BY <2>1, <2>2, <2>3, <2>4 DEF EepromTypes
<1>5. EepromWindowRuns'
  <2>1. CASE EE!Programs(c)
    <3>1. eeWindow' = EE!Off /\ ~eempe' /\ eeSince' = EE!Older(EE!Halted(c))
      BY <2>1 DEF EE!WriteWhileIdle, EE!Enables, EE!Programs
    <3>2. eeSince' \in 1 .. Far
      BY <3>1, <1>1, <1>3, EepromWindowPasses
    <3>3. QED  BY <3>1, <3>2 DEF EepromWindowRuns
  <2>2. CASE ~EE!Programs(c) /\ EE!Enables(c)
    <3>1. eeWindow' = EE!Pass(Window, EE!Halted(c)) /\ eeSince' = EE!Capped(EE!Halted(c))
      BY <2>2 DEF EE!WriteWhileIdle
    <3>2. eeWindow' \in Nat /\ eeSince' \in 1 .. Far /\ (eeWindow' # 0
            => eeSince' + eeWindow' <= Window)
      BY <3>1, <1>3, WindowOpens
    <3>3. eeWindow' # EE!Off
      BY <3>2 DEF EE!Off
    <3>4. QED  BY <3>2, <3>3 DEF EepromWindowRuns
  <2>3. CASE ~EE!Programs(c) /\ ~EE!Enables(c)
    <3>1. eeWindow' = EE!Pass(eeWindow, EE!Halted(c)) /\ eeSince' = EE!Older(EE!Halted(c))
          /\ (eempe' => eempe)
      BY <2>3, <1>1 DEF EE!WriteWhileIdle, EE!Enables
    <3>2. QED  BY <3>1, <1>1, <1>3, EepromWindowPasses DEF EepromWindowRuns
  <2>4. QED  BY <2>1, <2>2, <2>3
<1>6. BusyIsTimed'
  <2>1. CASE EE!Starts(c)
    <3>1. done' = (IF c.mode = 0 THEN LongTime ELSE ShortTime) - 1 /\ busy'
      BY <2>1 DEF EE!WriteWhileIdle
    <3>2. done' \in Nat /\ done' # EE!Off
      BY <3>1 DEF EE!WellFormed, EE!Off
    <3>3. QED  BY <3>1, <3>2 DEF BusyIsTimed
  <2>2. CASE ~EE!Starts(c)
    <3>1. done' = EE!Pass(done, EE!Halted(c)) /\ ~busy' /\ ~busy
      BY <2>2 DEF EE!WriteWhileIdle
    <3>2. QED  BY <3>1, <1>1, <1>3, PassRuns DEF BusyIsTimed
  <2>3. QED  BY <2>1, <2>2
<1>7. ReadyIsRequested'
  <2>1. /\ retry' \in Nat \cup {EE!Off} /\ (retry' = EE!Off <=> retry = EE!Off)
        /\ busy' = EE!Starts(c) /\ eerie' = c.eerie /\ ~busy
    BY <1>1, <1>3, PassRuns DEF ReadyIsRequested, EE!WriteWhileIdle
  <2>2. ASSUME part.timed, eerie', ~busy'
        PROVE  eePending' \/ retry' # EE!Off
    <3>1. CASE eerie
      BY <3>1, <2>1, <2>2, <1>1 DEF ReadyIsRequested, EE!ReadyRequested, EE!WriteWhileIdle
    <3>2. CASE ~eerie
      <4>1. EE!Request(TRUE) /\ eeCpu = "running"
        BY <3>2, <2>1, <2>2 DEF EE!WriteWhileIdle, EE!Executes
      <4>2. QED  BY <4>1, <1>1 DEF EE!Request, EE!Accepted, EepromTypes
    <3>3. QED  BY <3>1, <3>2
  <2>3. QED  BY <2>1, <2>2 DEF ReadyIsRequested, EE!ReadyRequested
<1>8. QED  BY <1>4, <1>5, <1>6, <1>7 DEF EepromInv

\* The end of programming asks for the interrupt, at once or later.
LEMMA ProgrammingEndsKeeps ==
    ASSUME EE!WellFormed, EepromInv, EE!ProgrammingEnds
    PROVE  EepromInv'
<1>1. EepromTypes /\ EepromWindowRuns /\ BusyIsTimed /\ ReadyIsRequested
  BY DEF EepromInv
<1>2. /\ busy' = FALSE /\ done' = EE!Off /\ cell' = EE!Programmed
      /\ UNCHANGED <<part, eempe, eerie, eedr, mode, data, eeWindow, eeSince>>
  BY DEF EE!ProgrammingEnds
<1>3. EepromTypes'
  <2>1. cell' \in EE!Bits
    BY <1>1, <1>2 DEF EE!Programmed, EepromTypes, EE!Bits
  <2>2. eePending' \in BOOLEAN /\ eeCpu' \in {"running", "idle", "deep"}
    BY <1>1 DEF EE!ProgrammingEnds, EE!Request, EE!Accepted, EepromTypes
  <2>3. QED  BY <2>1, <2>2, <1>1, <1>2 DEF EepromTypes
<1>4. EepromWindowRuns' /\ BusyIsTimed'
  BY <1>1, <1>2 DEF EepromWindowRuns, BusyIsTimed
<1>5. ReadyIsRequested'
  <2>1. Retry \in Nat /\ Retry # EE!Off
    BY DEF EE!WellFormed, EE!Off
  <2>2. retry' \in Nat \cup {EE!Off}
    BY <2>1, <1>1 DEF EE!ProgrammingEnds, ReadyIsRequested
  <2>3. ASSUME eerie
        PROVE  eePending' \/ retry' # EE!Off
    BY <2>1, <2>3, <1>1 DEF EE!ProgrammingEnds, EE!Request, EE!Retries, EepromTypes
  <2>4. QED  BY <2>2, <2>3, <1>2 DEF ReadyIsRequested, EE!ReadyRequested
<1>6. QED  BY <1>3, <1>4, <1>5 DEF EepromInv

\* A request that was refused is made again.
LEMMA RetryReadyKeeps ==
    ASSUME EE!WellFormed, EepromInv, EE!RetryReady
    PROVE  EepromInv'
<1>1. EepromTypes /\ EepromWindowRuns /\ BusyIsTimed /\ ReadyIsRequested
  BY DEF EepromInv
<1>2. UNCHANGED <<part, eempe, eerie, eedr, cell, busy, mode, data, eeWindow, done, eeSince>>
  BY DEF EE!RetryReady
<1>3. EepromTypes'
  <2>1. eePending' \in BOOLEAN /\ eeCpu' \in {"running", "idle", "deep"}
    BY <1>1 DEF EE!RetryReady, EE!Request, EE!Accepted, EepromTypes
  <2>2. QED  BY <2>1, <1>1, <1>2 DEF EepromTypes
<1>4. EepromWindowRuns' /\ BusyIsTimed'
  BY <1>1, <1>2 DEF EepromWindowRuns, BusyIsTimed
<1>5. ReadyIsRequested'
  <2>1. Retry \in Nat /\ Retry # EE!Off
    BY DEF EE!WellFormed, EE!Off
  <2>2. retry' \in Nat \cup {EE!Off}
    BY <2>1 DEF EE!RetryReady
  <2>3. ASSUME eerie, ~busy
        PROVE  eePending' \/ retry' # EE!Off
    BY <2>1, <2>3, <1>1 DEF EE!RetryReady, EE!Request, EepromTypes
  <2>4. QED  BY <2>2, <2>3, <1>2 DEF ReadyIsRequested, EE!ReadyRequested
<1>6. QED  BY <1>3, <1>4, <1>5 DEF EepromInv

LEMMA EepromKeeps ==
    ASSUME EE!WellFormed, EepromInv, EE!Next
    PROVE  EepromInv'
<1>1. EepromTypes /\ EepromWindowRuns /\ BusyIsTimed /\ ReadyIsRequested
  BY DEF EepromInv
<1>2. ASSUME NEW c \in EE!Commands, EE!Write(c)
      PROVE  EepromInv'
  BY <1>2, WriteUntimedKeeps, WriteWhileBusyKeeps, WriteWhileIdleKeeps DEF EE!Write
<1>3. CASE EE!Plain \/ (\E d \in EE!Bits : EE!WriteData(d)) \/ EE!Slept
           \/ (\E how \in {"idle", "deep"} : EE!Sleep(how))
  <2>1. EE!Elapses /\ eedr' \in EE!Bits /\ eeCpu' \in {"running", "idle", "deep"}
    BY <1>1, <1>3 DEF EE!Plain, EE!WriteData, EE!Slept, EE!Sleep, EepromTypes
  <2>2. QED  BY <2>1, ElapsesKeeps
<1>4. CASE EE!Wake
  <2>1. /\ eeCpu' \in {"running", eeCpu}
        /\ UNCHANGED <<part, eempe, eerie, eedr, cell, busy, mode, data, eeWindow, done, retry,
                       eePending, eeSince>>
    BY <1>4 DEF EE!Wake
  <2>2. EepromTypes' /\ EepromWindowRuns' /\ BusyIsTimed'
    BY <2>1, <1>1 DEF EepromTypes, EepromWindowRuns, BusyIsTimed
  <2>3. ReadyIsRequested'
    BY <2>1, <1>1 DEF ReadyIsRequested, EE!ReadyRequested
  <2>4. QED  BY <2>2, <2>3 DEF EepromInv
<1>5. CASE EE!ServeReady
  <2>1. /\ UNCHANGED <<part, eempe, eerie, eedr, cell, busy, mode, data, eeWindow, done, retry,
                       eeCpu, eeSince>>
        /\ eePending' = (part.timed /\ eerie /\ ~busy)
    BY <1>5 DEF EE!ServeReady
  <2>2. eePending' \in BOOLEAN
    BY <2>1
  <2>3. EepromTypes' /\ EepromWindowRuns' /\ BusyIsTimed'
    BY <2>1, <2>2, <1>1 DEF EepromTypes, EepromWindowRuns, BusyIsTimed
  <2>4. ReadyIsRequested'
    BY <2>1, <1>1 DEF ReadyIsRequested, EE!ReadyRequested
  <2>5. QED  BY <2>3, <2>4 DEF EepromInv
<1>6. CASE EE!EnableEnds
  <2>1. /\ eeWindow' = EE!Off /\ eempe' = FALSE
        /\ UNCHANGED <<part, eerie, eedr, cell, busy, mode, data, done, retry, eePending, eeCpu,
                       eeSince>>
    BY <1>6 DEF EE!EnableEnds
  <2>2. EepromTypes' /\ EepromWindowRuns' /\ BusyIsTimed'
    BY <2>1, <1>1 DEF EepromTypes, EepromWindowRuns, BusyIsTimed
  <2>3. ReadyIsRequested'
    BY <2>1, <1>1 DEF ReadyIsRequested, EE!ReadyRequested
  <2>4. QED  BY <2>2, <2>3 DEF EepromInv
<1>7. CASE EE!UntimedEnds
  <2>1. /\ ~part.timed /\ done' = EE!Off /\ EE!Request(eerie)
        /\ UNCHANGED <<part, eempe, eerie, eedr, cell, busy, mode, data, eeWindow, retry, eeSince>>
    BY <1>7 DEF EE!UntimedEnds
  <2>2. eePending' \in BOOLEAN /\ eeCpu' \in {"running", "idle", "deep"}
    BY <2>1, <1>1 DEF EE!Request, EE!Accepted, EepromTypes
  <2>3. EepromTypes' /\ EepromWindowRuns' /\ BusyIsTimed'
    BY <2>1, <2>2, <1>1 DEF EepromTypes, EepromWindowRuns, BusyIsTimed
  <2>4. ReadyIsRequested'
    BY <2>1, <1>1 DEF ReadyIsRequested, EE!ReadyRequested
  <2>5. QED  BY <2>3, <2>4 DEF EepromInv
<1>8. CASE EE!Reset
  <2>1. /\ eempe' = FALSE /\ eerie' = FALSE /\ busy' = FALSE /\ eedr' = 0
        /\ eeWindow' = EE!Off /\ done' = EE!Off /\ retry' = EE!Off
        /\ eePending' = FALSE /\ eeCpu' = "running" /\ eeSince' = Far
        /\ UNCHANGED <<part, cell, mode, data>>
    BY <1>8 DEF EE!Reset, EE!Cleared
  <2>2. EepromTypes'
    BY <2>1, <1>1 DEF EepromTypes, EE!Bits
  <2>3. Far \in 1 .. Far
    BY DEF EE!WellFormed
  <2>4. EepromWindowRuns'
    BY <2>1, <2>3 DEF EepromWindowRuns
  <2>5. BusyIsTimed' /\ ReadyIsRequested'
    BY <2>1 DEF BusyIsTimed, ReadyIsRequested, EE!ReadyRequested
  <2>6. QED  BY <2>2, <2>4, <2>5 DEF EepromInv
<1>9. QED
  BY <1>2, <1>3, <1>4, <1>5, <1>6, <1>7, <1>8, ProgrammingEndsKeeps, RetryReadyKeeps
  DEF EE!Next

\* Programming starts within the window, and the contents change at its end.
LEMMA EepromInSequence ==
    ASSUME EE!WellFormed, EepromInv, EE!Next
    PROVE  EE!ChangesInSequence
<1>1. EepromTypes /\ EepromWindowRuns /\ BusyIsTimed
  BY DEF EepromInv
<1>2. ASSUME eempe, EE!Executes
      PROVE  eeSince < Window
  <2>1. eeWindow # 0 /\ eeWindow # EE!Off
    BY <1>1, <1>2 DEF EE!Executes, EE!NoneDue, EepromWindowRuns
  <2>2. /\ eeWindow \in Nat \ {0} /\ eeSince + eeWindow <= Window /\ eeSince \in Nat
           /\ Window \in Nat
    BY <2>1, <1>1 DEF EepromWindowRuns, EE!WellFormed
  <2>3. QED  BY <2>2
<1>3. ASSUME NEW c \in EE!Commands, EE!Write(c)
      PROVE  EE!ChangesInSequence
  <2>1. EE!Executes /\ UNCHANGED part
    BY <1>3 DEF EE!Write
  <2>2. CASE EE!WriteUntimed(c)
    BY <2>1, <2>2, <1>2 DEF EE!WriteUntimed, EE!Programs, EE!ChangesInSequence
  <2>3. CASE EE!WriteWhileBusy(c)
    BY <2>3 DEF EE!WriteWhileBusy, EE!ChangesInSequence
  <2>4. CASE EE!WriteWhileIdle(c)
    BY <2>1, <2>4, <1>2 DEF EE!WriteWhileIdle, EE!Starts, EE!Programs, EE!ChangesInSequence
  <2>5. QED  BY <2>2, <2>3, <2>4, <1>3 DEF EE!Write
<1>4. CASE EE!ProgrammingEnds
  <2>1. part.timed /\ done = 0 /\ busy' = FALSE
    BY <1>4 DEF EE!ProgrammingEnds
  <2>2. busy
    BY <2>1, <1>1 DEF BusyIsTimed, EE!Off
  <2>3. QED  BY <2>1, <2>2 DEF EE!ChangesInSequence
<1>5. ASSUME UNCHANGED cell, busy' = FALSE \/ busy' = busy
      PROVE  EE!ChangesInSequence
  BY <1>5 DEF EE!ChangesInSequence
<1>6. CASE EE!Plain \/ (\E d \in EE!Bits : EE!WriteData(d)) \/ EE!Slept
           \/ (\E how \in {"idle", "deep"} : EE!Sleep(how))
  BY <1>5, <1>6 DEF EE!Plain, EE!WriteData, EE!Slept, EE!Sleep, EE!Elapses
<1>7. CASE EE!Wake \/ EE!ServeReady \/ EE!EnableEnds \/ EE!UntimedEnds \/ EE!RetryReady
  BY <1>5, <1>7 DEF EE!Wake, EE!ServeReady, EE!EnableEnds, EE!UntimedEnds, EE!RetryReady
<1>8. CASE EE!Reset
  BY <1>5, <1>8 DEF EE!Reset, EE!Cleared
<1>9. QED
  BY <1>3, <1>4, <1>6, <1>7, <1>8 DEF EE!Next

\* A step of another peripheral leaves the EEPROM alone.
LEMMA EepromStands ==
    ASSUME EepromInv,
           UNCHANGED <<part, eempe, eerie, eedr, cell, busy, mode, data, eeWindow, done, retry,
                       eePending, eeCpu, eeSince>>
    PROVE  EepromInv'
<1>1. EepromTypes' /\ EepromWindowRuns' /\ BusyIsTimed'
  BY DEF EepromInv, EepromTypes, EepromWindowRuns, BusyIsTimed
<1>2. ReadyIsRequested'
  BY DEF EepromInv, ReadyIsRequested, EE!ReadyRequested
<1>3. QED  BY <1>1, <1>2 DEF EepromInv

\* What the properties ask of the EEPROM.
LEMMA EepromShows ==
    ASSUME EE!WellFormed, EepromInv
    PROVE  EE!TypeOK /\ EE!TimersFollowRegisters /\ EE!ReadyRequested
<1>1. EepromTypes /\ EepromWindowRuns /\ BusyIsTimed /\ ReadyIsRequested
  BY DEF EepromInv
<1>2. EE!TypeOK
  BY <1>1 DEF EepromTypes, EepromWindowRuns, BusyIsTimed, ReadyIsRequested, EE!TypeOK
<1>3. EE!TimersFollowRegisters
  <2>1. ASSUME eempe
        PROVE  eeWindow \in 0 .. Window
    <3>1. /\ eeWindow \in Nat /\ eeSince \in Nat /\ Window \in Nat
          /\ (eeWindow # 0 => eeSince + eeWindow <= Window)
      BY <2>1, <1>1 DEF EepromWindowRuns, EE!WellFormed
    <3>2. QED  BY <3>1
  <2>2. QED  BY <2>1, <1>1 DEF BusyIsTimed, EE!TimersFollowRegisters
<1>4. QED  BY <1>1, <1>2, <1>3 DEF ReadyIsRequested

-----------------------------------------------------------------------------
(* The classic flash *)

\* SELFPRGEN is set for the cycles that are not over since it was written.
EnableRuns ==
    /\ flWindow \in Nat \cup {FL!Off} /\ flSince \in 1 .. Far
    /\ flWindow # FL!Off /\ flWindow # 0 => flSince + flWindow <= Window
    /\ selfprgen => flWindow # FL!Off

FlashTypes ==
    /\ selfprgen \in BOOLEAN /\ flOp \in FL!Ops
    /\ flFlash \in [Pages -> [Words -> FL!Bits]]
    /\ tmppage \in [Words -> FL!Bits] /\ used \subseteq Words

\* A part whose fuse locks SPM never sets SELFPRGEN.
FlashInv == FlashTypes /\ EnableRuns /\ (selfprgen => part.spmen)

\* A cycle passes for the window and the history.
LEMMA EnablePasses ==
    ASSUME FL!WellFormed, EnableRuns
    PROVE  /\ FL!Pass(flWindow) \in Nat \cup {FL!Off} /\ FL!Older \in 1 .. Far
           /\ FL!Pass(flWindow) = FL!Off <=> flWindow = FL!Off
           /\ FL!Pass(flWindow) # FL!Off /\ FL!Pass(flWindow) # 0
              => FL!Older + FL!Pass(flWindow) <= Window
<1>1. Window \in Nat /\ Far \in Nat \ {0} /\ flSince \in 1 .. Far /\ flWindow \in Nat \cup {FL!Off}
  BY DEF FL!WellFormed, EnableRuns
<1>2. flSince \in Nat
  BY <1>1
<1>3. FL!Older \in 1 .. Far /\ FL!Older <= flSince + 1
  BY <1>1, <1>2 DEF FL!Older
<1>4. FL!Pass(flWindow) \in Nat \cup {FL!Off} /\ (FL!Pass(flWindow) = FL!Off <=> flWindow = FL!Off)
  BY <1>1 DEF FL!Pass, FL!Off
<1>5. ASSUME FL!Pass(flWindow) # FL!Off, FL!Pass(flWindow) # 0
      PROVE  FL!Older + FL!Pass(flWindow) <= Window
  <2>1. flWindow \in Nat /\ flWindow > 0 /\ FL!Pass(flWindow) = flWindow - 1
    BY <1>1, <1>5 DEF FL!Pass, FL!Off
  <2>2. flSince + flWindow <= Window
    BY <2>1 DEF EnableRuns, FL!Off
  <2>3. QED  BY <2>1, <2>2, <1>1, <1>2, <1>3
<1>6. QED  BY <1>3, <1>4, <1>5

\* A window that is open has not lasted.
LEMMA EnabledInWindow ==
    ASSUME FL!WellFormed, EnableRuns, selfprgen, FL!Executes
    PROVE  flSince < Window
<1>1. flWindow \in Nat \ {0} /\ flSince + flWindow <= Window /\ flSince \in Nat /\ Window \in Nat
  BY DEF EnableRuns, FL!Executes, FL!WellFormed
<1>2. QED  BY <1>1

\* What SPM does to the flash and its buffer while it is enabled.
Programs(p, w, d) == FL!ErasePage(p) \/ FL!WritePage(p) \/ FL!LockBits \/ FL!EnableRww
\/ FL!FillWord(w, d)

LEMMA PagesStayTyped ==
    ASSUME NEW f \in [Pages -> [Words -> FL!Bits]], NEW t \in [Words -> FL!Bits], NEW p \in Pages
    PROVE  [f EXCEPT ![p] = t] \in [Pages -> [Words -> FL!Bits]]
OBVIOUS

LEMMA EmptyPageIsPage == FL!EmptyPage \in [Words -> FL!Bits]
BY DEF FL!EmptyPage, FL!Bits

LEMMA ProgramsKeeps ==
    ASSUME FlashTypes, NEW p \in Pages, NEW w \in Words, NEW d \in FL!Bits, Programs(p, w, d)
    PROVE  /\ flFlash' \in [Pages -> [Words -> FL!Bits]]
           /\ tmppage' \in [Words -> FL!Bits] /\ used' \subseteq Words
           /\ \A q, r \in Pages : flFlash'[q] # flFlash[q] /\ flFlash'[r] # flFlash[r] => q = r
           /\ used' = {} \/ \A v \in used : tmppage'[v] = tmppage[v]
<1>1. CASE FL!ErasePage(p)
  BY <1>1, PagesStayTyped, EmptyPageIsPage DEF FL!ErasePage, FlashTypes
<1>2. CASE FL!WritePage(p)
  BY <1>2, PagesStayTyped, EmptyPageIsPage DEF FL!WritePage, FL!ClearTemppage, FlashTypes
<1>3. CASE FL!LockBits
  BY <1>3 DEF FL!LockBits, FlashTypes
<1>4. CASE FL!EnableRww
  BY <1>4, EmptyPageIsPage DEF FL!EnableRww, FL!ClearTemppage, FlashTypes
<1>5. CASE FL!FillWord(w, d)
  BY <1>5 DEF FL!FillWord, FlashTypes
<1>6. QED  BY <1>1, <1>2, <1>3, <1>4, <1>5 DEF Programs

LEMMA FlashInitHolds ==
    ASSUME FL!WellFormed, FL!Init
    PROVE  FlashInv
<1>1. FlashTypes
  BY EmptyPageIsPage DEF FL!Init, FlashTypes, FL!Ops
<1>2. Far \in 1 .. Far
  BY DEF FL!WellFormed
<1>3. QED  BY <1>1, <1>2 DEF FL!Init, EnableRuns, FlashInv

\* The sequence ends with SPM and LPM.
LEMMA EndsKeeps ==
    ASSUME FL!WellFormed, FlashInv, FL!EndsSequence,
           flFlash' \in [Pages -> [Words -> FL!Bits]], tmppage' \in [Words -> FL!Bits],
           used' \subseteq Words
    PROVE  FlashInv'
<1>1. FlashTypes /\ EnableRuns
  BY DEF FlashInv
<1>2. selfprgen' = FALSE /\ flSince' = FL!Older /\ flOp' = flOp /\ part' = part
  BY DEF FL!EndsSequence
<1>3. FlashTypes'
  BY <1>1, <1>2 DEF FlashTypes
<1>4. flWindow' \in {FL!Off, FL!Pass(flWindow)}
  BY DEF FL!EndsSequence
<1>5. EnableRuns'
  BY <1>1, <1>2, <1>4, EnablePasses DEF EnableRuns
<1>6. QED  BY <1>2, <1>3, <1>5 DEF FlashInv

LEMMA FlashKeeps ==
    ASSUME FL!WellFormed, FlashInv, FL!Next
    PROVE  FlashInv'
<1>1. FlashTypes /\ EnableRuns /\ (selfprgen => part.spmen)
  BY DEF FlashInv
<1>2. ASSUME NEW enable \in BOOLEAN, NEW o \in FL!Ops, FL!Write(enable, o)
      PROVE  FlashInv'
  <2>1. UNCHANGED <<part, flFlash, tmppage, used>>
    BY <1>2 DEF FL!Write
  <2>2. CASE part.spmen /\ enable
    <3>1. selfprgen' = TRUE /\ flOp' = o /\ flWindow' = Window - 1 /\ flSince' = 1
      BY <1>2, <2>2 DEF FL!Write
    <3>2. Window \in Nat \ {0} /\ Far \in Nat /\ Window <= Far
      BY DEF FL!WellFormed
    <3>3. flWindow' \in Nat /\ flSince' \in 1 .. Far /\ flSince' + flWindow' <= Window
          /\ flWindow' # FL!Off
      BY <3>1, <3>2 DEF FL!Off
    <3>4. EnableRuns'
      BY <3>3 DEF EnableRuns
    <3>5. FlashTypes'
      BY <2>1, <3>1, <1>1 DEF FlashTypes
    <3>6. QED  BY <2>1, <2>2, <3>4, <3>5 DEF FlashInv
  <2>3. CASE ~(part.spmen /\ enable)
    <3>1. /\ flWindow' = FL!Pass(flWindow) /\ flSince' = FL!Older /\ flOp' \in FL!Ops
          /\ selfprgen' = FALSE \/ selfprgen' = selfprgen
      BY <1>1, <1>2, <2>3 DEF FL!Write, FlashTypes
    <3>2. EnableRuns'
      BY <3>1, <1>1, EnablePasses DEF EnableRuns
    <3>3. FlashTypes'
      BY <2>1, <3>1, <1>1 DEF FlashTypes
    <3>4. QED  BY <2>1, <3>1, <3>2, <3>3, <1>1 DEF FlashInv
  <2>4. QED  BY <2>2, <2>3
<1>3. CASE FL!Plain
  <2>1. /\ flWindow' = FL!Pass(flWindow) /\ flSince' = FL!Older
        /\ UNCHANGED <<part, selfprgen, flOp, flFlash, tmppage, used>>
    BY <1>3 DEF FL!Plain
  <2>2. EnableRuns'
    BY <2>1, <1>1, EnablePasses DEF EnableRuns
  <2>3. QED  BY <2>1, <2>2, <1>1 DEF FlashInv, FlashTypes
<1>4. CASE FL!Lpm
  BY <1>1, <1>4, EndsKeeps DEF FL!Lpm, FlashTypes
<1>5. ASSUME NEW p \in Pages, NEW w \in Words, NEW d \in FL!Bits, FL!Spm(p, w, d)
      PROVE  FlashInv'
  <2>1. FL!EndsSequence
    BY <1>5 DEF FL!Spm
  <2>2. CASE selfprgen
    BY <1>1, <1>5, <2>1, <2>2, ProgramsKeeps, EndsKeeps DEF FL!Spm, Programs
  <2>3. CASE ~selfprgen
    BY <1>1, <1>5, <2>1, <2>3, EndsKeeps DEF FL!Spm, FlashTypes
  <2>4. QED  BY <2>2, <2>3
<1>6. CASE FL!EnableEnds
  BY <1>1, <1>6 DEF FL!EnableEnds, FlashInv, FlashTypes, EnableRuns
<1>7. CASE FL!Reset
  <2>1. Far \in 1 .. Far
    BY DEF FL!WellFormed
  <2>2. FlashTypes'
    BY <1>1, <1>7, EmptyPageIsPage DEF FL!Reset, FL!ClearTemppage, FlashTypes, FL!Ops
  <2>3. EnableRuns' /\ ~selfprgen'
    BY <1>7, <2>1 DEF FL!Reset, EnableRuns
  <2>4. QED  BY <2>2, <2>3 DEF FlashInv
<1>8. QED  BY <1>2, <1>3, <1>4, <1>5, <1>6, <1>7 DEF FL!Next

\* SPM finds SELFPRGEN set within the window only.
LEMMA FlashInSequence ==
    ASSUME FL!WellFormed, FlashInv, FL!Next
    PROVE  FL!ChangesInSequence
<1>1. FlashTypes /\ EnableRuns /\ (selfprgen => part.spmen)
  BY DEF FlashInv
<1>2. ASSUME UNCHANGED <<flFlash, tmppage, used>>
      PROVE  FL!ChangesInSequence
  BY <1>2 DEF FL!ChangesInSequence
<1>3. ASSUME NEW p \in Pages, NEW w \in Words, NEW d \in FL!Bits, FL!Spm(p, w, d)
      PROVE  FL!ChangesInSequence
  <2>1. CASE selfprgen
    <3>1. flSince < Window /\ part.spmen /\ Programs(p, w, d)
      BY <1>1, <1>3, <2>1, EnabledInWindow DEF FL!Spm, Programs
    <3>2. QED  BY <3>1, <1>1, ProgramsKeeps DEF FL!ChangesInSequence
  <2>2. CASE ~selfprgen
    BY <1>2, <1>3, <2>2 DEF FL!Spm
  <2>3. QED  BY <2>1, <2>2
<1>4. CASE FL!Reset
  BY <1>4 DEF FL!Reset, FL!ChangesInSequence
<1>5. QED
  BY <1>2, <1>3, <1>4 DEF FL!Next, FL!Write, FL!Plain, FL!Lpm, FL!EnableEnds

\* A step of another peripheral leaves the flash alone.
LEMMA FlashStands ==
    ASSUME FlashInv, UNCHANGED <<part, selfprgen, flOp, flFlash, tmppage, used, flWindow, flSince>>
    PROVE  FlashInv'
BY DEF FlashInv, FlashTypes, EnableRuns

\* What the properties ask of the flash.
LEMMA FlashShows ==
    ASSUME FL!WellFormed, FlashInv
    PROVE  FL!TypeOK /\ FL!TimersFollowRegisters
<1>1. FlashTypes /\ EnableRuns
  BY DEF FlashInv
<1>2. ASSUME selfprgen
      PROVE  flWindow \in 0 .. Window
  <2>1. /\ flWindow \in Nat /\ flSince \in Nat /\ Window \in Nat
        /\ (flWindow # 0 => flSince + flWindow <= Window)
    BY <1>2, <1>1 DEF EnableRuns, FL!WellFormed
  <2>2. QED  BY <2>1
<1>3. QED  BY <1>1, <1>2 DEF FlashTypes, EnableRuns, FL!TypeOK, FL!TimersFollowRegisters

-----------------------------------------------------------------------------
(* The memory controller of the 0- and 1-series *)

NvmctrlMemoryTypes ==
    /\ nvEeprom \in [Offsets -> NV!Bits] /\ nvUserrow \in [Offsets -> NV!Bits]
    /\ nvFlash \in [Pages -> [Offsets -> NV!Bits]]

BufferTypes ==
    /\ buf \in [Offsets -> NV!Bits] /\ dirty \subseteq Offsets
    /\ fbuf \in [Offsets -> NV!Bits] /\ fdirty \subseteq Offsets /\ fbufPage \in Pages
    /\ section \in {"none", "ee", "userrow", "flash"}

OpIsTimed ==
    /\ nvFbusy \in BOOLEAN /\ nvEebusy \in BOOLEAN /\ nvOp \in Nat \cup {NV!Off}
    /\ NV!TimersFollowRegisters

ReadyIsFlagged ==
    /\ nvEeready \in BOOLEAN /\ nvIntctrl \in BOOLEAN /\ nvPending \in BOOLEAN
    /\ NV!RequestIsReady

NvmctrlInv == NvmctrlMemoryTypes /\ BufferTypes /\ OpIsTimed /\ ReadyIsFlagged

LEMMA SomePageIsPage ==
    ASSUME NV!WellFormed
    PROVE  NV!SomePage \in Pages
<1>1. \E p \in Pages : \A q \in Pages : p <= q
  BY DEF NV!WellFormed
<1>2. QED  BY <1>1, Zenon DEF NV!SomePage

LEMMA CommittedIsPage ==
    ASSUME NEW page \in [Offsets -> NV!Bits], NEW b \in [Offsets -> NV!Bits], NEW d
    PROVE  NV!Committed(page, b, d) \in [Offsets -> NV!Bits]
BY DEF NV!Committed

LEMMA ErasedIsPage == NV!Erased \in [Offsets -> NV!Bits]
BY DEF NV!Erased, NV!Bits

\* The time of an operation that goes on, and of one that begins.
LEMMA NvmctrlOpPasses ==
    ASSUME OpIsTimed, NV!Executes
    PROVE  NV!Pass(nvOp) \in Nat \cup {NV!Off} /\ (NV!Pass(nvOp) = NV!Off <=> nvOp = NV!Off)
BY DEF OpIsTimed, NV!Executes, NV!Pass, NV!Off

LEMMA KeepsOp ==
    ASSUME OpIsTimed, NV!Executes, NV!Keeps
    PROVE  OpIsTimed'
<1>1. nvFbusy' = nvFbusy /\ nvEebusy' = nvEebusy /\ nvOp' = NV!Pass(nvOp)
  BY DEF NV!Keeps
<1>2. QED  BY <1>1, NvmctrlOpPasses DEF OpIsTimed, NV!TimersFollowRegisters

LEMMA BeginsOp ==
    ASSUME NV!WellFormed, OpIsTimed, NEW flag \in {"fbusy", "eebusy"}, NV!Begin(flag)
    PROVE  OpIsTimed'
<1>1. nvOp' = OpTime - 1 /\ OpTime \in Nat \ {0}
  BY DEF NV!Begin, NV!WellFormed
<1>2. nvOp' \in Nat /\ nvOp' # NV!Off
  BY <1>1 DEF NV!Off
<1>3. nvFbusy' = (nvFbusy \/ flag = "fbusy") /\ nvEebusy' = (nvEebusy \/ flag = "eebusy")
  BY DEF NV!Begin
<1>4. nvFbusy' \in BOOLEAN /\ nvEebusy' \in BOOLEAN /\ (nvFbusy' \/ nvEebusy')
  BY <1>3 DEF OpIsTimed
<1>5. QED  BY <1>2, <1>4 DEF OpIsTimed, NV!TimersFollowRegisters

\* A command that is honoured.
LEMMA CommandKeeps ==
    ASSUME NV!WellFormed, NvmctrlInv, NV!Executes, NEW command, NV!Command(command),
           UNCHANGED <<buf, fbuf, fbufPage, section>>
    PROVE  NvmctrlMemoryTypes' /\ BufferTypes' /\ OpIsTimed'
<1>1. NvmctrlMemoryTypes /\ BufferTypes /\ OpIsTimed
  BY DEF NvmctrlInv
<1>2. CASE command = "CHIPERASE"
  <2>1. NV!ChipErase
    BY <1>2 DEF NV!Command
  <2>2. QED  BY <1>1, <2>1, BeginsOp, ErasedIsPage DEF NV!ChipErase, NvmctrlMemoryTypes,
                BufferTypes
<1>3. CASE command = "FUSEWRITE"
  <2>1. NV!FuseWrite
    BY <1>3 DEF NV!Command
  <2>2. QED
    BY <1>1, <2>1, BeginsOp, KeepsOp DEF NV!FuseWrite, NvmctrlMemoryTypes, BufferTypes, NV!memories
<1>4. CASE NV!UserRowCommand(command)
  <2>1. NV!EePage(command, nvUserrow) \in [Offsets -> NV!Bits]
    BY <1>1, CommittedIsPage, ErasedIsPage DEF NV!EePage, NvmctrlMemoryTypes, BufferTypes
  <2>2. OpIsTimed'
    BY <1>1, <1>4, BeginsOp, KeepsOp DEF NV!UserRowCommand
  <2>3. nvUserrow' \in [Offsets -> NV!Bits] /\ dirty' \subseteq Offsets
    BY <1>1, <1>4, <2>1 DEF NV!UserRowCommand, NvmctrlMemoryTypes, BufferTypes
  <2>4. QED  BY <1>1, <1>4, <2>2, <2>3 DEF NV!UserRowCommand, NvmctrlMemoryTypes, BufferTypes
<1>5. CASE NV!EepromCommand(command)
  <2>1. NV!EePage(command, nvEeprom) \in [Offsets -> NV!Bits]
    BY <1>1, CommittedIsPage, ErasedIsPage DEF NV!EePage, NvmctrlMemoryTypes, BufferTypes
  <2>2. OpIsTimed'
    BY <1>1, <1>5, BeginsOp, KeepsOp DEF NV!EepromCommand
  <2>3. nvEeprom' \in [Offsets -> NV!Bits] /\ dirty' \subseteq Offsets
    BY <1>1, <1>5, <2>1, ErasedIsPage DEF NV!EepromCommand, NvmctrlMemoryTypes, BufferTypes
  <2>4. QED  BY <1>1, <1>5, <2>2, <2>3 DEF NV!EepromCommand, NvmctrlMemoryTypes, BufferTypes
<1>6. CASE NV!FlashCommand(command)
  <2>1. NV!FlashPage(command, nvFlash[fbufPage]) \in [Offsets -> NV!Bits]
    <3>1. nvFlash[fbufPage] \in [Offsets -> NV!Bits] /\ fbuf \in [Offsets -> NV!Bits]
      BY <1>1 DEF NvmctrlMemoryTypes, BufferTypes
    <3>2. QED  BY <3>1, CommittedIsPage, ErasedIsPage DEF NV!FlashPage
  <2>2. OpIsTimed'
    BY <1>1, <1>6, BeginsOp, KeepsOp DEF NV!FlashCommand
  <2>3. nvFlash' \in [Pages -> [Offsets -> NV!Bits]] /\ fdirty' \subseteq Offsets
    BY <1>1, <1>6, <2>1 DEF NV!FlashCommand, NvmctrlMemoryTypes, BufferTypes
  <2>4. QED  BY <1>1, <1>6, <2>2, <2>3 DEF NV!FlashCommand, NvmctrlMemoryTypes, BufferTypes
<1>7. QED  BY <1>2, <1>3, <1>4, <1>5, <1>6 DEF NV!Command

LEMMA NvmctrlInitHolds ==
    ASSUME NV!WellFormed, NV!Init
    PROVE  NvmctrlInv
<1>1. NvmctrlMemoryTypes /\ BufferTypes
  BY ErasedIsPage, SomePageIsPage DEF NV!Init, NvmctrlMemoryTypes, BufferTypes
<1>2. OpIsTimed /\ ReadyIsFlagged
  BY DEF NV!Init, OpIsTimed, NV!TimersFollowRegisters, ReadyIsFlagged, NV!RequestIsReady
<1>3. QED  BY <1>1, <1>2 DEF NvmctrlInv

LEMMA StoreKeeps ==
    ASSUME NV!WellFormed, NvmctrlInv, NV!Store
    PROVE  NvmctrlInv'
<1>1. NvmctrlMemoryTypes /\ BufferTypes /\ OpIsTimed /\ ReadyIsFlagged
  BY DEF NvmctrlInv
<1>2. NV!Executes /\ nvOp' = NV!Pass(nvOp) /\ UNCHANGED <<part, NV!memories, NV!status>>
  BY DEF NV!Store
<1>3. OpIsTimed'
  BY <1>1, <1>2, KeepsOp DEF NV!Keeps, NV!status
<1>4. NvmctrlMemoryTypes' /\ ReadyIsFlagged'
  BY <1>1, <1>2 DEF NvmctrlMemoryTypes, ReadyIsFlagged, NV!RequestIsReady, NV!memories, NV!status
<1>5. PICK o \in Offsets, v \in Values :
          \/ \E s \in {"ee", "userrow"} : NV!StoreEe(s, o, v)
          \/ \E p \in Pages : NV!StoreFlash(p, o, v)
  BY DEF NV!Store
<1>6. v \in NV!Bits
  BY DEF NV!WellFormed
<1>7. ASSUME NEW s \in {"ee", "userrow"}, NV!StoreEe(s, o, v)
      PROVE  BufferTypes'
  BY <1>1, <1>6, <1>7 DEF NV!StoreEe, BufferTypes
<1>8. ASSUME NEW p \in Pages, NV!StoreFlash(p, o, v)
      PROVE  BufferTypes'
  BY <1>1, <1>6, <1>8 DEF NV!StoreFlash, BufferTypes
<1>9. BufferTypes'
  BY <1>5, <1>7, <1>8
<1>10. QED  BY <1>3, <1>4, <1>9 DEF NvmctrlInv

LEMMA NvmctrlKeeps ==
    ASSUME NV!WellFormed, NvmctrlInv, NV!Next
    PROVE  NvmctrlInv'
<1>1. NvmctrlMemoryTypes /\ BufferTypes /\ OpIsTimed /\ ReadyIsFlagged
  BY DEF NvmctrlInv
<1>2. ASSUME NEW c \in NV!Commands, NV!WriteCtrla(c)
      PROVE  NvmctrlInv'
  <2>1. NV!Executes /\ UNCHANGED <<part, buf, fbuf, fbufPage, section, nvEeready, nvIntctrl,
        nvPending>>
    BY <1>2 DEF NV!WriteCtrla
  <2>2. NvmctrlMemoryTypes' /\ BufferTypes' /\ OpIsTimed'
    <3>1. CASE NV!Unlocked
      BY <1>2, <2>1, <3>1, CommandKeeps DEF NV!WriteCtrla
    <3>2. CASE ~NV!Unlocked
      <4>1. NV!Keeps /\ UNCHANGED <<NV!memories, dirty, fdirty>>
        BY <1>2, <3>2 DEF NV!WriteCtrla
      <4>2. QED  BY <1>1, <2>1, <4>1, KeepsOp DEF NvmctrlMemoryTypes, BufferTypes, NV!memories
    <3>3. QED  BY <3>1, <3>2
  <2>3. ReadyIsFlagged'
    BY <1>1, <2>1 DEF ReadyIsFlagged, NV!RequestIsReady
  <2>4. QED  BY <2>2, <2>3 DEF NvmctrlInv
<1>3. ASSUME UNCHANGED <<NV!memories, NV!buffers>>, OpIsTimed', ReadyIsFlagged'
      PROVE  NvmctrlInv'
  BY <1>1, <1>3 DEF NvmctrlInv, NvmctrlMemoryTypes, BufferTypes, NV!memories, NV!buffers
<1>4. ASSUME UNCHANGED <<nvFbusy, nvEebusy>>, nvOp' = NV!Pass(nvOp), NV!Executes
      PROVE  OpIsTimed'
  BY <1>1, <1>4, KeepsOp DEF NV!Keeps
<1>5. ASSUME NEW b \in BOOLEAN, NV!WriteIntctrl(b)
      PROVE  NvmctrlInv'
  <2>1. ReadyIsFlagged'
    BY <1>1, <1>5 DEF NV!WriteIntctrl, ReadyIsFlagged, NV!RequestIsReady
  <2>2. QED  BY <1>3, <1>4, <1>5, <2>1 DEF NV!WriteIntctrl
<1>6. ASSUME NEW b \in BOOLEAN, NV!WriteIntflags(b)
      PROVE  NvmctrlInv'
  <2>1. nvEeready' = (nvEeready /\ ~b) /\ nvPending' = (nvPending /\ nvEeready')
        /\ nvIntctrl' = nvIntctrl
    BY <1>6 DEF NV!WriteIntflags
  <2>2. ReadyIsFlagged'
    BY <1>1, <2>1 DEF ReadyIsFlagged, NV!RequestIsReady
  <2>3. QED  BY <1>3, <1>4, <1>6, <2>2 DEF NV!WriteIntflags
<1>7. CASE NV!Plain
  <2>1. ReadyIsFlagged'
    BY <1>1, <1>7 DEF NV!Plain, NV!status, ReadyIsFlagged, NV!RequestIsReady
  <2>2. QED  BY <1>3, <1>4, <1>7, <2>1 DEF NV!Plain, NV!status
<1>8. CASE NV!ServeReady
  <2>1. ReadyIsFlagged' /\ OpIsTimed'
    BY <1>1, <1>8
    DEF NV!ServeReady, ReadyIsFlagged, NV!RequestIsReady, OpIsTimed, NV!TimersFollowRegisters
  <2>2. QED  BY <1>3, <1>8, <2>1 DEF NV!ServeReady
<1>9. CASE NV!OpDone
  <2>1. /\ nvOp' = NV!Off /\ nvFbusy' = FALSE /\ nvEebusy' = FALSE /\ nvIntctrl' = nvIntctrl
        /\ nvEeready' = (nvEeready \/ nvEebusy) /\ nvPending' = (nvPending \/ (nvEebusy
             /\ nvIntctrl))
    BY <1>9 DEF NV!OpDone
  <2>2. OpIsTimed'
    BY <2>1 DEF OpIsTimed, NV!TimersFollowRegisters
  <2>3. nvEeready' \in BOOLEAN /\ nvPending' \in BOOLEAN /\ nvIntctrl' \in BOOLEAN
    BY <1>1, <2>1 DEF ReadyIsFlagged, OpIsTimed
  <2>4. nvPending' => nvEeready'
    BY <1>1, <2>1 DEF ReadyIsFlagged, NV!RequestIsReady
  <2>5. QED  BY <1>3, <1>9, <2>2, <2>3, <2>4 DEF NV!OpDone, ReadyIsFlagged, NV!RequestIsReady
<1>10. CASE NV!Reset
  <2>1. /\ nvOp' = NV!Off /\ nvFbusy' = FALSE /\ nvEebusy' = FALSE /\ nvIntctrl' = FALSE
        /\ nvEeready' = FALSE /\ nvPending' = FALSE
        /\ dirty' = {} /\ fdirty' = {} /\ fbufPage' = NV!SomePage /\ section' = "none"
        /\ UNCHANGED <<NV!memories, buf, fbuf>>
    BY <1>10 DEF NV!Reset, NV!BuffersReset
  <2>2. NvmctrlMemoryTypes' /\ BufferTypes'
    BY <1>1, <2>1, SomePageIsPage DEF NvmctrlMemoryTypes, BufferTypes, NV!memories
  <2>3. OpIsTimed' /\ ReadyIsFlagged'
    BY <2>1 DEF OpIsTimed, NV!TimersFollowRegisters, ReadyIsFlagged, NV!RequestIsReady
  <2>4. QED  BY <2>2, <2>3 DEF NvmctrlInv
<1>11. QED
  BY <1>2, <1>5, <1>6, <1>7, <1>8, <1>9, <1>10, StoreKeeps DEF NV!Next

LEMMA NvmctrlCounts ==
    ASSUME Counted, NV!Next
    PROVE  Counted'
<1>1. CASE UNCHANGED <<ccp, signed>>
  BY <1>1 DEF Counted
<1>2. CASE NV!WriteCcp
  BY <1>2, CcpAssumption DEF Counted, NV!WriteCcp, NV!OpenedCcp, NV!AfterInstruction
<1>3. CASE NV!OtherInstruction
  BY <1>3, CcpAssumption DEF Counted, NV!OtherInstruction, NV!AfterInstruction
<1>4. QED
  BY <1>1, <1>2, <1>3
  DEF NV!Next, NV!Store, NV!WriteCtrla, NV!WriteIntctrl, NV!WriteIntflags, NV!Plain,
  NV!ServeReady, NV!OpDone, NV!Reset

\* A memory changes behind the signature only, and one section at a time.
LEMMA NvmctrlInSequence ==
    ASSUME NvmctrlInv, Counted, NV!Next
    PROVE  NV!ChangesInSequence
<1>1. ASSUME UNCHANGED NV!memories
      PROVE  NV!ChangesInSequence
  BY <1>1 DEF NV!ChangesInSequence
<1>2. ASSUME NEW c \in NV!Commands, NV!WriteCtrla(c)
      PROVE  NV!ChangesInSequence
  <2>1. CASE ~NV!Unlocked
    BY <1>1, <1>2, <2>1 DEF NV!WriteCtrla
  <2>2. CASE NV!Unlocked
    <3>1. NV!Command(c)
      BY <1>2, <2>2 DEF NV!WriteCtrla
    <3>2. signed < CcpWindow
      BY <2>2, CcpAssumption DEF NV!Unlocked, Counted
    <3>3. CASE c = "CHIPERASE"
      BY <3>1, <3>2, <3>3 DEF NV!Command, NV!ChipErase, NV!ChangesInSequence
    <3>4. CASE c = "FUSEWRITE"
      BY <1>1, <3>1, <3>4 DEF NV!Command, NV!FuseWrite
    <3>5. CASE NV!UserRowCommand(c)
      BY <3>2, <3>5 DEF NV!UserRowCommand, NV!ChangesInSequence
    <3>6. CASE NV!EepromCommand(c)
      BY <3>2, <3>6 DEF NV!EepromCommand, NV!ChangesInSequence
    <3>7. CASE NV!FlashCommand(c)
      <4>1. nvFlash \in [Pages -> [Offsets -> NV!Bits]]
        BY DEF NvmctrlInv, NvmctrlMemoryTypes
      <4>2. \A p \in Pages \ {fbufPage} : nvFlash'[p] = nvFlash[p]
        BY <4>1, <3>7 DEF NV!FlashCommand
      <4>3. QED  BY <3>2, <3>7, <4>2 DEF NV!FlashCommand, NV!ChangesInSequence
    <3>8. QED  BY <3>1, <3>3, <3>4, <3>5, <3>6, <3>7 DEF NV!Command
  <2>3. QED  BY <2>1, <2>2
<1>3. QED
  BY <1>1, <1>2
  DEF NV!Next, NV!Store, NV!WriteIntctrl, NV!WriteIntflags, NV!Plain, NV!ServeReady, NV!OpDone,
  NV!Reset

\* A step of another peripheral leaves the controller alone.
LEMMA NvmctrlStands ==
    ASSUME NvmctrlInv,
           UNCHANGED <<part, nvEeprom, nvUserrow, nvFlash, buf, dirty, fbuf, fdirty, fbufPage,
                       section, nvFbusy, nvEebusy, nvEeready, nvIntctrl, nvPending, nvOp>>
    PROVE  NvmctrlInv'
<1>1. NvmctrlMemoryTypes' /\ BufferTypes'
  BY DEF NvmctrlInv, NvmctrlMemoryTypes, BufferTypes
<1>2. OpIsTimed' /\ ReadyIsFlagged'
  BY DEF NvmctrlInv, OpIsTimed, NV!TimersFollowRegisters, ReadyIsFlagged, NV!RequestIsReady
<1>3. QED  BY <1>1, <1>2 DEF NvmctrlInv

\* What the properties ask of the controller.
LEMMA NvmctrlShows ==
    ASSUME NvmctrlInv, Counted
    PROVE  NV!TypeOK /\ NV!TimersFollowRegisters /\ NV!RequestIsReady
<1>1. NV!CcpTypeOK
  BY CcpAssumption DEF Counted, NV!CcpTypeOK
<1>2. QED
  BY <1>1 DEF NvmctrlInv, NvmctrlMemoryTypes, BufferTypes, OpIsTimed, ReadyIsFlagged, NV!TypeOK

-----------------------------------------------------------------------------
(* The memory controller of the AVR DD *)

NvmctrlDdMemoryTypes ==
    eeprom \in DD!Bits /\ userrow \in DD!Bits /\ flash \in [FlashPages -> DD!Bits]

RegisterTypes == armed \in DD!Armable /\ protected \subseteq {"appcode", "appdata"}

\* The flags of an operation and of the ready interrupt.
StatusHolds ==
    /\ fbusy \in BOOLEAN /\ eebusy \in BOOLEAN /\ op \in Nat \cup {DD!Off}
    /\ eeready \in BOOLEAN /\ intctrl \in BOOLEAN /\ ddPending \in BOOLEAN
    /\ DD!TimersFollowRegisters /\ DD!RequestIsReady

DdInv == NvmctrlDdMemoryTypes /\ RegisterTypes /\ StatusHolds

LEMMA NvmctrlDdOpPasses ==
    ASSUME StatusHolds, DD!Executes
    PROVE  DD!Pass(op) \in Nat \cup {DD!Off} /\ (DD!Pass(op) = DD!Off <=> op = DD!Off)
BY DEF StatusHolds, DD!Executes, DD!Pass, DD!Off

LEMMA KeepsStatus ==
    ASSUME StatusHolds, DD!Executes, DD!Keeps, UNCHANGED intctrl
    PROVE  StatusHolds'
<1>1. fbusy' = fbusy /\ eebusy' = eebusy /\ op' = DD!Pass(op) /\ eeready' = eeready
      /\ ddPending' = ddPending
  BY DEF DD!Keeps
<1>2. QED
  BY <1>1, NvmctrlDdOpPasses DEF StatusHolds, DD!TimersFollowRegisters, DD!RequestIsReady, DD!Busy

LEMMA BeginsStatus ==
    ASSUME DD!WellFormed, StatusHolds, DD!BeginFlash \/ DD!BeginEe, UNCHANGED intctrl
    PROVE  StatusHolds'
<1>1. op' = OpTime - 1 /\ OpTime \in Nat \ {0}
  BY DEF DD!BeginFlash, DD!BeginEe, DD!WellFormed
<1>2. op' \in Nat /\ op' # DD!Off
  BY <1>1 DEF DD!Off
<1>3. CASE DD!BeginFlash
  BY <1>2, <1>3 DEF DD!BeginFlash, StatusHolds, DD!TimersFollowRegisters, DD!RequestIsReady,
     DD!Busy
<1>4. CASE DD!BeginEe
  BY <1>2, <1>4 DEF DD!BeginEe, StatusHolds, DD!TimersFollowRegisters, DD!RequestIsReady, DD!Busy
<1>5. QED  BY <1>3, <1>4

\* No page of the boot section, nor of one that is locked, is allowed.
LEMMA AllowedIsOpen ==
    ASSUME DD!WellFormed, NEW exec, NEW p \in FlashPages, DD!Allowed(exec, p)
    PROVE  SectionOf[p] # "boot" /\ SectionOf[p] \notin protected
<1>1. SectionOf[p] \in {"boot", "appcode", "appdata"}
  BY DEF DD!WellFormed, DD!Sections
<1>2. CASE SectionOf[p] = "boot"
  BY <1>2 DEF DD!Allowed
<1>3. CASE SectionOf[p] = "appcode"
  BY <1>3 DEF DD!Allowed
<1>4. CASE SectionOf[p] = "appdata"
  BY <1>4 DEF DD!Allowed
<1>5. QED  BY <1>1, <1>2, <1>3, <1>4

\* A store into the flash programs or erases open pages only.
LEMMA StoreFlashIsAllowed ==
    ASSUME DD!WellFormed, NvmctrlDdMemoryTypes, NEW exec, NEW p \in FlashPages,
           DD!StoreFlash(exec, p)
    PROVE  /\ flash' \in [FlashPages -> DD!Bits]
           /\ \A q \in FlashPages : flash'[q] # flash[q] =>
                  SectionOf[q] # "boot" /\ SectionOf[q] \notin protected
<1>1. flash \in [FlashPages -> DD!Bits]
  BY DEF NvmctrlDdMemoryTypes
<1>2. ASSUME NEW v \in DD!Bits, DD!Allowed(exec, p), flash' = [flash EXCEPT ![p] = v]
      PROVE  /\ flash' \in [FlashPages -> DD!Bits]
             /\ \A q \in FlashPages : flash'[q] # flash[q] => q = p
  BY <1>1, <1>2
<1>3. CASE \E v \in DD!Bits : DD!Allowed(exec, p) /\ flash' = [flash EXCEPT ![p] = v]
  BY <1>2, <1>3, AllowedIsOpen
<1>4. CASE /\ \A q \in DD!ErasedPages(p) : DD!Allowed(exec, q)
           /\ flash' = [q \in FlashPages |-> IF q \in DD!ErasedPages(p) THEN 1 ELSE flash[q]]
  <2>1. flash' \in [FlashPages -> DD!Bits]
    BY <1>1, <1>4 DEF DD!Bits
  <2>2. \A q \in FlashPages : flash'[q] # flash[q] => q \in DD!ErasedPages(p)
    BY <1>4
  <2>3. QED  BY <2>1, <2>2, <1>4, AllowedIsOpen
<1>5. CASE UNCHANGED flash
  BY <1>1, <1>5
<1>6. QED  BY <1>3, <1>4, <1>5 DEF DD!StoreFlash

LEMMA DdStoreKeeps ==
    ASSUME DD!WellFormed, DdInv, DD!Store
    PROVE  DdInv'
<1>1. NvmctrlDdMemoryTypes /\ RegisterTypes /\ StatusHolds
  BY DEF DdInv
<1>2. DD!Executes /\ UNCHANGED <<part, armed, protected, intctrl>>
  BY DEF DD!Store
<1>3. ASSUME DD!BeginFlash \/ DD!BeginEe \/ DD!Keeps
      PROVE  RegisterTypes' /\ StatusHolds'
  BY <1>1, <1>2, <1>3, KeepsStatus, BeginsStatus DEF RegisterTypes
<1>4. ASSUME NEW exec \in DD!Sections, NEW p \in FlashPages, DD!StoreFlash(exec, p)
      PROVE  DdInv'
  <2>1. (DD!BeginFlash \/ DD!Keeps) /\ UNCHANGED <<eeprom, userrow>>
    BY <1>4 DEF DD!StoreFlash
  <2>2. flash' \in [FlashPages -> DD!Bits]
    BY <1>1, <1>4, StoreFlashIsAllowed
  <2>3. QED  BY <2>1, <2>2, <1>1, <1>3 DEF DdInv, NvmctrlDdMemoryTypes
<1>5. CASE DD!StoreEe
  <2>1. (DD!BeginEe \/ DD!Keeps) /\ UNCHANGED <<userrow, flash>>
    BY <1>5 DEF DD!StoreEe
  <2>2. eeprom' \in DD!Bits
    BY <1>1, <1>5 DEF DD!StoreEe, NvmctrlDdMemoryTypes, DD!Bits
  <2>3. QED  BY <2>1, <2>2, <1>1, <1>3 DEF DdInv, NvmctrlDdMemoryTypes
<1>6. CASE DD!StoreUserRow
  <2>1. (DD!BeginFlash \/ DD!Keeps) /\ UNCHANGED <<eeprom, flash>>
    BY <1>6 DEF DD!StoreUserRow
  <2>2. userrow' \in DD!Bits
    BY <1>1, <1>6 DEF DD!StoreUserRow, NvmctrlDdMemoryTypes, DD!Bits
  <2>3. QED  BY <2>1, <2>2, <1>1, <1>3 DEF DdInv, NvmctrlDdMemoryTypes
<1>7. QED  BY <1>4, <1>5, <1>6 DEF DD!Store

LEMMA DdInitHolds ==
    ASSUME DD!WellFormed, DD!Init
    PROVE  DdInv
<1>1. NvmctrlDdMemoryTypes
  BY DEF DD!Init, NvmctrlDdMemoryTypes, DD!Bits
<1>2. RegisterTypes
  BY DEF DD!Init, RegisterTypes, DD!Armable, DD!Commands
<1>3. StatusHolds
  BY DEF DD!Init, StatusHolds, DD!TimersFollowRegisters, DD!RequestIsReady, DD!Busy
<1>4. QED  BY <1>1, <1>2, <1>3 DEF DdInv

\* A command is written, and perhaps armed.
LEMMA DdCommandKeeps ==
    ASSUME DD!WellFormed, DdInv, NEW c \in DD!Commands, DD!WriteCtrla(c)
    PROVE  DdInv'
<1>1. NvmctrlDdMemoryTypes /\ RegisterTypes /\ StatusHolds
  BY DEF DdInv
<1>2. DD!Executes /\ UNCHANGED <<part, userrow, flash, protected, intctrl>>
  BY DEF DD!WriteCtrla
<1>3. CASE UNCHANGED <<armed, eeprom>> /\ DD!Keeps
  BY <1>1, <1>2, <1>3, KeepsStatus DEF DdInv, NvmctrlDdMemoryTypes, RegisterTypes
<1>4. CASE armed' = "NOCMD" /\ eeprom' = 1 /\ DD!BeginEe
  <2>1. eeprom' \in DD!Bits /\ armed' \in DD!Armable
    BY <1>4 DEF DD!Bits, DD!Armable, DD!Commands
  <2>2. StatusHolds'
    BY <1>1, <1>2, <1>4, BeginsStatus
  <2>3. QED  BY <1>1, <1>2, <2>1, <2>2 DEF DdInv, NvmctrlDdMemoryTypes, RegisterTypes
<1>5. CASE c \notin {"CHER", "EECHER", "invalid"} /\ armed' = c /\ UNCHANGED eeprom /\ DD!Keeps
  <2>1. armed' \in DD!Armable
    BY <1>5 DEF DD!Armable
  <2>2. StatusHolds'
    BY <1>1, <1>2, <1>5, KeepsStatus
  <2>3. QED  BY <1>1, <1>2, <1>5, <2>1, <2>2 DEF DdInv, NvmctrlDdMemoryTypes, RegisterTypes
<1>6. QED  BY <1>3, <1>4, <1>5 DEF DD!WriteCtrla

LEMMA DdKeeps ==
    ASSUME DD!WellFormed, DdInv, DD!Next
    PROVE  DdInv'
<1>1. NvmctrlDdMemoryTypes /\ RegisterTypes /\ StatusHolds
  BY DEF DdInv
<1>2. ASSUME UNCHANGED <<DD!memories, armed>>, protected' \subseteq {"appcode", "appdata"},
             StatusHolds'
      PROVE  DdInv'
  BY <1>1, <1>2 DEF DdInv, NvmctrlDdMemoryTypes, RegisterTypes, DD!memories
<1>3. ASSUME NEW s \in SUBSET {"appcode", "appdata"}, DD!WriteCtrlb(s)
      PROVE  DdInv'
  <2>1. protected' \subseteq {"appcode", "appdata"}
    BY <1>1, <1>3 DEF DD!WriteCtrlb, RegisterTypes
  <2>2. StatusHolds'
    BY <1>1, <1>3, KeepsStatus DEF DD!WriteCtrlb
  <2>3. QED  BY <1>2, <1>3, <2>1, <2>2 DEF DD!WriteCtrlb
<1>4. ASSUME NEW e \in BOOLEAN, DD!WriteIntctrl(e)
      PROVE  DdInv'
  <2>1. /\ DD!Executes /\ intctrl' = e /\ ddPending' = (e /\ (ddPending \/ eeready))
        /\ op' = DD!Pass(op) /\ UNCHANGED <<DD!memories, armed, protected, fbusy, eebusy, eeready>>
    BY <1>4 DEF DD!WriteIntctrl
  <2>2. ddPending' \in BOOLEAN /\ (ddPending' => eeready' /\ intctrl')
    BY <2>1, <1>1 DEF StatusHolds, DD!RequestIsReady
  <2>3. StatusHolds'
    BY <1>1, <2>1, <2>2, NvmctrlDdOpPasses DEF StatusHolds, DD!TimersFollowRegisters,
       DD!RequestIsReady, DD!Busy
  <2>4. QED  BY <1>1, <1>2, <2>1, <2>3 DEF RegisterTypes
<1>5. CASE DD!WriteIntflags
  <2>1. /\ DD!Executes /\ eeready' = (eeready /\ ~eebusy) /\ op' = DD!Pass(op)
        /\ UNCHANGED <<DD!memories, armed, protected, fbusy, eebusy, intctrl, ddPending>>
    BY <1>5 DEF DD!WriteIntflags
  <2>2. eeready' = eeready
    BY <2>1, <1>1 DEF StatusHolds, DD!RequestIsReady
  <2>3. StatusHolds'
    BY <1>1, <2>1, <2>2, NvmctrlDdOpPasses DEF StatusHolds, DD!TimersFollowRegisters,
       DD!RequestIsReady, DD!Busy
  <2>4. QED  BY <1>1, <1>2, <2>1, <2>3 DEF RegisterTypes
<1>6. CASE DD!Plain
  <2>1. StatusHolds'
    BY <1>1, <1>6, KeepsStatus DEF DD!Plain
  <2>2. QED  BY <1>1, <1>2, <1>6, <2>1 DEF DD!Plain, RegisterTypes
<1>7. CASE DD!ServeReady
  <2>1. StatusHolds'
    BY <1>1, <1>7 DEF DD!ServeReady, StatusHolds, DD!TimersFollowRegisters, DD!RequestIsReady,
       DD!Busy
  <2>2. QED  BY <1>1, <1>2, <1>7, <2>1 DEF DD!ServeReady, RegisterTypes
<1>8. CASE DD!OpDone
  <2>1. /\ op' = DD!Off /\ fbusy' = FALSE /\ eebusy' = FALSE /\ intctrl' = intctrl
        /\ eeready' = (eeready \/ eebusy) /\ ddPending' = (ddPending \/ (eebusy /\ intctrl))
        /\ UNCHANGED <<DD!memories, armed, protected>>
    BY <1>8 DEF DD!OpDone
  <2>2. eeready' = TRUE /\ ddPending' \in BOOLEAN /\ (ddPending' => intctrl')
    BY <1>1, <2>1 DEF StatusHolds, DD!RequestIsReady
  <2>3. StatusHolds'
    BY <1>1, <2>1, <2>2 DEF StatusHolds, DD!TimersFollowRegisters, DD!RequestIsReady, DD!Busy
  <2>4. QED  BY <1>1, <1>2, <2>1, <2>3 DEF RegisterTypes
<1>9. CASE DD!Reset
  <2>1. /\ armed' = "NOCMD" /\ protected' = {} /\ fbusy' = FALSE /\ eebusy' = FALSE
        /\ eeready' = TRUE /\ intctrl' = FALSE /\ ddPending' = FALSE /\ op' = DD!Off
        /\ UNCHANGED DD!memories
    BY <1>9 DEF DD!Reset, DD!ResetRegisters
  <2>2. RegisterTypes' /\ NvmctrlDdMemoryTypes'
    BY <1>1, <2>1 DEF RegisterTypes, NvmctrlDdMemoryTypes, DD!memories, DD!Armable, DD!Commands
  <2>3. StatusHolds'
    BY <2>1 DEF StatusHolds, DD!TimersFollowRegisters, DD!RequestIsReady, DD!Busy
  <2>4. QED  BY <2>2, <2>3 DEF DdInv
<1>10. QED
  BY <1>3, <1>4, <1>5, <1>6, <1>7, <1>8, <1>9, DdStoreKeeps, DdCommandKeeps DEF DD!Next

LEMMA DdCounts ==
    ASSUME Counted, DD!Next
    PROVE  Counted'
<1>1. CASE UNCHANGED <<ccp, signed>>
  BY <1>1 DEF Counted
<1>2. CASE DD!WriteCcp
  BY <1>2, CcpAssumption DEF Counted, DD!WriteCcp, DD!OpenedCcp, DD!AfterInstruction
<1>3. CASE DD!OtherInstruction
  BY <1>3, CcpAssumption DEF Counted, DD!OtherInstruction, DD!AfterInstruction
<1>4. QED
  BY <1>1, <1>2, <1>3
  DEF DD!Next, DD!Store, DD!WriteCtrla, DD!WriteCtrlb, DD!WriteIntctrl, DD!WriteIntflags,
  DD!Plain, DD!ServeReady,
      DD!OpDone, DD!Reset

\* Commands and locks behind the signature, and no store into a locked section.
LEMMA DdInSequence ==
    ASSUME DD!WellFormed, DdInv, Counted, DD!Next
    PROVE  DD!ChangesInSequence
<1>1. NvmctrlDdMemoryTypes
  BY DEF DdInv
<1>2. ASSUME DD!Unlocked
      PROVE  signed < CcpWindow
  BY <1>2, CcpAssumption DEF DD!Unlocked, Counted
<1>3. ASSUME UNCHANGED <<armed, protected, flash>>
      PROVE  DD!ChangesInSequence
  BY <1>3 DEF DD!ChangesInSequence
<1>4. CASE DD!Store
  <2>1. UNCHANGED <<armed, protected>>
    BY <1>4 DEF DD!Store
  <2>2. ASSUME NEW exec \in DD!Sections, NEW p \in FlashPages, DD!StoreFlash(exec, p)
        PROVE  DD!ChangesInSequence
    BY <1>1, <2>1, <2>2, StoreFlashIsAllowed DEF DD!ChangesInSequence
  <2>3. CASE DD!StoreEe \/ DD!StoreUserRow
    BY <1>3, <2>1, <2>3 DEF DD!StoreEe, DD!StoreUserRow
  <2>4. QED  BY <1>4, <2>2, <2>3 DEF DD!Store
<1>5. ASSUME NEW c \in DD!Commands, DD!WriteCtrla(c)
      PROVE  DD!ChangesInSequence
  <2>1. UNCHANGED <<protected, flash>> /\ (armed' # armed => DD!Unlocked)
    BY <1>5 DEF DD!WriteCtrla
  <2>2. QED  BY <1>2, <2>1 DEF DD!ChangesInSequence
<1>6. ASSUME NEW s \in SUBSET {"appcode", "appdata"}, DD!WriteCtrlb(s)
      PROVE  DD!ChangesInSequence
  <2>1. /\ UNCHANGED <<armed, flash>> /\ protected \subseteq protected'
        /\ (protected' # protected => DD!Unlocked)
    BY <1>6 DEF DD!WriteCtrlb, DD!memories
  <2>2. QED  BY <1>2, <2>1 DEF DD!ChangesInSequence
<1>7. CASE DD!Reset
  <2>1. flash' = flash
    BY <1>7 DEF DD!Reset, DD!memories
  <2>2. QED  BY <1>7, <2>1 DEF DD!ChangesInSequence
<1>8. CASE (\E e \in BOOLEAN : DD!WriteIntctrl(e)) \/ DD!WriteIntflags \/ DD!Plain \/ DD!ServeReady
           \/ DD!OpDone
  BY <1>3, <1>8 DEF DD!WriteIntctrl, DD!WriteIntflags, DD!Plain, DD!ServeReady, DD!OpDone,
     DD!memories
<1>9. QED  BY <1>4, <1>5, <1>6, <1>7, <1>8 DEF DD!Next

\* A step of another peripheral leaves the controller alone.
LEMMA DdStands ==
    ASSUME DdInv,
           UNCHANGED <<part, eeprom, userrow, flash, armed, protected, fbusy, eebusy, eeready,
                       intctrl, ddPending, op>>
    PROVE  DdInv'
<1>1. NvmctrlDdMemoryTypes' /\ RegisterTypes'
  BY DEF DdInv, NvmctrlDdMemoryTypes, RegisterTypes
<1>2. StatusHolds'
  BY DEF DdInv, StatusHolds, DD!TimersFollowRegisters, DD!RequestIsReady, DD!Busy
<1>3. QED  BY <1>1, <1>2 DEF DdInv

\* What the properties ask of the controller.
LEMMA DdShows ==
    ASSUME DdInv, Counted
    PROVE  DD!TypeOK /\ DD!TimersFollowRegisters /\ DD!RequestIsReady
<1>1. DD!CcpTypeOK
  BY CcpAssumption DEF Counted, DD!CcpTypeOK
<1>2. QED  BY <1>1 DEF DdInv, NvmctrlDdMemoryTypes, RegisterTypes, StatusHolds, DD!TypeOK

-----------------------------------------------------------------------------
(* The part *)

Inv ==
    /\ part \in Parts /\ Counted
    /\ WatchdogInv /\ WdtInv /\ ClkInv /\ ClkprInv
    /\ EepromInv /\ FlashInv /\ NvmctrlInv /\ DdInv
    /\ TcaInv /\ TcbInv

\* What the composition takes from its parts and constants.
LEMMA ConstantsAreWellFormed ==
    /\ WD!WellFormed /\ WT!WellFormed /\ CC!WellFormed /\ CP!WellFormed
    /\ EE!WellFormed /\ FL!WellFormed /\ NV!WellFormed /\ DD!WellFormed
    /\ TA!WellFormed /\ TB!WellFormed
BY ProtectedAssumption

LEMMA PartIsTyped ==
    ASSUME part \in Parts
    PROVE  part.exact \in BOOLEAN /\ part.alwaysOn \in BOOLEAN /\ part.dd \in BOOLEAN
           /\ part.extclk \in Nat /\ part.kind \in Kinds
BY ProtectedAssumption DEF PartTypes

LEMMA InitHolds ==
    ASSUME Init
    PROVE  Inv
<1>1. part \in Parts
  BY DEF Init
<1>2. Counted
  BY CcpAssumption DEF Init, WT!Init, WT!CcpInit, Counted
<1>3. WatchdogInv
  BY <1>1, PartIsTyped, ConstantsAreWellFormed, WatchdogInitHolds DEF Init
<1>4. WdtInv
  BY ConstantsAreWellFormed, WdtInitHolds DEF Init
<1>5. ClkInv
  BY <1>1, PartIsTyped, ConstantsAreWellFormed, ClkCtrlInitHolds DEF Init
<1>6. ClkprInv
  BY ConstantsAreWellFormed, ClkprInitHolds DEF Init
<1>7. EepromInv /\ FlashInv
  BY ConstantsAreWellFormed, EepromInitHolds, FlashInitHolds DEF Init
<1>8. NvmctrlInv /\ DdInv
  BY ConstantsAreWellFormed, NvmctrlInitHolds, DdInitHolds DEF Init
<1>9. TcaInv /\ TcbInv
  BY ConstantsAreWellFormed, TcaInitHolds, TcbInitHolds DEF Init
<1>10. QED  BY <1>1, <1>2, <1>3, <1>4, <1>5, <1>6, <1>7, <1>8, <1>9 DEF Inv

\* What no step of a peripheral touches stands.
LEMMA OthersStand ==
    ASSUME Inv, UNCHANGED part
    PROVE  /\ part' \in Parts
           /\ UNCHANGED ofCcp => Counted'
           /\ UNCHANGED ofWatchdog => WatchdogInv'
           /\ UNCHANGED ofWdt => WdtInv'
           /\ UNCHANGED ofClkCtrl => ClkInv'
           /\ UNCHANGED clkpr => ClkprInv'
           /\ UNCHANGED ofEeprom => EepromInv'
           /\ UNCHANGED ofFlash => FlashInv'
           /\ UNCHANGED ofNvmctrl => NvmctrlInv'
           /\ UNCHANGED ofNvmctrlDd => DdInv'
           /\ UNCHANGED tca => TcaInv'
           /\ UNCHANGED tcb => TcbInv'
<1>1. part' \in Parts
  BY DEF Inv
<1>2. UNCHANGED ofCcp => Counted'
  BY DEF Inv, Counted, ofCcp
<1>3. UNCHANGED ofWatchdog => WatchdogInv'
  BY WatchdogStands DEF Inv, ofWatchdog
<1>4. UNCHANGED ofWdt => WdtInv'
  BY WdtStands DEF Inv, ofWdt
<1>5. UNCHANGED ofClkCtrl => ClkInv'
  BY ClkCtrlStands DEF Inv, ofClkCtrl
<1>6. UNCHANGED clkpr => ClkprInv'
  BY ClkprStands DEF Inv
<1>7. UNCHANGED ofEeprom => EepromInv'
  BY EepromStands DEF Inv, ofEeprom
<1>8. UNCHANGED ofFlash => FlashInv'
  BY FlashStands DEF Inv, ofFlash
<1>9. UNCHANGED ofNvmctrl => NvmctrlInv'
  BY NvmctrlStands DEF Inv, ofNvmctrl
<1>10. UNCHANGED ofNvmctrlDd => DdInv'
  BY DdStands DEF Inv, ofNvmctrlDd
<1>11. (UNCHANGED tca => TcaInv') /\ (UNCHANGED tcb => TcbInv')
  BY TcaStands, TcbStands DEF Inv
<1>12. QED
  BY <1>1, <1>2, <1>3, <1>4, <1>5, <1>6, <1>7, <1>8, <1>9, <1>10, <1>11

LEMMA NextKeeps ==
    ASSUME Inv, [Next]_vars
    PROVE  Inv'
<1>1. CASE WatchdogStep
  <2>1. WatchdogInv'
    BY <1>1, ConstantsAreWellFormed, WatchdogKeeps DEF Inv, WatchdogStep
  <2>2. UNCHANGED <<part, ofCcp, ofWdt, ofClkCtrl, clkpr, ofEeprom, ofFlash, ofNvmctrl,
                    ofNvmctrlDd, tca, tcb>>
    BY <1>1 DEF WatchdogStep, memories, timers
  <2>3. QED  BY <2>1, <2>2, OthersStand DEF Inv
<1>2. CASE WdtStep
  <2>1. WdtInv' /\ Counted'
    BY <1>2, ConstantsAreWellFormed, WdtKeeps, WdtCounts DEF Inv, WdtStep
  <2>2. UNCHANGED <<part, ofWatchdog, ofClkCtrl, clkpr, ofEeprom, ofFlash, ofNvmctrl,
                    ofNvmctrlDd, tca, tcb>>
    BY <1>2 DEF WdtStep, memories, timers
  <2>3. QED  BY <2>1, <2>2, OthersStand DEF Inv
<1>3. CASE ClkCtrlStep
  <2>1. ClkInv' /\ Counted'
    BY <1>3, ConstantsAreWellFormed, ClkCtrlKeeps, ClkCtrlCounts DEF Inv, ClkCtrlStep
  <2>2. UNCHANGED <<part, ofWatchdog, ofWdt, clkpr, ofEeprom, ofFlash, ofNvmctrl,
                    ofNvmctrlDd, tca, tcb>>
    BY <1>3 DEF ClkCtrlStep, memories, timers
  <2>3. QED  BY <2>1, <2>2, OthersStand DEF Inv
<1>4. CASE ClkprStep
  <2>1. ClkprInv'
    BY <1>4, ConstantsAreWellFormed, ClkprKeeps DEF Inv, ClkprStep
  <2>2. UNCHANGED <<part, ofCcp, ofWatchdog, ofWdt, ofClkCtrl, ofEeprom, ofFlash, ofNvmctrl,
                    ofNvmctrlDd, tca, tcb>>
    BY <1>4 DEF ClkprStep, memories, timers
  <2>3. QED  BY <2>1, <2>2, OthersStand DEF Inv
<1>5. CASE EepromStep
  <2>1. EepromInv'
    BY <1>5, ConstantsAreWellFormed, EepromKeeps DEF Inv, EepromStep
  <2>2. UNCHANGED <<part, ofCcp, ofWatchdog, ofWdt, ofClkCtrl, clkpr, ofFlash, ofNvmctrl,
                    ofNvmctrlDd, tca, tcb>>
    BY <1>5 DEF EepromStep, clocks, timers
  <2>3. QED  BY <2>1, <2>2, OthersStand DEF Inv
<1>6. CASE FlashStep
  <2>1. FlashInv'
    BY <1>6, ConstantsAreWellFormed, FlashKeeps DEF Inv, FlashStep
  <2>2. UNCHANGED <<part, ofCcp, ofWatchdog, ofWdt, ofClkCtrl, clkpr, ofEeprom, ofNvmctrl,
                    ofNvmctrlDd, tca, tcb>>
    BY <1>6 DEF FlashStep, clocks, timers
  <2>3. QED  BY <2>1, <2>2, OthersStand DEF Inv
<1>7. CASE NvmctrlStep
  <2>1. NvmctrlInv' /\ Counted'
    BY <1>7, ConstantsAreWellFormed, NvmctrlKeeps, NvmctrlCounts DEF Inv, NvmctrlStep
  <2>2. UNCHANGED <<part, ofWatchdog, ofWdt, ofClkCtrl, clkpr, ofEeprom, ofFlash, ofNvmctrlDd,
                    tca, tcb>>
    BY <1>7 DEF NvmctrlStep, clocks, timers
  <2>3. QED  BY <2>1, <2>2, OthersStand DEF Inv
<1>8. CASE NvmctrlDdStep
  <2>1. DdInv' /\ Counted'
    BY <1>8, ConstantsAreWellFormed, DdKeeps, DdCounts DEF Inv, NvmctrlDdStep
  <2>2. UNCHANGED <<part, ofWatchdog, ofWdt, ofClkCtrl, clkpr, ofEeprom, ofFlash, ofNvmctrl,
                    tca, tcb>>
    BY <1>8 DEF NvmctrlDdStep, clocks, timers
  <2>3. QED  BY <2>1, <2>2, OthersStand DEF Inv
<1>9. CASE TcaStep
  <2>1. TcaInv'
    BY <1>9, ConstantsAreWellFormed, TcaKeeps DEF Inv, TcaStep
  <2>2. UNCHANGED <<part, ofCcp, ofWatchdog, ofWdt, ofClkCtrl, clkpr, ofEeprom, ofFlash,
                    ofNvmctrl, ofNvmctrlDd, tcb>>
    BY <1>9 DEF TcaStep, clocks, memories
  <2>3. QED  BY <2>1, <2>2, OthersStand DEF Inv
<1>10. CASE TcbStep
  <2>1. TcbInv'
    BY <1>10, ConstantsAreWellFormed, TcbKeeps DEF Inv, TcbStep
  <2>2. UNCHANGED <<part, ofCcp, ofWatchdog, ofWdt, ofClkCtrl, clkpr, ofEeprom, ofFlash,
                    ofNvmctrl, ofNvmctrlDd, tca>>
    BY <1>10 DEF TcbStep, clocks, memories
  <2>3. QED  BY <2>1, <2>2, OthersStand DEF Inv
<1>11. CASE UNCHANGED vars
  <2>1. UNCHANGED <<part, ofCcp, ofWatchdog, ofWdt, ofClkCtrl, clkpr, ofEeprom, ofFlash,
                    ofNvmctrl, ofNvmctrlDd, tca, tcb>>
    BY <1>11 DEF vars, clocks, memories, timers
  <2>2. QED  BY <2>1, OthersStand DEF Inv
<1>12. QED
  BY <1>1, <1>2, <1>3, <1>4, <1>5, <1>6, <1>7, <1>8, <1>9, <1>10, <1>11 DEF Next

LEMMA Invariance == Spec => []Inv
<1>1. Init => Inv
  BY InitHolds
<1>2. Inv /\ [Next]_vars => Inv'
  BY NextKeeps
<1>3. QED  BY <1>1, <1>2, PTL DEF Spec

-----------------------------------------------------------------------------
(* Theorems *)

\* Every variable of the part's peripheral has its type.
THEOREM TypesStand == Spec => []TypeOK
<1>1. ASSUME Inv
      PROVE  TypeOK
  <2>1. WD!TypeOK /\ WT!TypeOK /\ CC!TypeOK /\ CP!TypeOK
    BY <1>1, WatchdogShows, WdtShows, ClkCtrlShows, ClkprShows, ConstantsAreWellFormed DEF Inv
  <2>2. EE!TypeOK /\ FL!TypeOK /\ NV!TypeOK /\ DD!TypeOK
    BY <1>1, EepromShows, FlashShows, NvmctrlShows, DdShows, ConstantsAreWellFormed DEF Inv
  <2>3. TA!TypeOK /\ TB!TypeOK
    BY <1>1, TcaShows, TcbShows, ConstantsAreWellFormed DEF Inv
  <2>4. part.kind \in Kinds
    BY <1>1, PartIsTyped DEF Inv
  <2>5. QED  BY <2>1, <2>2, <2>3, <2>4 DEF TypeOK, Kinds
<1>2. QED  BY <1>1, Invariance, PTL

\* Whatever is written, executed, timed out, reset or driven in between: each
\* cycle timer is armed exactly while the registers ask for it, and for as long
\* as they say; the output of a timer A or B is that of its count, and what a
\* timer B captured is what lay between the edges.
THEOREM TimersStayArmed == Spec => []TimersFollowRegisters
<1>1. ASSUME Inv
      PROVE  TimersFollowRegisters
  <2>1. WD!TimersFollowRegisters /\ WT!TimerFollowsRegisters /\ CP!TimerFollowsWindow
    BY <1>1, WatchdogShows, WdtShows, ClkprShows, ConstantsAreWellFormed DEF Inv
  <2>2. /\ EE!TimersFollowRegisters /\ FL!TimersFollowRegisters
        /\ NV!TimersFollowRegisters /\ DD!TimersFollowRegisters
    BY <1>1, EepromShows, FlashShows, NvmctrlShows, DdShows, ConstantsAreWellFormed DEF Inv
  <2>3. TA!WorkIsTimed /\ TA!OutputFollowsCount
    BY <1>1, TcaShows DEF Inv
  <2>4. TB!WorkIsTimed /\ TB!OutputFollowsCount /\ TB!CaptureIsWidth
    BY <1>1, TcbShows, ConstantsAreWellFormed DEF Inv
  <2>5. part.kind \in Kinds
    BY <1>1, PartIsTyped DEF Inv
  <2>6. QED  BY <2>1, <2>2, <2>3, <2>4, <2>5 DEF TimersFollowRegisters, Kinds
<1>2. QED  BY <1>1, Invariance, PTL

\* Protected registers are open for exactly CcpWindow instructions after the
\* signature, whichever peripheral they belong to and whatever resets it.
THEOREM WindowStaysExact == Spec => []CcpIsExact
<1>1. Inv => CcpIsExact
  BY CcpAssumption DEF Inv, Counted, CcpIsExact, Unlocked
<1>2. QED  BY <1>1, Invariance, PTL

\* An exact part in interrupt and reset mode is reset by the second time-out
\* that its firmware ignores.
THEOREM HungWatchdogResets == Spec => []HungIsReset
<1>1. Inv => HungIsReset
  BY WatchdogShows DEF Inv, HungIsReset
<1>2. QED  BY <1>1, Invariance, PTL

\* Whatever order a time-out, a software reset, the board and a debugger come
\* in, a reset that is pending is what avr->run makes next, unless the debugger
\* took avr->run over.
THEOREM ResetStaysArmed == Spec => []ResetIsArmed
<1>1. Inv => ResetIsArmed
  BY WdtShows, ConstantsAreWellFormed DEF Inv, ResetIsArmed
<1>2. QED  BY <1>1, Invariance, PTL

\* An EEPROM that is idle has its ready interrupt requested or about to be, and
\* no memory controller requests one it is not ready for.
THEOREM ReadyStaysRequested == Spec => []ReadyRequested
<1>1. Inv => ReadyRequested
  BY EepromShows, NvmctrlShows, DdShows, ConstantsAreWellFormed DEF Inv, ReadyRequested
<1>2. QED  BY <1>1, Invariance, PTL

\* avr->frequency is the rate of the running source divided once, and the rounded
\* quotient of a classic part's undivided clock, however often either is written,
\* loaded or reset, when the board has set the external rates.
THEOREM ClockStaysDivided ==
    ASSUME \A q \in Parts : RateIsSet(q)
    PROVE  Spec => []ClockFollowsRegisters
<1>1. Inv => ClockFollowsRegisters
  <2>1. ASSUME Inv
        PROVE  CC!ClockFollowsRegisters
    BY <2>1, ClkCtrlShows, ConstantsAreWellFormed DEF Inv
  <2>2. ASSUME Inv
        PROVE  CP!ClockFollowsPrescaler
    BY <2>2, ClkprShows, ConstantsAreWellFormed DEF Inv
  <2>3. QED  BY <2>1, <2>2 DEF ClockFollowsRegisters
<1>2. QED  BY <1>1, Invariance, PTL

\* No write, store, command, load or reset changes a protected register or memory
\* outside its timed sequence or once it is locked, on any part.
THEOREM ProtectedChangesInSequence == Spec => ChangesFollowSequence
<1>1. ASSUME Inv, Next
      PROVE  ChangeInSequence
  <2>1. CASE WatchdogStep
    <3>1. part.kind = "watchdog" /\ WD!ChangesInSequence
      BY <1>1, <2>1, ConstantsAreWellFormed, WatchdogInSequence DEF Inv, WatchdogStep
    <3>2. QED  BY <3>1 DEF ChangeInSequence
  <2>2. CASE WdtStep
    <3>1. part.kind = "wdt" /\ WT!ChangesInSequence
      BY <1>1, <2>2, ConstantsAreWellFormed, WdtInSequence DEF Inv, WdtStep
    <3>2. QED  BY <3>1 DEF ChangeInSequence
  <2>3. CASE ClkCtrlStep
    <3>1. part.kind = "clkctrl" /\ CC!ChangesInSequence
      BY <1>1, <2>3, ConstantsAreWellFormed, ClkCtrlInSequence DEF Inv, ClkCtrlStep
    <3>2. QED  BY <3>1 DEF ChangeInSequence
  <2>4. CASE ClkprStep
    <3>1. part.kind = "clkpr" /\ CP!ChangesInSequence
      BY <1>1, <2>4, ConstantsAreWellFormed, ClkprInSequence DEF Inv, ClkprStep
    <3>2. QED  BY <3>1 DEF ChangeInSequence
  <2>5. CASE EepromStep
    <3>1. part.kind = "eeprom" /\ EE!ChangesInSequence
      BY <1>1, <2>5, ConstantsAreWellFormed, EepromInSequence DEF Inv, EepromStep
    <3>2. QED  BY <3>1 DEF ChangeInSequence
  <2>6. CASE FlashStep
    <3>1. part.kind = "flash" /\ FL!ChangesInSequence
      BY <1>1, <2>6, ConstantsAreWellFormed, FlashInSequence DEF Inv, FlashStep
    <3>2. QED  BY <3>1 DEF ChangeInSequence
  <2>7. CASE NvmctrlStep
    <3>1. part.kind = "nvmctrl" /\ NV!ChangesInSequence
      BY <1>1, <2>7, ConstantsAreWellFormed, NvmctrlInSequence DEF Inv, NvmctrlStep
    <3>2. QED  BY <3>1 DEF ChangeInSequence
  <2>8. CASE NvmctrlDdStep
    <3>1. part.kind = "nvmctrl_dd" /\ DD!ChangesInSequence
      BY <1>1, <2>8, ConstantsAreWellFormed, DdInSequence DEF Inv, NvmctrlDdStep
    <3>2. QED  BY <3>1 DEF ChangeInSequence
  <2>9. CASE TcaStep \/ TcbStep
    BY <2>9 DEF TcaStep, TcbStep, ChangeInSequence
  <2>10. QED
    BY <1>1, <2>1, <2>2, <2>3, <2>4, <2>5, <2>6, <2>7, <2>8, <2>9 DEF Next
<1>2. Inv /\ [Next]_vars => [ChangeInSequence]_vars
  BY <1>1
<1>3. QED  BY <1>2, Invariance, PTL DEF Spec, ChangesFollowSequence

=============================================================================
