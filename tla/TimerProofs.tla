----------------------------- MODULE TimerProofs -----------------------------
(***************************************************************************)
(* The proofs about the classic timer: its invariant, and that the counter *)
(* that the firmware sees, though it is computed when it is needed and one *)
(* cycle timer stands for a whole period, is the counter of TimerCounter,  *)
(* which counts in every cycle.  What is seen has one of three shapes      *)
(* (...Shows): of a period that runs (Before), of one that has ended and   *)
(* whose timer is late (Late), and of a counter that stands (Stopped).     *)
(* Every step takes a shape to a shape, and the counter along with it.     *)
(***************************************************************************)
EXTENDS MCPeripherals, TLAPS

-----------------------------------------------------------------------------
(* Products *)

LEMMA ProductIsNat ==
    ASSUME NEW m \in Nat, NEW n \in Nat
    PROVE  m * n \in Nat
OBVIOUS

LEMMA ProductOfDifference ==
    ASSUME NEW m \in Nat, NEW n \in Nat, NEW k \in Nat, m > n
    PROVE  (m - n) * k \in Nat /\ (m - n) * k = m * k - n * k
<1>1. m - n \in Nat
  OBVIOUS
<1>2. (m - n) * k \in Nat
  BY <1>1, ProductIsNat
<1>3. QED  BY <1>2

LEMMA ProductGrows ==
    ASSUME NEW m \in Nat, NEW n \in Nat, NEW k \in Nat, m <= n
    PROVE  m * k <= n * k
OBVIOUS

\* A place behind the first m ones.
LEMMA PlaceBehind ==
    ASSUME NEW m \in Nat, NEW n \in Nat, NEW r \in Nat, NEW i \in 1 .. m + n, ~(i <= m)
    PROVE  \E j \in 1 .. n : i = m + j /\ r + i = r + m + j
<1>1. i - m \in 1 .. n /\ i = m + (i - m) /\ r + i = r + m + (i - m)
  OBVIOUS
<1>2. QED  BY <1>1

LEMMA QuotientIsLess ==
    ASSUME NEW m \in Nat, NEW n \in Nat, NEW k \in Nat, m <= n, n > 0
    PROVE  (m * k) \div n \in 0 .. k
OBVIOUS

\* One more: the remainder grows, or the quotient.
LEMMA DividesNext ==
    ASSUME NEW a \in Nat, NEW d \in Nat \ {0}
    PROVE  /\ (a % d) + 1 < d => (a + 1) \div d = a \div d /\ (a + 1) % d = (a % d) + 1
           /\ (a % d) + 1 >= d => (a + 1) \div d = (a \div d) + 1 /\ (a + 1) % d = 0
OBVIOUS

LEMMA Divides ==
    ASSUME NEW a \in Nat, NEW d \in Nat \ {0}
    PROVE  a \div d \in Nat /\ a % d \in 0 .. d - 1 /\ a = (a \div d) * d + (a % d)
OBVIOUS

LEMMA ExactQuotient ==
    ASSUME NEW q \in Nat, NEW d \in Nat \ {0}
    PROVE  (q * d) \div d = q /\ (q * d) % d = 0
OBVIOUS

LEMMA RemainderIs ==
    ASSUME NEW q \in Nat, NEW d \in Nat \ {0}, NEW r \in Nat, r < d
    PROVE  (q * d + r) % d = r
OBVIOUS

\* The remainder of a number in the first period, and behind it.
LEMMA RemainderOnce ==
    ASSUME NEW a \in Nat, NEW d \in Nat \ {0}
    PROVE  /\ a % d \in 0 .. d - 1
           /\ a < d => a % d = a
           /\ a >= d => a - d \in Nat /\ (a - d) % d = a % d /\ a % d <= a - d
<1>1. a < d => a % d = a
  OBVIOUS
<1>2. ASSUME a >= d
      PROVE  a - d \in Nat /\ (a - d) % d = a % d /\ a % d <= a - d
  <2>1. PICK b \in Nat : b = a - d /\ a = b + d
    BY <1>2
  <2>2. PICK q \in Nat, r \in Nat : q = b \div d /\ r = b % d /\ b = q * d + r /\ r < d
    BY Divides
  <2>3. (b + d) % d = r
    <3>1. PICK m \in Nat : m = q + 1
      OBVIOUS
    <3>2. b + d = m * d + r
      BY <2>2, <3>1
    <3>3. (m * d + r) % d = r
      BY <2>2, RemainderIs
    <3>4. QED  BY <3>2, <3>3
  <2>4. q * d \in Nat
    BY ProductIsNat
  <2>5. r <= b
    BY <2>2, <2>4
  <2>6. QED  BY <2>1, <2>2, <2>3, <2>5
<1>3. QED  BY <1>1, <1>2, Divides

LEMMA RemainderMoves ==
    ASSUME NEW a \in Nat, NEW d \in Nat \ {0}, NEW r, r = a % d
    PROVE  /\ r \in Nat /\ r < d /\ (a < d => r = a)
           /\ a >= d => r <= a - d
           /\ a >= d /\ a - d < d => r = a - d
           /\ r + 1 < d => (a + 1) % d = r + 1
           /\ r + 1 >= d => (a + 1) % d = 0
<1>1. r \in Nat /\ r < d /\ (a < d => r = a) /\ (a >= d => r <= a - d)
  <2>1. a % d \in 0 .. d - 1
    OBVIOUS
  <2>2. a < d => a % d = a
    OBVIOUS
  <2>3. a >= d => a % d <= a - d
    BY RemainderOnce
  <2>4. QED  BY <2>1, <2>2, <2>3
<1>2. ASSUME a >= d, a - d < d
      PROVE  r = a - d
  <2>1. PICK b \in Nat : b = a - d /\ b < d /\ b % d = a % d
    BY <1>2, RemainderOnce
  <2>2. b % d = b
    BY <2>1, RemainderOnce
  <2>3. QED  BY <2>1, <2>2
<1>3. (r + 1 < d => (a + 1) % d = r + 1) /\ (r + 1 >= d => (a + 1) % d = 0)
  BY <1>1, DividesNext
<1>4. QED  BY <1>1, <1>2, <1>3

-----------------------------------------------------------------------------
(* The classic timer *)

Units == TM!Units
Deadlines == [Units -> Int]
TimerFlags == SUBSET ({"TOV"} \cup Units)
TimerRecord ==
    [mode : TM!Modes \cup {"none"}, div : Divs \cup {0}, ocr : [Units -> TM!Values],
     pend : SUBSET Units, act : [Units -> TM!Values], top : TM!Values, len : Nat,
     cc : [Units -> Nat], el : Nat, tov : Int, comp : Deadlines, halted : BOOLEAN,
     held : TM!Values, reset : BOOLEAN, flags : TimerFlags]

\* Nothing of the timer lasts longer than a period that ends late.
TimerFits(t) ==
    /\ t.len < Longest /\ t.el <= Longest + Lateness
    /\ t.div = 0 => t.len = 0

\* The overflow stands at the end of the period that runs.
TimerRuns(t) ==
    /\ t.tov # TM!Never => t.div # 0 /\ ~t.halted /\ ~t.reset /\ t.len >= 2 /\ t.tov = t.len - t.el
    /\ t.div # 0 /\ ~t.halted /\ ~t.reset => t.tov # TM!Never

TimerMatches(t) ==
    \A u \in Units : t.comp[u] # TM!Never =>
        t.tov # TM!Never /\ t.comp[u] = t.cc[u] - t.el /\ t.comp[u] < t.tov

\* Neither the OCR nor the one in effect makes a period of a single cycle.
TimerTimed(t) ==
    t.div # 0 /\ ~t.reset =>
        /\ t.mode \in TM!Modes /\ TM!Timed(t)
        /\ "A" \in t.pend => t.div * (t.act["A"] + 1) # 1

TimerInv(t) ==
    t \in TimerRecord /\ TimerFits(t) /\ TimerRuns(t) /\ TimerMatches(t) /\ TimerTimed(t)

LEMMA TimerConstants ==
    ASSUME TM!WellFormed
    PROVE  /\ MaxCount \in Nat /\ MaxCount >= 1 /\ Lateness \in Nat
           /\ Longest \in Nat /\ Longest > 0 /\ TM!Never \in Int /\ TM!Never < -Lateness
           /\ TM!Values = 0 .. MaxCount /\ 0 \in TM!Values /\ Units = {"A", "B"}
           /\ \A d \in Divs : d \in Nat /\ d # 0
<1>1. /\ MaxCount \in Nat /\ MaxCount >= 1 /\ Lateness \in Nat
      /\ Longest \in Nat /\ Longest > 0
  BY DEF TM!WellFormed
<1>2. TM!Never \in Int /\ TM!Never < -Lateness
  BY <1>1 DEF TM!Never
<1>3. TM!Values = 0 .. MaxCount /\ 0 \in TM!Values /\ Units = {"A", "B"}
  BY <1>1 DEF TM!Values, Units, TM!Units
<1>4. \A d \in Divs : d \in Nat /\ d # 0
  BY DEF TM!WellFormed
<1>5. QED  BY <1>1, <1>2, <1>3, <1>4

\* The cycles of a period up to a count.
LEMMA CyclesOfCount ==
    ASSUME TM!WellFormed, NEW d \in Divs \cup {0}, NEW n \in TM!Values
    PROVE  /\ d * (n + 1) \in Nat /\ d * (n + 1) < Longest
           /\ d = 0 => d * (n + 1) = 0
           /\ d # 0 /\ d * (n + 1) # 1 => d * (n + 1) >= 2
<1>1. n \in Nat /\ n + 1 \in Nat /\ n + 1 <= MaxCount + 1 /\ MaxCount + 1 \in Nat /\ n + 1 >= 1
  BY TimerConstants
<1>2. CASE d = 0
  BY <1>1, <1>2, TimerConstants
<1>3. CASE d # 0
  <2>1. d \in Nat /\ d \in Divs /\ d >= 1
    BY <1>3, TimerConstants
  <2> DEFINE k == n + 1
             m == MaxCount + 1
  <2>2. k \in Nat /\ m \in Nat /\ k <= m /\ k >= 1
    BY <1>1
  <2>3. d * m < Longest
    BY <2>1 DEF TM!WellFormed
  <2> HIDE DEF k, m
  <2>4. d * k \in Nat /\ d * m \in Nat
    BY <2>1, <2>2, ProductIsNat
  <2>5. k * d <= m * d
    BY <2>1, <2>2, ProductGrows
  <2>6. d * k <= d * m
    <3>1. k * d = d * k /\ m * d = d * m
      BY <2>1, <2>2
    <3>2. QED  BY <2>5, <3>1
  <2>7. d * k < Longest
    <3>1. \A a, b, c \in Nat : a <= b /\ b < c => a < c
      OBVIOUS
    <3>2. Longest \in Nat
      BY TimerConstants
    <3>3. QED  BY <2>3, <2>4, <2>6, <3>1, <3>2, Zenon
  <2>8. d * k # 0
    <3>1. \A a, b \in Nat : a >= 1 /\ b >= 1 => a * b # 0
      OBVIOUS
    <3>2. QED  BY <2>1, <2>2, <3>1
  <2>9. \A a \in Nat : a # 0 /\ a # 1 => a >= 2
    OBVIOUS
  <2>10. QED  BY <1>3, <2>4, <2>7, <2>8, <2>9, Zenon DEF k
<1>4. QED  BY <1>2, <1>3

LEMMA TopIsValue ==
    ASSUME TM!WellFormed, NEW t \in TimerRecord
    PROVE  /\ \A u \in Units : TM!OcrEff(t, u) \in TM!Values
           /\ TM!Top(t) \in TM!Values
           /\ t.mode \in TM!Modes => TM!Top(t) = MaxCount \/ TM!Top(t) = TM!OcrEff(t, "A")
<1>1. /\ t.act \in [Units -> TM!Values] /\ t.ocr \in [Units -> TM!Values]
      /\ t.mode \in TM!Modes \cup {"none"}
  BY DEF TimerRecord
<1>2. \A u \in Units : TM!OcrEff(t, u) \in TM!Values
  BY <1>1 DEF TM!OcrEff
<1>3. "A" \in Units /\ MaxCount \in TM!Values /\ 0 \in TM!Values /\ "none" \notin TM!Modes
  BY TimerConstants DEF TM!Modes
<1>4. QED  BY <1>2, <1>3, Zenon DEF TM!Top

\* avr_timer_recompute
LEMMA RecomputeIs ==
    ASSUME TM!WellFormed, NEW t \in TimerRecord
    PROVE  \E top \in TM!Values : \E len \in Nat : \E cc \in [Units -> Nat] :
              /\ TM!Recompute(t) = [t EXCEPT !.top = top, !.len = len, !.cc = cc]
              /\ len < Longest /\ (t.div = 0 => len = 0)
              /\ t.div # 0 /\ t.mode \in TM!Modes /\ t.div * (TM!OcrEff(t, "A") + 1) # 1 => len >= 2
<1> DEFINE top == TM!Top(t)
           len == t.div * (top + 1)
           E(u) == TM!OcrEff(t, u)
           cc == [u \in Units |-> IF E(u) <= top THEN t.div * (E(u) + 1) ELSE 0]
<1>1. TM!Recompute(t) = [t EXCEPT !.top = top, !.len = len, !.cc = cc]
  BY DEF TM!Recompute, Units
<1>2. top \in TM!Values /\ \A u \in Units : E(u) \in TM!Values
  BY TopIsValue
<1>3. t.div \in Divs \cup {0}
  BY DEF TimerRecord
<1>4. t.mode \in TM!Modes => top = MaxCount \/ top = E("A")
  BY TopIsValue
<1> HIDE DEF top, E
<1>5. len \in Nat /\ len < Longest /\ (t.div = 0 => len = 0)
      /\ (t.div # 0 /\ len # 1 => len >= 2)
  BY <1>2, <1>3, CyclesOfCount
<1>6. cc \in [Units -> Nat]
  <2>1. \A u \in Units : t.div * (E(u) + 1) \in Nat
    BY <1>2, <1>3, CyclesOfCount
  <2>2. QED  BY <2>1
<1>7. ASSUME t.div # 0, t.mode \in TM!Modes, t.div * (E("A") + 1) # 1
      PROVE  len # 1
  <2>1. CASE top = E("A")
    BY <1>7, <2>1
  <2>2. CASE top = MaxCount
    <3>1. t.div \in Nat /\ t.div >= 1 /\ MaxCount + 1 >= 2 /\ MaxCount + 1 \in Nat
      BY <1>3, <1>7, TimerConstants
    <3>2. \A a, b \in Nat : a >= 1 /\ b >= 2 => a * b # 1
      <4>1. SUFFICES ASSUME NEW a \in Nat, NEW b \in Nat, a >= 1, b >= 2
                     PROVE  a * b # 1
        OBVIOUS
      <4>2. 1 * b <= a * b
        BY <4>1, ProductGrows
      <4>3. QED  BY <4>1, <4>2
    <3>3. QED  BY <2>2, <3>1, <3>2, Zenon
  <2>3. QED  BY <1>4, <1>7, <2>1, <2>2
<1> HIDE DEF len, cc
<1>8. QED  BY <1>1, <1>2, <1>5, <1>6, <1>7, Zenon DEF E

\* avr_timer_tov, with the period it is about.
Begun(q, late, start, blocked) ==
    LET Ahead(u) ==
            /\ q.cc[u] \in 1 .. q.len - 1 /\ q.cc[u] >= late
            /\ ~(blocked /\ q.cc[u] - late <= q.div)
        atTop == {u \in Units : q.cc[u] = q.len}
    IN [q EXCEPT !.el = late,
                 !.comp = [u \in Units |-> IF Ahead(u) THEN q.cc[u] - late ELSE @[u]],
                 !.flags = IF start THEN @ ELSE @ \cup atTop \cup
                                                (IF TM!Silent(q) THEN {} ELSE {"TOV"})]

\* The period of q began late cycles ago in b, and the matches ahead are waited for.
Begins(b, q, late) ==
    \E c \in Deadlines : \E f \in TimerFlags :
        /\ b = [q EXCEPT !.el = late, !.comp = c, !.flags = f]
        /\ \A u \in Units : c[u] = TM!Never
                            \/ (c[u] = q.cc[u] - late /\ c[u] < q.len - late)

LEMMA PeriodIs ==
    ASSUME NEW t, NEW late, NEW start, NEW blocked
    PROVE  TM!Period(t, late, start, blocked) =
               Begun(IF ~start /\ TM!Buffered(t) THEN TM!Latch(t) ELSE t, late, start, blocked)
BY DEF TM!Period, Begun, Units

LEMMA BegunIs ==
    ASSUME NEW q \in TimerRecord, NEW late \in Nat, NEW start, NEW blocked,
           \A u \in Units : q.comp[u] = TM!Never
    PROVE  Begins(Begun(q, late, start, blocked), q, late)
<1> DEFINE Ahead(u) == /\ q.cc[u] \in 1 .. q.len - 1 /\ q.cc[u] >= late
                       /\ ~(blocked /\ q.cc[u] - late <= q.div)
           c == [u \in Units |-> IF Ahead(u) THEN q.cc[u] - late ELSE q.comp[u]]
           atTop == {u \in Units : q.cc[u] = q.len}
           f == IF start THEN q.flags
                ELSE q.flags \cup atTop \cup (IF TM!Silent(q) THEN {} ELSE {"TOV"})
<1>1. Begun(q, late, start, blocked) = [q EXCEPT !.el = late, !.comp = c, !.flags = f]
  BY DEF Begun
<1>2. /\ q.cc \in [Units -> Nat] /\ q.len \in Nat /\ q.comp \in Deadlines
      /\ q.flags \in TimerFlags
  BY DEF TimerRecord
<1>3. c \in Deadlines
  BY <1>2 DEF Deadlines
<1>4. f \in TimerFlags
  BY <1>2 DEF TimerFlags
<1>5. \A u \in Units : c[u] = TM!Never \/ (c[u] = q.cc[u] - late /\ c[u] < q.len - late)
  BY <1>2
<1> HIDE DEF c, f
<1>6. QED  BY <1>1, <1>3, <1>4, <1>5, Zenon DEF Begins

\* avr_timer_tov or the start of a period, late cycles after it began.
LEMMA BegunHolds ==
    ASSUME TM!WellFormed, NEW q \in TimerRecord, NEW late \in Nat, late <= Longest + Lateness,
           q.len < Longest, q.len >= 2, q.div # 0, ~q.halted, ~q.reset, TimerTimed(q),
           NEW b, Begins(b, q, late), NEW w, w = [b EXCEPT !.tov = q.len - late]
    PROVE  /\ q.tov = q.len - late => b = w
           /\ b.len = q.len
           /\ TimerInv(w) /\ w.tov # TM!Never /\ w.len = q.len /\ w.div = q.div /\ ~w.reset
<1>1. PICK c \in Deadlines : \E f \in TimerFlags :
          /\ b = [q EXCEPT !.el = late, !.comp = c, !.flags = f]
          /\ \A u \in Units : c[u] = TM!Never
                              \/ (c[u] = q.cc[u] - late /\ c[u] < q.len - late)
  BY Zenon DEF Begins
<1>2. PICK f \in TimerFlags :
          /\ b = [q EXCEPT !.el = late, !.comp = c, !.flags = f]
          /\ \A u \in Units : c[u] = TM!Never
                              \/ (c[u] = q.cc[u] - late /\ c[u] < q.len - late)
  BY <1>1, Zenon
<1> DEFINE tov == q.len - late
<1>3. w = [q EXCEPT !.el = late, !.comp = c, !.flags = f, !.tov = tov]
  BY <1>2
<1>4. b.len = q.len /\ (q.tov = tov => b = w)
  <2> HIDE DEF tov
  <2>1. b.len = q.len
    BY <1>2 DEF TimerRecord
  <2>2. ASSUME q.tov = tov
        PROVE  b = w
      <3>1. b \in TimerRecord
        BY <1>2 DEF TimerRecord
      <3>2. b.tov = tov
        BY <1>2, <2>2 DEF TimerRecord
      <3>3. w = [b EXCEPT !.tov = tov]
        BY DEF tov
      <3>4. QED  BY <3>1, <3>2, <3>3 DEF TimerRecord
  <2>3. QED  BY <2>1, <2>2
<1>5. tov \in Int /\ tov # TM!Never
  <2>1. q.len \in Nat
    BY DEF TimerRecord
  <2>2. Longest \in Nat /\ Lateness \in Nat /\ TM!Never = -Longest - Lateness
    BY TimerConstants DEF TM!Never
  <2>3. QED  BY <2>1, <2>2
<1>6. tov = q.len - late
  OBVIOUS
<1> HIDE DEF tov
<1>7. w \in TimerRecord
  BY <1>2, <1>3, <1>5, ZenonT(30) DEF TimerRecord
<1>8. /\ w.el = late /\ w.comp = c /\ w.tov = tov /\ w.len = q.len /\ w.top = q.top
      /\ w.div = q.div /\ w.halted = q.halted /\ w.reset = q.reset /\ w.mode = q.mode
      /\ w.cc = q.cc /\ w.ocr = q.ocr /\ w.pend = q.pend /\ w.act = q.act
  BY <1>3, ZenonT(30) DEF TimerRecord
<1>9. TimerFits(w)
  BY <1>8 DEF TimerFits
<1>10. TimerRuns(w)
  BY <1>5, <1>6, <1>8 DEF TimerRuns
<1>11. TimerMatches(w)
  BY <1>2, <1>5, <1>6, <1>8 DEF TimerMatches
<1>12. TimerTimed(w)
  BY <1>8 DEF TimerTimed, TM!Timed
<1>13. TimerInv(w)
  BY <1>7, <1>9, <1>10, <1>11, <1>12 DEF TimerInv
<1>14. w.len = q.len /\ w.div = q.div /\ ~w.reset /\ w.tov # TM!Never
  BY <1>5, <1>8
<1>15. QED  BY <1>4, <1>6, <1>13, <1>14

\* avr_timer_cancel_all_cycle_timers
LEMMA CancelledIs ==
    ASSUME TM!WellFormed, NEW t \in TimerRecord
    PROVE  /\ TM!Cancelled(t) \in TimerRecord
           /\ TM!Cancelled(t) = [t EXCEPT !.tov = TM!Never, !.comp = TM!Unarmed, !.el = 0]
           /\ \A u \in Units : TM!Unarmed[u] = TM!Never
           /\ TM!Cleared(t) \in TimerRecord
           /\ TM!Cleared(t) = [t EXCEPT !.tov = TM!Never, !.comp = TM!Unarmed, !.el = 0,
                                        !.len = 0, !.cc = TM!Zero]
<1>1. TM!Unarmed \in Deadlines /\ \A u \in Units : TM!Unarmed[u] = TM!Never
  BY TimerConstants DEF TM!Unarmed, Units, Deadlines
<1>2. TM!Zero \in [Units -> Nat]
  BY DEF TM!Zero, Units
<1>3. TM!Cancelled(t) = [t EXCEPT !.tov = TM!Never, !.comp = TM!Unarmed, !.el = 0]
  BY DEF TM!Cancelled
<1>4. TM!Cleared(t) = [t EXCEPT !.tov = TM!Never, !.comp = TM!Unarmed, !.el = 0,
                                !.len = 0, !.cc = TM!Zero]
  BY DEF TM!Cancelled, TM!Cleared
<1>5. TM!Never \in Int
  BY TimerConstants
<1>6. TM!Cancelled(t) \in TimerRecord
  <2>1. \A a \in Int : \A b \in Deadlines : [t EXCEPT !.tov = a, !.comp = b, !.el = 0] \in TimerRecord
    BY DEF TimerRecord
  <2>2. QED  BY <1>1, <1>3, <1>5, <2>1, Zenon
<1>7. TM!Cleared(t) \in TimerRecord
  <2>1. \A a \in Int : \A b \in Deadlines : \A z \in [Units -> Nat] :
            [t EXCEPT !.tov = a, !.comp = b, !.el = 0, !.len = 0, !.cc = z] \in TimerRecord
    BY DEF TimerRecord
  <2>2. [t EXCEPT !.tov = TM!Never, !.comp = TM!Unarmed, !.el = 0, !.len = 0, !.cc = TM!Zero]
            \in TimerRecord
    BY <1>1, <1>2, <1>5, <2>1, Zenon
  <2>3. QED  BY <1>4, <2>2, Zenon
<1>8. QED  BY <1>1, <1>3, <1>4, <1>6, <1>7

\* A timer that waits for nothing.
LEMMA IdleHolds ==
    ASSUME TM!WellFormed, NEW w \in TimerRecord, w.tov = TM!Never,
           \A u \in Units : w.comp[u] = TM!Never, w.el = 0, TimerTimed(w),
           w.len < Longest, w.div = 0 => w.len = 0, w.div = 0 \/ w.halted \/ w.reset
    PROVE  TimerInv(w)
<1>1. TimerFits(w)
  BY TimerConstants DEF TimerFits
<1>2. TimerRuns(w) /\ TimerMatches(w)
  BY DEF TimerRuns, TimerMatches
<1>3. QED  BY <1>1, <1>2 DEF TimerInv

LEMMA SameTimed ==
    ASSUME NEW t, NEW w, TimerTimed(t), w.mode = t.mode, w.div = t.div, w.ocr = t.ocr,
           w.pend = t.pend, w.act = t.act, w.reset = t.reset
    PROVE  TimerTimed(w) /\ TM!OcrEff(w, "A") = TM!OcrEff(t, "A")
BY DEF TimerTimed, TM!Timed, TM!OcrEff, TM!Buffered

\* avr_timer_reconfigure
LEMMA ReconfigureHolds ==
    ASSUME TM!WellFormed, NEW t \in TimerRecord, t.el <= Longest + Lateness, TimerTimed(t),
           ~t.reset, t.div # 0 => t.div * (TM!OcrEff(t, "A") + 1) # 1, NEW restart \in BOOLEAN,
           NEW w, w = TM!Reconfigure(t, restart)
    PROVE  TimerInv(w) /\ ~w.reset
<1> DEFINE c == TM!Cleared(t)
           q == TM!Recompute(c)
           began == IF restart THEN 0 ELSE t.el
           z == [q EXCEPT !.tov = q.len - began]
<1>1. c \in TimerRecord
      /\ c = [t EXCEPT !.tov = TM!Never, !.comp = TM!Unarmed, !.el = 0, !.len = 0, !.cc = TM!Zero]
  BY CancelledIs, Zenon
<1>2. /\ c.mode = t.mode /\ c.div = t.div /\ c.ocr = t.ocr /\ c.pend = t.pend
      /\ c.act = t.act /\ c.halted = t.halted /\ c.reset = t.reset
      /\ c.len = 0 /\ c.el = 0 /\ c.tov = TM!Never /\ c.comp = TM!Unarmed
  BY <1>1 DEF TimerRecord
<1>3. TimerTimed(c) /\ TM!OcrEff(c, "A") = TM!OcrEff(t, "A")
  BY <1>2, SameTimed
<1>4. w = IF t.halted THEN c
          ELSE IF q.len <= 1 THEN q
          ELSE TM!Period(z, began, TRUE, FALSE)
  BY DEF TM!Reconfigure
<1>5. \A u \in Units : TM!Unarmed[u] = TM!Never
  BY CancelledIs, Zenon
<1> HIDE DEF c
<1>6. ASSUME t.halted
      PROVE  TimerInv(c)
  <2>1. 0 < Longest
    BY TimerConstants
  <2>2. QED  BY <1>1, <1>2, <1>3, <1>5, <1>6, <2>1, IdleHolds, ZenonT(30)
<1>7. PICK top \in TM!Values : \E len \in Nat : \E cc \in [Units -> Nat] :
              /\ q = [c EXCEPT !.top = top, !.len = len, !.cc = cc]
              /\ len < Longest /\ (c.div = 0 => len = 0)
              /\ c.div # 0 /\ c.mode \in TM!Modes /\ c.div * (TM!OcrEff(c, "A") + 1) # 1 => len >= 2
  BY <1>1, RecomputeIs, Zenon
<1>8. PICK len \in Nat : \E cc \in [Units -> Nat] :
              /\ q = [c EXCEPT !.top = top, !.len = len, !.cc = cc]
              /\ len < Longest /\ (c.div = 0 => len = 0)
              /\ c.div # 0 /\ c.mode \in TM!Modes /\ c.div * (TM!OcrEff(c, "A") + 1) # 1 => len >= 2
  BY <1>7, Zenon
<1>9. PICK cc \in [Units -> Nat] :
              /\ q = [c EXCEPT !.top = top, !.len = len, !.cc = cc]
              /\ len < Longest /\ (c.div = 0 => len = 0)
              /\ c.div # 0 /\ c.mode \in TM!Modes /\ c.div * (TM!OcrEff(c, "A") + 1) # 1 => len >= 2
  BY <1>8, Zenon
<1> HIDE DEF q
<1>10. q \in TimerRecord
  BY <1>1, <1>9 DEF TimerRecord
<1>11. /\ q.mode = t.mode /\ q.div = t.div /\ q.ocr = t.ocr /\ q.pend = t.pend
       /\ q.act = t.act /\ q.halted = t.halted /\ q.reset = t.reset
       /\ q.len = len /\ q.el = 0 /\ q.tov = TM!Never /\ q.comp = TM!Unarmed
  BY <1>1, <1>2, <1>9 DEF TimerRecord
<1>12. TimerTimed(q)
  BY <1>11, SameTimed
<1>13. t.div # 0 => len >= 2
  <2>1. t.div # 0 => t.mode \in TM!Modes
    BY DEF TimerTimed
  <2>2. QED  BY <1>2, <1>3, <1>9, <2>1, Zenon
<1>14. ASSUME ~t.halted, q.len <= 1
       PROVE  TimerInv(q)
  <2>1. q.div = 0 /\ q.len = 0
    BY <1>2, <1>9, <1>11, <1>13, <1>14
  <2>2. 0 < Longest
    BY TimerConstants
  <2>3. QED  BY <1>5, <1>10, <1>11, <1>12, <2>1, <2>2, IdleHolds
<1>15. ASSUME ~t.halted, ~(q.len <= 1)
       PROVE  LET p == TM!Period(z, began, TRUE, FALSE)
              IN  TimerInv(p) /\ ~p.reset
  <2>1. q.len >= 2 /\ q.div # 0 /\ q.len < Longest
    BY <1>2, <1>9, <1>11, <1>15
  <2>2. began \in Nat /\ began <= Longest + Lateness
    <3>1. t.el \in Nat
      BY DEF TimerRecord
    <3>2. QED  BY <3>1, TimerConstants
  <2> HIDE DEF began
  <2>3. q.len - began \in Int
    BY <1>11, <2>2
  <2>4. z \in TimerRecord
    <3>1. \A k \in Int : [q EXCEPT !.tov = k] \in TimerRecord
      BY <1>10 DEF TimerRecord
    <3>2. QED  BY <2>3, <3>1
  <2>5. /\ z.mode = q.mode /\ z.div = q.div /\ z.ocr = q.ocr /\ z.pend = q.pend
        /\ z.act = q.act /\ z.halted = q.halted /\ z.reset = q.reset
        /\ z.len = q.len /\ z.comp = q.comp /\ z.tov = q.len - began
    BY <1>10 DEF TimerRecord
  <2> HIDE DEF z
  <2>6. TimerTimed(z)
    BY <1>12, <2>5, SameTimed
  <2>7. TM!Period(z, began, TRUE, FALSE) = Begun(z, began, TRUE, FALSE)
    BY PeriodIs
  <2>8. \A u \in Units : z.comp[u] = TM!Never
    BY <1>5, <1>11, <2>5
  <2> DEFINE b == Begun(z, began, TRUE, FALSE)
             p == [b EXCEPT !.tov = z.len - began]
  <2>9. z.len < Longest /\ z.len >= 2 /\ z.div # 0 /\ ~z.halted /\ ~z.reset
    BY <1>11, <1>15, <2>1, <2>5
  <2>10. /\ z.tov = z.len - began => b = p
         /\ TimerInv(p) /\ ~p.reset
    <3>1. Begins(b, z, began)
      BY <2>2, <2>4, <2>8, BegunIs, Zenon
    <3>2. p = [b EXCEPT !.tov = z.len - began]
      OBVIOUS
    <3> HIDE DEF b, p
    <3>3. TimerInv(p)
      BY <2>2, <2>4, <2>6, <2>9, <3>1, <3>2, BegunHolds
    <3>4. z.tov = z.len - began => b = p
      BY <2>2, <2>4, <2>6, <2>9, <3>1, <3>2, BegunHolds
    <3>5. ~p.reset
      BY <2>2, <2>4, <2>6, <2>9, <3>1, <3>2, BegunHolds
    <3>6. QED  BY <3>3, <3>4, <3>5
  <2>11. z.tov = z.len - began
    BY <2>5
  <2> HIDE DEF p, b
  <2>12. b = p
    BY <2>10, <2>11
  <2>13. QED  BY <2>7, <2>10, <2>12 DEF b
<1>16. QED
  <2>1. CASE t.halted
    BY <1>2, <1>4, <1>6, <2>1
  <2>2. CASE ~t.halted /\ q.len <= 1
    BY <1>4, <1>11, <1>14, <2>2
  <2>3. CASE ~t.halted /\ ~(q.len <= 1)
    BY <1>4, <1>15, <2>3, Zenon
  <2>4. QED  BY <2>1, <2>2, <2>3

\* avr_timer_tcnt_write
LEMMA SetTcntHolds ==
    ASSUME TM!WellFormed, NEW t, TimerInv(t), ~t.reset, NEW v \in Nat,
           t.halted => v \in TM!Values, NEW psr \in BOOLEAN
    PROVE  TimerInv(TM!SetTcnt(t, v, psr))
<1> DEFINE n == IF v > t.top \/ (v = t.top /\ ~part.strict) THEN 0 ELSE v
           cycles == (n * t.len) \div t.top
           c == TM!Cancelled(t)
           z == [c EXCEPT !.tov = t.len - cycles]
           blocked == part.strict /\ ~psr
<1>1. t \in TimerRecord /\ TimerFits(t) /\ TimerRuns(t) /\ TimerMatches(t) /\ TimerTimed(t)
  BY DEF TimerInv
<1>2. t.top \in Nat /\ t.len \in Nat
  BY <1>1, TimerConstants DEF TimerRecord
<1>3. TM!SetTcnt(t, v, psr) =
          IF t.halted THEN [t EXCEPT !.held = v]
          ELSE IF t.top = 0 THEN t
          ELSE IF t.len <= 1 THEN c
          ELSE TM!Period(z, cycles, TRUE, blocked)
  BY DEF TM!SetTcnt
<1>4. CASE t.halted
  <2> DEFINE w == [t EXCEPT !.held = v]
  <2>1. w \in TimerRecord
    BY <1>1, <1>4 DEF TimerRecord
  <2>2. /\ w.mode = t.mode /\ w.div = t.div /\ w.ocr = t.ocr /\ w.pend = t.pend
        /\ w.act = t.act /\ w.halted = t.halted /\ w.reset = t.reset
        /\ w.len = t.len /\ w.cc = t.cc /\ w.el = t.el /\ w.tov = t.tov /\ w.comp = t.comp
    BY <1>1 DEF TimerRecord
  <2> HIDE DEF w
  <2>3. TimerInv(w)
    BY <1>1, <2>1, <2>2 DEF TimerInv, TimerFits, TimerRuns, TimerMatches, TimerTimed, TM!Timed
  <2>4. QED  BY <1>3, <1>4, <2>3 DEF w
<1>5. CASE ~t.halted /\ t.top = 0
  BY <1>3, <1>5
<1>6. c \in TimerRecord
      /\ c = [t EXCEPT !.tov = TM!Never, !.comp = TM!Unarmed, !.el = 0]
      /\ \A u \in Units : TM!Unarmed[u] = TM!Never
  BY <1>1, CancelledIs, Zenon
<1>7. /\ c.mode = t.mode /\ c.div = t.div /\ c.ocr = t.ocr /\ c.pend = t.pend
      /\ c.act = t.act /\ c.halted = t.halted /\ c.reset = t.reset
      /\ c.len = t.len /\ c.el = 0 /\ c.tov = TM!Never /\ c.comp = TM!Unarmed
  BY <1>1, <1>6 DEF TimerRecord
<1>8. TimerTimed(c)
  BY <1>1, <1>7, SameTimed
<1> HIDE DEF c
<1>9. CASE ~t.halted /\ t.top # 0 /\ t.len <= 1
  <2>1. t.div = 0 /\ t.len = 0
    <3>1. t.tov = TM!Never
      BY <1>1, <1>2, <1>9 DEF TimerRuns
    <3>2. QED  BY <1>1, <1>9, <3>1 DEF TimerRuns, TimerFits
  <2>2. 0 < Longest
    BY TimerConstants
  <2>3. TimerInv(c)
    BY <1>6, <1>7, <1>8, <2>1, <2>2, IdleHolds
  <2>4. QED  BY <1>3, <1>9, <2>3
<1>10. CASE ~t.halted /\ t.top # 0 /\ ~(t.len <= 1)
  <2>1. t.len >= 2 /\ t.len < Longest /\ t.div # 0
    BY <1>1, <1>2, <1>10 DEF TimerFits
  <2>2. n \in Nat /\ n <= t.top /\ t.top > 0
    BY <1>2, <1>10
  <2>3. cycles \in 0 .. t.len
    <3> HIDE DEF n
    <3>1. QED  BY <1>2, <2>2, QuotientIsLess
  <2> HIDE DEF n, cycles
  <2>4. cycles \in Nat /\ cycles <= Longest + Lateness /\ t.len - cycles \in Int
    BY <1>2, <2>1, <2>3, TimerConstants
  <2>5. z \in TimerRecord
    <3>1. \A k \in Int : [c EXCEPT !.tov = k] \in TimerRecord
      BY <1>6 DEF TimerRecord
    <3>2. QED  BY <2>4, <3>1
  <2>6. /\ z.mode = t.mode /\ z.div = t.div /\ z.ocr = t.ocr /\ z.pend = t.pend
        /\ z.act = t.act /\ z.halted = t.halted /\ z.reset = t.reset
        /\ z.len = t.len /\ z.comp = TM!Unarmed /\ z.tov = z.len - cycles
    BY <1>6, <1>7 DEF TimerRecord
  <2> HIDE DEF z
  <2>7. TimerTimed(z)
    BY <1>1, <2>6, SameTimed
  <2> DEFINE b == TM!Period(z, cycles, TRUE, blocked)
             p == [b EXCEPT !.tov = z.len - cycles]
  <2>8. Begins(b, z, cycles)
    <3>1. b = Begun(z, cycles, TRUE, blocked)
      BY PeriodIs, Zenon
    <3>2. \A u \in Units : z.comp[u] = TM!Never
      BY <1>6, <2>6
    <3>3. QED  BY <2>4, <2>5, <3>1, <3>2, BegunIs, Zenon
  <2>9. z.len < Longest /\ z.len >= 2 /\ z.div # 0 /\ ~z.halted /\ ~z.reset
    BY <1>10, <2>1, <2>6
  <2>10. p = [b EXCEPT !.tov = z.len - cycles]
    OBVIOUS
  <2> HIDE DEF b, p, blocked
  <2>11. TimerInv(p)
    BY <2>4, <2>5, <2>7, <2>8, <2>9, <2>10, BegunHolds
  <2>12. z.tov = z.len - cycles => b = p
    BY <2>4, <2>5, <2>7, <2>8, <2>9, <2>10, BegunHolds
  <2>13. TM!SetTcnt(t, v, psr) = b
    BY <1>3, <1>10 DEF b
  <2>14. QED  BY <2>6, <2>11, <2>12, <2>13
<1>11. QED  BY <1>4, <1>5, <1>9, <1>10

\* avr_timer_latch_ocr
LEMMA LatchHolds ==
    ASSUME TM!WellFormed, NEW t, TimerInv(t), t.tov # TM!Never, NEW q, q = TM!Latch(t)
    PROVE  /\ q \in TimerRecord /\ q.len < Longest /\ q.len >= 2 /\ TimerTimed(q)
           /\ q.div # 0 /\ q.comp = t.comp /\ ~q.halted /\ ~q.reset
<1> DEFINE c == [t EXCEPT !.pend = {}, !.act = TM!Zero]
<1>1. t \in TimerRecord /\ TimerFits(t) /\ TimerRuns(t) /\ TimerTimed(t)
  BY DEF TimerInv
<1>2. t.div # 0 /\ ~t.halted /\ ~t.reset /\ t.len >= 2 /\ t.len < Longest
  BY <1>1 DEF TimerRuns, TimerFits
<1>3. CASE t.pend = {}
  BY <1>1, <1>2, <1>3 DEF TM!Latch
<1>4. CASE t.pend # {}
  <2>1. q = TM!Recompute(c)
    BY <1>4 DEF TM!Latch
  <2>2. c \in TimerRecord
    <3>1. TM!Zero \in [Units -> TM!Values]
      BY TimerConstants DEF TM!Zero, Units
    <3>2. QED  BY <1>1, <3>1 DEF TimerRecord
  <2>3. /\ c.mode = t.mode /\ c.div = t.div /\ c.ocr = t.ocr /\ c.pend = {}
        /\ c.halted = t.halted /\ c.reset = t.reset /\ c.comp = t.comp
    BY <1>1 DEF TimerRecord
  <2> HIDE DEF c
  <2>4. t.mode \in TM!Modes /\ t.div * (t.ocr["A"] + 1) # 1
    BY <1>1, <1>2 DEF TimerTimed, TM!Timed
  <2>5. TM!OcrEff(c, "A") = t.ocr["A"]
    BY <2>3 DEF TM!OcrEff
  <2>6. c.div # 0 /\ c.mode \in TM!Modes /\ c.div * (TM!OcrEff(c, "A") + 1) # 1
    BY <1>2, <2>3, <2>4, <2>5, Zenon
  <2>7. PICK top \in TM!Values : \E len \in Nat : \E cc \in [Units -> Nat] :
            /\ q = [c EXCEPT !.top = top, !.len = len, !.cc = cc]
            /\ len < Longest /\ (c.div = 0 => len = 0)
            /\ c.div # 0 /\ c.mode \in TM!Modes /\ c.div * (TM!OcrEff(c, "A") + 1) # 1 => len >= 2
    BY <2>1, <2>2, RecomputeIs, Zenon
  <2>8. PICK len \in Nat : \E cc \in [Units -> Nat] :
            /\ q = [c EXCEPT !.top = top, !.len = len, !.cc = cc]
            /\ len < Longest /\ len >= 2
    BY <2>6, <2>7, Zenon
  <2>9. PICK cc \in [Units -> Nat] :
            q = [c EXCEPT !.top = top, !.len = len, !.cc = cc] /\ len < Longest /\ len >= 2
    BY <2>8, Zenon
  <2>10. q \in TimerRecord
    BY <2>2, <2>9 DEF TimerRecord
  <2>11. /\ q.mode = t.mode /\ q.div = t.div /\ q.ocr = t.ocr /\ q.pend = {}
         /\ q.halted = t.halted /\ q.reset = t.reset /\ q.comp = t.comp /\ q.len = len
    BY <2>2, <2>3, <2>9 DEF TimerRecord
  <2>12. TimerTimed(q)
    BY <2>4, <2>11 DEF TimerTimed, TM!Timed
  <2>13. QED  BY <1>2, <2>9, <2>10, <2>11, <2>12
<1>5. QED  BY <1>3, <1>4

LEMMA TimerInitHolds ==
    ASSUME TM!WellFormed, TM!Init
    PROVE  TimerInv(timer)
<1>1. /\ TM!Unarmed \in Deadlines /\ TM!Zero \in [Units -> TM!Values]
      /\ TM!Zero \in [Units -> Nat] /\ \A u \in Units : TM!Unarmed[u] = TM!Never
  BY TimerConstants DEF TM!Unarmed, TM!Zero, Units, Deadlines
<1>2. 0 \in TM!Values /\ TM!Never \in Int
  BY TimerConstants
<1>3. timer \in TimerRecord
  BY <1>1, <1>2 DEF TM!Init, TimerRecord, TimerFlags
<1>4. /\ timer.div = 0 /\ timer.tov = TM!Never /\ timer.comp = TM!Unarmed /\ timer.el = 0
      /\ timer.len = 0
  BY DEF TM!Init
<1>5. TimerTimed(timer)
  BY <1>4 DEF TimerTimed
<1>6. 0 < Longest
  BY TimerConstants
<1>7. QED  BY <1>1, <1>3, <1>4, <1>5, <1>6, IdleHolds

LEMMA TimerShows ==
    ASSUME TM!WellFormed, TimerInv(timer)
    PROVE  TM!TypeOK /\ TM!WorkIsTimed
<1>1. timer \in TimerRecord /\ TimerRuns(timer) /\ TimerMatches(timer)
  BY DEF TimerInv
<1>2. TM!TypeOK
  BY <1>1 DEF TimerRecord, TM!TypeOK, Units, Deadlines, TimerFlags
<1>3. TM!WorkIsTimed
  BY <1>1 DEF TimerRuns, TimerMatches, TM!WorkIsTimed, Units
<1>4. QED  BY <1>2, <1>3

LEMMA OcrIsTimed ==
    ASSUME NEW t, TimerTimed(t), ~t.reset
    PROVE  t.div # 0 => t.div * (TM!OcrEff(t, "A") + 1) # 1
BY DEF TimerTimed, TM!Timed, TM!OcrEff

\* avr_timer_write
LEMMA TccrHolds ==
    ASSUME TM!WellFormed, TimerInv(timer), NEW div \in Divs \cup {0}, NEW how \in TM!Modes,
           TM!WriteTccr(div, how)
    PROVE  TimerInv(timer')
<1>1. timer \in TimerRecord /\ TimerFits(timer)
  BY DEF TimerInv
<1>2. CASE div = 0 /\ timer' = timer
  BY <1>2
<1>3. CASE div = 0 /\ timer' # timer
  <2> DEFINE c == [timer EXCEPT !.div = 0, !.reset = FALSE]
  <2>1. timer' = TM!Cleared(c)
    BY <1>3 DEF TM!WriteTccr
  <2>2. c \in TimerRecord /\ c.div = 0
    BY <1>1 DEF TimerRecord
  <2> HIDE DEF c
  <2>3. timer' \in TimerRecord
        /\ timer' = [c EXCEPT !.tov = TM!Never, !.comp = TM!Unarmed, !.el = 0, !.len = 0,
                              !.cc = TM!Zero]
        /\ \A u \in Units : TM!Unarmed[u] = TM!Never
    BY <2>1, <2>2, CancelledIs, Zenon
  <2>4. /\ timer'.div = 0 /\ timer'.len = 0 /\ timer'.tov = TM!Never /\ timer'.el = 0
        /\ timer'.comp = TM!Unarmed
    BY <2>2, <2>3 DEF TimerRecord
  <2>5. TimerTimed(timer')
    BY <2>4 DEF TimerTimed
  <2>6. 0 < Longest
    BY TimerConstants
  <2>7. QED  BY <2>3, <2>4, <2>5, <2>6, IdleHolds
<1>4. CASE div # 0
  <2> DEFINE q == [timer EXCEPT !.div = div, !.mode = how, !.pend = {}, !.act = TM!Zero,
                                !.reset = FALSE]
  <2>1. TM!Timed(q) /\ timer' = TM!Reconfigure(q, TRUE)
    BY <1>4 DEF TM!WriteTccr
  <2>2. q \in TimerRecord
    <3>1. TM!Zero \in [Units -> TM!Values]
      BY TimerConstants DEF TM!Zero, Units
    <3>2. QED  BY <1>1, <3>1 DEF TimerRecord
  <2>3. q.pend = {} /\ q.mode = how /\ ~q.reset /\ q.el = timer.el
    BY <1>1 DEF TimerRecord
  <2> HIDE DEF q
  <2>4. TimerTimed(q)
    BY <2>1, <2>3 DEF TimerTimed
  <2>5. q.el <= Longest + Lateness
    BY <1>1, <2>3 DEF TimerFits
  <2>6. q.div # 0 => q.div * (TM!OcrEff(q, "A") + 1) # 1
    BY <2>3, <2>4, OcrIsTimed
  <2>7. QED  BY <2>1, <2>2, <2>3, <2>4, <2>5, <2>6, ReconfigureHolds, Zenon
<1>5. QED  BY <1>2, <1>3, <1>4

\* avr_timer_write_ocr
LEMMA OcrHolds ==
    ASSUME TM!WellFormed, TimerInv(timer), NEW u \in Units, NEW v \in TM!Values,
           TM!WriteOcr(u, v)
    PROVE  TimerInv(timer')
<1> DEFINE q == [timer EXCEPT !.ocr[u] = v]
           old == IF u \in timer.pend THEN timer.act[u] ELSE timer.ocr[u]
           w == [q EXCEPT !.pend = @ \cup {u}, !.act[u] = old]
<1>1. /\ timer \in TimerRecord /\ TimerFits(timer) /\ TimerRuns(timer) /\ TimerMatches(timer)
      /\ TimerTimed(timer)
  BY DEF TimerInv
<1>2. ~timer.reset /\ TM!Timed(q)
      /\ (timer' = w \/ timer' = q \/ timer' = TM!Reconfigure(q, FALSE))
  BY DEF TM!WriteOcr, TM!Firmware
<1>3. /\ timer.ocr \in [Units -> TM!Values] /\ timer.act \in [Units -> TM!Values]
      /\ timer.pend \in SUBSET Units
  BY <1>1 DEF TimerRecord
<1> DEFINE ocr == [timer.ocr EXCEPT ![u] = v]
<1>4. ocr \in [Units -> TM!Values] /\ q = [timer EXCEPT !.ocr = ocr]
  BY <1>3
<1>5. /\ q \in TimerRecord
      /\ q.mode = timer.mode /\ q.div = timer.div /\ q.pend = timer.pend
      /\ q.act = timer.act /\ q.halted = timer.halted /\ q.reset = timer.reset
      /\ q.len = timer.len /\ q.cc = timer.cc /\ q.el = timer.el /\ q.tov = timer.tov
      /\ q.comp = timer.comp
  <2> HIDE DEF ocr, q
  <2>1. q \in TimerRecord
    BY <1>1, <1>4 DEF TimerRecord
  <2>2. QED  BY <1>1, <1>4, <2>1 DEF TimerRecord
<1> HIDE DEF q, ocr
<1>6. TimerTimed(q)
  BY <1>1, <1>2, <1>5 DEF TimerTimed
<1>7. TimerInv(q)
  BY <1>1, <1>5, <1>6 DEF TimerInv, TimerFits, TimerRuns, TimerMatches
<1>8. TimerInv(w)
  <2> DEFINE pend == timer.pend \cup {u}
             act == [timer.act EXCEPT ![u] = old]
  <2>1. old \in TM!Values /\ pend \in SUBSET Units /\ act \in [Units -> TM!Values]
    BY <1>3
  <2>2. w = [q EXCEPT !.pend = pend, !.act = act]
    BY <1>5
  <2> HIDE DEF w
  <2>3. "A" \in pend => \/ "A" \in timer.pend /\ act["A"] = timer.act["A"]
                        \/ act["A"] = timer.ocr["A"]
    <3>1. "A" \in Units
      BY TimerConstants
    <3>2. QED  BY <1>3, <3>1
  <2> HIDE DEF act, pend
  <2>4. w \in TimerRecord
    BY <1>5, <2>1, <2>2 DEF TimerRecord
  <2>5. /\ w.mode = q.mode /\ w.div = q.div /\ w.ocr = q.ocr /\ w.pend = pend
        /\ w.act = act /\ w.halted = q.halted /\ w.reset = q.reset
        /\ w.len = q.len /\ w.cc = q.cc /\ w.el = q.el /\ w.tov = q.tov /\ w.comp = q.comp
    BY <1>5, <2>2 DEF TimerRecord
  <2>6. TimerTimed(w)
    <3>1. SUFFICES ASSUME w.div # 0
                   PROVE  /\ w.mode \in TM!Modes /\ TM!Timed(w)
                          /\ "A" \in w.pend => w.div * (w.act["A"] + 1) # 1
      BY DEF TimerTimed
    <3>2. /\ timer.mode \in TM!Modes /\ timer.div * (timer.ocr["A"] + 1) # 1
          /\ "A" \in timer.pend => timer.div * (timer.act["A"] + 1) # 1
      BY <1>1, <1>2, <1>5, <2>5, <3>1 DEF TimerTimed, TM!Timed
    <3>3. TM!Timed(w)
      BY <1>2, <2>5 DEF TM!Timed
    <3>4. w.div = timer.div /\ w.pend = pend /\ w.act = act /\ w.mode = timer.mode
      BY <1>5, <2>5
    <3>5. QED  BY <2>3, <3>2, <3>3, <3>4, Zenon
  <2>7. QED  BY <1>7, <2>4, <2>5, <2>6 DEF TimerInv, TimerFits, TimerRuns, TimerMatches
<1> HIDE DEF w
<1>9. ASSUME timer' = TM!Reconfigure(q, FALSE)
      PROVE  TimerInv(timer')
  <2>1. ~q.reset /\ q.el <= Longest + Lateness
    BY <1>1, <1>2, <1>5 DEF TimerFits
  <2>2. q.div # 0 => q.div * (TM!OcrEff(q, "A") + 1) # 1
    BY <1>6, <2>1, OcrIsTimed
  <2>3. QED  BY <1>5, <1>6, <1>9, <2>1, <2>2, ReconfigureHolds, Zenon
<1>10. QED  BY <1>2, <1>7, <1>8, <1>9

\* _avr_timer_get_current_tcnt is a number of counts.
LEMMA TcntIsNat ==
    ASSUME TM!WellFormed, NEW t \in TimerRecord, ~t.halted, t.len # 0
    PROVE  TM!Tcnt(t) \in Nat
<1>1. t.el \in Nat /\ t.top \in Nat /\ t.len \in Nat
  BY TimerConstants DEF TimerRecord
<1>2. \A a, b, c \in Nat : c # 0 => (a * (b + 1)) \div c \in Nat
  <2>1. SUFFICES ASSUME NEW a \in Nat, NEW b \in Nat, NEW c \in Nat, c # 0
                 PROVE  (a * (b + 1)) \div c \in Nat
    OBVIOUS
  <2>2. a * (b + 1) \in Nat
    BY ProductIsNat
  <2>3. \A n \in Nat : n \div c \in Nat
    BY <2>1
  <2>4. QED  BY <2>2, <2>3
<1>3. TM!Tcnt(t) = (t.el * (t.top + 1)) \div t.len
  BY DEF TM!Tcnt
<1>4. QED  BY <1>1, <1>2, <1>3

\* avr_timer_write_gtccr and avr_reset: what is left waits for nothing.
LEMMA HoldHolds ==
    ASSUME TM!WellFormed, TimerInv(timer), TM!Hold \/ TM!Reset
    PROVE  TimerInv(timer')
<1>1. timer \in TimerRecord /\ TimerFits(timer) /\ TimerTimed(timer)
  BY DEF TimerInv
<1> DEFINE c == TM!Cancelled(timer)
<1>2. c \in TimerRecord
      /\ c = [timer EXCEPT !.tov = TM!Never, !.comp = TM!Unarmed, !.el = 0]
      /\ \A u \in Units : TM!Unarmed[u] = TM!Never
  BY <1>1, CancelledIs, Zenon
<1>3. /\ c.mode = timer.mode /\ c.div = timer.div /\ c.ocr = timer.ocr /\ c.pend = timer.pend
      /\ c.act = timer.act /\ c.halted = timer.halted /\ c.reset = timer.reset
      /\ c.len = timer.len /\ c.el = 0 /\ c.tov = TM!Never /\ c.comp = TM!Unarmed
  BY <1>1, <1>2 DEF TimerRecord
<1>4. ASSUME TM!Hold
      PROVE  TimerInv(timer')
  <2>1. PICK v \in TM!Values : timer' = [c EXCEPT !.held = v, !.halted = TRUE]
    BY <1>4, Zenon DEF TM!Hold
  <2> HIDE DEF c
  <2>2. timer' \in TimerRecord
    BY <1>2, <2>1 DEF TimerRecord
  <2>3. /\ timer'.mode = c.mode /\ timer'.div = c.div /\ timer'.ocr = c.ocr
        /\ timer'.pend = c.pend /\ timer'.act = c.act /\ timer'.halted
        /\ timer'.reset = c.reset /\ timer'.len = c.len /\ timer'.el = c.el
        /\ timer'.tov = c.tov /\ timer'.comp = c.comp
    BY <1>2, <2>1 DEF TimerRecord
  <2>4. TimerTimed(timer')
    BY <1>1, <1>3, <2>3, SameTimed
  <2>5. timer'.len < Longest /\ (timer'.div = 0 => timer'.len = 0)
    BY <1>1, <1>3, <2>3 DEF TimerFits
  <2>6. QED  BY <1>2, <1>3, <2>2, <2>3, <2>4, <2>5, IdleHolds
<1>5. ASSUME TM!Reset
      PROVE  TimerInv(timer')
  <2>1. timer' = [c EXCEPT !.halted = FALSE, !.pend = {}, !.act = TM!Zero, !.ocr = TM!Zero,
                           !.cc = TM!Zero, !.reset = TRUE, !.flags = {}]
    BY <1>5 DEF TM!Reset
  <2> HIDE DEF c
  <2>2. TM!Zero \in [Units -> TM!Values] /\ TM!Zero \in [Units -> Nat] /\ {} \in TimerFlags
    BY TimerConstants DEF TM!Zero, Units, TimerFlags
  <2>3. timer' \in TimerRecord
    <3>1. \A z \in [Units -> TM!Values] : \A n \in [Units -> Nat] : \A f \in TimerFlags :
              [c EXCEPT !.halted = FALSE, !.pend = {}, !.act = z, !.ocr = z, !.cc = n,
                        !.reset = TRUE, !.flags = f] \in TimerRecord
      BY <1>2, ZenonT(30) DEF TimerRecord
    <3>2. QED  BY <2>1, <2>2, <3>1, Zenon
  <2>4. /\ timer'.div = c.div /\ timer'.reset /\ timer'.len = c.len /\ timer'.el = c.el
        /\ timer'.tov = c.tov /\ timer'.comp = c.comp
    BY <1>2, <2>1 DEF TimerRecord
  <2>5. TimerTimed(timer')
    BY <2>4 DEF TimerTimed
  <2>6. timer'.len < Longest /\ (timer'.div = 0 => timer'.len = 0)
    BY <1>1, <1>3, <2>4 DEF TimerFits
  <2>7. QED  BY <1>2, <1>3, <2>3, <2>4, <2>5, <2>6, IdleHolds
<1>6. QED  BY <1>4, <1>5

LEMMA ReleaseHolds ==
    ASSUME TM!WellFormed, TimerInv(timer), TM!Release \/ TM!ResetPrescaler
    PROVE  TimerInv(timer')
<1>1. /\ timer \in TimerRecord /\ TimerFits(timer) /\ TimerRuns(timer) /\ TimerMatches(timer)
      /\ TimerTimed(timer)
  BY DEF TimerInv
<1>2. ~timer.reset
  BY DEF TM!Release, TM!ResetPrescaler, TM!Firmware
<1>3. ASSUME TM!ResetPrescaler
      PROVE  TimerInv(timer')
  <2>1. ~timer.halted /\ timer.len # 0 /\ timer' = TM!SetTcnt(timer, TM!Tcnt(timer), TRUE)
    BY <1>3 DEF TM!ResetPrescaler
  <2>2. TM!Tcnt(timer) \in Nat
    BY <1>1, <2>1, TcntIsNat
  <2>3. TRUE \in BOOLEAN
    OBVIOUS
  <2>4. QED  BY <1>2, <2>1, <2>2, <2>3, SetTcntHolds, Zenon
<1>4. ASSUME TM!Release
      PROVE  TimerInv(timer')
  <2> DEFINE q == [timer EXCEPT !.halted = FALSE]
             r == TM!Reconfigure(q, TRUE)
  <2>1. timer.halted
        /\ timer' = IF timer.div # 0 THEN TM!SetTcnt(r, timer.held, FALSE) ELSE q
    BY <1>4 DEF TM!Release
  <2>2. /\ q \in TimerRecord
        /\ q.mode = timer.mode /\ q.div = timer.div /\ q.ocr = timer.ocr /\ q.pend = timer.pend
        /\ q.act = timer.act /\ ~q.halted /\ q.reset = timer.reset
        /\ q.len = timer.len /\ q.cc = timer.cc /\ q.el = timer.el /\ q.tov = timer.tov
        /\ q.comp = timer.comp
    <3>1. q \in TimerRecord
      BY <1>1 DEF TimerRecord
    <3>2. QED  BY <1>1, <3>1 DEF TimerRecord
  <2> HIDE DEF q
  <2>3. TimerTimed(q) /\ ~q.reset /\ q.el <= Longest + Lateness
    BY <1>1, <1>2, <2>2, SameTimed DEF TimerFits
  <2>4. CASE timer.div = 0
    <3>1. timer.tov = TM!Never /\ timer' = q
      BY <1>1, <2>1, <2>4 DEF TimerRuns
    <3>2. TimerInv(q)
      BY <1>1, <2>2, <2>3, <2>4, <3>1 DEF TimerInv, TimerFits, TimerRuns, TimerMatches
    <3>3. QED  BY <3>1, <3>2
  <2>5. CASE timer.div # 0
    <3>1. q.div # 0 => q.div * (TM!OcrEff(q, "A") + 1) # 1
      BY <2>3, OcrIsTimed
    <3>2. TRUE \in BOOLEAN /\ FALSE \in BOOLEAN
      OBVIOUS
    <3>3. TimerInv(r) /\ ~r.reset
      BY <2>2, <2>3, <3>1, <3>2, ReconfigureHolds, Zenon
    <3>4. timer.held \in TM!Values /\ timer.held \in Nat
      BY <1>1, TimerConstants DEF TimerRecord
    <3> HIDE DEF r
    <3>5. TimerInv(TM!SetTcnt(r, timer.held, FALSE))
      BY <3>2, <3>3, <3>4, SetTcntHolds, Zenon
    <3>6. QED  BY <2>1, <2>5, <3>5
  <2>6. QED  BY <2>4, <2>5
<1>5. QED  BY <1>3, <1>4

\* avr_timer_tov
LEMMA OverflowHolds ==
    ASSUME TM!WellFormed, TimerInv(timer), TM!Overflow
    PROVE  TimerInv(timer')
<1>1. /\ timer \in TimerRecord /\ TimerFits(timer) /\ TimerRuns(timer) /\ TimerMatches(timer)
      /\ TimerTimed(timer)
  BY DEF TimerInv
<1> DEFINE late == -timer.tov
           b == TM!Period(timer, late, FALSE, FALSE)
           q == IF TM!Buffered(timer) THEN TM!Latch(timer) ELSE timer
<1>2. timer.tov # TM!Never /\ timer.tov <= 0 /\ \A u \in Units : timer.comp[u] = TM!Never
  <2>1. TM!First(timer.tov)
    BY DEF TM!Overflow
  <2>2. timer.tov # TM!Never /\ timer.tov <= 0
    BY <2>1 DEF TM!First, TM!Due
  <2>3. timer.tov \in Int /\ timer.comp \in Deadlines
    BY <1>1 DEF TimerRecord
  <2>4. ASSUME NEW u \in Units, timer.comp[u] # TM!Never
        PROVE  FALSE
    <3>1. timer.comp[u] < timer.tov /\ timer.comp[u] \in Int
      BY <1>1, <2>3, <2>4 DEF TimerMatches, Deadlines
    <3>2. timer.comp[u] <= 0 /\ ~(timer.tov <= timer.comp[u])
      BY <2>2, <2>3, <3>1
    <3>3. timer.comp[u] \in TM!Due
      BY <2>4, <3>1, <3>2 DEF TM!Due, Units
    <3>4. QED  BY <2>1, <3>2, <3>3 DEF TM!First
  <2>5. QED  BY <2>2, <2>4
<1>3. timer' = [b EXCEPT !.tov = b.len + timer.tov]
  BY DEF TM!Overflow
<1>4. late \in Nat /\ late <= Longest + Lateness /\ timer.tov = -late
  <2>1. timer.tov \in Int /\ timer.len \in Nat /\ timer.el \in Nat
    BY <1>1 DEF TimerRecord
  <2>2. timer.tov = timer.len - timer.el /\ timer.el <= Longest + Lateness
    BY <1>1, <1>2 DEF TimerRuns, TimerFits
  <2>3. QED  BY <1>2, <2>1, <2>2, TimerConstants
<1>5. /\ q \in TimerRecord /\ q.len < Longest /\ q.len >= 2 /\ TimerTimed(q)
      /\ q.div # 0 /\ q.comp = timer.comp /\ ~q.halted /\ ~q.reset
  <2>1. CASE TM!Buffered(timer)
    <3>1. q = TM!Latch(timer)
      BY <2>1
    <3> HIDE DEF q
    <3>2. QED  BY <1>2, <3>1, LatchHolds
  <2>2. CASE ~TM!Buffered(timer)
    <3>1. q = timer
      BY <2>2
    <3> HIDE DEF q
    <3>2. QED  BY <1>1, <1>2, <3>1 DEF TimerRuns, TimerFits
  <2>3. QED  BY <2>1, <2>2
<1> HIDE DEF late
<1>6. b = Begun(q, late, FALSE, FALSE)
  <2>1. (IF ~FALSE /\ TM!Buffered(timer) THEN TM!Latch(timer) ELSE timer) = q
    OBVIOUS
  <2> HIDE DEF q
  <2>2. QED  BY <2>1, PeriodIs, Zenon
<1> HIDE DEF q, b
<1>7. Begins(b, q, late)
  <2>1. \A u \in Units : q.comp[u] = TM!Never
    BY <1>2, <1>5
  <2>2. QED  BY <1>4, <1>5, <1>6, <2>1, BegunIs, Zenon
<1> DEFINE w == [b EXCEPT !.tov = q.len - late]
<1>8. w = [b EXCEPT !.tov = q.len - late]
  OBVIOUS
<1> HIDE DEF w
<1>9. TimerInv(w)
  BY <1>4, <1>5, <1>7, <1>8, BegunHolds
<1>10. b.len = q.len
  BY <1>4, <1>5, <1>7, <1>8, BegunHolds
<1>11. b.len + timer.tov = q.len - late
  <2>1. q.len \in Nat
    BY <1>5 DEF TimerRecord
  <2>2. QED  BY <1>4, <1>10, <2>1
<1>12. timer' = w
  BY <1>3, <1>8, <1>11
<1>13. QED  BY <1>9, <1>12

LEMMA TimerKeeps ==
    ASSUME TM!WellFormed, TimerInv(timer), TM!Next
    PROVE  TimerInv(timer')
<1>1. /\ timer \in TimerRecord /\ TimerFits(timer) /\ TimerRuns(timer) /\ TimerMatches(timer)
      /\ TimerTimed(timer)
  BY DEF TimerInv
<1>2. ASSUME TM!ClearFlags
      PROVE  TimerInv(timer')
  <2>1. timer' = [timer EXCEPT !.flags = {}] /\ {} \in TimerFlags
    BY <1>2 DEF TM!ClearFlags, TimerFlags
  <2>2. timer' \in TimerRecord
    BY <1>1, <2>1 DEF TimerRecord
  <2>3. /\ timer'.mode = timer.mode /\ timer'.div = timer.div /\ timer'.ocr = timer.ocr
        /\ timer'.pend = timer.pend /\ timer'.act = timer.act /\ timer'.halted = timer.halted
        /\ timer'.reset = timer.reset /\ timer'.len = timer.len /\ timer'.cc = timer.cc
        /\ timer'.el = timer.el /\ timer'.tov = timer.tov /\ timer'.comp = timer.comp
    BY <1>1, <2>1 DEF TimerRecord
  <2>4. QED
    BY <1>1, <2>2, <2>3 DEF TimerInv, TimerFits, TimerRuns, TimerMatches, TimerTimed, TM!Timed
<1>3. ASSUME NEW u \in Units, TM!Match(u)
      PROVE  TimerInv(timer')
  <2> DEFINE comp == [timer.comp EXCEPT ![u] = TM!Never]
             raised == timer.flags \cup {u}
  <2>1. timer' = [timer EXCEPT !.comp = comp, !.flags = raised]
    BY <1>3 DEF TM!Match
  <2>2. comp \in Deadlines /\ raised \in TimerFlags
        /\ \A k \in Units : comp[k] = TM!Never \/ comp[k] = timer.comp[k]
    <3>1. timer.comp \in Deadlines /\ timer.flags \in TimerFlags /\ TM!Never \in Int
      BY <1>1, TimerConstants DEF TimerRecord
    <3>2. QED  BY <3>1 DEF Deadlines, TimerFlags
  <2> HIDE DEF comp, raised
  <2>3. timer' \in TimerRecord
    BY <1>1, <2>1, <2>2 DEF TimerRecord
  <2>4. /\ timer'.mode = timer.mode /\ timer'.div = timer.div /\ timer'.ocr = timer.ocr
        /\ timer'.pend = timer.pend /\ timer'.act = timer.act /\ timer'.halted = timer.halted
        /\ timer'.reset = timer.reset /\ timer'.len = timer.len /\ timer'.cc = timer.cc
        /\ timer'.el = timer.el /\ timer'.tov = timer.tov /\ timer'.comp = comp
    BY <1>1, <2>1 DEF TimerRecord
  <2>5. TimerMatches(timer')
    BY <1>1, <2>2, <2>4 DEF TimerMatches
  <2>6. QED
    BY <1>1, <2>3, <2>4, <2>5 DEF TimerInv, TimerFits, TimerRuns, TimerTimed, TM!Timed
<1>4. ASSUME TM!Pass
      PROVE  TimerInv(timer')
  <2> DEFINE comp == [u \in Units |-> TM!Later(timer.comp[u])]
             tov == TM!Later(timer.tov)
             el == timer.el + 1
  <2>1. /\ timer' = [timer EXCEPT !.el = el, !.tov = tov, !.comp = comp]
        /\ timer.tov # TM!Never /\ \A d \in TM!Due : d > -Lateness
    BY <1>4 DEF TM!Pass, Units
  <2>2. /\ timer.tov \in Int /\ timer.comp \in Deadlines /\ timer.el \in Nat /\ timer.len \in Nat
        /\ timer.cc \in [Units -> Nat]
    BY <1>1 DEF TimerRecord
  <2>3. tov = timer.tov - 1 /\ tov >= -Lateness
    <3>1. timer.tov <= 0 => timer.tov > -Lateness
      BY <2>1 DEF TM!Due
    <3>2. tov = timer.tov - 1
      BY <2>1 DEF TM!Later
    <3> HIDE DEF tov
    <3>3. QED  BY <2>2, <3>1, <3>2, TimerConstants
  <2>4. comp \in Deadlines
        /\ \A u \in Units : comp[u] # TM!Never =>
               timer.comp[u] # TM!Never /\ comp[u] = timer.comp[u] - 1
    <3>1. TM!Never \in Int
      BY TimerConstants
    <3>2. QED  BY <2>2, <3>1 DEF Deadlines, TM!Later
  <2>5. el \in Nat /\ el = timer.el + 1 /\ tov \in Int
    BY <2>2, <2>3
  <2> HIDE DEF comp, tov, el
  <2>6. timer' \in TimerRecord
    BY <1>1, <2>1, <2>4, <2>5 DEF TimerRecord
  <2>7. /\ timer'.mode = timer.mode /\ timer'.div = timer.div /\ timer'.ocr = timer.ocr
        /\ timer'.pend = timer.pend /\ timer'.act = timer.act /\ timer'.halted = timer.halted
        /\ timer'.reset = timer.reset /\ timer'.len = timer.len /\ timer'.cc = timer.cc
        /\ timer'.el = el /\ timer'.tov = tov /\ timer'.comp = comp
    BY <1>1, <2>1 DEF TimerRecord
  <2>8. timer.tov = timer.len - timer.el /\ timer.len >= 2
        /\ timer.div # 0 /\ ~timer.halted /\ ~timer.reset
    BY <1>1, <2>1 DEF TimerRuns
  <2>9. TimerFits(timer')
    <3>1. el <= Longest + Lateness
      <4>1. timer.len < Longest
        BY <1>1 DEF TimerFits
      <4>2. timer.tov >= 1 - Lateness
        <5>1. Lateness \in Nat
          BY TimerConstants
        <5>2. QED  BY <2>2, <2>3, <5>1
      <4>3. QED
        <5>1. Lateness \in Nat /\ Longest \in Nat
          BY TimerConstants
        <5>2. QED  BY <2>2, <2>5, <2>8, <4>1, <4>2, <5>1
    <3>2. QED  BY <1>1, <2>7, <3>1 DEF TimerFits
  <2>10. TimerRuns(timer')
    <3>1. tov # TM!Never
      BY <2>3, <2>5, TimerConstants
    <3>2. tov = timer.len - el
      BY <2>2, <2>3, <2>5, <2>8
    <3>3. QED  BY <2>7, <2>8, <3>1, <3>2 DEF TimerRuns
  <2>11. TimerMatches(timer')
    <3>1. SUFFICES ASSUME NEW u \in Units, comp[u] # TM!Never
                   PROVE  tov # TM!Never /\ comp[u] = timer.cc[u] - el /\ comp[u] < tov
      BY <2>7 DEF TimerMatches
    <3>2. /\ comp[u] = timer.comp[u] - 1 /\ timer.comp[u] = timer.cc[u] - timer.el
          /\ timer.comp[u] < timer.tov
      BY <1>1, <2>4, <3>1 DEF TimerMatches
    <3>3. timer.cc[u] \in Nat
      BY <2>2
    <3>4. tov # TM!Never
      BY <2>3, <2>5, TimerConstants
    <3>5. timer.comp[u] \in Int
      BY <2>2 DEF Deadlines
    <3>6. QED  BY <2>2, <2>3, <2>5, <3>2, <3>3, <3>4, <3>5
  <2>12. TimerTimed(timer')
    BY <1>1, <2>7, SameTimed
  <2>13. QED  BY <2>6, <2>9, <2>10, <2>11, <2>12 DEF TimerInv
<1>5. ASSUME NEW v \in TM!Values, TM!WriteTcnt(v)
      PROVE  TimerInv(timer')
  <2>1. ~timer.reset /\ timer' = TM!SetTcnt(timer, v, FALSE)
    BY <1>5 DEF TM!WriteTcnt, TM!Firmware
  <2>2. v \in Nat /\ FALSE \in BOOLEAN
    BY TimerConstants
  <2>3. QED  BY <2>1, <2>2, SetTcntHolds, Zenon
<1>6. ASSUME NEW div \in Divs \cup {0}, NEW how \in TM!Modes, TM!WriteTccr(div, how)
      PROVE  TimerInv(timer')
  BY <1>6, TccrHolds
<1>7. ASSUME NEW u \in Units, NEW v \in TM!Values, TM!WriteOcr(u, v)
      PROVE  TimerInv(timer')
  BY <1>7, OcrHolds
<1>8. ASSUME TM!Hold \/ TM!Reset
      PROVE  TimerInv(timer')
  BY <1>8, HoldHolds
<1>9. ASSUME TM!Release \/ TM!ResetPrescaler
      PROVE  TimerInv(timer')
  BY <1>9, ReleaseHolds
<1>10. ASSUME TM!Overflow
       PROVE  TimerInv(timer')
  BY <1>10, OverflowHolds
<1>11. QED
  BY <1>2, <1>3, <1>4, <1>5, <1>6, <1>7, <1>8, <1>9, <1>10 DEF TM!Next, Units

-----------------------------------------------------------------------------
(* The classic timer is one that counts in every cycle *)

\* The top of the counter, of a mode and the compare values in use.
TopIn(how, V) ==
    IF how \in {"ctc", "fastA"} THEN V["A"] ELSE IF how = "none" THEN 0 ELSE MaxCount
LengthIn(how, d, V) == d * (TopIn(how, V) + 1)
InUse(t) == [u \in Units |-> TM!OcrEff(t, u)]

\* The period and its matches are those of the values in use.
TimerPeriod(t) ==
    t.tov # TM!Never =>
        /\ t.top = TopIn(t.mode, InUse(t)) /\ t.len = LengthIn(t.mode, t.div, InUse(t))
        /\ \A u \in Units : t.cc[u] = IF InUse(t)[u] <= t.top THEN t.div * (InUse(t)[u] + 1) ELSE 0

\* A match that is ahead and not waited for is the next count.
TimerSkips(t) ==
    \A u \in Units :
        t.tov # TM!Never /\ t.comp[u] = TM!Never /\ t.cc[u] \in t.el + 1 .. t.len - 1
        => t.cc[u] - t.el <= t.div

TimerHalted(t) ==
    t.halted => ~t.reset /\ part.strict
                /\ (t.len = 0 /\ t.div # 0 /\ TM!Buffered(t) => t.pend = {})

TimerCounting == TimerPeriod(timer) /\ TimerSkips(timer) /\ TimerHalted(timer)

\* A counter that runs, e cycles into its period.
Shown(s, how, d, V, N, e, K, f) ==
    [strict |-> s, mode |-> how, div |-> d, held |-> FALSE, on |-> TRUE, ocr |-> V, next |-> N,
     count |-> e \div d, into |-> e % d, skips |-> K, flags |-> f]

\* The units whose match is due, those a write of TCNT blocks, those that match
\* after e cycles, and the flags of the end of a period.
DueUnits(t) == {u \in Units : t.comp[u] # TM!Never /\ t.comp[u] <= 0}
SkipsOf(t) == {u \in Units : t.comp[u] = TM!Never /\ t.cc[u] \in t.el + 1 .. t.len - 1}
UnitsReached(how, d, V, e) == {u \in Units : V[u] < TopIn(how, V) /\ e = d * (V[u] + 1)}
Ended(s, how, V) ==
    {u \in Units : V[u] = TopIn(how, V)} \cup
    (IF s /\ how = "ctc" /\ TopIn(how, V) # MaxCount THEN {} ELSE {"TOV"})

LEMMA OnlyOne ==
    ASSUME NEW a
    PROVE  TM!Only({a}) = a
<1>1. \E x \in {a} : TRUE
  OBVIOUS
<1>2. (CHOOSE x \in {a} : TRUE) \in {a}
  BY <1>1, Zenon
<1>3. QED  BY <1>2 DEF TM!Only

LEMMA QuotientIs ==
    ASSUME NEW q \in Nat, NEW d \in Nat \ {0}, NEW r \in Nat, r < d
    PROVE  (q * d + r) \div d = q
OBVIOUS

\* _avr_timer_get_current_tcnt of a period of d cycles a count.
LEMMA QuotientOfCounts ==
    ASSUME NEW e \in Nat, NEW d \in Nat \ {0}, NEW m \in Nat \ {0}
    PROVE  (e * m) \div (d * m) = e \div d
<1>1. PICK q \in Nat, r \in Nat : q = e \div d /\ r = e % d /\ e = q * d + r /\ r < d
  BY Divides
<1>2. PICK k \in Nat \ {0} : k = d * m
  OBVIOUS
<1>3. e * m = q * k + r * m
  <2>1. (q * d + r) * m = (q * d) * m + r * m
    BY ProductIsNat
  <2>2. (q * d) * m = q * (d * m)
    OBVIOUS
  <2>3. QED  BY <1>1, <1>2, <2>1, <2>2
<1>4. r * m \in Nat /\ r * m < k
  <2>1. r + 1 <= d
    BY <1>1
  <2>2. (r + 1) * m <= d * m
    BY <2>1, ProductGrows
  <2>3. (r + 1) * m = r * m + m /\ r * m \in Nat
    BY ProductIsNat
  <2>4. QED  BY <1>2, <2>2, <2>3
<1>5. (q * k + r * m) \div k = q
  BY <1>4, QuotientIs
<1>6. QED  BY <1>1, <1>2, <1>3, <1>5

\* What is due is called.
LEMMA PassedIs ==
    ASSUME TM!WellFormed, NEW t \in TimerRecord, NEW w, w = TM!Passed(t)
    PROVE  /\ w \in TimerRecord
           /\ w.mode = t.mode /\ w.div = t.div /\ w.ocr = t.ocr /\ w.pend = t.pend
           /\ w.act = t.act /\ w.halted = t.halted /\ w.reset = t.reset /\ w.held = t.held
           /\ w.top = t.top /\ w.len = t.len /\ w.cc = t.cc /\ w.el = t.el /\ w.tov = t.tov
           /\ w.flags = t.flags \cup DueUnits(t)
           /\ \A u \in Units : w.comp[u] = IF u \in DueUnits(t) THEN TM!Never ELSE t.comp[u]
<1> DEFINE c == [u \in Units |-> IF u \in DueUnits(t) THEN TM!Never ELSE t.comp[u]]
           f == t.flags \cup DueUnits(t)
<1>1. w = [t EXCEPT !.flags = f, !.comp = c]
  BY DEF TM!Passed, DueUnits, Units
<1>2. t.flags \in TimerFlags /\ t.comp \in Deadlines /\ TM!Never \in Int
  BY TimerConstants DEF TimerRecord
<1>3. f \in TimerFlags
  BY <1>2 DEF TimerFlags, DueUnits
<1>4. c \in Deadlines /\ \A u \in Units : c[u] = IF u \in DueUnits(t) THEN TM!Never ELSE t.comp[u]
  BY <1>2 DEF Deadlines
<1> HIDE DEF c, f
<1>5. w \in TimerRecord
  BY <1>1, <1>3, <1>4 DEF TimerRecord
<1>6. /\ w.mode = t.mode /\ w.div = t.div /\ w.ocr = t.ocr /\ w.pend = t.pend
      /\ w.act = t.act /\ w.halted = t.halted /\ w.reset = t.reset /\ w.held = t.held
      /\ w.top = t.top /\ w.len = t.len /\ w.cc = t.cc /\ w.el = t.el /\ w.tov = t.tov
      /\ w.flags = f /\ w.comp = c
  BY <1>1, ZenonT(30) DEF TimerRecord
<1>7. QED  BY <1>4, <1>5, <1>6 DEF f

\* What a settled timer shows.
Look(t) ==
    [strict |-> part.strict, mode |-> timer.mode, div |-> timer.div, held |-> timer.halted,
     on |-> timer.tov # TM!Never,
     ocr |-> [u \in Units |-> IF timer.div = 0 \/ timer.reset THEN timer.ocr[u]
                              ELSE TM!OcrEff(t, u)],
     next |-> timer.ocr,
     count |-> IF timer.reset THEN 0 ELSE TM!Tcnt(t),
     into |-> IF timer.tov # TM!Never THEN t.el % timer.div ELSE 0,
     skips |-> {u \in Units : timer.tov # TM!Never /\ t.comp[u] = TM!Never
                              /\ t.cc[u] \in t.el + 1 .. t.len - 1},
     flags |-> t.flags]

LEMMA SeenIs == TM!Seen = Look(TM!Settled)
<1>1. TM!Seen = TM!Only({Look(t) : t \in {TM!Settled}})
  BY DEF TM!Seen, Look, Units
<1>2. {Look(t) : t \in {TM!Settled}} = {Look(TM!Settled)}
  OBVIOUS
<1>3. QED  BY <1>1, <1>2, OnlyOne

\* Nothing but what is due is called before the period ends.
LEMMA SettledIs ==
    ASSUME TM!WellFormed, TimerInv(timer), timer.tov = TM!Never \/ timer.tov > 0,
           NEW w, w = TM!Settled
    PROVE  /\ w \in TimerRecord
           /\ w.mode = timer.mode /\ w.div = timer.div /\ w.ocr = timer.ocr /\ w.pend = timer.pend
           /\ w.act = timer.act /\ w.halted = timer.halted /\ w.reset = timer.reset
           /\ w.held = timer.held /\ w.top = timer.top /\ w.len = timer.len /\ w.cc = timer.cc
           /\ w.el = timer.el /\ w.tov = timer.tov
           /\ w.flags = timer.flags \cup DueUnits(timer)
           /\ \A u \in Units : w.comp[u] = IF u \in DueUnits(timer) THEN TM!Never ELSE timer.comp[u]
<1>1. timer \in TimerRecord /\ TimerMatches(timer)
  BY DEF TimerInv
<1>2. CASE TM!Due = {}
  <2>1. w = timer
    BY <1>2 DEF TM!Settled
  <2>2. DueUnits(timer) = {}
    BY <1>2 DEF DueUnits, TM!Due, Units
  <2>3. QED  BY <1>1, <2>1, <2>2
<1>3. CASE TM!Due # {}
  <2>1. timer.tov > 0
    <3>1. SUFFICES ASSUME timer.tov = TM!Never
                   PROVE  FALSE
      OBVIOUS
    <3>2. \A u \in Units : timer.comp[u] = TM!Never
      BY <1>1, <3>1 DEF TimerMatches
    <3>3. TM!Due = {}
      BY <3>1, <3>2 DEF TM!Due, Units
    <3>4. QED  BY <1>3, <3>3
  <2>2. w = TM!Passed(timer)
    BY <1>3, <2>1 DEF TM!Settled
  <2>3. QED  BY <1>1, <2>2, PassedIs
<1>4. QED  BY <1>2, <1>3

TimerOk == TM!WellFormed /\ TimerInv(timer) /\ TimerCounting

\* A timer whose period has not ended.
LEMMA SeenBefore ==
    ASSUME TimerOk, timer.tov # TM!Never, timer.tov > 0
    PROVE  TM!Seen = Shown(part.strict, timer.mode, timer.div, InUse(timer), timer.ocr, timer.el,
                           SkipsOf(timer), timer.flags \cup DueUnits(timer))
<1> DEFINE w == TM!Settled
<1>1. /\ TM!WellFormed /\ TimerInv(timer) /\ TimerPeriod(timer) /\ timer \in TimerRecord
      /\ TimerRuns(timer) /\ TimerMatches(timer)
  BY DEF TimerOk, TimerCounting, TimerInv
<1>2. /\ w \in TimerRecord
      /\ w.mode = timer.mode /\ w.div = timer.div /\ w.ocr = timer.ocr /\ w.pend = timer.pend
      /\ w.act = timer.act /\ w.halted = timer.halted /\ w.reset = timer.reset
      /\ w.held = timer.held /\ w.top = timer.top /\ w.len = timer.len /\ w.cc = timer.cc
      /\ w.el = timer.el /\ w.tov = timer.tov
      /\ w.flags = timer.flags \cup DueUnits(timer)
      /\ \A u \in Units : w.comp[u] = IF u \in DueUnits(timer) THEN TM!Never ELSE timer.comp[u]
  BY <1>1, SettledIs
<1>3. /\ timer.div # 0 /\ ~timer.halted /\ ~timer.reset /\ timer.len >= 2
      /\ timer.tov = timer.len - timer.el /\ timer.len = timer.div * (timer.top + 1)
  BY <1>1 DEF TimerRuns, TimerPeriod, LengthIn
<1>4. /\ timer.div \in Nat /\ timer.top \in Nat /\ timer.el \in Nat /\ timer.len \in Nat
      /\ timer.cc \in [Units -> Nat] /\ timer.comp \in Deadlines
  <2>1. timer.div \in Divs
    BY <1>1, <1>3 DEF TimerRecord
  <2>2. timer.top \in TM!Values
    BY <1>1 DEF TimerRecord
  <2>3. QED  BY <1>1, <2>1, <2>2, TimerConstants DEF TimerRecord
<1> HIDE DEF w
<1>5. TM!Tcnt(w) = timer.el \div timer.div
  <2>1. TM!Tcnt(w) = (timer.el * (timer.top + 1)) \div timer.len
    BY <1>2, <1>3 DEF TM!Tcnt
  <2>2. PICK e \in Nat, d \in Nat \ {0}, m \in Nat \ {0} :
            e = timer.el /\ d = timer.div /\ m = timer.top + 1
    BY <1>3, <1>4
  <2>3. (e * m) \div (d * m) = e \div d
    BY QuotientOfCounts
  <2>4. QED  BY <1>3, <2>1, <2>2, <2>3
<1>6. \A u \in Units : TM!OcrEff(w, u) = TM!OcrEff(timer, u)
  BY <1>2 DEF TM!OcrEff, TM!Buffered
<1>7. {u \in Units : timer.tov # TM!Never /\ w.comp[u] = TM!Never
                              /\ w.cc[u] \in w.el + 1 .. w.len - 1} = SkipsOf(timer)
  <2>1. ASSUME NEW u \in Units, u \in DueUnits(timer)
        PROVE  timer.cc[u] \notin timer.el + 1 .. timer.len - 1
    <3>1. timer.comp[u] = timer.cc[u] - timer.el /\ timer.comp[u] <= 0
      BY <1>1, <2>1 DEF DueUnits, TimerMatches
    <3>2. timer.cc[u] \in Nat
      BY <1>4
    <3>3. QED  BY <1>4, <3>1, <3>2
  <2>2. \A u \in DueUnits(timer) : timer.comp[u] # TM!Never
    BY DEF DueUnits
  <2>3. QED  BY <1>2, <2>1, <2>2 DEF SkipsOf
<1>8. [u \in Units |-> IF timer.div = 0 \/ timer.reset THEN timer.ocr[u] ELSE TM!OcrEff(w, u)]
          = InUse(timer)
  BY <1>3, <1>6 DEF InUse
<1>9. Look(w) = Shown(part.strict, timer.mode, timer.div, InUse(timer), timer.ocr, timer.el,
                           SkipsOf(timer), timer.flags \cup DueUnits(timer))
  <2>1. timer.halted = FALSE /\ (timer.tov # TM!Never) = TRUE
    BY <1>1, <1>3 DEF TimerRecord
  <2>2. (IF timer.reset THEN 0 ELSE TM!Tcnt(w)) = timer.el \div timer.div
    BY <1>3, <1>5
  <2>3. (IF timer.tov # TM!Never THEN w.el % timer.div ELSE 0) = timer.el % timer.div
    BY <1>2
  <2>4. QED  BY <1>2, <1>7, <1>8, <2>1, <2>2, <2>3, Zenon DEF Look, Shown
<1>10. QED  BY <1>9, SeenIs DEF w

\* A timer that does not count.
Stopped(t) ==
    [strict |-> part.strict, mode |-> t.mode, div |-> t.div, held |-> t.halted, on |-> FALSE,
     ocr |-> IF t.div = 0 \/ t.reset THEN t.ocr ELSE InUse(t), next |-> t.ocr,
     count |-> IF t.halted THEN t.held ELSE 0, into |-> 0, skips |-> {}, flags |-> t.flags]

LEMMA SeenStopped ==
    ASSUME TimerOk, timer.tov = TM!Never
    PROVE  TM!Seen = Stopped(timer)
<1> DEFINE w == TM!Settled
<1>1. /\ TM!WellFormed /\ TimerInv(timer) /\ TimerHalted(timer) /\ timer \in TimerRecord
      /\ TimerRuns(timer) /\ TimerMatches(timer) /\ TimerFits(timer)
  BY DEF TimerOk, TimerCounting, TimerInv
<1>2. /\ w \in TimerRecord
      /\ w.mode = timer.mode /\ w.div = timer.div /\ w.ocr = timer.ocr /\ w.pend = timer.pend
      /\ w.act = timer.act /\ w.halted = timer.halted /\ w.reset = timer.reset
      /\ w.held = timer.held /\ w.top = timer.top /\ w.len = timer.len /\ w.cc = timer.cc
      /\ w.el = timer.el /\ w.tov = timer.tov
      /\ w.flags = timer.flags \cup DueUnits(timer)
      /\ \A u \in Units : w.comp[u] = IF u \in DueUnits(timer) THEN TM!Never ELSE timer.comp[u]
  BY <1>1, SettledIs
<1> HIDE DEF w
<1>3. DueUnits(timer) = {}
  BY <1>1 DEF DueUnits, TimerMatches
<1>4. (IF timer.reset THEN 0 ELSE TM!Tcnt(w)) = IF timer.halted THEN timer.held ELSE 0
  <2>1. CASE timer.halted
    BY <1>1, <1>2, <2>1 DEF TimerHalted, TM!Tcnt
  <2>2. CASE ~timer.halted /\ ~timer.reset
    <3>1. timer.len = 0
      BY <1>1, <2>2 DEF TimerRuns, TimerFits
    <3>2. QED  BY <1>2, <2>2, <3>1 DEF TM!Tcnt
  <2>3. CASE ~timer.halted /\ timer.reset
    BY <2>3
  <2>4. QED  BY <2>1, <2>2, <2>3
<1>5. [u \in Units |-> IF timer.div = 0 \/ timer.reset THEN timer.ocr[u] ELSE TM!OcrEff(w, u)]
          = IF timer.div = 0 \/ timer.reset THEN timer.ocr ELSE InUse(timer)
  <2>1. \A u \in Units : TM!OcrEff(w, u) = TM!OcrEff(timer, u)
    BY <1>2 DEF TM!OcrEff, TM!Buffered
  <2>2. timer.ocr = [u \in Units |-> timer.ocr[u]]
    BY <1>1 DEF TimerRecord
  <2>3. QED  BY <2>1, <2>2 DEF InUse
<1>6. Look(w) = Stopped(timer)
  BY <1>2, <1>3, <1>4, <1>5 DEF Look, Stopped
<1>7. QED  BY <1>6, SeenIs DEF w

-----------------------------------------------------------------------------
(* The end of a period *)

LEMMA CountsOrder ==
    ASSUME NEW d \in Nat \ {0}, NEW a \in Nat, NEW b \in Nat
    PROVE  /\ d * (a + 1) \in Nat \ {0}
           /\ a < b <=> d * (a + 1) < d * (b + 1)
           /\ a = b <=> d * (a + 1) = d * (b + 1)
<1>1. \A i, j \in Nat : i < j => i * d + d <= j * d
  <2>1. SUFFICES ASSUME NEW i \in Nat, NEW j \in Nat, i < j
                 PROVE  i * d + d <= j * d
    OBVIOUS
  <2>2. (i + 1) * d <= j * d
    BY <2>1, ProductGrows
  <2>3. (i + 1) * d = i * d + d
    BY ProductIsNat
  <2>4. QED  BY <2>2, <2>3
<1>2. d * (a + 1) = a * d + d /\ d * (b + 1) = b * d + d /\ a * d \in Nat /\ b * d \in Nat
  BY ProductIsNat
<1>3. a < b => a * d < b * d
  BY <1>1, <1>2
<1>4. b < a => b * d < a * d
  BY <1>1, <1>2
<1>5. QED  BY <1>2, <1>3, <1>4

\* The match of the value n in a period that ends at top.
LEMMA MatchIs ==
    ASSUME NEW d \in Nat \ {0}, NEW top \in Nat, NEW n \in Nat,
           NEW len, len = d * (top + 1), NEW c, c = IF n <= top THEN d * (n + 1) ELSE 0
    PROVE  /\ c \in Nat /\ len \in Nat /\ len >= 1
           /\ c = len <=> n = top
           /\ c \in 1 .. len - 1 <=> n < top
           /\ n < top => c = d * (n + 1)
<1>1. /\ d * (n + 1) \in Nat \ {0} /\ d * (top + 1) \in Nat \ {0}
      /\ n < top <=> d * (n + 1) < d * (top + 1)
      /\ n = top <=> d * (n + 1) = d * (top + 1)
  BY CountsOrder
<1>2. CASE n <= top
  <2>1. c = d * (n + 1)
    BY <1>2
  <2>2. PICK x \in Nat \ {0}, y \in Nat \ {0} : x = d * (n + 1) /\ y = d * (top + 1)
    BY <1>1
  <2>3. c = x /\ len = y /\ (n < top <=> x < y) /\ (n = top <=> x = y)
    BY <1>1, <2>1, <2>2
  <2>4. QED  BY <2>2, <2>3
<1>3. CASE ~(n <= top)
  <2>1. c = 0 /\ ~(n < top) /\ n # top
    BY <1>3
  <2>2. QED  BY <1>1, <2>1
<1>4. QED  BY <1>2, <1>3

LEMMA TopIs ==
    ASSUME NEW t \in TimerRecord
    PROVE  TM!Top(t) = TopIn(t.mode, InUse(t))
<1>1. "A" \in Units
  BY DEF Units, TM!Units
<1>2. InUse(t)["A"] = TM!OcrEff(t, "A")
  BY <1>1 DEF InUse
<1>3. QED  BY <1>2, Zenon DEF TM!Top, TopIn

LEMMA UseIsValue ==
    ASSUME TM!WellFormed, NEW t \in TimerRecord
    PROVE  /\ InUse(t) \in [Units -> TM!Values] /\ TopIn(t.mode, InUse(t)) \in TM!Values
           /\ \A u \in Units : InUse(t)[u] = TM!OcrEff(t, u)
<1>1. \A u \in Units : TM!OcrEff(t, u) \in TM!Values
  BY TopIsValue
<1>2. InUse(t) \in [Units -> TM!Values] /\ \A u \in Units : InUse(t)[u] = TM!OcrEff(t, u)
  BY <1>1 DEF InUse
<1>3. QED  BY <1>2, TopIs, TopIsValue

\* avr_timer_recompute, field by field.
LEMMA RecomputedIs ==
    ASSUME TM!WellFormed, NEW t \in TimerRecord, NEW w, w = TM!Recompute(t)
    PROVE  /\ w \in TimerRecord
           /\ w.mode = t.mode /\ w.div = t.div /\ w.ocr = t.ocr /\ w.pend = t.pend
           /\ w.act = t.act /\ w.halted = t.halted /\ w.reset = t.reset /\ w.held = t.held
           /\ w.el = t.el /\ w.tov = t.tov /\ w.comp = t.comp /\ w.flags = t.flags
           /\ w.top = TopIn(t.mode, InUse(t)) /\ w.len = LengthIn(t.mode, t.div, InUse(t))
           /\ \A u \in Units : w.cc[u] = IF InUse(t)[u] <= w.top THEN t.div * (InUse(t)[u] + 1) ELSE 0
<1> DEFINE V == InUse(t)
           top == TopIn(t.mode, V)
           len == LengthIn(t.mode, t.div, V)
           cc == [u \in Units |-> IF V[u] <= top THEN t.div * (V[u] + 1) ELSE 0]
<1>1. /\ V \in [Units -> TM!Values] /\ top \in TM!Values
      /\ \A u \in Units : V[u] = TM!OcrEff(t, u)
  BY UseIsValue
<1>2. TM!Top(t) = top
  BY TopIs
<1>3. t.div * (TM!Top(t) + 1) = len
  BY <1>2 DEF LengthIn
<1>4. [u \in Units |-> IF TM!OcrEff(t, u) <= TM!Top(t) THEN t.div * (TM!OcrEff(t, u) + 1) ELSE 0] = cc
  BY <1>1, <1>2
<1>5. w = [t EXCEPT !.top = top, !.len = len, !.cc = cc]
  <2>1. w = [t EXCEPT !.top = TM!Top(t), !.len = t.div * (TM!Top(t) + 1),
                      !.cc = [u \in Units |-> IF TM!OcrEff(t, u) <= TM!Top(t)
                                              THEN t.div * (TM!OcrEff(t, u) + 1) ELSE 0]]
    BY DEF TM!Recompute, Units
  <2>2. QED  BY <1>2, <1>3, <1>4, <2>1, Zenon
<1>6. t.div \in Divs \cup {0}
  BY DEF TimerRecord
<1>7. len \in Nat
  BY <1>1, <1>6, CyclesOfCount DEF LengthIn
<1>8. cc \in [Units -> Nat]
  <2>1. \A u \in Units : t.div * (V[u] + 1) \in Nat
    BY <1>1, <1>6, CyclesOfCount
  <2>2. QED  BY <2>1
<1>9. \A u \in Units : cc[u] = IF V[u] <= top THEN t.div * (V[u] + 1) ELSE 0
  OBVIOUS
<1> HIDE DEF V, top, len, cc
<1>10. w \in TimerRecord
  BY <1>1, <1>5, <1>7, <1>8 DEF TimerRecord
<1>11. /\ w.mode = t.mode /\ w.div = t.div /\ w.ocr = t.ocr /\ w.pend = t.pend
       /\ w.act = t.act /\ w.halted = t.halted /\ w.reset = t.reset /\ w.held = t.held
       /\ w.el = t.el /\ w.tov = t.tov /\ w.comp = t.comp /\ w.flags = t.flags
       /\ w.top = top /\ w.len = len /\ w.cc = cc
  BY <1>5, ZenonT(30) DEF TimerRecord
<1>12. QED  BY <1>9, <1>10, <1>11 DEF V, top, len

\* A period begins in w, late cycles ago, as q has it.
Started(w, q, late, start, blocked) ==
    /\ w \in TimerRecord
    /\ w.mode = q.mode /\ w.div = q.div /\ w.ocr = q.ocr /\ w.pend = q.pend
    /\ w.act = q.act /\ w.halted = q.halted /\ w.reset = q.reset /\ w.held = q.held
    /\ w.top = q.top /\ w.len = q.len /\ w.cc = q.cc /\ w.tov = q.tov /\ w.el = late
    /\ \A u \in Units : w.comp[u] =
           IF /\ q.cc[u] \in 1 .. q.len - 1 /\ q.cc[u] >= late
              /\ ~(blocked /\ q.cc[u] - late <= q.div)
           THEN q.cc[u] - late ELSE q.comp[u]
    /\ w.flags = IF start THEN q.flags
                 ELSE q.flags \cup {u \in Units : q.cc[u] = q.len} \cup
                      (IF TM!Silent(q) THEN {} ELSE {"TOV"})

LEMMA StartedIs ==
    ASSUME TM!WellFormed, NEW q \in TimerRecord, NEW late \in Nat, NEW start, NEW blocked,
           NEW w, w = Begun(q, late, start, blocked)
    PROVE  Started(w, q, late, start, blocked)
<1> DEFINE c == [u \in Units |->
                    IF /\ q.cc[u] \in 1 .. q.len - 1 /\ q.cc[u] >= late
                       /\ ~(blocked /\ q.cc[u] - late <= q.div)
                    THEN q.cc[u] - late ELSE q.comp[u]]
           f == IF start THEN q.flags
                ELSE q.flags \cup {u \in Units : q.cc[u] = q.len} \cup
                     (IF TM!Silent(q) THEN {} ELSE {"TOV"})
<1>1. w = [q EXCEPT !.el = late, !.comp = c, !.flags = f]
  BY DEF Begun
<1>2. q.cc \in [Units -> Nat] /\ q.comp \in Deadlines /\ q.flags \in TimerFlags
  BY DEF TimerRecord
<1>3. c \in Deadlines
  BY <1>2 DEF Deadlines
<1>4. f \in TimerFlags
  BY <1>2 DEF TimerFlags
<1>5. \A u \in Units : c[u] =
                  IF /\ q.cc[u] \in 1 .. q.len - 1 /\ q.cc[u] >= late
                     /\ ~(blocked /\ q.cc[u] - late <= q.div)
                  THEN q.cc[u] - late ELSE q.comp[u]
  OBVIOUS
<1> HIDE DEF c, f
<1>6. w \in TimerRecord
  BY <1>1, <1>3, <1>4 DEF TimerRecord
<1>7. /\ w.mode = q.mode /\ w.div = q.div /\ w.ocr = q.ocr /\ w.pend = q.pend
      /\ w.act = q.act /\ w.halted = q.halted /\ w.reset = q.reset /\ w.held = q.held
      /\ w.top = q.top /\ w.len = q.len /\ w.cc = q.cc /\ w.tov = q.tov /\ w.el = late
      /\ w.comp = c /\ w.flags = f
  BY <1>1, ZenonT(30) DEF TimerRecord
<1>8. QED  BY <1>5, <1>6, <1>7 DEF f, Started

\* avr_timer_latch_ocr at the end of a period: the values last written are used.
LEMMA LatchedUses ==
    ASSUME TM!WellFormed, NEW t \in TimerRecord, t.tov # TM!Never, TimerPeriod(t),
           NEW w, w = IF TM!Buffered(t) THEN TM!Latch(t) ELSE t
    PROVE  /\ w \in TimerRecord
           /\ w.mode = t.mode /\ w.div = t.div /\ w.ocr = t.ocr
           /\ w.halted = t.halted /\ w.reset = t.reset /\ w.held = t.held
           /\ w.el = t.el /\ w.tov = t.tov /\ w.comp = t.comp /\ w.flags = t.flags
           /\ w.top = TopIn(t.mode, t.ocr) /\ w.len = LengthIn(t.mode, t.div, t.ocr)
           /\ \A u \in Units : w.cc[u] = IF t.ocr[u] <= w.top THEN t.div * (t.ocr[u] + 1) ELSE 0
           /\ TM!Buffered(w) => w.pend = {}
           /\ InUse(w) = t.ocr
<1>1. t.ocr \in [Units -> TM!Values]
  BY DEF TimerRecord
<1>2. ASSUME NEW x \in TimerRecord, x.ocr = t.ocr, ~TM!Buffered(x) \/ x.pend = {}
      PROVE  InUse(x) = t.ocr
  <2>1. \A u \in Units : TM!OcrEff(x, u) = t.ocr[u]
    BY <1>2 DEF TM!OcrEff
  <2>2. QED  BY <1>1, <2>1 DEF InUse
<1>3. CASE ~TM!Buffered(t) \/ t.pend = {}
  <2>1. w = t
    BY <1>3 DEF TM!Latch
  <2>2. InUse(t) = t.ocr
    BY <1>2, <1>3
  <2>3. QED  BY <1>3, <2>1, <2>2 DEF TimerPeriod
<1>4. CASE TM!Buffered(t) /\ t.pend # {}
  <2> DEFINE c == [t EXCEPT !.pend = {}, !.act = TM!Zero]
  <2>1. w = TM!Recompute(c)
    BY <1>4 DEF TM!Latch
  <2>2. c \in TimerRecord
    <3>1. TM!Zero \in [Units -> TM!Values]
      BY TimerConstants DEF TM!Zero, Units
    <3>2. QED  BY <3>1 DEF TimerRecord
  <2>3. /\ c.mode = t.mode /\ c.div = t.div /\ c.ocr = t.ocr /\ c.pend = {}
        /\ c.halted = t.halted /\ c.reset = t.reset /\ c.held = t.held
        /\ c.el = t.el /\ c.tov = t.tov /\ c.comp = t.comp /\ c.flags = t.flags
    BY DEF TimerRecord
  <2> HIDE DEF c
  <2>4. InUse(c) = t.ocr
    BY <1>2, <2>2, <2>3
  <2>5. /\ w \in TimerRecord
        /\ w.mode = t.mode /\ w.div = t.div /\ w.ocr = t.ocr /\ w.pend = {}
        /\ w.halted = t.halted /\ w.reset = t.reset /\ w.held = t.held
        /\ w.el = t.el /\ w.tov = t.tov /\ w.comp = t.comp /\ w.flags = t.flags
        /\ w.top = TopIn(t.mode, t.ocr) /\ w.len = LengthIn(t.mode, t.div, t.ocr)
        /\ \A u \in Units : w.cc[u] = IF t.ocr[u] <= w.top THEN t.div * (t.ocr[u] + 1) ELSE 0
    BY <2>1, <2>2, <2>3, <2>4, RecomputedIs
  <2>6. InUse(w) = t.ocr
    BY <1>2, <2>5
  <2>7. QED  BY <2>5, <2>6
<1>5. QED  BY <1>3, <1>4

\* The end of the period is called late: with it, what is due of those after it.
LEMMA SettledLate ==
    ASSUME TimerOk, timer.tov # TM!Never, timer.tov <= 0, NEW late, late = -timer.tov,
           NEW len, len = LengthIn(timer.mode, timer.div, timer.ocr), NEW w, w = TM!Settled
    PROVE  /\ late \in Nat /\ len \in Nat /\ len >= 2 /\ late % len \in 0 .. len - 1
           /\ w \in TimerRecord
           /\ w.mode = timer.mode /\ w.div = timer.div /\ w.ocr = timer.ocr
           /\ w.halted = timer.halted /\ w.reset = timer.reset /\ w.held = timer.held
           /\ w.tov = timer.tov /\ w.el = late % len /\ w.len = len
           /\ w.top = TopIn(timer.mode, timer.ocr) /\ InUse(w) = timer.ocr
           /\ w.flags = timer.flags \cup DueUnits(timer)
                        \cup Ended(part.strict, timer.mode, timer.ocr)
                        \cup UnitsReached(timer.mode, timer.div, timer.ocr, late % len)
           /\ \A u \in Units : w.comp[u] = TM!Never => w.cc[u] \notin (late % len) + 1 .. len - 1
<1> DEFINE p == TM!Passed(timer)
           q == IF TM!Buffered(p) THEN TM!Latch(p) ELSE p
           b == Begun(q, late, FALSE, FALSE)
           r == late % len
           x == IF b.len > late THEN b ELSE Begun(b, r, FALSE, FALSE)
<1>1. /\ TM!WellFormed /\ TimerInv(timer) /\ TimerPeriod(timer) /\ timer \in TimerRecord
      /\ TimerRuns(timer) /\ TimerMatches(timer)
  BY DEF TimerOk, TimerCounting, TimerInv
<1>2. timer.tov \in Int /\ timer.comp \in Deadlines
  BY <1>1 DEF TimerRecord
<1>3. late \in Nat /\ timer.div # 0 /\ ~timer.halted /\ ~timer.reset
  BY <1>1, <1>2 DEF TimerRuns
<1>4. /\ p \in TimerRecord
      /\ p.mode = timer.mode /\ p.div = timer.div /\ p.ocr = timer.ocr /\ p.pend = timer.pend
      /\ p.act = timer.act /\ p.halted = timer.halted /\ p.reset = timer.reset /\ p.held = timer.held
      /\ p.top = timer.top /\ p.len = timer.len /\ p.cc = timer.cc /\ p.el = timer.el /\ p.tov = timer.tov
      /\ p.flags = timer.flags \cup DueUnits(timer)
      /\ \A u \in Units : p.comp[u] = IF u \in DueUnits(timer) THEN TM!Never ELSE timer.comp[u]
  BY <1>1, PassedIs
<1>5. \A u \in Units : p.comp[u] = TM!Never
  <2>1. ASSUME NEW u \in Units, timer.comp[u] # TM!Never
        PROVE  u \in DueUnits(timer)
    <3>1. timer.comp[u] < timer.tov /\ timer.comp[u] \in Int
      BY <1>1, <1>2, <2>1 DEF TimerMatches, Deadlines
    <3>2. QED  BY <1>2, <2>1, <3>1 DEF DueUnits
  <2>2. QED  BY <1>4, <2>1
<1> HIDE DEF p
<1>6. InUse(p) = InUse(timer)
  BY <1>4 DEF InUse, TM!OcrEff, TM!Buffered
<1>7. TimerPeriod(p)
  BY <1>1, <1>4, <1>6 DEF TimerPeriod
<1>8. /\ q \in TimerRecord
      /\ q.mode = timer.mode /\ q.div = timer.div /\ q.ocr = timer.ocr
      /\ q.halted = timer.halted /\ q.reset = timer.reset /\ q.held = timer.held
      /\ q.tov = timer.tov /\ q.comp = p.comp /\ q.flags = p.flags
      /\ q.top = TopIn(timer.mode, timer.ocr) /\ q.len = len
      /\ \A u \in Units : q.cc[u] = IF timer.ocr[u] <= q.top THEN timer.div * (timer.ocr[u] + 1) ELSE 0
      /\ TM!Buffered(q) => q.pend = {}
      /\ InUse(q) = timer.ocr
  BY <1>1, <1>4, <1>7, LatchedUses
<1>9. len \in Nat /\ len >= 2
  <2>1. TimerInv(p)
    <3>1. TimerMatches(p)
      BY <1>5 DEF TimerMatches
    <3>2. QED
      BY <1>1, <1>4, <3>1 DEF TimerInv, TimerFits, TimerRuns, TimerTimed, TM!Timed
  <2>2. CASE TM!Buffered(p)
    <3>1. q = TM!Latch(p)
      BY <2>2
    <3>2. q.len >= 2
      BY <1>1, <1>4, <2>1, <3>1, LatchHolds
    <3>3. QED  BY <1>8, <3>2 DEF TimerRecord
  <2>3. CASE ~TM!Buffered(p)
    BY <1>4, <1>8, <2>1, <2>3 DEF TimerRecord, TimerInv, TimerRuns
  <2>4. QED  BY <2>2, <2>3
<1>10. TM!Period(p, late, FALSE, FALSE) = b
  BY PeriodIs
<1> HIDE DEF q
<1>11. /\ b \in TimerRecord
       /\ b.mode = q.mode /\ b.div = q.div /\ b.ocr = q.ocr /\ b.pend = q.pend
       /\ b.act = q.act /\ b.halted = q.halted /\ b.reset = q.reset /\ b.held = q.held
       /\ b.top = q.top /\ b.len = q.len /\ b.cc = q.cc /\ b.tov = q.tov /\ b.el = late
       /\ \A u \in Units : b.comp[u] = IF q.cc[u] \in 1 .. q.len - 1 /\ q.cc[u] >= late
                                       THEN q.cc[u] - late ELSE TM!Never
       /\ b.flags = q.flags \cup {u \in Units : q.cc[u] = q.len} \cup
                    (IF TM!Silent(q) THEN {} ELSE {"TOV"})
  <2>1. b = Begun(q, late, FALSE, FALSE)
    OBVIOUS
  <2> HIDE DEF b
  <2>2. Started(b, q, late, FALSE, FALSE)
    BY <1>1, <1>3, <1>8, <2>1, StartedIs, Zenon
  <2>3. \A u \in Units : q.comp[u] = TM!Never
    BY <1>5, <1>8
  <2>4. QED  BY <2>2, <2>3 DEF Started
<1>12. (IF TM!Buffered(b) THEN TM!Latch(b) ELSE b) = b
  <2> HIDE DEF b
  <2>1. TM!Buffered(b) => b.pend = {}
    BY <1>8, <1>11 DEF TM!Buffered
  <2>2. QED  BY <2>1 DEF TM!Latch
<1>13. TM!Period(b, r, FALSE, FALSE) = Begun(b, r, FALSE, FALSE)
  <2>1. (IF ~FALSE /\ TM!Buffered(b) THEN TM!Latch(b) ELSE b) = b
    BY <1>12
  <2> HIDE DEF b, r
  <2>2. QED  BY <2>1, PeriodIs, Zenon
<1>14. w = TM!Passed(x)
  <2>1. TM!Due # {}
    BY <1>2 DEF TM!Due
  <2>2. ~(timer.tov > 0)
    BY <1>2
  <2>3. w = TM!Only({TM!Passed(y) : y \in TM!Overflowed(late)})
    BY <2>1, <2>2 DEF TM!Settled
  <2>4. TM!Overflowed(late) = {x}
    <3>1. {TM!Period(y, late, FALSE, FALSE) : y \in {p}} = {b}
      BY <1>10
    <3>2. TM!Overflowed(late) =
            {IF y.len > late THEN y ELSE TM!Period(y, late % y.len, FALSE, FALSE) : y \in {b}}
      BY <3>1 DEF TM!Overflowed, p
    <3>3. b.len = len
      BY <1>8, <1>11
    <3> HIDE DEF b
    <3>4. TM!Overflowed(late) = {IF b.len > late THEN b ELSE TM!Period(b, late % b.len, FALSE, FALSE)}
      BY <3>2
    <3>5. QED  BY <1>13, <3>3, <3>4
  <2> HIDE DEF x
  <2>5. {TM!Passed(y) : y \in {x}} = {TM!Passed(x)}
    OBVIOUS
  <2>6. QED  BY <2>3, <2>4, <2>5, OnlyOne
<1>15. r \in 0 .. len - 1 /\ (len > late => r = late) /\ (~(len > late) => len <= late)
  <2>1. PICK n \in Nat, d \in Nat \ {0} : n = late /\ d = len
    BY <1>3, <1>9
  <2>2. n % d \in 0 .. d - 1 /\ (n < d => n % d = n)
    BY RemainderOnce
  <2>3. r = n % d
    BY <2>1
  <2> HIDE DEF r
  <2>4. QED  BY <2>1, <2>2, <2>3
<1> HIDE DEF b, r
<1>16. /\ x \in TimerRecord
       /\ x.mode = q.mode /\ x.div = q.div /\ x.ocr = q.ocr /\ x.pend = q.pend
       /\ x.act = q.act /\ x.halted = q.halted /\ x.reset = q.reset /\ x.held = q.held
       /\ x.top = q.top /\ x.len = q.len /\ x.cc = q.cc /\ x.tov = q.tov /\ x.el = r
       /\ \A u \in Units : x.comp[u] = IF q.cc[u] \in 1 .. q.len - 1 /\ q.cc[u] >= r
                                       THEN q.cc[u] - r ELSE TM!Never
       /\ x.flags = q.flags \cup {u \in Units : q.cc[u] = q.len} \cup
                    (IF TM!Silent(q) THEN {} ELSE {"TOV"})
  <2>1. CASE len > late
    <3>1. x = b /\ r = late
      BY <1>8, <1>11, <1>15, <2>1
    <3>2. QED  BY <1>11, <3>1
  <2>2. CASE ~(len > late)
    <3>1. x = Begun(b, r, FALSE, FALSE)
      BY <1>8, <1>11, <2>2
    <3> HIDE DEF x
    <3>2. r \in Nat
      BY <1>9, <1>15
    <3>3. \A u \in Units : b.comp[u] = TM!Never
      BY <1>3, <1>8, <1>9, <1>11, <1>15, <2>2
    <3>4. Started(x, b, r, FALSE, FALSE)
      BY <1>1, <1>11, <3>1, <3>2, StartedIs, Zenon
    <3>5. TM!Silent(b) <=> TM!Silent(q)
      BY <1>11 DEF TM!Silent
    <3>6. x.flags = q.flags \cup {u \in Units : q.cc[u] = q.len} \cup
                    (IF TM!Silent(q) THEN {} ELSE {"TOV"})
      BY <1>11, <3>4, <3>5 DEF Started
    <3>7. \A u \in Units : x.comp[u] = IF q.cc[u] \in 1 .. q.len - 1 /\ q.cc[u] >= r
                                       THEN q.cc[u] - r ELSE TM!Never
      BY <1>11, <3>3, <3>4 DEF Started
    <3>8. QED  BY <1>11, <3>4, <3>6, <3>7 DEF Started
  <2>3. QED  BY <2>1, <2>2
<1> HIDE DEF x
<1>17. \A u \in Units : /\ q.cc[u] \in Nat
                        /\ q.cc[u] = q.len <=> timer.ocr[u] = q.top
                        /\ q.cc[u] \in 1 .. q.len - 1 <=> timer.ocr[u] < q.top
                        /\ timer.ocr[u] < q.top => q.cc[u] = timer.div * (timer.ocr[u] + 1)
  <2>1. timer.div \in Nat \ {0} /\ q.top \in Nat /\ \A u \in Units : timer.ocr[u] \in Nat
    <3>1. timer.div \in Divs /\ timer.ocr \in [Units -> TM!Values] /\ q.top \in TM!Values
      BY <1>1, <1>3, <1>8 DEF TimerRecord
    <3>2. QED  BY <1>1, <3>1, TimerConstants
  <2>2. q.len = timer.div * (q.top + 1)
    BY <1>8 DEF LengthIn
  <2>3. QED  BY <1>8, <2>1, <2>2, MatchIs
<1>18. q.flags \cup {u \in Units : q.cc[u] = q.len} \cup (IF TM!Silent(q) THEN {} ELSE {"TOV"})
          = timer.flags \cup DueUnits(timer) \cup Ended(part.strict, timer.mode, timer.ocr)
  <2>1. TM!Silent(q) <=> part.strict /\ timer.mode = "ctc" /\ TopIn(timer.mode, timer.ocr) # MaxCount
    BY <1>8 DEF TM!Silent
  <2>2. {u \in Units : q.cc[u] = q.len} = {u \in Units : timer.ocr[u] = TopIn(timer.mode, timer.ocr)}
    BY <1>8, <1>17
  <2>3. QED  BY <1>4, <1>8, <2>1, <2>2, Zenon DEF Ended
<1>19. DueUnits(x) = UnitsReached(timer.mode, timer.div, timer.ocr, r)
  <2>1. ASSUME NEW u \in Units
        PROVE  x.comp[u] # TM!Never /\ x.comp[u] <= 0
                   <=> timer.ocr[u] < TopIn(timer.mode, timer.ocr) /\ r = timer.div * (timer.ocr[u] + 1)
    <3>1. /\ q.cc[u] \in Nat /\ r \in Nat /\ TM!Never \in Int /\ TM!Never < 0 /\ q.len \in Nat
      <4>1. Lateness \in Nat /\ TM!Never \in Int /\ TM!Never < -Lateness
        BY <1>1, TimerConstants
      <4>2. QED  BY <1>8, <1>9, <1>15, <1>17, <4>1
    <3>2. CASE timer.ocr[u] < q.top
      <4>1. q.cc[u] = timer.div * (timer.ocr[u] + 1) /\ q.cc[u] \in 1 .. q.len - 1
        BY <1>17, <3>2
      <4>2. PICK c \in Nat : c = q.cc[u]
        BY <3>1
      <4>3. x.comp[u] = IF c >= r THEN c - r ELSE TM!Never
        BY <1>16, <4>1, <4>2
      <4>4. x.comp[u] # TM!Never /\ x.comp[u] <= 0 <=> r = c
        BY <3>1, <4>2, <4>3
      <4>5. QED  BY <1>8, <3>2, <4>1, <4>2, <4>4
    <3>3. CASE ~(timer.ocr[u] < q.top)
      <4>1. x.comp[u] = TM!Never
        BY <1>16, <1>17, <3>3
      <4>2. QED  BY <1>8, <3>3, <4>1
    <3>4. QED  BY <3>2, <3>3
  <2>2. QED  BY <2>1 DEF DueUnits, UnitsReached
<1>20. /\ w \in TimerRecord
       /\ w.mode = x.mode /\ w.div = x.div /\ w.ocr = x.ocr /\ w.pend = x.pend
       /\ w.act = x.act /\ w.halted = x.halted /\ w.reset = x.reset /\ w.held = x.held
       /\ w.top = x.top /\ w.len = x.len /\ w.cc = x.cc /\ w.el = x.el /\ w.tov = x.tov
       /\ w.flags = x.flags \cup DueUnits(x)
       /\ \A u \in Units : w.comp[u] = IF u \in DueUnits(x) THEN TM!Never ELSE x.comp[u]
  BY <1>1, <1>14, <1>16, PassedIs
<1>21. \A u \in Units : w.comp[u] = TM!Never => w.cc[u] \notin r + 1 .. len - 1
  <2>1. SUFFICES ASSUME NEW u \in Units, w.comp[u] = TM!Never, w.cc[u] \in r + 1 .. len - 1
                 PROVE  FALSE
    OBVIOUS
  <2>2. r \in Nat /\ q.cc[u] \in r + 1 .. q.len - 1 /\ q.cc[u] \in Nat /\ q.len \in Nat
    BY <1>8, <1>9, <1>15, <1>16, <1>17, <1>20, <2>1
  <2>3. q.cc[u] \in 1 .. q.len - 1 /\ q.cc[u] >= r /\ q.cc[u] # r
    BY <2>2
  <2>4. x.comp[u] = q.cc[u] - r
    BY <1>16, <2>3
  <2>5. x.comp[u] > 0 /\ TM!Never < 0 /\ TM!Never \in Int
    <3>1. Lateness \in Nat /\ TM!Never \in Int /\ TM!Never < -Lateness
      BY <1>1, TimerConstants
    <3>2. QED  BY <2>2, <2>4, <3>1
  <2>6. u \notin DueUnits(x)
    <3>1. q.cc[u] - r \in Int
      BY <2>2
    <3>2. QED  BY <2>4, <2>5, <3>1 DEF DueUnits
  <2>7. w.comp[u] = x.comp[u]
    BY <1>20, <2>6
  <2>8. QED  BY <2>1, <2>2, <2>4, <2>5, <2>7
<1>22. InUse(w) = timer.ocr
  <2>1. InUse(w) = InUse(q)
    BY <1>16, <1>20 DEF InUse, TM!OcrEff, TM!Buffered
  <2>2. QED  BY <1>8, <2>1
<1>23. w.flags = timer.flags \cup DueUnits(timer)
                        \cup Ended(part.strict, timer.mode, timer.ocr)
                        \cup UnitsReached(timer.mode, timer.div, timer.ocr, r)
  BY <1>16, <1>18, <1>19, <1>20
<1>24. QED
  BY <1>3, <1>8, <1>9, <1>15, <1>16, <1>20, <1>21, <1>22, <1>23 DEF r

-----------------------------------------------------------------------------
(* What the counter is, field by field *)

View(s, how, d, held, counts, V, N, n, k, K, f) ==
    [strict |-> s, mode |-> how, div |-> d, held |-> held, on |-> counts, ocr |-> V, next |-> N,
     count |-> n, into |-> k, skips |-> K, flags |-> f]
IsView(c) ==
    c = View(c.strict, c.mode, c.div, c.held, c.on, c.ocr, c.next, c.count, c.into, c.skips, c.flags)

LEMMA ViewIs ==
    ASSUME NEW s, NEW how, NEW d, NEW held, NEW counts, NEW V, NEW N, NEW n, NEW k, NEW K, NEW f,
           NEW c, c = View(s, how, d, held, counts, V, N, n, k, K, f)
    PROVE  /\ IsView(c)
           /\ c.strict = s /\ c.mode = how /\ c.div = d /\ c.held = held /\ c.on = counts
           /\ c.ocr = V /\ c.next = N /\ c.count = n /\ c.into = k /\ c.skips = K /\ c.flags = f
BY DEF View, IsView

LEMMA SameView ==
    ASSUME NEW c, IsView(c), NEW w, IsView(w),
           w.strict = c.strict, w.mode = c.mode, w.div = c.div, w.held = c.held, w.on = c.on,
           w.ocr = c.ocr, w.next = c.next, w.count = c.count, w.into = c.into, w.skips = c.skips,
           w.flags = c.flags
    PROVE  w = c
BY DEF IsView

LEMMA ViewInto ==
    ASSUME NEW c, IsView(c), NEW a, NEW w, w = [c EXCEPT !.into = a]
    PROVE  /\ IsView(w)
           /\ w.into = a /\ w.strict = c.strict /\ w.mode = c.mode /\ w.div = c.div /\ w.held = c.held
           /\ w.on = c.on /\ w.ocr = c.ocr /\ w.next = c.next /\ w.count = c.count /\ w.skips = c.skips
           /\ w.flags = c.flags
BY DEF IsView, View

LEMMA ViewSkips ==
    ASSUME NEW c, IsView(c), NEW a, NEW w, w = [c EXCEPT !.skips = a]
    PROVE  /\ IsView(w)
           /\ w.skips = a /\ w.strict = c.strict /\ w.mode = c.mode /\ w.div = c.div /\ w.held = c.held
           /\ w.on = c.on /\ w.ocr = c.ocr /\ w.next = c.next /\ w.count = c.count /\ w.into = c.into
           /\ w.flags = c.flags
BY DEF IsView, View

LEMMA ViewFlags ==
    ASSUME NEW c, IsView(c), NEW a, NEW w, w = [c EXCEPT !.flags = a]
    PROVE  /\ IsView(w)
           /\ w.flags = a /\ w.strict = c.strict /\ w.mode = c.mode /\ w.div = c.div /\ w.held = c.held
           /\ w.on = c.on /\ w.ocr = c.ocr /\ w.next = c.next /\ w.count = c.count /\ w.into = c.into
           /\ w.skips = c.skips
BY DEF IsView, View

LEMMA ViewOcr ==
    ASSUME NEW c, IsView(c), NEW a, NEW w, w = [c EXCEPT !.ocr = a]
    PROVE  /\ IsView(w)
           /\ w.ocr = a /\ w.strict = c.strict /\ w.mode = c.mode /\ w.div = c.div /\ w.held = c.held
           /\ w.on = c.on /\ w.next = c.next /\ w.count = c.count /\ w.into = c.into /\ w.skips = c.skips
           /\ w.flags = c.flags
BY DEF IsView, View

LEMMA ViewCount ==
    ASSUME NEW c, IsView(c), NEW a, NEW w, w = [c EXCEPT !.count = a]
    PROVE  /\ IsView(w)
           /\ w.count = a /\ w.strict = c.strict /\ w.mode = c.mode /\ w.div = c.div /\ w.held = c.held
           /\ w.on = c.on /\ w.ocr = c.ocr /\ w.next = c.next /\ w.into = c.into /\ w.skips = c.skips
           /\ w.flags = c.flags
BY DEF IsView, View

LEMMA ViewNext ==
    ASSUME NEW c, IsView(c), NEW a, NEW b, NEW w, w = [c EXCEPT !.next[a] = b]
    PROVE  /\ IsView(w)
           /\ w.next = [c.next EXCEPT ![a] = b] /\ w.strict = c.strict /\ w.mode = c.mode /\ w.div = c.div /\ w.held = c.held
           /\ w.on = c.on /\ w.ocr = c.ocr /\ w.count = c.count /\ w.into = c.into /\ w.skips = c.skips
           /\ w.flags = c.flags
BY DEF IsView, View

\* Fields are replaced one after another.
LEMMA ViewAtInTurn ==
    ASSUME NEW c, NEW a, NEW b
    PROVE  TM!Counter!At(c, a, b) =
               [[[c EXCEPT !.count = a] EXCEPT !.into = b] EXCEPT !.skips = {}]
BY DEF TM!Counter!At

LEMMA ViewAt ==
    ASSUME NEW c, IsView(c), NEW a, NEW b, NEW w,
           w = TM!Counter!At(c, a, b)
    PROVE  /\ IsView(w)
           /\ w.count = a /\ w.into = b /\ w.skips = {} /\ w.strict = c.strict /\ w.mode = c.mode
           /\ w.div = c.div /\ w.held = c.held /\ w.on = c.on /\ w.ocr = c.ocr /\ w.next = c.next
           /\ w.flags = c.flags
<1>1. PICK c1 : c1 = [c EXCEPT !.count = a]
  OBVIOUS
<1>2. PICK c2 : c2 = [c1 EXCEPT !.into = b]
  OBVIOUS
<1>3. PICK c3 : c3 = [c2 EXCEPT !.skips = {}]
  OBVIOUS
<1>4. c1 = View(c.strict, c.mode, c.div, c.held, c.on, c.ocr, c.next, a, c.into, c.skips, c.flags)
  BY <1>1 DEF IsView, View
<1>5. c2 = View(c.strict, c.mode, c.div, c.held, c.on, c.ocr, c.next, a, b, c.skips, c.flags)
  BY <1>2, <1>4 DEF View
<1>6. c3 = View(c.strict, c.mode, c.div, c.held, c.on, c.ocr, c.next, a, b, {}, c.flags)
  BY <1>3, <1>5 DEF View
<1>7. w = c3
  BY <1>1, <1>2, <1>3, ViewAtInTurn, Zenon
<1>8. QED  BY <1>6, <1>7 DEF IsView, View

LEMMA ViewSwitchedInTurn ==
    ASSUME NEW c, NEW a, NEW b
    PROVE  [c EXCEPT !.held = a, !.on = b] =
               [[c EXCEPT !.held = a] EXCEPT !.on = b]
OBVIOUS

LEMMA ViewSwitched ==
    ASSUME NEW c, IsView(c), NEW a, NEW b, NEW w,
           w = [c EXCEPT !.held = a, !.on = b]
    PROVE  /\ IsView(w)
           /\ w.held = a /\ w.on = b /\ w.strict = c.strict /\ w.mode = c.mode /\ w.div = c.div
           /\ w.ocr = c.ocr /\ w.next = c.next /\ w.count = c.count /\ w.into = c.into /\ w.skips = c.skips
           /\ w.flags = c.flags
<1>1. PICK c1 : c1 = [c EXCEPT !.held = a]
  OBVIOUS
<1>2. PICK c2 : c2 = [c1 EXCEPT !.on = b]
  OBVIOUS
<1>3. c1 = View(c.strict, c.mode, c.div, a, c.on, c.ocr, c.next, c.count, c.into, c.skips, c.flags)
  BY <1>1 DEF IsView, View
<1>4. c2 = View(c.strict, c.mode, c.div, a, b, c.ocr, c.next, c.count, c.into, c.skips, c.flags)
  BY <1>2, <1>3 DEF View
<1>5. w = c2
  BY <1>1, <1>2, ViewSwitchedInTurn, Zenon
<1>6. QED  BY <1>4, <1>5 DEF IsView, View

Taken(c, a, b, x, y) == [c EXCEPT !.div = a, !.mode = b, !.on = x, !.ocr = y]

LEMMA ViewTakenInTurn ==
    ASSUME NEW c, NEW a, NEW b, NEW x, NEW y
    PROVE  Taken(c, a, b, x, y) =
               [[[[c EXCEPT !.div = a] EXCEPT !.mode = b] EXCEPT !.on = x] EXCEPT !.ocr = y]
BY DEF Taken

LEMMA ViewTaken ==
    ASSUME NEW c, IsView(c), NEW a, NEW b, NEW x, NEW y, NEW w,
           w = Taken(c, a, b, x, y)
    PROVE  /\ IsView(w)
           /\ w.div = a /\ w.mode = b /\ w.on = x /\ w.ocr = y /\ w.strict = c.strict
           /\ w.held = c.held /\ w.next = c.next /\ w.count = c.count /\ w.into = c.into /\ w.skips = c.skips
           /\ w.flags = c.flags
<1>1. PICK c1 : c1 = [c EXCEPT !.div = a]
  OBVIOUS
<1>2. PICK c2 : c2 = [c1 EXCEPT !.mode = b]
  OBVIOUS
<1>3. PICK c3 : c3 = [c2 EXCEPT !.on = x]
  OBVIOUS
<1>4. PICK c4 : c4 = [c3 EXCEPT !.ocr = y]
  OBVIOUS
<1>5. c1 = View(c.strict, c.mode, a, c.held, c.on, c.ocr, c.next, c.count, c.into, c.skips, c.flags)
  BY <1>1 DEF IsView, View
<1>6. c2 = View(c.strict, b, a, c.held, c.on, c.ocr, c.next, c.count, c.into, c.skips, c.flags)
  BY <1>2, <1>5 DEF View
<1>7. c3 = View(c.strict, b, a, c.held, x, c.ocr, c.next, c.count, c.into, c.skips, c.flags)
  BY <1>3, <1>6 DEF View
<1>8. c4 = View(c.strict, b, a, c.held, x, y, c.next, c.count, c.into, c.skips, c.flags)
  BY <1>4, <1>7 DEF View
<1>9. w = c4
  BY <1>1, <1>2, <1>3, <1>4, ViewTakenInTurn, Zenon
<1>10. QED  BY <1>8, <1>9 DEF IsView, View

LEMMA ViewForgetsInTurn ==
    ASSUME NEW c
    PROVE  TM!Counter!AfterReset(c) =
               [[[[[TM!Counter!At(c, 0, 0) EXCEPT !.on = FALSE] EXCEPT !.held = FALSE]
                   EXCEPT !.ocr = TM!Counter!Zero] EXCEPT !.next = TM!Counter!Zero] EXCEPT !.flags = {}]
BY DEF TM!Counter!AfterReset

LEMMA ViewForgets ==
    ASSUME NEW c, IsView(c), NEW w, w = TM!Counter!AfterReset(c)
    PROVE  /\ IsView(w)
           /\ w.on = FALSE /\ w.held = FALSE /\ w.ocr = TM!Counter!Zero /\ w.next = TM!Counter!Zero
           /\ w.strict = c.strict /\ w.mode = c.mode /\ w.div = c.div /\ w.count = 0 /\ w.into = 0
           /\ w.skips = {} /\ w.flags = {}
<1>1. PICK a, no, V : a = TM!Counter!At(c, 0, 0) /\ no = FALSE /\ V = TM!Counter!Zero
  BY Zenon
<1>2. PICK c1 : c1 = [a EXCEPT !.on = no]
  OBVIOUS
<1>3. PICK c2 : c2 = [c1 EXCEPT !.held = no]
  OBVIOUS
<1>4. PICK c3 : c3 = [c2 EXCEPT !.ocr = V]
  OBVIOUS
<1>5. PICK c4 : c4 = [c3 EXCEPT !.next = V]
  OBVIOUS
<1>6. PICK c5 : c5 = [c4 EXCEPT !.flags = {}]
  OBVIOUS
<1>7. /\ IsView(a) /\ a.strict = c.strict /\ a.mode = c.mode /\ a.div = c.div
      /\ a.count = 0 /\ a.into = 0 /\ a.skips = {}
  BY <1>1, ViewAt
<1>8. c1 = View(a.strict, a.mode, a.div, a.held, no, a.ocr, a.next, a.count, a.into, a.skips, a.flags)
  BY <1>2, <1>7 DEF IsView, View
<1>9. c2 = View(a.strict, a.mode, a.div, no, no, a.ocr, a.next, a.count, a.into, a.skips, a.flags)
  BY <1>3, <1>8 DEF View
<1>10. c3 = View(a.strict, a.mode, a.div, no, no, V, a.next, a.count, a.into, a.skips, a.flags)
  BY <1>4, <1>9 DEF View
<1>11. c4 = View(a.strict, a.mode, a.div, no, no, V, V, a.count, a.into, a.skips, a.flags)
  BY <1>5, <1>10 DEF View
<1>12. c5 = View(a.strict, a.mode, a.div, no, no, V, V, a.count, a.into, a.skips, {})
  BY <1>6, <1>11 DEF View
<1>13. w = c5
  BY <1>1, <1>2, <1>3, <1>4, <1>5, <1>6, ViewForgetsInTurn, Zenon
<1>14. /\ IsView(w)
       /\ w.strict = a.strict /\ w.mode = a.mode /\ w.div = a.div /\ w.held = no
       /\ w.on = no /\ w.ocr = V /\ w.next = V /\ w.count = a.count /\ w.into = a.into
       /\ w.skips = a.skips /\ w.flags = {}
  BY <1>12, <1>13, ViewIs
<1>15. QED  BY <1>1, <1>7, <1>14, Zenon

LEMMA ViewRaised ==
    ASSUME NEW c, IsView(c), NEW a, NEW w, w = TM!Counter!Raised(c, a)
    PROVE  /\ IsView(w)
           /\ w.flags = c.flags \cup a /\ w.strict = c.strict /\ w.mode = c.mode /\ w.div = c.div /\ w.held = c.held
           /\ w.on = c.on /\ w.ocr = c.ocr /\ w.next = c.next /\ w.count = c.count /\ w.into = c.into
           /\ w.skips = c.skips
BY DEF IsView, View, TM!Counter!Raised

-----------------------------------------------------------------------------
(* A cycle more *)

LEMMA CounterSame ==
    /\ TM!Counter!Units = Units /\ TM!Counter!Modes = TM!Modes /\ TM!Counter!Values = TM!Values
    /\ TM!Counter!Zero = TM!Zero
    /\ \A how, V : TM!Counter!TopOf(how, V) = TopIn(how, V)
BY DEF TM!Counter!Units, Units, TM!Units, TM!Counter!Modes, TM!Modes, TM!Counter!Values, TM!Values,
       TM!Counter!Zero, TM!Zero, TM!Counter!TopOf, TopIn

\* The counter c runs, e cycles into its period.
Showing(c, s, how, d, V, N, e, K, f) ==
    /\ IsView(c)
    /\ c.strict = s /\ c.mode = how /\ c.div = d /\ c.held = FALSE /\ c.on = TRUE
    /\ c.ocr = V /\ c.next = N /\ c.count = e \div d /\ c.into = e % d /\ c.skips = K
    /\ c.flags = f

LEMMA ShownShows ==
    ASSUME NEW s, NEW how, NEW d, NEW V, NEW N, NEW e, NEW K, NEW f,
           NEW c, c = Shown(s, how, d, V, N, e, K, f)
    PROVE  Showing(c, s, how, d, V, N, e, K, f)
<1>1. c = View(s, how, d, FALSE, TRUE, V, N, e \div d, e % d, K, f)
  BY Zenon DEF Shown, View
<1>2. PICK held, counts, n, k : held = FALSE /\ counts = TRUE /\ n = e \div d /\ k = e % d
  OBVIOUS
<1>3. c = View(s, how, d, held, counts, V, N, n, k, K, f)
  BY <1>1, <1>2, Zenon
<1>4. /\ IsView(c)
      /\ c.strict = s /\ c.mode = how /\ c.div = d /\ c.held = held /\ c.on = counts
      /\ c.ocr = V /\ c.next = N /\ c.count = n /\ c.into = k /\ c.skips = K
      /\ c.flags = f
  BY <1>3, ViewIs
<1>5. QED  BY <1>2, <1>4, Zenon DEF Showing

LEMMA OneShown ==
    ASSUME NEW s, NEW how, NEW d, NEW V, NEW N, NEW e, NEW K, NEW f,
           NEW c, Showing(c, s, how, d, V, N, e, K, f),
           NEW w, Showing(w, s, how, d, V, N, e, K, f)
    PROVE  w = c
<1>1. /\ w.strict = c.strict /\ w.mode = c.mode /\ w.div = c.div /\ w.held = c.held
      /\ w.on = c.on /\ w.ocr = c.ocr /\ w.next = c.next /\ w.count = c.count
      /\ w.into = c.into /\ w.skips = c.skips /\ w.flags = c.flags
  BY Zenon DEF Showing
<1>2. IsView(c) /\ IsView(w)
  BY DEF Showing
<1>3. QED  BY <1>1, <1>2, SameView

\* The match of a unit, in counts and in cycles.
LEMMA MatchesAt ==
    ASSUME NEW d \in Nat \ {0}, NEW V \in [Units -> Nat], NEW how, TopIn(how, V) \in Nat,
           NEW n \in Nat, n <= TopIn(how, V)
    PROVE  {u \in Units : V[u] + 1 = n} = UnitsReached(how, d, V, n * d)
<1>1. PICK top \in Nat : top = TopIn(how, V)
  OBVIOUS
<1>2. ASSUME NEW u \in Units
      PROVE  V[u] + 1 = n <=> (V[u] < top /\ n * d = d * (V[u] + 1))
  <2>1. PICK v \in Nat : v = V[u]
    OBVIOUS
  <2>2. v + 1 = n => n * d = d * (v + 1) /\ v < top
    BY <1>1
  <2>3. ASSUME n * d = d * (v + 1)
        PROVE  v + 1 = n
    <3>1. CASE n = 0
      <4>1. d * (v + 1) \in Nat \ {0}
        BY CountsOrder
      <4>2. n * d = 0
        BY <3>1
      <4>3. QED  BY <2>3, <4>1, <4>2
    <3>2. CASE n # 0
      <4>1. PICK m \in Nat : n = m + 1
        BY <3>2
      <4>2. n * d = d * (m + 1)
        BY <4>1
      <4>3. m = v
        BY <2>3, <4>2, CountsOrder
      <4>4. QED  BY <4>1, <4>3
    <3>3. QED  BY <3>1, <3>2
  <2>4. QED  BY <2>1, <2>2, <2>3
<1>3. QED  BY <1>1, <1>2 DEF UnitsReached

LEMMA NothingReached ==
    ASSUME NEW d \in Nat \ {0}, NEW V \in [Units -> Nat], NEW how, NEW e \in Nat,
           e = 0 \/ e % d # 0
    PROVE  UnitsReached(how, d, V, e) = {}
<1>1. SUFFICES ASSUME NEW u \in Units, e = d * (V[u] + 1)
               PROVE  FALSE
  BY DEF UnitsReached
<1>2. PICK v \in Nat : v = V[u]
  OBVIOUS
<1>3. d * (v + 1) \in Nat \ {0}
  BY CountsOrder
<1>4. PICK m \in Nat : m = v + 1
  OBVIOUS
<1>5. (m * d) % d = 0
  BY ExactQuotient
<1>6. e = m * d
  BY <1>1, <1>2, <1>4
<1>7. QED  BY <1>1, <1>2, <1>3, <1>5, <1>6

LEMMA TickedOn ==
    ASSUME NEW s, NEW how, NEW d \in Nat \ {0}, NEW V \in [Units -> Nat], NEW N, NEW e \in Nat,
           NEW K, NEW f, NEW c, Showing(c, s, how, d, V, N, e, K, f),
           TopIn(how, V) \in Nat, e + 1 < LengthIn(how, d, V)
    PROVE  /\ (e + 1) % d # 0 => Showing(TM!Counter!Ticked(c), s, how, d, V, N, e + 1, K, f)
           /\ (e + 1) % d = 0 =>
                Showing(TM!Counter!Ticked(c), s, how, d, V, N, e + 1, {},
                        f \cup (UnitsReached(how, d, V, e + 1) \ K))
<1>1. PICK top \in Nat, n \in Nat, k \in Nat : top = TopIn(how, V) /\ n = e \div d /\ k = e % d
  <2>1. e \div d \in Nat /\ e % d \in Nat
    BY Divides
  <2>2. QED  BY <2>1
<1>2. PICK h \in Nat : h = e + 1
  OBVIOUS
<1>3. /\ IsView(c)
      /\ c.strict = s /\ c.mode = how /\ c.div = d /\ c.held = FALSE /\ c.on = TRUE
      /\ c.ocr = V /\ c.next = N /\ c.count = n /\ c.into = k /\ c.skips = K
      /\ c.flags = f
  BY <1>1, Zenon DEF Showing
<1>4. e = n * d + k /\ k < d /\ h < d * (top + 1)
  <2>1. e = (e \div d) * d + (e % d) /\ e % d \in 0 .. d - 1
    BY Divides
  <2>2. QED  BY <1>1, <1>2, <2>1 DEF LengthIn
<1>5. TM!Counter!Top(c) = top
  BY <1>1, <1>3, CounterSame DEF TM!Counter!Top
<1>6. CASE k + 1 < d
  <2>1. h \div d = n /\ h % d = k + 1 /\ h % d # 0
    <3>1. (e % d) + 1 < d => (e + 1) \div d = e \div d /\ (e + 1) % d = (e % d) + 1
      BY DividesNext
    <3>2. QED  BY <1>1, <1>2, <1>6, <3>1
  <2>2. PICK w : w = [c EXCEPT !.into = k + 1]
    OBVIOUS
  <2>3. TM!Counter!Ticked(c) = w
    BY <1>3, <1>6, <2>2 DEF TM!Counter!Ticked
  <2>5. /\ IsView(w)
        /\ w.strict = c.strict /\ w.mode = c.mode /\ w.div = c.div /\ w.held = c.held
        /\ w.on = c.on /\ w.ocr = c.ocr /\ w.next = c.next /\ w.count = c.count
        /\ w.into = k + 1 /\ w.skips = c.skips /\ w.flags = c.flags
    BY <1>3, <2>2, ViewInto
  <2>6. Showing(w, s, how, d, V, N, h, K, f)
    BY <1>3, <2>1, <2>5, Zenon DEF Showing
  <2>7. QED  BY <1>2, <2>1, <2>3, <2>6
<1>7. CASE ~(k + 1 < d)
  <2>1. h \div d = n + 1 /\ h % d = 0
    <3>1. (e % d) + 1 >= d => (e + 1) \div d = (e \div d) + 1 /\ (e + 1) % d = 0
      BY DividesNext
    <3>2. QED  BY <1>1, <1>2, <1>7, <3>1
  <2>2. k + 1 = d /\ ~(k + 1 < d)
    BY <1>4, <1>7
  <2>3. PICK m \in Nat : m = n + 1
    OBVIOUS
  <2>4. h = m * d
    <3>1. h = (h \div d) * d + (h % d)
      BY Divides
    <3>2. QED  BY <2>1, <2>3, <3>1
  <2>5. m <= top
    <3>1. SUFFICES ASSUME top + 1 <= m
                   PROVE  FALSE
      BY <1>1
    <3>2. (top + 1) * d <= m * d
      BY <3>1, ProductGrows
    <3>3. (top + 1) * d = d * (top + 1) /\ d * (top + 1) \in Nat
      BY CountsOrder
    <3>4. QED  BY <1>4, <2>4, <3>2, <3>3
  <2>6. n < top
    BY <2>3, <2>5
  <2>7. PICK a : a = TM!Counter!At(c, m, 0)
    OBVIOUS
  <2>8. PICK more : more = UnitsReached(how, d, V, h) \ K
    OBVIOUS
  <2>9. TM!Counter!MatchedBefore(c, m) \ c.skips = more
    <3>1. TM!Counter!MatchedBefore(c, m) = {u \in Units : V[u] + 1 = m}
      BY <1>3, CounterSame DEF TM!Counter!MatchedBefore
    <3>2. {u \in Units : V[u] + 1 = m} = UnitsReached(how, d, V, h)
      BY <1>1, <2>4, <2>5, MatchesAt
    <3>3. QED  BY <1>3, <2>8, <3>1, <3>2
  <2>10. PICK w : w = TM!Counter!Raised(a, more)
    OBVIOUS
  <2>11. TM!Counter!Ticked(c) = w
    BY <1>3, <1>5, <2>2, <2>3, <2>6, <2>7, <2>9, <2>10 DEF TM!Counter!Ticked
  <2>13. /\ IsView(a)
         /\ a.strict = c.strict /\ a.mode = c.mode /\ a.div = c.div /\ a.held = c.held
         /\ a.on = c.on /\ a.ocr = c.ocr /\ a.next = c.next /\ a.count = m
         /\ a.into = 0 /\ a.skips = {} /\ a.flags = c.flags
    BY <1>3, <2>7, ViewAt
  <2>14. /\ IsView(w)
         /\ w.strict = a.strict /\ w.mode = a.mode /\ w.div = a.div /\ w.held = a.held
         /\ w.on = a.on /\ w.ocr = a.ocr /\ w.next = a.next /\ w.count = a.count
         /\ w.into = a.into /\ w.skips = a.skips /\ w.flags = a.flags \cup more
    BY <2>10, <2>13, ViewRaised
  <2>15. w.count = h \div d /\ w.into = h % d
    BY <2>1, <2>3, <2>13, <2>14
  <2>16. Showing(w, s, how, d, V, N, h, {}, f \cup more)
    BY <1>3, <2>13, <2>14, <2>15, Zenon DEF Showing
  <2>17. QED  BY <1>2, <2>1, <2>8, <2>11, <2>16
<1>8. QED  BY <1>6, <1>7

\* The end of a period.
LEMMA EndedIs ==
    ASSUME NEW s, NEW how, NEW V, NEW c, c.strict = s, c.mode = how, c.ocr = V
    PROVE  TM!Counter!AtTop(c) = Ended(s, how, V) /\ TM!Counter!Top(c) = TopIn(how, V)
<1>1. TM!Counter!Top(c) = TopIn(how, V)
  BY CounterSame DEF TM!Counter!Top
<1>2. TM!Counter!Units = Units
  BY CounterSame
<1>3. QED  BY <1>1, <1>2, Zenon DEF TM!Counter!AtTop, Ended

\* The counter c runs.
Active(c, s, how, d, V, N, f) ==
    /\ IsView(c)
    /\ c.strict = s /\ c.mode = how /\ c.div = d /\ c.held = FALSE /\ c.on = TRUE
    /\ c.ocr = V /\ c.next = N /\ c.flags = f

LEMMA WrappedIs ==
    ASSUME NEW s, NEW how, NEW d \in Nat \ {0}, NEW V, NEW N, NEW f,
           NEW c, Active(c, s, how, d, V, N, f)
    PROVE  Showing(TM!Counter!Wrapped(c), s, how, d, N, N, 0, {}, f \cup Ended(s, how, N))
<1>1. /\ IsView(c)
      /\ c.strict = s /\ c.mode = how /\ c.div = d /\ c.held = FALSE /\ c.on = TRUE
      /\ c.ocr = V /\ c.next = N /\ c.flags = f
  BY Zenon DEF Active
<1>2. PICK b : b = [c EXCEPT !.ocr = N]
  OBVIOUS
<1>3. PICK a : a = TM!Counter!At(b, 0, 0)
  OBVIOUS
<1>4. PICK w : w = TM!Counter!Raised(a, TM!Counter!AtTop(a))
  OBVIOUS
<1>5. TM!Counter!Wrapped(c) = w
  BY <1>1, <1>2, <1>3, <1>4 DEF TM!Counter!Wrapped
<1>6. /\ IsView(b)
      /\ b.strict = c.strict /\ b.mode = c.mode /\ b.div = c.div /\ b.held = c.held
      /\ b.on = c.on /\ b.ocr = N /\ b.next = c.next /\ b.flags = c.flags
  BY <1>1, <1>2, ViewOcr
<1>7. /\ IsView(a)
      /\ a.strict = b.strict /\ a.mode = b.mode /\ a.div = b.div /\ a.held = b.held
      /\ a.on = b.on /\ a.ocr = b.ocr /\ a.next = b.next /\ a.count = 0
      /\ a.into = 0 /\ a.skips = {} /\ a.flags = b.flags
  BY <1>3, <1>6, ViewAt
<1>8. TM!Counter!AtTop(a) = Ended(s, how, N)
  <2>1. a.strict = s /\ a.mode = how /\ a.ocr = N
    BY <1>1, <1>6, <1>7
  <2>2. QED  BY <2>1, EndedIs
<1>9. /\ IsView(w)
      /\ w.strict = a.strict /\ w.mode = a.mode /\ w.div = a.div /\ w.held = a.held
      /\ w.on = a.on /\ w.ocr = a.ocr /\ w.next = a.next /\ w.count = a.count
      /\ w.into = a.into /\ w.skips = a.skips /\ w.flags = a.flags \cup Ended(s, how, N)
  BY <1>4, <1>7, <1>8, ViewRaised
<1>10. 0 \div d = 0 /\ 0 % d = 0
  OBVIOUS
<1>11. Showing(w, s, how, d, N, N, 0, {}, f \cup Ended(s, how, N))
  BY <1>1, <1>6, <1>7, <1>9, <1>10, Zenon DEF Showing
<1>12. QED  BY <1>5, <1>11

LEMMA TickedOver ==
    ASSUME NEW s, NEW how, NEW d \in Nat \ {0}, NEW V, NEW N, NEW e \in Nat,
           NEW K, NEW f, NEW c, Showing(c, s, how, d, V, N, e, K, f),
           TopIn(how, V) \in Nat, e + 1 = LengthIn(how, d, V)
    PROVE  Showing(TM!Counter!Ticked(c), s, how, d, N, N, 0, {}, f \cup Ended(s, how, N))
<1>1. PICK top \in Nat : top = TopIn(how, V)
  OBVIOUS
<1>2. c.div = d /\ c.count = e \div d /\ c.into = e % d /\ TM!Counter!Top(c) = top
  BY <1>1, EndedIs DEF Showing
<1>3. e \div d = top /\ (e % d) + 1 = d
  <2>1. PICK m \in Nat : m = d - 1
    OBVIOUS
  <2>2. d * (top + 1) = top * d + d /\ top * d \in Nat
    BY ProductIsNat
  <2>3. e + 1 = d * (top + 1)
    BY <1>1 DEF LengthIn
  <2>4. PICK x \in Nat : x = top * d
    BY <2>2
  <2>5. e = x + m /\ m < d
    BY <2>1, <2>2, <2>3, <2>4
  <2>6. (top * d + m) \div d = top
    BY <2>5, QuotientIs
  <2>7. (top * d + m) % d = m
    BY <2>5, RemainderIs
  <2>8. QED  BY <2>1, <2>4, <2>5, <2>6, <2>7
<1>4. TM!Counter!Ticked(c) = TM!Counter!Wrapped(c)
  <2>1. ~(c.into + 1 < c.div) /\ ~(c.into + 1 = c.div /\ c.count < TM!Counter!Top(c))
    BY <1>2, <1>3
  <2>2. QED  BY <2>1 DEF TM!Counter!Ticked
<1>5. Active(c, s, how, d, V, N, f)
  BY Zenon DEF Showing, Active
<1>6. QED  BY <1>4, <1>5, WrappedIs

-----------------------------------------------------------------------------
(* What is seen *)

\* The cycles into the period of the values last written, when the end of the
\* one before is late.
LateBy(t) == (-t.tov) % LengthIn(t.mode, t.div, t.ocr)
LateFlags(t) ==
    t.flags \cup DueUnits(t) \cup Ended(part.strict, t.mode, t.ocr)
        \cup UnitsReached(t.mode, t.div, t.ocr, LateBy(t))

LEMMA SeenLate ==
    ASSUME TimerOk, timer.tov # TM!Never, timer.tov <= 0
    PROVE  TM!Seen = Shown(part.strict, timer.mode, timer.div, timer.ocr, timer.ocr, LateBy(timer),
                           {}, LateFlags(timer))
<1> DEFINE w == TM!Settled
<1>1. PICK late, len : late = -timer.tov /\ len = LengthIn(timer.mode, timer.div, timer.ocr)
  OBVIOUS
<1>2. PICK r : r = LateBy(timer)
  OBVIOUS
<1>3. r = late % len
  BY <1>1, <1>2 DEF LateBy
<1>4. /\ late \in Nat /\ len \in Nat /\ len >= 2 /\ late % len \in 0 .. len - 1
      /\ w \in TimerRecord
      /\ w.mode = timer.mode /\ w.div = timer.div /\ w.ocr = timer.ocr
      /\ w.halted = timer.halted /\ w.reset = timer.reset /\ w.held = timer.held
      /\ w.tov = timer.tov /\ w.el = late % len /\ w.len = len
      /\ w.top = TopIn(timer.mode, timer.ocr) /\ InUse(w) = timer.ocr
      /\ w.flags = timer.flags \cup DueUnits(timer)
                   \cup Ended(part.strict, timer.mode, timer.ocr)
                   \cup UnitsReached(timer.mode, timer.div, timer.ocr, late % len)
      /\ \A u \in Units : w.comp[u] = TM!Never => w.cc[u] \notin (late % len) + 1 .. len - 1
  BY <1>1, SettledLate
<1>5. /\ timer.div # 0 /\ ~timer.halted /\ ~timer.reset /\ timer \in TimerRecord /\ TM!WellFormed
  BY DEF TimerOk, TimerInv, TimerRuns
<1>6. r \in Nat /\ timer.div \in Nat \ {0} /\ w.top \in Nat
  <2>1. timer.div \in Divs /\ w.top \in TM!Values
    BY <1>4, <1>5 DEF TimerRecord
  <2>2. QED  BY <1>3, <1>4, <1>5, <2>1, TimerConstants
<1> HIDE DEF w
<1>7. TM!Tcnt(w) = r \div timer.div
  <2>1. TM!Tcnt(w) = (r * (w.top + 1)) \div len
    BY <1>3, <1>4, <1>5 DEF TM!Tcnt
  <2>2. PICK e \in Nat, d \in Nat \ {0}, m \in Nat \ {0} :
            e = r /\ d = timer.div /\ m = w.top + 1
    BY <1>6
  <2>3. len = d * m
    BY <1>1, <1>4, <2>2 DEF LengthIn
  <2>4. (e * m) \div (d * m) = e \div d
    BY QuotientOfCounts
  <2>5. QED  BY <2>1, <2>2, <2>3, <2>4
<1>8. [u \in Units |-> IF timer.div = 0 \/ timer.reset THEN timer.ocr[u] ELSE TM!OcrEff(w, u)]
          = timer.ocr
  BY <1>4, <1>5 DEF InUse
<1>9. {u \in Units : timer.tov # TM!Never /\ w.comp[u] = TM!Never
                              /\ w.cc[u] \in w.el + 1 .. w.len - 1} = {}
  BY <1>4
<1>10. w.flags = LateFlags(timer)
  BY <1>2, <1>3, <1>4 DEF LateFlags
<1>11. Look(w) = Shown(part.strict, timer.mode, timer.div, timer.ocr, timer.ocr, r, {},
                       LateFlags(timer))
  <2>1. timer.halted = FALSE /\ (timer.tov # TM!Never) = TRUE
    BY <1>5 DEF TimerRecord
  <2>2. (IF timer.reset THEN 0 ELSE TM!Tcnt(w)) = r \div timer.div
    BY <1>5, <1>7
  <2>3. (IF timer.tov # TM!Never THEN w.el % timer.div ELSE 0) = r % timer.div
    BY <1>3, <1>4
  <2>4. QED  BY <1>4, <1>8, <1>9, <1>10, <2>1, <2>2, <2>3, Zenon DEF Look, Shown
<1>12. QED  BY <1>2, <1>11, SeenIs DEF w

\* The counter c does not count.
Idle(c, s, how, d, held, V, N, n, f) ==
    /\ IsView(c)
    /\ c.strict = s /\ c.mode = how /\ c.div = d /\ c.held = held /\ c.on = FALSE
    /\ c.ocr = V /\ c.next = N /\ c.count = n /\ c.into = 0 /\ c.skips = {} /\ c.flags = f

LEMMA OneIdle ==
    ASSUME NEW s, NEW how, NEW d, NEW held, NEW V, NEW N, NEW n, NEW f,
           NEW c, Idle(c, s, how, d, held, V, N, n, f),
           NEW w, Idle(w, s, how, d, held, V, N, n, f)
    PROVE  w = c
<1>1. /\ w.strict = c.strict /\ w.mode = c.mode /\ w.div = c.div /\ w.held = c.held
      /\ w.on = c.on /\ w.ocr = c.ocr /\ w.next = c.next /\ w.count = c.count
      /\ w.into = c.into /\ w.skips = c.skips /\ w.flags = c.flags
  BY Zenon DEF Idle
<1>2. IsView(c) /\ IsView(w)
  BY DEF Idle
<1>3. QED  BY <1>1, <1>2, SameView

\* The timer before the end of a period, when it is late, and stopped.
TimerBefore == TimerOk /\ timer.tov # TM!Never /\ timer.tov > 0
TimerLate == TimerOk /\ timer.tov # TM!Never /\ timer.tov <= 0
TimerStopped == TimerOk /\ timer.tov = TM!Never
ShowsBefore ==
    Showing(TM!Seen, part.strict, timer.mode, timer.div, InUse(timer), timer.ocr, timer.el,
            SkipsOf(timer), timer.flags \cup DueUnits(timer))
ShowsLate ==
    Showing(TM!Seen, part.strict, timer.mode, timer.div, timer.ocr, timer.ocr, LateBy(timer), {},
            LateFlags(timer))
ShowsStopped ==
    Idle(TM!Seen, part.strict, timer.mode, timer.div, timer.halted,
         IF timer.div = 0 \/ timer.reset THEN timer.ocr ELSE InUse(timer), timer.ocr,
         IF timer.halted THEN timer.held ELSE 0, timer.flags)

LEMMA BeforeShows == TimerBefore => ShowsBefore
BY SeenBefore, ShownShows DEF TimerBefore, ShowsBefore
LEMMA LateShows == TimerLate => ShowsLate
BY SeenLate, ShownShows DEF TimerLate, ShowsLate
LEMMA StoppedShows == TimerStopped => ShowsStopped
<1>1. SUFFICES ASSUME TimerStopped
               PROVE  ShowsStopped
  OBVIOUS
<1>2. PICK c : c = TM!Seen
  OBVIOUS
<1>3. PICK held, counts, V, n :
          /\ held = timer.halted /\ counts = FALSE /\ n = IF timer.halted THEN timer.held ELSE 0
          /\ V = IF timer.div = 0 \/ timer.reset THEN timer.ocr ELSE InUse(timer)
  OBVIOUS
<1>4. c = View(part.strict, timer.mode, timer.div, held, counts, V, timer.ocr, n, 0, {}, timer.flags)
  BY <1>1, <1>2, <1>3, SeenStopped, Zenon DEF TimerStopped, Stopped, View
<1>5. /\ IsView(c)
      /\ c.strict = part.strict /\ c.mode = timer.mode /\ c.div = timer.div /\ c.held = held
      /\ c.on = counts /\ c.ocr = V /\ c.next = timer.ocr /\ c.count = n /\ c.into = 0
      /\ c.skips = {} /\ c.flags = timer.flags
  BY <1>4, ViewIs
<1>6. QED  BY <1>2, <1>3, <1>5, Zenon DEF ShowsStopped, Idle

LEMMA BeforeShowsNext == TimerBefore' => ShowsBefore'
BY BeforeShows, PTL
LEMMA LateShowsNext == TimerLate' => ShowsLate'
BY LateShows, PTL
LEMMA StoppedShowsNext == TimerStopped' => ShowsStopped'
BY StoppedShows, PTL

-----------------------------------------------------------------------------
(* The next state, as the record it has *)

Counting(t) == TimerPeriod(t) /\ TimerSkips(t) /\ TimerHalted(t)

LEMMA CountingNext ==
    ASSUME part' = part, NEW w, w = timer'
    PROVE  TimerCounting' <=> Counting(w)
<1>1. \A u : TM!OcrEff(timer, u)' = TM!OcrEff(w, u)
  BY DEF TM!OcrEff, TM!Buffered
<1>2. InUse(timer)' = InUse(w)
  BY <1>1 DEF InUse
<1>3. TimerPeriod(timer)' <=> TimerPeriod(w)
  BY <1>2 DEF TimerPeriod
<1>4. TimerSkips(timer)' <=> TimerSkips(w)
  BY DEF TimerSkips
<1>5. TimerHalted(timer)' <=> TimerHalted(w)
  BY DEF TimerHalted, TM!Buffered
<1>6. QED  BY <1>3, <1>4, <1>5 DEF TimerCounting, Counting

LEMMA OkNext ==
    ASSUME TimerOk, TimerInv(timer)', part' = part, NEW w, w = timer', Counting(w)
    PROVE  /\ TimerOk'
           /\ TimerBefore' <=> w.tov # TM!Never /\ w.tov > 0
           /\ TimerLate' <=> w.tov # TM!Never /\ w.tov <= 0
           /\ TimerStopped' <=> w.tov = TM!Never
<1>1. TimerCounting'
  BY CountingNext
<1>2. TimerOk'
  <2>1. TM!WellFormed' <=> TM!WellFormed
    BY DEF TM!WellFormed
  <2>2. QED  BY <1>1, <2>1 DEF TimerOk
<1>3. TM!Never' = TM!Never
  BY DEF TM!Never
<1>4. QED  BY <1>2, <1>3 DEF TimerBefore, TimerLate, TimerStopped

LEMMA ShowsNext ==
    ASSUME part' = part, NEW w, w = timer'
    PROVE  /\ ShowsBefore' =>
                Showing(TM!Seen', part.strict, w.mode, w.div, InUse(w), w.ocr, w.el, SkipsOf(w),
                        w.flags \cup DueUnits(w))
           /\ ShowsLate' =>
                Showing(TM!Seen', part.strict, w.mode, w.div, w.ocr, w.ocr, LateBy(w), {}, LateFlags(w))
           /\ ShowsStopped' =>
                Idle(TM!Seen', part.strict, w.mode, w.div, w.halted,
                     IF w.div = 0 \/ w.reset THEN w.ocr ELSE InUse(w), w.ocr,
                     IF w.halted THEN w.held ELSE 0, w.flags)
<1>1. \A u : TM!OcrEff(timer, u)' = TM!OcrEff(w, u)
  BY DEF TM!OcrEff, TM!Buffered
<1>2. InUse(timer)' = InUse(w)
  BY <1>1 DEF InUse
<1>3. TM!Never' = TM!Never
  BY DEF TM!Never
<1>4. SkipsOf(timer)' = SkipsOf(w) /\ DueUnits(timer)' = DueUnits(w)
  BY <1>3 DEF SkipsOf, DueUnits
<1>5. LateBy(timer)' = LateBy(w)
  BY DEF LateBy, LengthIn, TopIn
<1>6. LateFlags(timer)' = LateFlags(w)
  BY <1>4, <1>5, Zenon DEF LateFlags, Ended, UnitsReached, TopIn
<1>7. QED  BY <1>2, <1>4, <1>5, <1>6, Zenon DEF ShowsBefore, ShowsLate, ShowsStopped, Showing, Idle, IsView, View

-----------------------------------------------------------------------------
(* A cycle passes *)

LEMMA PassedOn ==
    ASSUME TimerOk, TM!Pass, NEW w, w = timer'
    PROVE  /\ w.mode = timer.mode /\ w.div = timer.div /\ w.ocr = timer.ocr /\ w.pend = timer.pend
           /\ w.act = timer.act /\ w.halted = timer.halted /\ w.reset = timer.reset
           /\ w.held = timer.held /\ w.top = timer.top /\ w.len = timer.len /\ w.cc = timer.cc
           /\ w.el = timer.el + 1 /\ w.tov = timer.tov - 1 /\ w.flags = {} /\ timer.flags = {}
           /\ timer.tov # TM!Never /\ w.tov # TM!Never /\ part' = part /\ timer.tov \in Int
           /\ timer.tov > 0 \/ timer.tov > -Lateness
           /\ \A u \in Units :
                /\ timer.comp[u] = TM!Never => w.comp[u] = TM!Never
                /\ timer.comp[u] # TM!Never =>
                       w.comp[u] = timer.comp[u] - 1 /\ w.comp[u] # TM!Never
<1>1. timer \in TimerRecord /\ TM!WellFormed /\ timer.comp \in Deadlines /\ timer.tov \in Int
  BY DEF TimerOk, TimerInv, TimerRecord
<1>2. /\ timer.tov # TM!Never /\ timer.flags = {} /\ part' = part
      /\ \A d \in TM!Due : d > -Lateness
      /\ w = [timer EXCEPT !.el = @ + 1, !.tov = TM!Later(@),
                           !.comp = [u \in TM!Units |-> TM!Later(@[u])]]
  BY DEF TM!Pass
<1>3. PICK c : c = [u \in Units |-> TM!Later(timer.comp[u])]
  OBVIOUS
<1>4. PICK x : x = TM!Later(timer.tov)
  OBVIOUS
<1>5. w = [timer EXCEPT !.el = timer.el + 1, !.tov = x, !.comp = c]
  BY <1>2, <1>3, <1>4 DEF Units
<1>6. /\ w.mode = timer.mode /\ w.div = timer.div /\ w.ocr = timer.ocr /\ w.pend = timer.pend
      /\ w.act = timer.act /\ w.halted = timer.halted /\ w.reset = timer.reset
      /\ w.held = timer.held /\ w.top = timer.top /\ w.len = timer.len /\ w.cc = timer.cc
      /\ w.el = timer.el + 1 /\ w.tov = x /\ w.comp = c /\ w.flags = timer.flags
  BY <1>1, <1>5, ZenonT(30) DEF TimerRecord
<1>7. TM!Never \in Int /\ TM!Never < -Lateness /\ Lateness \in Nat
  BY <1>1, TimerConstants
<1>8. x = timer.tov - 1
  BY <1>2, <1>4 DEF TM!Later
<1>9. timer.tov > 0 \/ timer.tov > -Lateness
  BY <1>1, <1>2 DEF TM!Due
<1>10. x # TM!Never
  BY <1>1, <1>7, <1>8, <1>9
<1>11. ASSUME NEW u \in Units
       PROVE  /\ timer.comp[u] = TM!Never => c[u] = TM!Never
              /\ timer.comp[u] # TM!Never => c[u] = timer.comp[u] - 1 /\ c[u] # TM!Never
  <2>1. timer.comp[u] \in Int
    BY <1>1 DEF Deadlines
  <2>2. c[u] = TM!Later(timer.comp[u])
    BY <1>3
  <2>3. timer.comp[u] # TM!Never => timer.comp[u] > 0 \/ timer.comp[u] > -Lateness
    BY <1>2, <2>1 DEF TM!Due, Units
  <2>4. QED  BY <1>7, <2>1, <2>2, <2>3 DEF TM!Later
<1>12. QED  BY <1>1, <1>2, <1>6, <1>8, <1>9, <1>10, <1>11

LEMMA PassCounts ==
    ASSUME TimerOk, TM!Pass, NEW w, w = timer'
    PROVE  Counting(w) /\ InUse(w) = InUse(timer)
<1>1. /\ w.mode = timer.mode /\ w.div = timer.div /\ w.ocr = timer.ocr /\ w.pend = timer.pend
      /\ w.act = timer.act /\ w.halted = timer.halted /\ w.reset = timer.reset
      /\ w.top = timer.top /\ w.len = timer.len /\ w.cc = timer.cc
      /\ w.el = timer.el + 1 /\ w.tov = timer.tov - 1
      /\ timer.tov # TM!Never /\ w.tov # TM!Never
      /\ \A u \in Units :
            /\ timer.comp[u] = TM!Never => w.comp[u] = TM!Never
            /\ timer.comp[u] # TM!Never =>
                   w.comp[u] = timer.comp[u] - 1 /\ w.comp[u] # TM!Never
  BY PassedOn
<1>2. /\ timer \in TimerRecord /\ TM!WellFormed /\ timer.el \in Nat /\ timer.len \in Nat
      /\ timer.cc \in [Units -> Nat] /\ timer.div \in Nat
      /\ TimerPeriod(timer) /\ TimerSkips(timer) /\ TimerHalted(timer) /\ TimerRuns(timer)
  <2>1. /\ timer \in TimerRecord /\ TM!WellFormed /\ TimerRuns(timer)
        /\ TimerPeriod(timer) /\ TimerSkips(timer) /\ TimerHalted(timer)
    BY DEF TimerOk, TimerInv, TimerCounting
  <2>2. timer.div \in Divs \cup {0} /\ timer.el \in Nat /\ timer.len \in Nat /\ timer.cc \in [Units -> Nat]
    BY <2>1 DEF TimerRecord
  <2>3. QED  BY <2>1, <2>2, TimerConstants
<1>3. \A u : TM!OcrEff(w, u) = TM!OcrEff(timer, u)
  BY <1>1 DEF TM!OcrEff, TM!Buffered
<1>4. InUse(w) = InUse(timer)
  BY <1>3 DEF InUse
<1>5. TimerPeriod(w)
  BY <1>1, <1>2, <1>4 DEF TimerPeriod
<1>6. TimerSkips(w)
  <2>1. SUFFICES ASSUME NEW u \in Units, w.comp[u] = TM!Never, w.cc[u] \in w.el + 1 .. w.len - 1
                 PROVE  w.cc[u] - w.el <= w.div
    BY DEF TimerSkips
  <2>2. timer.comp[u] = TM!Never
    BY <1>1, <2>1
  <2>3. timer.cc[u] \in Nat /\ timer.cc[u] \in timer.el + 1 .. timer.len - 1
    BY <1>1, <1>2, <2>1
  <2>4. timer.cc[u] - timer.el <= timer.div
    BY <1>1, <1>2, <2>2, <2>3 DEF TimerSkips
  <2>5. QED  BY <1>1, <1>2, <2>3, <2>4
<1>7. TimerHalted(w)
  BY <1>1, <1>2 DEF TimerHalted, TimerRuns
<1>8. QED  BY <1>4, <1>5, <1>6, <1>7 DEF Counting

\* The matches of a period, by the cycle they have.
LEMMA PeriodMatches ==
    ASSUME TM!WellFormed, NEW t \in TimerRecord, t.tov # TM!Never, t.div # 0, TimerPeriod(t)
    PROVE  /\ t.div \in Nat \ {0} /\ InUse(t) \in [Units -> Nat] /\ TopIn(t.mode, InUse(t)) \in Nat
           /\ t.len \in Nat /\ t.cc \in [Units -> Nat] /\ t.el \in Nat
           /\ t.len = LengthIn(t.mode, t.div, InUse(t)) /\ t.top = TopIn(t.mode, InUse(t))
           /\ \A h \in 1 .. t.len - 1 :
                UnitsReached(t.mode, t.div, InUse(t), h) = {u \in Units : t.cc[u] = h}
           /\ \A u \in Units : t.cc[u] \in 1 .. t.len - 1 =>
                    t.cc[u] = t.div * (InUse(t)[u] + 1) /\ InUse(t)[u] < t.top
<1>1. t.div \in Divs /\ t.len \in Nat /\ t.cc \in [Units -> Nat] /\ t.el \in Nat
  BY DEF TimerRecord
<1>2. t.div \in Nat \ {0}
  BY <1>1, TimerConstants
<1>3. InUse(t) \in [Units -> Nat] /\ TopIn(t.mode, InUse(t)) \in Nat
  <2>1. \A v \in TM!Values : v \in Nat
    BY TimerConstants
  <2>2. InUse(t) \in [Units -> TM!Values] /\ TopIn(t.mode, InUse(t)) \in TM!Values
    BY UseIsValue
  <2>3. QED  BY <2>1, <2>2
<1>4. /\ t.top = TopIn(t.mode, InUse(t)) /\ t.len = LengthIn(t.mode, t.div, InUse(t))
      /\ \A u \in Units : t.cc[u] = IF InUse(t)[u] <= t.top THEN t.div * (InUse(t)[u] + 1) ELSE 0
  BY DEF TimerPeriod
<1>5. ASSUME NEW u \in Units
      PROVE  /\ t.cc[u] \in 1 .. t.len - 1 <=> InUse(t)[u] < t.top
             /\ InUse(t)[u] < t.top => t.cc[u] = t.div * (InUse(t)[u] + 1)
  <2>1. PICK d \in Nat \ {0}, top \in Nat, n \in Nat, len \in Nat, c \in Nat :
            d = t.div /\ top = t.top /\ n = InUse(t)[u] /\ len = t.len /\ c = t.cc[u]
    BY <1>1, <1>2, <1>3, <1>4
  <2>2. len = d * (top + 1) /\ c = IF n <= top THEN d * (n + 1) ELSE 0
    BY <1>4, <2>1 DEF LengthIn
  <2>3. (c \in 1 .. len - 1 <=> n < top) /\ (n < top => c = d * (n + 1))
    BY <2>2, MatchIs
  <2>4. QED  BY <2>1, <2>3
<1>6. ASSUME NEW h \in 1 .. t.len - 1
      PROVE  UnitsReached(t.mode, t.div, InUse(t), h) = {u \in Units : t.cc[u] = h}
  <2>1. ASSUME NEW u \in Units
        PROVE  InUse(t)[u] < TopIn(t.mode, InUse(t)) /\ h = t.div * (InUse(t)[u] + 1)
                   <=> t.cc[u] = h
    BY <1>4, <1>5
  <2>2. QED  BY <2>1 DEF UnitsReached
<1>7. QED  BY <1>1, <1>2, <1>3, <1>4, <1>5, <1>6

LEMMA PassUnits ==
    ASSUME TimerOk, TM!Pass, timer.tov > 1, NEW w, w = timer',
           NEW V, V = InUse(timer), NEW h, h = timer.el + 1
    PROVE  /\ h % timer.div # 0 => SkipsOf(w) = SkipsOf(timer) /\ DueUnits(w) = DueUnits(timer)
           /\ h % timer.div = 0 =>
                /\ SkipsOf(w) = {}
                /\ DueUnits(w) = DueUnits(timer)
                                     \cup (UnitsReached(timer.mode, timer.div, V, h) \ SkipsOf(timer))
<1>1. /\ w.len = timer.len /\ w.cc = timer.cc
      /\ w.el = timer.el + 1 /\ timer.tov # TM!Never
      /\ \A u \in Units :
            /\ timer.comp[u] = TM!Never => w.comp[u] = TM!Never
            /\ timer.comp[u] # TM!Never =>
                   w.comp[u] = timer.comp[u] - 1 /\ w.comp[u] # TM!Never
  BY PassedOn
<1>2. /\ timer \in TimerRecord /\ TM!WellFormed /\ TimerPeriod(timer) /\ TimerSkips(timer)
      /\ timer.div # 0 /\ timer.tov = timer.len - timer.el /\ TimerMatches(timer)
  BY <1>1 DEF TimerOk, TimerInv, TimerCounting, TimerRuns
<1>3. PICK d \in Nat \ {0}, len \in Nat, e \in Nat :
          d = timer.div /\ len = timer.len /\ e = timer.el
  BY <1>1, <1>2, PeriodMatches
<1>4. timer.cc \in [Units -> Nat] /\ V \in [Units -> Nat]
  BY <1>1, <1>2, PeriodMatches
<1>5. h = e + 1 /\ h \in Nat /\ h \in 1 .. len - 1
  BY <1>2, <1>3
<1>6. UnitsReached(timer.mode, timer.div, V, h) = {u \in Units : timer.cc[u] = h}
  BY <1>1, <1>2, <1>3, <1>5, PeriodMatches
<1>7. \A u \in Units : timer.cc[u] \in 1 .. len - 1 => timer.cc[u] = d * (V[u] + 1)
  BY <1>1, <1>2, <1>3, PeriodMatches
<1>8. ASSUME NEW u \in Units, timer.comp[u] # TM!Never
      PROVE  /\ timer.comp[u] = timer.cc[u] - e /\ timer.cc[u] < len /\ timer.cc[u] \in Nat
             /\ w.comp[u] # TM!Never /\ w.comp[u] = timer.cc[u] - h
  <2>1. timer.comp[u] = timer.cc[u] - timer.el /\ timer.comp[u] < timer.tov
    BY <1>2, <1>8 DEF TimerMatches
  <2>2. QED  BY <1>1, <1>2, <1>3, <1>4, <1>5, <1>8, <2>1
<1>9. \A u \in Units : u \in DueUnits(w) <=> timer.comp[u] # TM!Never /\ timer.cc[u] <= h
  BY <1>1, <1>5, <1>8 DEF DueUnits
<1>10. \A u \in Units : u \in DueUnits(timer) <=> timer.comp[u] # TM!Never /\ timer.cc[u] <= e
  BY <1>3, <1>8 DEF DueUnits
<1>11. \A u \in Units : u \in SkipsOf(w) <=> timer.comp[u] = TM!Never /\ timer.cc[u] \in h + 1 .. len - 1
  BY <1>1, <1>3, <1>5 DEF SkipsOf
<1>12. \A u \in Units : u \in SkipsOf(timer) <=> timer.comp[u] = TM!Never /\ timer.cc[u] \in h .. len - 1
  BY <1>3, <1>5 DEF SkipsOf
<1>13. DueUnits(w) \subseteq Units /\ DueUnits(timer) \subseteq Units
       /\ SkipsOf(w) \subseteq Units /\ SkipsOf(timer) \subseteq Units
  BY DEF DueUnits, SkipsOf
<1>14. CASE h % timer.div # 0
  <2>1. UnitsReached(timer.mode, timer.div, V, h) = {}
    BY <1>3, <1>4, <1>5, <1>14, NothingReached
  <2>2. \A u \in Units : timer.cc[u] # h /\ timer.cc[u] \in Nat
    BY <1>4, <1>6, <2>1
  <2>3. ASSUME NEW u \in Units
        PROVE  /\ u \in DueUnits(w) <=> u \in DueUnits(timer)
               /\ u \in SkipsOf(w) <=> u \in SkipsOf(timer)
    <3>1. PICK c \in Nat : c = timer.cc[u] /\ c # h
      BY <2>2
    <3>2. (c <= h <=> c <= e) /\ (c \in h + 1 .. len - 1 <=> c \in h .. len - 1)
      BY <1>5, <3>1
    <3>3. QED  BY <1>9, <1>10, <1>11, <1>12, <3>1, <3>2
  <2>4. DueUnits(w) = DueUnits(timer) /\ SkipsOf(w) = SkipsOf(timer)
    BY <1>13, <2>3
  <2>5. QED  BY <1>14, <2>4
<1>15. CASE h % timer.div = 0
  <2>1. SkipsOf(w) = {}
    <3>1. SUFFICES ASSUME NEW u \in Units, timer.comp[u] = TM!Never,
                          timer.cc[u] \in h + 1 .. len - 1
                   PROVE  FALSE
      BY <1>11, <1>13
    <3>2. PICK c \in Nat : c = timer.cc[u]
      BY <1>4
    <3>3. c - e <= d
      BY <1>1, <1>2, <1>3, <1>5, <3>1, <3>2 DEF TimerSkips
    <3>4. PICK n \in Nat : n = V[u] + 1
      BY <1>4
    <3>5. c = n * d
      BY <1>5, <1>7, <3>1, <3>2, <3>4
    <3>6. PICK q \in Nat : h = q * d
      <4>1. h = (h \div d) * d + (h % d) /\ h \div d \in Nat
        BY <1>5, Divides
      <4>2. h % d = 0
        BY <1>3, <1>15
      <4>3. PICK m \in Nat : m = h \div d
        BY <4>1
      <4>4. h = m * d
        BY <4>1, <4>2, <4>3
      <4>5. QED  BY <4>4
    <3>7. n > q
      <4>1. SUFFICES ASSUME n <= q
                     PROVE  FALSE
        BY <3>4
      <4>2. n * d <= q * d
        BY <4>1, ProductGrows
      <4>3. QED  BY <1>5, <3>1, <3>2, <3>5, <3>6, <4>2
    <3>8. (q + 1) * d <= n * d
      BY <3>7, ProductGrows
    <3>9. (q + 1) * d = q * d + d /\ q * d \in Nat
      BY ProductIsNat
    <3>10. PICK x \in Nat : x = q * d
      BY <3>9
    <3>11. x + d <= c /\ h = x
      BY <3>5, <3>6, <3>8, <3>9, <3>10
    <3>12. QED  BY <1>5, <3>3, <3>11
  <2>2. ASSUME NEW u \in Units
        PROVE  u \in DueUnits(w) <=>
                   u \in DueUnits(timer) \/ (timer.cc[u] = h /\ u \notin SkipsOf(timer))
    <3>1. timer.cc[u] \in Nat
      BY <1>4
    <3>2. QED  BY <1>5, <1>9, <1>10, <1>12, <3>1
  <2>3. QED  BY <1>6, <1>13, <1>15, <2>1, <2>2
<1>16. QED  BY <1>14, <1>15

\* The period of the values last written.
LEMMA WrittenIs ==
    ASSUME TM!WellFormed, NEW t \in TimerRecord, t.div # 0
    PROVE  /\ t.div \in Nat \ {0} /\ t.ocr \in [Units -> Nat] /\ TopIn(t.mode, t.ocr) \in Nat
           /\ LengthIn(t.mode, t.div, t.ocr) \in Nat \ {0}
           /\ t.div <= LengthIn(t.mode, t.div, t.ocr)
<1>1. t.div \in Divs /\ t.ocr \in [Units -> TM!Values]
  BY DEF TimerRecord
<1>2. t.div \in Nat \ {0} /\ \A v \in TM!Values : v \in Nat
  BY <1>1, TimerConstants
<1>3. TopIn(t.mode, t.ocr) \in Nat
  <2>1. MaxCount \in Nat /\ "A" \in Units
    BY TimerConstants
  <2>2. QED  BY <1>1, <1>2, <2>1 DEF TopIn
<1>4. PICK d \in Nat \ {0}, top \in Nat : d = t.div /\ top = TopIn(t.mode, t.ocr)
  BY <1>2, <1>3
<1>5. LengthIn(t.mode, t.div, t.ocr) = d * (top + 1)
  BY <1>4 DEF LengthIn
<1>6. d * (top + 1) \in Nat \ {0} /\ d * (top + 1) = top * d + d /\ top * d \in Nat
  BY CountsOrder, ProductIsNat
<1>7. QED  BY <1>1, <1>2, <1>3, <1>4, <1>5, <1>6

LEMMA PassTicks ==
    ASSUME TimerOk, TM!LateByOneCount, TM!Pass, TimerInv(timer)'
    PROVE  TimerCounting' /\ TM!Seen' = TM!Counter!Ticked(TM!Seen)
<1>1. PICK w : w = timer'
  OBVIOUS
<1>2. Counting(w) /\ InUse(w) = InUse(timer)
  BY <1>1, PassCounts
<1>3. /\ w.mode = timer.mode /\ w.div = timer.div /\ w.ocr = timer.ocr
      /\ w.el = timer.el + 1 /\ w.tov = timer.tov - 1 /\ w.flags = {} /\ timer.flags = {}
      /\ timer.tov # TM!Never /\ w.tov # TM!Never /\ part' = part /\ timer.tov \in Int
      /\ timer.tov > 0 \/ timer.tov > -Lateness
      /\ \A u \in Units :
           /\ timer.comp[u] = TM!Never => w.comp[u] = TM!Never
           /\ timer.comp[u] # TM!Never => w.comp[u] = timer.comp[u] - 1 /\ w.comp[u] # TM!Never
  BY <1>1, PassedOn
<1>4. TimerCounting'
  BY <1>1, <1>2, <1>3, CountingNext
<1>5. /\ timer \in TimerRecord /\ TM!WellFormed /\ TimerPeriod(timer) /\ timer.div # 0
      /\ timer.tov = timer.len - timer.el /\ TimerMatches(timer) /\ timer.comp \in Deadlines
  BY <1>3 DEF TimerOk, TimerInv, TimerCounting, TimerRuns, TimerRecord
<1>6. PICK d \in Nat \ {0}, e \in Nat, len \in Nat : d = timer.div /\ e = timer.el /\ len = timer.len
  BY <1>3, <1>5, PeriodMatches
<1>7. PICK V \in [Units -> Nat], N \in [Units -> Nat] : V = InUse(timer) /\ N = timer.ocr
  BY <1>3, <1>5, PeriodMatches, WrittenIs
<1>8. PICK s, how, c, x : s = part.strict /\ how = timer.mode /\ c = TM!Seen /\ x = TM!Seen'
  OBVIOUS
<1>9. PICK L \in Nat \ {0} : L = LengthIn(how, d, N) /\ d <= L
  BY <1>5, <1>6, <1>7, <1>8, WrittenIs
<1>10. TopIn(how, V) \in Nat /\ len = LengthIn(how, d, V) /\ TopIn(how, N) \in Nat
  BY <1>3, <1>5, <1>6, <1>7, <1>8, PeriodMatches, WrittenIs
<1>11. CASE timer.tov > 1
  <2>1. TimerBefore /\ TimerBefore'
    BY <1>1, <1>2, <1>3, <1>11, OkNext DEF TimerBefore
  <2>2. PICK h \in Nat : h = e + 1 /\ h < len
    BY <1>3, <1>5, <1>6, <1>11
  <2>3. Showing(c, s, how, d, V, N, e, SkipsOf(timer), DueUnits(timer))
    <3>1. timer.flags \cup DueUnits(timer) = DueUnits(timer)
      BY <1>3
    <3>2. QED  BY <1>6, <1>7, <1>8, <2>1, <3>1, BeforeShows DEF ShowsBefore
  <2>4. Showing(x, s, how, d, V, N, h, SkipsOf(w), DueUnits(w))
    <3>1. w.flags \cup DueUnits(w) = DueUnits(w)
      BY <1>3
    <3>2. Showing(TM!Seen', part.strict, w.mode, w.div, InUse(w), w.ocr, w.el, SkipsOf(w),
                  w.flags \cup DueUnits(w))
      BY <1>1, <1>3, <2>1, BeforeShowsNext, ShowsNext
    <3>3. w.el = h
      BY <1>3, <1>6, <2>2
    <3>4. QED  BY <1>2, <1>3, <1>6, <1>7, <1>8, <3>1, <3>2, <3>3
  <2>5. /\ h % d # 0 => SkipsOf(w) = SkipsOf(timer) /\ DueUnits(w) = DueUnits(timer)
        /\ h % d = 0 =>
            /\ SkipsOf(w) = {}
            /\ DueUnits(w) = DueUnits(timer) \cup (UnitsReached(how, d, V, h) \ SkipsOf(timer))
    <3>1. h = timer.el + 1
      BY <1>6, <2>2
    <3>2. QED  BY <1>1, <1>6, <1>7, <1>8, <1>11, <3>1, PassUnits
  <2>6. /\ h % d # 0 => Showing(TM!Counter!Ticked(c), s, how, d, V, N, h, SkipsOf(timer), DueUnits(timer))
        /\ h % d = 0 => Showing(TM!Counter!Ticked(c), s, how, d, V, N, h, {},
                        DueUnits(timer) \cup (UnitsReached(how, d, V, h) \ SkipsOf(timer)))
    BY <1>10, <2>2, <2>3, TickedOn
  <2>7. Showing(TM!Counter!Ticked(c), s, how, d, V, N, h, SkipsOf(w), DueUnits(w))
    BY <2>5, <2>6
  <2>8. x = TM!Counter!Ticked(c)
    BY <2>4, <2>7, OneShown
  <2>9. QED  BY <1>4, <1>8, <2>8
<1>12. CASE timer.tov <= 1
  <2>1. TimerLate'
    BY <1>1, <1>2, <1>3, <1>12, OkNext
  <2>2. Showing(x, s, how, d, N, N, LateBy(w), {}, LateFlags(w))
    <3>1. Showing(TM!Seen', part.strict, w.mode, w.div, w.ocr, w.ocr, LateBy(w), {}, LateFlags(w))
      BY <1>1, <1>3, <2>1, LateShowsNext, ShowsNext
    <3>2. QED  BY <1>3, <1>6, <1>7, <1>8, <3>1
  <2>3. DueUnits(w) = DueUnits(timer)
    <3>1. ASSUME NEW u \in Units, timer.comp[u] # TM!Never
          PROVE  timer.comp[u] \in Int /\ timer.comp[u] <= 0
      <4>1. timer.comp[u] < timer.tov /\ timer.comp[u] \in Int
        BY <1>5, <3>1 DEF TimerMatches, Deadlines
      <4>2. QED  BY <1>3, <1>12, <4>1
    <3>2. \A u \in Units : u \in DueUnits(timer) <=> timer.comp[u] # TM!Never
      BY <3>1 DEF DueUnits
    <3>3. \A u \in Units : u \in DueUnits(w) <=> timer.comp[u] # TM!Never
      BY <1>3, <3>1 DEF DueUnits
    <3>4. QED  BY <3>2, <3>3 DEF DueUnits
  <2>4. PICK f : f = DueUnits(timer) \cup Ended(s, how, N)
    OBVIOUS
  <2>5. LateFlags(w) = f \cup UnitsReached(how, d, N, LateBy(w))
    BY <1>3, <1>6, <1>7, <1>8, <2>3, <2>4 DEF LateFlags
  <2>6. CASE timer.tov = 1
    <3>1. LateBy(w) = 0
      <4>1. LateBy(w) = (-w.tov) % L
        BY <1>3, <1>6, <1>7, <1>8, <1>9 DEF LateBy
      <4>2. -w.tov = 0
        <5>1. PICK z \in Int : z = w.tov /\ z = 0
          BY <1>3, <2>6
        <5>2. PICK y \in Int : y = -z
          OBVIOUS
        <5>3. y + z = 0
          BY <5>2
        <5>4. y = 0
          BY <5>1, <5>3
        <5>5. QED  BY <5>1, <5>2, <5>4, Zenon
      <4>3. 0 % L = 0
        BY <1>9
      <4>4. QED  BY <4>1, <4>2, <4>3
    <3>2. UnitsReached(how, d, N, 0) = {}
      BY NothingReached
    <3>3. Showing(x, s, how, d, N, N, 0, {}, f)
      BY <2>2, <2>5, <3>1, <3>2
    <3>4. TimerBefore
      BY <1>3, <2>6 DEF TimerBefore
    <3>5. Showing(c, s, how, d, V, N, e, SkipsOf(timer), DueUnits(timer))
      <4>1. timer.flags \cup DueUnits(timer) = DueUnits(timer)
        BY <1>3
      <4>2. QED  BY <1>6, <1>7, <1>8, <3>4, <4>1, BeforeShows DEF ShowsBefore
    <3>6. e + 1 = len
      BY <1>5, <1>6, <2>6
    <3>7. Showing(TM!Counter!Ticked(c), s, how, d, N, N, 0, {}, f)
      BY <1>10, <2>4, <3>5, <3>6, TickedOver
    <3>8. x = TM!Counter!Ticked(c)
      BY <3>3, <3>7, OneShown
    <3>9. QED  BY <1>4, <1>8, <3>8
  <2>7. CASE timer.tov # 1
    <3>1. PICK late \in Nat : late = -timer.tov /\ late + 1 <= d
      <4>1. Lateness \in Nat /\ timer.div \in Divs
        BY <1>5, TimerConstants DEF TimerRecord
      <4>2. timer.div >= Lateness
        BY <4>1 DEF TM!LateByOneCount
      <4>3. timer.tov <= 0 /\ timer.tov > -Lateness
        BY <1>3, <1>12, <2>7
      <4>4. QED  BY <1>3, <1>6, <4>1, <4>2, <4>3
    <3>2. TimerLate
      BY <1>3, <1>12, <2>7 DEF TimerLate
    <3>3. LateBy(timer) = late
      <4>1. LateBy(timer) = late % L
        BY <1>6, <1>7, <1>8, <1>9, <3>1 DEF LateBy
      <4>2. late < L => late % L = late
        BY RemainderOnce
      <4>3. QED  BY <1>9, <3>1, <4>1, <4>2
    <3>4. UnitsReached(how, d, N, late) = {}
      <4>1. late < d => late % d = late
        BY RemainderOnce
      <4>2. late = 0 \/ late % d # 0
        BY <3>1, <4>1
      <4>3. QED  BY <4>2, NothingReached
    <3>5. LateFlags(timer) = f
      BY <1>3, <1>6, <1>7, <1>8, <2>4, <3>3, <3>4 DEF LateFlags
    <3>6. Showing(c, s, how, d, N, N, late, {}, f)
      BY <1>6, <1>7, <1>8, <3>2, <3>3, <3>5, LateShows DEF ShowsLate
    <3>7. PICK h \in Nat : h = late + 1
      OBVIOUS
    <3>8. LateBy(w) = h % L
      <4>1. -w.tov = h
        BY <1>3, <3>1, <3>7
      <4>2. QED  BY <1>3, <1>6, <1>7, <1>8, <1>9, <4>1 DEF LateBy
    <3>9. CASE h < L
      <4>1. LateBy(w) = h
        BY <3>8, <3>9, RemainderOnce
      <4>2. /\ h % d # 0 => Showing(TM!Counter!Ticked(c), s, how, d, N, N, h, {}, f)
            /\ h % d = 0 => Showing(TM!Counter!Ticked(c), s, how, d, N, N, h, {},
                                    f \cup (UnitsReached(how, d, N, h) \ {}))
        BY <1>9, <1>10, <3>6, <3>7, <3>9, TickedOn
      <4>3. h % d # 0 => UnitsReached(how, d, N, h) = {}
        BY NothingReached
      <4>4. f \cup (UnitsReached(how, d, N, h) \ {}) = f \cup UnitsReached(how, d, N, h)
        OBVIOUS
      <4>5. h % d # 0 => f \cup UnitsReached(how, d, N, h) = f
        BY <4>3
      <4>6. Showing(TM!Counter!Ticked(c), s, how, d, N, N, h, {}, f \cup UnitsReached(how, d, N, h))
        BY <4>2, <4>4, <4>5
      <4>7. Showing(x, s, how, d, N, N, h, {}, f \cup UnitsReached(how, d, N, h))
        BY <2>2, <2>5, <4>1
      <4>8. x = TM!Counter!Ticked(c)
        BY <4>6, <4>7, OneShown
      <4>9. QED  BY <1>4, <1>8, <4>8
    <3>10. CASE ~(h < L)
      <4>1. h = L
        BY <1>9, <3>1, <3>7, <3>10
      <4>2. LateBy(w) = 0
        <5>1. (1 * L) % L = 0 /\ 1 * L = L
          BY ExactQuotient
        <5>2. QED  BY <3>8, <4>1, <5>1
      <4>3. UnitsReached(how, d, N, 0) = {}
        BY NothingReached
      <4>4. Showing(x, s, how, d, N, N, 0, {}, f)
        BY <2>2, <2>5, <4>2, <4>3
      <4>5. Showing(TM!Counter!Ticked(c), s, how, d, N, N, 0, {}, f \cup Ended(s, how, N))
        BY <1>9, <1>10, <3>6, <3>7, <4>1, TickedOver
      <4>6. f \cup Ended(s, how, N) = f
        BY <2>4
      <4>7. x = TM!Counter!Ticked(c)
        BY <4>4, <4>5, <4>6, OneShown
      <4>8. QED  BY <1>4, <1>8, <4>7
    <3>11. QED  BY <3>9, <3>10
  <2>8. QED  BY <2>6, <2>7
<1>13. QED  BY <1>3, <1>11, <1>12

-----------------------------------------------------------------------------
(* The end of a period is called *)

LEMMA EndedUnits ==
    ASSUME TM!WellFormed, NEW t \in TimerRecord, t.div # 0, NEW V \in [Units -> Nat],
           t.top = TopIn(t.mode, V), t.len = LengthIn(t.mode, t.div, V),
           \A u \in Units : t.cc[u] = IF V[u] <= t.top THEN t.div * (V[u] + 1) ELSE 0
    PROVE  {u \in Units : t.cc[u] = t.len} \cup (IF TM!Silent(t) THEN {} ELSE {"TOV"})
               = Ended(part.strict, t.mode, V)
<1>1. t.div \in Nat \ {0} /\ t.top \in Nat
  <2>1. t.div \in Divs /\ t.top \in TM!Values
    BY DEF TimerRecord
  <2>2. QED  BY <2>1, TimerConstants
<1>2. ASSUME NEW u \in Units
      PROVE  t.cc[u] = t.len <=> V[u] = TopIn(t.mode, V)
  <2>1. PICK d \in Nat \ {0}, top \in Nat, n \in Nat : d = t.div /\ top = t.top /\ n = V[u]
    BY <1>1
  <2>2. PICK len, c : len = t.len /\ c = t.cc[u]
    OBVIOUS
  <2>3. len = d * (top + 1) /\ c = IF n <= top THEN d * (n + 1) ELSE 0
    BY <2>1, <2>2 DEF LengthIn
  <2>4. c = len <=> n = top
    BY <2>3, MatchIs
  <2>5. QED  BY <2>1, <2>2, <2>4
<1>3. TM!Silent(t) <=> part.strict /\ t.mode = "ctc" /\ TopIn(t.mode, V) # MaxCount
  BY DEF TM!Silent
<1>4. {u \in Units : t.cc[u] = t.len} = {u \in Units : V[u] = TopIn(t.mode, V)}
  BY <1>2
<1>5. QED  BY <1>3, <1>4, Zenon DEF Ended

LEMMA OverflowStays ==
    ASSUME TimerOk, TM!Overflow, TimerInv(timer)'
    PROVE  TimerCounting' /\ TM!Seen' = TM!Seen
<1>1. PICK w, q, late : /\ w = timer' /\ late = -timer.tov
                        /\ q = IF TM!Buffered(timer) THEN TM!Latch(timer) ELSE timer
  OBVIOUS
<1> DEFINE b == Begun(q, late, FALSE, FALSE)
<1>2. b = Begun(q, late, FALSE, FALSE)
  OBVIOUS
<1> HIDE DEF b
<1>3. TM!Period(timer, late, FALSE, FALSE) = b
  BY <1>1, <1>2, PeriodIs
<1>4. w = [b EXCEPT !.tov = b.len + timer.tov] /\ part' = part /\ TM!First(timer.tov)
  BY <1>1, <1>3 DEF TM!Overflow
<1>5. /\ timer \in TimerRecord /\ TM!WellFormed /\ TimerPeriod(timer) /\ timer.tov \in Int
      /\ TimerMatches(timer) /\ timer.comp \in Deadlines /\ TimerRuns(timer)
  BY DEF TimerOk, TimerInv, TimerCounting, TimerRecord
<1>6. timer.tov # TM!Never /\ timer.tov <= 0
  BY <1>4 DEF TM!First, TM!Due
<1>7. \A u \in Units : timer.comp[u] = TM!Never
  <2>1. SUFFICES ASSUME NEW u \in Units, timer.comp[u] # TM!Never
                 PROVE  FALSE
    OBVIOUS
  <2>2. timer.comp[u] < timer.tov /\ timer.comp[u] \in Int
    BY <1>5, <2>1 DEF TimerMatches, Deadlines
  <2>3. timer.comp[u] \in TM!Due
    BY <1>5, <1>6, <2>1, <2>2 DEF TM!Due, Units
  <2>4. timer.tov <= timer.comp[u]
    BY <1>4, <2>3 DEF TM!First
  <2>5. QED  BY <1>5, <2>2, <2>4
<1>8. DueUnits(timer) = {}
  BY <1>7 DEF DueUnits
<1>9. /\ late \in Nat /\ timer.div # 0 /\ ~timer.halted
  BY <1>1, <1>5, <1>6 DEF TimerRuns
<1>10. /\ q \in TimerRecord
       /\ q.mode = timer.mode /\ q.div = timer.div /\ q.ocr = timer.ocr
       /\ q.halted = timer.halted /\ q.comp = timer.comp /\ q.flags = timer.flags
       /\ q.top = TopIn(timer.mode, timer.ocr)
       /\ q.len = LengthIn(timer.mode, timer.div, timer.ocr)
       /\ \A u \in Units : q.cc[u] = IF timer.ocr[u] <= q.top THEN timer.div * (timer.ocr[u] + 1) ELSE 0
       /\ InUse(q) = timer.ocr
  BY <1>1, <1>5, <1>6, LatchedUses
<1>11. Started(b, q, late, FALSE, FALSE)
  BY <1>2, <1>5, <1>9, <1>10, StartedIs, Zenon
<1>12. /\ b \in TimerRecord
       /\ b.mode = q.mode /\ b.div = q.div /\ b.ocr = q.ocr /\ b.pend = q.pend
       /\ b.act = q.act /\ b.halted = q.halted
       /\ b.top = q.top /\ b.len = q.len /\ b.cc = q.cc /\ b.el = late
       /\ \A u \in Units : b.comp[u] = IF q.cc[u] \in 1 .. q.len - 1 /\ q.cc[u] >= late
                                       THEN q.cc[u] - late ELSE TM!Never
       /\ b.flags = q.flags \cup {u \in Units : q.cc[u] = q.len} \cup
                    (IF TM!Silent(q) THEN {} ELSE {"TOV"})
  BY <1>7, <1>10, <1>11 DEF Started
<1>13. PICK tov : tov = b.len + timer.tov
  OBVIOUS
<1>14. /\ w.mode = b.mode /\ w.div = b.div /\ w.ocr = b.ocr /\ w.pend = b.pend
       /\ w.act = b.act /\ w.halted = b.halted
       /\ w.top = b.top /\ w.len = b.len /\ w.cc = b.cc /\ w.el = b.el /\ w.comp = b.comp
       /\ w.flags = b.flags /\ w.tov = tov
  <2>1. w = [b EXCEPT !.tov = tov]
    BY <1>4, <1>13
  <2>2. QED  BY <1>12, <2>1, ZenonT(30) DEF TimerRecord
<1>15. PICK N \in [Units -> Nat], d \in Nat \ {0}, L \in Nat \ {0} :
           N = timer.ocr /\ d = timer.div /\ L = LengthIn(timer.mode, timer.div, timer.ocr)
  BY <1>5, <1>9, WrittenIs
<1>16. PICK s, how, c, x : s = part.strict /\ how = timer.mode /\ c = TM!Seen /\ x = TM!Seen'
  OBVIOUS
<1>17. w.flags = timer.flags \cup Ended(s, how, N)
  <2>1. {u \in Units : q.cc[u] = q.len} \cup (IF TM!Silent(q) THEN {} ELSE {"TOV"})
            = Ended(part.strict, q.mode, N)
    BY <1>5, <1>9, <1>10, <1>15, EndedUnits
  <2>2. QED  BY <1>10, <1>12, <1>14, <1>16, <2>1
<1>18. w.tov = L - late /\ w.el = late /\ w.tov # TM!Never /\ w.tov \in Int
  <2>1. w.tov = L - late
    BY <1>1, <1>5, <1>10, <1>12, <1>13, <1>14, <1>15
  <2>2. TM!WellFormed /\ TimerFits(timer)
    BY DEF TimerOk, TimerInv
  <2>3. late <= Longest + Lateness /\ TM!Never = -Longest - Lateness /\ Longest \in Nat /\ Lateness \in Nat
    <3>1. timer.el \in Nat /\ timer.len \in Nat /\ timer.tov = timer.len - timer.el
      BY <1>5, <1>6 DEF TimerRuns, TimerRecord
    <3>2. timer.el <= Longest + Lateness /\ Longest \in Nat /\ Lateness \in Nat
      BY <2>2, TimerConstants DEF TimerFits
    <3>3. QED  BY <1>1, <3>1, <3>2 DEF TM!Never
  <2>4. QED  BY <1>9, <1>12, <1>14, <1>15, <2>1, <2>3
<1>19. /\ w \in TimerRecord /\ InUse(w) = N /\ w.len = L /\ w.div = d /\ w.mode = how /\ w.ocr = N
       /\ ~w.halted
  <2>1. w \in TimerRecord
    BY <1>1 DEF TimerInv, TimerRecord
  <2>2. InUse(w) = InUse(q)
    BY <1>12, <1>14 DEF InUse, TM!OcrEff, TM!Buffered
  <2>3. QED  BY <1>9, <1>10, <1>12, <1>14, <1>15, <1>16, <2>1, <2>2
<1>20. TimerPeriod(w)
  BY <1>10, <1>12, <1>14, <1>15, <1>16, <1>19 DEF TimerPeriod
<1>21. w.cc \in [Units -> Nat] /\ \A u \in Units :
          w.comp[u] = IF w.cc[u] \in 1 .. L - 1 /\ w.cc[u] >= late THEN w.cc[u] - late ELSE TM!Never
  BY <1>10, <1>12, <1>14, <1>15, <1>19 DEF TimerRecord
<1>22. TM!Never \in Int /\ TM!Never < 0
  <2>1. TM!Never \in Int /\ TM!Never < -Lateness /\ Lateness \in Nat
    BY <1>5, TimerConstants
  <2>2. QED  BY <2>1
<1>23. \A u \in Units : ~(w.comp[u] = TM!Never /\ w.cc[u] \in late + 1 .. L - 1)
  <2>1. SUFFICES ASSUME NEW u \in Units, w.comp[u] = TM!Never, w.cc[u] \in late + 1 .. L - 1
                 PROVE  FALSE
    OBVIOUS
  <2>2. PICK z \in Nat : z = w.cc[u]
    BY <1>21
  <2>3. z \in 1 .. L - 1 /\ z >= late /\ z - late > 0
    BY <1>9, <2>1, <2>2
  <2>4. w.comp[u] = z - late
    BY <1>21, <2>2, <2>3
  <2>5. QED  BY <1>9, <1>22, <2>1, <2>3, <2>4
<1>24. \A u \in Units : u \in DueUnits(w) <=> w.cc[u] = late /\ late \in 1 .. L - 1
  <2>1. SUFFICES ASSUME NEW u \in Units
                 PROVE  w.comp[u] # TM!Never /\ w.comp[u] <= 0
                            <=> w.cc[u] = late /\ late \in 1 .. L - 1
    BY DEF DueUnits
  <2>2. PICK z \in Nat : z = w.cc[u]
    BY <1>21
  <2>3. w.comp[u] = IF z \in 1 .. L - 1 /\ z >= late THEN z - late ELSE TM!Never
    BY <1>21, <2>2
  <2>4. QED  BY <1>9, <1>22, <2>2, <2>3
<1>25. Counting(w)
  <2>1. TimerSkips(w)
    BY <1>18, <1>19, <1>23 DEF TimerSkips
  <2>2. TimerHalted(w)
    BY <1>19 DEF TimerHalted
  <2>3. QED  BY <1>20, <2>1, <2>2 DEF Counting
<1>26. TimerCounting'
  BY <1>1, <1>4, <1>25, CountingNext
<1>27. PICK r : r = late % L
  OBVIOUS
<1>28. Showing(c, s, how, d, N, N, r, {}, timer.flags \cup Ended(s, how, N) \cup UnitsReached(how, d, N, r))
  <2>1. TimerLate
    BY <1>6 DEF TimerLate
  <2>2. LateBy(timer) = r
    BY <1>1, <1>15, <1>27 DEF LateBy
  <2>3. LateFlags(timer) = timer.flags \cup Ended(s, how, N) \cup UnitsReached(how, d, N, r)
    BY <1>8, <1>15, <1>16, <2>2 DEF LateFlags
  <2>4. QED  BY <1>15, <1>16, <2>1, <2>2, <2>3, LateShows DEF ShowsLate
<1>29. CASE late < L
  <2>1. r = late
    BY <1>9, <1>27, <1>29, RemainderOnce
  <2>2. TimerBefore'
    <3>1. part' = part /\ w.tov > 0
      BY <1>4, <1>9, <1>18, <1>29
    <3>2. QED  BY <1>1, <1>18, <1>25, <3>1, OkNext
  <2>3. SkipsOf(w) = {}
    BY <1>18, <1>19, <1>23 DEF SkipsOf
  <2>4. DueUnits(w) = UnitsReached(how, d, N, late)
    <3>1. CASE late = 0
      <4>1. UnitsReached(how, d, N, late) = {}
        BY <3>1, NothingReached
      <4>2. QED  BY <1>24, <3>1, <4>1 DEF DueUnits
    <3>2. CASE late # 0
      <4>1. late \in 1 .. L - 1
        BY <1>9, <1>29, <3>2
      <4>2. UnitsReached(how, d, N, late) = {u \in Units : w.cc[u] = late}
        BY <1>5, <1>18, <1>19, <1>20, <4>1, PeriodMatches
      <4>3. QED  BY <1>24, <4>1, <4>2 DEF DueUnits
    <3>3. QED  BY <3>1, <3>2
  <2>5. Showing(x, s, how, d, N, N, late, {}, timer.flags \cup Ended(s, how, N) \cup UnitsReached(how, d, N, late))
    <3>1. Showing(TM!Seen', part.strict, w.mode, w.div, InUse(w), w.ocr, w.el, SkipsOf(w),
                  w.flags \cup DueUnits(w))
      BY <1>1, <1>4, <2>2, BeforeShowsNext, ShowsNext
    <3>2. QED  BY <1>16, <1>17, <1>18, <1>19, <2>3, <2>4, <3>1
  <2>6. x = c
    BY <1>28, <2>1, <2>5, OneShown
  <2>7. QED  BY <1>16, <1>26, <2>6
<1>30. CASE ~(late < L)
  <2>1. TimerLate'
    <3>1. part' = part /\ w.tov <= 0
      BY <1>4, <1>9, <1>15, <1>18, <1>30
    <3>2. QED  BY <1>1, <1>18, <1>25, <3>1, OkNext
  <2>2. LateBy(w) = r
    <3>1. PICK z \in Int : z = w.tov /\ z = L - late
      BY <1>18
    <3>2. PICK y \in Int : y = -z
      OBVIOUS
    <3>3. y = late - L
      BY <1>9, <3>1, <3>2
    <3>4. (late - L) % L = late % L
      <4>1. late \in Nat /\ late >= L
        BY <1>9, <1>30
      <4>2. late >= L => late - L \in Nat /\ (late - L) % L = late % L
        BY <4>1, RemainderOnce
      <4>3. QED  BY <4>1, <4>2
    <3>5. LateBy(w) = y % L
      BY <1>15, <1>16, <1>19, <3>1, <3>2 DEF LateBy
    <3>6. QED  BY <1>27, <3>3, <3>4, <3>5
  <2>3. DueUnits(w) = {}
    BY <1>9, <1>24, <1>30 DEF DueUnits
  <2>4. LateFlags(w) = timer.flags \cup Ended(s, how, N) \cup UnitsReached(how, d, N, r)
    BY <1>16, <1>17, <1>19, <2>2, <2>3 DEF LateFlags
  <2>5. Showing(x, s, how, d, N, N, r, {}, timer.flags \cup Ended(s, how, N) \cup UnitsReached(how, d, N, r))
    <3>1. Showing(TM!Seen', part.strict, w.mode, w.div, w.ocr, w.ocr, LateBy(w), {}, LateFlags(w))
      BY <1>1, <1>4, <2>1, LateShowsNext, ShowsNext
    <3>2. QED  BY <1>16, <1>19, <2>2, <2>4, <3>1
  <2>6. x = c
    BY <1>28, <2>5, OneShown
  <2>7. QED  BY <1>16, <1>26, <2>6
<1>31. QED  BY <1>29, <1>30

-----------------------------------------------------------------------------
(* A match, the flags and a reset *)

LEMMA MatchStays ==
    ASSUME TimerOk, NEW m \in Units, TM!Match(m), TimerInv(timer)'
    PROVE  TimerCounting' /\ TM!Seen' = TM!Seen
<1>1. PICK w : w = timer'
  OBVIOUS
<1>2. /\ timer \in TimerRecord /\ TM!WellFormed /\ TimerPeriod(timer) /\ TimerSkips(timer)
      /\ TimerMatches(timer) /\ timer.comp \in Deadlines /\ TimerRuns(timer)
  BY DEF TimerOk, TimerInv, TimerCounting, TimerRecord
<1>3. /\ part' = part /\ TM!First(timer.comp[m])
      /\ w = [timer EXCEPT !.comp[m] = TM!Never, !.flags = @ \cup {m}]
  BY <1>1 DEF TM!Match
<1>4. PICK cs, f : cs = [timer.comp EXCEPT ![m] = TM!Never] /\ f = timer.flags \cup {m}
  OBVIOUS
<1>5. w = [timer EXCEPT !.comp = cs, !.flags = f]
  BY <1>3, <1>4
<1>6. /\ w.mode = timer.mode /\ w.div = timer.div /\ w.ocr = timer.ocr /\ w.pend = timer.pend
      /\ w.act = timer.act /\ w.halted = timer.halted
      /\ w.top = timer.top /\ w.len = timer.len /\ w.cc = timer.cc
      /\ w.el = timer.el /\ w.tov = timer.tov /\ w.comp = cs /\ w.flags = f
  BY <1>2, <1>5, ZenonT(30) DEF TimerRecord
<1>7. \A u \in Units : cs[u] = IF u = m THEN TM!Never ELSE timer.comp[u]
  BY <1>2, <1>4 DEF Deadlines
<1>8. timer.comp[m] # TM!Never /\ timer.comp[m] <= 0 /\ timer.comp[m] \in Int /\ m \in DueUnits(timer)
  BY <1>2, <1>3 DEF TM!First, TM!Due, DueUnits, Deadlines
<1>9. timer.tov # TM!Never /\ timer.comp[m] = timer.cc[m] - timer.el /\ ~timer.halted
  BY <1>2, <1>8 DEF TimerMatches, TimerRuns
<1>10. timer.cc[m] \in Nat /\ timer.el \in Nat /\ timer.len \in Nat /\ timer.tov \in Int
  BY <1>2 DEF TimerRecord
<1>11. timer.cc[m] \notin timer.el + 1 .. timer.len - 1
  BY <1>8, <1>9, <1>10
<1>12. SkipsOf(w) = SkipsOf(timer)
  BY <1>6, <1>7, <1>8, <1>11 DEF SkipsOf
<1>13. w.flags \cup DueUnits(w) = timer.flags \cup DueUnits(timer)
  <2>1. \A u \in Units : u \in DueUnits(w) <=> u \in DueUnits(timer) /\ u # m
    BY <1>6, <1>7 DEF DueUnits
  <2>2. DueUnits(w) \subseteq Units /\ DueUnits(timer) \subseteq Units
    BY DEF DueUnits
  <2>3. QED  BY <1>4, <1>6, <1>8, <2>1, <2>2
<1>14. InUse(w) = InUse(timer)
  BY <1>6 DEF InUse, TM!OcrEff, TM!Buffered
<1>15. Counting(w)
  <2>1. TimerPeriod(w)
    BY <1>2, <1>6, <1>14 DEF TimerPeriod
  <2>2. TimerSkips(w)
    BY <1>2, <1>6, <1>7, <1>11 DEF TimerSkips
  <2>3. TimerHalted(w)
    BY <1>6, <1>9 DEF TimerHalted
  <2>4. QED  BY <2>1, <2>2, <2>3 DEF Counting
<1>16. TimerCounting'
  BY <1>1, <1>3, <1>15, CountingNext
<1>17. CASE timer.tov > 0
  <2>1. TimerBefore /\ TimerBefore'
    <3>1. part' = part /\ w.tov > 0 /\ w.tov # TM!Never
      BY <1>3, <1>6, <1>9, <1>17
    <3>2. QED  BY <1>1, <1>9, <1>15, <1>17, <3>1, OkNext DEF TimerBefore
  <2>2. Showing(TM!Seen', part.strict, w.mode, w.div, InUse(w), w.ocr, w.el, SkipsOf(w),
                w.flags \cup DueUnits(w))
    <3>1. part' = part
      BY <1>3
    <3>2. QED  BY <1>1, <2>1, <3>1, BeforeShowsNext, ShowsNext
  <2>3. ShowsBefore
    BY <2>1, BeforeShows
  <2>4. Showing(TM!Seen', part.strict, timer.mode, timer.div, InUse(timer), timer.ocr, timer.el,
                SkipsOf(timer), timer.flags \cup DueUnits(timer))
    BY <1>6, <1>12, <1>13, <1>14, <2>2
  <2>5. QED  BY <1>16, <2>3, <2>4, OneShown DEF ShowsBefore
<1>18. CASE timer.tov <= 0
  <2>1. TimerLate /\ TimerLate'
    <3>1. part' = part /\ w.tov <= 0 /\ w.tov # TM!Never
      BY <1>3, <1>6, <1>9, <1>18
    <3>2. QED  BY <1>1, <1>9, <1>15, <1>18, <3>1, OkNext DEF TimerLate
  <2>2. Showing(TM!Seen', part.strict, w.mode, w.div, w.ocr, w.ocr, LateBy(w), {}, LateFlags(w))
    <3>1. part' = part
      BY <1>3
    <3>2. QED  BY <1>1, <2>1, <3>1, LateShowsNext, ShowsNext
  <2>3. ShowsLate
    BY <2>1, LateShows
  <2>4. LateBy(w) = LateBy(timer)
    BY <1>6 DEF LateBy
  <2>5. LateFlags(w) = LateFlags(timer)
    BY <1>6, <1>13, <2>4 DEF LateFlags
  <2>6. Showing(TM!Seen', part.strict, timer.mode, timer.div, timer.ocr, timer.ocr, LateBy(timer), {},
                LateFlags(timer))
    BY <1>6, <2>2, <2>4, <2>5
  <2>7. QED  BY <1>16, <2>3, <2>6, OneShown DEF ShowsLate
<1>19. QED  BY <1>10, <1>17, <1>18

\* Nothing is due: the timer stands before the end of its period, or is stopped.
LEMMA NothingDue ==
    ASSUME TimerOk, TM!Due = {}
    PROVE  DueUnits(timer) = {} /\ (TimerBefore \/ TimerStopped)
<1>1. timer.tov \in Int
  BY DEF TimerOk, TimerInv, TimerRecord
<1>2. DueUnits(timer) = {}
  BY DEF TM!Due, DueUnits, Units
<1>3. timer.tov = TM!Never \/ timer.tov > 0
  BY <1>1 DEF TM!Due
<1>4. QED  BY <1>2, <1>3 DEF TimerBefore, TimerStopped

LEMMA FlagsCleared ==
    ASSUME TimerOk, TM!ClearFlags, TimerInv(timer)'
    PROVE  TimerCounting' /\ TM!Seen' = [TM!Seen EXCEPT !.flags = {}]
<1>1. PICK w : w = timer'
  OBVIOUS
<1>2. timer \in TimerRecord /\ TimerPeriod(timer) /\ TimerSkips(timer) /\ TimerHalted(timer)
  BY DEF TimerOk, TimerInv, TimerCounting, TimerRecord
<1>3. part' = part /\ TM!Due = {} /\ w = [timer EXCEPT !.flags = {}]
  BY <1>1 DEF TM!ClearFlags
<1>4. /\ w.mode = timer.mode /\ w.div = timer.div /\ w.ocr = timer.ocr /\ w.pend = timer.pend
      /\ w.act = timer.act /\ w.halted = timer.halted /\ w.reset = timer.reset
      /\ w.held = timer.held
      /\ w.top = timer.top /\ w.len = timer.len /\ w.cc = timer.cc
      /\ w.el = timer.el /\ w.tov = timer.tov /\ w.comp = timer.comp /\ w.flags = {}
  BY <1>2, <1>3, ZenonT(30) DEF TimerRecord
<1>5. InUse(w) = InUse(timer)
  BY <1>4 DEF InUse, TM!OcrEff, TM!Buffered
<1>6. Counting(w)
  <2>1. TimerPeriod(w)
    BY <1>2, <1>4, <1>5 DEF TimerPeriod
  <2>2. TimerSkips(w)
    BY <1>2, <1>4 DEF TimerSkips
  <2>3. TimerHalted(w)
    BY <1>2, <1>4 DEF TimerHalted, TM!Buffered
  <2>4. QED  BY <2>1, <2>2, <2>3 DEF Counting
<1>7. TimerCounting' /\ part' = part
  BY <1>1, <1>3, <1>6, CountingNext
<1>8. DueUnits(w) = {} /\ SkipsOf(w) = SkipsOf(timer) /\ DueUnits(timer) = {}
  <2>1. DueUnits(timer) = {}
    BY <1>3, NothingDue
  <2>2. QED  BY <1>4, <2>1 DEF DueUnits, SkipsOf
<1>9. PICK c, x : c = TM!Seen /\ x = [c EXCEPT !.flags = {}]
  OBVIOUS
<1>10. IsView(c) =>
         /\ IsView(x)
         /\ x.strict = c.strict /\ x.mode = c.mode /\ x.div = c.div /\ x.held = c.held
         /\ x.on = c.on /\ x.ocr = c.ocr /\ x.next = c.next /\ x.count = c.count
         /\ x.into = c.into /\ x.skips = c.skips /\ x.flags = {}
  BY <1>9, ViewFlags
<1>11. CASE TimerBefore
  <2>1. TimerBefore'
    <3>1. w.tov # TM!Never /\ w.tov > 0
      BY <1>4, <1>11 DEF TimerBefore
    <3>2. QED  BY <1>1, <1>6, <1>7, <3>1, OkNext
  <2>2. Showing(TM!Seen', part.strict, w.mode, w.div, InUse(w), w.ocr, w.el, SkipsOf(w),
                w.flags \cup DueUnits(w))
    BY <1>1, <1>7, <2>1, BeforeShowsNext, ShowsNext
  <2>3. Showing(TM!Seen', part.strict, timer.mode, timer.div, InUse(timer), timer.ocr, timer.el,
                SkipsOf(timer), {})
    <3>1. w.flags \cup DueUnits(w) = {}
      BY <1>4, <1>8
    <3>2. QED  BY <1>4, <1>5, <1>8, <2>2, <3>1
  <2>4. Showing(c, part.strict, timer.mode, timer.div, InUse(timer), timer.ocr, timer.el,
                SkipsOf(timer), timer.flags \cup DueUnits(timer))
    BY <1>9, <1>11, BeforeShows DEF ShowsBefore
  <2>5. Showing(x, part.strict, timer.mode, timer.div, InUse(timer), timer.ocr, timer.el,
                SkipsOf(timer), {})
    BY <1>10, <2>4, Zenon DEF Showing
  <2>6. QED  BY <1>7, <1>9, <2>3, <2>5, OneShown
<1>12. CASE TimerStopped
  <2>1. TimerStopped'
    <3>1. w.tov = TM!Never
      BY <1>4, <1>12 DEF TimerStopped
    <3>2. QED  BY <1>1, <1>6, <1>7, <3>1, OkNext
  <2>2. PICK V, n : /\ V = IF timer.div = 0 \/ timer.reset THEN timer.ocr ELSE InUse(timer)
                    /\ n = IF timer.halted THEN timer.held ELSE 0
    OBVIOUS
  <2>3. Idle(TM!Seen', part.strict, timer.mode, timer.div, timer.halted, V, timer.ocr, n, {})
    <3>1. Idle(TM!Seen', part.strict, w.mode, w.div, w.halted,
               IF w.div = 0 \/ w.reset THEN w.ocr ELSE InUse(w), w.ocr,
               IF w.halted THEN w.held ELSE 0, w.flags)
      BY <1>1, <1>7, <2>1, StoppedShowsNext, ShowsNext
    <3>2. QED  BY <1>4, <1>5, <2>2, <3>1
  <2>4. Idle(c, part.strict, timer.mode, timer.div, timer.halted, V, timer.ocr, n, timer.flags)
    BY <1>9, <1>12, <2>2, StoppedShows DEF ShowsStopped
  <2>5. Idle(x, part.strict, timer.mode, timer.div, timer.halted, V, timer.ocr, n, {})
    BY <1>10, <2>4, Zenon DEF Idle
  <2>6. QED  BY <1>7, <1>9, <2>3, <2>5, OneIdle
<1>13. QED  BY <1>3, <1>11, <1>12, NothingDue
-----------------------------------------------------------------------------
(* What an operation leaves *)

LEMMA StoppedIs ==
    ASSUME TimerOk, TimerInv(timer)', part' = part, NEW w, w = timer', w.tov = TM!Never,
           TimerHalted(w)
    PROVE  /\ TimerCounting'
           /\ Idle(TM!Seen', part.strict, w.mode, w.div, w.halted,
                   IF w.div = 0 \/ w.reset THEN w.ocr ELSE InUse(w), w.ocr,
                   IF w.halted THEN w.held ELSE 0, w.flags)
<1>1. Counting(w)
  BY DEF Counting, TimerPeriod, TimerSkips
<1>2. TimerCounting'
  BY <1>1, CountingNext
<1>3. TimerStopped'
  BY <1>1, OkNext
<1>4. QED  BY <1>2, <1>3, StoppedShowsNext, ShowsNext

LEMMA BeforeIs ==
    ASSUME TimerOk, TimerInv(timer)', part' = part, NEW w, w = timer', Counting(w),
           w.tov # TM!Never, w.tov > 0
    PROVE  /\ TimerCounting'
           /\ Showing(TM!Seen', part.strict, w.mode, w.div, InUse(w), w.ocr, w.el, SkipsOf(w),
                      w.flags \cup DueUnits(w))
<1>1. TimerCounting'
  BY CountingNext
<1>2. TimerBefore'
  BY OkNext
<1>3. QED  BY <1>1, <1>2, BeforeShowsNext, ShowsNext

LEMMA LateIs ==
    ASSUME TimerOk, TimerInv(timer)', part' = part, NEW w, w = timer', Counting(w),
           w.tov # TM!Never, w.tov <= 0
    PROVE  /\ TimerCounting'
           /\ Showing(TM!Seen', part.strict, w.mode, w.div, w.ocr, w.ocr, LateBy(w), {}, LateFlags(w))
<1>1. TimerCounting'
  BY CountingNext
<1>2. TimerLate'
  BY OkNext
<1>3. QED  BY <1>1, <1>2, LateShowsNext, ShowsNext

\* Nothing changes.
LEMMA TimerStays ==
    ASSUME TimerOk, TimerInv(timer)', part' = part, timer' = timer
    PROVE  TimerCounting' /\ TM!Seen' = TM!Seen
<1>1. PICK w : w = timer'
  OBVIOUS
<1>2. w = timer /\ TimerInv(timer) /\ timer.tov \in Int
  BY <1>1 DEF TimerOk, TimerInv, TimerRecord
<1>3. Counting(w)
  BY <1>2 DEF TimerOk, TimerCounting, Counting
<1>4. CASE timer.tov = TM!Never
  <2>1. TimerStopped /\ w.tov = TM!Never /\ TimerHalted(w)
    BY <1>2, <1>3, <1>4 DEF TimerStopped, Counting
  <2>2. TimerCounting'
    BY <1>1, <2>1, StoppedIs
  <2>3. Idle(TM!Seen', part.strict, w.mode, w.div, w.halted,
             IF w.div = 0 \/ w.reset THEN w.ocr ELSE InUse(w), w.ocr,
             IF w.halted THEN w.held ELSE 0, w.flags)
    BY <1>1, <2>1, StoppedIs
  <2>4. ShowsStopped
    BY <2>1, StoppedShows
  <2>5. Idle(TM!Seen', part.strict, timer.mode, timer.div, timer.halted,
             IF timer.div = 0 \/ timer.reset THEN timer.ocr ELSE InUse(timer), timer.ocr,
             IF timer.halted THEN timer.held ELSE 0, timer.flags)
    BY <1>2, <2>3
  <2>6. QED  BY <2>2, <2>4, <2>5, OneIdle DEF ShowsStopped
<1>5. CASE timer.tov # TM!Never /\ timer.tov > 0
  <2>1. TimerBefore
    BY <1>5 DEF TimerBefore
  <2>2. w.tov # TM!Never /\ w.tov > 0
    BY <1>2, <1>5
  <2>3. TimerCounting'
    BY <1>1, <1>3, <2>2, BeforeIs
  <2>4. Showing(TM!Seen', part.strict, w.mode, w.div, InUse(w), w.ocr, w.el, SkipsOf(w),
                w.flags \cup DueUnits(w))
    BY <1>1, <1>3, <2>2, BeforeIs
  <2>5. Showing(TM!Seen', part.strict, timer.mode, timer.div, InUse(timer), timer.ocr, timer.el,
                SkipsOf(timer), timer.flags \cup DueUnits(timer))
    BY <1>2, <2>4
  <2>6. QED  BY <2>1, <2>3, <2>5, BeforeShows, OneShown DEF ShowsBefore
<1>6. CASE timer.tov # TM!Never /\ timer.tov <= 0
  <2>1. TimerLate
    BY <1>6 DEF TimerLate
  <2>2. w.tov # TM!Never /\ w.tov <= 0
    BY <1>2, <1>6
  <2>3. TimerCounting'
    BY <1>1, <1>3, <2>2, LateIs
  <2>4. Showing(TM!Seen', part.strict, w.mode, w.div, w.ocr, w.ocr, LateBy(w), {}, LateFlags(w))
    BY <1>1, <1>3, <2>2, LateIs
  <2>5. Showing(TM!Seen', part.strict, timer.mode, timer.div, timer.ocr, timer.ocr, LateBy(timer), {},
                LateFlags(timer))
    BY <1>2, <2>4
  <2>6. QED  BY <2>1, <2>3, <2>5, LateShows, OneShown DEF ShowsLate
<1>7. QED  BY <1>2, <1>4, <1>5, <1>6

LEMMA SeenIsView ==
    ASSUME TimerOk
    PROVE  /\ IsView(TM!Seen) /\ TM!Seen.strict = part.strict /\ TM!Seen.mode = timer.mode
           /\ TM!Seen.div = timer.div
<1>1. timer.tov \in Int
  BY DEF TimerOk, TimerInv, TimerRecord
<1>2. TimerStopped \/ TimerBefore \/ TimerLate
  BY <1>1 DEF TimerStopped, TimerBefore, TimerLate
<1>3. CASE TimerStopped
  BY <1>3, StoppedShows DEF ShowsStopped, Idle
<1>4. CASE TimerBefore
  BY <1>4, BeforeShows DEF ShowsBefore, Showing
<1>5. CASE TimerLate
  BY <1>5, LateShows DEF ShowsLate, Showing
<1>6. QED  BY <1>2, <1>3, <1>4, <1>5

\* What the firmware sees before it writes.
LEMMA ReadyIs ==
    ASSUME TimerOk, TM!Instruction, NEW c, c = TM!Seen
    PROVE  /\ IsView(c) /\ c.strict = part.strict /\ c.mode = timer.mode /\ c.div = timer.div
           /\ c.held = timer.halted /\ c.next = timer.ocr /\ c.flags = {}
           /\ timer.halted => c.count = timer.held
           /\ timer.tov # TM!Never =>
                /\ TimerBefore
                /\ Showing(c, part.strict, timer.mode, timer.div, InUse(timer), timer.ocr, timer.el,
                           SkipsOf(timer), {})
           /\ timer.tov = TM!Never =>
                /\ TimerStopped
                /\ Idle(c, part.strict, timer.mode, timer.div, timer.halted,
                        IF timer.div = 0 \/ timer.reset THEN timer.ocr ELSE InUse(timer), timer.ocr,
                        IF timer.halted THEN timer.held ELSE 0, {})
           /\ timer.flags = {} /\ DueUnits(timer) = {} /\ part' = part
<1>1. TM!Due = {} /\ timer.flags = {} /\ part' = part
  BY DEF TM!Instruction
<1>2. DueUnits(timer) = {} /\ (TimerBefore \/ TimerStopped)
  BY <1>1, NothingDue
<1>3. timer.halted \in BOOLEAN /\ TimerRuns(timer)
  BY DEF TimerOk, TimerInv, TimerRecord
<1>4. CASE TimerBefore
  <2>1. timer.tov # TM!Never /\ timer.halted = FALSE
    BY <1>3, <1>4 DEF TimerBefore, TimerRuns
  <2>2. timer.flags \cup DueUnits(timer) = {}
    BY <1>1, <1>2
  <2>3. Showing(c, part.strict, timer.mode, timer.div, InUse(timer), timer.ocr, timer.el,
                SkipsOf(timer), {})
    BY <1>4, <2>2, BeforeShows DEF ShowsBefore
  <2>4. /\ IsView(c) /\ c.strict = part.strict /\ c.mode = timer.mode /\ c.div = timer.div
        /\ c.held = FALSE /\ c.next = timer.ocr /\ c.flags = {}
    BY <2>3 DEF Showing
  <2>5. QED  BY <1>1, <1>2, <1>4, <2>1, <2>3, <2>4
<1>5. CASE TimerStopped
  <2>1. timer.tov = TM!Never
    BY <1>5 DEF TimerStopped
  <2>2. Idle(c, part.strict, timer.mode, timer.div, timer.halted,
             IF timer.div = 0 \/ timer.reset THEN timer.ocr ELSE InUse(timer), timer.ocr,
             IF timer.halted THEN timer.held ELSE 0, {})
    BY <1>1, <1>5, StoppedShows DEF ShowsStopped
  <2>3. /\ IsView(c) /\ c.strict = part.strict /\ c.mode = timer.mode /\ c.div = timer.div
        /\ c.held = timer.halted /\ c.next = timer.ocr /\ c.flags = {}
        /\ timer.halted => c.count = timer.held
    BY <2>2, Zenon DEF Idle
  <2>4. QED  BY <1>1, <1>2, <1>5, <2>1, <2>2, <2>3
<1>6. QED  BY <1>2, <1>4, <1>5

LEMMA CancelledFields ==
    ASSUME TM!WellFormed, NEW t \in TimerRecord, NEW w, w = TM!Cancelled(t)
    PROVE  /\ w \in TimerRecord
           /\ w.mode = t.mode /\ w.div = t.div /\ w.ocr = t.ocr /\ w.pend = t.pend
           /\ w.act = t.act /\ w.halted = t.halted /\ w.reset = t.reset /\ w.held = t.held
           /\ w.top = t.top /\ w.len = t.len /\ w.cc = t.cc /\ w.flags = t.flags
           /\ w.el = 0 /\ w.tov = TM!Never /\ \A u \in Units : w.comp[u] = TM!Never
<1>1. /\ w \in TimerRecord /\ w = [t EXCEPT !.tov = TM!Never, !.comp = TM!Unarmed, !.el = 0]
      /\ \A u \in Units : TM!Unarmed[u] = TM!Never
  BY CancelledIs, Zenon
<1>2. /\ w.mode = t.mode /\ w.div = t.div /\ w.ocr = t.ocr /\ w.pend = t.pend
      /\ w.act = t.act /\ w.halted = t.halted /\ w.reset = t.reset /\ w.held = t.held
      /\ w.top = t.top /\ w.len = t.len /\ w.cc = t.cc /\ w.flags = t.flags
      /\ w.el = 0 /\ w.tov = TM!Never /\ w.comp = TM!Unarmed
  BY <1>1, ZenonT(30) DEF TimerRecord
<1>3. QED  BY <1>1, <1>2

LEMMA ClearedFields ==
    ASSUME TM!WellFormed, NEW t \in TimerRecord, NEW w, w = TM!Cleared(t)
    PROVE  /\ w \in TimerRecord
           /\ w.mode = t.mode /\ w.div = t.div /\ w.ocr = t.ocr /\ w.pend = t.pend
           /\ w.act = t.act /\ w.halted = t.halted /\ w.reset = t.reset /\ w.held = t.held
           /\ w.top = t.top /\ w.len = 0 /\ w.flags = t.flags
           /\ w.el = 0 /\ w.tov = TM!Never /\ \A u \in Units : w.comp[u] = TM!Never
<1>1. /\ w \in TimerRecord
      /\ w = [t EXCEPT !.tov = TM!Never, !.comp = TM!Unarmed, !.el = 0, !.len = 0, !.cc = TM!Zero]
      /\ \A u \in Units : TM!Unarmed[u] = TM!Never
  BY CancelledIs, Zenon
<1>2. /\ w.mode = t.mode /\ w.div = t.div /\ w.ocr = t.ocr /\ w.pend = t.pend
      /\ w.act = t.act /\ w.halted = t.halted /\ w.reset = t.reset /\ w.held = t.held
      /\ w.top = t.top /\ w.len = 0 /\ w.flags = t.flags
      /\ w.el = 0 /\ w.tov = TM!Never /\ w.comp = TM!Unarmed
  BY <1>1, ZenonT(30) DEF TimerRecord
<1>3. QED  BY <1>1, <1>2

LEMMA ResetForgets ==
    ASSUME TimerOk, TM!Reset, TimerInv(timer)'
    PROVE  TimerCounting' /\ TM!Seen' = TM!Counter!AfterReset(TM!Seen)
<1>1. PICK w : w = timer'
  OBVIOUS
<1>2. PICK t : t = TM!Cancelled(timer)
  OBVIOUS
<1>3. /\ part' = part
      /\ w = [t EXCEPT !.halted = FALSE, !.pend = {}, !.act = TM!Zero, !.ocr = TM!Zero,
                       !.cc = TM!Zero, !.reset = TRUE, !.flags = {}]
  BY <1>1, <1>2 DEF TM!Reset
<1>4. /\ t \in TimerRecord /\ t.mode = timer.mode /\ t.div = timer.div /\ t.tov = TM!Never
  BY <1>2, CancelledFields DEF TimerOk, TimerInv
<1>5. /\ w.mode = t.mode /\ w.div = t.div /\ w.ocr = TM!Zero /\ w.tov = t.tov
      /\ w.halted = FALSE /\ w.reset = TRUE /\ w.flags = {}
  BY <1>3, <1>4, ZenonT(30) DEF TimerRecord
<1>6. TimerHalted(w)
  BY <1>5 DEF TimerHalted
<1>7. TimerCounting'
  BY <1>1, <1>3, <1>4, <1>5, <1>6, StoppedIs
<1>8. Idle(TM!Seen', part.strict, w.mode, w.div, w.halted,
           IF w.div = 0 \/ w.reset THEN w.ocr ELSE InUse(w), w.ocr,
           IF w.halted THEN w.held ELSE 0, w.flags)
  BY <1>1, <1>3, <1>4, <1>5, <1>6, StoppedIs
<1>9. Idle(TM!Seen', part.strict, timer.mode, timer.div, FALSE, TM!Zero, TM!Zero, 0, {})
  BY <1>4, <1>5, <1>8
<1>10. PICK c, x : c = TM!Seen /\ x = TM!Counter!AfterReset(c)
  OBVIOUS
<1>11. IsView(c) /\ c.strict = part.strict /\ c.mode = timer.mode /\ c.div = timer.div
  BY <1>10, SeenIsView
<1>12. Idle(x, part.strict, timer.mode, timer.div, FALSE, TM!Zero, TM!Zero, 0, {})
  <2>1. TM!Counter!Zero = TM!Zero
    BY CounterSame
  <2>2. x = TM!Counter!AfterReset(c) /\ IsView(c)
    BY <1>10, <1>11
  <2>3. /\ IsView(x)
        /\ x.on = FALSE /\ x.held = FALSE /\ x.ocr = TM!Zero /\ x.next = TM!Zero
        /\ x.strict = c.strict /\ x.mode = c.mode /\ x.div = c.div /\ x.count = 0 /\ x.into = 0
        /\ x.skips = {} /\ x.flags = {}
    BY <2>1, <2>2, ViewForgets
  <2>4. QED  BY <1>11, <2>3, Zenon DEF Idle
<1>13. QED  BY <1>7, <1>9, <1>10, <1>12, OneIdle

-----------------------------------------------------------------------------
(* A period begins *)

\* The matches a write of TCNT blocks: those within a count.
Blocked(t, e) == {u \in Units : t.cc[u] \in e + 1 .. t.len - 1 /\ t.cc[u] - e <= t.div}

\* The period of w began e cycles ago, and the matches ahead are waited for.
Opened(w, e, blocked) ==
    /\ TimerPeriod(w) /\ w.flags = {} /\ w.tov # TM!Never /\ w.el = e /\ w.tov = w.len - e
    /\ \A u \in Units : w.comp[u] =
           IF w.cc[u] \in 1 .. w.len - 1 /\ w.cc[u] >= e /\ ~(blocked /\ w.cc[u] - e <= w.div)
           THEN w.cc[u] - e ELSE TM!Never

LEMMA PeriodIsSeen ==
    ASSUME TimerOk, TimerInv(timer)', part' = part, NEW w, w = timer', NEW e \in Nat,
           NEW blocked \in BOOLEAN, Opened(w, e, blocked), NEW V, V = InUse(w), NEW x, x = TM!Seen'
    PROVE  /\ TimerCounting'
           /\ e < w.len /\ ~blocked =>
                Showing(x, part.strict, w.mode, w.div, V, w.ocr, e, {}, UnitsReached(w.mode, w.div, V, e))
           /\ e < w.len /\ blocked =>
                Showing(x, part.strict, w.mode, w.div, V, w.ocr, e, Blocked(w, e), {})
           /\ ~(e < w.len) =>
                Showing(x, part.strict, w.mode, w.div, w.ocr, w.ocr, LateBy(w), {},
                        Ended(part.strict, w.mode, w.ocr)
                            \cup UnitsReached(w.mode, w.div, w.ocr, LateBy(w)))
<1>1. /\ w \in TimerRecord /\ w.div # 0 /\ ~w.halted
  <2>1. TimerInv(w)
    BY DEF TimerInv, TimerRecord, TimerFits, TimerRuns, TimerMatches, TimerTimed, TM!Timed
  <2>2. QED  BY <2>1 DEF TimerInv, TimerRuns, Opened
<1>2. /\ TimerPeriod(w) /\ w.flags = {} /\ w.tov # TM!Never /\ w.el = e /\ w.tov = w.len - e
      /\ \A u \in Units : w.comp[u] =
           IF w.cc[u] \in 1 .. w.len - 1 /\ w.cc[u] >= e /\ ~(blocked /\ w.cc[u] - e <= w.div)
           THEN w.cc[u] - e ELSE TM!Never
  BY DEF Opened
<1>3. TM!WellFormed /\ TM!Never \in Int /\ TM!Never < 0
  <2>1. TM!WellFormed
    BY DEF TimerOk
  <2>2. TM!Never \in Int /\ TM!Never < -Lateness /\ Lateness \in Nat
    BY <2>1, TimerConstants
  <2>3. QED  BY <2>1, <2>2
<1>4. /\ w.div \in Nat \ {0} /\ w.len \in Nat /\ w.cc \in [Units -> Nat]
      /\ \A h \in 1 .. w.len - 1 : UnitsReached(w.mode, w.div, V, h) = {u \in Units : w.cc[u] = h}
  BY <1>1, <1>2, <1>3, PeriodMatches
<1>5. PICK L \in Nat, d \in Nat : L = w.len /\ d = w.div
  BY <1>4
<1>6. ASSUME NEW u \in Units
      PROVE  /\ w.comp[u] = TM!Never /\ w.cc[u] \in e + 1 .. L - 1
                    => blocked /\ w.cc[u] - e <= d
             /\ w.cc[u] \in e + 1 .. L - 1 /\ w.cc[u] - e <= d /\ blocked => w.comp[u] = TM!Never
             /\ w.comp[u] # TM!Never /\ w.comp[u] <= 0 <=> ~blocked /\ w.cc[u] = e /\ e \in 1 .. L - 1
  <2>1. PICK z \in Nat : z = w.cc[u]
    BY <1>4
  <2>2. w.comp[u] = IF z \in 1 .. L - 1 /\ z >= e /\ ~(blocked /\ z - e <= d) THEN z - e ELSE TM!Never
    BY <1>2, <1>5, <2>1
  <2>3. CASE z \in 1 .. L - 1 /\ z >= e /\ ~(blocked /\ z - e <= d)
    <3>1. w.comp[u] = z - e /\ z - e \in Nat
      BY <2>2, <2>3
    <3>2. w.comp[u] # TM!Never /\ (z = e \/ z \in e + 1 .. L - 1)
      BY <1>3, <2>3, <3>1
    <3>3. z = e => z - e <= d
      OBVIOUS
    <3>4. QED  BY <1>3, <2>1, <2>3, <3>1, <3>2, <3>3
  <2>4. CASE ~(z \in 1 .. L - 1 /\ z >= e /\ ~(blocked /\ z - e <= d))
    <3>1. w.comp[u] = TM!Never
      BY <2>2, <2>4
    <3>2. z \in e + 1 .. L - 1 => blocked /\ z - e <= d
      BY <2>4
    <3>3. z = e /\ e \in 1 .. L - 1 => blocked
      BY <2>4
    <3>4. QED  BY <2>1, <3>1, <3>2, <3>3
  <2>5. QED  BY <2>3, <2>4
<1>7. Counting(w)
  <2>1. TimerSkips(w)
    BY <1>2, <1>5, <1>6 DEF TimerSkips
  <2>2. TimerHalted(w)
    BY <1>1 DEF TimerHalted
  <2>3. QED  BY <1>2, <2>1, <2>2 DEF Counting
<1>8. TimerCounting'
  BY <1>7, CountingNext
<1>9. SkipsOf(w) = IF blocked THEN Blocked(w, e) ELSE {}
  <2>1. \A u \in Units : u \in SkipsOf(w) <=> w.comp[u] = TM!Never /\ w.cc[u] \in e + 1 .. L - 1
    BY <1>2, <1>5 DEF SkipsOf
  <2>2. \A u \in Units : u \in Blocked(w, e) <=> w.cc[u] \in e + 1 .. L - 1 /\ w.cc[u] - e <= d
    BY <1>5 DEF Blocked
  <2>3. SkipsOf(w) \subseteq Units /\ Blocked(w, e) \subseteq Units
    BY DEF SkipsOf, Blocked
  <2>4. QED  BY <1>6, <2>1, <2>2, <2>3
<1>10. DueUnits(w) = IF blocked \/ e \notin 1 .. L - 1 THEN {} ELSE {u \in Units : w.cc[u] = e}
  BY <1>6 DEF DueUnits
<1>11. ASSUME e < L
       PROVE  Showing(x, part.strict, w.mode, w.div, V, w.ocr, e, SkipsOf(w), DueUnits(w))
  <2>1. w.tov > 0
    BY <1>2, <1>5, <1>11
  <2>2. Showing(TM!Seen', part.strict, w.mode, w.div, InUse(w), w.ocr, w.el, SkipsOf(w),
                      w.flags \cup DueUnits(w))
    BY <1>2, <1>7, <2>1, BeforeIs
  <2>3. w.flags \cup DueUnits(w) = DueUnits(w)
    BY <1>2
  <2>4. QED  BY <1>2, <2>2, <2>3
<1>12. ASSUME e < L, ~blocked
       PROVE  DueUnits(w) = UnitsReached(w.mode, w.div, V, e)
  <2>1. CASE e = 0
    <3>1. V \in [Units -> Nat]
      BY <1>1, <1>2, <1>3, PeriodMatches
    <3>2. UnitsReached(w.mode, w.div, V, e) = {}
      BY <1>4, <2>1, <3>1, NothingReached
    <3>3. QED  BY <1>10, <2>1, <3>2
  <2>2. CASE e # 0
    <3>1. e \in 1 .. L - 1
      BY <1>12, <2>2
    <3>2. QED  BY <1>4, <1>5, <1>10, <1>12, <3>1
  <2>3. QED  BY <2>1, <2>2
<1>13. ASSUME ~(e < L)
       PROVE  Showing(x, part.strict, w.mode, w.div, w.ocr, w.ocr, LateBy(w), {},
                        Ended(part.strict, w.mode, w.ocr)
                            \cup UnitsReached(w.mode, w.div, w.ocr, LateBy(w)))
  <2>1. w.tov <= 0
    BY <1>2, <1>5, <1>13
  <2>2. Showing(TM!Seen', part.strict, w.mode, w.div, w.ocr, w.ocr, LateBy(w), {}, LateFlags(w))
    BY <1>2, <1>7, <2>1, LateIs
  <2>3. DueUnits(w) = {}
    BY <1>10, <1>13
  <2>4. LateFlags(w) = Ended(part.strict, w.mode, w.ocr)
                            \cup UnitsReached(w.mode, w.div, w.ocr, LateBy(w))
    BY <1>2, <2>3 DEF LateFlags
  <2>5. QED  BY <2>2, <2>4
<1>14. ASSUME e < w.len, ~blocked
       PROVE  Showing(x, part.strict, w.mode, w.div, V, w.ocr, e, {}, UnitsReached(w.mode, w.div, V, e))
  BY <1>5, <1>9, <1>11, <1>12, <1>14
<1>15. ASSUME e < w.len, blocked
       PROVE  Showing(x, part.strict, w.mode, w.div, V, w.ocr, e, Blocked(w, e), {})
  BY <1>5, <1>9, <1>10, <1>11, <1>15
<1>16. QED  BY <1>5, <1>8, <1>13, <1>14, <1>15

-----------------------------------------------------------------------------
(* avr_timer_tcnt_write *)

\* The cycles of a count, and what the code's division leaves over.
CyclesTo(n, len, top) == (n * len) \div top
WritesTo(n, d, top, len, e) ==
    /\ d \in Nat \ {0} /\ top \in Nat \ {0} /\ n \in Nat /\ len = d * (top + 1)
    /\ e = CyclesTo(n, len, top)

LEMMA CyclesOfWrite ==
    ASSUME NEW n, NEW d, NEW top, NEW len, NEW e, WritesTo(n, d, top, len, e)
    PROVE  /\ n < top => \E k \in 0 .. d - 1 : e = n * d + k /\ e < len /\ (n = 0 => e = 0)
           /\ n = top => e = len
           /\ len \in Nat
<1> d \in Nat \ {0} /\ top \in Nat \ {0} /\ n \in Nat /\ len = d * (top + 1)
    /\ e = CyclesTo(n, len, top)
  BY DEF WritesTo
<1>1. PICK x \in Nat : x = n * d
  BY ProductIsNat
<1>2. PICK y \in Nat : y = top * d
  BY ProductIsNat
<1>3. len = y + d
  BY <1>2
<1>4. n * len = x * top + x
  <2>1. n * (d * (top + 1)) = (n * d) * (top + 1)
    BY ProductIsNat
  <2>2. x * (top + 1) = x * top + x
    BY <1>1
  <2>3. QED  BY <1>1, <2>1, <2>2
<1>5. ASSUME n < top
      PROVE  \E k \in 0 .. d - 1 : e = n * d + k /\ e < len /\ (n = 0 => e = 0)
  <2>1. PICK q \in Nat, r \in Nat : x = q * top + r /\ r < top
    <3>1. x = (x \div top) * top + (x % top) /\ x \div top \in Nat /\ x % top \in Nat /\ x % top < top
      <4>1. x \div top \in Nat /\ x % top \in 0 .. top - 1 /\ x = (x \div top) * top + (x % top)
        BY Divides
      <4>2. x % top \in Nat /\ x % top < top
        BY <4>1
      <4>3. QED  BY <4>1, <4>2
    <3>2. PICK q \in Nat, r \in Nat : q = x \div top /\ r = x % top
      BY <3>1
    <3>3. x = q * top + r /\ r < top
      BY <3>1, <3>2
    <3>4. QED  BY <3>3
  <2>2. x + d <= y
    <3>1. (n + 1) * d <= top * d
      BY <1>5, ProductGrows
    <3>2. (n + 1) * d = n * d + d
      BY ProductIsNat
    <3>3. QED  BY <1>1, <1>2, <3>1, <3>2
  <2>3. q < d
    <3>1. SUFFICES ASSUME d <= q
                   PROVE  FALSE
      OBVIOUS
    <3>2. d * top <= q * top
      BY <3>1, ProductGrows
    <3>3. PICK p \in Nat : p = q * top
      BY ProductIsNat
    <3>4. y <= p
      BY <1>2, <3>2, <3>3
    <3>5. QED  BY <2>1, <2>2, <3>3, <3>4
  <2>4. PICK s \in Nat : s = x + q
    OBVIOUS
  <2>5. s * top + r = x * top + x
    <3>1. s * top = x * top + q * top
      BY <2>4, ProductIsNat
    <3>2. PICK a \in Nat, b \in Nat, m \in Nat : a = s * top /\ b = x * top /\ m = q * top
      BY ProductIsNat
    <3>3. a = b + m /\ x = m + r
      BY <2>1, <3>1, <3>2
    <3>4. a + r = b + x
      BY <3>3
    <3>5. QED  BY <3>2, <3>4
  <2>6. (s * top + r) \div top = s
    BY <2>1, QuotientIs
  <2>7. e = s
    BY <1>4, <2>5, <2>6 DEF CyclesTo
  <2>8. n = 0 => x = 0
    BY <1>1
  <2>9. x = 0 => q = 0
    <3>1. SUFFICES ASSUME x = 0, q # 0
                   PROVE  FALSE
      OBVIOUS
    <3>2. 1 * top <= q * top
      BY <3>1, ProductGrows
    <3>3. PICK p \in Nat : p = q * top
      BY ProductIsNat
    <3>4. QED  BY <2>1, <3>1, <3>2, <3>3
  <2>10. q \in 0 .. d - 1 /\ e = n * d + q
    BY <1>1, <2>3, <2>4, <2>7
  <2>11. e < len
    BY <1>3, <2>2, <2>3, <2>4, <2>7
  <2>12. n = 0 => e = 0
    BY <2>4, <2>7, <2>8, <2>9
  <2>13. QED  BY <2>10, <2>11, <2>12
<1>6. ASSUME n = top
      PROVE  e = len
  <2>1. (len * top + 0) \div top = len
    BY <1>3, QuotientIs
  <2>2. n * len = len * top + 0
    BY <1>3, <1>6
  <2>3. QED  BY <1>6, <2>1, <2>2 DEF CyclesTo
<1>7. QED  BY <1>3, <1>5, <1>6

LEMMA SetOpens ==
    ASSUME TM!WellFormed, NEW t \in TimerRecord, TimerPeriod(t), t.tov # TM!Never,
           t.div # 0, ~t.halted, t.flags = {}, t.len >= 2, t.top # 0, NEW v \in Nat, NEW psr,
           NEW n, n = IF v > t.top \/ (v = t.top /\ ~part.strict) THEN 0 ELSE v,
           NEW e, e = (n * t.len) \div t.top, e \in 0 .. t.len,
           NEW w, w = TM!SetTcnt(t, v, psr)
    PROVE  /\ Opened(w, e, part.strict /\ ~psr)
           /\ w.mode = t.mode /\ w.div = t.div /\ w.ocr = t.ocr /\ w.len = t.len /\ w.cc = t.cc
           /\ w.top = t.top /\ InUse(w) = InUse(t)
<1>1. PICK a : a = TM!Cancelled(t)
  OBVIOUS
<1>2. PICK z : z = [a EXCEPT !.tov = t.len - e]
  OBVIOUS
<1> DEFINE blocked == part.strict /\ ~psr
<1>3. w = TM!Period(z, e, TRUE, blocked)
  <2>1. ~(t.len <= 1)
    BY DEF TimerRecord
  <2>2. QED  BY <1>1, <1>2, <2>1 DEF TM!SetTcnt
<1>4. /\ a \in TimerRecord
      /\ a.mode = t.mode /\ a.div = t.div /\ a.ocr = t.ocr /\ a.pend = t.pend
      /\ a.act = t.act /\ a.halted = t.halted /\ a.reset = t.reset /\ a.held = t.held
      /\ a.top = t.top /\ a.len = t.len /\ a.cc = t.cc /\ a.flags = t.flags
      /\ a.el = 0 /\ a.tov = TM!Never /\ \A u \in Units : a.comp[u] = TM!Never
  BY <1>1, CancelledFields
<1>5. t.len \in Nat /\ e \in Nat
  BY DEF TimerRecord
<1>6. PICK k \in Int : k = t.len - e /\ k >= 0
  BY <1>5
<1>7. /\ z \in TimerRecord
      /\ z.mode = t.mode /\ z.div = t.div /\ z.ocr = t.ocr /\ z.pend = t.pend
      /\ z.act = t.act /\ z.halted = t.halted /\ z.reset = t.reset /\ z.held = t.held
      /\ z.top = t.top /\ z.len = t.len /\ z.cc = t.cc /\ z.flags = t.flags
      /\ z.tov = k /\ \A u \in Units : z.comp[u] = TM!Never
  <2>1. z = [a EXCEPT !.tov = k]
    BY <1>2, <1>6
  <2>2. z \in TimerRecord
    BY <1>4, <2>1 DEF TimerRecord
  <2>3. /\ z.mode = a.mode /\ z.div = a.div /\ z.ocr = a.ocr /\ z.pend = a.pend
        /\ z.act = a.act /\ z.halted = a.halted /\ z.reset = a.reset /\ z.held = a.held
        /\ z.top = a.top /\ z.len = a.len /\ z.cc = a.cc /\ z.flags = a.flags
        /\ z.tov = k /\ z.comp = a.comp
    BY <1>4, <2>1, ZenonT(30) DEF TimerRecord
  <2>4. QED  BY <1>4, <2>2, <2>3
<1> HIDE DEF blocked
<1>8. w = Begun(z, e, TRUE, blocked)
  BY <1>3, PeriodIs
<1>9. Started(w, z, e, TRUE, blocked)
  BY <1>5, <1>7, <1>8, StartedIs
<1>10. /\ w.mode = t.mode /\ w.div = t.div /\ w.ocr = t.ocr /\ w.pend = t.pend
       /\ w.act = t.act /\ w.top = t.top /\ w.len = t.len /\ w.cc = t.cc /\ w.tov = k /\ w.el = e
       /\ w.flags = {}
       /\ \A u \in Units : w.comp[u] =
              IF /\ w.cc[u] \in 1 .. w.len - 1 /\ w.cc[u] >= e
                 /\ ~(blocked /\ w.cc[u] - e <= w.div)
              THEN w.cc[u] - e ELSE TM!Never
  BY <1>7, <1>9 DEF Started
<1>11. InUse(w) = InUse(t)
  BY <1>10 DEF InUse, TM!OcrEff, TM!Buffered
<1>12. TimerPeriod(w)
  BY <1>10, <1>11 DEF TimerPeriod
<1>13. k # TM!Never
  <2>1. TM!Never \in Int /\ TM!Never < -Lateness /\ Lateness \in Nat
    BY TimerConstants
  <2>2. QED  BY <1>6, <2>1
<1>14. Opened(w, e, blocked)
  BY <1>6, <1>10, <1>12, <1>13 DEF Opened
<1>15. QED  BY <1>10, <1>11, <1>14 DEF blocked

LEMMA OneMoreTimes ==
    \A i, j \in Nat : (i + 1) * j = i * j + j /\ j * (i + 1) = i * j + j
BY ProductIsNat

LEMMA CounterPlaceIs ==
    ASSUME NEW d \in Nat \ {0}, NEW n \in Nat, NEW k \in 0 .. d - 1, NEW e, e = n * d + k
    PROVE  e \in Nat /\ e \div d = n /\ e % d = k
<1>1. n * d \in Nat
  BY ProductIsNat
<1>2. k \in Nat /\ k < d
  OBVIOUS
<1>3. (n * d + k) \div d = n
  BY <1>2, QuotientIs
<1>4. (n * d + k) % d = k
  BY <1>2, RemainderIs
<1>5. QED  BY <1>1, <1>2, <1>3, <1>4

LEMMA SkipsShow ==
    ASSUME NEW s, NEW how, NEW d \in Nat \ {0}, NEW V, NEW N, NEW f, NEW c,
           Active(c, s, how, d, V, N, f), NEW n \in Nat, NEW k \in 0 .. d - 1, NEW e, e = n * d + k,
           NEW K, NEW w, w = [TM!Counter!At(c, n, k) EXCEPT !.skips = K]
    PROVE  Showing(w, s, how, d, V, N, e, K, f)
<1>1. PICK a : a = TM!Counter!At(c, n, k) /\ w = [a EXCEPT !.skips = K]
  OBVIOUS
<1>2. /\ IsView(c)
      /\ c.strict = s /\ c.mode = how /\ c.div = d /\ c.held = FALSE /\ c.on = TRUE
      /\ c.ocr = V /\ c.next = N /\ c.flags = f
  BY Zenon DEF Active
<1>3. /\ IsView(a)
      /\ a.strict = c.strict /\ a.mode = c.mode /\ a.div = c.div /\ a.held = c.held
      /\ a.on = c.on /\ a.ocr = c.ocr /\ a.next = c.next /\ a.count = n
      /\ a.into = k /\ a.skips = {} /\ a.flags = c.flags
  BY <1>1, <1>2, ViewAt
<1>4. /\ IsView(w)
      /\ w.skips = K /\ w.strict = a.strict /\ w.mode = a.mode /\ w.div = a.div /\ w.held = a.held
      /\ w.on = a.on /\ w.ocr = a.ocr /\ w.next = a.next /\ w.count = a.count /\ w.into = a.into
      /\ w.flags = a.flags
  <2>1. IsView(a) /\ w = [a EXCEPT !.skips = K]
    BY <1>1, <1>3
  <2>2. QED  BY <2>1 DEF IsView, View
<1>5. e \div d = n /\ e % d = k
  BY CounterPlaceIs
<1>6. QED  BY <1>2, <1>3, <1>4, <1>5, Zenon DEF Showing

LEMMA GoesShow ==
    ASSUME NEW s, NEW how, NEW d \in Nat \ {0}, NEW V \in [Units -> Nat], NEW N, NEW f, NEW c,
           Active(c, s, how, d, V, N, f), NEW n \in Nat, NEW k \in 0 .. d - 1, NEW e, e = n * d + k,
           TopIn(how, V) \in Nat, n <= TopIn(how, V),
           NEW w, w = TM!Counter!Raised(TM!Counter!At(c, n, k),
                          IF k = 0 THEN TM!Counter!MatchedBefore(c, n) ELSE {})
    PROVE  Showing(w, s, how, d, V, N, e, {}, f \cup UnitsReached(how, d, V, e))
<1>1. PICK a : a = TM!Counter!At(c, n, k)
  OBVIOUS
<1>2. PICK more : more = UnitsReached(how, d, V, e)
  OBVIOUS
<1>3. /\ IsView(c)
      /\ c.strict = s /\ c.mode = how /\ c.div = d /\ c.held = FALSE /\ c.on = TRUE
      /\ c.ocr = V /\ c.next = N /\ c.flags = f
  BY Zenon DEF Active
<1>4. e \in Nat /\ e \div d = n /\ e % d = k
  BY CounterPlaceIs
<1>5. (IF k = 0 THEN TM!Counter!MatchedBefore(c, n) ELSE {}) = more
  <2>1. CASE k = 0
    <3>1. TM!Counter!MatchedBefore(c, n) = {u \in Units : V[u] + 1 = n}
      BY <1>3, CounterSame DEF TM!Counter!MatchedBefore
    <3>2. {u \in Units : V[u] + 1 = n} = UnitsReached(how, d, V, n * d)
      BY MatchesAt
    <3>3. e = n * d
      BY <2>1, ProductIsNat
    <3>4. QED  BY <1>2, <2>1, <3>1, <3>2, <3>3
  <2>2. CASE k # 0
    <3>1. UnitsReached(how, d, V, e) = {}
      BY <1>4, <2>2, NothingReached
    <3>2. QED  BY <1>2, <2>2, <3>1
  <2>3. QED  BY <2>1, <2>2
<1>6. w = TM!Counter!Raised(a, more)
  BY <1>1, <1>5, Zenon
<1>7. /\ IsView(a)
      /\ a.strict = c.strict /\ a.mode = c.mode /\ a.div = c.div /\ a.held = c.held
      /\ a.on = c.on /\ a.ocr = c.ocr /\ a.next = c.next /\ a.count = n
      /\ a.into = k /\ a.skips = {} /\ a.flags = c.flags
  BY <1>1, <1>3, ViewAt
<1>8. /\ IsView(w)
      /\ w.flags = a.flags \cup more /\ w.strict = a.strict /\ w.mode = a.mode /\ w.div = a.div
      /\ w.held = a.held /\ w.on = a.on /\ w.ocr = a.ocr /\ w.next = a.next /\ w.count = a.count
      /\ w.into = a.into /\ w.skips = a.skips
  BY <1>6, <1>7, ViewRaised
<1>9. QED  BY <1>2, <1>3, <1>4, <1>7, <1>8, Zenon DEF Showing

\* A write of TCNT blocks the match of the next count.
LEMMA BlockedIs ==
    ASSUME TM!WellFormed, NEW t \in TimerRecord, t.tov # TM!Never, t.div # 0, TimerPeriod(t),
           NEW d, d = t.div, NEW V, V = InUse(t), NEW n \in Nat, n < t.top,
           NEW k \in 0 .. d - 1, NEW e, e = n * d + k
    PROVE  Blocked(t, e) = {u \in Units : V[u] + 1 = n + 1}
<1>1. /\ d \in Nat \ {0} /\ V \in [Units -> Nat] /\ t.top \in Nat
      /\ t.len \in Nat /\ t.cc \in [Units -> Nat]
      /\ \A u \in Units : t.cc[u] \in 1 .. t.len - 1 => t.cc[u] = d * (V[u] + 1) /\ V[u] < t.top
  BY PeriodMatches
<1>2. /\ t.len = d * (t.top + 1)
      /\ \A u \in Units : t.cc[u] = IF V[u] <= t.top THEN d * (V[u] + 1) ELSE 0
  BY DEF TimerPeriod, LengthIn
<1>3. PICK x \in Nat : x = n * d
  BY <1>1, ProductIsNat
<1>4. e = x + k /\ e \in Nat /\ k \in Nat /\ k < d
  BY <1>1, <1>3
<1>5. ASSUME NEW u \in Units, V[u] = n
      PROVE  u \in Blocked(t, e)
  <2>1. t.cc[u] = d * (n + 1) /\ d * (n + 1) < t.len
    <3>1. d * (n + 1) < d * (t.top + 1)
      BY <1>1, CountsOrder
    <3>2. V[u] <= t.top
      BY <1>1, <1>5
    <3>3. QED  BY <1>2, <1>5, <3>1, <3>2
  <2>2. d * (n + 1) = x + d
    <3>1. d * (n + 1) = n * d + d
      BY <1>1, OneMoreTimes
    <3>2. QED  BY <1>3, <3>1
  <2>3. PICK z \in Nat : z = t.cc[u] /\ z = x + d /\ z < t.len
    BY <1>1, <2>1, <2>2
  <2>4. z \in e + 1 .. t.len - 1 /\ z - e <= d
    BY <1>1, <1>4, <2>3
  <2>5. QED  BY <2>3, <2>4 DEF Blocked
<1>6. ASSUME NEW u \in Units, u \in Blocked(t, e)
      PROVE  V[u] = n
  <2>1. t.cc[u] \in e + 1 .. t.len - 1 /\ t.cc[u] - e <= d
    BY <1>6 DEF Blocked
  <2>2. PICK z \in Nat, m \in Nat, y \in Nat : z = t.cc[u] /\ m = V[u] /\ y = m * d
    BY <1>1, ProductIsNat
  <2>3. z = y + d
    <3>1. t.cc[u] \in 1 .. t.len - 1
      BY <1>1, <1>4, <2>1, <2>2
    <3>2. z = d * (m + 1)
      BY <1>1, <2>2, <3>1
    <3>3. d * (m + 1) = m * d + d
      BY <1>1, OneMoreTimes
    <3>4. QED  BY <2>2, <3>2, <3>3
  <2>4. ~(m < n)
    <3>1. SUFFICES ASSUME m < n
                   PROVE  FALSE
      OBVIOUS
    <3>2. (m + 1) * d <= n * d
      BY <1>1, <3>1, ProductGrows
    <3>3. (m + 1) * d = m * d + d
      BY <1>1, OneMoreTimes
    <3>4. z <= x
      BY <1>3, <2>2, <2>3, <3>2, <3>3
    <3>5. z >= e + 1
      BY <1>1, <1>4, <2>1, <2>2
    <3>6. QED  BY <1>4, <2>2, <3>4, <3>5
  <2>5. ~(n < m)
    <3>1. SUFFICES ASSUME n < m
                   PROVE  FALSE
      OBVIOUS
    <3>2. (n + 1) * d <= m * d
      BY <1>1, <3>1, ProductGrows
    <3>3. (n + 1) * d = n * d + d
      BY <1>1, OneMoreTimes
    <3>4. x + d <= y
      BY <1>3, <2>2, <3>2, <3>3
    <3>5. z - e <= d
      BY <2>1, <2>2
    <3>6. QED  BY <1>1, <1>4, <2>2, <2>3, <3>4, <3>5
  <2>6. QED  BY <2>2, <2>4, <2>5
<1>7. \A u \in Units : V[u] + 1 = n + 1 <=> V[u] = n
  BY <1>1
<1>8. Blocked(t, e) \subseteq Units
  BY DEF Blocked
<1>9. QED  BY <1>5, <1>6, <1>7, <1>8

\* Where a write of TCNT brings the counter.
LEMMA GoesOn ==
    ASSUME NEW c, NEW n \in Nat, NEW blocks, NEW x, TM!Counter!Top(c) \in Nat, n < TM!Counter!Top(c),
           ~blocks, NEW k \in 0 .. c.div - 1,
           x = TM!Counter!Raised(TM!Counter!At(c, n, k),
                                 IF k = 0 THEN TM!Counter!MatchedBefore(c, n) ELSE {})
    PROVE  x \in TM!Counter!Goes(c, n, blocks)
<1>1. n # TM!Counter!Top(c)
  OBVIOUS
<1>2. TM!Counter!Goes(c, n, blocks) =
                {IF blocks THEN [TM!Counter!At(c, n, j) EXCEPT !.skips = TM!Counter!MatchedBefore(c, n + 1)]
                 ELSE TM!Counter!Raised(TM!Counter!At(c, n, j),
                            IF j = 0 THEN TM!Counter!MatchedBefore(c, n) ELSE {}) : j \in 0 .. c.div - 1}
  BY <1>1 DEF TM!Counter!Goes
<1>3. QED  BY <1>2, Zenon

LEMMA GoesBlocked ==
    ASSUME NEW c, NEW n \in Nat, NEW blocks, NEW x, TM!Counter!Top(c) \in Nat, n < TM!Counter!Top(c),
           blocks, NEW k \in 0 .. c.div - 1,
           x = [TM!Counter!At(c, n, k) EXCEPT !.skips = TM!Counter!MatchedBefore(c, n + 1)]
    PROVE  x \in TM!Counter!Goes(c, n, blocks)
<1>1. n # TM!Counter!Top(c)
  OBVIOUS
<1>2. TM!Counter!Goes(c, n, blocks) =
                {IF blocks THEN [TM!Counter!At(c, n, j) EXCEPT !.skips = TM!Counter!MatchedBefore(c, n + 1)]
                 ELSE TM!Counter!Raised(TM!Counter!At(c, n, j),
                            IF j = 0 THEN TM!Counter!MatchedBefore(c, n) ELSE {}) : j \in 0 .. c.div - 1}
  BY <1>1 DEF TM!Counter!Goes
<1>3. QED  BY <1>2, Zenon

LEMMA GoesOver ==
    ASSUME NEW c, NEW n \in Nat, NEW blocks, NEW x, n = TM!Counter!Top(c), c.strict, n # 0,
           x = TM!Counter!Wrapped(c)
    PROVE  x \in TM!Counter!Goes(c, n, blocks)
<1>1. ~(n < TM!Counter!Top(c))
  OBVIOUS
<1>2. QED  BY <1>1 DEF TM!Counter!Goes

LEMMA GoesBack ==
    ASSUME NEW c, NEW n, NEW blocks, NEW x, ~(n < TM!Counter!Top(c)),
           ~(n = TM!Counter!Top(c) /\ c.strict /\ n # 0),
           x = [TM!Counter!At(c, 0, 0) EXCEPT !.skips = IF blocks /\ TM!Counter!Top(c) # 0
                                                        THEN TM!Counter!MatchedBefore(c, 1) ELSE {}]
    PROVE  x \in TM!Counter!Goes(c, n, blocks)
BY DEF TM!Counter!Goes

\* avr_timer_tcnt_write of a timer that counts.
LEMMA SetShows ==
    ASSUME TimerOk, TimerInv(timer)', part' = part, NEW t \in TimerRecord, TimerPeriod(t),
           t.tov # TM!Never, t.div # 0, ~t.halted, t.flags = {}, t.len >= 2, t.top # 0,
           NEW v \in TM!Values, NEW psr \in BOOLEAN, timer' = TM!SetTcnt(t, v, psr),
           NEW c, Active(c, part.strict, t.mode, t.div, InUse(t), t.ocr, {}), NEW x, x = TM!Seen'
    PROVE  TimerCounting' /\ x \in TM!Counter!Goes(c, v, part.strict /\ ~psr)
<1>1. TM!WellFormed /\ v \in Nat
  BY TimerConstants DEF TimerOk
<1>2. PICK d \in Nat \ {0}, V \in [Units -> Nat], top \in Nat \ {0}, len \in Nat :
          d = t.div /\ V = InUse(t) /\ top = t.top /\ len = t.len
  BY <1>1, PeriodMatches
<1>3. len = d * (top + 1) /\ len >= 2 /\ top = TopIn(t.mode, V) /\ len = LengthIn(t.mode, d, V)
  BY <1>2 DEF TimerPeriod, LengthIn
<1>4. PICK w : w = timer'
  OBVIOUS
<1>5. PICK n \in Nat : n = IF v > t.top \/ (v = t.top /\ ~part.strict) THEN 0 ELSE v
  BY <1>1
<1>6. PICK e : e = CyclesTo(n, len, top)
  OBVIOUS
<1>7. /\ n < top => \E k \in 0 .. d - 1 : e = n * d + k /\ e < len /\ (n = 0 => e = 0)
      /\ n = top => e = len
  <2>1. WritesTo(n, d, top, len, e)
    BY <1>3, <1>6 DEF WritesTo
  <2>2. QED  BY <2>1, CyclesOfWrite
<1>8. n <= top /\ (n = top => v = top /\ part.strict)
  BY <1>1, <1>2, <1>5
<1>9. e \in 0 .. len
  <2>1. CASE n < top
    <3>1. PICK k \in 0 .. d - 1 : e = n * d + k /\ e < len
      BY <1>7, <2>1
    <3>2. n * d \in Nat
      BY ProductIsNat
    <3>3. QED  BY <3>1, <3>2
  <2>2. CASE n = top
    BY <1>7, <2>2
  <2>3. QED  BY <1>8, <2>1, <2>2
<1> DEFINE blocked == part.strict /\ ~psr
<1>10. /\ Opened(w, e, blocked)
       /\ w.mode = t.mode /\ w.div = d /\ w.ocr = t.ocr /\ w.len = len /\ w.cc = t.cc
       /\ w.top = top /\ InUse(w) = V
  <2>1. e = (n * t.len) \div t.top /\ e \in 0 .. t.len /\ w = TM!SetTcnt(t, v, psr)
    BY <1>2, <1>4, <1>6, <1>9 DEF CyclesTo
  <2>2. /\ Opened(w, e, part.strict /\ ~psr)
        /\ w.mode = t.mode /\ w.div = t.div /\ w.ocr = t.ocr /\ w.len = t.len /\ w.cc = t.cc
        /\ w.top = t.top /\ InUse(w) = InUse(t)
    BY <1>1, <1>5, <2>1, SetOpens
  <2>3. QED  BY <1>2, <2>2
<1>11. blocked \in BOOLEAN
  OBVIOUS
<1> HIDE DEF blocked
<1>12. PICK s, how, N : s = part.strict /\ how = t.mode /\ N = t.ocr
  OBVIOUS
<1>13. e \in Nat
  BY <1>9
<1>14. /\ TimerCounting'
       /\ e < len /\ ~blocked => Showing(x, s, how, d, V, N, e, {}, UnitsReached(how, d, V, e))
       /\ e < len /\ blocked => Showing(x, s, how, d, V, N, e, Blocked(w, e), {})
       /\ ~(e < len) =>
                Showing(x, s, how, d, N, N, LateBy(w), {}, Ended(s, how, N) \cup UnitsReached(how, d, N, LateBy(w)))
  BY <1>4, <1>10, <1>11, <1>12, <1>13, PeriodIsSeen
<1>15. Blocked(w, e) = Blocked(t, e)
  BY <1>2, <1>10 DEF Blocked
<1>16. Active(c, s, how, d, V, N, {}) /\ c.div = d /\ c.strict = s /\ c.ocr = V
  BY <1>2, <1>12 DEF Active
<1>17. TM!Counter!Top(c) = top /\ TM!Counter!Units = Units
  BY <1>3, <1>12, <1>16, CounterSame DEF TM!Counter!Top, Active
<1>18. \A m \in Nat : TM!Counter!MatchedBefore(c, m) = {u \in Units : V[u] + 1 = m}
  BY <1>16, <1>17 DEF TM!Counter!MatchedBefore
<1>19. CASE v < top
  <2>1. n = v
    BY <1>1, <1>2, <1>5, <1>19
  <2>2. PICK k \in 0 .. d - 1 : e = n * d + k /\ e < len
    BY <1>7, <1>19, <2>1
  <2>3. CASE ~blocked
    <3>1. PICK y : y = TM!Counter!Raised(TM!Counter!At(c, n, k),
                                         IF k = 0 THEN TM!Counter!MatchedBefore(c, n) ELSE {})
      OBVIOUS
    <3>2. Showing(y, s, how, d, V, N, e, {}, {} \cup UnitsReached(how, d, V, e))
      <4>1. TopIn(how, V) \in Nat /\ n <= TopIn(how, V)
        BY <1>3, <1>8, <1>12
      <4>2. QED  BY <1>16, <2>2, <3>1, <4>1, GoesShow
    <3>3. {} \cup UnitsReached(how, d, V, e) = UnitsReached(how, d, V, e)
      OBVIOUS
    <3>4. x = y
      BY <1>14, <2>2, <2>3, <3>2, <3>3, OneShown
    <3>5. x \in TM!Counter!Goes(c, n, blocked)
      BY <1>16, <1>17, <1>19, <2>1, <2>3, <3>1, <3>4, GoesOn
    <3>6. QED  BY <1>14, <2>1, <3>5 DEF blocked
  <2>4. CASE blocked
    <3>1. PICK y : y = [TM!Counter!At(c, n, k) EXCEPT !.skips = TM!Counter!MatchedBefore(c, n + 1)]
      OBVIOUS
    <3>2. PICK K : K = TM!Counter!MatchedBefore(c, n + 1)
      OBVIOUS
    <3>3. Showing(y, s, how, d, V, N, e, K, {})
      BY <1>16, <2>2, <3>1, <3>2, SkipsShow
    <3>4. Blocked(t, e) = K
      <4>1. t.div = d /\ InUse(t) = V /\ n < t.top /\ e = n * d + k
        BY <1>2, <1>19, <2>1, <2>2
      <4>2. Blocked(t, e) = {u \in Units : V[u] + 1 = n + 1}
        BY <1>1, <4>1, BlockedIs
      <4>3. PICK m \in Nat : m = n + 1
        OBVIOUS
      <4>4. K = {u \in Units : V[u] + 1 = m}
        BY <1>18, <3>2, <4>3
      <4>5. QED  BY <4>2, <4>3, <4>4
    <3>5. x = y
      BY <1>14, <1>15, <2>2, <2>4, <3>3, <3>4, OneShown
    <3>6. x \in TM!Counter!Goes(c, n, blocked)
      BY <1>16, <1>17, <1>19, <2>1, <2>4, <3>1, <3>5, GoesBlocked
    <3>7. QED  BY <1>14, <2>1, <3>6 DEF blocked
  <2>5. QED  BY <2>3, <2>4
<1>20. CASE v = top /\ part.strict
  <2>1. n = top /\ e = len
    BY <1>1, <1>2, <1>5, <1>7, <1>20
  <2>2. LateBy(w) = 0
    <3>1. PICK z \in Int : z = w.tov /\ z = 0
      BY <1>10, <2>1 DEF Opened
    <3>2. PICK y \in Int : y = -z
      OBVIOUS
    <3>3. y + z = 0
      BY <3>2
    <3>4. y = 0
      BY <3>1, <3>3
    <3>5. PICK L \in Nat \ {0} : L = LengthIn(t.mode, t.div, t.ocr)
      BY <1>1, WrittenIs
    <3>6. LateBy(w) = y % L
      BY <1>2, <1>10, <3>1, <3>2, <3>5 DEF LateBy
    <3>7. QED  BY <3>4, <3>5, <3>6
  <2>3. UnitsReached(how, d, N, 0) = {}
    <3>1. N \in [Units -> Nat]
      BY <1>1, <1>12, WrittenIs
    <3>2. QED  BY <3>1, NothingReached
  <2>4. Showing(x, s, how, d, N, N, 0, {}, {} \cup Ended(s, how, N))
    <3>1. Showing(x, s, how, d, N, N, LateBy(w), {}, Ended(s, how, N) \cup UnitsReached(how, d, N, LateBy(w)))
      BY <1>14, <2>1
    <3>2. Ended(s, how, N) \cup UnitsReached(how, d, N, LateBy(w)) = {} \cup Ended(s, how, N)
      BY <2>2, <2>3
    <3>3. QED  BY <2>2, <3>1, <3>2
  <2>5. PICK y : y = TM!Counter!Wrapped(c)
    OBVIOUS
  <2>6. Showing(y, s, how, d, N, N, 0, {}, {} \cup Ended(s, how, N))
    BY <1>16, <2>5, WrappedIs
  <2>7. x = y
    BY <2>4, <2>6, OneShown
  <2>8. x \in TM!Counter!Goes(c, v, blocked)
    <3>1. v = TM!Counter!Top(c) /\ v # 0 /\ c.strict
      BY <1>12, <1>16, <1>17, <1>20
    <3>2. QED  BY <1>1, <2>5, <2>7, <3>1, GoesOver
  <2>9. QED  BY <1>14, <2>8 DEF blocked
<1>21. CASE ~(v < top) /\ ~(v = top /\ part.strict)
  <2>1. n = 0 /\ n < top
    BY <1>1, <1>2, <1>5, <1>21
  <2>2. e = 0 /\ e < len
    BY <1>3, <1>7, <2>1
  <2>3. PICK K : K = IF blocked THEN TM!Counter!MatchedBefore(c, 1) ELSE {}
    OBVIOUS
  <2>4. Showing(x, s, how, d, V, N, 0, K, {})
    <3>1. CASE blocked
      <4>1. Blocked(t, 0) = {u \in Units : V[u] + 1 = 0 + 1}
        <5>1. 0 = 0 * d + 0 /\ 0 \in 0 .. d - 1
          OBVIOUS
        <5>2. t.div = d /\ InUse(t) = V /\ 0 < t.top
          BY <1>2, <2>1
        <5>3. QED  BY <1>1, <5>1, <5>2, BlockedIs
      <4>2. K = {u \in Units : V[u] + 1 = 1}
        BY <1>18, <2>3, <3>1
      <4>3. Blocked(w, 0) = K
        BY <1>15, <2>2, <4>1, <4>2
      <4>4. QED  BY <1>14, <2>2, <3>1, <4>3
    <3>2. CASE ~blocked
      <4>1. UnitsReached(how, d, V, 0) = {}
        BY NothingReached
      <4>2. QED  BY <1>14, <2>2, <2>3, <3>2, <4>1
    <3>3. QED  BY <3>1, <3>2
  <2>5. PICK y : y = [TM!Counter!At(c, 0, 0) EXCEPT !.skips = K]
    OBVIOUS
  <2>6. Showing(y, s, how, d, V, N, 0, K, {})
    <3>1. 0 = 0 * d + 0 /\ 0 \in 0 .. d - 1
      OBVIOUS
    <3>2. QED  BY <1>16, <2>5, <3>1, SkipsShow
  <2>7. x = y
    BY <2>4, <2>6, OneShown
  <2>8. x \in TM!Counter!Goes(c, v, blocked)
    <3>1. ~(v < TM!Counter!Top(c)) /\ ~(v = TM!Counter!Top(c) /\ c.strict /\ v # 0)
      BY <1>12, <1>16, <1>17, <1>21
    <3>2. x = [TM!Counter!At(c, 0, 0) EXCEPT !.skips = IF blocked /\ TM!Counter!Top(c) # 0
                                                        THEN TM!Counter!MatchedBefore(c, 1) ELSE {}]
      BY <1>17, <2>3, <2>5, <2>7
    <3>3. QED  BY <3>1, <3>2, GoesBack
  <2>9. QED  BY <1>14, <2>8 DEF blocked
<1>22. QED  BY <1>19, <1>20, <1>21
-----------------------------------------------------------------------------
(* avr_timer_reconfigure *)

\* A clock that the code times has periods of two cycles and more.
LEMMA LongEnough ==
    ASSUME TM!WellFormed, NEW t \in TimerRecord, TimerTimed(t), ~t.reset, t.div # 0
    PROVE  LengthIn(t.mode, t.div, InUse(t)) >= 2
<1>1. PICK w : w = TM!Recompute(t)
  OBVIOUS
<1>2. w.len = LengthIn(t.mode, t.div, InUse(t))
  BY <1>1, RecomputedIs
<1>3. t.mode \in TM!Modes /\ t.div * (TM!OcrEff(t, "A") + 1) # 1
  BY OcrIsTimed DEF TimerTimed
<1>4. PICK top \in TM!Values : \E len \in Nat : \E cc \in [Units -> Nat] :
              /\ w = [t EXCEPT !.top = top, !.len = len, !.cc = cc]
              /\ len < Longest /\ (t.div = 0 => len = 0)
              /\ t.div # 0 /\ t.mode \in TM!Modes /\ t.div * (TM!OcrEff(t, "A") + 1) # 1 => len >= 2
  BY <1>1, RecomputeIs, Zenon
<1>5. PICK len \in Nat : \E cc \in [Units -> Nat] :
              w = [t EXCEPT !.top = top, !.len = len, !.cc = cc] /\ len >= 2
  BY <1>3, <1>4, Zenon
<1>6. w.len = len
  BY <1>5 DEF TimerRecord
<1>7. QED  BY <1>2, <1>5, <1>6

\* The cycles since the period began.
Began(t, restart) == IF restart THEN 0 ELSE t.el

\* A timer whose period can begin.
Startable(t) ==
    /\ t \in TimerRecord /\ t.div # 0 /\ ~t.halted /\ t.flags = {}
    /\ t.el <= Longest + Lateness /\ TimerTimed(t) /\ ~t.reset

\* The period of w began e cycles ago, with the registers of t.
Reconfigured(w, t, e) ==
    /\ Opened(w, e, FALSE) /\ e \in Nat /\ w \in TimerRecord
    /\ w.mode = t.mode /\ w.div = t.div /\ w.ocr = t.ocr /\ w.halted = t.halted
    /\ w.reset = t.reset /\ w.held = t.held
    /\ InUse(w) = InUse(t)
    /\ w.top = TopIn(t.mode, InUse(t)) /\ w.len = LengthIn(t.mode, t.div, InUse(t))
    /\ w.len >= 2

LEMMA ReconfiguredIs ==
    ASSUME TM!WellFormed, NEW t, Startable(t), NEW restart
    PROVE  Reconfigured(TM!Reconfigure(t, restart), t, Began(t, restart))
<1>20. PICK e, w : e = Began(t, restart) /\ w = TM!Reconfigure(t, restart)
  OBVIOUS
<1>21. e = Began(t, restart) /\ w = TM!Reconfigure(t, restart)
  BY <1>20
<1> /\ t \in TimerRecord /\ t.div # 0 /\ ~t.halted /\ t.flags = {}
    /\ t.el <= Longest + Lateness /\ TimerTimed(t) /\ ~t.reset
  BY DEF Startable
<1>1. PICK c : c = TM!Cleared(t)
  OBVIOUS
<1>2. PICK q : q = TM!Recompute(c)
  OBVIOUS
<1>3. PICK z : z = [q EXCEPT !.tov = q.len - e]
  OBVIOUS
<1>4. /\ c \in TimerRecord
      /\ c.mode = t.mode /\ c.div = t.div /\ c.ocr = t.ocr /\ c.pend = t.pend
      /\ c.act = t.act /\ c.halted = t.halted /\ c.reset = t.reset /\ c.held = t.held
      /\ c.flags = t.flags /\ \A u \in Units : c.comp[u] = TM!Never
  BY <1>1, ClearedFields
<1>5. InUse(c) = InUse(t)
  BY <1>4 DEF InUse, TM!OcrEff, TM!Buffered
<1>6. /\ q \in TimerRecord
      /\ q.mode = c.mode /\ q.div = c.div /\ q.ocr = c.ocr /\ q.pend = c.pend
      /\ q.act = c.act /\ q.halted = c.halted /\ q.reset = c.reset /\ q.held = c.held
      /\ q.comp = c.comp /\ q.flags = c.flags
      /\ q.top = TopIn(c.mode, InUse(c)) /\ q.len = LengthIn(c.mode, c.div, InUse(c))
      /\ \A u \in Units : q.cc[u] = IF InUse(c)[u] <= q.top THEN c.div * (InUse(c)[u] + 1) ELSE 0
  BY <1>2, <1>4, RecomputedIs
<1>7. q.len = LengthIn(t.mode, t.div, InUse(t)) /\ q.len >= 2 /\ q.len \in Nat /\ e \in Nat
  <2>1. q.len = LengthIn(t.mode, t.div, InUse(t))
    BY <1>4, <1>5, <1>6
  <2>2. t.el \in Nat /\ q.len \in Nat
    BY <1>6 DEF TimerRecord
  <2>3. e \in Nat
    BY <1>21, <2>2 DEF Began
  <2>4. QED  BY <2>1, <2>2, <2>3, LongEnough
<1>8. PICK k \in Int : k = q.len - e
  BY <1>7
<1>9. /\ z \in TimerRecord
      /\ z.mode = t.mode /\ z.div = t.div /\ z.ocr = t.ocr /\ z.pend = t.pend
      /\ z.act = t.act /\ z.halted = t.halted /\ z.reset = t.reset /\ z.held = t.held
      /\ z.top = q.top /\ z.len = q.len /\ z.cc = q.cc /\ z.flags = {}
      /\ z.tov = k /\ \A u \in Units : z.comp[u] = TM!Never
  <2>1. z = [q EXCEPT !.tov = k]
    BY <1>3, <1>8
  <2>2. z \in TimerRecord
    BY <1>6, <2>1 DEF TimerRecord
  <2>3. /\ z.mode = q.mode /\ z.div = q.div /\ z.ocr = q.ocr /\ z.pend = q.pend
        /\ z.act = q.act /\ z.halted = q.halted /\ z.reset = q.reset /\ z.held = q.held
        /\ z.top = q.top /\ z.len = q.len /\ z.cc = q.cc /\ z.flags = q.flags
        /\ z.tov = k /\ z.comp = q.comp
    BY <1>6, <2>1, ZenonT(30) DEF TimerRecord
  <2>4. QED  BY <1>4, <1>6, <2>2, <2>3
<1> DEFINE yes == TRUE
           no == FALSE
<1>10. w = TM!Period(z, e, yes, no)
  <2>1. ~(q.len <= 1)
    BY <1>7
  <2>2. QED  BY <1>1, <1>2, <1>3, <1>21, <2>1 DEF TM!Reconfigure, Began
<1>11. yes /\ ~no
  OBVIOUS
<1> HIDE DEF yes, no
<1>12. w = Begun(z, e, yes, no)
  BY <1>10, <1>11, PeriodIs
<1>13. Started(w, z, e, yes, no)
  BY <1>7, <1>9, <1>12, StartedIs
<1>14. /\ w \in TimerRecord
       /\ w.mode = t.mode /\ w.div = t.div /\ w.ocr = t.ocr /\ w.pend = t.pend
       /\ w.act = t.act /\ w.halted = t.halted /\ w.reset = t.reset /\ w.held = t.held
       /\ w.top = q.top /\ w.len = q.len /\ w.cc = q.cc /\ w.tov = k /\ w.el = e /\ w.flags = {}
       /\ \A u \in Units : w.comp[u] =
              IF w.cc[u] \in 1 .. w.len - 1 /\ w.cc[u] >= e THEN w.cc[u] - e ELSE TM!Never
  BY <1>9, <1>11, <1>13 DEF Started
<1>15. InUse(w) = InUse(t)
  BY <1>14 DEF InUse, TM!OcrEff, TM!Buffered
<1>16. TimerPeriod(w)
  BY <1>4, <1>5, <1>6, <1>14, <1>15 DEF TimerPeriod
<1>17. k # TM!Never
  <2>1. Longest \in Nat /\ Lateness \in Nat /\ TM!Never = -Longest - Lateness
    BY TimerConstants DEF TM!Never
  <2>2. e <= Longest + Lateness
    <3>1. t.el \in Nat
      BY DEF TimerRecord
    <3>2. QED  BY <1>21, <2>1, <3>1 DEF Began
  <2>3. QED  BY <1>7, <1>8, <2>1, <2>2
<1>18. Opened(w, e, FALSE)
  BY <1>8, <1>14, <1>16, <1>17 DEF Opened
<1>19. Reconfigured(w, t, e)
  BY <1>4, <1>5, <1>6, <1>7, <1>14, <1>15, <1>18, Zenon DEF Reconfigured
<1>22. QED  BY <1>19, <1>21
-----------------------------------------------------------------------------
(* avr_timer_write *)

LEMMA RestartedIs ==
    ASSUME NEW s, NEW h, NEW N, NEW f, NEW n, NEW c, IsView(c), c.strict = s, c.held = h, c.next = N,
           c.flags = f, n = IF c.held THEN c.count ELSE 0, NEW d, NEW how,
           NEW w, w = TM!Counter!Restarted(c, d, how)
    PROVE  /\ IsView(w)
           /\ w.strict = s /\ w.mode = how /\ w.div = d /\ w.held = h /\ w.on = (d # 0 /\ ~c.held)
           /\ w.ocr = N /\ w.next = N /\ w.count = n /\ w.into = 0 /\ w.skips = {} /\ w.flags = f
<1>1. PICK a : a = TM!Counter!At(c, n, 0)
  OBVIOUS
<1>2. PICK b : b = (d # 0 /\ ~c.held)
  BY Zenon
<1>3. w = Taken(a, d, how, b, N)
  BY <1>1, <1>2, Zenon DEF TM!Counter!Restarted, Taken
<1>4. /\ IsView(a)
      /\ a.strict = c.strict /\ a.mode = c.mode /\ a.div = c.div /\ a.held = c.held
      /\ a.on = c.on /\ a.ocr = c.ocr /\ a.next = c.next /\ a.count = n
      /\ a.into = 0 /\ a.skips = {} /\ a.flags = c.flags
  BY <1>1, ViewAt
<1>5. /\ IsView(w)
      /\ w.div = d /\ w.mode = how /\ w.on = b /\ w.ocr = N /\ w.strict = a.strict
      /\ w.held = a.held /\ w.next = a.next /\ w.count = a.count /\ w.into = a.into
      /\ w.skips = a.skips /\ w.flags = a.flags
  BY <1>3, <1>4, ViewTaken
<1>6. QED  BY <1>2, <1>4, <1>5, Zenon

LEMMA RestartedIdle ==
    ASSUME NEW s, NEW h, NEW N, NEW f, NEW n, NEW c, IsView(c), c.strict = s, c.held = h, c.next = N,
           c.flags = f, n = IF c.held THEN c.count ELSE 0, NEW d, NEW how, d = 0 \/ c.held,
           NEW w, w = TM!Counter!Restarted(c, d, how)
    PROVE  Idle(w, s, how, d, h, N, N, n, f)
<1>1. /\ IsView(w)
      /\ w.strict = s /\ w.mode = how /\ w.div = d /\ w.held = h /\ w.on = (d # 0 /\ ~c.held)
      /\ w.ocr = N /\ w.next = N /\ w.count = n /\ w.into = 0 /\ w.skips = {} /\ w.flags = f
  BY RestartedIs
<1>2. (d # 0 /\ ~c.held) = FALSE
  BY Zenon
<1>3. QED  BY <1>1, <1>2, Zenon DEF Idle

LEMMA RestartedShows ==
    ASSUME NEW s, NEW N, NEW f, NEW c, IsView(c), c.strict = s, c.held = FALSE, c.next = N,
           c.flags = f, NEW d \in Nat \ {0}, NEW how, NEW w, w = TM!Counter!Restarted(c, d, how)
    PROVE  Showing(w, s, how, d, N, N, 0, {}, f)
<1>1. PICK h, n : h = FALSE /\ n = 0
  BY Zenon
<1>2. c.held = h /\ n = IF c.held THEN c.count ELSE 0
  BY <1>1, Zenon
<1>3. /\ IsView(w)
      /\ w.strict = s /\ w.mode = how /\ w.div = d /\ w.held = h /\ w.on = (d # 0 /\ ~c.held)
      /\ w.ocr = N /\ w.next = N /\ w.count = n /\ w.into = 0 /\ w.skips = {} /\ w.flags = f
  BY <1>2, RestartedIs
<1>4. (d # 0 /\ ~c.held) = TRUE
  <2>1. d # 0
    OBVIOUS
  <2>2. QED  BY <2>1, Zenon
<1>5. 0 \div d = 0 /\ 0 % d = 0
  OBVIOUS
<1>6. QED  BY <1>1, <1>3, <1>4, <1>5, Zenon DEF Showing

LEMMA ZeroIsWhole == ASSUME NEW d \in Nat \ {0} PROVE 0 \div d = 0 /\ 0 % d = 0
OBVIOUS

\* The timer t as q, with its clock stopped.
ClockStopped(q, t) ==
    /\ q \in TimerRecord /\ q.mode = t.mode /\ q.div = 0 /\ q.ocr = t.ocr
    /\ q.halted = t.halted /\ ~q.reset /\ q.held = t.held /\ q.flags = t.flags

StopClock(t) == [t EXCEPT !.div = 0, !.reset = FALSE]

LEMMA ClockStoppedIs ==
    ASSUME NEW t \in TimerRecord, NEW q, q = StopClock(t)
    PROVE  ClockStopped(q, t)
<1>1. PICK no : no = FALSE
  BY Zenon
<1>2. q = [t EXCEPT !.div = 0, !.reset = no] /\ no \in BOOLEAN
  BY <1>1, Zenon DEF StopClock
<1>3. q \in TimerRecord
  BY <1>2 DEF TimerRecord
<1>4. /\ q.mode = t.mode /\ q.div = 0 /\ q.ocr = t.ocr /\ q.halted = t.halted
      /\ q.reset = no /\ q.held = t.held /\ q.flags = t.flags
  BY <1>2, ZenonT(30) DEF TimerRecord
<1>5. QED  BY <1>1, <1>3, <1>4 DEF ClockStopped

\* The timer t as q, with a clock and a mode.
ClockStarted(q, t, d, how) ==
    /\ q \in TimerRecord /\ q.mode = how /\ q.div = d /\ q.ocr = t.ocr /\ q.pend = {}
    /\ q.halted = t.halted /\ ~q.reset /\ q.held = t.held /\ q.flags = t.flags /\ q.el = t.el

StartClock(t, d, how) ==
    [t EXCEPT !.div = d, !.mode = how, !.pend = {}, !.act = TM!Zero, !.reset = FALSE]

LEMMA ClockStartedIs ==
    ASSUME TM!WellFormed, NEW t \in TimerRecord, NEW d \in Divs, NEW how \in TM!Modes, NEW q,
           q = StartClock(t, d, how)
    PROVE  ClockStarted(q, t, d, how)
<1>1. PICK no : no = FALSE
  BY Zenon
<1>2. PICK z, none : z = TM!Zero /\ none = {}
  OBVIOUS
<1>4. q = [t EXCEPT !.div = d, !.mode = how, !.pend = none, !.act = z, !.reset = no]
  BY <1>1, <1>2, Zenon DEF StartClock
<1>5. q \in TimerRecord
  <2>1. TM!Zero \in [Units -> TM!Values]
    BY TimerConstants DEF TM!Zero, Units
  <2>2. StartClock(t, d, how) \in TimerRecord
    BY <2>1 DEF StartClock, TimerRecord
  <2>3. QED  BY <2>2
<1>6. /\ q.mode = how /\ q.div = d /\ q.ocr = t.ocr /\ q.halted = t.halted /\ q.pend = none
      /\ q.reset = no /\ q.held = t.held /\ q.flags = t.flags /\ q.el = t.el
  BY <1>4, ZenonT(30) DEF TimerRecord
<1>7. QED  BY <1>1, <1>2, <1>5, <1>6 DEF ClockStarted

LEMMA TccrStops ==
    ASSUME TimerOk, TM!Instruction, TimerInv(timer)', NEW q,
           ClockStopped(q, timer), timer' = TM!Cleared(q),
           NEW c, c = TM!Seen, NEW x, x = TM!Seen'
    PROVE  TimerCounting' /\ x = TM!Counter!Restarted(c, 0, c.mode)
<1>1. timer \in TimerRecord /\ TM!WellFormed /\ TimerHalted(timer)
  BY DEF TimerOk, TimerInv, TimerCounting
<1>2. /\ IsView(c) /\ c.strict = part.strict /\ c.mode = timer.mode
      /\ c.held = timer.halted /\ c.next = timer.ocr /\ c.flags = {}
      /\ timer.halted => c.count = timer.held
      /\ timer.flags = {} /\ part' = part
  BY ReadyIs
<1>6. /\ q \in TimerRecord
      /\ q.mode = timer.mode /\ q.div = 0 /\ q.ocr = timer.ocr /\ q.halted = timer.halted
      /\ ~q.reset /\ q.held = timer.held /\ q.flags = timer.flags
  BY DEF ClockStopped
<1>7. PICK w : w = timer'
  OBVIOUS
<1>8. /\ w.mode = q.mode /\ w.div = q.div /\ w.ocr = q.ocr /\ w.halted = q.halted
      /\ w.reset = q.reset /\ w.held = q.held /\ w.flags = q.flags /\ w.tov = TM!Never
  <2>1. q \in TimerRecord /\ w = TM!Cleared(q)
    BY <1>6, <1>7
  <2>2. QED  BY <1>1, <2>1, ClearedFields
<1>9. TimerHalted(w)
  BY <1>1, <1>6, <1>8 DEF TimerHalted
<1>10. PICK n : n = IF timer.halted THEN timer.held ELSE 0
  OBVIOUS
<1>11. /\ TimerCounting'
       /\ Idle(x, part.strict, w.mode, w.div, w.halted,
               IF w.div = 0 \/ w.reset THEN w.ocr ELSE InUse(w), w.ocr,
               IF w.halted THEN w.held ELSE 0, w.flags)
  BY <1>2, <1>7, <1>8, <1>9, StoppedIs
<1>12. Idle(x, part.strict, timer.mode, 0, timer.halted, timer.ocr, timer.ocr, n, {})
  BY <1>2, <1>6, <1>8, <1>10, <1>11
<1>13. PICK y : y = TM!Counter!Restarted(c, 0, c.mode)
  OBVIOUS
<1>14. n = IF c.held THEN c.count ELSE 0
  BY <1>2, <1>10, Zenon
<1>15. PICK s, how, h, N : s = part.strict /\ how = timer.mode /\ h = timer.halted /\ N = timer.ocr
  OBVIOUS
<1>16. Idle(y, s, how, 0, h, N, N, n, {})
  <2>1. IsView(c) /\ c.strict = s /\ c.held = h /\ c.next = N /\ c.flags = {}
        /\ y = TM!Counter!Restarted(c, 0, how)
    BY <1>2, <1>13, <1>15
  <2>2. QED  BY <1>14, <2>1, RestartedIdle
<1>17. QED  BY <1>11, <1>12, <1>13, <1>15, <1>16, OneIdle

LEMMA TccrStarts ==
    ASSUME TimerOk, TM!Instruction, TimerInv(timer)', NEW d \in Divs, NEW how \in TM!Modes, NEW q,
           ClockStarted(q, timer, d, how), TM!Timed(q), timer' = TM!Reconfigure(q, TRUE), NEW c, c = TM!Seen, NEW x, x = TM!Seen'
    PROVE  TimerCounting' /\ x = TM!Counter!Restarted(c, d, how)
<1>1. timer \in TimerRecord /\ TM!WellFormed /\ TimerHalted(timer) /\ TimerFits(timer)
  BY DEF TimerOk, TimerInv, TimerCounting
<1>2. /\ IsView(c) /\ c.strict = part.strict /\ c.mode = timer.mode
      /\ c.held = timer.halted /\ c.next = timer.ocr /\ c.flags = {}
      /\ timer.halted => c.count = timer.held
      /\ timer.flags = {} /\ part' = part
  BY ReadyIs
<1>5. /\ q \in TimerRecord
      /\ q.mode = how /\ q.div = d /\ q.ocr = timer.ocr /\ q.halted = timer.halted /\ q.pend = {}
      /\ ~q.reset /\ q.held = timer.held /\ q.flags = timer.flags /\ q.el = timer.el
  BY DEF ClockStarted
<1>6. /\ q.mode = how /\ q.div = d /\ q.ocr = timer.ocr /\ q.halted = timer.halted /\ q.pend = {}
      /\ ~q.reset /\ q.held = timer.held /\ q.flags = timer.flags /\ q.el = timer.el
  BY <1>5
<1>7. d \in Nat \ {0} /\ q.div # 0
  BY <1>1, <1>6, TimerConstants
<1>8. InUse(q) = timer.ocr
  <2>1. \A u \in Units : TM!OcrEff(q, u) = timer.ocr[u]
    BY <1>6 DEF TM!OcrEff
  <2>2. timer.ocr = [u \in Units |-> timer.ocr[u]]
    BY <1>1 DEF TimerRecord
  <2>3. QED  BY <2>1, <2>2 DEF InUse
<1>9. PICK w : w = timer'
  OBVIOUS
<1>10. PICK y : y = TM!Counter!Restarted(c, d, how)
  OBVIOUS
<1>11. PICK s, h, N : s = part.strict /\ h = timer.halted /\ N = timer.ocr
  OBVIOUS
<1>12. CASE timer.halted
  <2>1. w = TM!Cleared(q)
    BY <1>6, <1>9, <1>12 DEF TM!Reconfigure
  <2>2. /\ w.mode = q.mode /\ w.div = q.div /\ w.ocr = q.ocr /\ w.halted = q.halted
        /\ w.reset = q.reset /\ w.held = q.held /\ w.flags = q.flags /\ w.tov = TM!Never
        /\ w.pend = q.pend /\ w.act = q.act
    BY <1>1, <1>5, <2>1, ClearedFields
  <2>3. TimerHalted(w)
    BY <1>1, <1>6, <2>2 DEF TimerHalted
  <2>4. InUse(w) = timer.ocr
    <3>1. InUse(w) = InUse(q)
      BY <2>2 DEF InUse, TM!OcrEff, TM!Buffered
    <3>2. QED  BY <1>8, <3>1
  <2>5. /\ TimerCounting'
        /\ Idle(x, part.strict, w.mode, w.div, w.halted,
                IF w.div = 0 \/ w.reset THEN w.ocr ELSE InUse(w), w.ocr,
                IF w.halted THEN w.held ELSE 0, w.flags)
    BY <1>2, <1>9, <2>2, <2>3, StoppedIs
  <2>6. Idle(x, s, how, d, h, N, N, timer.held, {})
    <3>1. w.halted /\ (IF w.halted THEN w.held ELSE 0) = timer.held
      BY <1>6, <1>12, <2>2
    <3>2. (IF w.div = 0 \/ w.reset THEN w.ocr ELSE InUse(w)) = N
      BY <1>6, <1>11, <2>2, <2>4
    <3>3. QED  BY <1>2, <1>6, <1>11, <2>2, <2>5, <3>1, <3>2
  <2>7. Idle(y, s, how, d, h, N, N, timer.held, {})
    <3>1. IsView(c) /\ c.strict = s /\ c.held = h /\ c.next = N /\ c.flags = {}
      BY <1>2, <1>11
    <3>2. c.held
      BY <1>2, <1>12, Zenon
    <3>3. timer.held = IF c.held THEN c.count ELSE 0
      BY <1>2, <1>12, <3>2, Zenon
    <3>4. QED  BY <1>10, <3>1, <3>2, <3>3, RestartedIdle
  <2>8. QED  BY <1>10, <2>5, <2>6, <2>7, OneIdle
<1>13. CASE ~timer.halted
  <2>1. TimerTimed(q) /\ ~q.reset /\ q.el <= Longest + Lateness /\ ~q.halted /\ q.flags = {}
    BY <1>1, <1>2, <1>6, <1>13 DEF TimerFits, TimerTimed
  <2>2. /\ Opened(w, 0, FALSE) /\ w.mode = q.mode /\ w.div = q.div /\ w.ocr = q.ocr
        /\ InUse(w) = InUse(q) /\ w.len >= 2 /\ w \in TimerRecord
    <3>1. PICK yes, e : yes = TRUE /\ e = 0
      BY Zenon
    <3>2. e = Began(q, yes)
      BY <3>1 DEF Began
    <3>3. w = TM!Reconfigure(q, yes)
      BY <1>9, <3>1, Zenon
    <3>4. /\ Opened(w, e, FALSE) /\ w.mode = q.mode /\ w.div = q.div /\ w.ocr = q.ocr
          /\ InUse(w) = InUse(q) /\ w.len >= 2 /\ w \in TimerRecord
      <4>1. Startable(q)
        BY <1>5, <1>7, <2>1 DEF Startable
      <4>2. Reconfigured(w, q, e)
        BY <1>1, <3>2, <3>3, <4>1, ReconfiguredIs
      <4>3. QED  BY <4>2 DEF Reconfigured
    <3>5. QED  BY <3>1, <3>4
  <2>3. PICK no2 \in BOOLEAN : no2 = FALSE
    BY Zenon
  <2>4. /\ TimerCounting'
        /\ 0 < w.len /\ ~no2 =>
                Showing(x, part.strict, w.mode, w.div, N, w.ocr, 0, {}, UnitsReached(w.mode, w.div, N, 0))
    <3>1. Opened(w, 0, no2) /\ N = InUse(w)
      BY <1>8, <1>11, <2>2, <2>3, Zenon
    <3>2. QED  BY <1>2, <1>9, <3>1, PeriodIsSeen
  <2>5. 0 < w.len
    <3>1. w.len \in Nat
      BY <2>2 DEF TimerRecord
    <3>2. QED  BY <2>2, <3>1
  <2>6. UnitsReached(how, d, N, 0) = {}
    <3>1. N \in [Units -> Nat]
      BY <1>1, <1>5, <1>6, <1>7, <1>11, WrittenIs
    <3>2. QED  BY <1>7, <3>1, NothingReached
  <2>7. Showing(x, s, how, d, N, N, 0, {}, {})
    <3>1. w.mode = how /\ w.div = d /\ w.ocr = N /\ part.strict = s
      BY <1>6, <1>11, <2>2
    <3>2. QED  BY <2>3, <2>4, <2>5, <2>6, <3>1
  <2>8. Showing(y, s, how, d, N, N, 0, {}, {})
    <3>1. c.held = FALSE
      <4>1. timer.halted = FALSE
        BY <1>1, <1>13 DEF TimerRecord
      <4>2. QED  BY <1>2, <4>1
    <3>2. IsView(c) /\ c.strict = s /\ c.next = N /\ c.flags = {}
      BY <1>2, <1>11
    <3>3. QED  BY <1>7, <1>10, <3>1, <3>2, RestartedShows
  <2>9. QED  BY <1>10, <2>4, <2>7, <2>8, OneShown
<1>14. QED  BY <1>12, <1>13

LEMMA TccrRestarts ==
    ASSUME TimerOk, NEW d \in Divs \cup {0}, NEW how \in TM!Modes, TM!WriteTccr(d, how),
           TimerInv(timer)', NEW c, c = TM!Seen, NEW x, x = TM!Seen'
    PROVE  /\ TimerCounting'
           /\ \/ x = c
              \/ x = TM!Counter!Restarted(c, 0, c.mode)
              \/ d \in Divs /\ x = TM!Counter!Restarted(c, d, how)
<1>1. TM!Instruction /\ part' = part
  BY DEF TM!WriteTccr, TM!Instruction
<1>2. CASE d = 0 /\ timer' = timer
  BY <1>1, <1>2, TimerStays
<1>3. CASE d = 0 /\ timer' # timer
  <2>1. PICK q : q = StopClock(timer)
    OBVIOUS
  <2>2. timer' = TM!Cleared(q)
    BY <1>3, <2>1 DEF TM!WriteTccr, StopClock
  <2>3. ClockStopped(q, timer)
    <3>1. timer \in TimerRecord
      BY DEF TimerOk, TimerInv
    <3>2. QED  BY <2>1, <3>1, ClockStoppedIs
  <2>4. QED  BY <1>1, <2>2, <2>3, TccrStops
<1>4. CASE d # 0
  <2>1. PICK q : q = StartClock(timer, d, how)
    OBVIOUS
  <2>2. TM!Timed(q) /\ timer' = TM!Reconfigure(q, TRUE)
    BY <1>4, <2>1 DEF TM!WriteTccr, StartClock
  <2>3. d \in Divs
    BY <1>4
  <2>4. TimerCounting' /\ x = TM!Counter!Restarted(c, d, how)
    <3>1. ClockStarted(q, timer, d, how)
      <4>1. timer \in TimerRecord /\ TM!WellFormed
        BY DEF TimerOk, TimerInv
      <4>2. QED  BY <2>1, <2>3, <4>1, ClockStartedIs
    <3>2. QED  BY <1>1, <2>2, <2>3, <3>1, TccrStarts
  <2>5. QED  BY <2>3, <2>4
<1>5. QED  BY <1>2, <1>3, <1>4
-----------------------------------------------------------------------------
(* avr_timer_tcnt_write, from the register *)

LEMMA GoesSame ==
    ASSUME NEW c, NEW n, NEW a, NEW b, a <=> b
    PROVE  TM!Counter!Goes(c, n, a) = TM!Counter!Goes(c, n, b)
<1>1. CASE a
  <2>1. b
    BY <1>1
  <2>2. QED  BY <1>1, <2>1, Zenon DEF TM!Counter!Goes
<1>2. CASE ~a
  <2>1. ~b
    BY <1>2
  <2>2. QED  BY <1>2, <2>1, Zenon DEF TM!Counter!Goes
<1>3. QED  BY <1>1, <1>2

LEMMA ShowingRuns ==
    ASSUME NEW s, NEW how, NEW d, NEW V, NEW N, NEW e, NEW K, NEW f,
           NEW c, Showing(c, s, how, d, V, N, e, K, f)
    PROVE  Active(c, s, how, d, V, N, f)
BY Zenon DEF Showing, Active

\* What the firmware finds of a timer that runs.
LEMMA RunningIs ==
    ASSUME TimerOk, TM!Firmware, timer.tov # TM!Never, NEW c, c = TM!Seen
    PROVE  /\ timer \in TimerRecord /\ TimerPeriod(timer) /\ timer.div # 0 /\ ~timer.halted
           /\ timer.flags = {} /\ timer.len >= 2 /\ ~timer.reset /\ part' = part
           /\ Active(c, part.strict, timer.mode, timer.div, InUse(timer), timer.ocr, {})
           /\ c.held = FALSE /\ c.on = TRUE /\ c.strict = part.strict /\ TM!Counter!Top(c) = timer.top
           /\ timer.top \in Nat
           /\ Showing(c, part.strict, timer.mode, timer.div, InUse(timer), timer.ocr, timer.el,
                      SkipsOf(timer), {})
<1>1. TM!Instruction /\ ~timer.reset
  BY DEF TM!Firmware
<1>2. timer.flags = {} /\ part' = part
      /\ Showing(c, part.strict, timer.mode, timer.div, InUse(timer), timer.ocr, timer.el,
                      SkipsOf(timer), {})
  BY <1>1, ReadyIs
<1>3. Active(c, part.strict, timer.mode, timer.div, InUse(timer), timer.ocr, {})
  BY <1>2, ShowingRuns
<1>4. /\ timer \in TimerRecord /\ TimerPeriod(timer) /\ timer.div # 0 /\ ~timer.halted
      /\ timer.len >= 2 /\ TM!WellFormed
  BY DEF TimerOk, TimerInv, TimerRuns, TimerCounting
<1>5. timer.top \in Nat /\ timer.top = TopIn(timer.mode, InUse(timer))
  <2>1. timer.top \in TM!Values
    BY <1>4 DEF TimerRecord
  <2>2. QED  BY <1>4, <2>1, TimerConstants DEF TimerPeriod
<1>6. c.held = FALSE /\ c.on = TRUE /\ c.strict = part.strict /\ c.mode = timer.mode
      /\ c.ocr = InUse(timer)
  BY <1>3, Zenon DEF Active
<1>7. TM!Counter!Top(c) = timer.top
  BY <1>5, <1>6, CounterSame DEF TM!Counter!Top
<1>8. QED  BY <1>1, <1>2, <1>3, <1>4, <1>5, <1>6, <1>7

LEMMA IdleCounts ==
    ASSUME NEW s, NEW how, NEW d, NEW h, NEW V, NEW N, NEW n, NEW f,
           NEW c, Idle(c, s, how, d, h, V, N, n, f), NEW m, NEW w, w = [c EXCEPT !.count = m]
    PROVE  Idle(w, s, how, d, h, V, N, m, f)
<1>1. IsView(c)
  BY DEF Idle
<1>2. /\ IsView(w)
      /\ w.count = m /\ w.strict = c.strict /\ w.mode = c.mode /\ w.div = c.div /\ w.held = c.held
      /\ w.on = c.on /\ w.ocr = c.ocr /\ w.next = c.next /\ w.into = c.into /\ w.skips = c.skips
      /\ w.flags = c.flags
  BY <1>1, ViewCount
<1>3. QED  BY <1>2, Zenon DEF Idle

\* Of a stopped timer only these registers are seen.
SameRegisters(w, t) ==
    /\ w.mode = t.mode /\ w.div = t.div /\ w.ocr = t.ocr /\ w.halted = t.halted
    /\ w.reset = t.reset /\ w.flags = t.flags /\ w.pend = t.pend /\ w.act = t.act
    /\ w.len = t.len

LEMMA SameStopped ==
    ASSUME TimerOk, TM!Instruction, TimerInv(timer)', part' = part, NEW w, w = timer',
           timer.tov = TM!Never, w.tov = TM!Never, SameRegisters(w, timer),
           NEW c, c = TM!Seen, NEW x, x = TM!Seen'
    PROVE  /\ TimerCounting'
           /\ w.held = timer.held => x = c
           /\ timer.halted => x = [c EXCEPT !.count = w.held]
<1> /\ w.mode = timer.mode /\ w.div = timer.div /\ w.ocr = timer.ocr /\ w.halted = timer.halted
    /\ w.reset = timer.reset /\ w.flags = timer.flags /\ w.pend = timer.pend /\ w.act = timer.act
    /\ w.len = timer.len
  BY Zenon DEF SameRegisters
<1>1. TimerHalted(w)
  BY DEF TimerOk, TimerCounting, TimerHalted, TM!Buffered
<1>2. InUse(w) = InUse(timer)
  BY DEF InUse, TM!OcrEff, TM!Buffered
<1>3. PICK s, how, d, h, V, N, n, m :
          /\ s = part.strict /\ how = timer.mode /\ d = timer.div /\ h = timer.halted
          /\ V = IF timer.div = 0 \/ timer.reset THEN timer.ocr ELSE InUse(timer)
          /\ N = timer.ocr
          /\ n = IF timer.halted THEN timer.held ELSE 0
          /\ m = IF timer.halted THEN w.held ELSE 0
  OBVIOUS
<1>4. /\ TimerCounting'
      /\ Idle(x, part.strict, w.mode, w.div, w.halted,
               IF w.div = 0 \/ w.reset THEN w.ocr ELSE InUse(w), w.ocr,
               IF w.halted THEN w.held ELSE 0, w.flags)
  BY <1>1, StoppedIs
<1>5. /\ Idle(c, part.strict, timer.mode, timer.div, timer.halted,
              IF timer.div = 0 \/ timer.reset THEN timer.ocr ELSE InUse(timer), timer.ocr,
              IF timer.halted THEN timer.held ELSE 0, {})
      /\ timer.flags = {}
  BY ReadyIs
<1>6. Idle(x, s, how, d, h, V, N, m, {})
  BY <1>2, <1>3, <1>4, <1>5
<1>7. Idle(c, s, how, d, h, V, N, n, {})
  BY <1>3, <1>5
<1>8. ASSUME w.held = timer.held
      PROVE  x = c
  <2>1. m = n
    BY <1>3, <1>8
  <2>2. QED  BY <1>6, <1>7, <2>1, OneIdle
<1>9. ASSUME timer.halted
      PROVE  x = [c EXCEPT !.count = w.held]
  <2>1. m = w.held
    BY <1>3, <1>9
  <2>2. PICK y : y = [c EXCEPT !.count = m]
    OBVIOUS
  <2>3. Idle(y, s, how, d, h, V, N, m, {})
    BY <1>7, <2>2, IdleCounts
  <2>4. x = y
    BY <1>6, <2>3, OneIdle
  <2>5. QED  BY <2>1, <2>2, <2>4
<1>10. QED  BY <1>4, <1>8, <1>9

LEMMA HeldFields ==
    ASSUME NEW t \in TimerRecord, NEW v, NEW w, w = [t EXCEPT !.held = v]
    PROVE  /\ w.mode = t.mode /\ w.div = t.div /\ w.ocr = t.ocr /\ w.pend = t.pend
           /\ w.act = t.act /\ w.halted = t.halted /\ w.reset = t.reset /\ w.held = v
           /\ w.top = t.top /\ w.len = t.len /\ w.cc = t.cc /\ w.el = t.el /\ w.tov = t.tov
           /\ w.comp = t.comp /\ w.flags = t.flags
BY ZenonT(30) DEF TimerRecord

LEMMA TcntIsCounted ==
    ASSUME TimerOk, NEW v \in TM!Values, TM!WriteTcnt(v), TimerInv(timer)',
           NEW c, c = TM!Seen, NEW x, x = TM!Seen'
    PROVE  TimerCounting' /\ (x = c \/ x \in TM!Counter!Counted(c, v))
<1>1. /\ TM!Firmware /\ TM!Instruction /\ part' = part /\ ~timer.reset
      /\ timer' = TM!SetTcnt(timer, v, FALSE)
  BY DEF TM!WriteTcnt, TM!Firmware, TM!Instruction
<1>2. /\ timer \in TimerRecord /\ TM!WellFormed /\ TimerRuns(timer) /\ TimerFits(timer)
      /\ timer.halted \in BOOLEAN
  BY DEF TimerOk, TimerInv, TimerRecord
<1>3. PICK w : w = timer'
  OBVIOUS
<1>4. c.held = timer.halted
  BY <1>1, ReadyIs
<1>5. CASE timer.halted
  <2>1. timer.tov = TM!Never
    BY <1>2, <1>5 DEF TimerRuns
  <2>2. w = [timer EXCEPT !.held = v]
    BY <1>1, <1>3, <1>5 DEF TM!SetTcnt
  <2>3. /\ w.mode = timer.mode /\ w.div = timer.div /\ w.ocr = timer.ocr /\ w.pend = timer.pend
        /\ w.act = timer.act /\ w.halted = timer.halted /\ w.reset = timer.reset /\ w.held = v
        /\ w.len = timer.len /\ w.tov = timer.tov /\ w.flags = timer.flags
    BY <1>2, <2>2, HeldFields
  <2>4. TimerCounting' /\ x = [c EXCEPT !.count = w.held]
    <3>1. SameRegisters(w, timer) /\ w.tov = TM!Never
      BY <2>1, <2>3, Zenon DEF SameRegisters
    <3>2. /\ TimerCounting'
          /\ timer.halted => x = [c EXCEPT !.count = w.held]
      BY <1>1, <1>3, <2>1, <3>1, SameStopped
    <3>3. QED  BY <1>5, <3>2
  <2>5. c.held
    BY <1>4, <1>5, Zenon
  <2>6. x \in TM!Counter!Counted(c, v)
    BY <2>3, <2>4, <2>5 DEF TM!Counter!Counted
  <2>7. QED  BY <2>4, <2>6
<1>6. CASE ~timer.halted /\ timer.top = 0
  <2>1. timer' = timer
    BY <1>1, <1>6 DEF TM!SetTcnt
  <2>2. QED  BY <1>1, <2>1, TimerStays
<1>7. CASE ~timer.halted /\ timer.top # 0 /\ timer.tov = TM!Never
  <2>1. timer.len = 0
    BY <1>1, <1>2, <1>7 DEF TimerRuns, TimerFits
  <2>2. w = TM!Cancelled(timer)
    BY <1>1, <1>3, <1>7, <2>1 DEF TM!SetTcnt
  <2>3. /\ w.mode = timer.mode /\ w.div = timer.div /\ w.ocr = timer.ocr /\ w.pend = timer.pend
        /\ w.act = timer.act /\ w.halted = timer.halted /\ w.reset = timer.reset
        /\ w.held = timer.held
        /\ w.len = timer.len /\ w.tov = TM!Never /\ w.flags = timer.flags
    BY <1>2, <2>2, CancelledFields
  <2>4. TimerCounting' /\ x = c
    <3>1. SameRegisters(w, timer)
      BY <2>3, Zenon DEF SameRegisters
    <3>2. QED  BY <1>1, <1>3, <1>7, <2>3, <3>1, SameStopped
  <2>5. QED  BY <2>4
<1>8. CASE ~timer.halted /\ timer.top # 0 /\ timer.tov # TM!Never
  <2>1. /\ TimerPeriod(timer) /\ timer.div # 0 /\ timer.flags = {} /\ timer.len >= 2
        /\ Active(c, part.strict, timer.mode, timer.div, InUse(timer), timer.ocr, {})
        /\ c.held = FALSE /\ c.on = TRUE /\ c.strict = part.strict
        /\ TM!Counter!Top(c) = timer.top
    BY <1>1, <1>8, RunningIs
  <2>2. PICK no \in BOOLEAN : no = FALSE
    BY Zenon
  <2>3. timer' = TM!SetTcnt(timer, v, no)
    BY <1>1, <2>2, Zenon
  <2>4. TimerCounting' /\ x \in TM!Counter!Goes(c, v, part.strict /\ ~no)
    BY <1>1, <1>2, <1>8, <2>1, <2>3, SetShows
  <2>5. TM!Counter!Goes(c, v, part.strict /\ ~no) = TM!Counter!Goes(c, v, c.strict)
    <3>1. (part.strict /\ ~no) <=> c.strict
      BY <2>1, <2>2, Zenon
    <3>2. QED  BY <3>1, GoesSame
  <2>6. TM!Counter!Counted(c, v) = TM!Counter!Goes(c, v, c.strict)
    BY <1>8, <2>1 DEF TM!Counter!Counted
  <2>7. QED  BY <2>4, <2>5, <2>6
<1>9. QED  BY <1>5, <1>6, <1>7, <1>8
-----------------------------------------------------------------------------
(* avr_timer_write_gtccr *)

LEMMA TcntIs ==
    ASSUME TimerOk, TM!Firmware, timer.tov # TM!Never, NEW c, c = TM!Seen
    PROVE  /\ TM!Tcnt(timer) = timer.el \div timer.div /\ TM!Tcnt(timer) = c.count
           /\ TM!Tcnt(timer) \in TM!Values
<1>1. /\ timer \in TimerRecord /\ TimerPeriod(timer) /\ timer.div # 0 /\ ~timer.halted
      /\ timer.len >= 2
      /\ Showing(c, part.strict, timer.mode, timer.div, InUse(timer), timer.ocr, timer.el,
                      SkipsOf(timer), {})
  BY RunningIs
<1>2. TM!WellFormed /\ timer.top \in TM!Values /\ timer.el \in Nat /\ timer.len \in Nat
  BY <1>1 DEF TimerOk, TimerRecord
<1>3. PICK e \in Nat, d \in Nat \ {0}, top \in Nat : e = timer.el /\ d = timer.div /\ top = timer.top
  <2>1. timer.div \in Divs
    BY <1>1 DEF TimerRecord
  <2>2. QED  BY <1>2, <2>1, TimerConstants
<1>4. timer.len = d * (top + 1)
  BY <1>1, <1>3 DEF TimerPeriod, LengthIn
<1>5. TM!Tcnt(timer) = e \div d
  <2>1. TM!Tcnt(timer) = (e * (top + 1)) \div timer.len
    BY <1>1, <1>3 DEF TM!Tcnt
  <2>2. PICK m \in Nat \ {0} : m = top + 1
    OBVIOUS
  <2>3. (e * m) \div (d * m) = e \div d
    BY QuotientOfCounts
  <2>4. QED  BY <1>4, <2>1, <2>2, <2>3
<1>6. c.count = e \div d
  BY <1>1, <1>3 DEF Showing
<1>7. e < timer.len
  <2>1. TM!Instruction
    BY DEF TM!Firmware
  <2>2. TimerBefore
    BY <2>1, ReadyIs
  <2>3. timer.tov = timer.len - timer.el /\ timer.tov > 0
    BY <2>2 DEF TimerBefore, TimerOk, TimerInv, TimerRuns
  <2>4. QED  BY <1>2, <1>3, <2>3
<1>8. PICK q \in Nat, k \in Nat : q = e \div d /\ e = q * d + k
  <2>1. e \div d \in Nat /\ e % d \in Nat /\ e = (e \div d) * d + (e % d)
    BY Divides
  <2>2. QED  BY <2>1
<1>9. q <= top
  <2>1. SUFFICES ASSUME top + 1 <= q
                 PROVE  FALSE
    OBVIOUS
  <2>2. (top + 1) * d <= q * d
    BY <2>1, ProductGrows
  <2>3. PICK a \in Nat, b \in Nat : a = (top + 1) * d /\ b = q * d
    BY ProductIsNat
  <2>4. timer.len = a
    BY <1>4, <2>3
  <2>5. QED  BY <1>7, <1>8, <2>2, <2>3, <2>4
<1>10. q \in TM!Values
  BY <1>2, <1>3, <1>9, TimerConstants
<1>11. QED  BY <1>3, <1>5, <1>6, <1>8, <1>10

LEMMA PrescalerGoes ==
    ASSUME TimerOk, TM!ResetPrescaler, TimerInv(timer)', NEW c, c = TM!Seen, NEW x, x = TM!Seen'
    PROVE  /\ TimerCounting'
           /\ x = c \/ (c.strict /\ c.on /\ x \in TM!Counter!Goes(c, c.count, FALSE))
<1>1. /\ TM!Firmware /\ part.strict /\ ~timer.halted /\ timer.div # 0 /\ ~timer.reset
      /\ timer' = TM!SetTcnt(timer, TM!Tcnt(timer), TRUE)
  BY DEF TM!ResetPrescaler, TM!Firmware
<1>2. TM!WellFormed /\ timer.tov # TM!Never
  BY <1>1 DEF TimerOk, TimerInv, TimerRuns
<1>3. /\ timer \in TimerRecord /\ TimerPeriod(timer) /\ timer.flags = {} /\ timer.len >= 2
      /\ part' = part
      /\ Active(c, part.strict, timer.mode, timer.div, InUse(timer), timer.ocr, {})
      /\ c.on = TRUE /\ c.strict = part.strict
  BY <1>1, <1>2, RunningIs
<1>4. PICK v \in TM!Values : v = TM!Tcnt(timer) /\ v = c.count
  BY <1>1, <1>2, TcntIs
<1>5. CASE timer.top = 0
  <2>1. timer' = timer
    BY <1>1, <1>5 DEF TM!SetTcnt
  <2>2. QED  BY <1>3, <2>1, TimerStays
<1>6. CASE timer.top # 0
  <2>1. PICK yes \in BOOLEAN : yes = TRUE
    BY Zenon
  <2>2. timer' = TM!SetTcnt(timer, v, yes)
    BY <1>1, <1>4, <2>1, Zenon
  <2>3. TimerCounting' /\ x \in TM!Counter!Goes(c, v, part.strict /\ ~yes)
    BY <1>1, <1>2, <1>3, <1>6, <2>2, SetShows
  <2>4. TM!Counter!Goes(c, v, part.strict /\ ~yes) = TM!Counter!Goes(c, v, FALSE)
    <3>1. (part.strict /\ ~yes) <=> FALSE
      BY <2>1, Zenon
    <3>2. QED  BY <3>1, GoesSame
  <2>5. c.strict /\ c.on
    BY <1>1, <1>3
  <2>6. QED  BY <1>4, <2>3, <2>4, <2>5
<1>7. QED  BY <1>5, <1>6

LEMMA HoldingIs ==
    ASSUME NEW s, NEW how, NEW d, NEW V, NEW N, NEW f, NEW c, IsView(c), c.strict = s, c.mode = how,
           c.div = d, c.ocr = V, c.next = N, c.flags = f, NEW n, NEW w, w = TM!Counter!Holding(c, n)
    PROVE  Idle(w, s, how, d, TRUE, V, N, n, f)
<1>1. PICK a : a = TM!Counter!At(c, n, 0)
  OBVIOUS
<1>2. PICK yes, no : yes = TRUE /\ no = FALSE
  BY Zenon
<1>3. w = [a EXCEPT !.held = yes, !.on = no]
  BY <1>1, <1>2, Zenon DEF TM!Counter!Holding
<1>4. /\ IsView(a)
      /\ a.strict = c.strict /\ a.mode = c.mode /\ a.div = c.div
      /\ a.ocr = c.ocr /\ a.next = c.next /\ a.count = n
      /\ a.into = 0 /\ a.skips = {} /\ a.flags = c.flags
  BY <1>1, ViewAt
<1>5. PICK b : b = [a EXCEPT !.held = yes]
  OBVIOUS
<1>6. w = [b EXCEPT !.on = no]
  BY <1>3, <1>5, ViewSwitchedInTurn, Zenon
<1>7. b = View(a.strict, a.mode, a.div, yes, a.on, a.ocr, a.next, a.count, a.into, a.skips, a.flags)
  BY <1>4, <1>5 DEF IsView, View
<1>8. w = View(a.strict, a.mode, a.div, yes, no, a.ocr, a.next, a.count, a.into, a.skips, a.flags)
  BY <1>6, <1>7 DEF View
<1>9. /\ IsView(w)
      /\ w.strict = a.strict /\ w.mode = a.mode /\ w.div = a.div /\ w.held = yes
      /\ w.on = no /\ w.ocr = a.ocr /\ w.next = a.next /\ w.count = a.count /\ w.into = a.into
      /\ w.skips = a.skips /\ w.flags = a.flags
  BY <1>8, ViewIs
<1>10. QED  BY <1>2, <1>4, <1>9, Zenon DEF Idle

HeldAt(t, v) == [t EXCEPT !.held = v, !.halted = TRUE]

LEMMA HeldAtFields ==
    ASSUME NEW t \in TimerRecord, NEW v, NEW w, w = HeldAt(t, v)
    PROVE  /\ w.mode = t.mode /\ w.div = t.div /\ w.ocr = t.ocr /\ w.pend = t.pend
           /\ w.act = t.act /\ w.halted /\ w.reset = t.reset /\ w.held = v
           /\ w.len = t.len /\ w.tov = t.tov /\ w.flags = t.flags
<1>1. PICK yes : yes = TRUE
  BY Zenon
<1>2. w = [t EXCEPT !.held = v, !.halted = yes]
  BY <1>1, Zenon DEF HeldAt
<1>3. /\ w.mode = t.mode /\ w.div = t.div /\ w.ocr = t.ocr /\ w.pend = t.pend
      /\ w.act = t.act /\ w.halted = yes /\ w.reset = t.reset /\ w.held = v
      /\ w.len = t.len /\ w.tov = t.tov /\ w.flags = t.flags
  BY <1>2, ZenonT(30) DEF TimerRecord
<1>4. QED  BY <1>1, <1>3, Zenon

LEMMA HoldHolding ==
    ASSUME TimerOk, TM!Hold, TimerInv(timer)', NEW c, c = TM!Seen, NEW x, x = TM!Seen'
    PROVE  /\ TimerCounting' /\ c.strict /\ ~c.held
           /\ x = TM!Counter!Holding(c, IF c.div = 0 THEN x.count ELSE c.count)
<1>1. /\ TM!Firmware /\ TM!Instruction /\ part' = part /\ part.strict /\ ~timer.halted /\ ~timer.reset
  BY DEF TM!Hold, TM!Firmware, TM!Instruction
<1>2. PICK v \in TM!Values :
          /\ timer.div # 0 => v = TM!Tcnt(timer)
          /\ timer' = [TM!Cancelled(timer) EXCEPT !.held = v, !.halted = TRUE]
  BY Zenon DEF TM!Hold
<1>20. timer' = HeldAt(TM!Cancelled(timer), v)
  BY <1>2, Zenon DEF HeldAt
<1>3. /\ timer \in TimerRecord /\ TM!WellFormed /\ TimerRuns(timer) /\ timer.halted \in BOOLEAN
  BY DEF TimerOk, TimerInv, TimerRecord
<1>4. PICK w, t : w = timer' /\ t = TM!Cancelled(timer)
  OBVIOUS
<1>5. /\ t \in TimerRecord /\ t.mode = timer.mode /\ t.div = timer.div /\ t.ocr = timer.ocr
      /\ t.pend = timer.pend /\ t.act = timer.act /\ t.reset = timer.reset
      /\ t.len = timer.len /\ t.tov = TM!Never /\ t.flags = timer.flags
  BY <1>3, <1>4, CancelledFields
<1>6. /\ w.mode = t.mode /\ w.div = t.div /\ w.ocr = t.ocr /\ w.pend = t.pend
      /\ w.act = t.act /\ w.halted /\ w.reset = t.reset /\ w.held = v
      /\ w.len = t.len /\ w.tov = t.tov /\ w.flags = t.flags
  BY <1>20, <1>4, <1>5, HeldAtFields
<1>7. InUse(w) = InUse(timer)
  BY <1>5, <1>6 DEF InUse, TM!OcrEff, TM!Buffered
<1>8. /\ IsView(c) /\ c.strict = part.strict /\ c.mode = timer.mode /\ c.div = timer.div
      /\ c.held = timer.halted /\ c.next = timer.ocr /\ c.flags = {} /\ timer.flags = {}
  BY <1>1, ReadyIs
<1>9. TimerHalted(w)
  <2>1. w.div # 0 => w.len # 0
    <3>1. timer.div # 0 => timer.len >= 2
      BY <1>1, <1>3 DEF TimerRuns
    <3>2. QED  BY <1>5, <1>6, <3>1
  <2>2. QED  BY <1>1, <1>5, <1>6, <2>1 DEF TimerHalted
<1>10. PICK V : V = IF timer.div = 0 THEN timer.ocr ELSE InUse(timer)
  OBVIOUS
<1>11. TimerCounting' /\ Idle(x, part.strict, timer.mode, timer.div, TRUE, V, timer.ocr, v, {})
  <2>1. /\ TimerCounting'
        /\ Idle(x, part.strict, w.mode, w.div, w.halted,
                IF w.div = 0 \/ w.reset THEN w.ocr ELSE InUse(w), w.ocr,
                IF w.halted THEN w.held ELSE 0, w.flags)
    BY <1>1, <1>4, <1>5, <1>6, <1>9, StoppedIs
  <2>2. w.halted = TRUE
    <3>1. timer' \in TimerRecord'
      BY DEF TimerInv
    <3>2. w.halted \in BOOLEAN
      BY <1>4, <3>1 DEF TimerRecord
    <3>3. QED  BY <1>6, <3>2
  <2>3. (IF w.div = 0 \/ w.reset THEN w.ocr ELSE InUse(w)) = V
    BY <1>1, <1>5, <1>6, <1>7, <1>10
  <2>4. (IF w.halted THEN w.held ELSE 0) = v
    BY <1>6
  <2>5. w.mode = timer.mode /\ w.div = timer.div /\ w.ocr = timer.ocr /\ w.flags = {}
    BY <1>5, <1>6, <1>8
  <2>6. QED  BY <2>1, <2>2, <2>3, <2>4, <2>5
<1>12. c.ocr = V
  <2>1. CASE timer.div = 0
    <3>1. timer.tov = TM!Never
      BY <1>3, <2>1 DEF TimerRuns
    <3>2. Idle(c, part.strict, timer.mode, timer.div, timer.halted,
               IF timer.div = 0 \/ timer.reset THEN timer.ocr ELSE InUse(timer), timer.ocr,
               IF timer.halted THEN timer.held ELSE 0, {})
      BY <1>1, <3>1, ReadyIs
    <3>3. QED  BY <1>10, <2>1, <3>2 DEF Idle
  <2>2. CASE timer.div # 0
    <3>1. timer.tov # TM!Never
      BY <1>1, <1>3, <2>2 DEF TimerRuns
    <3>2. Active(c, part.strict, timer.mode, timer.div, InUse(timer), timer.ocr, {})
      BY <1>1, <3>1, RunningIs
    <3>3. QED  BY <1>10, <2>2, <3>2 DEF Active
  <2>3. QED  BY <2>1, <2>2
<1>13. PICK y : y = TM!Counter!Holding(c, v)
  OBVIOUS
<1>14. PICK s, how, d, N : s = part.strict /\ how = timer.mode /\ d = timer.div /\ N = timer.ocr
  OBVIOUS
<1>15. Idle(y, s, how, d, TRUE, V, N, v, {})
  <2>1. /\ IsView(c) /\ c.strict = s /\ c.mode = how /\ c.div = d
        /\ c.ocr = V /\ c.next = N /\ c.flags = {}
    BY <1>8, <1>12, <1>14
  <2>2. QED  BY <1>13, <2>1, HoldingIs
<1>16. x = y
  BY <1>11, <1>14, <1>15, OneIdle
<1>17. (IF c.div = 0 THEN x.count ELSE c.count) = v
  <2>1. x.count = v
    BY <1>11 DEF Idle
  <2>2. ASSUME timer.div # 0
        PROVE  c.count = v
    <3>1. timer.tov # TM!Never
      BY <1>1, <1>3, <2>2 DEF TimerRuns
    <3>2. QED  BY <1>1, <1>2, <2>2, <3>1, TcntIs
  <2>3. QED  BY <1>8, <2>1, <2>2
<1>18. c.strict /\ ~c.held
  BY <1>1, <1>8
<1>19. QED  BY <1>11, <1>13, <1>16, <1>17, <1>18

Unheld(t) == [t EXCEPT !.halted = FALSE]

LEMMA UnheldFields ==
    ASSUME NEW t \in TimerRecord, NEW w, w = Unheld(t)
    PROVE  /\ w \in TimerRecord
           /\ w.mode = t.mode /\ w.div = t.div /\ w.ocr = t.ocr /\ w.pend = t.pend
           /\ w.act = t.act /\ w.halted = FALSE /\ w.reset = t.reset /\ w.held = t.held
           /\ w.len = t.len /\ w.el = t.el /\ w.tov = t.tov /\ w.flags = t.flags
<1>1. PICK no \in BOOLEAN : no = FALSE
  BY Zenon
<1>2. w = [t EXCEPT !.halted = no]
  BY <1>1, Zenon DEF Unheld
<1>3. w \in TimerRecord
  BY <1>2 DEF TimerRecord
<1>4. /\ w.mode = t.mode /\ w.div = t.div /\ w.ocr = t.ocr /\ w.pend = t.pend
      /\ w.act = t.act /\ w.halted = no /\ w.reset = t.reset /\ w.held = t.held
      /\ w.len = t.len /\ w.el = t.el /\ w.tov = t.tov /\ w.flags = t.flags
  BY <1>2, ZenonT(30) DEF TimerRecord
<1>5. QED  BY <1>1, <1>3, <1>4

Freed(c) == [c EXCEPT !.held = FALSE, !.on = (c.div # 0)]

LEMMA FreedIs ==
    ASSUME NEW c, IsView(c), NEW d, d = Freed(c)
    PROVE  /\ IsView(d)
           /\ d.held = FALSE /\ d.on = (c.div # 0) /\ d.strict = c.strict /\ d.mode = c.mode
           /\ d.div = c.div /\ d.ocr = c.ocr /\ d.next = c.next /\ d.count = c.count
           /\ d.flags = c.flags
<1>1. PICK no, goes : no = FALSE /\ goes = (c.div # 0)
  BY Zenon
<1>2. d = [c EXCEPT !.held = no, !.on = goes]
  BY <1>1, Zenon DEF Freed
<1>3. PICK b : b = [c EXCEPT !.held = no]
  OBVIOUS
<1>4. d = [b EXCEPT !.on = goes]
  BY <1>2, <1>3, ViewSwitchedInTurn, Zenon
<1>5. b = View(c.strict, c.mode, c.div, no, c.on, c.ocr, c.next, c.count, c.into, c.skips, c.flags)
  BY <1>3 DEF IsView, View
<1>6. d = View(c.strict, c.mode, c.div, no, goes, c.ocr, c.next, c.count, c.into, c.skips, c.flags)
  BY <1>4, <1>5 DEF View
<1>7. /\ IsView(d)
      /\ d.held = no /\ d.on = goes /\ d.strict = c.strict /\ d.mode = c.mode
      /\ d.div = c.div /\ d.ocr = c.ocr /\ d.next = c.next /\ d.count = c.count
      /\ d.flags = c.flags
  BY <1>6, ViewIs
<1>8. QED  BY <1>1, <1>7

LEMMA ReleasedIs ==
    ASSUME NEW c, NEW d, d = Freed(c)
    PROVE  /\ d.on => TM!Counter!Released(c) = TM!Counter!Goes(d, c.count, TRUE)
           /\ ~d.on => TM!Counter!Released(c) = {TM!Counter!At(d, 0, 0)}
<1>1. TM!Counter!Released(c) = IF d.on THEN TM!Counter!Goes(d, c.count, TRUE)
                               ELSE {TM!Counter!At(d, 0, 0)}
  BY Zenon DEF TM!Counter!Released, Freed
<1>2. QED  BY <1>1, Zenon

LEMMA ReleaseReleased ==
    ASSUME TimerOk, TM!Release, TimerInv(timer)', NEW c, c = TM!Seen, NEW x, x = TM!Seen'
    PROVE  TimerCounting' /\ c.held /\ x \in TM!Counter!Released(c)
<1>1. /\ TM!Instruction /\ part' = part /\ timer.halted /\ ~timer.reset
      /\ timer' = IF timer.div # 0
                  THEN TM!SetTcnt(TM!Reconfigure(Unheld(timer), TRUE), timer.held, FALSE)
                  ELSE Unheld(timer)
  BY DEF TM!Release, TM!Firmware, TM!Instruction, Unheld
<1>2. /\ timer \in TimerRecord /\ TM!WellFormed /\ TimerRuns(timer) /\ TimerFits(timer)
      /\ TimerTimed(timer) /\ TimerHalted(timer)
  BY DEF TimerOk, TimerInv, TimerCounting
<1>3. timer.tov = TM!Never /\ part.strict
  BY <1>1, <1>2 DEF TimerRuns, TimerHalted
<1>4. /\ IsView(c) /\ c.strict = part.strict /\ c.mode = timer.mode /\ c.div = timer.div
      /\ c.held = timer.halted /\ c.next = timer.ocr /\ c.flags = {}
      /\ c.count = timer.held /\ timer.flags = {}
  BY <1>1, ReadyIs
<1>5. c.ocr = IF timer.div = 0 THEN timer.ocr ELSE InUse(timer)
  <2>1. Idle(c, part.strict, timer.mode, timer.div, timer.halted,
             IF timer.div = 0 \/ timer.reset THEN timer.ocr ELSE InUse(timer), timer.ocr,
             IF timer.halted THEN timer.held ELSE 0, {})
    BY <1>1, <1>3, ReadyIs
  <2>2. QED  BY <1>1, <2>1 DEF Idle
<1>6. PICK q : q = Unheld(timer)
  OBVIOUS
<1>7. /\ q \in TimerRecord
      /\ q.mode = timer.mode /\ q.div = timer.div /\ q.ocr = timer.ocr /\ q.pend = timer.pend
      /\ q.act = timer.act /\ q.halted = FALSE /\ q.reset = timer.reset
      /\ q.el = timer.el /\ q.tov = timer.tov /\ q.flags = timer.flags
  BY <1>2, <1>6, UnheldFields
<1>8. PICK d : d = Freed(c)
  OBVIOUS
<1>9. /\ IsView(d)
      /\ d.held = FALSE /\ d.on = (c.div # 0) /\ d.strict = c.strict /\ d.mode = c.mode
      /\ d.div = c.div /\ d.ocr = c.ocr /\ d.next = c.next /\ d.count = c.count
      /\ d.flags = c.flags
  BY <1>4, <1>8, FreedIs
<1>10. c.held
  BY <1>1, <1>4, Zenon
<1>11. PICK w : w = timer'
  OBVIOUS
<1>12. PICK s, how, V, N : s = part.strict /\ how = timer.mode /\ V = InUse(timer) /\ N = timer.ocr
  OBVIOUS
<1>13. CASE timer.div = 0
  <2>1. w = q
    BY <1>1, <1>6, <1>11, <1>13
  <2>2. TimerHalted(w) /\ w.tov = TM!Never
    BY <1>3, <1>7, <2>1 DEF TimerHalted
  <2>3. /\ TimerCounting'
        /\ Idle(x, part.strict, w.mode, w.div, w.halted,
                IF w.div = 0 \/ w.reset THEN w.ocr ELSE InUse(w), w.ocr,
                IF w.halted THEN w.held ELSE 0, w.flags)
    BY <1>1, <1>11, <2>2, StoppedIs
  <2>4. Idle(x, s, how, 0, FALSE, N, N, 0, {})
    <3>1. w.div = 0 /\ (IF w.div = 0 \/ w.reset THEN w.ocr ELSE InUse(w)) = N /\ w.ocr = N
      BY <1>7, <1>12, <1>13, <2>1
    <3>2. (IF w.halted THEN w.held ELSE 0) = 0 /\ w.halted = FALSE
      BY <1>7, <2>1, Zenon
    <3>3. w.mode = how /\ w.flags = {}
      BY <1>4, <1>7, <1>12, <2>1
    <3>4. QED  BY <1>12, <2>3, <3>1, <3>2, <3>3
  <2>5. PICK y : y = TM!Counter!At(d, 0, 0)
    OBVIOUS
  <2>6. d.on = FALSE
    BY <1>4, <1>9, <1>13, Zenon
  <2>7. Idle(y, s, how, 0, FALSE, N, N, 0, {})
    <3>1. /\ IsView(y)
          /\ y.count = 0 /\ y.into = 0 /\ y.skips = {} /\ y.strict = d.strict /\ y.mode = d.mode
          /\ y.div = d.div /\ y.held = d.held /\ y.on = d.on /\ y.ocr = d.ocr /\ y.next = d.next
          /\ y.flags = d.flags
      BY <1>9, <2>5, ViewAt
    <3>2. d.strict = s /\ d.mode = how /\ d.div = 0 /\ d.ocr = N /\ d.next = N /\ d.flags = {}
      BY <1>4, <1>5, <1>9, <1>12, <1>13
    <3>3. d.held = FALSE
      BY <1>9
    <3>4. QED  BY <2>6, <3>1, <3>2, <3>3, Zenon DEF Idle
  <2>8. x = y
    BY <2>4, <2>7, OneIdle
  <2>9. x \in TM!Counter!Released(c)
    <3>1. TM!Counter!Released(c) = {TM!Counter!At(d, 0, 0)}
      BY <1>8, <2>6, ReleasedIs, Zenon
    <3>2. QED  BY <2>5, <2>8, <3>1
  <2>10. QED  BY <1>10, <2>3, <2>9
<1>14. CASE timer.div # 0
  <2>1. PICK yes, no : yes = TRUE /\ no = FALSE
    BY Zenon
  <2>2. PICK r : r = TM!Reconfigure(q, yes)
    OBVIOUS
  <2>3. w = TM!SetTcnt(r, timer.held, no)
    <3>1. w = TM!SetTcnt(TM!Reconfigure(q, TRUE), timer.held, FALSE)
      BY <1>1, <1>6, <1>11, <1>14
    <3>2. QED  BY <2>1, <2>2, <3>1, Zenon
  <2>4. Reconfigured(r, q, 0)
    <3>1. TimerTimed(q)
      BY <1>2, <1>7 DEF TimerTimed, TM!Timed
    <3>2. Startable(q)
      BY <1>1, <1>2, <1>4, <1>7, <1>14, <3>1 DEF Startable, TimerFits
    <3>3. Reconfigured(r, q, Began(q, yes))
      BY <1>2, <2>2, <3>2, ReconfiguredIs
    <3>4. Began(q, yes) = 0
      BY <2>1 DEF Began
    <3>5. QED  BY <3>3, <3>4
  <2>5. InUse(q) = V
    BY <1>7, <1>12 DEF InUse, TM!OcrEff, TM!Buffered
  <2>6. /\ Opened(r, 0, FALSE) /\ r \in TimerRecord
        /\ r.mode = how /\ r.div = timer.div /\ r.ocr = N /\ r.halted = FALSE
        /\ InUse(r) = V /\ r.top = TopIn(how, V) /\ r.len >= 2
    BY <1>7, <1>12, <2>4, <2>5 DEF Reconfigured
  <2>7. Active(d, s, how, timer.div, V, N, {})
    <3>1. d.on = TRUE
      BY <1>4, <1>9, <1>14, Zenon
    <3>2. d.strict = s /\ d.mode = how /\ d.div = timer.div /\ d.ocr = V /\ d.next = N /\ d.flags = {}
      BY <1>4, <1>5, <1>9, <1>12, <1>14
    <3>3. QED  BY <1>9, <3>1, <3>2, Zenon DEF Active
  <2>8. TM!Counter!Top(d) = r.top
    BY <2>6, <2>7, CounterSame DEF TM!Counter!Top, Active
  <2>9. TM!Counter!Released(c) = TM!Counter!Goes(d, timer.held, TRUE)
    <3>1. d.on
      BY <2>7, Zenon DEF Active
    <3>2. TM!Counter!Released(c) = TM!Counter!Goes(d, c.count, TRUE)
      BY <1>8, <3>1, ReleasedIs, Zenon
    <3>3. QED  BY <1>4, <3>2
  <2>10. timer.held \in TM!Values /\ timer.held \in Nat /\ r.top \in Nat
    BY <1>2, <2>6, TimerConstants DEF TimerRecord
  <2>11. CASE r.top = 0
    <3>1. w = r
      BY <2>3, <2>6, <2>11 DEF TM!SetTcnt
    <3>2. PICK free \in BOOLEAN : free = FALSE
      BY Zenon
    <3>3. Opened(w, 0, free) /\ V = InUse(w)
      BY <2>6, <3>1, <3>2, Zenon
    <3>4. /\ TimerCounting'
          /\ 0 < w.len /\ ~free =>
                Showing(x, part.strict, w.mode, w.div, V, w.ocr, 0, {}, UnitsReached(w.mode, w.div, V, 0))
      BY <1>1, <1>11, <3>3, PeriodIsSeen
    <3>5. 0 < w.len
      <4>1. r.len \in Nat
        BY <2>6 DEF TimerRecord
      <4>2. QED  BY <2>6, <3>1, <4>1
    <3>6. timer.div \in Nat \ {0}
      <4>1. timer.div \in Divs
        BY <1>2, <1>14 DEF TimerRecord
      <4>2. QED  BY <1>2, <4>1, TimerConstants
    <3>7. UnitsReached(how, timer.div, V, 0) = {}
      <4>1. V \in [Units -> Nat]
        <5>1. V \in [Units -> TM!Values]
          BY <1>2, <1>12, UseIsValue
        <5>2. QED  BY <1>2, <5>1, TimerConstants
      <4>2. QED  BY <3>6, <4>1, NothingReached
    <3>8. Showing(x, s, how, timer.div, V, N, 0, {}, {})
      BY <1>12, <2>6, <3>1, <3>2, <3>4, <3>5, <3>7
    <3>9. PICK y : y = [TM!Counter!At(d, 0, 0) EXCEPT !.skips = {}]
      OBVIOUS
    <3>10. Showing(y, s, how, timer.div, V, N, 0, {}, {})
      <4>1. PICK a \in Nat, e \in Nat : a = 0 /\ e = 0
        OBVIOUS
      <4>2. a \in 0 .. timer.div - 1 /\ e = a * timer.div + a /\ y = [TM!Counter!At(d, a, a) EXCEPT !.skips = {}]
        BY <3>6, <3>9, <4>1
      <4>3. Showing(y, s, how, timer.div, V, N, e, {}, {})
        BY <2>7, <3>6, <4>2, SkipsShow
      <4>4. QED  BY <4>1, <4>3
    <3>11. x = y
      BY <3>8, <3>10, OneShown
    <3>12. x \in TM!Counter!Goes(d, timer.held, yes)
      <4>1. ~(timer.held < TM!Counter!Top(d)) /\ ~(timer.held = TM!Counter!Top(d) /\ d.strict /\ timer.held # 0)
        BY <2>8, <2>10, <2>11
      <4>2. {} = IF yes /\ TM!Counter!Top(d) # 0 THEN TM!Counter!MatchedBefore(d, 1) ELSE {}
        BY <2>8, <2>11
      <4>3. x = [TM!Counter!At(d, 0, 0) EXCEPT
                    !.skips = IF yes /\ TM!Counter!Top(d) # 0 THEN TM!Counter!MatchedBefore(d, 1) ELSE {}]
        BY <3>9, <3>11, <4>2
      <4>4. QED  BY <4>1, <4>3, GoesBack
    <3>13. QED  BY <1>10, <2>1, <2>9, <3>4, <3>12
  <2>12. CASE r.top # 0
    <3>1. PICK free \in BOOLEAN : free = FALSE
      BY Zenon
    <3>2. timer' = TM!SetTcnt(r, timer.held, free)
      BY <1>11, <2>1, <2>3, <3>1
    <3>3. /\ TimerPeriod(r) /\ r.tov # TM!Never /\ r.div # 0 /\ ~r.halted /\ r.flags = {} /\ r.len >= 2
      BY <1>14, <2>6 DEF Opened
    <3>4. Active(d, part.strict, r.mode, r.div, InUse(r), r.ocr, {})
      BY <1>12, <2>6, <2>7
    <3>5. TimerCounting' /\ x \in TM!Counter!Goes(d, timer.held, part.strict /\ ~free)
      BY <1>1, <2>6, <2>10, <2>12, <3>2, <3>3, <3>4, SetShows
    <3>6. TM!Counter!Goes(d, timer.held, part.strict /\ ~free) = TM!Counter!Goes(d, timer.held, TRUE)
      <4>1. (part.strict /\ ~free) <=> TRUE
        BY <1>3, <3>1, Zenon
      <4>2. QED  BY <4>1, GoesSame
    <3>7. QED  BY <1>10, <2>9, <3>5, <3>6
  <2>13. QED  BY <2>11, <2>12
<1>15. QED  BY <1>13, <1>14
-----------------------------------------------------------------------------
(* avr_timer_write_ocr *)

\* The count and the cycles of the count that are left when whole periods of m
\* counts, len cycles, are taken away.
CounterRests(e, d, m, len) ==
    \E n \in Nat, k \in 0 .. d - 1 :
        /\ n = (e \div d) % m /\ k = e % d /\ n < m /\ len \in Nat \ {0}
        /\ e % len = n * d + k
        /\ e < len => n = e \div d /\ e % len = e
        /\ ~(e < len) => n # e \div d

LEMMA LateCount ==
    ASSUME NEW d \in Nat \ {0}, NEW m \in Nat \ {0}, NEW e \in Nat, NEW len, len = d * m
    PROVE  CounterRests(e, d, m, len)
<1>0. PICK n, k : n = (e \div d) % m /\ k = e % d
  OBVIOUS
<1>1. PICK q \in Nat : q = e \div d /\ k \in 0 .. d - 1 /\ e = q * d + k
  BY <1>0, Divides
<1>2. PICK p \in Nat : p = q \div m /\ q % m \in 0 .. m - 1 /\ q = p * m + (q % m)
  BY Divides
<1>3. n \in Nat /\ n < m /\ q = p * m + n
  BY <1>0, <1>1, <1>2
<1>4. PICK a \in Nat, r \in Nat : a = p * m /\ r = n * d
  BY <1>3, ProductIsNat
<1>5. len \in Nat \ {0}
  OBVIOUS
<1>6. a * d = p * len
  <2>1. (p * m) * d = p * (d * m)
    OBVIOUS
  <2>2. QED  BY <1>4, <2>1
<1>7. e = p * len + (r + k)
  <2>1. (a + n) * d = a * d + n * d
    BY <1>3, ProductIsNat
  <2>2. q = a + n
    BY <1>3, <1>4
  <2>3. PICK x \in Nat, y \in Nat : x = a * d /\ y = q * d
    BY ProductIsNat
  <2>4. y = x + r
    BY <1>4, <2>1, <2>2, <2>3
  <2>5. e = y + k
    BY <1>1, <2>3
  <2>6. x = p * len
    BY <1>6, <2>3
  <2>7. e = x + (r + k)
    <3>1. k \in Nat
      BY <1>1
    <3>2. QED  BY <2>4, <2>5, <3>1
  <2>8. QED  BY <2>6, <2>7
<1>8. r + k \in Nat /\ r + k < len
  <2>1. n + 1 <= m
    BY <1>3
  <2>2. (n + 1) * d <= m * d
    BY <1>3, <2>1, ProductGrows
  <2>3. (n + 1) * d = r + d
    BY <1>3, <1>4, OneMoreTimes
  <2>4. m * d = len
    OBVIOUS
  <2>5. r + d <= len
    BY <2>2, <2>3, <2>4
  <2>6. QED  BY <1>1, <1>4, <1>5, <2>5
<1>9. PICK z \in Nat : z = r + k
  BY <1>8
<1>10. (p * len + z) % len = z
  BY <1>5, <1>8, <1>9, RemainderIs
<1>11. e % len = n * d + k
  BY <1>4, <1>7, <1>9, <1>10
<1>12. ASSUME p # 0
       PROVE  ~(e < len) /\ n # q
  <2>1. 1 <= p
    BY <1>12
  <2>2. 1 * len <= p * len /\ 1 * m <= p * m
    BY <1>5, <2>1, ProductGrows
  <2>3. PICK b \in Nat : b = p * len
    BY <1>5, ProductIsNat
  <2>4. len <= b /\ m <= a
    BY <1>4, <1>5, <2>2, <2>3
  <2>5. e = b + z
    BY <1>7, <1>9, <2>3
  <2>6. ~(e < len)
    BY <1>5, <2>4, <2>5
  <2>7. q = a + n
    BY <1>3, <1>4
  <2>8. n # q
    BY <1>3, <2>4, <2>7
  <2>9. QED  BY <2>6, <2>8
<1>13. ASSUME p = 0
       PROVE  e < len /\ n = q /\ e % len = e
  <2>1. p * len = 0 /\ p * m = 0
    BY <1>5, <1>13
  <2>2. QED  BY <1>3, <1>7, <1>8, <1>9, <1>10, <2>1
<1>14. QED  BY <1>0, <1>1, <1>3, <1>5, <1>11, <1>12, <1>13 DEF CounterRests

\* A counter that looks for its matches anew shows the period that began where
\* its own did.
LEMMA RematchedShows ==
    ASSUME NEW s, NEW how, NEW d \in Nat \ {0}, NEW V \in [Units -> Nat], NEW N, NEW e \in Nat,
           NEW K, NEW c, Showing(c, s, how, d, V, N, e, K, {}), TopIn(how, V) \in Nat,
           NEW len, len = LengthIn(how, d, V), NEW w, w = TM!Counter!Rematched(c)
    PROVE  /\ e < len => Showing(w, s, how, d, V, N, e, {}, UnitsReached(how, d, V, e))
           /\ ~(e < len) =>
                Showing(w, s, how, d, V, N, e % len, {},
                        Ended(s, how, V) \cup UnitsReached(how, d, V, e % len))
<1>1. PICK top \in Nat, m \in Nat \ {0} : top = TopIn(how, V) /\ m = top + 1
  OBVIOUS
<1>2. Active(c, s, how, d, V, N, {})
  BY ShowingRuns
<1>3. /\ c.strict = s /\ c.mode = how /\ c.ocr = V /\ c.count = e \div d /\ c.into = e % d
  BY Zenon DEF Showing
<1>4. TM!Counter!Top(c) = top
  BY <1>1, <1>3, EndedIs
<1>6. len = d * m
  BY <1>1 DEF LengthIn
<1>7. PICK n \in Nat, k \in 0 .. d - 1 :
          /\ n = (e \div d) % m /\ k = e % d /\ n < m /\ len \in Nat \ {0}
          /\ e % len = n * d + k
          /\ e < len => n = e \div d /\ e % len = e
          /\ ~(e < len) => n # e \div d
  <2>1. CounterRests(e, d, m, len)
    BY <1>6, LateCount
  <2>2. QED  BY <2>1 DEF CounterRests
<1>8. PICK r : r = TM!Counter!Raised(TM!Counter!At(c, n, k),
                                     IF k = 0 THEN TM!Counter!MatchedBefore(c, n) ELSE {})
  OBVIOUS
<1>9. PICK at : at = e % len
  OBVIOUS
<1>10. Showing(r, s, how, d, V, N, at, {}, UnitsReached(how, d, V, at))
  <2>1. n <= TopIn(how, V) /\ at = n * d + k
    BY <1>1, <1>7, <1>9
  <2>2. PICK f : f = {}
    OBVIOUS
  <2>3. Showing(r, s, how, d, V, N, at, {}, f \cup UnitsReached(how, d, V, at))
    BY <1>2, <1>7, <1>8, <2>1, <2>2, GoesShow
  <2>4. f \cup UnitsReached(how, d, V, at) = UnitsReached(how, d, V, at)
    BY <2>2
  <2>5. QED  BY <2>3, <2>4
<1>11. w = IF n = c.count THEN r ELSE TM!Counter!Raised(r, TM!Counter!AtTop(r))
  <2>1. n = c.count % (TM!Counter!Top(c) + 1) /\ k = c.into
    BY <1>1, <1>3, <1>4, <1>7
  <2>2. PICK g1 : g1 = c.count % (TM!Counter!Top(c) + 1)
    OBVIOUS
  <2>3. w = LET b == TM!Counter!Raised(TM!Counter!At(c, g1, c.into),
                         IF c.into = 0 THEN TM!Counter!MatchedBefore(c, g1) ELSE {})
            IN IF g1 = c.count THEN b ELSE TM!Counter!Raised(b, TM!Counter!AtTop(b))
    BY <2>2, Zenon DEF TM!Counter!Rematched
  <2>4. g1 = n /\ c.into = k
    BY <2>1, <2>2
  <2>5. QED  BY <1>8, <2>3, <2>4, Zenon
<1>12. CASE e < len
  BY <1>3, <1>7, <1>9, <1>10, <1>11, <1>12
<1>13. CASE ~(e < len)
  <2>1. PICK more : more = Ended(s, how, V)
    OBVIOUS
  <2>2. IsView(r) /\ r.strict = s /\ r.mode = how /\ r.ocr = V
    BY <1>10, Zenon DEF Showing
  <2>3. TM!Counter!AtTop(r) = more
    BY <2>1, <2>2, EndedIs
  <2>4. w = TM!Counter!Raised(r, more)
    BY <1>3, <1>7, <1>11, <1>13, <2>3
  <2>5. /\ IsView(w)
        /\ w.flags = r.flags \cup more /\ w.strict = r.strict /\ w.mode = r.mode /\ w.div = r.div
        /\ w.held = r.held /\ w.on = r.on /\ w.ocr = r.ocr /\ w.next = r.next /\ w.count = r.count
        /\ w.into = r.into /\ w.skips = r.skips
    BY <2>2, <2>4, ViewRaised
  <2>6. PICK hits : hits = UnitsReached(how, d, V, at)
    OBVIOUS
  <2>7. /\ r.strict = s /\ r.mode = how /\ r.div = d /\ r.held = FALSE /\ r.on = TRUE
        /\ r.ocr = V /\ r.next = N /\ r.count = at \div d /\ r.into = at % d /\ r.skips = {}
        /\ r.flags = hits
    BY <1>10, <2>6, Zenon DEF Showing
  <2>8. w.flags = more \cup hits
    BY <2>5, <2>7
  <2>9. Showing(w, s, how, d, V, N, at, {}, more \cup hits)
    BY <2>5, <2>7, <2>8, Zenon DEF Showing
  <2>10. QED  BY <1>9, <1>13, <2>1, <2>6, <2>9
<1>14. QED  BY <1>12, <1>13

NextAt(c, u, v) == [c EXCEPT !.next[u] = v]
InForce(c) == [c EXCEPT !.ocr = c.next]

\* w is c with other compare values.
WithCompare(w, c, V, N) ==
    /\ IsView(w)
    /\ w.ocr = V /\ w.next = N /\ w.strict = c.strict /\ w.mode = c.mode /\ w.div = c.div
    /\ w.held = c.held /\ w.on = c.on /\ w.count = c.count /\ w.into = c.into
    /\ w.skips = c.skips /\ w.flags = c.flags

LEMMA NextAtIs ==
    ASSUME NEW c, IsView(c), NEW u, NEW v
    PROVE  /\ WithCompare(NextAt(c, u, v), c, c.ocr, [c.next EXCEPT ![u] = v])
           /\ WithCompare(InForce(NextAt(c, u, v)), c, [c.next EXCEPT ![u] = v],
                          [c.next EXCEPT ![u] = v])
<1>0. PICK w, d : w = NextAt(c, u, v) /\ d = InForce(w)
  OBVIOUS
<1>1. w = [c EXCEPT !.next[u] = v] /\ d = [w EXCEPT !.ocr = w.next]
  BY <1>0 DEF NextAt, InForce
<1>2. PICK N : N = [c.next EXCEPT ![u] = v]
  OBVIOUS
<1>3. w = View(c.strict, c.mode, c.div, c.held, c.on, c.ocr, N, c.count, c.into, c.skips, c.flags)
  BY <1>1, <1>2 DEF IsView, View
<1>4. d = View(c.strict, c.mode, c.div, c.held, c.on, N, N, c.count, c.into, c.skips, c.flags)
  <2>1. w.next = N
    BY <1>3 DEF View
  <2>2. d = [w EXCEPT !.ocr = N]
    BY <1>1, <2>1
  <2>3. QED  BY <1>3, <2>2 DEF View
<1>5. /\ IsView(w)
      /\ w.next = N /\ w.strict = c.strict /\ w.mode = c.mode /\ w.div = c.div /\ w.held = c.held
      /\ w.on = c.on /\ w.ocr = c.ocr /\ w.count = c.count /\ w.into = c.into /\ w.skips = c.skips
      /\ w.flags = c.flags
  BY <1>3, ViewIs
<1>6. /\ IsView(d)
      /\ d.ocr = N /\ d.next = N /\ d.strict = c.strict /\ d.mode = c.mode /\ d.div = c.div
      /\ d.held = c.held
      /\ d.on = c.on /\ d.count = c.count /\ d.into = c.into /\ d.skips = c.skips
      /\ d.flags = c.flags
  BY <1>4, ViewIs
<1>7. QED  BY <1>0, <1>2, <1>5, <1>6, Zenon DEF WithCompare

LEMMA ComparedIs ==
    ASSUME NEW c, NEW u, NEW v, NEW w, w = NextAt(c, u, v), NEW d, d = InForce(w)
    PROVE  /\ TM!Counter!Buffered(c) /\ c.on /\ ~c.held => w \in TM!Counter!Compared(c, u, v)
           /\ TM!Counter!Buffered(c) /\ ~c.on /\ c.held =>
                w \in TM!Counter!Compared(c, u, v) /\ d \in TM!Counter!Compared(c, u, v)
           /\ ~TM!Counter!Buffered(c) /\ ~c.on => d \in TM!Counter!Compared(c, u, v)
           /\ ~TM!Counter!Buffered(c) /\ c.on /\ ~(d.ocr = c.ocr /\ c.mode \in {"fast", "fastA"}) =>
                TM!Counter!Rematched(d) \in TM!Counter!Compared(c, u, v)
<1>2. TM!Counter!Compared(c, u, v) =
          CASE TM!Counter!Buffered(c) /\ c.on -> {w}
            [] TM!Counter!Buffered(c) /\ c.held -> {w, d}
            [] ~TM!Counter!Buffered(c) /\ c.on /\ d.ocr = c.ocr /\ c.mode \in {"fast", "fastA"} -> {w}
            [] ~TM!Counter!Buffered(c) /\ c.on /\ ~(d.ocr = c.ocr /\ c.mode \in {"fast", "fastA"}) ->
                    {TM!Counter!Rematched(d)}
            [] OTHER -> {d}
  BY Zenon DEF TM!Counter!Compared, NextAt, InForce
<1>3. CASE TM!Counter!Buffered(c) /\ c.on /\ ~c.held
  <2>1. TM!Counter!Compared(c, u, v) = {w}
    BY <1>2, <1>3
  <2>2. QED  BY <1>3, <2>1
<1>4. CASE TM!Counter!Buffered(c) /\ ~c.on /\ c.held
  <2>1. TM!Counter!Compared(c, u, v) = {w, d}
    BY <1>2, <1>4
  <2>2. QED  BY <1>4, <2>1
<1>5. CASE ~TM!Counter!Buffered(c) /\ ~c.on
  <2>1. TM!Counter!Compared(c, u, v) = {d}
    BY <1>2, <1>5
  <2>2. QED  BY <1>5, <2>1
<1>6. CASE ~TM!Counter!Buffered(c) /\ c.on /\ ~(d.ocr = c.ocr /\ c.mode \in {"fast", "fastA"})
  <2>1. TM!Counter!Compared(c, u, v) = {TM!Counter!Rematched(d)}
    BY <1>2, <1>6
  <2>2. QED  BY <1>6, <2>1
<1>7. QED  BY <1>3, <1>4, <1>5, <1>6

\* A compare value is written, and waits or not for the next period.
OcrIsSet(q, t, u, v) ==
    /\ q \in TimerRecord
    /\ q.mode = t.mode /\ q.div = t.div /\ q.ocr = [t.ocr EXCEPT ![u] = v]
    /\ q.halted = t.halted /\ q.reset = t.reset /\ q.held = t.held /\ q.flags = t.flags
    /\ q.top = t.top /\ q.len = t.len /\ q.cc = t.cc /\ q.el = t.el /\ q.tov = t.tov
    /\ q.comp = t.comp

SetOcr(t, u, v) == [t EXCEPT !.ocr[u] = v]
Wait(q, t, u) ==
    [q EXCEPT !.pend = @ \cup {u}, !.act[u] = IF u \in t.pend THEN @ ELSE t.ocr[u]]

LEMMA SetOcrIs ==
    ASSUME NEW t \in TimerRecord, NEW u \in Units, NEW v \in TM!Values, NEW q, q = SetOcr(t, u, v)
    PROVE  OcrIsSet(q, t, u, v) /\ q.pend = t.pend /\ q.act = t.act
<1>1. PICK V : V = [t.ocr EXCEPT ![u] = v]
  OBVIOUS
<1>2. t.ocr \in [Units -> TM!Values]
  BY DEF TimerRecord
<1>3. V \in [Units -> TM!Values]
  BY <1>1, <1>2
<1>4. q = [t EXCEPT !.ocr = V]
  BY <1>1 DEF SetOcr
<1>5. q \in TimerRecord
  BY <1>3, <1>4 DEF TimerRecord
<1>6. /\ q.mode = t.mode /\ q.div = t.div /\ q.ocr = V
      /\ q.halted = t.halted /\ q.reset = t.reset /\ q.held = t.held /\ q.flags = t.flags
      /\ q.top = t.top /\ q.len = t.len /\ q.cc = t.cc /\ q.el = t.el /\ q.tov = t.tov
      /\ q.comp = t.comp /\ q.pend = t.pend /\ q.act = t.act
  BY <1>4, ZenonT(30) DEF TimerRecord
<1>7. QED  BY <1>1, <1>5, <1>6 DEF OcrIsSet

LEMMA WaitIs ==
    ASSUME NEW t \in TimerRecord, NEW u \in Units, NEW v \in TM!Values,
           NEW q, OcrIsSet(q, t, u, v), q.pend = t.pend, q.act = t.act,
           NEW w, w = Wait(q, t, u)
    PROVE  /\ OcrIsSet(w, t, u, v) /\ w.pend = t.pend \cup {u}
           /\ w.act = [t.act EXCEPT ![u] = IF u \in t.pend THEN t.act[u] ELSE t.ocr[u]]
<1>1. q \in TimerRecord
  BY DEF OcrIsSet
<1>2. PICK P, old : P = t.pend \cup {u} /\ old = IF u \in t.pend THEN t.act[u] ELSE t.ocr[u]
  OBVIOUS
<1>3. PICK A : A = [t.act EXCEPT ![u] = old]
  OBVIOUS
<1>4. w = [q EXCEPT !.pend = P, !.act = A]
  <2>1. [q EXCEPT !.pend = @ \cup {u}, !.act[u] = IF u \in t.pend THEN @ ELSE t.ocr[u]]
            = [q EXCEPT !.pend = q.pend \cup {u},
                        !.act = [q.act EXCEPT ![u] = IF u \in t.pend THEN q.act[u] ELSE t.ocr[u]]]
    BY <1>1 DEF TimerRecord
  <2>2. QED  BY <1>2, <1>3, <2>1, Zenon DEF Wait
<1>5. P \in SUBSET Units /\ A \in [Units -> TM!Values]
  BY <1>2, <1>3 DEF TimerRecord
<1>6. w \in TimerRecord
  BY <1>1, <1>4, <1>5 DEF TimerRecord
<1>7. /\ w.mode = q.mode /\ w.div = q.div /\ w.ocr = q.ocr
      /\ w.halted = q.halted /\ w.reset = q.reset /\ w.held = q.held /\ w.flags = q.flags
      /\ w.top = q.top /\ w.len = q.len /\ w.cc = q.cc /\ w.el = q.el /\ w.tov = q.tov
      /\ w.comp = q.comp /\ w.pend = P /\ w.act = A
  BY <1>1, <1>4, ZenonT(30) DEF TimerRecord
<1>8. /\ q.mode = t.mode /\ q.div = t.div /\ q.ocr = [t.ocr EXCEPT ![u] = v]
      /\ q.halted = t.halted /\ q.reset = t.reset /\ q.held = t.held /\ q.flags = t.flags
      /\ q.top = t.top /\ q.len = t.len /\ q.cc = t.cc /\ q.el = t.el /\ q.tov = t.tov
      /\ q.comp = t.comp
  BY DEF OcrIsSet
<1>9. OcrIsSet(w, t, u, v)
  BY <1>6, <1>7, <1>8 DEF OcrIsSet
<1>10. QED  BY <1>2, <1>3, <1>7, <1>9

LEMMA OcrWaits ==
    ASSUME TimerOk, TM!Firmware, TimerInv(timer)', part' = part, NEW u \in Units,
           NEW v \in TM!Values, NEW w, w = timer', OcrIsSet(w, timer, u, v),
           w.pend = timer.pend \cup {u},
           w.act = [timer.act EXCEPT ![u] = IF u \in timer.pend THEN timer.act[u] ELSE timer.ocr[u]],
           TM!Buffered(timer), timer.len # 0,
           NEW c, c = TM!Seen, NEW x, x = TM!Seen', NEW y, y = NextAt(c, u, v)
    PROVE  /\ TimerCounting' /\ x = y /\ TM!Counter!Buffered(c)
           /\ \/ c.on /\ ~c.held
              \/ ~c.on /\ c.held
<1>1. /\ timer \in TimerRecord /\ TM!WellFormed /\ TimerRuns(timer) /\ TimerFits(timer)
      /\ TimerPeriod(timer) /\ TimerSkips(timer) /\ TimerHalted(timer)
  BY DEF TimerOk, TimerInv, TimerCounting
<1>2. TM!Instruction /\ ~timer.reset /\ part.strict /\ timer.mode \in {"fast", "fastA"} /\ timer.div # 0
  BY <1>1 DEF TM!Firmware, TM!Buffered, TimerFits
<1>3. PICK N : N = [timer.ocr EXCEPT ![u] = v]
  OBVIOUS
<1>4. /\ w \in TimerRecord
      /\ w.mode = timer.mode /\ w.div = timer.div /\ w.ocr = N
      /\ w.halted = timer.halted /\ w.reset = timer.reset /\ w.held = timer.held
      /\ w.flags = timer.flags
      /\ w.top = timer.top /\ w.len = timer.len /\ w.cc = timer.cc /\ w.el = timer.el
      /\ w.tov = timer.tov /\ w.comp = timer.comp
  BY <1>3 DEF OcrIsSet
<1>5. InUse(w) = InUse(timer)
  <2>1. TM!Buffered(w)
    BY <1>4 DEF TM!Buffered
  <2>2. ASSUME NEW z \in Units
        PROVE  TM!OcrEff(w, z) = TM!OcrEff(timer, z)
    <3>1. timer.act \in [Units -> TM!Values] /\ timer.ocr \in [Units -> TM!Values]
      BY <1>1 DEF TimerRecord
    <3>2. CASE z = u
      <4>1. w.act[z] = IF u \in timer.pend THEN timer.act[u] ELSE timer.ocr[u]
        BY <3>1, <3>2
      <4>2. z \in w.pend
        BY <3>2
      <4>3. QED  BY <2>1, <3>2, <4>1, <4>2 DEF TM!OcrEff
    <3>3. CASE z # u
      <4>1. w.act[z] = timer.act[z] /\ w.ocr[z] = timer.ocr[z]
        BY <1>3, <1>4, <3>1, <3>3
      <4>2. z \in w.pend <=> z \in timer.pend
        BY <3>3
      <4>3. QED  BY <2>1, <4>1, <4>2 DEF TM!OcrEff
    <3>4. QED  BY <3>2, <3>3
  <2>3. QED  BY <2>2 DEF InUse
<1>6. /\ IsView(c) /\ c.strict = part.strict /\ c.mode = timer.mode /\ c.div = timer.div
      /\ c.held = timer.halted /\ c.next = timer.ocr /\ c.flags = {}
      /\ timer.flags = {} /\ DueUnits(timer) = {}
  BY <1>2, ReadyIs
<1>7. /\ IsView(y) /\ y.next = N /\ y.ocr = c.ocr
      /\ y.strict = c.strict /\ y.mode = c.mode /\ y.div = c.div /\ y.held = c.held
      /\ y.on = c.on /\ y.count = c.count /\ y.into = c.into /\ y.skips = c.skips
      /\ y.flags = c.flags
  <2>1. WithCompare(y, c, c.ocr, [c.next EXCEPT ![u] = v])
    BY <1>6, NextAtIs
  <2>2. [c.next EXCEPT ![u] = v] = N
    BY <1>3, <1>6
  <2>3. WithCompare(y, c, c.ocr, N)
    BY <2>1, <2>2
  <2>4. QED  BY <2>3, Zenon DEF WithCompare
<1>8. TM!Counter!Buffered(c)
  BY <1>2, <1>6 DEF TM!Counter!Buffered
<1>9. TimerHalted(w)
  BY <1>1, <1>4 DEF TimerHalted
<1>10. CASE timer.tov # TM!Never
  <2>1. /\ c.held = FALSE /\ c.on = TRUE
        /\ Showing(c, part.strict, timer.mode, timer.div, InUse(timer), timer.ocr, timer.el,
                   SkipsOf(timer), {})
    BY <1>10, RunningIs
  <2>2. Counting(w)
    <3>1. TimerPeriod(w)
      BY <1>1, <1>4, <1>5 DEF TimerPeriod
    <3>2. TimerSkips(w)
      BY <1>1, <1>4 DEF TimerSkips
    <3>3. QED  BY <1>9, <3>1, <3>2 DEF Counting
  <2>3. w.tov # TM!Never /\ w.tov > 0
    <3>1. TimerBefore
      BY <1>2, <1>10, ReadyIs
    <3>2. QED  BY <1>4, <3>1 DEF TimerBefore
  <2>4. /\ TimerCounting'
        /\ Showing(x, part.strict, w.mode, w.div, InUse(w), w.ocr, w.el, SkipsOf(w),
                   w.flags \cup DueUnits(w))
    BY <2>2, <2>3, BeforeIs
  <2>5. SkipsOf(w) = SkipsOf(timer) /\ DueUnits(w) = {} /\ w.flags \cup DueUnits(w) = {}
    <3>1. DueUnits(w) = DueUnits(timer)
      BY <1>4 DEF DueUnits
    <3>2. SkipsOf(w) = SkipsOf(timer)
      BY <1>4 DEF SkipsOf
    <3>3. QED  BY <1>4, <1>6, <3>1, <3>2
  <2>6. PICK s, how, d, V, e, K : /\ s = part.strict /\ how = timer.mode /\ d = timer.div
                                  /\ V = InUse(timer) /\ e = timer.el /\ K = SkipsOf(timer)
    OBVIOUS
  <2>7. Showing(x, s, how, d, V, N, e, K, {})
    BY <1>4, <1>5, <2>4, <2>5, <2>6
  <2>8. Showing(c, s, how, d, V, timer.ocr, e, K, {})
    BY <2>1, <2>6
  <2>9. Showing(y, s, how, d, V, N, e, K, {})
    BY <1>7, <2>8, Zenon DEF Showing
  <2>10. x = y
    BY <2>7, <2>9, OneShown
  <2>11. c.on /\ ~c.held
    BY <2>1, Zenon
  <2>12. QED  BY <1>8, <2>4, <2>10, <2>11
<1>11. CASE timer.tov = TM!Never
  <2>1. timer.halted
    BY <1>1, <1>2, <1>11 DEF TimerRuns
  <2>2. Idle(c, part.strict, timer.mode, timer.div, timer.halted,
             IF timer.div = 0 \/ timer.reset THEN timer.ocr ELSE InUse(timer), timer.ocr,
             IF timer.halted THEN timer.held ELSE 0, {})
    BY <1>2, <1>11, ReadyIs
  <2>3. /\ TimerCounting'
        /\ Idle(x, part.strict, w.mode, w.div, w.halted,
                IF w.div = 0 \/ w.reset THEN w.ocr ELSE InUse(w), w.ocr,
                IF w.halted THEN w.held ELSE 0, w.flags)
    BY <1>4, <1>9, <1>11, StoppedIs
  <2>4. PICK s, how, d, h, V, n : /\ s = part.strict /\ how = timer.mode /\ d = timer.div
                                  /\ h = timer.halted /\ V = InUse(timer) /\ n = timer.held
    OBVIOUS
  <2>5. Idle(x, s, how, d, h, V, N, n, {})
    <3>1. (IF w.div = 0 \/ w.reset THEN w.ocr ELSE InUse(w)) = V
      BY <1>2, <1>4, <1>5, <2>4
    <3>2. (IF w.halted THEN w.held ELSE 0) = n
      BY <1>4, <2>1, <2>4
    <3>3. w.mode = how /\ w.div = d /\ w.halted = h /\ w.ocr = N /\ w.flags = {}
      BY <1>4, <1>6, <2>4
    <3>4. QED  BY <2>3, <2>4, <3>1, <3>2, <3>3
  <2>6. Idle(c, s, how, d, h, V, timer.ocr, n, {})
    <3>1. (IF timer.div = 0 \/ timer.reset THEN timer.ocr ELSE InUse(timer)) = V
      BY <1>2, <2>4
    <3>2. (IF timer.halted THEN timer.held ELSE 0) = n
      BY <2>1, <2>4
    <3>3. QED  BY <2>2, <2>4, <3>1, <3>2
  <2>7. Idle(y, s, how, d, h, V, N, n, {})
    BY <1>7, <2>6, Zenon DEF Idle
  <2>8. x = y
    BY <2>5, <2>7, OneIdle
  <2>9. ~c.on /\ c.held
    <3>1. c.on = FALSE /\ c.held = h
      BY <2>6, Zenon DEF Idle
    <3>2. QED  BY <2>1, <2>4, <3>1, Zenon
  <2>10. QED  BY <1>8, <2>3, <2>8, <2>9
<1>12. QED  BY <1>10, <1>11

AllRegisters(w, q) ==
    /\ w.mode = q.mode /\ w.div = q.div /\ w.ocr = q.ocr /\ w.pend = q.pend /\ w.act = q.act
    /\ w.halted = q.halted /\ w.reset = q.reset /\ w.held = q.held /\ w.flags = q.flags

\* A stopped timer shows the compare value at once.
LEMMA OcrStopped ==
    ASSUME TimerOk, TM!Firmware, TimerInv(timer)', part' = part, NEW u \in Units,
           NEW v \in TM!Values, NEW w, w = timer', NEW q, OcrIsSet(q, timer, u, v),
           q.pend = timer.pend, q.act = timer.act, timer.tov = TM!Never, w.tov = TM!Never,
           ~(TM!Buffered(timer) /\ timer.len # 0),
           AllRegisters(w, q),
           NEW c, c = TM!Seen, NEW x, x = TM!Seen', NEW y, y = InForce(NextAt(c, u, v))
    PROVE  /\ TimerCounting' /\ x = y /\ ~c.on
           /\ c.held \/ ~TM!Counter!Buffered(c)
<1>1. /\ timer \in TimerRecord /\ TM!WellFormed /\ TimerRuns(timer) /\ TimerHalted(timer)
  BY DEF TimerOk, TimerInv, TimerCounting
<1>2. TM!Instruction /\ ~timer.reset
  BY DEF TM!Firmware
<1>3. PICK N : N = [timer.ocr EXCEPT ![u] = v]
  OBVIOUS
<1>4. /\ w.mode = timer.mode /\ w.div = timer.div /\ w.ocr = N
      /\ w.halted = timer.halted /\ w.reset = timer.reset /\ w.held = timer.held
      /\ w.flags = timer.flags /\ w.pend = timer.pend /\ w.act = timer.act
  BY <1>3 DEF OcrIsSet, AllRegisters
<1>5. /\ IsView(c) /\ c.strict = part.strict /\ c.mode = timer.mode /\ c.div = timer.div
      /\ c.held = timer.halted /\ c.next = timer.ocr /\ c.flags = {}
      /\ timer.flags = {}
  BY <1>2, ReadyIs
<1>6. timer.div # 0 => timer.halted
  BY <1>1, <1>2 DEF TimerRuns
<1>7. timer.div # 0 /\ TM!Buffered(timer) => timer.pend = {}
  BY <1>1, <1>6 DEF TimerHalted
<1>8. TimerHalted(w)
  BY <1>1, <1>4, <1>7 DEF TimerHalted, TM!Buffered
<1>9. timer.div # 0 => InUse(w) = N
  <2>1. SUFFICES ASSUME timer.div # 0
                 PROVE  InUse(w) = N
    OBVIOUS
  <2>2. \A z \in Units : TM!OcrEff(w, z) = N[z]
    BY <1>4, <1>7, <2>1 DEF TM!OcrEff, TM!Buffered
  <2>3. N = [z \in Units |-> N[z]]
    BY <1>1, <1>3 DEF TimerRecord
  <2>4. QED  BY <2>2, <2>3 DEF InUse
<1>10. /\ TimerCounting'
       /\ Idle(x, part.strict, w.mode, w.div, w.halted,
               IF w.div = 0 \/ w.reset THEN w.ocr ELSE InUse(w), w.ocr,
               IF w.halted THEN w.held ELSE 0, w.flags)
  BY <1>8, StoppedIs
<1>11. Idle(c, part.strict, timer.mode, timer.div, timer.halted,
             IF timer.div = 0 \/ timer.reset THEN timer.ocr ELSE InUse(timer), timer.ocr,
             IF timer.halted THEN timer.held ELSE 0, {})
  BY <1>2, ReadyIs
<1>12. PICK s, how, d, h, V, n :
           /\ s = part.strict /\ how = timer.mode /\ d = timer.div /\ h = timer.halted
           /\ V = IF timer.div = 0 \/ timer.reset THEN timer.ocr ELSE InUse(timer)
           /\ n = IF timer.halted THEN timer.held ELSE 0
  OBVIOUS
<1>13. Idle(x, s, how, d, h, N, N, n, {})
  <2>1. (IF w.div = 0 \/ w.reset THEN w.ocr ELSE InUse(w)) = N
    BY <1>2, <1>4, <1>9
  <2>2. (IF w.halted THEN w.held ELSE 0) = n
    BY <1>4, <1>12
  <2>3. w.mode = how /\ w.div = d /\ w.halted = h /\ w.ocr = N /\ w.flags = {}
    BY <1>4, <1>5, <1>12
  <2>4. QED  BY <1>10, <1>12, <2>1, <2>2, <2>3
<1>14. Idle(c, s, how, d, h, V, timer.ocr, n, {})
  BY <1>11, <1>12
<1>15. Idle(y, s, how, d, h, N, N, n, {})
  <2>1. WithCompare(y, c, [c.next EXCEPT ![u] = v], [c.next EXCEPT ![u] = v])
    BY <1>5, NextAtIs
  <2>2. [c.next EXCEPT ![u] = v] = N
    BY <1>3, <1>5
  <2>3. WithCompare(y, c, N, N)
    BY <2>1, <2>2
  <2>4. QED  BY <1>14, <2>3, Zenon DEF Idle, WithCompare
<1>16. x = y
  BY <1>13, <1>15, OneIdle
<1>17. ~c.on
  <2>1. c.on = FALSE
    BY <1>14, Zenon DEF Idle
  <2>2. QED  BY <2>1, Zenon
<1>18. c.held \/ ~TM!Counter!Buffered(c)
  <2>1. CASE timer.div = 0
    BY <1>5, <2>1 DEF TM!Counter!Buffered
  <2>2. CASE timer.div # 0
    <3>1. c.held
      BY <1>5, <1>6, <2>2, Zenon
    <3>2. QED  BY <3>1
  <2>3. QED  BY <2>1, <2>2
<1>19. QED  BY <1>10, <1>16, <1>17, <1>18

LEMMA RestOfPeriod ==
    ASSUME NEW len \in Nat \ {0}, NEW e \in Nat, ~(e < len), NEW z, z = e - len
    PROVE  z \in Nat /\ z % len = e % len
<1>1. z \in Nat
  OBVIOUS
<1>2. PICK q \in Nat, r \in Nat : r = z % len /\ r < len /\ z = q * len + r
  <2>1. z \div len \in Nat /\ z % len \in 0 .. len - 1 /\ z = (z \div len) * len + (z % len)
    BY <1>1, Divides
  <2>2. QED  BY <2>1
<1>3. (q + 1) * len = q * len + len
  BY OneMoreTimes
<1>4. PICK p \in Nat, a \in Nat : p = q + 1 /\ a = q * len
  BY ProductIsNat
<1>5. p * len = a + len
  BY <1>3, <1>4
<1>6. e = p * len + r
  BY <1>2, <1>4, <1>5
<1>7. (p * len + r) % len = r
  BY <1>2, RemainderIs
<1>8. QED  BY <1>1, <1>2, <1>6, <1>7

\* The period goes on from where it began, with other matches.
LEMMA OcrRematches ==
    ASSUME TimerOk, TM!Firmware, TimerInv(timer)', part' = part, NEW u \in Units,
           NEW v \in TM!Values, NEW q, OcrIsSet(q, timer, u, v),
           q.pend = timer.pend, q.act = timer.act, TM!Timed(q), timer.tov # TM!Never,
           ~(TM!Buffered(timer) /\ timer.len # 0), timer' = TM!Reconfigure(q, FALSE),
           ~(timer.mode \in {"fast", "fastA"} /\ timer.ocr[u] = v),
           NEW c, c = TM!Seen, NEW x, x = TM!Seen', NEW d, d = InForce(NextAt(c, u, v))
    PROVE  /\ TimerCounting' /\ x = TM!Counter!Rematched(d)
           /\ ~TM!Counter!Buffered(c) /\ c.on
           /\ ~(d.ocr = c.ocr /\ c.mode \in {"fast", "fastA"})
<1>1. /\ timer \in TimerRecord /\ TimerPeriod(timer) /\ timer.div # 0 /\ ~timer.halted
      /\ timer.flags = {} /\ timer.len >= 2 /\ ~timer.reset
      /\ Active(c, part.strict, timer.mode, timer.div, InUse(timer), timer.ocr, {})
      /\ c.on = TRUE
      /\ Showing(c, part.strict, timer.mode, timer.div, InUse(timer), timer.ocr, timer.el,
                 SkipsOf(timer), {})
  BY RunningIs
<1>2. TM!WellFormed /\ TimerFits(timer) /\ TimerTimed(timer)
  BY DEF TimerOk, TimerInv
<1>3. ~TM!Buffered(timer)
  BY <1>1
<1>4. PICK N : N = [timer.ocr EXCEPT ![u] = v]
  OBVIOUS
<1>5. /\ q \in TimerRecord
      /\ q.mode = timer.mode /\ q.div = timer.div /\ q.ocr = N
      /\ q.halted = timer.halted /\ q.reset = timer.reset /\ q.flags = timer.flags
      /\ q.el = timer.el
  BY <1>4 DEF OcrIsSet
<1>6. InUse(timer) = timer.ocr /\ InUse(q) = N
  <2>1. \A z \in Units : TM!OcrEff(timer, z) = timer.ocr[z] /\ TM!OcrEff(q, z) = N[z]
    BY <1>3, <1>5 DEF TM!OcrEff, TM!Buffered
  <2>2. timer.ocr = [z \in Units |-> timer.ocr[z]]
    BY <1>1 DEF TimerRecord
  <2>3. N = [z \in Units |-> N[z]]
    BY <1>1, <1>4 DEF TimerRecord
  <2>4. QED  BY <2>1, <2>2, <2>3 DEF InUse
<1>7. Startable(q)
  <2>1. TimerTimed(q)
    BY <1>1, <1>2, <1>5 DEF TimerTimed
  <2>2. QED  BY <1>1, <1>2, <1>5, <2>1 DEF Startable, TimerFits
<1>8. PICK no \in BOOLEAN : no = FALSE
  BY Zenon
<1>9. PICK w : w = timer'
  OBVIOUS
<1>27. PICK e \in Nat : e = timer.el
  BY <1>1 DEF TimerRecord
<1>10. Reconfigured(w, q, e)
  <2>1. w = TM!Reconfigure(q, no)
    BY <1>8, <1>9
  <2>2. Reconfigured(w, q, Began(q, no))
    BY <1>2, <1>7, <2>1, ReconfiguredIs
  <2>3. Began(q, no) = e
    BY <1>5, <1>8, <1>27 DEF Began
  <2>4. QED  BY <2>2, <2>3
<1>11. PICK s, how, t : s = part.strict /\ how = timer.mode /\ t = timer.div
  OBVIOUS
<1>12. /\ Opened(w, e, FALSE) /\ w \in TimerRecord /\ w.mode = how /\ w.div = t /\ w.ocr = N
       /\ InUse(w) = N /\ w.top = TopIn(how, N) /\ w.len = LengthIn(how, t, N) /\ w.len >= 2
  BY <1>5, <1>6, <1>10, <1>11 DEF Reconfigured
<1>13. t \in Nat \ {0} /\ N \in [Units -> Nat] /\ TopIn(how, N) \in Nat /\ w.len \in Nat \ {0}
  <2>1. w.div # 0
    BY <1>1, <1>11, <1>12
  <2>2. QED  BY <1>2, <1>12, <2>1, WrittenIs
<1>14. /\ TimerCounting'
       /\ e < w.len /\ ~no => Showing(x, part.strict, w.mode, w.div, N, w.ocr, e, {}, UnitsReached(w.mode, w.div, N, e))
       /\ ~(e < w.len) =>
                Showing(x, part.strict, w.mode, w.div, w.ocr, w.ocr, LateBy(w), {},
                        Ended(part.strict, w.mode, w.ocr)
                            \cup UnitsReached(w.mode, w.div, w.ocr, LateBy(w)))
  <2>1. Opened(w, e, no) /\ N = InUse(w)
    BY <1>8, <1>12
  <2>2. QED  BY <1>9, <2>1, PeriodIsSeen
<1>15. PICK len : len = w.len
  OBVIOUS
<1>16. LateBy(w) = e % len \/ e < len
  <2>1. SUFFICES ASSUME ~(e < len)
                 PROVE  LateBy(w) = e % len
    OBVIOUS
  <2>2. w.tov = len - e
    BY <1>12, <1>15 DEF Opened
  <2>3. PICK z : z = e - len
    OBVIOUS
  <2>4. -w.tov = z
    BY <1>13, <1>15, <2>2, <2>3
  <2>5. z % len = e % len
    BY <1>13, <1>15, <2>1, <2>3, RestOfPeriod
  <2>6. LengthIn(w.mode, w.div, w.ocr) = len
    BY <1>12, <1>15
  <2>7. QED  BY <2>4, <2>5, <2>6 DEF LateBy
<1>17. WithCompare(d, c, N, N)
  <2>1. IsView(c) /\ c.next = timer.ocr
    BY <1>1, Zenon DEF Showing
  <2>2. WithCompare(d, c, [c.next EXCEPT ![u] = v], [c.next EXCEPT ![u] = v])
    BY <2>1, NextAtIs
  <2>3. QED  BY <1>4, <2>1, <2>2
<1>18. PICK K : K = SkipsOf(timer)
  OBVIOUS
<1>19. Showing(d, s, how, t, N, N, e, K, {})
  <2>1. Showing(c, s, how, t, timer.ocr, timer.ocr, e, K, {})
    BY <1>1, <1>6, <1>27, <1>11, <1>18
  <2>2. QED  BY <1>17, <2>1, Zenon DEF WithCompare, Showing
<1>20. PICK y : y = TM!Counter!Rematched(d)
  OBVIOUS
<1>21. /\ e < len => Showing(y, s, how, t, N, N, e, {}, UnitsReached(how, t, N, e))
       /\ ~(e < len) =>
            Showing(y, s, how, t, N, N, e % len, {}, Ended(s, how, N) \cup UnitsReached(how, t, N, e % len))
  <2>1. len = LengthIn(how, t, N)
    BY <1>12, <1>15
  <2>2. QED  BY <1>13, <1>19, <1>20, <2>1, RematchedShows
<1>22. x = y
  <2>1. CASE e < len
    <3>1. Showing(x, s, how, t, N, N, e, {}, UnitsReached(how, t, N, e))
      BY <1>8, <1>11, <1>12, <1>14, <1>15, <2>1
    <3>2. Showing(y, s, how, t, N, N, e, {}, UnitsReached(how, t, N, e))
      BY <1>21, <2>1
    <3>3. QED  BY <3>1, <3>2, OneShown
  <2>2. CASE ~(e < len)
    <3>1. PICK l, f : l = e % len /\ f = Ended(s, how, N) \cup UnitsReached(how, t, N, l)
      OBVIOUS
    <3>2. LateBy(w) = l
      BY <1>16, <2>2, <3>1
    <3>3. Showing(x, s, how, t, N, N, l, {}, f)
      BY <1>11, <1>12, <1>14, <1>15, <2>2, <3>1, <3>2
    <3>4. Showing(y, s, how, t, N, N, l, {}, f)
      BY <1>21, <2>2, <3>1
    <3>5. QED  BY <3>3, <3>4, OneShown
  <2>3. QED  BY <2>1, <2>2
<1>23. c.strict = part.strict /\ c.mode = timer.mode /\ c.div = timer.div /\ c.ocr = timer.ocr
  BY <1>1, <1>6 DEF Active
<1>24. ~TM!Counter!Buffered(c)
  BY <1>3, <1>23 DEF TM!Buffered, TM!Counter!Buffered
<1>25. ~(d.ocr = c.ocr /\ c.mode \in {"fast", "fastA"})
  <2>1. SUFFICES ASSUME d.ocr = c.ocr, c.mode \in {"fast", "fastA"}
                 PROVE  FALSE
    OBVIOUS
  <2>2. d.ocr = N
    BY <1>17 DEF WithCompare
  <2>3. N[u] = v
    BY <1>1, <1>4 DEF TimerRecord
  <2>4. timer.ocr[u] = v
    BY <1>23, <2>1, <2>2, <2>3
  <2>5. QED  BY <1>23, <2>1, <2>4
<1>26. QED  BY <1>1, <1>14, <1>20, <1>22, <1>24, <1>25

LEMMA OcrIsCompared ==
    ASSUME TimerOk, NEW u \in Units, NEW v \in TM!Values, TM!WriteOcr(u, v), TimerInv(timer)',
           NEW c, c = TM!Seen, NEW x, x = TM!Seen'
    PROVE  TimerCounting' /\ (x = c \/ x \in TM!Counter!Compared(c, u, v))
<1>1. /\ timer \in TimerRecord /\ TM!WellFormed /\ TimerRuns(timer)
  BY DEF TimerOk, TimerInv
<1>2. PICK q : q = SetOcr(timer, u, v)
  OBVIOUS
<1>3. OcrIsSet(q, timer, u, v) /\ q.pend = timer.pend /\ q.act = timer.act
  BY <1>1, <1>2, SetOcrIs
<1>4. /\ TM!Firmware /\ part' = part /\ ~timer.reset /\ TM!Timed(q)
      /\ \/ TM!Buffered(timer) /\ timer.len # 0 /\ timer' = Wait(q, timer, u)
         \/ /\ ~(TM!Buffered(timer) /\ timer.len # 0)
            /\ timer' = IF timer.mode \in {"fast", "fastA"} /\ timer.ocr[u] = v
                        THEN q ELSE TM!Reconfigure(q, FALSE)
  BY <1>2 DEF TM!WriteOcr, TM!Firmware, TM!Instruction, SetOcr, Wait
<1>5. PICK w, a, d : w = timer' /\ a = NextAt(c, u, v) /\ d = InForce(a)
  OBVIOUS
<1>6. CASE TM!Buffered(timer) /\ timer.len # 0 /\ timer' = Wait(q, timer, u)
  <2>1. w = Wait(q, timer, u)
    BY <1>5, <1>6
  <2>2. /\ OcrIsSet(w, timer, u, v) /\ w.pend = timer.pend \cup {u}
        /\ w.act = [timer.act EXCEPT ![u] = IF u \in timer.pend THEN timer.act[u]
                                            ELSE timer.ocr[u]]
    BY <1>1, <1>3, <2>1, WaitIs
  <2>3. /\ TimerCounting' /\ x = a /\ TM!Counter!Buffered(c)
        /\ \/ c.on /\ ~c.held
           \/ ~c.on /\ c.held
    BY <1>4, <1>5, <1>6, <2>2, OcrWaits
  <2>4. a \in TM!Counter!Compared(c, u, v)
    BY <1>5, <2>3, ComparedIs
  <2>5. QED  BY <2>3, <2>4
<1>7. CASE timer.mode \in {"fast", "fastA"} /\ timer.ocr[u] = v /\ timer' = q
  <2>1. [timer.ocr EXCEPT ![u] = v] = timer.ocr
    BY <1>1, <1>7 DEF TimerRecord
  <2>2. q = timer
    BY <1>1, <1>2, <2>1 DEF SetOcr, TimerRecord
  <2>3. timer' = timer
    BY <1>7, <2>2
  <2>4. QED  BY <1>4, <2>3, TimerStays
<1>8. CASE /\ ~(TM!Buffered(timer) /\ timer.len # 0)
           /\ ~(timer.mode \in {"fast", "fastA"} /\ timer.ocr[u] = v)
           /\ timer' = TM!Reconfigure(q, FALSE)
  <2>1. CASE timer.tov # TM!Never
    <3>1. /\ TimerCounting' /\ x = TM!Counter!Rematched(d)
          /\ ~TM!Counter!Buffered(c) /\ c.on
          /\ ~(d.ocr = c.ocr /\ c.mode \in {"fast", "fastA"})
      BY <1>3, <1>4, <1>5, <1>8, <2>1, OcrRematches
    <3>2. TM!Counter!Rematched(d) \in TM!Counter!Compared(c, u, v)
      BY <1>5, <3>1, ComparedIs
    <3>3. QED  BY <3>1, <3>2
  <2>2. CASE timer.tov = TM!Never
    <3>1. timer.halted \/ timer.div = 0
      BY <1>1, <1>4, <2>2 DEF TimerRuns
    <3>2. /\ q \in TimerRecord /\ q.div = timer.div /\ q.halted = timer.halted
      BY <1>3 DEF OcrIsSet
    <3>3. PICK b : b = TM!Cleared(q)
      OBVIOUS
    <3>4. /\ b \in TimerRecord
          /\ b.mode = q.mode /\ b.div = q.div /\ b.ocr = q.ocr /\ b.pend = q.pend
          /\ b.act = q.act /\ b.halted = q.halted /\ b.reset = q.reset /\ b.held = q.held
          /\ b.flags = q.flags /\ b.tov = TM!Never
      BY <1>1, <3>2, <3>3, ClearedFields
    <3>5. PICK r : r = TM!Recompute(b)
      OBVIOUS
    <3>6. /\ r.mode = b.mode /\ r.div = b.div /\ r.ocr = b.ocr /\ r.pend = b.pend
          /\ r.act = b.act /\ r.halted = b.halted /\ r.reset = b.reset /\ r.held = b.held
          /\ r.tov = b.tov /\ r.flags = b.flags
          /\ r.len = LengthIn(b.mode, b.div, InUse(b))
      BY <1>1, <3>4, <3>5, RecomputedIs
    <3>7. w = b \/ w = r
      <4>1. CASE timer.halted
        BY <1>5, <1>8, <3>2, <3>3, <4>1 DEF TM!Reconfigure
      <4>2. CASE ~timer.halted
        <5>1. r.div = 0
          BY <3>1, <3>2, <3>4, <3>6, <4>2
        <5>2. TopIn(b.mode, InUse(b)) \in Nat
          <6>1. TopIn(b.mode, InUse(b)) \in TM!Values
            BY <1>1, <3>4, UseIsValue
          <6>2. QED  BY <1>1, <6>1, TimerConstants
        <5>3. r.len <= 1
          BY <3>6, <5>1, <5>2 DEF LengthIn
        <5>4. ~q.halted
          BY <3>2, <4>2, Zenon
        <5>5. w = r
          BY <1>5, <1>8, <3>3, <3>5, <5>3, <5>4 DEF TM!Reconfigure
        <5>6. QED  BY <5>5
      <4>3. QED  BY <4>1, <4>2
    <3>8. AllRegisters(w, q) /\ w.tov = TM!Never
      BY <3>4, <3>6, <3>7 DEF AllRegisters
    <3>9. /\ TimerCounting' /\ x = d /\ ~c.on
          /\ c.held \/ ~TM!Counter!Buffered(c)
      BY <1>3, <1>4, <1>5, <1>8, <2>2, <3>8, OcrStopped
    <3>10. d \in TM!Counter!Compared(c, u, v)
      BY <1>5, <3>9, ComparedIs
    <3>11. QED  BY <3>9, <3>10
  <2>3. QED  BY <2>1, <2>2
<1>9. QED  BY <1>4, <1>6, <1>7, <1>8
-----------------------------------------------------------------------------
(* The counter that is seen counts in every cycle. *)

LEMMA TimerStartsCounting ==
    ASSUME TM!WellFormed, TM!Init
    PROVE  TimerCounting /\ TM!Counter!Init
<1>1. /\ timer.mode = "none" /\ timer.div = 0 /\ timer.ocr = TM!Zero /\ timer.tov = TM!Never
      /\ timer.halted = FALSE /\ timer.flags = {} /\ timer.pend = {}
  BY Zenon DEF TM!Init
<1>2. TimerInv(timer)
  BY TimerInitHolds
<1>3. TimerCounting
  BY <1>1 DEF TimerCounting, TimerPeriod, TimerSkips, TimerHalted
<1>4. TM!Seen = Stopped(timer)
  BY <1>1, <1>2, <1>3, SeenStopped DEF TimerOk
<1>5. PICK c : c = TM!Seen
  OBVIOUS
<1>6. /\ c.mode = "none" /\ c.div = 0 /\ c.ocr = TM!Zero /\ c.next = TM!Zero /\ c.count = 0
      /\ c.into = 0 /\ c.skips = {} /\ c.flags = {} /\ c.held = timer.halted /\ c.on = FALSE
  BY <1>1, <1>4, <1>5 DEF Stopped
<1>7. ~c.held /\ ~c.on
  BY <1>1, <1>6, Zenon
<1>8. TM!Counter!Init
  BY <1>5, <1>6, <1>7, CounterSame DEF TM!Counter!Init
<1>9. QED  BY <1>3, <1>8

LEMMA StepsOrStays ==
    ASSUME TM!Seen' = TM!Seen \/ TM!Counter!Step(TM!Seen, TM!Seen')
    PROVE  TM!Counter!Next \/ TM!Seen' = TM!Seen
BY DEF TM!Counter!Next

LEMMA TimerRefines ==
    ASSUME TimerInv(timer), TimerCounting, TM!WellFormed, TM!LateByOneCount, TM!Next
    PROVE  TimerCounting' /\ (TM!Counter!Next \/ TM!Seen' = TM!Seen)
<1>1. TimerOk /\ TimerInv(timer)'
  BY TimerKeeps DEF TimerOk
<1>2. PICK c, x : c = TM!Seen /\ x = TM!Seen'
  OBVIOUS
<1>3. SUFFICES TimerCounting' /\ (x = c \/ TM!Counter!Step(c, x))
  <2>1. ASSUME x = c \/ TM!Counter!Step(c, x)
        PROVE  TM!Counter!Next \/ TM!Seen' = TM!Seen
    <3>1. TM!Seen' = TM!Seen \/ TM!Counter!Step(TM!Seen, TM!Seen')
      BY <1>2, <2>1
    <3>2. QED  BY <3>1, StepsOrStays
  <2>2. QED  BY <2>1
<1>4. /\ TM!Counter!Units = Units /\ TM!Counter!Modes = TM!Modes /\ TM!Counter!Values = TM!Values
      /\ TM!Units = Units
  BY CounterSame DEF Units, TM!Units
<1>5. ASSUME NEW d \in Divs \cup {0}, NEW how \in TM!Modes, TM!WriteTccr(d, how)
      PROVE  TimerCounting' /\ (x = c \/ TM!Counter!Step(c, x))
  <2>1. /\ TimerCounting'
        /\ \/ x = c
           \/ x = TM!Counter!Restarted(c, 0, c.mode)
           \/ d \in Divs /\ x = TM!Counter!Restarted(c, d, how)
    BY <1>1, <1>2, <1>5, TccrRestarts
  <2>2. QED  BY <1>4, <2>1 DEF TM!Counter!Step
<1>6. ASSUME NEW u \in Units, NEW v \in TM!Values, TM!WriteOcr(u, v)
      PROVE  TimerCounting' /\ (x = c \/ TM!Counter!Step(c, x))
  <2>1. TimerCounting' /\ (x = c \/ x \in TM!Counter!Compared(c, u, v))
    BY <1>1, <1>2, <1>6, OcrIsCompared
  <2>2. QED  BY <1>4, <2>1 DEF TM!Counter!Step
<1>7. ASSUME NEW v \in TM!Values, TM!WriteTcnt(v)
      PROVE  TimerCounting' /\ (x = c \/ TM!Counter!Step(c, x))
  <2>1. TimerCounting' /\ (x = c \/ x \in TM!Counter!Counted(c, v))
    BY <1>1, <1>2, <1>7, TcntIsCounted
  <2>2. QED  BY <1>4, <2>1 DEF TM!Counter!Step
<1>8. ASSUME TM!Hold
      PROVE  TimerCounting' /\ (x = c \/ TM!Counter!Step(c, x))
  <2>1. /\ TimerCounting' /\ c.strict /\ ~c.held
        /\ x = TM!Counter!Holding(c, IF c.div = 0 THEN x.count ELSE c.count)
    BY <1>1, <1>2, <1>8, HoldHolding
  <2>2. QED  BY <2>1, Zenon DEF TM!Counter!Step
<1>9. ASSUME TM!Release
      PROVE  TimerCounting' /\ (x = c \/ TM!Counter!Step(c, x))
  <2>1. TimerCounting' /\ c.held /\ x \in TM!Counter!Released(c)
    BY <1>1, <1>2, <1>9, ReleaseReleased
  <2>2. QED  BY <2>1, Zenon DEF TM!Counter!Step
<1>10. ASSUME TM!ResetPrescaler
       PROVE  TimerCounting' /\ (x = c \/ TM!Counter!Step(c, x))
  <2>1. /\ TimerCounting'
        /\ x = c \/ (c.strict /\ c.on /\ x \in TM!Counter!Goes(c, c.count, FALSE))
    BY <1>1, <1>2, <1>10, PrescalerGoes
  <2>2. QED  BY <2>1, Zenon DEF TM!Counter!Step
<1>11. ASSUME TM!ClearFlags
       PROVE  TimerCounting' /\ (x = c \/ TM!Counter!Step(c, x))
  <2>1. TimerCounting' /\ x = [c EXCEPT !.flags = {}]
    BY <1>1, <1>2, <1>11, FlagsCleared
  <2>2. QED  BY <2>1, Zenon DEF TM!Counter!Step
<1>12. ASSUME TM!Reset
       PROVE  TimerCounting' /\ (x = c \/ TM!Counter!Step(c, x))
  <2>1. TimerCounting' /\ x = TM!Counter!AfterReset(c)
    BY <1>1, <1>2, <1>12, ResetForgets
  <2>2. QED  BY <2>1, Zenon DEF TM!Counter!Step
<1>13. ASSUME TM!Pass
       PROVE  TimerCounting' /\ (x = c \/ TM!Counter!Step(c, x))
  <2>1. TimerCounting' /\ x = TM!Counter!Ticked(c)
    BY <1>1, <1>2, <1>13, PassTicks
  <2>2. c.on
    <3>1. timer.tov # TM!Never
      BY <1>13 DEF TM!Pass
    <3>2. c.on = TRUE
      <4>1. CASE timer.tov > 0
        <5>1. c = Shown(part.strict, timer.mode, timer.div, InUse(timer), timer.ocr, timer.el,
                           SkipsOf(timer), timer.flags \cup DueUnits(timer))
          BY <1>1, <1>2, <3>1, <4>1, SeenBefore
        <5>2. QED  BY <5>1 DEF Shown
      <4>2. CASE timer.tov <= 0
        <5>1. c = Shown(part.strict, timer.mode, timer.div, timer.ocr, timer.ocr, LateBy(timer),
                           {}, LateFlags(timer))
          BY <1>1, <1>2, <3>1, <4>2, SeenLate
        <5>2. QED  BY <5>1 DEF Shown
      <4>3. timer.tov \in Int
        BY <1>1 DEF TimerOk, TimerInv, TimerRecord
      <4>4. timer.tov > 0 \/ timer.tov <= 0
        BY <4>3
      <4>5. QED  BY <4>1, <4>2, <4>4, Zenon
    <3>3. QED  BY <3>2
  <2>3. QED  BY <2>1, <2>2, Zenon DEF TM!Counter!Step
<1>14. ASSUME TM!Overflow
       PROVE  TimerCounting' /\ (x = c \/ TM!Counter!Step(c, x))
  BY <1>1, <1>2, <1>14, OverflowStays
<1>15. ASSUME NEW m \in Units, TM!Match(m)
       PROVE  TimerCounting' /\ (x = c \/ TM!Counter!Step(c, x))
  BY <1>1, <1>2, <1>15, MatchStays
<1>16. QED
  BY <1>4, <1>5, <1>6, <1>7, <1>8, <1>9, <1>10, <1>11, <1>12, <1>13, <1>14, <1>15 DEF TM!Next

=============================================================================
