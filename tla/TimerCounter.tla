---------------------------- MODULE TimerCounter ----------------------------
(***************************************************************************)
(* What the classic timer promises: a prescaled counter 0 .. TOP that is   *)
(* seen to step, a flag for each compare match one count after it, and one *)
(* for each overflow.  What a write of TCNT, OCR or PSR10 does to the      *)
(* prescaler is told as the code has it.                                   *)
(*                                                                         *)
(* The counter is a record: strict the options of ATtiny13, mode and div   *)
(* what TCCR selects, on and held whether it counts or TSM holds it, ocr   *)
(* the compare values in use and next those last written, count TCNT, into *)
(* the cycles the count has lasted, skips the compare units that a write   *)
(* of TCNT blocks for a count, and flags.                                  *)
(***************************************************************************)
EXTENDS Integers

CONSTANTS Divs, MaxCount

VARIABLE counter

Units == {"A", "B"}
Modes == {"normal", "ctc", "fast", "fastA"}
Values == 0 .. MaxCount
Zero == [u \in Units |-> 0]

TopOf(mode, values) ==
    IF mode \in {"ctc", "fastA"} THEN values["A"] ELSE IF mode = "none" THEN 0 ELSE MaxCount
Top(c) == TopOf(c.mode, c.ocr)
Buffered(c) == c.strict /\ c.mode \in {"fast", "fastA"} /\ c.div # 0

\* The units that match when the count has gone from one to the other.
MatchedBefore(c, n) == {u \in Units : c.ocr[u] + 1 = n}
AtTop(c) ==
    {u \in Units : c.ocr[u] = Top(c)} \cup
    (IF c.strict /\ c.mode = "ctc" /\ Top(c) # MaxCount THEN {} ELSE {"TOV"})

Raised(c, flags) == [c EXCEPT !.flags = @ \cup flags]
At(c, n, k) == [c EXCEPT !.count = n, !.into = k, !.skips = {}]

Init ==
    /\ counter.mode = "none" /\ counter.div = 0 /\ ~counter.on /\ ~counter.held
    /\ counter.ocr = Zero /\ counter.next = Zero
    /\ counter.count = 0 /\ counter.into = 0 /\ counter.skips = {} /\ counter.flags = {}

-----------------------------------------------------------------------------
(* Counting *)

\* The compare values that were waiting are taken, and the match at TOP is
\* that of the new ones.
Wrapped(c) == LET d == At([c EXCEPT !.ocr = c.next], 0, 0) IN Raised(d, AtTop(d))

Ticked(c) ==
    CASE c.into + 1 < c.div -> [c EXCEPT !.into = @ + 1]
      [] c.into + 1 = c.div /\ c.count < Top(c) ->
            Raised(At(c, c.count + 1, 0), MatchedBefore(c, c.count + 1) \ c.skips)
      [] OTHER -> Wrapped(c)

-----------------------------------------------------------------------------
(* Writes *)

\* The counter goes to n; at TOP it wraps at once.
Goes(c, n, blocks) ==
    CASE n < Top(c) ->
            {IF blocks THEN [At(c, n, k) EXCEPT !.skips = MatchedBefore(c, n + 1)]
             ELSE Raised(At(c, n, k), IF k = 0 THEN MatchedBefore(c, n) ELSE {}) :
                k \in 0 .. c.div - 1}
      [] n = Top(c) /\ c.strict /\ n # 0 -> {Wrapped(c)}
      [] OTHER ->
            {[At(c, 0, 0) EXCEPT
                !.skips = IF blocks /\ Top(c) # 0 THEN MatchedBefore(c, 1) ELSE {}]}

Counted(c, n) ==
    IF c.held THEN {[c EXCEPT !.count = n]}
    ELSE IF c.on /\ Top(c) # 0 THEN Goes(c, n, c.strict)
    ELSE {c}

\* The clock starts or its prescaler or the mode changes: the count starts over.
Restarted(c, div, mode) ==
    [At(c, IF c.held THEN c.count ELSE 0, 0) EXCEPT
        !.div = div, !.mode = mode, !.on = (div # 0 /\ ~c.held), !.ocr = c.next]

\* A compare value takes effect when it is latched, or at once: the matches are
\* looked for anew, and a count past the new TOP wraps.
Rematched(c) ==
    LET n == c.count % (Top(c) + 1)
        d == Raised(At(c, n, c.into), IF c.into = 0 THEN MatchedBefore(c, n) ELSE {})
    IN IF n = c.count THEN d ELSE Raised(d, AtTop(d))

Compared(c, u, v) ==
    LET w == [c EXCEPT !.next[u] = v]
        d == [w EXCEPT !.ocr = w.next]
    IN CASE Buffered(c) /\ c.on -> {w}
         [] Buffered(c) /\ c.held -> {w, d}
         [] ~Buffered(c) /\ c.on /\ d.ocr = c.ocr /\ c.mode \in {"fast", "fastA"} -> {w}
         [] ~Buffered(c) /\ c.on /\ ~(d.ocr = c.ocr /\ c.mode \in {"fast", "fastA"}) ->
                {Rematched(d)}
         [] OTHER -> {d}

Holding(c, n) == [At(c, n, 0) EXCEPT !.held = TRUE, !.on = FALSE]

Released(c) ==
    LET d == [c EXCEPT !.held = FALSE, !.on = (c.div # 0)]
    IN IF d.on THEN Goes(d, c.count, TRUE) ELSE {At(d, 0, 0)}

\* A reset; the registers of the prescaler and the mode are looked at later.
AfterReset(c) ==
    [At(c, 0, 0) EXCEPT !.on = FALSE, !.held = FALSE, !.ocr = Zero, !.next = Zero, !.flags = {}]

-----------------------------------------------------------------------------
Step(c, d) ==
    \/ c.on /\ d = Ticked(c)
    \/ \E n \in Values : d \in Counted(c, n)
    \/ \E div \in Divs, mode \in Modes : d = Restarted(c, div, mode)
    \/ d = Restarted(c, 0, c.mode)
    \/ \E u \in Units, v \in Values : d \in Compared(c, u, v)
    \/ c.strict /\ ~c.held /\ d = Holding(c, IF c.div = 0 THEN d.count ELSE c.count)
    \/ c.held /\ d \in Released(c)
    \/ c.strict /\ c.on /\ d \in Goes(c, c.count, FALSE)
    \/ d = [c EXCEPT !.flags = {}]
    \/ d = AfterReset(c)

Next == \E c \in {counter}, d \in {counter'} : c # d /\ Step(c, d)

Spec == Init /\ [][Next]_counter

=============================================================================
