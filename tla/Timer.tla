------------------------------- MODULE Timer --------------------------------
(***************************************************************************)
(* The classic timer on the internal clock (avr_timer.c).  TCNT is         *)
(* computed from the cycle of the last overflow; one cycle timer waits for *)
(* the next overflow and one for each compare match before it.  Clocks     *)
(* from a pin or a crystal, input capture, the output pins and the dual    *)
(* slope of ATtiny13's phase correct PWM are left out.                     *)
(*                                                                         *)
(* The record p is avr_timer_t.  Cycles are counted from those of the      *)
(* code: el = avr->cycle - tov_base, and tov and comp are when - cycle.    *)
(***************************************************************************)
EXTENDS Integers

CONSTANTS
    Divs,       \* prescalers, cs_div_value
    MaxCount,   \* MAX of the counter
    Overshoot,  \* cycles the core runs past a timer that is due
    Longest     \* cycles, more than any period has

VARIABLES
    part,
    p           \* avr_timer_t

vars == <<part, p>>

\* A timer that runs late by more than the cycles of a count passes over the
\* matches of the first counts after an overflow.
LateByOneCount == \A d \in Divs : d >= Overshoot

WellFormed ==
    /\ Divs \subseteq Nat \ {0} /\ MaxCount \in Nat \ {0} /\ Overshoot \in Nat
    /\ Longest \in Nat \ {0} /\ \A d \in Divs : d * (MaxCount + 1) < Longest

Units == {"A", "B"}
Modes == {"normal", "ctc", "fast", "fastA"}   \* fast PWM up to MAX or to OCRA
Values == 0 .. MaxCount
Never == -Longest - Overshoot     \* no timer is as late

Unarmed == [u \in Units |-> Never]
Zero == [u \in Units |-> 0]
Init ==
    p = [mode |-> "none", div |-> 0, ocr |-> Zero, pend |-> {},
         act |-> Zero, top |-> 0, len |-> 0, cc |-> Zero,
         el |-> 0, tov |-> Never, comp |-> Unarmed, halted |-> FALSE, held |-> 0,
         reset |-> FALSE, flags |-> {}]

-----------------------------------------------------------------------------
(* The period *)

Buffered(t) == part.strict /\ t.mode \in {"fast", "fastA"}

\* _timer_ocr_eff
OcrEff(t, u) == IF Buffered(t) /\ u \in t.pend THEN t.act[u] ELSE t.ocr[u]

Top(t) ==
    CASE t.mode \in {"ctc", "fastA"} -> OcrEff(t, "A")
      [] t.mode = "none" -> 0
      [] OTHER -> MaxCount

\* avr_timer_recompute, and the same lines of avr_timer_configure
Recompute(t) ==
    LET top == Top(t)
    IN [t EXCEPT !.top = top,
                 !.len = t.div * (top + 1),
                 !.cc = [u \in Units |->
                            IF OcrEff(t, u) <= top THEN t.div * (OcrEff(t, u) + 1) ELSE 0]]

\* Mutant: the period goes on with the old compare values.
LatchOnly(t) == [t EXCEPT !.pend = {}, !.act = Zero]

\* avr_timer_latch_ocr
Latch(t) == IF t.pend = {} THEN t ELSE Recompute([t EXCEPT !.pend = {}, !.act = Zero])

\* _timer_ctc_no_tov
Silent(t) == part.strict /\ t.mode = "ctc" /\ t.top # MaxCount

\* avr_timer_tov, called late cycles after the overflow it stands for, or to
\* start a period that began then.
Period(t, late, start, blocked) ==
    LET q == IF ~start /\ Buffered(t) THEN Latch(t) ELSE t
        Ahead(u) ==
            /\ q.cc[u] \in 1 .. q.len - 1 /\ q.cc[u] >= late
            /\ ~(blocked /\ q.cc[u] - late <= q.div)
        atTop == {u \in Units : q.cc[u] = q.len}
    IN [q EXCEPT !.el = late,
                 !.comp = [u \in Units |-> IF Ahead(u) THEN q.cc[u] - late ELSE @[u]],
                 !.flags = IF start THEN @ ELSE @ \cup atTop \cup
                                                (IF Silent(q) THEN {} ELSE {"TOV"})]

\* Mutant: the match of the second unit stays armed.
CancelledButB(t) == [t EXCEPT !.tov = Never, !.comp["A"] = Never, !.el = 0]

\* avr_timer_cancel_all_cycle_timers; the cycle the period began is not looked
\* at again.
Cancelled(t) == [t EXCEPT !.tov = Never, !.comp = Unarmed, !.el = 0]
Cleared(t) == [Cancelled(t) EXCEPT !.len = 0, !.cc = Zero]

\* avr_timer_reconfigure with avr_timer_configure: the period starts now, or
\* goes on from where it began.
Reconfigure(t, restart) ==
    LET q == Recompute(Cleared(t))
        began == IF restart THEN 0 ELSE t.el
    IN IF t.halted THEN Cleared(t)
       ELSE IF q.len <= 1 THEN q
       ELSE Period([q EXCEPT !.tov = q.len - began], began, TRUE, FALSE)

\* _avr_timer_get_current_tcnt
Tcnt(t) ==
    CASE t.halted -> t.held
      [] ~t.halted /\ t.len # 0 -> (t.el * (t.top + 1)) \div t.len
      [] OTHER -> 0

\* avr_timer_tcnt_write
SetTcnt(t, v, psr) ==
    LET n == IF v > t.top \/ (v = t.top /\ ~part.strict) THEN 0 ELSE v
        cycles == (n * t.len) \div t.top
    IN IF t.halted THEN [t EXCEPT !.held = v]
       ELSE IF t.top = 0 THEN t
       ELSE IF t.len <= 1 THEN Cancelled(t)
       ELSE Period([Cancelled(t) EXCEPT !.tov = t.len - cycles],
                   cycles, TRUE, part.strict /\ ~psr)

-----------------------------------------------------------------------------
(* Registers *)

Due == {d \in {p.tov} \cup {p.comp[u] : u \in Units} : d # Never /\ d <= 0}
Instruction == Due = {} /\ p.flags = {} /\ UNCHANGED part

\* After a reset the firmware configures the timer before it uses it.  No
\* handler looks at the flags: they are cleared before anything else is done.
Firmware == Instruction /\ ~p.reset

\* A period of a single cycle is not timed by the code, and left out here.
Timed(t) == t.div * (t.ocr["A"] + 1) # 1

\* avr_timer_write: CS and WGM; with CS zero the mode is not looked at.
WriteTccr(div, mode) ==
    /\ Instruction
    /\ IF div = 0
       THEN p' = IF p.reset /\ mode = "normal" THEN p
                 ELSE Cleared([p EXCEPT !.div = 0, !.reset = FALSE])
       ELSE /\ div # p.div \/ mode # p.mode \/ p.reset
            /\ LET q == [p EXCEPT !.div = div, !.mode = mode, !.pend = {}, !.act = Zero, !.reset = FALSE]
               IN Timed(q) /\ p' = Reconfigure(q, TRUE)

\* avr_timer_write_ocr
WriteOcr(u, v) ==
    /\ Firmware
    /\ LET q == [p EXCEPT !.ocr[u] = v]
       IN /\ Timed(q)
          /\ \/ /\ Buffered(p) /\ p.len # 0
                /\ p' = [q EXCEPT !.pend = @ \cup {u},
                                  !.act[u] = IF u \in p.pend THEN @ ELSE p.ocr[u]]
             \/ /\ ~(Buffered(p) /\ p.len # 0)
                /\ p' = IF p.mode \in {"fast", "fastA"} /\ p.ocr[u] = v
                        THEN q ELSE Reconfigure(q, FALSE)

WriteTcnt(v) == Firmware /\ p' = SetTcnt(p, v, FALSE)

\* avr_timer_write_gtccr with TSM and PSR10: the counter is held.  While it is
\* stopped TCNT is what was last written or read.
Hold ==
    /\ Firmware /\ part.strict /\ ~p.halted
    /\ \E v \in Values :
          /\ p.div # 0 => v = Tcnt(p)
          /\ p' = [Cancelled(p) EXCEPT !.held = v, !.halted = TRUE]

\* avr_timer_write_gtccr without TSM
Release ==
    /\ Firmware /\ p.halted
    /\ LET q == [p EXCEPT !.halted = FALSE]
       IN p' = IF p.div # 0 THEN SetTcnt(Reconfigure(q, TRUE), p.held, FALSE) ELSE q

\* avr_timer_write_gtccr with PSR10
ResetPrescaler ==
    /\ Firmware /\ part.strict /\ ~p.halted /\ p.div # 0 /\ p.len # 0
    /\ p' = SetTcnt(p, Tcnt(p), TRUE)

\* avr_timer_write_pending, and the service of a vector
ClearFlags == Due = {} /\ p.flags # {} /\ p' = [p EXCEPT !.flags = {}] /\ UNCHANGED part

\* avr_reset with avr_timer_reset: the period and the clock are not forgotten.
Reset ==
    /\ UNCHANGED part
    /\ p' = [Cancelled(p) EXCEPT !.halted = FALSE, !.pend = {}, !.act = Zero, !.ocr = Zero,
                                 !.cc = Zero, !.reset = TRUE, !.flags = {}]

-----------------------------------------------------------------------------
(* Time *)

Later(d) == IF d = Never THEN Never ELSE d - 1

Pass ==
    /\ p.tov # Never /\ p.flags = {} /\ \A d \in Due : d > -Overshoot
    /\ p' = [p EXCEPT !.el = @ + 1, !.tov = Later(@), !.comp = [u \in Units |-> Later(@[u])]]
    /\ UNCHANGED part

\* The timer that is due first is called; avr_timer_tov asks for the next
\* overflow, which may be due as well.
First(d) == d \in Due /\ \A e \in Due : d <= e

Overflow ==
    /\ First(p.tov)
    /\ LET q == Period(p, -p.tov, FALSE, FALSE)
       IN p' = [q EXCEPT !.tov = q.len + p.tov]
    /\ UNCHANGED part

\* avr_timer_comp
Match(u) ==
    /\ First(p.comp[u])
    /\ p' = [p EXCEPT !.comp[u] = Never, !.flags = @ \cup {u}]
    /\ UNCHANGED part

-----------------------------------------------------------------------------
Next ==
    \/ \E div \in Divs \cup {0}, mode \in Modes : WriteTccr(div, mode)
    \/ \E u \in Units, v \in Values : WriteOcr(u, v)
    \/ \E v \in Values : WriteTcnt(v)
    \/ Hold \/ Release \/ ResetPrescaler
    \/ ClearFlags \/ Reset \/ Pass \/ Overflow \/ \E u \in Units : Match(u)

Spec == Init /\ [][Next]_vars

-----------------------------------------------------------------------------
(* Properties *)

TypeOK ==
    /\ p.mode \in Modes \cup {"none"} /\ p.div \in Divs \cup {0}
    /\ p.ocr \in [Units -> Values] /\ p.act \in [Units -> Values] /\ p.pend \subseteq Units
    /\ p.top \in Values /\ p.len \in Nat /\ p.cc \in [Units -> Nat] /\ p.el \in Nat
    /\ p.tov \in Int /\ p.comp \in [Units -> Int] /\ p.held \in Values
    /\ p.halted \in BOOLEAN /\ p.reset \in BOOLEAN /\ p.flags \subseteq {"TOV"} \cup Units

\* The overflow is waited for exactly while the timer counts, and it and the
\* matches that are waited for are those of the period that runs.
WorkIsTimed ==
    /\ (p.tov # Never) <=> (p.div # 0 /\ ~p.halted /\ ~p.reset)
    /\ p.tov # Never => p.tov = p.len - p.el
    /\ \A u \in Units : p.comp[u] # Never =>
            p.tov # Never /\ p.comp[u] = p.cc[u] - p.el /\ p.comp[u] < p.tov

\* What the timer is when all that is due has been called, and the counter it
\* stands for then.  An element of a singleton is evaluated once.
Only(S) == CHOOSE x \in S : TRUE

Passed(t) ==
    LET due == {u \in Units : t.comp[u] # Never /\ t.comp[u] <= 0}
    IN [t EXCEPT !.flags = @ \cup due,
                 !.comp = [u \in Units |-> IF u \in due THEN Never ELSE @[u]]]
Overflowed(late) ==
    {IF q.len > late THEN q ELSE Period(q, late % q.len, FALSE, FALSE) :
        q \in {Period(t, late, FALSE, FALSE) : t \in {Passed(p)}}}
Settled ==
    IF Due = {} THEN p
    ELSE IF p.tov > 0 THEN Passed(p)
    ELSE Only({Passed(q) : q \in Overflowed(-p.tov)})

Seen ==
    Only({[strict |-> part.strict, mode |-> p.mode, div |-> p.div, held |-> p.halted,
           on |-> p.tov # Never,
           ocr |-> [u \in Units |-> IF p.div = 0 \/ p.reset THEN p.ocr[u] ELSE OcrEff(t, u)],
           next |-> p.ocr,
           count |-> IF p.reset THEN 0 ELSE Tcnt(t),
           into |-> IF p.tov # Never THEN t.el % p.div ELSE 0,
           skips |-> {u \in Units : p.tov # Never /\ t.comp[u] = Never
                                    /\ t.cc[u] \in t.el + 1 .. t.len - 1},
           flags |-> t.flags] : t \in {Settled}})

Counter == INSTANCE TimerCounter WITH counter <- Seen

\* Though TCNT is computed when it is needed, and one cycle timer stands for a
\* whole period, the counter and its flags are those of one that counts in every
\* cycle (avr_timer_tov, avr_timer_configure, avr_timer_tcnt_write).
CountsEveryCycle == Counter!Spec

=============================================================================
