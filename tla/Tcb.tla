-------------------------------- MODULE Tcb ---------------------------------
(***************************************************************************)
(* The modern timer/counter type B (avr_tcb.c), all of its modes but the   *)
(* unused code of a single shot.  CNT is computed from the cycle the       *)
(* counter was last set; one cycle timer waits for what ends the period,   *)
(* and the edges of the event input start, stop and restart both.          *)
(*                                                                         *)
(* The record p is avr_tcb_t with its registers.  Cycles are counted from  *)
(* those of the code: since = avr->cycle - start_cycle, due = when - cycle.*)
(* count is start_count while the counter runs and freeze_count otherwise. *)
(* The flags are cleared before anything else is done: no handler looks at *)
(* them.  EVCTRL EDGE is 0, the rising edge counts: with the other one the *)
(* input is mirrored.  Firmware does not write the read-only RUN bit.      *)
(***************************************************************************)
EXTENDS Integers

CONSTANTS
    Base,       \* values of a byte; words are two of them
    Divs,       \* prescalers
    Overshoot   \* cycles the core runs past a timer that is due

VARIABLE
    p   \* avr_tcb_t; gauge, shown, stale are history

Byte == 0 .. Base - 1
Max == Base * Base - 1
Word == 0 .. Max
Never == -99
Capturing == {"capt", "frq", "pw", "frqpw"}
Modes == {"int", "timeout", "pwm8"} \cup Capturing

Off ==
    [enable |-> FALSE, mode |-> "int", out |-> FALSE, captei |-> FALSE, clk |-> 1,
     lo |-> 0, hi |-> 0, reg |-> 0, run |-> FALSE, div |-> 1, top |-> 0,
     since |-> 0, count |-> 0, armed |-> FALSE, stage |-> 0, level |-> FALSE,
     wo |-> FALSE, flags |-> {}, due |-> Never,
     gauge |-> Never, shown |-> Never, stale |-> FALSE]

\* What the constants are: the counter starts undivided, the core may run past
\* a timer for as long as a tick takes, and not so late that a deadline passes
\* for none.
WellFormed ==
    /\ Base \in Nat \ {0} /\ Overshoot \in Nat /\ -Overshoot > Never
    /\ Divs \subseteq 1 .. Overshoot + 1 /\ 1 \in Divs

Init == p = Off

-----------------------------------------------------------------------------
(* The counter *)

\* tcb_top
Ccmp(t) == t.hi * Base + t.lo

\* tcb_current_cnt
Current(t) ==
    IF ~t.run THEN t.count
    ELSE (t.count + t.since \div t.div) % (IF t.mode = "pwm8" THEN t.lo + 1 ELSE Max + 1)

\* tcb_set_running
SetRunning(t, run, n) == [t EXCEPT !.run = run, !.count = n, !.reg = n, !.since = 0]

\* tcb_pwm8_wo_level, tcb_emit_wo
WoLevel(t) ==
    /\ t.enable /\ t.out /\ t.mode = "pwm8"
    /\ t.hi > t.lo \/ Current(t) < t.hi
EmitWo(t) == [t EXCEPT !.wo = WoLevel(t)]

\* Mutant: the cycle timer waits for the end of the period only.
WholePeriod(t, n) == (t.lo + 1 - n) * t.div

\* tcb_pwm8_delta
PwmDelta(t, n) ==
    LET next == IF t.hi > n /\ t.hi <= t.lo THEN t.hi ELSE t.lo + 1
    IN (IF next > n THEN next - n ELSE 1) * t.div

\* tcb_schedule_delta
Delta(t) ==
    CASE t.mode = "int" -> (t.top + 1) * t.div
      [] t.mode = "timeout" -> (t.top + 1 - Current(t)) * t.div
      [] t.mode \in Capturing -> (Max + 1 - Current(t)) * t.div
      [] t.mode = "pwm8" -> PwmDelta(t, Current(t))
Timed(t) == [t EXCEPT !.due = Delta(t)]

Stopped(t) == [SetRunning(t, FALSE, Current(t)) EXCEPT !.due = Never]

\* Mutant: an edge starts the counter where it stands.
StartedAgain(t) == Timed(SetRunning(t, TRUE, Current(t)))

Restarted(t) == Timed(SetRunning(t, TRUE, 0))

\* avr_tcb_reschedule: the counter goes on from the CNT that was last read.
Reschedule(t) ==
    LET q == [t EXCEPT !.div = t.clk, !.top = Ccmp(t), !.due = Never, !.gauge = Never,
                       !.stale = FALSE]
    IN EmitWo(IF ~q.enable THEN Stopped(q)
              ELSE IF q.mode \in {"int", "capt", "frq", "pwm8"}
                   THEN Timed(SetRunning(q, TRUE, q.reg))
                   ELSE SetRunning(q, FALSE, q.reg))

Flagged(t, f) == [t EXCEPT !.flags = @ \cup {f}]

-----------------------------------------------------------------------------
(* Registers *)

Due == p.due # Never /\ p.due <= 0
Instruction == ~Due /\ p.flags = {} /\ p.shown = Never

WriteCtrla(enable, clk) ==
    Instruction /\ p' = Reschedule([p EXCEPT !.enable = enable, !.clk = clk])

\* CCMPEN is looked at in the 8-bit mode only.
WriteCtrlb(mode, out) ==
    /\ Instruction
    /\ out => mode = "pwm8"
    /\ p' = Reschedule([p EXCEPT !.mode = mode, !.out = out,
                               !.armed = FALSE, !.stage = 0])

WriteEvctrl(captei) == Instruction /\ captei # p.captei /\ p' = [p EXCEPT !.captei = captei]

\* avr_tcb_cnt_read
ReadCnt == Instruction /\ p' = [p EXCEPT !.reg = Current(p)]

\* There is no handler: what is written is where the next configuration starts.
WriteCnt(n) == Instruction /\ ~p.run /\ n # p.reg /\ p' = [p EXCEPT !.reg = n]

\* Mutant: the new TOP counts from the next period on.
NewTopLater(q) == q

\* avr_tcb_ccmp_write: a running counter keeps its count, and past the new TOP
\* it runs on to MAX first.
NewTop(q) ==
    LET n == Current(q)
        top == Ccmp(q)
        t == SetRunning([q EXCEPT !.div = q.clk, !.top = top], TRUE, n)
    IN [t EXCEPT !.due = (IF n <= top THEN top + 1 - n ELSE Max + 1 - n + top + 1) * t.div]

WriteCcmp(lo, hi) ==
    /\ Instruction
    /\ lo = p.lo \/ hi = p.hi
    /\ LET q == [p EXCEPT !.lo = lo, !.hi = hi]
       IN p' = CASE q.run /\ q.mode = "pwm8" ->
                        EmitWo(Timed(SetRunning(q, TRUE, Current(q))))
                 [] q.run /\ q.mode \in {"int", "timeout"} -> NewTop(q)
                 [] OTHER -> [q EXCEPT !.stale = (q.mode = "timeout") /\ (lo # p.lo \/ hi # p.hi \/ @)]

\* avr_tcb_intflags_write, avr_tcb_ccmp_read
ClearFlags ==
    /\ ~Due /\ (p.flags # {} \/ p.shown # Never)
    /\ p' = [p EXCEPT !.flags = {}, !.shown = Never]

\* avr_reset with avr_tcb_reset
Reset == p' = Off

-----------------------------------------------------------------------------
(* The event input *)

Captured(t) ==
    [Flagged(t, "CAPT") EXCEPT !.lo = Current(t) % Base, !.hi = Current(t) \div Base,
                               !.shown = IF t.gauge = Never THEN Never ELSE t.gauge \div t.div]
Gauged(t) == [t EXCEPT !.gauge = 0]
Ungauged(t) == [t EXCEPT !.gauge = Never]

\* CNTMODE_PW
Pulse(t, rises) ==
    IF rises THEN Gauged(Restarted([t EXCEPT !.armed = TRUE]))
    ELSE IF t.armed THEN [Ungauged(Stopped(Captured(t))) EXCEPT !.armed = FALSE] ELSE t

\* CNTMODE_FRQPW
PeriodAndPulse(t, rises) ==
    CASE rises /\ t.stage = 0 -> [Gauged(Restarted(t)) EXCEPT !.stage = 1]
      [] rises /\ t.stage # 0 -> [Flagged(Ungauged(Stopped(t)), "CAPT") EXCEPT !.stage = 0]
      [] ~rises /\ t.stage = 1 -> [Captured(t) EXCEPT !.stage = 2, !.flags = t.flags]
      [] OTHER -> t

OnEdge(t, rises) ==
    CASE t.mode = "pw" -> Pulse(t, rises)
      [] t.mode = "frqpw" -> PeriodAndPulse(t, rises)
      [] t.mode \in {"timeout", "capt", "frq"} /\ ~rises -> t
      [] t.mode = "timeout" /\ rises ->
             IF t.run THEN Stopped(t) ELSE Restarted(t)
      [] t.mode = "capt" /\ rises -> Captured(t)
      [] t.mode = "frq" /\ rises -> Gauged(Restarted(Captured(t)))
      [] OTHER -> t

\* avr_tcb_event_input, from a callback too, with the counter's own timer due
Event ==
    /\ p.shown = Never
    /\ LET q == [p EXCEPT !.level = ~@]
       IN p' = IF q.enable /\ q.captei THEN OnEdge(q, q.level) ELSE q

-----------------------------------------------------------------------------
(* Time *)

Period(t) == (IF t.mode = "pwm8" THEN t.lo + 1 ELSE Max + 1) * t.div

\* A pulse width modulated counter whose end of period was noticed late is not
\* set to 0 again; whole periods are left out of since.
Pass ==
    /\ p.due > -Overshoot /\ p.flags = {} /\ p.shown = Never
    /\ p' = [p EXCEPT !.due = @ - 1,
                      !.since = IF p.mode = "pwm8" THEN (@ + 1) % Period(p) ELSE @ + 1,
                      !.gauge = IF @ = Never THEN Never ELSE (@ + 1) % Period(p)]

\* avr_tcb_tick.  The counter is set to 0 in the cycle the timer is called in,
\* the next call is asked for from the cycle it was due: what is measured over
\* a wrap that is noticed late is too short.
Tick ==
    /\ Due
    /\ LET again(t) == [t EXCEPT !.due = Delta(t) + p.due]
           zero == SetRunning(p, TRUE, 0)
       IN p' = CASE p.mode = "int" ->
                        again(Flagged([zero EXCEPT !.top = Ccmp(p), !.div = p.clk], "CAPT"))
                 [] p.mode = "timeout" ->
                        Flagged([SetRunning(p, FALSE, p.top) EXCEPT !.due = Never], "CAPT")
                 [] p.mode \in Capturing ->
                        again(Flagged(IF p.due = 0 THEN zero ELSE Ungauged(zero), "OVF"))
                 [] p.mode = "pwm8" ->
                        again(EmitWo(IF Current(p) = 0 THEN Flagged(zero, "CAPT") ELSE p))

-----------------------------------------------------------------------------
Next ==
    \/ \E enable \in BOOLEAN, clk \in Divs : WriteCtrla(enable, clk)
    \/ \E mode \in Modes, out \in BOOLEAN : WriteCtrlb(mode, out)
    \/ \E captei \in BOOLEAN : WriteEvctrl(captei)
    \/ ReadCnt \/ \E n \in Word : WriteCnt(n)
    \/ \E lo, hi \in Byte : WriteCcmp(lo, hi)
    \/ ClearFlags \/ Reset \/ Event \/ Pass \/ Tick

Spec == Init /\ [][Next]_p

-----------------------------------------------------------------------------
(* Properties *)

TypeOK ==
    /\ p.enable \in BOOLEAN /\ p.mode \in Modes /\ p.out \in BOOLEAN /\ p.captei \in BOOLEAN
    /\ p.clk \in Divs /\ p.div \in Divs /\ p.lo \in Byte /\ p.hi \in Byte
    /\ p.reg \in Word /\ p.top \in Word /\ p.count \in Word /\ p.since \in Nat
    /\ p.run \in BOOLEAN /\ p.armed \in BOOLEAN /\ p.stage \in 0 .. 2
    /\ p.level \in BOOLEAN /\ p.wo \in BOOLEAN /\ p.flags \subseteq {"CAPT", "OVF"}
    /\ p.due \in Int /\ p.gauge \in Int /\ p.shown \in Int
    /\ p.stale \in BOOLEAN

\* The cycle timer is armed exactly while the counter runs; it is called when a
\* capturing counter wraps, and when a time-out counter passes CCMP, however it
\* was rewritten, unless that was while the counter stood: the TOP of before is
\* then used (avr_tcb_reschedule, avr_tcb_event_input, avr_tcb_ccmp_write).
Phase == p.count * p.div + p.since
WorkIsTimed ==
    /\ p.run <=> p.due # Never
    /\ p.run => p.enable
    /\ p.run /\ p.mode \in Capturing =>
            (Max + 1) * p.div - Phase - p.due \in 0 .. Overshoot
    /\ p.run /\ p.mode = "timeout" /\ ~p.stale =>
            \/ p.due = (Ccmp(p) + 1) * p.div - Phase
            \/ p.due = (Max + 1 + Ccmp(p) + 1) * p.div - Phase /\ p.count > Ccmp(p)

\* A pulse width or a period that is captured is the one between the edges,
\* however the counter wrapped in between, unless the counter was configured
\* or a wrap was noticed late (avr_tcb_event_input, avr_tcb_tick).
CaptureIsWidth == p.shown # Never => p.shown = Ccmp(p)

\* The output is high exactly while the 8-bit counter is below CCMPH, whatever
\* is written to period and duty in between, or it was so when a timer that was
\* noticed late was due (tcb_pwm8_delta, tcb_emit_wo).
OutputFollowsCount ==
    ~Due => \E late \in 0 .. Overshoot :
                p.wo = WoLevel([p EXCEPT !.since = @ + Period(p) - late])

=============================================================================
