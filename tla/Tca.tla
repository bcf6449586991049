-------------------------------- MODULE Tca ---------------------------------
(***************************************************************************)
(* The modern timer/counter type A (avr_tca.c) as a 16-bit timer with one  *)
(* compare channel, in single and dual slope.  CNT is                      *)
(* computed from the cycle its period began; one cycle timer waits for the *)
(* next count at which something happens; PER and CMP are buffered.        *)
(*                                                                         *)
(* The record c is avr_tca_t with its registers.  Cycles are counted from  *)
(* those of the code: since = avr->cycle - start_cycle, due = when - cycle.*)
(* buf has the buffers that are valid, and cnt is the register where the  *)
(* count is while it stands.  Normal mode is a single slope without its    *)
(* output; the frequency mode, the other dual slopes and split mode are    *)
(* left out, ALUPD is 0, the channel is enabled, CMP0OV is 0.  The flags   *)
(* are cleared before anything else is done: no handler looks at them.     *)
(* counted is history: the clock moved the count.                          *)
(***************************************************************************)
EXTENDS Integers, FiniteSetsExt

CONSTANTS
    MaxCount,   \* values of CMP and CNT
    Tops,       \* values of PER and of the buffers
    Divs,       \* prescalers
    Overshoot   \* cycles the core runs past a timer that is due

VARIABLE c

Word == 0 .. MaxCount
Modes == {"single", "dual"}
Actions == {"none", "edge", "high", "updown"}     \* EVCTRL
Buffers == {"per", "cmp"}
Never == -99

\* PER is the greatest count.
Off ==
    [enable |-> FALSE, clk |-> Min(Divs), mode |-> "single", act |-> "none", line |-> FALSE,
     per |-> MaxCount, cmp |-> 0, buf |-> << >>,
     lupd |-> FALSE, sw |-> FALSE, down |-> FALSE, cnt |-> 0,
     run |-> FALSE, div |-> Min(Divs), since |-> 0, phase |-> 0, due |-> Never,
     flags |-> {}, wo |-> FALSE, counted |-> FALSE]

\* What the constants are: there is a lowest prescaler, PER may be the greatest
\* count, and the core does not run so late that a deadline passes for none.
WellFormed ==
    /\ MaxCount \in Nat /\ Tops \subseteq Word /\ MaxCount \in Tops
    /\ Divs \subseteq Nat \ {0} /\ \E d \in Divs : \A e \in Divs : d <= e
    /\ Overshoot \in Nat /\ -Overshoot > Never

Init == c = Off

-----------------------------------------------------------------------------
(* The count *)

Dual(t) == t.mode = "dual"

\* tca_period, in ticks
Period(t) == IF Dual(t) THEN (IF t.per = 0 THEN 1 ELSE 2 * t.per) ELSE t.per + 1

\* tca_phase_to_cnt
CountAt(t, phase) ==
    CASE Dual(t) -> [cnt |-> IF phase > t.per THEN 2 * t.per - phase ELSE phase,
                     down |-> phase > t.per]
      [] OTHER -> [cnt |-> IF t.down THEN t.per - phase ELSE phase, down |-> t.down]

\* tca_cnt_to_phase: a count above TOP is at the end of its period.
PhaseOf(t) ==
    CASE Dual(t) /\ t.cnt <= t.per ->
             IF t.down /\ t.cnt # 0 THEN 2 * t.per - t.cnt ELSE t.cnt
      [] ~Dual(t) /\ t.cnt <= t.per -> IF t.down THEN t.per - t.cnt ELSE t.cnt
      [] OTHER -> IF ~Dual(t) /\ t.down THEN 0 ELSE Period(t)

\* tca_pos
Position(t) ==
    IF t.run THEN CountAt(t, (t.since \div t.div) % Period(t)) ELSE [cnt |-> t.cnt, down |-> t.down]

\* Mutant: the timer waits for the end of the period only.
PeriodEnd(t, phase) == Period(t)

\* The phases in which the count is CMP.
Matches(t) ==
    IF t.cmp > t.per THEN {}
    ELSE IF Dual(t) THEN {t.cmp, 2 * t.per - t.cmp}
    ELSE {IF t.down THEN t.per - t.cmp ELSE t.cmp}

\* tca_next_phase
NextPhase(t, phase) ==
    Min({Period(t)} \cup {m \in Matches(t) : m > phase /\ m < Period(t)})

\* tca_wo_level and tca_emit_wo
WoLevel(t) ==
    LET at == Position(t)
    IN /\ t.enable /\ t.cmp # 0
       /\ \/ t.cmp > t.per \/ (Dual(t) /\ t.cmp = t.per)
          \/ at.cnt < t.cmp \/ (Dual(t) /\ at.down /\ at.cnt = t.cmp)
EmitWo(t) == [t EXCEPT !.wo = WoLevel(t)]

Flagged(t, flags) == [t EXCEPT !.flags = @ \cup flags]

\* tca_update
Update(t, force) ==
    IF t.lupd /\ ~force THEN t
    ELSE [t EXCEPT !.buf = << >>, !.per = IF "per" \in DOMAIN t.buf THEN t.buf["per"] ELSE @,
                   !.cmp = IF "cmp" \in DOMAIN t.buf THEN t.buf["cmp"] ELSE @]

-----------------------------------------------------------------------------
(* The clock *)

\* tca_stop
Stop(t) ==
    LET at == Position(t)
    IN [t EXCEPT !.cnt = at.cnt, !.down = at.down, !.run = FALSE, !.due = Never,
                 !.since = 0, !.phase = 0]

\* tca_clock_should_run and tca_want_down
ShouldRun(t) == t.enable /\ t.act # "edge" /\ (t.act = "high" => t.line)
WantDown(t) == IF t.act = "updown" THEN t.line ELSE t.sw

\* The counter is anchored anew, at the count in its register.
Anchored(t) ==
    LET phase == PhaseOf(t)
        next == NextPhase(t, phase)
    IN [t EXCEPT !.run = TRUE, !.cnt = 0, !.since = phase * t.div, !.phase = next,
                 !.due = IF next > phase THEN (next - phase) * t.div ELSE 1]

\* avr_tca_reschedule
Reschedule(t) ==
    LET s == [Stop(t) EXCEPT !.counted = FALSE]
    IN EmitWo(IF ~ShouldRun(s) THEN s
              ELSE Anchored([s EXCEPT !.div = s.clk,
                                      !.down = IF Dual(s) THEN @ ELSE WantDown(s)]))

Matched(t, cnt) == IF t.cmp = cnt THEN Flagged(t, {"CMP"}) ELSE t

Due == c.due # Never /\ c.due <= 0
Instruction == ~Due /\ c.flags = {} /\ ~c.counted

\* avr_tca_event; the period begins in the cycle it was due to.
Event ==
    /\ Due
    /\ LET wraps == c.phase >= Period(c)
           t == IF wraps THEN Update(Flagged([c EXCEPT !.since = -c.due], {"OVF"}), FALSE) ELSE c
           phase == IF wraps THEN 0 ELSE c.phase
           next == NextPhase(t, phase)
           due == next * t.div - t.since
       IN c' = EmitWo([Matched(t, CountAt(t, phase).cnt) EXCEPT
                           !.phase = next, !.due = IF due <= c.due THEN c.due + 1 ELSE due])

\* avr_tca_event_tick
Tick(t) ==
    LET wraps == IF t.sw THEN t.cnt = 0 ELSE t.cnt >= t.per
        cnt == CASE wraps -> IF t.sw THEN t.per ELSE 0
                 [] OTHER -> t.cnt + (IF t.sw THEN -1 ELSE 1)
        s == IF wraps THEN Update(Flagged(t, {"OVF"}), FALSE) ELSE t
    IN EmitWo([Matched(s, cnt) EXCEPT !.cnt = cnt, !.counted = TRUE])

\* avr_tca_ev_input
Input ==
    LET t == [c EXCEPT !.line = ~@]
    IN c' = CASE t.enable /\ t.act = "edge" /\ t.line -> Tick(t)
              [] t.enable /\ t.act \in {"high", "updown"} -> Reschedule(t)
              [] OTHER -> t

Pass ==
    /\ c.due > -Overshoot /\ c.flags = {} /\ ~(c.counted /\ ~Due)
    /\ LET t == [c EXCEPT !.since = @ + 1, !.due = @ - 1]
       IN c' = [t EXCEPT !.counted = Position(t) # Position(c) \/ @]

-----------------------------------------------------------------------------
(* Registers *)

\* avr_tca_sched_write: the count is taken under the old configuration.
WriteCtrla(enable, clk) == Instruction /\ c' = Reschedule([Stop(c) EXCEPT !.enable = enable, !.clk = clk])
WriteCtrlb(mode) == Instruction /\ c' = Reschedule([Stop(c) EXCEPT !.mode = mode])
WriteEvctrl(act) == Instruction /\ c' = Reschedule([Stop(c) EXCEPT !.act = act])
WriteCnt(n) == Instruction /\ c' = Reschedule([Stop(c) EXCEPT !.cnt = n])

\* Mutant: a timer that runs goes on as it was scheduled.
Unscheduled(t, per, cmp) == EmitWo([t EXCEPT !.per = per, !.cmp = cmp])

\* avr_tca_cfg_write
Configured(t, per, cmp) ==
    IF t.enable THEN Reschedule([Stop(t) EXCEPT !.per = per, !.cmp = cmp])
    ELSE EmitWo([t EXCEPT !.per = per, !.cmp = cmp])

WritePer(n) == Instruction /\ c' = Configured(c, n, c.cmp)
WriteCmp(n) == Instruction /\ c' = Configured(c, c.per, n)

\* avr_tca_buf_write
WriteBuffer(b, n) ==
    /\ Instruction
    /\ c' = [c EXCEPT !.buf = [x \in DOMAIN @ \cup {b} |-> IF x = b THEN n ELSE @[x]]]

\* avr_tca_ctrlf_write
ClearBuffers(b) ==
    Instruction /\ c' = [c EXCEPT !.buf = [x \in DOMAIN @ \ {b} |-> @[x]]]

\* avr_tca_ctrle_write
SetLock(lupd) == Instruction /\ c' = Reschedule([Stop(c) EXCEPT !.lupd = lupd])
SetDirection(down) ==
    Instruction /\ c' = Reschedule([Stop(c) EXCEPT !.sw = down,
                                            !.down = IF c.act = "updown" THEN @ ELSE down])
CommandUpdate == Instruction /\ c' = Reschedule(Update(Stop(c), TRUE))
Restart == Instruction /\ c' = Reschedule([Stop(c) EXCEPT !.cnt = 0, !.sw = FALSE, !.down = FALSE])

\* tca_hard_reset: the event line and the clock's last prescaler are no registers.
HardReset(t) == [Off EXCEPT !.line = t.line, !.div = t.div]
CommandReset == Instruction /\ ~c.enable /\ c' = Reschedule(HardReset(Stop(c)))

\* avr_tca_intflags_write
ClearFlags == ~Due /\ (c.flags # {} \/ c.counted) /\ c' = [c EXCEPT !.flags = {}, !.counted = FALSE]

\* avr_reset with avr_tca_reset
Reset == c' = Off

-----------------------------------------------------------------------------
Next ==
    \/ Event \/ Input \/ Pass
    \/ \E enable \in BOOLEAN, clk \in Divs : WriteCtrla(enable, clk)
    \/ \E mode \in Modes : WriteCtrlb(mode)
    \/ \E act \in Actions : WriteEvctrl(act)
    \/ \E n \in Word : WriteCnt(n) \/ WriteCmp(n)
    \/ \E n \in Tops : WritePer(n)
    \/ \E b \in Buffers : ClearBuffers(b) \/ \E n \in Tops : WriteBuffer(b, n)
    \/ \E b \in BOOLEAN : SetLock(b) \/ SetDirection(b)
    \/ CommandUpdate \/ Restart \/ CommandReset \/ ClearFlags \/ Reset

Spec == Init /\ [][Next]_c

-----------------------------------------------------------------------------
(* Properties *)

TypeOK ==
    /\ c.enable \in BOOLEAN /\ c.clk \in Divs /\ c.mode \in Modes /\ c.act \in Actions
    /\ c.line \in BOOLEAN /\ {c.cmp, c.cnt} \subseteq Word /\ c.per \in Tops
    /\ DOMAIN c.buf \subseteq Buffers /\ c.lupd \in BOOLEAN /\ c.sw \in BOOLEAN /\ c.down \in BOOLEAN
    /\ c.run \in BOOLEAN /\ c.div \in Divs /\ c.since \in Nat /\ c.phase \in Nat
    /\ c.due \in Int /\ c.flags \subseteq {"OVF", "CMP"} /\ c.wo \in BOOLEAN

\* The timer is armed exactly while the clock moves the counter, and a count
\* that the clock has reached, and no new configuration since, has its match
\* flagged (avr_tca_reschedule, tca_next_phase, avr_tca_event).
WorkIsTimed ==
    /\ c.run <=> c.due # Never
    /\ c.run <=> ShouldRun(c)
    /\ ~Due /\ c.counted /\ Position(c).cnt = c.cmp => "CMP" \in c.flags

\* The output is that of the count, but for a single slope that counts down:
\* no timer waits for the count that follows the match (tca_next_phase,
\* tca_emit_wo).
OutputFollowsCount == ~Due /\ ~(c.mode = "single" /\ c.down) => c.wo = WoLevel(c)

=============================================================================
