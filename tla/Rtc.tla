-------------------------------- MODULE Rtc ---------------------------------
(***************************************************************************)
(* The counter of the modern RTC (avr_rtc.c).  It does not step: CNT is    *)
(* computed from the cycle the counter stood at 0, and one cycle timer     *)
(* waits for the next count that matters.  The PIT, which is a plain       *)
(* periodic timer, and the synchronisation busy bits are left out.         *)
(*                                                                         *)
(* Cycles are counted from those of the code: age = avr->cycle - cnt_start *)
(* and due = when - avr->cycle.  The bytes of a register are written as    *)
(* one; what only one of them makes of it is another value.                *)
(***************************************************************************)
EXTENDS Integers

CONSTANTS
    Rates,      \* rtc_cnt_cpu_per_tick
    Counts,     \* values of CNT, PER and CMP
    Overshoot   \* cycles the core runs past a timer that is due

WellFormed ==
    /\ Rates \in SUBSET (Nat \ {0}) /\ Overshoot \in Nat
    /\ Counts \in SUBSET Nat /\ \E n \in Counts : Counts = 0 .. n

VARIABLES
    part,
    on,         \* RTCEN
    rate,       \* rtc_cnt_cpu_per_tick of CLKSEL, the prescaler and the clock
    cpt,        \* p->cnt_cpt
    cnt, per, cmp,  \* the registers; CNT is refreshed when it is read
    age,        \* avr->cycle - p->cnt_start, while it runs
    target,     \* p->ev_target
    due,        \* cycles until the timer of avr_rtc_cnt_event, or Never
    flags, inten, pending

settings == <<on, rate, per, cmp>>
timing == <<cpt, age, target, due>>
request == <<flags, pending>>
vars == <<part, settings, cnt, timing, request, inten>>

Never == -Overshoot - 1
Sources == {"OVF", "CMP"}
Most == CHOOSE n \in Counts : \A k \in Counts : k <= n

Init ==
    /\ on = FALSE /\ rate \in Rates /\ cpt = rate
    /\ cnt = 0 /\ per = Most /\ cmp = 0
    /\ age = 0 /\ target = 0 /\ due = Never
    /\ flags = {} /\ inten = {} /\ pending = FALSE

-----------------------------------------------------------------------------
\* rtc_cnt_now
Now == (age \div cpt) % (per + 1)

\* Mutant: a compare value of the current count is waited for again.
TargetFrom(top, match, from) ==
    IF match \in from .. top /\ match >= 1 THEN match ELSE top + 1

\* rtc_next_target
NextTarget(top, match, from) ==
    IF match \in from + 1 .. top THEN match ELSE top + 1

\* avr_rtc_cnt_reschedule, at the count c.
Reschedule(c) ==
    IF on'
    THEN /\ cpt' = rate'
         /\ age' = c * cpt'
         /\ target' = NextTarget(per', cmp', c)
         /\ due' = IF target' > c THEN (target' - c) * cpt' ELSE 1
    ELSE due' = Never /\ UNCHANGED <<cpt, age, target>>

\* Mutant: the count is not latched before the phase is anchored anew.
Stale == cnt

\* rtc_latch_cnt
Latched == IF on THEN Now ELSE cnt

\* A timer that is due runs before the next instruction, and so does the one
\* that waits a cycle because CNT is past PER.
Instruction == ~on \/ (due > 0 /\ age \div cpt <= per)

-----------------------------------------------------------------------------
(* Writes *)

\* avr_rtc_ctrla_write and avr_rtc_clksel_write
WriteClock(enable, r) ==
    /\ Instruction
    /\ on' = enable /\ rate' = r /\ cnt' = Latched
    /\ UNCHANGED <<part, per, cmp, request, inten>>
    /\ Reschedule(cnt')

\* avr_rtc_per_write and avr_rtc_cmp_write
WriteLimits(top, match) ==
    /\ Instruction
    /\ per' = top /\ cmp' = match /\ cnt' = Latched
    /\ UNCHANGED <<part, on, rate, request, inten>>
    /\ Reschedule(cnt')

\* avr_rtc_cnt_write
WriteCount(c) ==
    /\ Instruction
    /\ cnt' = c
    /\ UNCHANGED <<part, settings, request, inten>>
    /\ Reschedule(c)

\* avr_rtc_cnt_read
ReadCount == Instruction /\ cnt' = Latched /\ UNCHANGED <<part, settings, timing, request, inten>>

\* avr_rtc_intctrl_write
WriteInten(sources) ==
    /\ Instruction
    /\ inten' = sources
    /\ pending' = (pending \/ flags \cap sources # {})
    /\ UNCHANGED <<part, settings, cnt, timing, flags>>

\* avr_rtc_intflags_write
WriteFlags(clears) ==
    /\ Instruction /\ clears # {}
    /\ flags' = flags \ clears
    /\ pending' = (pending /\ flags' # {})
    /\ UNCHANGED <<part, settings, cnt, timing, inten>>

\* The CPUINT controller serves the vector; raise_sticky keeps the flags.
Serve ==
    /\ Instruction /\ pending /\ inten # {}
    /\ pending' = FALSE
    /\ UNCHANGED <<part, settings, cnt, timing, flags, inten>>

\* The clock controller changes avr->frequency.
ChangeClock(r) ==
    r # rate /\ rate' = r /\ UNCHANGED <<part, on, per, cmp, cnt, timing, request, inten>>

\* avr_reset with avr_rtc_reset
Reset ==
    /\ on' = FALSE /\ rate' \in Rates
    /\ cnt' = 0 /\ per' = Most /\ cmp' = 0
    /\ age' = 0 /\ target' = 0 /\ due' = Never
    /\ flags' = {} /\ inten' = {} /\ pending' = FALSE
    /\ UNCHANGED <<part, cpt>>

-----------------------------------------------------------------------------
(* Time *)

Pass ==
    /\ on /\ due > -Overshoot
    /\ age' = age + 1 /\ due' = due - 1
    /\ UNCHANGED <<part, settings, cnt, cpt, target, request, inten>>

\* rtc_cnt_flag, for each of the events
Flag(events) ==
    /\ flags' = flags \cup events
    /\ pending' = (pending \/ events \cap inten # {})

\* avr_rtc_cnt_event: the wrap, whose cycle is the new cnt_start, or CMP.
Event ==
    /\ on /\ due <= 0
    /\ UNCHANGED <<part, settings, cnt, cpt, inten>>
    /\ IF target > per
       THEN /\ Flag({"OVF"} \cup (IF cmp = 0 THEN {"CMP"} ELSE {}))
            /\ age' = -due
            /\ target' = NextTarget(per, cmp, 0)
       ELSE /\ Flag({"CMP"} \cap {IF cmp = target THEN "CMP" ELSE "none"})
            /\ target' = NextTarget(per, cmp, target)
            /\ UNCHANGED age
    /\ due' = target' * cpt - age'

-----------------------------------------------------------------------------
Next ==
    \/ \E enable \in BOOLEAN, r \in Rates :
          WriteClock(enable, rate) \/ WriteClock(on, r)
    \/ \E n \in Counts : WriteLimits(n, cmp) \/ WriteLimits(per, n) \/ WriteCount(n)
    \/ ReadCount
    \/ \E sources \in SUBSET Sources : WriteInten(sources) \/ WriteFlags(sources)
    \/ Serve \/ \E r \in Rates : ChangeClock(r)
    \/ Reset \/ Pass \/ Event

Spec == Init /\ [][Next]_vars

-----------------------------------------------------------------------------
(* Properties *)

TypeOK ==
    /\ on \in BOOLEAN /\ rate \in Rates /\ cpt \in Rates
    /\ cnt \in Counts /\ per \in Counts /\ cmp \in Counts
    /\ age \in Nat /\ target \in 0 .. Most + 1 /\ due \in Int
    /\ flags \subseteq Sources /\ inten \subseteq Sources /\ pending \in BOOLEAN

\* The timer is armed exactly while the counter is on, for the next count that
\* matters, and the vector is requested for a flag only.
WorkIsTimed ==
    /\ (due # Never) <=> on
    /\ on /\ due > 1 => due = target * cpt - age
    /\ pending => flags # {}

\* What has happened by now, whether or not the timer has run.
Wrapped == IF target > per THEN -due ELSE age - (per + 1) * cpt
HasWrapped == on /\ due <= 0 /\ Wrapped >= 0
HasMatched ==
    /\ on /\ due <= 0
    /\ \/ target <= per
       \/ HasWrapped /\ cmp <= per /\ cmp * cpt <= Wrapped

Owed ==
    (IF HasWrapped THEN {"OVF"} ELSE {}) \cup
    (IF HasMatched THEN {"CMP"} ELSE {})

Position == IF HasWrapped THEN Wrapped % ((per + 1) * cpt) ELSE age

Counter == INSTANCE RtcCounter WITH
    len <- cpt,
    count <- IF on THEN Position \div cpt ELSE cnt,
    into <- IF on THEN Position % cpt ELSE 0,
    flags <- flags \cup Owed,
    asked <- (pending \/ Owed \cap inten # {})

\* Though CNT is computed when it is needed and one timer stands for many counts,
\* the counter, its flags and its request are those of one that counts in every
\* cycle (rtc_cnt_now, rtc_next_target, avr_rtc_cnt_event).
CountsEveryCycle == Counter!Spec

=============================================================================
