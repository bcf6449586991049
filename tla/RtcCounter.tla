----------------------------- MODULE RtcCounter -----------------------------
(***************************************************************************)
(* What the counter of the modern RTC promises (the comment at the head of *)
(* avr_rtc.c): a prescaled up-counter 0 .. PER that is seen to step, cycle *)
(* by cycle, with a flag and an interrupt for the wrap and for CMP.        *)
(***************************************************************************)
EXTENDS Naturals

CONSTANTS
    Rates,     \* cycles per count
    Counts     \* values of CNT, PER and CMP; the greatest is PER's at reset

VARIABLES
    on,        \* RTCEN
    rate, len, \* cycles per count, by the registers and of the current count
    count,     \* CNT
    into,      \* cycles the current count has lasted
    per, cmp,
    flags, inten,   \* INTFLAGS, INTCTRL
    asked      \* the vector is pending

settings == <<on, rate, len, per, cmp>>
counter == <<count, into>>
interrupt == <<flags, inten, asked>>
vars == <<settings, counter, interrupt>>

Sources == {"OVF", "CMP"}

Init ==
    /\ on = FALSE /\ rate \in Rates /\ len \in Rates /\ count = 0 /\ into = 0
    /\ per \in Counts /\ (\A n \in Counts : n <= per) /\ cmp = 0
    /\ flags = {} /\ inten = {} /\ asked = FALSE

-----------------------------------------------------------------------------
Happens(events) ==
    /\ flags' = flags \cup events
    /\ asked' = (asked \/ events \cap inten # {})

\* The last count wraps, and one past PER does so at once.
Wrap ==
    /\ count >= per
    /\ count' = 0
    /\ Happens({"OVF"} \cup (IF cmp = 0 THEN {"CMP"} ELSE {}))

CountUp ==
    /\ count < per
    /\ count' = count + 1
    /\ Happens(IF count' = cmp THEN {"CMP"} ELSE {})

Lasts == into + 1 < len /\ count <= per

\* A CPU cycle passes.
Cycle ==
    /\ on
    /\ \/ Lasts /\ into' = into + 1 /\ UNCHANGED <<count, flags, asked>>
       \/ ~Lasts /\ into' = 0 /\ (Wrap \/ CountUp)
    /\ UNCHANGED <<settings, inten>>

\* A register is written.  The count that runs starts over, at the rate of now.
Write ==
    /\ on' \in BOOLEAN /\ rate' \in Rates /\ per' \in Counts /\ cmp' \in Counts
    /\ len' = IF on' THEN rate' ELSE len
    /\ count' \in Counts /\ (count' # count => UNCHANGED <<on, rate, per, cmp>>)
    /\ into' = 0
    /\ UNCHANGED interrupt

\* The clock of the CPU changes; the count that runs does not follow.
ChangeClock == rate' \in Rates /\ UNCHANGED <<on, len, per, cmp, counter, interrupt>>

\* INTCTRL is written: a flag that is set already asks at once.
Enable(sources) ==
    /\ inten' = sources
    /\ asked' = (asked \/ flags \cap sources # {})
    /\ UNCHANGED <<settings, counter, flags>>

\* INTFLAGS is written.
Clear(sources) ==
    /\ flags' = flags \ sources
    /\ asked' = (asked /\ flags' # {})
    /\ UNCHANGED <<settings, counter, inten>>

\* The vector is served; its flags stay.
Serve ==
    /\ asked /\ inten # {}
    /\ asked' = FALSE
    /\ UNCHANGED <<settings, counter, flags, inten>>

Reset == Init' /\ UNCHANGED len

Next ==
    \/ Cycle \/ Write \/ ChangeClock
    \/ \E sources \in SUBSET Sources : Enable(sources) \/ Clear(sources)
    \/ Serve \/ Reset

Spec == Init /\ [][Next]_vars

=============================================================================
