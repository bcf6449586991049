------------------------------- MODULE Extint -------------------------------
(***************************************************************************)
(* An external interrupt of the classic cores (avr_extint.c): edge and     *)
(* level sensing, and the timer that looks at the pin every cycle while a  *)
(* low level requests the interrupt.                                       *)
(***************************************************************************)
EXTENDS Integers

CONSTANTS
    MaxPolls    \* polling timers explored; the code never runs a second one

WellFormed == MaxPolls \in Nat

VARIABLES
    part,
    pin,                \* the level of the pin, and of its IRQ
    isc,                \* the sense: low level, both edges, falling, rising
    enable, flag,       \* EIMSK, EIFR
    pending, sregI,
    live,               \* p->eint[no].poll_live
    polls,              \* timers of avr_extint_poll_level_trig that are armed
    level               \* history: the level requested it, and is low since

request == <<flag, pending>>
polling == <<live, polls, level>>
vars == <<part, pin, isc, enable, request, sregI, polling>>

Senses == {"low", "both", "falling", "rising"}

Init ==
    /\ pin = 1 /\ isc = "low" /\ enable = FALSE /\ flag = FALSE
    /\ pending = FALSE /\ sregI = FALSE
    /\ live = FALSE /\ polls = 0 /\ level = FALSE

-----------------------------------------------------------------------------
\* Mutant: a poll is started for every request.
StartsEach == TRUE

Starts == ~live

\* avr_extint_start_poll
StartPoll ==
    IF Starts
    THEN polls < MaxPolls /\ polls' = polls + 1 /\ live' = TRUE
    ELSE UNCHANGED <<polls, live>>

\* avr_extint_raise_level of an interrupt that is enabled or not, and the poll
\* that follows the request.
RaiseLevel(enabled) ==
    /\ flag' = FALSE
    /\ pending' = (pending \/ enabled)
    /\ IF pending' THEN StartPoll /\ level' = TRUE ELSE UNCHANGED polling

\* avr_raise_interrupt
Raise == flag' = TRUE /\ pending' = (pending \/ enable) /\ UNCHANGED polling

\* A rising pin, another sense or a reset ends what the level asked for.
Quiet(p, sense) == level' = (level /\ p = 0 /\ sense = "low")

Edge(v) ==
    \/ isc = "both" /\ v # pin
    \/ isc = "falling" /\ v < pin
    \/ isc = "rising" /\ v > pin

\* avr_extint_irq_notify
PinIs(v) ==
    /\ pin' = v
    /\ \/ isc = "low" /\ v = 0 /\ ~flag /\ ~pending /\ RaiseLevel(enable)
       \/ isc = "low" /\ v = 0 /\ (flag \/ pending) /\ UNCHANGED <<request, polling>>
       \/ /\ isc = "low" /\ v = 1
          /\ flag' = FALSE /\ pending' = FALSE
          /\ Quiet(v, isc) /\ UNCHANGED <<live, polls>>
       \/ Edge(v) /\ Raise
       \/ isc # "low" /\ ~Edge(v) /\ UNCHANGED <<request, polling>>
    /\ UNCHANGED <<part, isc, enable, sregI>>

\* avr_extint_level_write with avr_extint_level_recheck
WriteSense(sense, on) ==
    /\ isc' = sense /\ enable' = on
    /\ IF sense = "low" /\ on /\ pin = 0 /\ ~pending
       THEN RaiseLevel(on)
       ELSE /\ flag' = (flag /\ sense # "low")
            /\ Quiet(pin, sense)
            /\ UNCHANGED <<pending, live, polls>>
    /\ UNCHANGED <<part, pin, sregI>>

\* avr_extint_poll_level_trig
Poll ==
    /\ polls > 0
    /\ IF isc # "low" \/ pin = 1
       THEN polls' = polls - 1 /\ live' = FALSE /\ UNCHANGED <<request, level>>
       ELSE /\ IF sregI /\ ~flag /\ ~pending
               THEN pending' = enable /\ flag' = FALSE /\ level' = (level \/ enable)
               ELSE UNCHANGED <<request, level>>
            /\ UNCHANGED <<live, polls>>
    /\ UNCHANGED <<part, pin, isc, enable, sregI>>

\* The vector is served, which clears the flag, or dropped if it is masked by
\* now.
Serve ==
    /\ pending /\ sregI
    /\ pending' = FALSE
    /\ flag' = (flag /\ ~enable)
    /\ sregI' = ~enable
    /\ UNCHANGED <<part, pin, isc, enable, polling>>

\* SEI, CLI and RETI
SetI(i) == sregI' = i /\ UNCHANGED <<part, pin, isc, enable, request, polling>>

\* avr_reset with avr_extint_reset
Reset ==
    /\ isc' = "low" /\ enable' = FALSE /\ flag' = FALSE
    /\ pending' = FALSE /\ sregI' = FALSE
    /\ live' = FALSE /\ polls' = 0 /\ level' = FALSE
    /\ UNCHANGED <<part, pin>>

Next ==
    \/ \E v \in {0, 1} : PinIs(v)
    \/ \E sense \in Senses, on \in BOOLEAN :
          WriteSense(sense, enable) \/ WriteSense(isc, on)
    \/ Poll \/ Serve \/ \E i \in BOOLEAN : SetI(i)
    \/ Reset

Spec == Init /\ [][Next]_vars

-----------------------------------------------------------------------------
(* Properties *)

TypeOK ==
    /\ pin \in {0, 1} /\ isc \in Senses /\ enable \in BOOLEAN
    /\ flag \in BOOLEAN /\ pending \in BOOLEAN /\ sregI \in BOOLEAN
    /\ live \in BOOLEAN /\ polls \in 0 .. MaxPolls /\ level \in BOOLEAN

\* One timer polls the pin exactly while poll_live says so; a low level that
\* requested the interrupt is polled until the pin rises or the sense changes,
\* so it requests again after each service; and a level leaves no flag.
WorkIsTimed ==
    /\ polls = IF live THEN 1 ELSE 0
    /\ level => live
    /\ flag => isc # "low"

=============================================================================
