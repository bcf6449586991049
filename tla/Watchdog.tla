------------------------------ MODULE Watchdog ------------------------------
(***************************************************************************)
(* The classic watchdog (avr_watchdog.c): the timed sequence that guards   *)
(* WDTCSR, the time-out that interrupts or resets, and the reset handler.  *)
(*                                                                         *)
(* Time is counted down in the two cycle timers.  An instruction takes one *)
(* cycle and begins when no timer is due, as the run loop has it.          *)
(***************************************************************************)
EXTENDS Integers

CONSTANTS
    Count,     \* cycles to a time-out, for each prescaler value
    Window,    \* cycles the change window stays open
    Elapsed,   \* values of avr->cycle when a reset comes
    Far        \* history: cycles are counted up to here

VARIABLES
    part,      \* .exact, and .alwaysOn for the WDTON fuse
    wde, wdie, wdif, wdce, wdp, \* WDTCSR
    wdrf,      \* in MCUSR
    count,     \* p->cycle_count
    timeout,   \* the cycles left of avr_watchdog_timer, or Off
    window,    \* the cycles left of avr_wdce_clear, or Off
    pending,   \* the vector is pending
    since,     \* history: cycles since WDCE and WDE were written as ones
    missed     \* history: time-outs since the firmware last showed up

control == <<wde, wdie, wdif, wdce, wdp>>
vars == <<part, control, wdrf, count, timeout, window, pending, since, missed>>

Off == -1

Registers == [wde : BOOLEAN, wdie : BOOLEAN, wdif : BOOLEAN, wdce : BOOLEAN,
              wdp : DOMAIN Count]

On == wde \/ wdie

\* What the constants are: a time-out takes a cycle at least, and a reset may
\* come at cycle 0.
WellFormed ==
    /\ Count \in [DOMAIN Count -> Nat \ {0}] /\ 0 \in DOMAIN Count
    /\ Window \in Nat /\ Far \in Nat \ {0}
    /\ Elapsed \subseteq Nat /\ 0 \in Elapsed

Init ==
    /\ wde = part.alwaysOn /\ wdie = FALSE /\ wdif = FALSE /\ wdce = FALSE
    /\ wdp = 0 /\ wdrf = FALSE
    /\ count = IF part.alwaysOn THEN Count[0] ELSE 0
    /\ timeout = IF part.alwaysOn THEN Count[0] ELSE Off
    /\ window = Off /\ pending = FALSE
    /\ since = Far /\ missed = 0

\* A cycle passes for a timer.
Pass(t) == IF t > 0 THEN t - 1 ELSE t

Instruction == timeout # 0 /\ window # 0

\* A cycle passes for the history.
Older == IF since < Far THEN since + 1 ELSE Far

-----------------------------------------------------------------------------
(* Register writes *)

\* Mutant: a new prescaler leaves a running time-out alone.
RestartedIf(wasOn, newPrescaler) == wasOn # On'

\* The time-out starts again when it is switched on or gets another length.
RestartsIf(wasOn, newPrescaler) == wasOn # On' \/ newPrescaler

\* avr_watchdog_set_cycle_count_and_timer; the instruction takes a cycle.
SetCycleCountAndTimer(newPrescaler) ==
    /\ count' = Count[wdp']
    /\ timeout' = Pass(IF ~RestartsIf(On, newPrescaler) THEN timeout
                       ELSE IF On' THEN count' ELSE Off)

\* With WDTON programmed WDE reads as one and WDTIE as zero.
AsFused(v) ==
    IF part.alwaysOn THEN [v EXCEPT !.wde = TRUE, !.wdie = FALSE] ELSE v

\* The interrupt flag after a write.  An exact part clears it by a one, and
\* the request with it; the others store what is written with the register.
FlagWritten(v, stored) ==
    /\ wdif' = IF part.exact THEN wdif /\ ~v.wdif ELSE IF stored THEN v.wdif ELSE wdif
    /\ pending' = (pending /\ ~(part.exact /\ v.wdif))

\* Inside the window everything is written, WDE only if WDRF is clear.
WriteInWindow(v) ==
    /\ Instruction /\ wdce
    /\ wdce' = v.wdce /\ wdie' = v.wdie /\ wdp' = v.wdp
    /\ wde' = (v.wde \/ wdrf)
    /\ SetCycleCountAndTimer(v.wdp # wdp)
    /\ window' = Pass(window)
    /\ FlagWritten(v, TRUE)

\* Mutant: the window is opened without a timer to close it.
OpenedForGood == Pass(window)

OpenedWindow == Pass(Window)

\* WDCE and WDE open the window and change nothing else.
OpenWindow(v) ==
    /\ Instruction /\ ~wdce /\ v.wdce /\ v.wde
    /\ wdce' = TRUE
    /\ window' = OpenedWindow
    /\ timeout' = Pass(timeout)
    /\ FlagWritten(v, FALSE)
    /\ UNCHANGED <<wde, wdie, wdp, count>>

\* Outside the window WDE can only be set, and WDTIE written.
WriteOutside(v) ==
    /\ Instruction /\ ~wdce /\ ~(v.wdce /\ v.wde)
    /\ wde' = (wde \/ v.wde) /\ wdie' = v.wdie
    /\ UNCHANGED <<wdce, wdp>>
    /\ SetCycleCountAndTimer(FALSE)
    /\ window' = Pass(window)
    /\ FlagWritten(v, FALSE)

\* avr_watchdog_write
Write(v) ==
    /\ LET w == AsFused(v) IN WriteInWindow(w) \/ OpenWindow(w) \/ WriteOutside(w)
    /\ since' = IF AsFused(v).wdce /\ AsFused(v).wde THEN 1 ELSE Older
    /\ missed' = 0
    /\ UNCHANGED <<part, wdrf>>

\* MCUSR is written: the reset flag is cleared.
ClearResetFlag ==
    /\ Instruction
    /\ wdrf' = FALSE
    /\ timeout' = Pass(timeout) /\ window' = Pass(window) /\ since' = Older
    /\ UNCHANGED <<part, control, count, pending, missed>>

-----------------------------------------------------------------------------
(* Other instructions *)

Plain ==
    /\ Instruction
    /\ timeout' = Pass(timeout) /\ window' = Pass(window) /\ since' = Older
    /\ UNCHANGED <<part, control, wdrf, count, pending, missed>>

\* The WDR instruction.
Wdr ==
    /\ Instruction
    /\ timeout' = Pass(IF On THEN count ELSE timeout)
    /\ window' = Pass(window) /\ since' = Older /\ missed' = 0
    /\ UNCHANGED <<part, control, wdrf, count, pending>>

\* The vector is served, unless it was masked since.  With WDE set the first
\* time-out takes the interrupt and the next one resets.
Serve ==
    /\ Instruction /\ pending
    /\ pending' = FALSE
    /\ IF wdie
       THEN /\ wdie' = ~(wdif /\ wde)
            /\ wdif' = FALSE /\ missed' = 0
       ELSE UNCHANGED <<wdie, wdif, missed>>
    /\ UNCHANGED <<part, wde, wdce, wdp, wdrf, count, timeout, window, since>>

-----------------------------------------------------------------------------
(* Resets *)

\* avr_reset with the reset flag rf: the registers and timers are cleared,
\* then the handler starts the time-out against the clock of before.
AvrReset(rf) ==
    /\ wdrf' = rf
    /\ wde' = (rf \/ part.alwaysOn)
    /\ wdie' = FALSE /\ wdif' = FALSE /\ wdce' = FALSE /\ wdp' = 0
    /\ IF wde'
       THEN count' = Count[0] /\ \E e \in Elapsed : timeout' = Count[0] + e
       ELSE timeout' = Off /\ UNCHANGED count
    /\ window' = Off /\ pending' = FALSE
    /\ since' = Far /\ missed' = 0
    /\ UNCHANGED part

\* A reset by a host.
Reset == AvrReset(wdrf)

-----------------------------------------------------------------------------
(* avr_watchdog_timer and avr_wdce_clear *)

\* Mutant: an interrupt that was never served is raised again for ever.
HungUnseen == FALSE

\* The interrupt of the last time-out has not been served.
Hung == part.exact /\ wde /\ wdif /\ wdie

TimeoutInterrupts ==
    /\ timeout = 0 /\ ~Hung /\ wdie
    /\ wdif' = TRUE /\ pending' = TRUE
    /\ timeout' = count
    /\ missed' = IF missed < 2 THEN missed + 1 ELSE missed
    /\ UNCHANGED <<part, wde, wdie, wdce, wdp, wdrf, count, window, since>>

TimeoutResets == timeout = 0 /\ (Hung \/ (wde /\ ~wdie)) /\ AvrReset(TRUE)

WindowCloses ==
    /\ window = 0
    /\ window' = Off /\ wdce' = FALSE
    /\ UNCHANGED <<part, wde, wdie, wdif, wdp, wdrf, count, timeout, pending, since,
                   missed>>

-----------------------------------------------------------------------------
Next ==
    \/ \E v \in Registers : Write(v)
    \/ ClearResetFlag \/ Plain \/ Wdr \/ Serve
    \/ TimeoutInterrupts \/ TimeoutResets \/ WindowCloses \/ Reset

Spec == Init /\ [][Next]_vars

-----------------------------------------------------------------------------
(* Properties *)

TypeOK ==
    /\ wde \in BOOLEAN /\ wdie \in BOOLEAN /\ wdif \in BOOLEAN /\ wdce \in BOOLEAN
    /\ wdp \in DOMAIN Count /\ wdrf \in BOOLEAN
    /\ count \in Nat /\ timeout \in Nat \cup {Off} /\ window \in Nat \cup {Off}
    /\ pending \in BOOLEAN /\ since \in 1 .. Far /\ missed \in 0 .. 2

\* The time-out runs exactly while the watchdog is on, with no more to go than
\* its prescaler asks for (later by the old clock after a reset), and an open
\* window is always about to close.
TimersFollowRegisters ==
    /\ On <=> timeout # Off
    /\ On => count = Count[wdp] /\ \E e \in Elapsed : timeout <= Count[wdp] + e
    /\ wdce => window \in 0 .. Window

\* WDE is cleared, or the prescaler changed, only within Window cycles of the
\* write of WDCE and WDE, and WDE never while WDRF is set.
ChangesInSequence ==
    \/ since < Window /\ (wde /\ ~wde' => ~wdrf)
    \/ Reset \/ TimeoutResets
    \/ (wde => wde') /\ wdp' = wdp

\* An exact part in interrupt and reset mode does not outlive two time-outs
\* that the firmware ignores.
HungIsReset == part.exact /\ wde => missed < 2

=============================================================================
