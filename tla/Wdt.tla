-------------------------------- MODULE Wdt --------------------------------
(***************************************************************************)
(* The modern watchdog (avr_wdt.c) and the reset controller it asks for a  *)
(* reset (avr_rstctrl.c), which swaps avr->run for a callback that resets. *)
(* A debugger that a crash attaches swaps avr->run as well (sim_gdb.c).    *)
(*                                                                         *)
(* avr_run executes a burst of instructions, of one cycle each, that ends  *)
(* at the latest when the watchdog's timer is due.                         *)
(***************************************************************************)
EXTENDS Integers, Ccp

CONSTANTS
    Clocks,        \* watchdog clocks for each field value, 0 for off or reserved
    Frequencies,   \* avr->frequency, in cycles to a watchdog clock
    StartFrequency,\* the one CLKCTRL's reset selects
    Outside,       \* causes of resets the board asks for
    Late           \* armed_at is remembered for so many cycles

VARIABLES
    part,          \* .port: the host has set avr->gdb_port
    period, windowed, locked, \* CTRLA and STATUS
    frequency,
    timeoutCycles, windowCycles,
    timeout,       \* the cycles left of avr_wdt_modern_timer, or Off
    age,           \* cycles since armed_at
    run, savedRun, \* avr->run and rstctrl's copy
    resetPending, pendingCause, rstfr,
    cpu,           \* avr->state
    gdb,           \* avr->gdb
    burst,         \* avr_run is executing
    usurped        \* history: a debugger took avr->run from a pending reset

wdtVars == <<period, windowed, locked, frequency, timeoutCycles, windowCycles, timeout,
             age>>
resetVars == <<run, savedRun, resetPending, pendingCause, rstfr, cpu, gdb, usurped>>
vars == <<part, ccp, signed, wdtVars, resetVars, burst>>

Off == -1
Fields == DOMAIN Clocks
Causes == {"WDRF", "SWRF"} \cup Outside

\* What the constants are: the field value 0 is off, and the longest time-out
\* is over before armed_at is forgotten.
WellFormed ==
    /\ Clocks \in [Fields -> Nat] /\ 0 \in Fields /\ Clocks[0] = 0
    /\ Frequencies \subseteq Nat /\ StartFrequency \in Frequencies
    /\ Late \in Nat \ {0} /\ \A v \in Fields, f \in Frequencies : Clocks[v] * f <= Late

Init ==
    /\ CcpInit
    /\ period = 0 /\ windowed = 0 /\ locked = FALSE
    /\ frequency = StartFrequency
    /\ timeoutCycles = 0 /\ windowCycles = 0 /\ timeout = Off /\ age = 0
    /\ run = "raw" /\ savedRun = "raw"
    /\ resetPending = FALSE /\ pendingCause = {} /\ rstfr = {"PORF"}
    /\ cpu = "running" /\ gdb = FALSE /\ burst = FALSE /\ usurped = FALSE

\* A cycle passes for a timer, and for the history.
Pass(t) == IF t > 0 THEN t - 1 ELSE t
Older(a) == IF a < Late THEN a + 1 ELSE Late

\* wdt_field_cycles at the present clock
FieldCycles(v) == Clocks[v] * frequency

-----------------------------------------------------------------------------
(* Instructions *)

Executes == burst /\ cpu = "running" /\ timeout # 0

\* What every instruction leaves alone, and the time it takes.
Ticks == timeout' = Pass(timeout) /\ age' = Older(age)
KeepsWdt == UNCHANGED <<period, windowed, locked, frequency, timeoutCycles, windowCycles>>
KeepsReset == UNCHANGED resetVars

\* Mutant: a second request takes the reset callback for the normal one.
AlwaysSaves == TRUE

FirstRequest == ~resetPending

\* avr_rstctrl_request_reset
RequestReset(cause) ==
    /\ pendingCause' = pendingCause \cup {cause}
    /\ resetPending' = TRUE
    /\ savedRun' = IF FirstRequest THEN run ELSE savedRun
    /\ run' = IF FirstRequest THEN "reset" ELSE run
    /\ UNCHANGED <<rstfr, cpu, gdb, usurped>>

\* wdt_arm, in an instruction
Arm == timeout' = Pass(timeoutCycles') /\ age' = 1

WriteSignature == Executes /\ WriteCcp /\ Ticks /\ KeepsWdt /\ KeepsReset

Plain == Executes /\ OtherInstruction /\ Ticks /\ KeepsWdt /\ KeepsReset

Writable == ~locked /\ Unlocked

\* avr_wdt_modern_ctrla_write
WriteCtrla(p, w) ==
    /\ Executes /\ Writable
    /\ period' = p /\ windowed' = w
    /\ timeoutCycles' = FieldCycles(p) /\ windowCycles' = FieldCycles(w)
    /\ IF timeoutCycles' = 0 THEN timeout' = Off /\ age' = Older(age) ELSE Arm
    /\ OtherInstruction /\ KeepsReset
    /\ UNCHANGED <<locked, frequency>>

\* avr_wdt_modern_status_write
Lock ==
    /\ Executes
    /\ locked' = TRUE
    /\ OtherInstruction /\ Ticks /\ KeepsReset
    /\ UNCHANGED <<period, windowed, frequency, timeoutCycles, windowCycles>>

\* A clock change, inside the window (avr_clkctrl.c).
ChangeClock(f) ==
    /\ Executes /\ Unlocked
    /\ frequency' = f
    /\ OtherInstruction /\ Ticks /\ KeepsReset
    /\ UNCHANGED <<period, windowed, locked, timeoutCycles, windowCycles>>

TooEarly == age < windowCycles

\* The WDR instruction: avr_wdt_modern_ioctl with the watchdog on.
Wdr ==
    /\ Executes /\ timeoutCycles # 0
    /\ OtherInstruction /\ KeepsWdt
    /\ \/ TooEarly /\ RequestReset("WDRF") /\ Ticks
       \/ ~TooEarly /\ Arm /\ KeepsReset

\* avr_rstctrl_swrr_write
SoftwareReset ==
    Executes /\ RequestReset("SWRF") /\ OtherInstruction /\ Ticks /\ KeepsWdt

\* avr_rstctrl_rstfr_write: the written flags are cleared.
ClearFlags(f) ==
    /\ Executes
    /\ rstfr' = rstfr \ f
    /\ OtherInstruction /\ Ticks /\ KeepsWdt
    /\ UNCHANGED <<run, savedRun, resetPending, pendingCause, cpu, gdb, usurped>>

\* An invalid opcode: avr_sadly_crashed attaches a debugger if it has a port.
Crash ==
    /\ Executes
    /\ IF part.port
       THEN /\ cpu' = "stopped" /\ gdb' = TRUE
            /\ run' = IF gdb THEN run ELSE "gdb"
            /\ usurped' = (usurped \/ (~gdb /\ resetPending))
       ELSE cpu' = "crashed" /\ UNCHANGED <<gdb, run, usurped>>
    /\ OtherInstruction /\ Ticks /\ KeepsWdt
    /\ UNCHANGED <<savedRun, resetPending, pendingCause, rstfr>>

Instruction ==
    /\ \/ WriteSignature \/ Plain \/ Lock \/ Wdr \/ SoftwareReset \/ Crash
       \/ \E p, w \in Fields : WriteCtrla(p, w)
       \/ \E f \in Frequencies : ChangeClock(f)
       \/ \E f \in SUBSET (Causes \cup {"PORF"}) : ClearFlags(f)
    /\ UNCHANGED <<part, burst>>

-----------------------------------------------------------------------------
(* avr_run, the timer and the host *)

Begin ==
    /\ ~burst /\ run # "reset" /\ cpu = "running"
    /\ burst' = TRUE
    /\ UNCHANGED <<part, ccp, signed, wdtVars, resetVars>>

\* The burst ends and the cycle timers are processed: avr_wdt_modern_timer.
End ==
    /\ burst
    /\ burst' = FALSE
    /\ IF timeout = 0
       THEN RequestReset("WDRF") /\ timeout' = Off
       ELSE KeepsReset /\ UNCHANGED timeout
    /\ KeepsWdt
    /\ UNCHANGED <<part, ccp, signed, age>>

\* avr_reset with the handlers of the three peripherals.
AvrReset ==
    /\ period' = 0 /\ windowed' = 0 /\ locked' = FALSE
    /\ frequency' = StartFrequency
    /\ timeoutCycles' = 0 /\ windowCycles' = 0 /\ timeout' = Off /\ age' = 0
    /\ rstfr' = pendingCause /\ pendingCause' = {}
    /\ resetPending' = FALSE
    /\ run' = IF resetPending THEN savedRun ELSE run
    /\ cpu' = "running" /\ usurped' = FALSE
    /\ UNCHANGED <<part, ccp, signed, savedRun, gdb, burst>>

\* rstctrl_do_reset as avr->run
RunReset == ~burst /\ run = "reset" /\ AvrReset

\* avr_reset by the host or by a debugger.
HostReset == ~burst /\ AvrReset

\* The board asks for a reset.
RequestOutside ==
    /\ ~burst
    /\ \E c \in Outside : RequestReset(c)
    /\ UNCHANGED <<part, ccp, signed, wdtVars, burst>>

\* A debugger that is served lets the processor go on.
Continue ==
    /\ ~burst /\ run = "gdb" /\ cpu = "stopped"
    /\ cpu' = "running"
    /\ UNCHANGED <<part, ccp, signed, wdtVars, run, savedRun, resetPending, pendingCause,
                   rstfr, gdb, burst, usurped>>

Next ==
    \/ Instruction \/ Begin \/ End
    \/ RunReset \/ HostReset \/ RequestOutside \/ Continue

Spec == Init /\ [][Next]_vars

-----------------------------------------------------------------------------
(* Properties *)

TypeOK ==
    /\ CcpTypeOK
    /\ period \in Fields /\ windowed \in Fields /\ locked \in BOOLEAN
    /\ frequency \in Frequencies
    /\ timeoutCycles \in Nat /\ windowCycles \in Nat
    /\ timeout \in Nat \cup {Off} /\ age \in 0 .. Late
    /\ run \in {"raw", "gdb", "reset"} /\ savedRun \in {"raw", "gdb"}
    /\ resetPending \in BOOLEAN /\ pendingCause \subseteq Causes
    /\ rstfr \subseteq Causes \cup {"PORF"}
    /\ cpu \in {"running", "stopped", "crashed"} /\ gdb \in BOOLEAN
    /\ burst \in BOOLEAN /\ usurped \in BOOLEAN

\* A watchdog that is on is being timed, or has already asked for the reset;
\* the closed window and the time-out are measured from the same instant.
TimerFollowsRegisters ==
    /\ timeoutCycles = 0 => timeout = Off
    /\ timeoutCycles # 0 => timeout + age = timeoutCycles \/ "WDRF" \in pendingCause
    /\ \E f \in Frequencies : timeoutCycles = Clocks[period] * f

\* CTRLA changes only within the instructions after a signature, and never
\* once it is locked.
ChangesInSequence ==
    \/ signed < CcpWindow /\ ~locked
    \/ RunReset \/ HostReset
    \/ UNCHANGED <<period, windowed>>

\* A requested reset holds avr->run until it is made, unless a debugger took
\* it, and the callback it gives back is never the reset itself.
ResetIsArmed ==
    /\ run = "reset" <=> resetPending /\ ~usurped
    /\ resetPending <=> pendingCause # {}
    /\ savedRun # "reset"

=============================================================================
