------------------------------- MODULE Eeprom -------------------------------
(***************************************************************************)
(* The classic EEPROM (avr_eeprom.c): the write enable that lasts a few    *)
(* cycles, the programming time of a timed part, and the ready interrupt,  *)
(* which is requested for as long as the EEPROM is idle.                   *)
(*                                                                         *)
(* Time is counted down in the cycle timers; an instruction takes a cycle  *)
(* and those the CPU is halted for.  A cell is 1 when erased and stands    *)
(* for the whole EEPROM: which cell EEAR selects is data.                  *)
(***************************************************************************)
EXTENDS Integers

CONSTANTS
    Window,      \* cycles EEMPE stays set
    LongTime,    \* cycles to erase and write
    ShortTime,   \* cycles to do one of them
    Retry,       \* EE_RDY_RETRY_CYCLES
    Far          \* history: cycles are counted up to here

VARIABLES
    part,        \* .timed
    eempe, eerie,\* in EECR
    eedr,        \* the data register
    cell,        \* the contents
    busy,        \* p->busy, and EEPE in EECR
    mode, data,  \* p->w_mode and p->w_data
    window, done, retry, \* the cycles left of the three timers, or Off
    pending,     \* the ready vector is pending
    cpu,         \* running, or asleep with the EEPROM's clock on (idle) or off (deep)
    since        \* history: cycles since EEMPE was set

vars == <<part, eempe, eerie, eedr, cell, busy, mode, data, window, done, retry, pending,
          cpu, since>>

Off == -1
Bits == {0, 1}

\* What is written to EECR, with EEPM as a number.
Commands == [eempe : BOOLEAN, eepe : BOOLEAN, eere : BOOLEAN, eerie : BOOLEAN, mode : 0 .. 3]

Cleared ==
    /\ eempe' = FALSE /\ eerie' = FALSE /\ busy' = FALSE
    /\ window' = Off /\ done' = Off /\ retry' = Off
    /\ pending' = FALSE /\ cpu' = "running" /\ since' = Far

\* What the constants are: programming takes a cycle at least, and what is
\* remembered is longer than the window.
WellFormed ==
    /\ Window \in Nat \ {0} /\ Far \in Nat /\ Window <= Far
    /\ LongTime \in Nat \ {0} /\ ShortTime \in Nat \ {0} /\ Retry \in Nat

Init ==
    /\ eempe = FALSE /\ eerie = FALSE /\ eedr = 0 /\ cell = 1
    /\ busy = FALSE /\ mode = 0 /\ data = 0
    /\ window = Off /\ done = Off /\ retry = Off
    /\ pending = FALSE /\ cpu = "running" /\ since = Far

-----------------------------------------------------------------------------
(* Time *)

\* n cycles pass for a timer, which is due at 0.
Pass(t, n) == IF t = Off THEN Off ELSE IF t > n THEN t - n ELSE 0

NoneDue == window # 0 /\ done # 0 /\ retry # 0
Executes == cpu = "running" /\ NoneDue

Capped(n) == IF n < Far THEN n ELSE Far
Older(n) == Capped(since + n)

-----------------------------------------------------------------------------
(* avr_raise_interrupt for the ready vector *)

Accepted == cpu # "deep" /\ ~pending

\* The request, by code that leaves EERIE as enabled.
Request(enabled) ==
    /\ pending' = (pending \/ (Accepted /\ enabled))
    /\ cpu' = IF Accepted /\ enabled THEN "running" ELSE cpu

-----------------------------------------------------------------------------
(* Writes of EECR *)

\* The write that starts programming: EEMPE was set by an earlier one.
Programs(c) == eempe /\ c.eepe

Enables(c) == ~eempe /\ c.eempe

\* avr_eeprom_write: the cell changes at once.
WriteUntimed(c) ==
    /\ ~part.timed
    /\ eempe' = (c.eempe /\ ~Programs(c))
    /\ eerie' = c.eerie
    /\ window' = IF Enables(c) THEN Window - 1 ELSE Pass(window, 1)
    /\ cell' = IF Programs(c) THEN eedr ELSE cell
    /\ done' = IF Programs(c) THEN LongTime - 1 ELSE Pass(done, 1)
    /\ eedr' = IF c.eere THEN cell' ELSE eedr
    /\ retry' = Pass(retry, 1)
    /\ since' = IF Enables(c) THEN 1 ELSE Older(1)
    /\ UNCHANGED <<busy, mode, data, pending, cpu>>

\* avr_eeprom_write_timed while programming: only EERIE is taken over.
WriteWhileBusy(c) ==
    /\ part.timed /\ busy
    /\ eerie' = c.eerie
    /\ window' = Pass(window, 1) /\ done' = Pass(done, 1) /\ retry' = Pass(retry, 1)
    /\ since' = Older(1)
    /\ UNCHANGED <<eempe, eedr, cell, busy, mode, data, pending, cpu>>

\* Mode 3 is reserved.
Starts(c) == Programs(c) /\ c.mode # 3
Reads(c) == c.eere /\ ~Starts(c)

\* The cycles of the instruction: a write halts the CPU for two, a read for four.
Halted(c) == 1 + (IF Starts(c) THEN 2 ELSE 0) + (IF Reads(c) THEN 4 ELSE 0)

\* avr_eeprom_write_timed while idle.
WriteWhileIdle(c) ==
    /\ part.timed /\ ~busy
    /\ eempe' = (c.eempe /\ ~Programs(c))
    /\ eerie' = c.eerie
    /\ window' = IF Programs(c) THEN Off
                 ELSE IF Enables(c) THEN Pass(Window, Halted(c)) ELSE Pass(window, Halted(c))
    /\ busy' = Starts(c)
    /\ IF Starts(c)
       THEN /\ mode' = c.mode /\ data' = eedr
            /\ done' = (IF c.mode = 0 THEN LongTime ELSE ShortTime) - 1
       ELSE UNCHANGED <<mode, data>> /\ done' = Pass(done, Halted(c))
    /\ eedr' = IF Reads(c) THEN cell ELSE eedr
    /\ IF ~eerie /\ c.eerie /\ ~Starts(c) THEN Request(TRUE) ELSE UNCHANGED <<pending, cpu>>
    /\ retry' = Pass(retry, Halted(c))
    /\ since' = IF Enables(c) THEN Capped(Halted(c)) ELSE Older(Halted(c))
    /\ UNCHANGED cell

Write(c) ==
    /\ Executes
    /\ WriteUntimed(c) \/ WriteWhileBusy(c) \/ WriteWhileIdle(c)
    /\ UNCHANGED part

-----------------------------------------------------------------------------
(* Other instructions, sleep and service *)

Elapses ==
    /\ window' = Pass(window, 1) /\ done' = Pass(done, 1) /\ retry' = Pass(retry, 1)
    /\ since' = Older(1)
    /\ UNCHANGED <<part, eempe, eerie, cell, busy, mode, data, pending>>

Plain == Executes /\ Elapses /\ UNCHANGED <<eedr, cpu>>
WriteData(d) == Executes /\ eedr' = d /\ Elapses /\ UNCHANGED cpu
Sleep(how) == Executes /\ cpu' = how /\ Elapses /\ UNCHANGED eedr

\* A cycle passes asleep; another interrupt wakes the core.
Slept == cpu # "running" /\ NoneDue /\ Elapses /\ UNCHANGED <<eedr, cpu>>
Wake ==
    /\ cpu # "running" /\ cpu' = "running"
    /\ UNCHANGED <<part, eempe, eerie, eedr, cell, busy, mode, data, window, done, retry,
                   pending, since>>

\* The vector is served, or dropped if it is masked; avr_eeprom_ready_notify
\* asks again when the request is cleared.
ServeReady ==
    /\ pending /\ cpu = "running"
    /\ pending' = (part.timed /\ eerie /\ ~busy)
    /\ UNCHANGED <<part, eempe, eerie, eedr, cell, busy, mode, data, window, done, retry,
                   cpu, since>>

-----------------------------------------------------------------------------
(* The timers *)

\* avr_eempe_clear
EnableEnds ==
    /\ window = 0
    /\ window' = Off /\ eempe' = FALSE
    /\ UNCHANGED <<part, eerie, eedr, cell, busy, mode, data, done, retry, pending, cpu,
                   since>>

\* Programming clears bits, and erasing sets them.
Programmed ==
    CASE mode = 1 -> 1
      [] mode = 2 -> IF data = 0 THEN 0 ELSE cell
      [] OTHER -> data

\* Mutant: a request that the sleeping core drops is not made again.
NeverRetries == FALSE

Retries == ~Accepted /\ eerie

\* avr_eeprom_done
ProgrammingEnds ==
    /\ part.timed /\ done = 0
    /\ done' = Off /\ busy' = FALSE /\ cell' = Programmed
    /\ Request(eerie)
    /\ retry' = IF Retries THEN Retry ELSE retry
    /\ UNCHANGED <<part, eempe, eerie, eedr, mode, data, window, since>>

\* avr_eei_raise
UntimedEnds ==
    /\ ~part.timed /\ done = 0
    /\ done' = Off
    /\ Request(eerie)
    /\ UNCHANGED <<part, eempe, eerie, eedr, cell, busy, mode, data, window, retry, since>>

\* avr_eeprom_ready_retry
RetryReady ==
    /\ retry = 0
    /\ IF busy \/ ~eerie
       THEN retry' = Off /\ UNCHANGED <<pending, cpu>>
       ELSE Request(TRUE) /\ retry' = IF Accepted THEN Off ELSE Retry
    /\ UNCHANGED <<part, eempe, eerie, eedr, cell, busy, mode, data, window, done, since>>

\* avr_reset with avr_eeprom_reset: programming is abandoned, the cell is kept.
Reset == Cleared /\ eedr' = 0 /\ UNCHANGED <<part, cell, mode, data>>

-----------------------------------------------------------------------------
Next ==
    \/ \E c \in Commands : Write(c)
    \/ Plain \/ \E d \in Bits : WriteData(d)
    \/ \E how \in {"idle", "deep"} : Sleep(how)
    \/ Slept \/ Wake \/ ServeReady
    \/ EnableEnds \/ ProgrammingEnds \/ UntimedEnds \/ RetryReady
    \/ Reset

Spec == Init /\ [][Next]_vars

-----------------------------------------------------------------------------
(* Properties *)

TypeOK ==
    /\ eempe \in BOOLEAN /\ eerie \in BOOLEAN /\ eedr \in Bits /\ cell \in Bits
    /\ busy \in BOOLEAN /\ mode \in 0 .. 2 /\ data \in Bits
    /\ window \in Nat \cup {Off} /\ done \in Nat \cup {Off} /\ retry \in Nat \cup {Off}
    /\ pending \in BOOLEAN /\ cpu \in {"running", "idle", "deep"} /\ since \in 1 .. Far

\* EEMPE is about to be cleared, and a timed part is busy exactly while its
\* programming time runs.
TimersFollowRegisters ==
    /\ eempe => window \in 0 .. Window
    /\ part.timed => (busy <=> done # Off)

\* Programming starts only within Window cycles of EEMPE, and on a timed part
\* the contents change only when it ends.
ChangesInSequence ==
    /\ busy' /\ ~busy => since < Window
    /\ cell' # cell => IF part.timed THEN busy /\ ~busy' ELSE since < Window

\* With EERIE set and the EEPROM of a timed part idle, the interrupt is
\* requested or is about to be: no sleep mode loses the request.
ReadyRequested == part.timed /\ eerie /\ ~busy => pending \/ retry # Off

=============================================================================
