------------------------------ MODULE ClkCtrl ------------------------------
(***************************************************************************)
(* The modern clock controllers: which source and prescaler give           *)
(* avr->frequency, behind the CCP window (avr_clkctrl.c of the tinyAVR and *)
(* megaAVR 0-series, avr_clkctrl_dd.c of the AVR DD).  CLKSEL has one of   *)
(* the sources: its reserved values are left out.                          *)
(***************************************************************************)
EXTENDS Integers, Ccp

CONSTANTS
    OscRates,     \* the oscillator's rate, by FRQSEL; 0 if reserved
    SlowRate,     \* of the 32 kHz sources
    Divisors,     \* by MCLKCTRLB; 1 without PEN
    ResetDivisor, \* MCLKCTRLB after the reset of a 0-series part
    ResetFrqsel   \* OSCHFCTRLA after the reset of an AVR DD

VARIABLES
    part,         \* .dd: an AVR DD; .extclk: p->freq_extclk, 0 if not known; .slow: OSCCFG
                  \* selects the oscillator of 32 kHz to start from
    reg,          \* the registers
    sosc,         \* MCLKSTATUS.SOSC: a switch waits for its source
    clk           \* avr->frequency

vars == <<part, ccp, signed, reg, sosc, clk>>

Sources == {"osc", "osc32k", "xosc32k", "extclk"}

\* MCLKCTRLA, MCLKCTRLB and MCLKLOCK; OSCHFCTRLA and the two XOSC enables.
Registers == [clksel : Sources, pdiv : DOMAIN Divisors, lock : BOOLEAN,
              frqsel : DOMAIN OscRates, xosc32k : BOOLEAN, xoschf : BOOLEAN]

ResetRegisters ==
    [clksel |-> IF part.dd /\ part.slow THEN "osc32k" ELSE "osc",
     pdiv |-> IF part.dd THEN 0 ELSE ResetDivisor, lock |-> FALSE,
     frqsel |-> IF part.dd THEN ResetFrqsel ELSE 0, xosc32k |-> FALSE, xoschf |-> FALSE]

\* A crystal or an external clock of an AVR DD has to be enabled.
Stopped(r) ==
    /\ part.dd
    /\ \/ r.clksel = "xosc32k" /\ ~r.xosc32k
       \/ r.clksel = "extclk" /\ ~r.xoschf

\* The rate of the source selected, 0 if it does not run.  An external rate
\* nobody has set is taken to be the frequency of before.
SourceRate(r, before) ==
    CASE Stopped(r) -> 0
      [] r.clksel = "osc" -> OscRates[r.frqsel]
      [] r.clksel \in {"osc32k", "xosc32k"} /\ ~Stopped(r) -> SlowRate
      [] r.clksel = "extclk" /\ ~Stopped(r) ->
             IF part.extclk # 0 THEN part.extclk ELSE before

\* Mutant: a switch to a source that is not running stops the clock.
SwitchesAtOnce(r, before) == SourceRate(r, before) \div Divisors[r.pdiv]

\* avr->frequency once the registers are r.
Frequency(r, before) ==
    IF SourceRate(r, before) # 0 THEN SourceRate(r, before) \div Divisors[r.pdiv] ELSE before

\* avr_clkctrl_recompute, clkctrl_dd_recompute
Recompute ==
    /\ clk' = Frequency(reg', clk)
    /\ sosc' = (part.dd /\ SourceRate(reg', clk) = 0)

\* What the constants are: the oscillator a reset selects runs, and no prescaler
\* divides a rate of the part's own to nothing.
WellFormed ==
    /\ OscRates \in [DOMAIN OscRates -> Nat] /\ Divisors \in [DOMAIN Divisors -> Nat \ {0}]
    /\ {0, ResetFrqsel} \subseteq DOMAIN OscRates /\ {0, ResetDivisor} \subseteq DOMAIN Divisors
    /\ OscRates[0] # 0 /\ OscRates[ResetFrqsel] # 0 /\ SlowRate \in Nat \ {0}
    /\ \A d \in DOMAIN Divisors :
           /\ SlowRate >= Divisors[d]
           /\ \A f \in DOMAIN OscRates : OscRates[f] # 0 => OscRates[f] >= Divisors[d]

Init ==
    /\ CcpInit
    /\ reg = ResetRegisters
    /\ clk = Frequency(ResetRegisters, 1) /\ sosc = FALSE

-----------------------------------------------------------------------------
(* Instructions *)

WriteSignature == WriteCcp /\ UNCHANGED <<part, reg, sosc, clk>>

Plain == OtherInstruction /\ UNCHANGED <<part, reg, sosc, clk>>

\* A protected write is honoured; an AVR DD has no lock.
Writable == Unlocked /\ ~reg.lock

\* A write of one of the clock registers.
WriteClock(r) ==
    /\ Writable
    /\ reg' = r
    /\ Recompute
    /\ OtherInstruction /\ UNCHANGED part

\* MCLKLOCK of a 0-series part changes no clock.
WriteLock ==
    /\ Writable /\ ~part.dd
    /\ reg' = [reg EXCEPT !.lock = TRUE]
    /\ OtherInstruction /\ UNCHANGED <<part, sosc, clk>>

Write ==
    \/ \E s \in Sources : WriteClock([reg EXCEPT !.clksel = s])
    \/ \E d \in DOMAIN Divisors : WriteClock([reg EXCEPT !.pdiv = d])
    \/ /\ part.dd
       /\ \/ \E f \in DOMAIN OscRates : WriteClock([reg EXCEPT !.frqsel = f])
          \/ \E b \in BOOLEAN : WriteClock([reg EXCEPT !.xosc32k = b])
          \/ \E b \in BOOLEAN : WriteClock([reg EXCEPT !.xoschf = b])
    \/ WriteLock

\* avr_clkctrl_reset, clkctrl_dd_reset
Reset ==
    /\ reg' = ResetRegisters
    /\ Recompute
    /\ UNCHANGED <<part, ccp, signed>>

Next == WriteSignature \/ Plain \/ Write \/ Reset

Spec == Init /\ [][Next]_vars

-----------------------------------------------------------------------------
(* Properties *)

TypeOK ==
    CcpTypeOK /\ reg \in Registers /\ sosc \in BOOLEAN /\ clk \in Nat

\* The frequency is that of a source that runs, and it is divided once; SOSC
\* tells of a source that does not, which never stops the clock.
ClockFollowsRegisters ==
    LET rate == SourceRate(reg, clk)
    IN  /\ clk # 0
        /\ rate # 0 => clk = rate \div Divisors[reg.pdiv] /\ ~sosc
        /\ part.dd /\ rate = 0 => sosc

\* A clock register changes only within the instructions after a signature
\* and before the lock.
ChangesInSequence ==
    (signed < CcpWindow /\ ~reg.lock) \/ Reset \/ reg' = reg

\* CLK_MAIN, before the prescaler.
MainClock == clk * Divisors[reg.pdiv]

\* Running from an external clock whose rate nobody has set, CLK_MAIN keeps
\* its current rate, whatever is written to the prescaler.
MainClockKept ==
    /\ part.extclk = 0
    /\ reg.clksel = "extclk" /\ reg'.clksel = "extclk" /\ ~Stopped(reg')
    => MainClock' = MainClock

=============================================================================
