---------------------------- MODULE MCProtected ----------------------------
(***************************************************************************)
(* The peripherals whose registers or memories change only in a timed      *)
(* sequence, and two timers whose cycle timer is armed anew by every write *)
(* of a register.  A part has one of them, and the others stay as they     *)
(* were initialised.                                                       *)
(***************************************************************************)
EXTENDS Integers, Ccp, TLC

CONSTANTS
    Parts,                                                  \* the parts to check
    Count, Window, Elapsed, Far,                            \* Watchdog
    Clocks, Frequencies, StartFrequency, Outside, Late,     \* Wdt
    OscRates, SlowRate, Divisors, ResetDivisor, ResetFrqsel,\* ClkCtrl
    Prescalings, Slowest, Fused, Given, ChangeCycles,       \* Clkpr
    LongTime, ShortTime, Retry,                             \* Eeprom
    Pages, Words,                                           \* Flash, Nvmctrl
    Offsets, Values, OpTime,                                \* Nvmctrl
    FlashPages, SectionOf,                                  \* NvmctrlDd
    MaxCount, Tops, Scaled,                                 \* Tca
    Divs, Base, Lateness                                    \* Tcb

VARIABLES
    part,
    wde, wdie, wdif, wdce, wdp, wdrf, count, timeout, window, pending, since, missed,
    period, windowed, locked, frequency, timeoutCycles, windowCycles, expiry, age,
    run, savedRun, resetPending, pendingCause, rstfr, cpu, gdb, burst, usurped,
    reg, sosc, clk,
    clkpr,
    eempe, eerie, eedr, cell, busy, mode, data, eeWindow, done, retry, eePending, eeCpu,
    eeSince,
    selfprgen, flOp, flFlash, tmppage, used, flWindow, flSince,
    nvEeprom, nvUserrow, nvFlash, buf, dirty, fbuf, fdirty, fbufPage, section, nvFbusy,
    nvEebusy, nvEeready, nvIntctrl, nvPending, nvOp,
    eeprom, userrow, flash, armed, protected, fbusy, eebusy, eeready, intctrl, ddPending, op,
    tca, tcb

WD == INSTANCE Watchdog
WT == INSTANCE Wdt WITH timeout <- expiry
CC == INSTANCE ClkCtrl
CP == INSTANCE Clkpr WITH k <- clkpr
EE == INSTANCE Eeprom WITH window <- eeWindow, pending <- eePending, cpu <- eeCpu,
                           since <- eeSince
FL == INSTANCE Flash WITH op <- flOp, flash <- flFlash, window <- flWindow, since <- flSince
NV == INSTANCE Nvmctrl WITH FlashPages <- Pages,
                            eeprom <- nvEeprom, userrow <- nvUserrow, flash <- nvFlash,
                            fbusy <- nvFbusy, eebusy <- nvEebusy, eeready <- nvEeready,
                            intctrl <- nvIntctrl, pending <- nvPending, op <- nvOp
DD == INSTANCE NvmctrlDd WITH pending <- ddPending
TA == INSTANCE Tca WITH c <- tca, Divs <- Scaled, Overshoot <- Lateness
TB == INSTANCE Tcb WITH p <- tcb, Overshoot <- Lateness

Kinds == {"watchdog", "wdt", "clkctrl", "clkpr", "eeprom", "flash", "nvmctrl", "nvmctrl_dd",
          "tca", "tcb"}
PartTypes == [kind : Kinds, exact : BOOLEAN, alwaysOn : BOOLEAN, port : BOOLEAN, dd : BOOLEAN,
              extclk : Nat, slow : BOOLEAN, timed : BOOLEAN, spmen : BOOLEAN, rww : BOOLEAN]

ASSUME ProtectedAssumption ==
    /\ Parts \subseteq PartTypes
    /\ WD!WellFormed /\ WT!WellFormed /\ CC!WellFormed /\ CP!WellFormed
    /\ EE!WellFormed /\ FL!WellFormed /\ NV!WellFormed /\ DD!WellFormed
    /\ TA!WellFormed /\ TB!WellFormed

ofWatchdog == <<wde, wdie, wdif, wdce, wdp, wdrf, count, timeout, window, pending,
                since, missed>>
ofWdt == <<period, windowed, locked, frequency, timeoutCycles, windowCycles, expiry, age,
           run, savedRun, resetPending, pendingCause, rstfr, cpu, gdb, burst, usurped>>
ofClkCtrl == <<reg, sosc, clk>>
ofEeprom == <<eempe, eerie, eedr, cell, busy, mode, data, eeWindow, done, retry, eePending,
              eeCpu, eeSince>>
ofFlash == <<selfprgen, flOp, flFlash, tmppage, used, flWindow, flSince>>
ofNvmctrl == <<nvEeprom, nvUserrow, nvFlash, buf, dirty, fbuf, fdirty, fbufPage, section,
               nvFbusy, nvEebusy, nvEeready, nvIntctrl, nvPending, nvOp>>
ofNvmctrlDd == <<eeprom, userrow, flash, armed, protected, fbusy, eebusy, eeready, intctrl,
                 ddPending, op>>
ofCcp == <<ccp, signed>>
clocks == <<ofWatchdog, ofWdt, ofClkCtrl, clkpr>>
memories == <<ofEeprom, ofFlash, ofNvmctrl, ofNvmctrlDd>>
timers == <<tca, tcb>>
vars == <<part, ofCcp, clocks, memories, timers>>

Init ==
    /\ part \in Parts
    /\ WD!Init /\ WT!Init /\ CC!Init /\ CP!Init
    /\ EE!Init /\ FL!Init /\ NV!Init /\ DD!Init /\ TA!Init /\ TB!Init
    /\ part.kind # "clkpr" => clkpr.fuse = 0 /\ \A hz \in Given : clkpr.freq <= hz

WatchdogStep ==
    /\ part.kind = "watchdog" /\ WD!Next
    /\ UNCHANGED <<part, ofCcp, ofWdt, ofClkCtrl, clkpr, memories, timers>>
WdtStep ==
    /\ part.kind = "wdt" /\ WT!Next
    /\ UNCHANGED <<part, ofWatchdog, ofClkCtrl, clkpr, memories, timers>>
ClkCtrlStep ==
    /\ part.kind = "clkctrl" /\ CC!Next
    /\ UNCHANGED <<part, ofWatchdog, ofWdt, clkpr, memories, timers>>
ClkprStep ==
    /\ part.kind = "clkpr" /\ CP!Next
    /\ UNCHANGED <<part, ofCcp, ofWatchdog, ofWdt, ofClkCtrl, memories, timers>>
EepromStep ==
    /\ part.kind = "eeprom" /\ EE!Next
    /\ UNCHANGED <<part, ofCcp, clocks, ofFlash, ofNvmctrl, ofNvmctrlDd, timers>>
FlashStep ==
    /\ part.kind = "flash" /\ FL!Next
    /\ UNCHANGED <<part, ofCcp, clocks, ofEeprom, ofNvmctrl, ofNvmctrlDd, timers>>
NvmctrlStep ==
    /\ part.kind = "nvmctrl" /\ NV!Next
    /\ UNCHANGED <<part, clocks, ofEeprom, ofFlash, ofNvmctrlDd, timers>>
NvmctrlDdStep ==
    /\ part.kind = "nvmctrl_dd" /\ DD!Next
    /\ UNCHANGED <<part, clocks, ofEeprom, ofFlash, ofNvmctrl, timers>>
TcaStep == part.kind = "tca" /\ TA!Next /\ UNCHANGED <<part, ofCcp, clocks, memories, tcb>>
TcbStep == part.kind = "tcb" /\ TB!Next /\ UNCHANGED <<part, ofCcp, clocks, memories, tca>>

Next ==
    \/ WatchdogStep \/ WdtStep \/ ClkCtrlStep \/ ClkprStep
    \/ EepromStep \/ FlashStep \/ NvmctrlStep \/ NvmctrlDdStep
    \/ TcaStep \/ TcbStep

Spec == Init /\ [][Next]_vars

-----------------------------------------------------------------------------
(* The parts *)

Part(kind) == [kind |-> kind, exact |-> FALSE, alwaysOn |-> FALSE, port |-> FALSE,
               dd |-> FALSE, extclk |-> 4, slow |-> FALSE, timed |-> FALSE, spmen |-> TRUE,
               rww |-> FALSE]

WatchdogParts == {[Part("watchdog") EXCEPT !.exact = e, !.alwaysOn = a] :
                      e \in BOOLEAN, a \in BOOLEAN}
WdtParts == {[Part("wdt") EXCEPT !.port = p] : p \in BOOLEAN}
ClkCtrlParts == {[Part("clkctrl") EXCEPT !.dd = d] : d \in BOOLEAN}
                    \cup {[Part("clkctrl") EXCEPT !.dd = TRUE, !.slow = TRUE]}
EepromParts == {[Part("eeprom") EXCEPT !.timed = t] : t \in BOOLEAN}
FlashParts == {[Part("flash") EXCEPT !.spmen = l, !.rww = r] : l \in BOOLEAN, r \in BOOLEAN}
NvmParts == {Part("nvmctrl"), Part("nvmctrl_dd")}
TimerParts == {Part("tca"), Part("tcb")}

AllParts ==
    WatchdogParts \cup WdtParts \cup ClkCtrlParts \cup {Part("clkpr")}
        \cup EepromParts \cup FlashParts \cup NvmParts \cup TimerParts

\* An AVR DD whose board has set no external rate.
ExternalParts == {[Part("clkctrl") EXCEPT !.dd = TRUE, !.extclk = 0]}

CountOf == (0 :> 3) @@ (1 :> 6)
ClocksOf == (0 :> 0) @@ (1 :> 1) @@ (2 :> 2)
RatesOf == (0 :> 8) @@ (1 :> 4) @@ (2 :> 0)
DivisorsOf == (0 :> 1) @@ (1 :> 2)
Sections == (0 :> "boot") @@ (1 :> "appcode") @@ (2 :> "appcode") @@ (3 :> "appdata")

-----------------------------------------------------------------------------
(* Properties *)

\* Every variable of the part's peripheral has its type; those of the others
\* stay as initialised.
TypeOK ==
    CASE part.kind = "watchdog" -> WD!TypeOK
      [] part.kind = "wdt" -> WT!TypeOK
      [] part.kind = "clkctrl" -> CC!TypeOK
      [] part.kind = "clkpr" -> CP!TypeOK
      [] part.kind = "eeprom" -> EE!TypeOK
      [] part.kind = "flash" -> FL!TypeOK
      [] part.kind = "nvmctrl" -> NV!TypeOK
      [] part.kind = "nvmctrl_dd" -> DD!TypeOK
      [] part.kind = "tca" -> TA!TypeOK
      [] part.kind = "tcb" -> TB!TypeOK

ChangeInSequence ==
    CASE part.kind = "watchdog" -> WD!ChangesInSequence
      [] part.kind = "wdt" -> WT!ChangesInSequence
      [] part.kind = "clkctrl" -> CC!ChangesInSequence
      [] part.kind = "clkpr" -> CP!ChangesInSequence
      [] part.kind = "eeprom" -> EE!ChangesInSequence
      [] part.kind = "flash" -> FL!ChangesInSequence
      [] part.kind = "nvmctrl" -> NV!ChangesInSequence
      [] part.kind = "nvmctrl_dd" -> DD!ChangesInSequence
      [] OTHER -> TRUE

\* A protected register (WDTCSR, the modern CTRLA, the clock registers,
\* CLKPS) or memory (EEPROM, flash, user row) changes only within its timed sequence and
\* never once it is locked (avr_ccp_io_write_enabled, avr_eempe_clear,
\* avr_progen_clear, nvm_flash_write_allowed).
ChangesFollowSequence == [][ChangeInSequence]_vars

\* The cycle timers agree with the registers: a watchdog's runs exactly when it
\* is on and for its length, a window that is open is about to close, a memory
\* is busy exactly while its operation is timed, and the timer of a TCA or TCB
\* waits for its next match, so that the output is high while the count is below
\* the duty, and a captured width is the one between the edges
\* (avr_watchdog_set_cycle_count_and_timer, wdt_arm, clkpr_write, avr_eempe_clear,
\* nvm_begin, avr_tca_reschedule, tca_emit_wo, avr_tcb_ccmp_write,
\* avr_tcb_event_input).
TimersFollowRegisters ==
    CASE part.kind = "watchdog" -> WD!TimersFollowRegisters
      [] part.kind = "wdt" -> WT!TimerFollowsRegisters
      [] part.kind = "clkpr" -> CP!TimerFollowsWindow
      [] part.kind = "eeprom" -> EE!TimersFollowRegisters
      [] part.kind = "flash" -> FL!TimersFollowRegisters
      [] part.kind = "nvmctrl" -> NV!TimersFollowRegisters
      [] part.kind = "nvmctrl_dd" -> DD!TimersFollowRegisters
      [] part.kind = "tca" -> TA!WorkIsTimed /\ TA!OutputFollowsCount
      [] part.kind = "tcb" -> TB!WorkIsTimed /\ TB!OutputFollowsCount /\ TB!CaptureIsWidth
      [] OTHER -> TRUE

\* The ready interrupt of an idle EEPROM is not lost, in no sleep mode either,
\* and it is requested only for an EEPROM that is ready
\* (avr_eeprom_ready_notify, avr_eeprom_ready_retry, nvm_begin).
ReadyRequested == EE!ReadyRequested /\ NV!RequestIsReady /\ DD!RequestIsReady

\* An exact classic watchdog in interrupt and reset mode does not outlive two
\* time-outs that the firmware ignores (avr_watchdog_timer).
HungIsReset == WD!HungIsReset

\* A reset asked of the modern reset controller holds avr->run until it is
\* made, unless a debugger took avr->run over (avr_rstctrl_request_reset).
ResetIsArmed == WT!ResetIsArmed

\* avr->frequency is the rate of the running source divided once, and a source
\* that does not run is told by SOSC and never stops the clock; with a classic
\* prescaler it is the undivided clock rounded once, through loads and resets
\* (avr_clkctrl_recompute, clkctrl_dd_recompute, clkpr_sync, clkpr_set_div).
ClockFollowsRegisters == CC!ClockFollowsRegisters /\ CP!ClockFollowsPrescaler

\* Running from an external clock whose rate nobody has set, CLK_MAIN keeps its
\* current rate (the comment in clkctrl_dd_source).
MainClockKept == [][CC!MainClockKept]_vars

=============================================================================
