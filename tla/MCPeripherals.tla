--------------------------- MODULE MCPeripherals ---------------------------
(***************************************************************************)
(* The IRQ network and the peripherals that hand work on to cycle timers   *)
(* and pins.  A part has one of them, and the others stay as they were     *)
(* initialised.                                                            *)
(***************************************************************************)
EXTENDS Integers, Sequences, FiniteSets, TLC

CONSTANTS
    Parts,                                      \* the parts to check
    Irqs, Notifies, None, MaxDepth, MaxHooks,   \* Irq
    Room, TxCounts,                             \* Uart
    Samples,                                    \* Adc
    MaxPolls,                                   \* Extint
    Rates, Counts, Overshoot,                   \* Rtc
    Functions, Fields, PinOf, NoPin,            \* Portmux
    FifoSize, TxqSize,                          \* UsartModern
    Divs, MaxCount, Lateness, Longest,          \* Timer
    Bytes, Enables,                             \* SpiModern
    Lengths,                                    \* AdcModern, of Samples too
    Channels, Users, Generators,                \* EvSys
    Signals, LogRoom, Scale, Width, MaxNow, MaxChanges,   \* Vcd
    Files, NoStamp, PlayRoom, Enough, Low, MaxCycle,    \* VcdInput
    Address, Burst                              \* Gdb

VARIABLES
    part,
    hooks, busy, value, initbit, strong, stack, seen, quiet,
    rxen, txen, udrie, rxc, txc, udre, dor, input, rxPump, txPump, rxCnt, txCnt, xoff, xon,
    rejectedAt,
    aden, adsc, adate, adif, adts, mode, hooked, source, converting, raising, result, adc,
    interlock, adcl, orphan,
    pin, isc, enable, flag, pending, sregI, live, polls, level,
    on, rate, cpt, cnt, per, cmp, age, target, due, flags, inten, rtcPending,
    route, active, driven, claimed, latch, ovrEn, ovrVal,
    usRxen, usTxen, rxcie, txcie, lbme, rx, rxcif, txcif, rxcPending, txcPending, txq, frame,
    tick, done, loopback, txd,
    timer,
    spi, adcm, evsys, vcd, player,
    g, phase, stepping

IR == INSTANCE Irq
UA == INSTANCE Uart
AD == INSTANCE Adc
EX == INSTANCE Extint
RT == INSTANCE Rtc WITH pending <- rtcPending
PM == INSTANCE Portmux WITH value <- driven
US == INSTANCE UsartModern WITH rxen <- usRxen, txen <- usTxen, pin <- txd
TM == INSTANCE Timer WITH p <- timer, Overshoot <- Lateness
SP == INSTANCE SpiModern WITH s <- spi
AM == INSTANCE AdcModern WITH a <- adcm
EV == INSTANCE EvSys WITH e <- evsys
VO == INSTANCE Vcd WITH v <- vcd, MaxCycle <- MaxNow
VI == INSTANCE VcdInput WITH r <- player, LogRoom <- PlayRoom
GD == INSTANCE Gdb

\* The kinds of peripheral a part has.
Kinds == {"irq", "gdb", "uart", "adc", "extint", "timer", "rtc", "portmux", "usart", "spi",
          "adcm", "evsys", "vcd", "player"}

ASSUME PeripheralsAssumption ==
    /\ \A p \in Parts : p.kind \in Kinds
    /\ IR!WellFormed /\ TM!LateByOneCount /\ PM!WellFormed /\ EV!WellFormed /\ GD!WellFormed
    /\ UA!WellFormed /\ EX!WellFormed /\ RT!WellFormed /\ US!WellFormed /\ TM!WellFormed
    /\ SP!WellFormed /\ AM!WellFormed /\ VO!WellFormed /\ VI!WellFormed

ofIrq == <<hooks, busy, value, initbit, strong, stack, seen, quiet>>
ofUart == <<rxen, txen, udrie, rxc, txc, udre, dor, input, rxPump, txPump, rxCnt, txCnt, xoff,
            xon, rejectedAt>>
ofAdc == <<aden, adsc, adate, adif, adts, mode, hooked, source, converting, raising, result,
           adc, interlock, adcl, orphan>>
ofExtint == <<pin, isc, enable, flag, pending, sregI, live, polls, level>>
ofRtc == <<on, rate, cpt, cnt, per, cmp, age, target, due, flags, inten, rtcPending>>
ofPortmux == <<route, active, driven, claimed, latch, ovrEn, ovrVal>>
ofUsart == <<usRxen, usTxen, rxcie, txcie, lbme, rx, rxcif, txcif, rxcPending, txcPending, txq,
             frame, tick, done, loopback, txd>>
ofGdb == <<g, phase, stepping>>
sim == <<ofIrq, ofGdb, vcd, player>>
classic == <<ofUart, ofAdc, ofExtint, timer>>
records == <<spi, adcm, evsys>>
modern == <<ofRtc, ofPortmux, ofUsart, records>>
vars == <<part, sim, classic, modern>>

Line(stamp, changes) == [stamp |-> stamp, changes |-> changes]
AnyFile == <<Line(0, 1), Line(2, 1)>>

Init ==
    /\ part \in Parts
    /\ IR!Init /\ UA!Init /\ AD!Init /\ EX!Init /\ RT!Init /\ PM!Init /\ US!Init
    /\ TM!Init /\ SP!Init /\ AM!Init /\ EV!Init /\ VO!Init /\ VI!Init
    /\ GD!Init
    /\ part.kind # "rtc" => \A r \in Rates : rate <= r
    /\ part.kind # "player" => player = VI!Opened(AnyFile)

IrqStep == part.kind = "irq" /\ IR!Next /\ UNCHANGED <<ofGdb, vcd, player, classic, modern>>
GdbStep == part.kind = "gdb" /\ GD!Next /\ UNCHANGED <<ofIrq, vcd, player, classic, modern>>
UartStep ==
    part.kind = "uart" /\ UA!Next /\ UNCHANGED <<sim, ofAdc, ofExtint, timer, modern>>
AdcStep == part.kind = "adc" /\ AD!Next /\ UNCHANGED <<sim, ofUart, ofExtint, timer, modern>>
ExtintStep == part.kind = "extint" /\ EX!Next /\ UNCHANGED <<sim, ofUart, ofAdc, timer, modern>>
RtcStep == part.kind = "rtc" /\ RT!Next /\ UNCHANGED <<sim, classic, ofPortmux, ofUsart, records>>
PortmuxStep ==
    part.kind = "portmux" /\ PM!Next /\ UNCHANGED <<sim, classic, ofRtc, ofUsart, records>>
UsartStep ==
    part.kind = "usart" /\ US!Next /\ UNCHANGED <<sim, classic, ofRtc, ofPortmux, records>>
others == <<part, sim, classic, ofRtc, ofPortmux, ofUsart>>
SpiStep == part.kind = "spi" /\ SP!Next /\ UNCHANGED <<others, adcm, evsys>>
AdcModernStep == part.kind = "adcm" /\ AM!Next /\ UNCHANGED <<others, spi, evsys>>
EvSysStep == part.kind = "evsys" /\ EV!Next /\ UNCHANGED <<others, spi, adcm>>
VcdStep ==
    part.kind = "vcd" /\ VO!Next /\ UNCHANGED <<part, ofIrq, ofGdb, player, classic, modern>>
PlayerStep ==
    part.kind = "player" /\ VI!Next /\ UNCHANGED <<part, ofIrq, ofGdb, vcd, classic, modern>>
TimerStep == part.kind = "timer" /\ TM!Next /\ UNCHANGED <<sim, ofUart, ofAdc, ofExtint, modern>>

Next ==
    \/ IrqStep \/ GdbStep \/ UartStep \/ AdcStep \/ ExtintStep \/ TimerStep
    \/ RtcStep \/ PortmuxStep \/ UsartStep \/ SpiStep \/ AdcModernStep \/ EvSysStep
    \/ VcdStep \/ PlayerStep

IrqDelivers == part.kind = "irq" /\ IR!Delivers /\ UNCHANGED <<ofGdb, vcd, player, classic, modern>>

Spec == Init /\ [][Next]_vars /\ WF_vars(IrqDelivers)

-----------------------------------------------------------------------------
(* The parts *)

Part(kind) == [kind |-> kind, inverted |-> {}, filtered |-> {}, held |-> {}, polite |-> FALSE,
               strict |-> FALSE]

AllParts ==
    {[Part("irq") EXCEPT !.inverted = {"a"}, !.filtered = {"b"}, !.held = {"b"}]}
        \cup {[Part("uart") EXCEPT !.polite = p] : p \in BOOLEAN}
        \cup {[Part("timer") EXCEPT !.strict = s] : s \in BOOLEAN}
        \cup {Part(kind) : kind \in {"adc", "extint", "rtc", "portmux", "usart", "spi", "adcm",
                                     "evsys", "vcd", "player", "gdb"}}

EnablesOf == {{}, {"IE"}, {"bit7", "bit6", "DRE"}}

PinsOf ==
    (1 :> (0 :> "p" @@ 1 :> "q" @@ 2 :> NoPin)) @@ (2 :> (0 :> "q" @@ 1 :> "p" @@ 2 :> NoPin)) @@
    (3 :> (0 :> "p" @@ 1 :> NoPin @@ 2 :> "q"))

\* A stamp has a line, and its changes are on it or on those that follow.
Layouts == {<<0>>, <<1>>, <<2>>, <<0, 1>>, <<1, 1>>}
Lines(stamp, layout) ==
    [j \in DOMAIN layout |-> Line(IF j = 1 THEN stamp ELSE NoStamp, layout[j])]
AllFiles ==
    {Lines(0, first) \o Lines(1, second) \o Lines(2, third) :
        first \in Layouts \ {<<0>>}, second \in Layouts, third \in Layouts}
        \cup {Lines(0, <<1>>) \o Lines(2, last) : last \in Layouts}

-----------------------------------------------------------------------------
(* Properties *)

\* Every variable of the part's peripheral has its type; those of the others
\* stay as initialised.
TypeOK ==
    CASE part.kind = "irq" -> IR!TypeOK
      [] part.kind = "gdb" -> GD!TypeOK
      [] part.kind = "uart" -> UA!TypeOK
      [] part.kind = "adc" -> AD!TypeOK
      [] part.kind = "extint" -> EX!TypeOK
      [] part.kind = "timer" -> TM!TypeOK
      [] part.kind = "rtc" -> RT!TypeOK
      [] part.kind = "portmux" -> PM!TypeOK
      [] part.kind = "usart" -> US!TypeOK
      [] part.kind = "spi" -> SP!TypeOK
      [] part.kind = "adcm" -> AM!TypeOK
      [] part.kind = "evsys" -> EV!TypeOK
      [] part.kind = "vcd" -> VO!TypeOK
      [] part.kind = "player" -> VI!TypeOK

\* Between raises every hook of an IRQ has been told the value the IRQ has,
\* unless it joined since, or its last raise was stopped by a hook, was raised
\* again from within, or was forgotten by a reset (avr_raise_irq_float); the users
\* of an event channel know its level, however they are routed and drive channels
\* in turn, and call each other a bounded number of times (evsys_propagate); and
\* gdb is told of every stop, and takes for stopped only a CPU that is, crashes
\* and resets apart (avr_gdb_processor, avr_callback_run_gdb).
PartiesAreTold ==
    CASE part.kind = "irq" -> IR!HooksInStep
      [] part.kind = "evsys" -> EV!UsersInStep /\ EV!CallsEnd
      [] part.kind = "gdb" -> GD!GdbKnows
      [] OTHER -> TRUE

\* A raise returns, however the IRQs are connected, chained in a ring too
\* (hook->busy of avr_raise_irq_float).
RaiseReturns == IR!RaiseReturns

\* No byte of a sender that heeds XOFF is rejected and a sender that was stopped
\* is let go (avr_uart_irq_input, avr_uart_read); the two bytes of an ADC result
\* are of one conversion (avr_adc_int_raise), the SPI sends every byte it took,
\* once and in order (avr_spi_modern_data_write, avr_spi_modern_xfer), RES of the
\* modern ADC is the sum of one burst (avr_adc_modern_complete), and a trace of
\* value changes has all of them in order, in the file, where every pulse can be
\* seen that is not one of many (avr_vcd_flush_log), and when it is played
\* (_avr_vcd_input_timer).
DataIsWhole ==
    CASE part.kind = "uart" -> UA!SenderLosesNothing
      [] part.kind = "adc" -> AD!PairIsOneConversion
      [] part.kind = "spi" -> SP!BytesInOrder
      [] part.kind = "adcm" -> AM!ResultIsBurst
      [] part.kind = "vcd" -> VO!EveryChangeWritten /\ VO!PulsesShow
      [] part.kind = "player" -> VI!ReplaysInOrder
      [] OTHER -> TRUE

\* A peripheral that owes work has exactly the cycle timer for it: the pumps of
\* the USART, the transfer of the SPI, the conversion of an ADC, the poll of a
\* level interrupt, the next event of the RTC, the period of a timer and its
\* matches, the frame on the TXD pin, the flush of a trace and its replay; and a
\* flag stands for something that is still to be handled.
WorkIsTimed ==
    CASE part.kind = "uart" -> UA!WorkIsTimed
      [] part.kind = "adc" -> AD!WorkIsTimed
      [] part.kind = "extint" -> EX!WorkIsTimed
      [] part.kind = "timer" -> TM!WorkIsTimed
      [] part.kind = "rtc" -> RT!WorkIsTimed
      [] part.kind = "usart" -> US!WorkIsTimed
      [] part.kind = "spi" -> SP!WorkIsTimed
      [] part.kind = "adcm" -> AM!WorkIsTimed
      [] part.kind = "vcd" -> VO!WorkIsTimed
      [] part.kind = "player" -> VI!WorkIsTimed
      [] OTHER -> TRUE

\* A pin shows what an active function that is routed to it drives, and the
\* port's own OUT bit when there is none, however the routes were changed
\* (portmux_apply).
PinsFollowFunctions == part.kind = "portmux" => PM!PinsFollowFunctions

\* The lazily computed counters of the RTC and of a timer are ones that count in
\* every cycle, with their flags (avr_rtc_cnt_event, rtc_next_target,
\* avr_timer_tov, avr_timer_configure).  It is their CountsEveryCycle with the
\* kind of the part, which tells the steps of the others first.
CountsEveryCycle ==
    /\ RT!Counter!Init /\ [][part.kind = "rtc" => RT!Counter!Next]_(RT!Counter!vars)
    /\ TM!Counter!Init /\ [][part.kind = "timer" => TM!Counter!Next]_(TM!Seen)

=============================================================================
