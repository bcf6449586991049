-------------------------------- MODULE Adc ---------------------------------
(***************************************************************************)
(* The classic ADC (avr_adc.c): conversions that are started by firmware,  *)
(* by themselves or by the flag of another interrupt, and the interlock    *)
(* between the two bytes of a result.                                      *)
(*                                                                         *)
(* A conversion is two cycle timers one after the other; how long they are *)
(* is left out, so one that is armed may fire at any time.                 *)
(***************************************************************************)
EXTENDS Integers

CONSTANTS
    Samples     \* results of a conversion; 0 is what the registers are reset to

VARIABLES
    part,
    aden, adsc, adate, adif,  \* ADCSRA
    adts,       \* the auto trigger source that ADTS selects: "free" running or a "vector"
    mode,       \* p->adts_mode
    hooked,     \* p->adts_irq: the vector's pending IRQ notifies the ADC
    source,     \* the value of that IRQ
    converting, raising,      \* the timers of avr_adc_convert and avr_adc_int_raise
    result,     \* p->result
    adc,        \* ADCL and ADCH, which are written together
    interlock,  \* p->read_status
    adcl,       \* history: what ADCL was last read for, or Unread
    orphan      \* history: ADSC was set while the ADC was off

timers == <<converting, raising>>
trigger == <<adts, mode, hooked, source>>
vars == <<part, aden, adsc, adate, adif, trigger, timers, result, adc, interlock, adcl, orphan>>

Unread == -1

Init ==
    /\ aden = FALSE /\ adsc = FALSE /\ adate = FALSE /\ adif = FALSE
    /\ adts = "free" /\ mode = "none" /\ hooked = FALSE /\ source = 0
    /\ converting = FALSE /\ raising = FALSE
    /\ result = 0 /\ adc = 0 /\ interlock = FALSE /\ adcl = Unread /\ orphan = FALSE

-----------------------------------------------------------------------------
(* ADCSRA *)

\* avr_adc_configure_trigger
ConfigureTrigger(auto, ts) ==
    /\ mode' = IF auto THEN ts ELSE "none"
    /\ hooked' = (auto /\ ts = "vector")

\* avr_adc_write_adcsra: ADSC stays until the conversion ends or the ADC stops.
WriteAdcsra(en, sc, auto, clears) ==
    LET stays == adsc \/ sc
        stops == aden /\ ~en
        starts == en /\ ~adsc /\ sc
    IN  /\ aden' = en /\ adate' = auto
        /\ adif' = (adif /\ ~clears)
        /\ adsc' = (stays /\ ~stops)
        /\ converting' = (~stops /\ (converting \/ starts))
        /\ raising' = (~stops /\ raising)
        /\ orphan' = (adsc' /\ (orphan \/ (~adsc /\ ~en)))
        /\ ConfigureTrigger(auto, adts)

\* The firmware writes ADCSRA.
Write ==
    /\ \E en, sc, auto, clears \in BOOLEAN : WriteAdcsra(en, sc, auto, clears)
    /\ UNCHANGED <<part, adts, source, result, adc, interlock, adcl>>

\* avr_adc_write_adcsrb
WriteAdcsrb ==
    /\ adts' \in {"free", "vector"}
    /\ ConfigureTrigger(adate, adts')
    /\ UNCHANGED <<part, aden, adsc, adate, adif, source, timers, result, adc, interlock, adcl,
                   orphan>>

-----------------------------------------------------------------------------
(* Triggers *)

\* avr_adc_start_auto
AutoStarts == adate /\ ~adsc

StartAuto ==
    IF AutoStarts
    THEN WriteAdcsra(aden, TRUE, adate, FALSE)
    ELSE UNCHANGED <<aden, adsc, adate, adif, timers, orphan, mode, hooked>>

\* The pending IRQ of the vector changes, or is told its value again.
SourceRaised(v) ==
    /\ source' = v
    /\ IF hooked /\ v = 1 /\ source = 0
       THEN StartAuto
       ELSE UNCHANGED <<aden, adsc, adate, adif, timers, orphan, mode, hooked>>
    /\ UNCHANGED <<part, adts, result, adc, interlock, adcl>>

\* A board raises ADC_IRQ_IN_TRIGGER.
Trigger == StartAuto /\ UNCHANGED <<part, adts, source, result, adc, interlock, adcl>>

-----------------------------------------------------------------------------
(* A conversion *)

\* avr_adc_convert
Convert ==
    /\ converting
    /\ result' \in Samples
    /\ converting' = FALSE /\ raising' = TRUE
    /\ UNCHANGED <<part, aden, adsc, adate, adif, trigger, adc, interlock, adcl, orphan>>

\* Mutant: the interlock is not looked at.
Overwritten == result

Published == IF interlock THEN adc ELSE result

\* avr_adc_int_raise: a free running ADC starts again at once, unless ADATE is
\* off by now.
EndConversion ==
    /\ raising /\ aden
    /\ adc' = Published
    /\ adif' = TRUE
    /\ raising' = FALSE
    /\ LET again == mode = "free" /\ adate
       IN  adsc' = again /\ converting' = again
    /\ UNCHANGED <<part, aden, adate, trigger, result, interlock, adcl, orphan>>

\* The ADC vector is served, which clears the flag.
ServeAdc ==
    /\ adif /\ adif' = FALSE
    /\ UNCHANGED <<part, aden, adsc, adate, trigger, timers, result, adc, interlock, adcl,
                   orphan>>

-----------------------------------------------------------------------------
(* Reading the result, and the reset *)

\* avr_adc_read_l and avr_adc_read_h
ReadL ==
    /\ interlock' = TRUE /\ adcl' = adc
    /\ UNCHANGED <<part, aden, adsc, adate, adif, trigger, timers, result, adc, orphan>>

ReadH ==
    /\ interlock' = FALSE /\ adcl' = Unread
    /\ UNCHANGED <<part, aden, adsc, adate, adif, trigger, timers, result, adc, orphan>>

\* avr_reset with avr_adc_reset: the interlock and the hook stay.
Reset ==
    /\ aden' = FALSE /\ adsc' = FALSE /\ adate' = FALSE /\ adif' = FALSE /\ adts' = "free"
    /\ converting' = FALSE /\ raising' = FALSE
    /\ adc' = 0 /\ adcl' = Unread /\ orphan' = FALSE
    /\ UNCHANGED <<part, mode, hooked, source, result, interlock>>

-----------------------------------------------------------------------------
Next ==
    \/ Write \/ WriteAdcsrb
    \/ \E v \in {0, 1} : SourceRaised(v)
    \/ Trigger \/ Convert \/ EndConversion \/ ServeAdc
    \/ ReadL \/ ReadH \/ Reset

Spec == Init /\ [][Next]_vars

-----------------------------------------------------------------------------
(* Properties *)

TypeOK ==
    /\ aden \in BOOLEAN /\ adsc \in BOOLEAN /\ adate \in BOOLEAN /\ adif \in BOOLEAN
    /\ adts \in {"free", "vector"} /\ mode \in {"none", "free", "vector"}
    /\ hooked \in BOOLEAN /\ source \in {0, 1}
    /\ converting \in BOOLEAN /\ raising \in BOOLEAN
    /\ result \in Samples \cup {0} /\ adc \in Samples \cup {0}
    /\ interlock \in BOOLEAN /\ adcl \in Samples \cup {0, Unread} /\ orphan \in BOOLEAN

\* A conversion is timed by one of the two timers, exactly while ADSC reads 1,
\* unless ADSC was set while the ADC was off.
WorkIsTimed ==
    /\ ~(converting /\ raising)
    /\ converting \/ raising => aden /\ adsc /\ ~orphan
    /\ adsc => converting \/ raising \/ orphan

\* ADCH, read after ADCL, belongs to the conversion that ADCL was read for.
PairIsOneConversion == adcl # Unread => adcl = adc

=============================================================================
