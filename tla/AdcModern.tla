----------------------------- MODULE AdcModern -----------------------------
(***************************************************************************)
(* The modern ADC (avr_adc_modern.c).  A burst of samples is added up and  *)
(* becomes one result; a burst is started by a command, by an event, or,   *)
(* free-running, by the end of the one before.                             *)
(*                                                                         *)
(* The record a is avr_adc_modern_t with its registers.  A timer that is   *)
(* armed may fire any time, and the verdict of the window comparator is    *)
(* either.  One enable stands for both interrupts, EVCTRL STARTEI is set,  *)
(* and the sums stay below the width of RES, as those of 64 samples do.    *)
(* burst and last are history: the samples wanted and taken since the      *)
(* start, and those that RES shows; ignored are the requests that the ADC  *)
(* was off for.                                                            *)
(***************************************************************************)
EXTENDS Integers, Sequences

CONSTANTS
    Samples,    \* codes of one sample
    Lengths     \* samples of a burst: 1 << CTRLB.SAMPNUM

WellFormed == Samples \in SUBSET Nat /\ Lengths \in SUBSET (Nat \ {0}) /\ 1 \in Lengths

VARIABLE a

Sources == {"RESRDY", "WCMP"}
Requests == {"STCONV", "FREERUN"}
NoBurst == [wanted |-> 0, taken |-> << >>]
Total(samples) ==
    LET upTo[n \in 0 .. Len(samples)] == IF n = 0 THEN 0 ELSE upTo[n - 1] + samples[n]
    IN  upTo[Len(samples)]

Off ==
    [on |-> FALSE, free |-> FALSE, length |-> 1, stconv |-> FALSE, inten |-> FALSE,
     flags |-> {}, pending |-> {}, due |-> FALSE, sum |-> 0, count |-> 0, target |-> 0,
     res |-> 0, burst |-> NoBurst, last |-> NoBurst, ignored |-> {}]

Init == a = Off

-----------------------------------------------------------------------------
(* A burst *)

\* Mutant: the next burst adds to the sum of the one before.
SameSum(t) == [t EXCEPT !.count = 0, !.target = t.length,
                        !.burst = [wanted |-> t.length, taken |-> << >>]]

Fresh(t) == [t EXCEPT !.sum = 0, !.count = 0, !.target = t.length,
                      !.burst = [wanted |-> t.length, taken |-> << >>]]

\* avr_adc_modern_start
Start(t) == IF t.on THEN [Fresh(t) EXCEPT !.due = TRUE, !.ignored = {}] ELSE t

Raise(t, sources) ==
    [t EXCEPT !.flags = @ \cup sources, !.pending = IF t.inten THEN @ \cup sources ELSE @]

\* adc_finish and adc_window_compare
Finish(t, hit) ==
    Raise([t EXCEPT !.res = t.sum, !.last = t.burst, !.stconv = FALSE],
          {"RESRDY"} \cup (IF hit THEN {"WCMP"} ELSE {}))

\* Mutant: the timer of an ADC that is switched off is left.
Left(t) == t

Cancelled(t) == [t EXCEPT !.due = FALSE, !.burst = NoBurst]

\* avr_adc_modern_complete: a free-running ADC takes the next burst from here.
Complete(code, hit) ==
    /\ a.due
    /\ LET t == [a EXCEPT !.sum = @ + code, !.count = @ + 1, !.burst.taken = Append(@, code)]
           done == Finish(t, hit)
       IN a' = CASE ~a.on -> Cancelled(a)
                 [] a.on /\ t.count < t.target -> t
                 [] a.on /\ t.count >= t.target /\ t.free -> Fresh(done)
                 [] OTHER -> Cancelled(done)

-----------------------------------------------------------------------------
(* Registers *)

Ignored(t, requests) == [t EXCEPT !.ignored = @ \cup requests]

\* avr_adc_modern_ctrla_write.  An ADC that is enabled with FREERUN set from
\* before does not run.
WriteCtrla(on, free) ==
    LET t == [a EXCEPT !.on = on, !.free = free,
                       !.ignored = IF free THEN @ ELSE @ \ {"FREERUN"}]
    IN a' = CASE ~on ->
                 Ignored(Cancelled(t), (IF free THEN {"FREERUN"} ELSE {}) \cup
                                       (IF t.stconv THEN {"STCONV"} ELSE {}))
              [] on /\ free /\ ~a.free -> Start(t)
              [] OTHER -> t

\* There is no handler: a burst keeps the length it started with.
WriteCtrlb(length) == a' = [a EXCEPT !.length = length]

\* avr_adc_modern_command_write
WriteCommand(stconv) ==
    LET t == [a EXCEPT !.stconv = stconv, !.ignored = @ \ {"STCONV"}]
    IN a' = CASE stconv /\ t.on -> Start(t)
              [] stconv /\ ~t.on -> Ignored(t, {"STCONV"})
              [] OTHER -> t

\* avr_adc_modern_event_start
Event == a' = Start(a)

WriteIntctrl(enable) == a' = [a EXCEPT !.inten = enable]

\* avr_adc_modern_intflags_write: a flag that is not set has no request.
WriteIntflags(clears) ==
    a' = [a EXCEPT !.flags = @ \ clears, !.pending = @ \cap (a.flags \ clears)]

\* The CPUINT controller serves a vector; raise_sticky keeps the flag.
Serve(source) ==
    a.inten /\ source \in a.pending /\ a' = [a EXCEPT !.pending = @ \ {source}]

\* avr_reset with avr_adc_modern_reset
Reset == a' = [Off EXCEPT !.sum = a.sum, !.count = a.count, !.target = a.target]

-----------------------------------------------------------------------------
Next ==
    \/ \E code \in Samples, hit \in BOOLEAN : Complete(code, hit)
    \/ \E on, free \in BOOLEAN : WriteCtrla(on, free)
    \/ \E length \in Lengths : WriteCtrlb(length)
    \/ \E b \in BOOLEAN : WriteCommand(b) \/ WriteIntctrl(b)
    \/ Event \/ \E clears \in (SUBSET Sources) \ {{}} : WriteIntflags(clears)
    \/ \E source \in Sources : Serve(source)
    \/ Reset

Spec == Init /\ [][Next]_a

-----------------------------------------------------------------------------
(* Properties *)

TypeOK ==
    /\ a.on \in BOOLEAN /\ a.free \in BOOLEAN /\ a.length \in Lengths /\ a.stconv \in BOOLEAN
    /\ a.inten \in BOOLEAN /\ a.flags \subseteq Sources /\ a.pending \subseteq Sources
    /\ a.due \in BOOLEAN /\ a.sum \in Nat /\ a.count \in Nat /\ a.target \in Lengths \cup {0}
    /\ a.res \in Nat /\ a.ignored \subseteq Requests
    /\ \A b \in {a.burst, a.last} : b.wanted \in Lengths \cup {0} /\ b.taken \in Seq(Samples)

\* A conversion that firmware waits for has its timer, and only one of an ADC
\* that is on and has samples left to take, unless the ADC was off when it was
\* asked for; and what requests an interrupt has its flag
\* (avr_adc_modern_ctrla_write, avr_adc_modern_start, avr_adc_modern_complete).
WorkIsTimed ==
    /\ a.due => a.on /\ a.count < a.target
    /\ a.stconv => a.due \/ "STCONV" \in a.ignored
    /\ a.on /\ a.free => a.due \/ "FREERUN" \in a.ignored
    /\ a.pending \subseteq a.flags

\* RES is the sum of the samples of one burst, as many as CTRLB asked for when
\* the burst began, however it was restarted and CTRLB rewritten
\* (avr_adc_modern_start, avr_adc_modern_complete).
ResultIsBurst ==
    a.res = Total(a.last.taken) /\ Len(a.last.taken) = a.last.wanted

=============================================================================
