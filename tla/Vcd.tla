-------------------------------- MODULE Vcd ---------------------------------
(***************************************************************************)
(* The recorder of value changes (sim_vcd_file.c, output): changes of the  *)
(* signals go to a log, which a cycle timer, or a log that is full, writes *)
(* to the file.  The file is in nanoseconds; a second change of a signal   *)
(* in one nanosecond is written one later, so that a pulse can be seen.    *)
(*                                                                         *)
(* The record v is avr_vcd_t with avr->cycle and what the file holds: the  *)
(* changes by number, each with the stamp it stands under and the flush    *)
(* that wrote it.  The flush timer may fire any time it is armed, since    *)
(* its period shrinks as the log overflows.  The value of a change is left *)
(* out.  offered is history: the changes since the start.                  *)
(***************************************************************************)
EXTENDS Integers, Sequences

CONSTANTS
    Signals,
    LogRoom,        \* entries of avr_vcd_fifo
    Scale,          \* nanoseconds of a cycle
    Width,          \* stamps are computed modulo Width, in the place of 2^64
    MaxCycle, MaxChanges

\* A cycle lasts two nanoseconds or more, and the clock of the file does not wrap.
WellFormed ==
    /\ LogRoom \in Nat \ {0} /\ MaxCycle \in Nat /\ MaxChanges \in Nat
    /\ Scale \in Nat /\ Scale >= 2 /\ Width \in Nat /\ Scale * MaxCycle < Width

VARIABLE v

Init ==
    v = [out |-> FALSE, timed |-> FALSE, start |-> 0, cycle |-> 0, log |-> << >>,
         file |-> << >>, flushes |-> 0, offered |-> << >>, reset |-> FALSE]

-----------------------------------------------------------------------------
(* avr_vcd_flush_log *)

\* avr_cycles_to_nsec
Nsec(when) == (Scale * (when - v.start)) % Width

\* Mutant: the second change of a nanosecond stands under the stamp of the first.
Same(base, f, sig) == base

Fudged(base, f, sig) == IF base = f.old /\ sig \in f.seen THEN base + 1 ELSE base

\* One entry, f being the part of the file under one stamp.
Written(f, l) ==
    LET base == Fudged(Nsec(l.when), f, l.sig)
        stamps == base > f.old \/ f.seen = {}
        at == IF stamps THEN base ELSE f.old
    IN [old |-> at, seen |-> {l.sig} \cup (IF stamps THEN {} ELSE f.seen),
        file |-> Append(f.file, [sig |-> l.sig, when |-> l.when, at |-> at, flush |-> v.flushes])]

Flushed(t) ==
    LET after[n \in 0 .. Len(t.log)] ==
            IF n = 0 THEN [old |-> 0, seen |-> {}, file |-> t.file]
            ELSE Written(after[n - 1], t.log[n])
    IN IF t.log = << >> \/ ~t.out THEN t
       ELSE [t EXCEPT !.log = << >>, !.flushes = @ + 1, !.file = after[Len(t.log)].file]

-----------------------------------------------------------------------------
(* Actions *)

\* _avr_vcd_timer
FlushTimer == v.timed /\ v' = Flushed(v)

\* Mutant: a full log drops the change.
Dropped(t) == IF Len(t.log) = LogRoom THEN [t EXCEPT !.log = SubSeq(@, 1, Len(@) - 1)] ELSE t

Emptied(t) == IF Len(t.log) = LogRoom THEN Flushed(t) ELSE t

\* _avr_vcd_notify
Change(sig) ==
    /\ Len(v.offered) < MaxChanges
    /\ LET l == [sig |-> sig, when |-> v.cycle]
           t == [Emptied(v) EXCEPT !.log = Append(@, l), !.offered = Append(@, l)]
       IN v' = IF v.out THEN t ELSE v

\* avr_vcd_start: the log is dropped, and the file that was open is lost.
Start ==
    v' = [v EXCEPT !.out = TRUE, !.timed = TRUE, !.start = v.cycle, !.log = << >>,
                   !.file = << >>, !.flushes = 0, !.offered = << >>, !.reset = FALSE]

\* Mutant: the log is left for the next recording.
Closed(t) == [t EXCEPT !.out = FALSE, !.timed = FALSE]

Closing(t) == [Flushed(t) EXCEPT !.out = FALSE, !.timed = FALSE]

\* avr_vcd_stop
Stop == v.out /\ v' = Closing(v)

\* avr_reset: the flush timer is dropped with all others, and the clock is 0.
Reset == v' = [v EXCEPT !.timed = FALSE, !.cycle = 0, !.reset = @ \/ v.out]

Pass == v.cycle < MaxCycle /\ v' = [v EXCEPT !.cycle = @ + 1]

-----------------------------------------------------------------------------
Next ==
    \/ FlushTimer \/ Start \/ Stop \/ Reset \/ Pass
    \/ \E sig \in Signals : Change(sig)

Spec == Init /\ [][Next]_v

-----------------------------------------------------------------------------
(* Properties *)

TypeOK ==
    /\ v.out \in BOOLEAN /\ v.timed \in BOOLEAN /\ v.reset \in BOOLEAN
    /\ v.start \in 0 .. MaxCycle /\ v.cycle \in 0 .. MaxCycle /\ v.flushes \in 0 .. MaxChanges
    /\ v.log \in Seq([sig : Signals, when : 0 .. MaxCycle]) /\ Len(v.log) <= LogRoom

Noted(l) == [sig |-> l.sig, when |-> l.when]

\* The file, followed by the log while recording and alone afterwards, has every
\* change since the start, in order (_avr_vcd_notify, avr_vcd_stop).
EveryChangeWritten ==
    LET written == [i \in DOMAIN v.file |-> Noted(v.file[i])]
    IN v.offered = IF v.out THEN written \o v.log ELSE written

\* A signal changed twice in the nanosecond of the change j, both before j.
Crowded(j) ==
    \E i, k \in 1 .. j - 1 :
        /\ i < k /\ v.file[i].sig = v.file[k].sig
        /\ v.file[i].when = v.file[j].when /\ v.file[k].when = v.file[j].when

\* A change stands under its own nanosecond or the next, and two changes of a
\* signal never under one stamp, unless that nanosecond had been made room in
\* before, for a change of any signal, or there was a flush between them, or the
\* clock was reset (avr_vcd_flush_log).
PulsesShow ==
    ~v.reset =>
        \A j \in DOMAIN v.file :
            LET l == v.file[j]
            IN /\ l.at - Nsec(l.when) \in {0, 1}
               /\ \A i \in 1 .. j - 1 :
                      v.file[i].sig = l.sig /\ v.file[i].at = l.at =>
                          Crowded(j) \/ v.file[i].flush # l.flush

\* While a file is open its log is flushed by a timer, unless the clock was
\* reset with the timers (avr_vcd_start_with_comment).
WorkIsTimed == v.out /\ ~v.reset <=> v.timed

=============================================================================
