------------------------------ MODULE VcdInput ------------------------------
(***************************************************************************)
(* The player of value changes (sim_vcd_file.c, input): a file is read     *)
(* into a log as far as it seems needed, and a cycle timer raises what is  *)
(* due.                                                                    *)
(*                                                                         *)
(* The record r is avr_vcd_t with what is left of the file.  A line may    *)
(* have a stamp and the changes of some signals; a change without a stamp  *)
(* belongs to the last one.  Changes are numbered in the order of the      *)
(* file, a stamp is the cycle it falls on, and raised is history.  What    *)
(* the parser does with text it does not understand is left out.           *)
(***************************************************************************)
EXTENDS Integers, Sequences

CONSTANTS
    Files,      \* sequences of lines [stamp, changes], the first stamp with a change
    NoStamp,
    LogRoom,    \* entries of avr_vcd_fifo
    Enough,     \* entries at which reading stops
    Low,        \* entries below which it starts: signal_count * 16
    MaxCycle

VARIABLE r

Never == -1

\* A number for each change: those before it in the file.
Entries(stamp, first, changes) == [i \in 1 .. changes |-> [when |-> stamp, n |-> first + i]]

\* avr_vcd_input_parse_line.  What the log has no room for is lost.
Parsed(t, line) ==
    LET stamp == IF line.stamp = NoStamp THEN t.stamp ELSE line.stamp
        log == t.log \o Entries(stamp, t.read, line.changes)
    IN [t EXCEPT !.stamp = stamp, !.read = @ + line.changes,
                 !.log = SubSeq(log, 1, IF Len(log) > LogRoom THEN LogRoom ELSE Len(log))]

\* avr_vcd_input_read: at least a line, and on until there is enough.
Reads(t) ==
    LET after[k \in 0 .. Len(t.file)] ==
            IF k = 0 THEN t ELSE [Parsed(after[k - 1], t.file[k]) EXCEPT !.file = Tail(@)]
        full == {k \in 1 .. Len(t.file) : Len(after[k].log) >= Enough}
    IN after[IF full = {} THEN Len(t.file) ELSE CHOOSE k \in full : \A j \in full : k <= j]

\* Mutant: more is read when the log has run out.
RunsOut(t) == t.log = << >>

Lacks(t) == Len(t.log) < Low

\* avr_vcd_init_input reads the file up to its first stamp.
Opened(file) ==
    [Parsed([file |-> file, stamp |-> NoStamp, read |-> 0, log |-> << >>,
             due |-> Head(file).stamp, cycle |-> 0, raised |-> << >>, reset |-> FALSE],
            Head(file)) EXCEPT !.file = Tail(@)]

Init == r \in {Opened(file) : file \in Files}

\* The last stamp and the changes of the first k lines, had the log room for them.
Whole(file) ==
    LET upto[k \in 0 .. Len(file)] ==
            IF k = 0 THEN [stamp |-> NoStamp, log |-> << >>]
            ELSE LET stamp == IF file[k].stamp = NoStamp THEN upto[k - 1].stamp ELSE file[k].stamp
                     log == upto[k - 1].log
                 IN [stamp |-> stamp, log |-> log \o Entries(stamp, Len(log), file[k].changes)]
    IN upto

\* A stamp has fewer changes than make the reading stop.
Sparse(log) ==
    \A i, j \in DOMAIN log :
        i <= j /\ log[i].when = log[j].when => \A n \in {Low, Enough} : j - i + 1 < n

\* The files: a line fits in the log when it is read, the first change is at the
\* first stamp, and stamps are sparse.
Fits(file) ==
    /\ file \in Seq([stamp : Nat, changes : Nat]) /\ file # << >>
    /\ Head(file).changes <= LogRoom
    /\ \A k \in 2 .. Len(file) : \A n \in {Low, Enough} : file[k].changes + n <= LogRoom + 1
    /\ \A k \in 1 .. Len(file) :
           LET log == Whole(file)[k].log
           IN (log # << >> => log[1].when = Head(file).stamp) /\ Sparse(log)

WellFormed ==
    /\ LogRoom \in Nat /\ MaxCycle \in Nat /\ Enough \in Nat \ {0} /\ Low \in Nat \ {0}
    /\ NoStamp \in Nat /\ \A file \in Files : Head(file).stamp # NoStamp /\ Fits(file)

-----------------------------------------------------------------------------
(* Actions *)

\* What is raised by one pass of the timer: the entries of the first stamp.
Raised(t) ==
    LET stamp == Head(t.log).when
        now(l) == l.when = stamp
        others == {k \in DOMAIN t.log : ~now(t.log[k])}
        k == IF others = {} THEN Len(t.log) ELSE (CHOOSE j \in others : \A i \in others : j <= i) - 1
        raise(l) == [n |-> l.n, when |-> l.when, at |-> t.cycle]
    IN [t EXCEPT !.log = SubSeq(@, k + 1, Len(@)),
                 !.raised = @ \o [i \in 1 .. k |-> raise(t.log[i])],
                 !.due = IF k = Len(t.log) THEN Never ELSE t.log[k + 1].when]

\* _avr_vcd_input_timer; a stamp that is due by now is another pass.
Timer ==
    /\ r.due # Never /\ r.due <= r.cycle
    /\ LET t == IF Lacks(r) THEN Reads(r) ELSE r
       IN r' = IF t.log = << >> THEN [t EXCEPT !.due = Never] ELSE Raised(t)

\* The core looks at the timer one cycle late at most.
Pass ==
    /\ r.cycle < MaxCycle /\ ~(r.due # Never /\ r.due < r.cycle)
    /\ r' = [r EXCEPT !.cycle = @ + 1]

\* avr_reset drops the timer.
Reset == r' = [r EXCEPT !.due = Never, !.cycle = 0, !.reset = TRUE]

Next == Timer \/ Pass \/ Reset

Spec == Init /\ [][Next]_r

-----------------------------------------------------------------------------
(* Properties *)

TypeOK ==
    /\ r.due \in Int /\ r.cycle \in 0 .. MaxCycle /\ Len(r.log) <= LogRoom
    /\ r.read \in Nat /\ r.reset \in BOOLEAN

\* Changes are raised in the order of the file, none is left out, and none
\* comes before its stamp (_avr_vcd_input_timer, avr_vcd_input_read).
ReplaysInOrder ==
    \A i \in DOMAIN r.raised : r.raised[i].n = i /\ r.raised[i].at >= r.raised[i].when

\* The player has a timer until all of the file was raised, or the core was
\* reset (_avr_vcd_input_timer).
WorkIsTimed ==
    r.due = Never /\ ~r.reset =>
        r.log = << >> /\ \A k \in DOMAIN r.file : r.file[k].changes = 0

=============================================================================
