------------------------------- MODULE Clkpr -------------------------------
(***************************************************************************)
(* The classic system clock prescaler (avr_clkpr.c): CLKPS is written      *)
(* within four cycles of CLKPCE and divides avr->frequency, which a load   *)
(* of firmware sets too, at any time and behind the module's back.         *)
(*                                                                         *)
(* The record k is avr_clkpr_t with its register; due is the deadline of   *)
(* clkpr_expire, from the current cycle.  opened, source and home are      *)
(* history: cycles since the window was opened, the undivided clock, and   *)
(* the frequency the last reset started with, 0 once a load gave another.  *)
(***************************************************************************)
EXTENDS Integers

CONSTANTS
    Prescalings,   \* values of CLKPS; those past Slowest are reserved
    Slowest,
    Fused,         \* CLKPS after a reset with CKDIV8 programmed
    Given,         \* frequencies of firmware files
    ChangeCycles   \* CLKPCE_CYCLES

VARIABLE k

Never == -9
Division(n) == 2 ^ n
Rounded(hz, div) == (hz + div \div 2) \div div
Started(n, hz) ==
    [ps |-> n, open |-> FALSE, due |-> Never, fuse |-> n,
     div |-> Division(n), resetDiv |-> Division(n),
     base |-> hz * Division(n), last |-> hz, freq |-> hz,
     opened |-> Never, source |-> hz * Division(n), home |-> hz]

\* What the constants are: no reset selects a reserved prescaling.  A power of
\* two is positive, which is left to arithmetic.
WellFormed ==
    /\ Slowest \in Nat /\ Prescalings \subseteq Nat /\ Given \subseteq Nat
    /\ {0, Fused} \subseteq Prescalings /\ {0, Fused} \subseteq 0 .. Slowest
    /\ ChangeCycles \in Nat
    /\ \A n \in 0 .. Slowest : Division(n) \in Nat \ {0}

\* avr_init sets the frequency first and resets last.
Init == \E n \in {0, Fused}, hz \in Given : k = Started(n, hz)

-----------------------------------------------------------------------------
(* Helpers *)

\* Mutant: the clock of before goes on to be divided.
Unsynced(c) == c

\* clkpr_sync
Synced(c) == IF c.freq = c.last THEN c ELSE [c EXCEPT !.base = c.freq * c.div, !.last = c.freq]

\* clkpr_set_div
SetDiv(c, div) ==
    LET s == Synced(c)
        hz == Rounded(s.base, div)
    IN  [s EXCEPT !.div = div, !.freq = hz, !.last = hz]

\* Mutant: CLKPCE written again extends the time-out.
Extended(c) == [c EXCEPT !.open = TRUE, !.due = ChangeCycles,
                         !.opened = IF c.open THEN @ ELSE 0]

Opened(c) ==
    IF c.open THEN c
    ELSE [c EXCEPT !.open = TRUE, !.due = ChangeCycles, !.opened = 0]

\* Mutant: a change leaves the timer of its window.
LeftTimer(c, n) ==
    LET w == [c EXCEPT !.open = FALSE, !.ps = n]
    IN  IF n <= Slowest THEN SetDiv(w, Division(n)) ELSE w

\* A reserved value is kept and changes no clock.
Changed(c, n) ==
    LET w == [c EXCEPT !.open = FALSE, !.due = Never, !.opened = Never, !.ps = n]
    IN  IF n <= Slowest THEN SetDiv(w, Division(n)) ELSE w

-----------------------------------------------------------------------------
(* Steps *)

Due == k.due # Never /\ k.due <= 0

\* clkpr_write
Write(pce, n) ==
    /\ ~Due
    /\ k' = CASE pce /\ n = 0 -> Opened(k)
              [] ~pce /\ k.open -> Changed(k, n)
              [] OTHER -> k

\* clkpr_expire
Expire == Due /\ k' = [k EXCEPT !.open = FALSE, !.due = Never, !.opened = Never]

\* A cycle of an instruction, which may end past the deadline.
Pass ==
    /\ k.due > -1
    /\ k' = [k EXCEPT !.due = @ - 1, !.opened = @ + 1]

\* avr_load_firmware; the fuse that comes with it is read by the next reset.  A
\* load that gives the frequency clkpr_set_div last set passes for none.
Load(hz, n) ==
    k' = [k EXCEPT !.freq = hz, !.fuse = n,
                   !.source = IF hz = k.last THEN k.base ELSE hz * k.div,
                   !.home = IF hz = k.freq THEN @ ELSE 0]

\* avr_reset with clkpr_reset
Reset ==
    LET s == Synced(IF k.div = k.resetDiv THEN k ELSE SetDiv(k, k.resetDiv))
        base == s.freq * Division(k.fuse)
    IN  k' = [s EXCEPT !.ps = k.fuse, !.open = FALSE, !.due = Never, !.opened = Never,
                       !.div = Division(k.fuse), !.resetDiv = Division(k.fuse),
                       !.base = base, !.source = base, !.home = IF @ = 0 THEN s.freq ELSE @]

Next ==
    \/ \E pce \in BOOLEAN, n \in Prescalings : Write(pce, n)
    \/ Expire \/ Pass \/ Reset
    \/ \E hz \in Given, n \in {0, Fused} : Load(hz, n)

Spec == Init /\ [][Next]_k

-----------------------------------------------------------------------------
(* Properties *)

TypeOK ==
    /\ k.ps \in Prescalings /\ k.open \in BOOLEAN /\ k.fuse \in {0, Fused}
    /\ {k.div, k.resetDiv} \subseteq {Division(n) : n \in 0 .. Slowest}
    /\ {k.base, k.last, k.freq, k.source, k.home} \subseteq Nat
    /\ k.due \in -1 .. ChangeCycles \cup {Never}
    /\ k.opened \in 0 .. ChangeCycles + 1 \cup {Never}

\* avr->frequency is the undivided clock over the division, rounded once,
\* however often the division and the clock were changed in turn, and back at
\* the division of the last reset it is exactly the frequency that reset
\* started with (clkpr_sync, clkpr_set_div, clkpr_reset).
ClockFollowsPrescaler ==
    /\ k.freq = Rounded(k.source, k.div)
    /\ k.ps <= Slowest => k.div = Division(k.ps)
    /\ k.home # 0 /\ k.div = k.resetDiv => k.freq = k.home

\* CLKPCE reads 1 exactly while the timer that clears it is waiting.
TimerFollowsWindow == k.open <=> k.due # Never

\* CLKPS changes only within ChangeCycles of the write that opened the window,
\* CLKPCE written again notwithstanding (clkpr_write).
ChangesInSequence ==
    (k.opened # Never /\ k.opened < ChangeCycles) \/ Reset \/ k'.ps = k.ps

=============================================================================
