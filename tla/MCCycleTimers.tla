--------------------------- MODULE MCCycleTimers ---------------------------
(* Small instances of CycleTimers for TLC. *)
EXTENDS CycleTimers, TLC

CONSTANTS s1, s2, s3, ta, tb, tc

Slots2 == {s1, s2}
Slots3 == {s1, s2, s3}
Timers2 == {ta, tb}
Timers3 == {ta, tb, tc}

\* Slots are interchangeable.
SlotSymmetry == Permutations(Slot)

\* The contents of a free slot are overwritten before they are read again.
LiveState ==
    <<active, free, [s \in Slot \ free |-> slot[s]], cycle, runCount, phase,
      running, runWhen, asleep>>
=============================================================================
