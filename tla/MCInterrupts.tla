---------------------------- MODULE MCInterrupts ----------------------------
(* Interrupts on three MCUs. *)
EXTENDS Interrupts

\* A classic MCU.  The flag of vector 2 is sticky; the source of vector 1
\* stops in sleep.
Classic ==
    [cpuint |-> FALSE, vector |-> {1, 2}, nmi |-> {}, sticky |-> {2},
     stopped |-> {1}, firmware |-> {"cli", "mask", "clear", "sleep", "reset"}]

\* A CPUINT part without an NMI: firmware may clear I at any time.
Maskable ==
    [cpuint |-> TRUE, vector |-> {1, 2}, nmi |-> {}, sticky |-> {},
     stopped |-> {2}, firmware |-> {"cli", "clear", "sleep", "ccp", "levels", "reset"}]

\* A CPUINT part with an NMI, and room for all three levels.  Firmware never
\* clears I: CLI disarms a pending NMI, against the comment of the code.
NonMaskable ==
    [cpuint |-> TRUE, vector |-> {1, 2, 3}, nmi |-> {1}, sticky |-> {3},
     stopped |-> {3}, firmware |-> {"clear", "sleep", "ccp", "levels", "reset"}]

Parts == {Classic, Maskable, NonMaskable}

ASSUME PartsAssumption == Disciplined

\* Firmware that polls: flags are cleared with I clear.
Polled == {[Classic EXCEPT !.firmware = {"clear"}]}
=============================================================================
