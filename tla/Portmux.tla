------------------------------ MODULE Portmux -------------------------------
(***************************************************************************)
(* The pin routing of the modern cores (avr_portmux.c) on the overrides of *)
(* the ports (avr_port_modern.c).  A function is one output of a           *)
(* peripheral; which pin it takes over is chosen by a routing register.    *)
(***************************************************************************)
EXTENDS Naturals, FiniteSets

CONSTANTS
    Functions,  \* 1 .. p->nfuncs, in the order they were added
    Fields,     \* values of a routing field
    PinOf,      \* f->pins: the pin of a function for each of them
    NoPin       \* a choice the package lacks

VARIABLES
    part,
    route,      \* the routing field of each function
    active, value,  \* f->active, f->value
    claimed,    \* f->claimed
    latch,      \* PORTx.OUT, of each pin
    ovrEn, ovrVal   \* p->ovr_en and p->ovr_val: sets of pins

functions == <<active, value, claimed>>
overrides == <<ovrEn, ovrVal>>
vars == <<part, route, functions, latch, overrides>>

\* What the constants have to satisfy: functions are numbered.
WellFormed == Functions \in SUBSET Nat /\ IsFiniteSet(Functions) /\ 0 \in Fields

Pins == (UNION {{PinOf[f][n] : n \in Fields} : f \in Functions}) \ {NoPin}

Init ==
    /\ route = [f \in Functions |-> 0]
    /\ active = [f \in Functions |-> FALSE] /\ value = [f \in Functions |-> 0]
    /\ claimed = [f \in Functions |-> NoPin]
    /\ latch = [p \in Pins |-> 0]
    /\ ovrEn = {} /\ ovrVal = {}

-----------------------------------------------------------------------------
\* The pin a function takes over, by portmux_target, or NoPin.
Target(f) == IF active'[f] THEN PinOf[f][route'[f]] ELSE NoPin

\* Mutant: a function gives its pin up after the others have claimed theirs.
ReleasedLast(left, taken) == (ovrEn \cup taken) \ left

\* The overrides after the two loops of portmux_apply.
Overridden(left, taken) == (ovrEn \ left) \cup taken

\* The functions that take a pin over; the last of them decides its level.
Takers(p) == {f \in Functions : Target(f) = p}
LastTaker(p) == CHOOSE f \in Takers(p) : \A g \in Takers(p) : g <= f

\* portmux_apply with avr_port_modern_override: all claims are dropped that are
\* not the target any more, then all targets are claimed.
Apply ==
    LET left == {claimed[f] : f \in {g \in Functions : claimed[g] # Target(g)}} \ {NoPin}
        taken == {Target(f) : f \in Functions} \ {NoPin}
    IN  /\ claimed' = [f \in Functions |-> Target(f)]
        /\ ovrEn' = Overridden(left, taken)
        /\ ovrVal' = (ovrVal \ (left \cup taken)) \cup {p \in taken : value'[LastTaker(p)] = 1}

\* avr_portmux_func_set, which the pin IRQ of the peripheral calls
FuncSet(f, on, level) ==
    /\ <<on, level>> # <<active[f], value[f]>>
    /\ active' = [active EXCEPT ![f] = on]
    /\ value' = [value EXCEPT ![f] = level]
    /\ UNCHANGED <<part, route, latch>>
    /\ Apply

\* avr_portmux_write, of a register with the fields of some functions
WriteRoute(fs, n) ==
    /\ route' = [f \in Functions |-> IF f \in fs THEN n ELSE route[f]]
    /\ UNCHANGED <<part, active, value, latch>>
    /\ Apply

\* avr_port_modern_out_write
WriteOut(p, v) ==
    /\ latch' = [latch EXCEPT ![p] = v]
    /\ UNCHANGED <<part, route, functions, overrides>>

\* avr_reset with avr_port_modern_reset, the peripherals, avr_portmux_reset
Reset ==
    /\ route' = [f \in Functions |-> 0]
    /\ active' = [f \in Functions |-> FALSE] /\ value' = [f \in Functions |-> 0]
    /\ claimed' = [f \in Functions |-> NoPin]
    /\ latch' = [p \in Pins |-> 0]
    /\ ovrEn' = {} /\ ovrVal' = {}
    /\ UNCHANGED part

Next ==
    \/ \E f \in Functions, on \in BOOLEAN, v \in {0, 1} : FuncSet(f, on, v)
    \/ \E fs \in SUBSET Functions, n \in Fields : WriteRoute(fs, n)
    \/ \E p \in Pins, v \in {0, 1} : WriteOut(p, v)
    \/ Reset

Spec == Init /\ [][Next]_vars

-----------------------------------------------------------------------------
(* Properties *)

TypeOK ==
    /\ route \in [Functions -> Fields]
    /\ active \in [Functions -> BOOLEAN] /\ value \in [Functions -> {0, 1}]
    /\ claimed \in [Functions -> Pins \cup {NoPin}]
    /\ latch \in [Pins -> {0, 1}]
    /\ ovrEn \subseteq Pins /\ ovrVal \subseteq ovrEn

\* eff_out
Level(p) == IF p \in ovrEn THEN (IF p \in ovrVal THEN 1 ELSE 0) ELSE latch[p]

Routed(p) == {f \in Functions : active[f] /\ PinOf[f][route[f]] = p}

\* A pin shows what an active function that is routed to it drives, and the
\* port's own OUT bit when there is none, however the routes were changed.
PinsFollowFunctions ==
    \A p \in Pins :
        LET shown == IF Routed(p) = {} THEN {latch[p]} ELSE {value[f] : f \in Routed(p)}
        IN  Level(p) \in shown /\ (p \in ovrEn <=> Routed(p) # {})

=============================================================================
