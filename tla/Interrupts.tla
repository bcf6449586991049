----------------------------- MODULE Interrupts -----------------------------
(***************************************************************************)
(* The interrupt engine (sim_interrupts.c) with the core that drives it:   *)
(* the classic controller, where the lowest vector number wins and the I   *)
(* bit gates nesting, and the modern CPUINT one, with a non-maskable, a    *)
(* level-1 and a round-robin level-0 priority (CpuInt).                    *)
(*                                                                         *)
(* One pass of avr_callback_run_raw is an instruction (phase "exec")       *)
(* followed by avr_service_interrupts (phase "service").  Peripherals      *)
(* raise interrupts during both, from instructions, timers and hosts.      *)
(***************************************************************************)
EXTENDS Integers, Sequences, FiniteSets, SequencesExt

CONSTANTS
    Part,          \* the MCUs, and how firmware uses them: see PartAssumption
    Vector,        \* vector numbers; 0 is reset
    Capacity,      \* what the pending fifo holds: its size less one
    StackSize,     \* how many nested handlers "running" records
    CcpWindow      \* instructions a CCP signature protects

FirmwareKinds == {"cli", "mask", "clear", "sleep", "ccp", "levels", "reset"}

ASSUME VectorAssumption ==
    /\ Vector \subseteq Nat \ {0} /\ IsFiniteSet(Vector) /\ Vector # {}
    /\ Capacity \in Nat \ {0} /\ StackSize \in Nat \ {0} /\ CcpWindow \in Nat

\* cpuint: AVR_ARCH_F_CPUINT.  vector: the registered vectors, of which nmi
\* are non-maskable (CPUINT), software clears the flag of those in sticky, and
\* the source of those in stopped has no clock while the CPU sleeps.
\* firmware: what it does besides running, SEI and RETI.
ASSUME PartAssumption ==
    Part \subseteq [cpuint : BOOLEAN,
                   vector : (SUBSET Vector) \ {{}},
                   nmi : SUBSET Vector, sticky : SUBSET Vector,
                   stopped : SUBSET Vector,
                   firmware : SUBSET FirmwareKinds]

\* One place for each level of CPUINT, at least: the code records 64.
ASSUME StackAssumption == StackSize >= 3

\* sim_interrupts.h: "Size needs to be >= max number of vectors".  A ring of
\* that size holds one entry less, so this asks for one more.
ASSUME FifoAssumption == Cardinality(Vector) <= Capacity

VARIABLES
    part,      \* the MCU, chosen once
    pending,   \* the vectors whose pending bit is set
    fifo,      \* table->pending
    raised,    \* the vectors whose flag in an IO register is set
    enabled,   \* the vectors whose enable bit is set
    iflag,     \* sreg[S_I]
    istate,    \* avr->interrupt_state: -1 latency, 0 idle, 1 to be serviced
    running,   \* table->running[0 .. running_ptr-1]
    status,    \* cpuint_status: the levels whose handlers run
    lvl1vec, lvl0pri, lvl0rr,  \* the CPUINT registers
    ccp,       \* arch.ccp_window
    mode,      \* avr->state: "running", "sleeping" or "done"
    phase,     \* "exec" or "service"
    entered    \* history: the level each handler of running was entered at

cpuint == <<status, lvl1vec, lvl0pri, lvl0rr>>
vars == <<part, pending, fifo, raised, enabled, iflag, istate, running, cpuint, ccp,
          mode, phase, entered>>

CpuInt == part.cpuint
Nmi == part.nmi
Sticky == part.sticky
StoppedAsleep == part.stopped

HasPending == fifo # << >>

\* Mutant: the state goes to idle whatever is pending.
RearmedIdle == 0

\* avr_has_pending_interrupts, as the next interrupt_state.
Rearmed == IF HasPending THEN 1 ELSE 0

-----------------------------------------------------------------------------
(* Priorities *)

Level(v) == IF v \in Nmi THEN 2 ELSE IF lvl1vec = v THEN 1 ELSE 0

MaxVector == CHOOSE m \in part.vector : \A v \in part.vector : v <= m

\* Level 0 wraps around after the vector acknowledged last (LVL0PRI).
Rank(v) ==
    LET M == MaxVector + 1
    IN  IF Level(v) = 0 THEN (v - 1 - lvl0pri + 2 * M) % M ELSE v

Blocking(level) == level .. 2

\* What avr_service_interrupts_modern asks of an entry of the fifo.
Serviceable(v) ==
    /\ v \in pending /\ v \in enabled
    /\ Level(v) = 2 \/ iflag
    /\ status \cap Blocking(Level(v)) = {}

Before(v, w) == \/ Level(v) > Level(w)
                \/ Level(v) = Level(w) /\ Rank(v) < Rank(w)

Candidates == {i \in 1 .. Len(fifo) : Serviceable(fifo[i])}

BestPlace ==
    CHOOSE i \in Candidates : \A j \in Candidates \ {i} :
        Before(fifo[i], fifo[j]) \/ (i < j /\ ~Before(fifo[j], fifo[i]))

\* The classic choice: the first entry with the lowest vector number.
LowestPlace ==
    CHOOSE i \in 1 .. Len(fifo) : \A j \in 1 .. Len(fifo) :
        fifo[i] < fifo[j] \/ (fifo[i] = fifo[j] /\ i <= j)

\* Mutant: the front entry is dropped into the place after the chosen one.
TakeAtOffByOne(q, i) ==
    IF i = 1 THEN Tail(q)
    ELSE [Tail(q) EXCEPT ![IF i = Len(q) THEN 1 ELSE i] = q[1]]

\* The entry at place i leaves the ring: the front is read and, unless it is
\* the one, dropped into the place of the one that leaves.
TakeAt(q, i) == IF i = 1 THEN Tail(q) ELSE [Tail(q) EXCEPT ![i - 1] = q[1]]

-----------------------------------------------------------------------------
Init ==
    /\ part \in Part
    /\ pending = {} /\ fifo = << >> /\ raised = {} /\ enabled = {}
    /\ iflag = FALSE /\ istate = 0
    /\ running = << >> /\ entered = << >> /\ status = {}
    /\ lvl1vec = 0 /\ lvl0pri = 0 /\ lvl0rr = FALSE
    /\ ccp = 0 /\ mode = "running" /\ phase = "exec"

(***************************************************************************)
(* Peripherals                                                             *)
(***************************************************************************)

\* interrupt_state after a raise.
ArmedByRaise ==
    IF istate = 0 /\ (CpuInt \/ iflag) THEN 1 ELSE istate

\* Mutant: the ring is written without asking whether it is full.
WrittenUnchecked(v) == Append(fifo, v)

\* avr_int_pending_write: a full ring drops the entry.
Written(v) == IF Len(fifo) < Capacity THEN Append(fifo, v) ELSE fifo

\* avr_raise_interrupt.  A full fifo drops the entry and nothing notices.
Raise(v) ==
    /\ mode # "done"
    /\ ~(mode = "sleeping" /\ v \in StoppedAsleep)
    /\ raised' = raised \cup {v}
    /\ IF v \notin pending /\ v \in enabled
       THEN /\ pending' = pending \cup {v}
            /\ fifo' = Written(v)
            /\ istate' = ArmedByRaise
            /\ mode' = "running"
       ELSE UNCHANGED <<pending, fifo, istate, mode>>
    /\ UNCHANGED <<enabled, iflag, running, cpuint, ccp, phase, entered>>

\* The entries of q other than v, in their order.
Kept(q, v) == {i \in 1 .. Len(q) : q[i] # v}

InOrder(places) ==
    CHOOSE f \in Bijection(1 .. Cardinality(places), places) :
        \A i, j \in 1 .. Cardinality(places) : i < j => f[i] < f[j]

Without(q, v) == [i \in 1 .. Cardinality(Kept(q, v)) |-> q[InOrder(Kept(q, v))[i]]]

\* avr_clear_interrupt, on a fifo q: only CPUINT takes the entries out.
Cleared(q, v) ==
    /\ fifo' = IF CpuInt /\ v \in pending THEN Without(q, v) ELSE q
    /\ pending' = pending \ {v}
    /\ raised' = IF v \in Sticky THEN raised ELSE raised \ {v}

(***************************************************************************)
(* Instructions.  Each ends with the countdown of the CCP window.          *)
(***************************************************************************)
Executes == phase = "exec" /\ mode = "running"

Executed == phase' = "service" /\ ccp' = IF ccp > 0 THEN ccp - 1 ELSE 0

Allowed(kind) == kind \in part.firmware

Plain ==
    /\ Executes /\ Executed
    /\ UNCHANGED <<pending, fifo, raised, enabled, iflag, istate, running,
                   cpuint, mode, entered>>

\* avr_sreg_set(S_I, 1): one instruction of latency, unless it was set.
Sei ==
    /\ Executes /\ Executed
    /\ iflag' = TRUE
    /\ istate' = IF iflag THEN istate ELSE -1
    /\ UNCHANGED <<pending, fifo, raised, enabled, running, cpuint, mode, entered>>

\* avr_sreg_set(S_I, 0), from CLI or a write of SREG.
Cli ==
    /\ Allowed("cli")
    /\ Executes /\ Executed
    /\ iflag' = FALSE
    /\ istate' = 0
    /\ UNCHANGED <<pending, fifo, raised, enabled, running, cpuint, mode, entered>>

Highest(S) == CHOOSE l \in S : \A m \in S : m <= l

\* Mutants: RETI clears every execution-level flag, or none.
LeftOfAll(S) == {}
LeftOfNone(S) == S

\* RETI on CPUINT clears the flag of the highest executing level.
LeftOf(S) == IF S = {} THEN {} ELSE S \ {Highest(S)}

\* RETI: the classic core sets I, then avr_interrupt_reti.
Reti ==
    /\ Executes /\ Executed
    /\ running' = IF running = << >> THEN running ELSE Front(running)
    /\ entered' = IF entered = << >> THEN entered ELSE Front(entered)
    /\ IF CpuInt
       THEN /\ status' = LeftOf(status)
            /\ istate' = IF istate = 0 THEN Rearmed ELSE istate
            /\ UNCHANGED iflag
       ELSE /\ iflag' = TRUE
            /\ istate' = IF iflag THEN istate ELSE -1
            /\ UNCHANGED status
    /\ UNCHANGED <<pending, fifo, raised, enabled, lvl1vec, lvl0pri, lvl0rr, mode>>

MaySleep == ~HasPending \/ ~iflag

\* SLEEP is a no-op when interrupts are about to be serviced.
Sleep ==
    /\ Allowed("sleep")
    /\ Executes /\ Executed
    /\ mode' = IF MaySleep THEN "sleeping" ELSE mode
    /\ UNCHANGED <<pending, fifo, raised, enabled, iflag, istate, running,
                   cpuint, entered>>

\* A peripheral register: the enable bit of v is written.
WriteEnable(v) ==
    /\ v \in pending => Allowed("mask")
    /\ Executes /\ Executed
    /\ enabled' \in {enabled \cup {v}, enabled \ {v}}
    /\ UNCHANGED <<pending, fifo, raised, iflag, istate, running, cpuint, mode,
                   entered>>

\* A flag register: software writes one to the flag of v.
ClearFlag(v) ==
    /\ Allowed("clear")
    /\ Executes /\ Executed
    /\ Cleared(fifo, v)
    /\ UNCHANGED <<enabled, iflag, istate, running, cpuint, mode, entered>>

\* The CCP signature opens its window, which this instruction counts down too.
CcpWrite ==
    /\ Allowed("ccp") /\ CpuInt
    /\ Executes
    /\ phase' = "service" /\ ccp' = CcpWindow
    /\ UNCHANGED <<pending, fifo, raised, enabled, iflag, istate, running,
                   cpuint, mode, entered>>

\* LVL1VEC and LVL0RR are written, while no level executes.
WriteLevels ==
    /\ Allowed("levels") /\ status = {}
    /\ CpuInt
    /\ Executes /\ Executed
    /\ lvl1vec' \in Vector \cup {0} /\ lvl0rr' \in BOOLEAN
    /\ UNCHANGED <<pending, fifo, raised, enabled, iflag, istate, running,
                   status, lvl0pri, mode, entered>>

\* LVL0PRI is written, at any time.
WritePriority ==
    /\ Allowed("levels")
    /\ CpuInt
    /\ Executes /\ Executed
    /\ lvl0pri' \in Vector \cup {0}
    /\ UNCHANGED <<pending, fifo, raised, enabled, iflag, istate, running,
                   status, lvl1vec, lvl0rr, mode, entered>>

\* The run loop finds the CPU asleep: it quits for good if I is clear.
SleepingPass ==
    /\ phase = "exec" /\ mode = "sleeping"
    /\ IF iflag THEN mode' = mode /\ phase' = "service"
                ELSE mode' = "done" /\ UNCHANGED phase
    /\ UNCHANGED <<pending, fifo, raised, enabled, iflag, istate, running,
                   cpuint, ccp, entered>>

(***************************************************************************)
(* avr_service_interrupts                                                  *)
(***************************************************************************)
Services == phase = "service" /\ phase' = "exec"

\* Nothing to do: idle, I clear on a classic core, or inside a CCP window.
Ignored == IF CpuInt THEN ccp > 0 \/ istate = 0 ELSE ~iflag \/ istate = 0

ServiceNothing ==
    /\ Services /\ Ignored
    /\ UNCHANGED <<pending, fifo, raised, enabled, iflag, istate, running,
                   cpuint, ccp, mode, entered>>

\* The instruction after SEI, or after a classic RETI, is over.
ServiceLatency ==
    /\ Services /\ ~Ignored
    /\ istate < 0
    /\ istate' = Rearmed
    /\ UNCHANGED <<pending, fifo, raised, enabled, iflag, running, cpuint, ccp,
                   mode, entered>>

\* CPUINT: every pending vector is masked or blocked.
ServiceBlocked ==
    /\ CpuInt /\ Services /\ ~Ignored
    /\ istate > 0
    /\ Candidates = {}
    /\ istate' = 0
    /\ UNCHANGED <<pending, fifo, raised, enabled, iflag, running, cpuint, ccp,
                   mode, entered>>

\* The vector enters the stack of running handlers, if there is room.
Pushed(v) == IF Len(running) < StackSize THEN Append(running, v) ELSE running

Enter(v, level) ==
    /\ running' = Pushed(v)
    /\ entered' = IF Len(running) < StackSize THEN Append(entered, level) ELSE entered

\* Mutant: the acknowledged vector keeps its place.
NotRotated(v) == lvl0pri

\* Under round robin the acknowledged vector gets the lowest priority.
Rotated(v) == IF Level(v) = 0 /\ lvl0rr THEN v ELSE lvl0pri

\* CPUINT: the best vector is called and its level marked.
Dispatch ==
    /\ CpuInt /\ Services /\ ~Ignored
    /\ istate > 0
    /\ Candidates # {}
    /\ LET v == fifo[BestPlace]
       IN  /\ Cleared(TakeAt(fifo, BestPlace), v)
           /\ status' = status \cup {Level(v)}
           /\ lvl0pri' = Rotated(v)
           /\ Enter(v, Level(v))
    /\ istate' = IF fifo' # << >> THEN 1 ELSE 0
    /\ UNCHANGED <<enabled, iflag, lvl1vec, lvl0rr, ccp, mode>>

\* Classic: the entry with the lowest number leaves the fifo.  If it has been
\* masked or cleared since it is dropped, else it is called with I clear.
ClassicDrop ==
    /\ ~CpuInt /\ Services /\ ~Ignored
    /\ istate > 0 /\ HasPending
    /\ LET v == fifo[LowestPlace]
       IN  /\ v \notin enabled \cap pending
           /\ fifo' = TakeAt(fifo, LowestPlace)
           /\ pending' = pending \ {v}
    /\ istate' = IF fifo' # << >> THEN 1 ELSE 0
    /\ UNCHANGED <<raised, enabled, iflag, running, cpuint, ccp, mode, entered>>

ClassicCall ==
    /\ ~CpuInt /\ Services /\ ~Ignored
    /\ istate > 0 /\ HasPending
    /\ LET v == fifo[LowestPlace]
       IN  /\ v \in enabled \cap pending
           /\ Cleared(TakeAt(fifo, LowestPlace), v)
           /\ Enter(v, 0)
    /\ iflag' = FALSE
    /\ istate' = 0
    /\ UNCHANGED <<enabled, cpuint, ccp, mode>>

(***************************************************************************)
(* avr_reset: avr_interrupt_reset, the register file zeroed, and           *)
(* avr_cpuint_reset.  cpuint_status and ccp_window keep their values.      *)
(***************************************************************************)
Reset ==
    /\ Allowed("reset")
    /\ pending' = {} /\ fifo' = << >> /\ raised' = {} /\ enabled' = {}
    /\ iflag' = FALSE /\ istate' = 0
    /\ running' = << >> /\ entered' = << >>
    /\ lvl1vec' = 0 /\ lvl0pri' = 0 /\ lvl0rr' = FALSE
    /\ mode' = "running" /\ phase' = "exec"
    /\ UNCHANGED <<status, ccp>>

-----------------------------------------------------------------------------
Instruction ==
    \/ Plain \/ Sei \/ Cli \/ Reti \/ Sleep \/ CcpWrite \/ WriteLevels \/ WritePriority
    \/ \E v \in part.vector : WriteEnable(v) \/ ClearFlag(v)

Service ==
    \/ ServiceNothing \/ ServiceLatency \/ ServiceBlocked \/ Dispatch
    \/ ClassicDrop \/ ClassicCall

Next ==
    /\ \/ \E v \in part.vector : Raise(v)
       \/ Instruction \/ SleepingPass \/ Service \/ Reset
    /\ UNCHANGED part

Spec == Init /\ [][Next]_vars

-----------------------------------------------------------------------------
(* Properties *)

\* Types, and the two fixed-size arrays stay within their bounds.
TypeOK ==
    /\ part \in Part
    /\ pending \subseteq Vector /\ raised \subseteq Vector /\ enabled \subseteq Vector
    /\ fifo \in Seq(Vector) /\ Len(fifo) <= Capacity
    /\ iflag \in BOOLEAN /\ istate \in {-1, 0, 1}
    /\ running \in Seq(Vector) /\ Len(running) <= StackSize
    /\ entered \in Seq(0 .. 2)
    /\ status \subseteq 0 .. 2
    /\ lvl1vec \in Vector \cup {0} /\ lvl0pri \in Vector \cup {0}
    /\ lvl0rr \in BOOLEAN
    /\ ccp \in 0 .. CcpWindow
    /\ mode \in {"running", "sleeping", "done"}
    /\ phase \in {"exec", "service"}

\* CPUINT: a vector is pending exactly while it is queued, and queued once,
\* through every raise, clear and dispatch out of the middle of the ring.
PendingIsQueued ==
    CpuInt => /\ ToSet(fifo) = pending
              /\ \A i, j \in 1 .. Len(fifo) : i # j => fifo[i] # fifo[j]

\* The service check is armed when it has to be.  CPUINT: a request that could
\* be serviced now never waits, disarmed, for some unrelated interrupt.
\* Classic: the same, and while armed there is an entry to take, so that the
\* service never reads an empty ring.
ArmedForService ==
    IF CpuInt THEN Candidates # {} => istate # 0
    ELSE /\ iflag /\ HasPending => istate # 0
         /\ istate > 0 => HasPending

\* What ArmedForService asks of firmware on CPUINT parts: it masks no vector
\* that is pending, and uses no CLI on a part with an NMI.
Disciplined ==
    \A p \in Part : p.cpuint => /\ "mask" \notin p.firmware
                                /\ "cli" \in p.firmware => p.nmi = {}

\* CPUINT: handlers nest in increasing level, and the level of every handler
\* that has not returned stays marked in STATUS until it does.
LevelsNest ==
    CpuInt => /\ ToSet(entered) \subseteq status
              /\ Len(entered) = Len(running)
              /\ \A i, j \in 1 .. Len(entered) : i < j => entered[i] < entered[j]

\* The levels marked in STATUS whose handler has returned or never ran: they
\* block every vector of their level or below.
Stranded == status \ ToSet(entered)

\* No handler leaves its level marked when it returns.  A reset does: neither
\* avr_interrupt_reset nor avr_cpuint_reset clears cpuint_status.
OnlyResetStrands == [][Stranded' \subseteq Stranded \/ Reset]_vars

\* Under round robin every other level-0 vector goes before the one that was
\* just acknowledged, so that none is overtaken twice by the same vector.
AcknowledgedComesLast ==
    [][\A v, w \in part.vector :
          /\ Dispatch /\ v \in pending \ pending' /\ v # w
          /\ lvl0rr /\ Level(v) = 0 /\ Level(w) = 0
          => Rank(w)' < Rank(v)']_vars

-----------------------------------------------------------------------------
(* What the comments of the code say, and the code does not do. *)

\* sim_interrupts.h: pending is "1 while scheduled in the fifo".
PendingMeansScheduled == pending \subseteq ToSet(fifo)

=============================================================================
