---------------------------- MODULE CycleTimers ----------------------------
(***************************************************************************)
(* The cycle-timer pool of the simulator core (sim_cycle_timers.c) and the *)
(* part of the run loop that drives it (avr_callback_run_raw, the tail of  *)
(* avr_run_one, avr_reset).                                                *)
(*                                                                         *)
(* A pool of MAX_CYCLE_TIMERS slots is split between a list of pending     *)
(* timers, sorted by deadline, and a list of free slots.  Time is the      *)
(* counter avr->cycle.  Instructions (and sleeping) advance it; between    *)
(* two bursts of instructions avr_cycle_timer_process calls back every     *)
(* timer that is due.  A callback may arm and cancel timers, its own       *)
(* included, and its return value re-arms it, ends it or resets the MCU.   *)
(*                                                                         *)
(* Which free slot is handed out is left open: nothing the pool promises   *)
(* depends on it.                                                          *)
(***************************************************************************)
EXTENDS Integers, Sequences, FiniteSets, SequencesExt

CONSTANTS
    Timer,         \* (callback, param) pairs: the identity of a timer
    Slot,          \* the MAX_CYCLE_TIMERS slots of the pool
    NoTimer,       \* the contents of a cleared slot
    NoSlot,        \* no slot is detached for a callback
    Delays,        \* delays, in cycles, that callers of register pass
    Periods,       \* increments over "when" that a callback may return
    Costs,         \* cycles of one instruction
    Halts,         \* extra cycles an instruction may halt the CPU (EEPROM)
    MaxHalt,       \* no halt is longer
    RunLimit,      \* avr->run_cycle_limit
    DefaultSleep,  \* DEFAULT_SLEEP_CYCLES
    ResetTimer,    \* the timer a port reset handler arms, or NoTimer
    ResetDelay,    \* the delay it passes
    MayDuplicate,  \* a callback that armed itself may also return a deadline
    Slack,         \* the most cycles one instruction takes, halts included
    MaxCycle       \* bound: no instruction, sleep or reset starts later

ASSUME SlotAssumption ==
    /\ IsFiniteSet(Slot) /\ Slot # {}
    /\ NoSlot \notin Slot
    /\ NoTimer \notin Timer \cup Nat
    /\ ResetTimer \in Timer \cup {NoTimer}

ASSUME CycleAssumption ==
    /\ Delays \subseteq Nat /\ Periods \subseteq Nat
    /\ Costs \subseteq Nat \ {0} /\ Halts \subseteq Nat
    /\ RunLimit \in Nat \ {0} /\ DefaultSleep \in Nat \ {0}
    /\ ResetDelay \in Nat /\ MaxCycle \in Nat /\ MayDuplicate \in BOOLEAN
    /\ Slack \in Nat \ {0}
    /\ MaxHalt \in Nat /\ \A h \in Halts : h <= MaxHalt
    /\ \A c \in Costs, h \in Halts : c + h <= Slack

VARIABLES
    active,    \* pool->timer: the pending slots in list order
    free,      \* pool->timer_free
    slot,      \* pool->timer_slots: timer and deadline of every slot
    cycle,     \* avr->cycle
    runCount,  \* avr->run_cycle_count
    phase,     \* "run", "process" or "callback"
    running,   \* the slot detached by process while its callback runs
    runWhen,   \* the deadline process passes to that callback
    asleep     \* avr->state = cpu_Sleeping

vars == <<active, free, slot, cycle, runCount, phase, running, runWhen, asleep>>

Cleared == [timer |-> NoTimer, when |-> 0]

Timed == [timer : Timer \cup {NoTimer}, when : Nat]

-----------------------------------------------------------------------------
(* The list operations *)

Deadline(sl, list, i) == sl[list[i]].when

\* Mutant: a new entry goes to the end of the list.
PlaceAtEnd(sl, list, w) == Len(list) + 1

\* The first place whose deadline is later than w, or the end of the list.
PlaceOf(sl, list, w) ==
    CHOOSE i \in 1 .. Len(list) + 1 :
        /\ \A j \in 1 .. i - 1 : Deadline(sl, list, j) <= w
        /\ i <= Len(list) => Deadline(sl, list, i) > w

\* avr_cycle_timer_insert, once a free slot s is at hand.
Insert(sl, list, s, w) == InsertAt(list, PlaceOf(sl, list, w), s)

PlacesOf(t) == {i \in 1 .. Len(active) : slot[active[i]].timer = t}

FirstOf(I) == CHOOSE i \in I : \A j \in I : i <= j

\* avr_cycle_timer_cancel: only the first entry of t is detached.
ListWithout(t) ==
    IF PlacesOf(t) = {} THEN active ELSE RemoveAt(active, FirstOf(PlacesOf(t)))

FreeWith(t) ==
    IF PlacesOf(t) = {} THEN free ELSE free \cup {active[FirstOf(PlacesOf(t))]}

\* Mutants: no lower limit of one cycle; no upper limit.
LimitedAboveOnly(sleep) == IF RunLimit >= sleep THEN sleep ELSE RunLimit
LimitedBelowOnly(sleep) == IF sleep = 0 THEN 1 ELSE sleep

\* avr_cycle_timer_return_sleep_run_cycles_limited
Limited(sleep) ==
    LET n == IF RunLimit >= sleep THEN sleep ELSE RunLimit
    IN  IF n = 0 THEN 1 ELSE n

\* avr_cycle_timer_reset_sleep_run_cycles_limited
BudgetOf(sl, list) ==
    IF list = << >> THEN Limited(DefaultSleep)
    ELSE IF Deadline(sl, list, 1) > cycle
         THEN Limited(Deadline(sl, list, 1) - cycle)
         ELSE Limited(0)

-----------------------------------------------------------------------------
Init ==
    /\ active = << >>
    /\ free = Slot
    /\ slot = [s \in Slot |-> Cleared]
    /\ cycle = 0
    /\ runCount = 1
    /\ phase = "run"
    /\ running = NoSlot
    /\ runWhen = 0
    /\ asleep = FALSE

(***************************************************************************)
(* Peripherals arm and cancel timers while an instruction touches their    *)
(* registers (phase "run"), or from inside another callback.               *)
(***************************************************************************)
CallersTurn == phase \in {"run", "callback"}

\* Mutant: the delay is taken for the deadline.
WhenAsGiven(d) == d

\* avr_cycle_timer_register: "when += avr->cycle".
WhenAfter(d) == cycle + d

\* t is armed with the lists as they stand; with no slot left the request is
\* only logged.
Arm(list, left, t, d) ==
    /\ CallersTurn
    /\ \/ /\ left = {}
          /\ active' = list /\ free' = left
          /\ UNCHANGED slot
       \/ \E s \in left :
            /\ slot' = [slot EXCEPT ![s] = [timer |-> t, when |-> WhenAfter(d)]]
            /\ active' = Insert(slot', list, s, WhenAfter(d))
            /\ free' = left \ {s}
    /\ runCount' = BudgetOf(slot', active')
    /\ UNCHANGED <<cycle, phase, running, runWhen, asleep>>

\* avr_cycle_timer_register: the pending entry is cancelled first.
Register(t, d) == Arm(ListWithout(t), FreeWith(t), t, d)

\* avr_cycle_timer_cancel
Cancel(t) ==
    /\ CallersTurn
    /\ active' = ListWithout(t)
    /\ free' = FreeWith(t)
    /\ runCount' = BudgetOf(slot, active')
    /\ UNCHANGED <<slot, cycle, phase, running, runWhen, asleep>>

(***************************************************************************)
(* The run loop.                                                           *)
(***************************************************************************)

\* The tail of avr_run_one.  The burst goes on while the CPU runs, budget is
\* left and no interrupt is waiting; otherwise the timers are processed.  The
\* cycles an EEPROM access halts the CPU for are not taken from the budget.
Instruction(c, h) ==
    /\ phase = "run" /\ ~asleep /\ cycle <= MaxCycle
    /\ cycle' = cycle + c + h
    /\ \/ /\ runCount > c
          /\ runCount' = runCount - c
          /\ UNCHANGED phase
       \/ /\ phase' = "process"
          /\ UNCHANGED runCount
    /\ UNCHANGED <<active, free, slot, running, runWhen, asleep>>

\* The SLEEP instruction ends its burst.
SleepInstruction ==
    /\ phase = "run" /\ ~asleep /\ cycle <= MaxCycle
    /\ 1 \in Costs
    /\ cycle' = cycle + 1
    /\ asleep' = TRUE
    /\ phase' = "process"
    /\ UNCHANGED <<active, free, slot, runCount, running, runWhen>>

\* avr_callback_run_raw on a sleeping CPU starts with the timers.
SleepingPass ==
    /\ phase = "run" /\ asleep /\ cycle <= MaxCycle
    /\ phase' = "process"
    /\ UNCHANGED <<active, free, slot, cycle, runCount, running, runWhen, asleep>>

\* avr_raise_interrupt wakes the CPU: from a callback, from the service of a
\* pending vector, or from a host between two runs.
Wake ==
    /\ CallersTurn /\ asleep
    /\ asleep' = FALSE
    /\ UNCHANGED <<active, free, slot, cycle, runCount, phase, running, runWhen>>

\* avr_cycle_timer_process returns: nothing is due.  The budget is capped by
\* RunLimit; the sleep a sleeping CPU takes right after is not.
NothingDue ==
    /\ phase = "process"
    /\ active # << >> => Deadline(slot, active, 1) > cycle
    /\ LET sleep == IF active = << >> THEN DefaultSleep
                    ELSE Deadline(slot, active, 1) - cycle
       IN  /\ runCount' = Limited(sleep)
           /\ cycle' = IF asleep THEN cycle + 1 + sleep ELSE cycle
    /\ phase' = "run"
    /\ UNCHANGED <<active, free, slot, running, runWhen, asleep>>

\* Mutant: the slot is freed before its callback is called.
FireHeadFreed ==
    /\ phase = "process"
    /\ active # << >>
    /\ Deadline(slot, active, 1) <= cycle
    /\ running' = Head(active)
    /\ runWhen' = Deadline(slot, active, 1)
    /\ active' = Tail(active)
    /\ free' = free \cup {Head(active)}
    /\ phase' = "callback"
    /\ UNCHANGED <<slot, cycle, runCount, asleep>>

\* process detaches the head of the list and calls it back.
FireHead ==
    /\ phase = "process"
    /\ active # << >>
    /\ Deadline(slot, active, 1) <= cycle
    /\ running' = Head(active)
    /\ runWhen' = Deadline(slot, active, 1)
    /\ active' = Tail(active)
    /\ phase' = "callback"
    /\ UNCHANGED <<free, slot, cycle, runCount, asleep>>

(***************************************************************************)
(* The callback returns.                                                   *)
(***************************************************************************)

\* "either zero, or greater than the last one"
NextWhen(w) == IF w > runWhen THEN w ELSE 0

\* A deadline that has already passed is served at once, ahead of the list.
CatchUp(w) ==
    /\ phase = "callback"
    /\ NextWhen(w) # 0 /\ NextWhen(w) <= cycle
    /\ runWhen' = NextWhen(w)
    /\ UNCHANGED <<active, free, slot, cycle, runCount, phase, running, asleep>>

\* A one-shot timer ends: its slot is freed.
Finish(w) ==
    /\ phase = "callback"
    /\ NextWhen(w) = 0
    /\ free' = free \cup {running}
    /\ running' = NoSlot /\ runWhen' = 0
    /\ phase' = "process"
    /\ UNCHANGED <<active, slot, cycle, runCount, asleep>>

\* A periodic timer is inserted again, into a slot taken from the free list
\* before its own goes back there; with no slot left it is only logged.
Reschedule(w) ==
    /\ phase = "callback"
    /\ NextWhen(w) > cycle
    /\ MayDuplicate \/ PlacesOf(slot[running].timer) = {}
    /\ \/ /\ free = {}
          /\ free' = {running}
          /\ UNCHANGED <<active, slot>>
       \/ \E s \in free :
            /\ slot' = [slot EXCEPT ![s] = [timer |-> slot[running].timer, when |-> w]]
            /\ active' = Insert(slot', active, s, w)
            /\ free' = (free \ {s}) \cup {running}
    /\ running' = NoSlot /\ runWhen' = 0
    /\ phase' = "process"
    /\ UNCHANGED <<cycle, runCount, asleep>>

Returns == {0, cycle + 1} \cup {runWhen + p : p \in Periods}

(***************************************************************************)
(* avr_reset: the pool is cleared, then the port reset handlers run (the   *)
(* classic watchdog re-arms itself there, against the clock of before the  *)
(* reset), then the clock restarts.  The run limit is one cycle from there *)
(* on; whoever gave it another gives it again before the next burst.       *)
(***************************************************************************)
AvrReset ==
    /\ cycle <= MaxCycle
    /\ \/ /\ active' = << >> /\ free' = Slot
          /\ slot' = [s \in Slot |-> Cleared]
       \/ /\ ResetTimer # NoTimer
          /\ \E s \in Slot :
               /\ active' = <<s>> /\ free' = Slot \ {s}
               /\ slot' = [r \in Slot |->
                             IF r = s THEN [timer |-> ResetTimer, when |-> cycle + ResetDelay]
                             ELSE Cleared]
    /\ runCount' = 1
    /\ cycle' = 0
    /\ running' = NoSlot /\ runWhen' = 0
    /\ asleep' = FALSE
    /\ phase' = "run"

\* The callback returned TIMER_RESET: process gives up its slot and returns.
TimerReset == phase = "callback" /\ AvrReset

\* A host resets the MCU between two runs.
HostReset == phase = "run" /\ AvrReset

-----------------------------------------------------------------------------
Calls == \E t \in Timer : Cancel(t) \/ \E d \in Delays : Register(t, d)

Runs ==
    \/ \E c \in Costs, h \in Halts : Instruction(c, h)
    \/ SleepInstruction
    \/ SleepingPass
    \/ Wake

Processes == NothingDue \/ FireHead

CallbackReturns == \/ \E w \in Returns : CatchUp(w) \/ Finish(w) \/ Reschedule(w)
                   \/ TimerReset

Next == Calls \/ Runs \/ Processes \/ CallbackReturns \/ HostReset

Spec == Init /\ [][Next]_vars

\* process is C code with no wait in it, and callbacks are functions that
\* return: neither can be preempted for ever once it has begun.
Fairness == WF_vars(Processes) /\ WF_vars(CallbackReturns)

FairSpec == Spec /\ Fairness

-----------------------------------------------------------------------------
(* Properties *)

\* The state is made of slots, deadlines and cycle counts, and the budget of
\* a burst is never zero ("unless you like deadlock").
TypeOK ==
    /\ active \in Seq(Slot)
    /\ free \subseteq Slot
    /\ slot \in [Slot -> Timed]
    /\ cycle \in Nat
    /\ runCount \in Nat \ {0}
    /\ phase \in {"run", "process", "callback"}
    /\ running \in Slot \cup {NoSlot}
    /\ runWhen \in Nat
    /\ asleep \in BOOLEAN

\* Every slot is in exactly one place: once in the pending list, in the free
\* list, or detached for the callback that runs.  Covers the hand-over of
\* slots between the lists in register, cancel, process and the reset in the
\* middle of process.
SlotsConserved ==
    /\ \A i, j \in 1 .. Len(active) : i # j => active[i] # active[j]
    /\ ToSet(active) \cap free = {}
    /\ running \notin ToSet(active) \cup free
    /\ Slot = (ToSet(active) \cup free \cup {running}) \ {NoSlot}

\* Process holds a slot exactly while a callback runs.
DetachedWhileCalled == (phase = "callback") <=> (running # NoSlot)

\* The pending list stays sorted by deadline, which process and the sleep
\* computation rely on when they look at its head only.
Sorted ==
    \A i, j \in 1 .. Len(active) :
        i < j => Deadline(slot, active, i) <= Deadline(slot, active, j)

\* No deadline is missed by more than one burst: a timer that is pending or
\* being called back is at most RunLimit cycles plus one instruction late,
\* and the halts of the instructions of a burst, whatever was armed, cancelled
\* or slept through in between.
MaxBurst == RunLimit + MaxHalt * (RunLimit - 1)
MaxLate == MaxBurst + Slack

Prompt ==
    /\ \A i \in 1 .. Len(active) : cycle <= Deadline(slot, active, i) + MaxLate
    /\ phase = "callback" => cycle <= runWhen + MaxLate

\* A callback never runs before its deadline.
NeverEarly == phase = "callback" => runWhen <= cycle

\* What a burst with this much budget left may have overrun: the budget of a CPU
\* woken after it slept past the deadline, and a halt for each instruction.
Overrun(left) == RunLimit + 1 + MaxHalt * (RunLimit - left)

\* The budget of the burst is never more than what the earliest deadline
\* leaves, but for the overrun.
BudgetCoversHead ==
    (phase = "run" /\ active # << >>) =>
        cycle + runCount <= Deadline(slot, active, 1) + Overrun(runCount)

\* The strengthening that makes the invariants above inductive.
IInv ==
    /\ TypeOK
    /\ SlotsConserved
    /\ DetachedWhileCalled
    /\ Sorted
    /\ runCount <= RunLimit
    /\ BudgetCoversHead
    /\ Prompt
    /\ NeverEarly

\* What the peripherals see of the pool: a deadline per timer.  Covers the
\* whole of register, cancel, process and reset: no timer is dropped, served
\* twice, early, out of order or too late.
Service == INSTANCE DeadlineQueue WITH
    None <- NoTimer,
    Capacity <- Cardinality(Slot),
    deadline <- [t \in Timer |-> IF PlacesOf(t) = {} THEN NoTimer
                                 ELSE slot[active[FirstOf(PlacesOf(t))]].when],
    now <- cycle,
    called <- IF running = NoSlot THEN NoTimer ELSE slot[running].timer

ImplementsDeadlineQueue == Service!Spec

\* avr_cycle_timer_process returns: however late the timers are, and
\* whatever the callbacks return, catching up ends.  Callbacks that arm
\* other timers do so at least one cycle ahead.
ProcessReturns == (phase = "process") ~> (phase = "run")

-----------------------------------------------------------------------------
(* What the comments of the code say, and the code does not do. *)

\* sim_cycle_timers.h: timers "get reset if the callback function returns a
\* new cycle number".  A periodic timer is pending again after its callback.
PeriodicStaysPending ==
    [][\A w \in Returns : Reschedule(w) =>
          \E i \in 1 .. Len(active') :
              slot'[active'[i]].timer = slot[running].timer]_vars

=============================================================================
