# A verification project for the simavr core

simavr simulates AVR microcontrollers: an instruction decoder, the peripherals of some
hundred devices, and the machinery that ties them together (a pool of cycle timers, two
interrupt controllers, a network of IRQ signals, I/O dispatch). On top of it sit a GDB
server, a VCD tracer and an embedding API (`sim_host.h`) with a simulation thread, which
the Python bindings and the GUI use.

This directory holds TLA+ modules of the parts whose *control* is hard to test, the TLC
configurations that check them on small instances, and TLAPS proofs of the results that
matter most. `PROJECT.json` lists the components, the runs, the theorems, the hazards and,
for every definition that models code, the lines it stands for. Paths below are relative
to `src/simavr/sim/` unless they say otherwise.

To reproduce: `tlc -config <run>.cfg <MC module>.tla` for a run, and `tlapm <module>.tla` for
the proofs, which are in `CycleTimersProofs`, `InterruptsProofs`, `HostProofs`,
`HostEventsProofs`, `ProtectedProofs`, `TimerProofs`, `PartsProofs` and `PeripheralsProofs`.

## 1. Inventory

| Part | State | Operations | What is hard about it | What makes it correct |
|---|---|---|---|---|
| Cycle timers (`sim_cycle_timers.c`) | 64 slots (`MAX_CYCLE_TIMERS`) split over a sorted list of pending timers and a free list; the clock `avr->cycle`; the budget `run_cycle_count` | register, cancel, status, process, reset | callbacks that arm, cancel, or reset the pool while `process` holds a slot in no list; a full pool; a halt that moves the clock behind the budget | no slot is lost; deadlines are served in order, once, never early, at most a burst and a halt late; catching up ends |
| Interrupts (`sim_interrupts.c`, `avr_cpuint.c`) | pending bits, a ring of 64 entries, the stack of running handlers, `interrupt_state`, SREG.I, the CPUINT level registers | raise, clear, service (classic and CPUINT), RETI, reset | five cached views of one fact ("something can be served"); taking an entry out of the middle of a ring; nesting | what is pending is queued; what can be served is armed; levels nest; round robin rotates |
| Run loop (`sim_avr.c`, the tail of `avr_run_one`) | `avr->state`, the cycle budget, the CCP window | run, sleep, reset, terminate | the order of timers, sleep and interrupt service | a sleeping CPU wakes; a reset leaves nothing behind |
| Instruction decoder (`sim_core.c`) | registers, SREG, PC | one instruction | data, not control; covered by the repository's test firmware | - |
| IRQ network (`sim_irq.c`) | value and flags per IRQ, hook chains | connect, register, unregister, raise | hooks re-enter the IRQ, raise others, unregister themselves | no recursion without end; filters drop exactly repetitions; nobody keeps an old value |
| I/O dispatch (`sim_io.c`, `sim_regbit.h`) | callbacks per register, shared slots | read and write callbacks, memory IRQs | several handlers of one register | each handler sees each write once |
| Watchdogs (`avr_watchdog.c`, `avr_wdt.c`) and reset controller (`avr_rstctrl.c`) | change window, timeout timer, reset cause, the saved `avr->run` | timed sequence, WDR, timeout, software reset | window and timeout race with writes; a reset inside a timer callback; two owners of `avr->run` | no change outside the window; no missed timeout; a requested reset is made once |
| Clock control (`avr_clkctrl.c`, `avr_clkctrl_dd.c`, `avr_clkpr.c`) and CCP (`sim_avr.c`) | source, prescaler, lock, `avr->frequency`; the window that counts instructions | protected writes, reset, a load of firmware | the window against the instruction that opens it; sources that do not run; two writers of `avr->frequency` | no change outside the window; the frequency is the source's, divided once |
| Serial (`avr_uart.c`, `avr_spi.c`, `avr_twi.c`, `avr_usi.c`, `avr_lin.c`, modern counterparts) | fifos, shift registers, bus states | register writes, bytes from outside, byte timers | flags against fifo levels; flow control; bus order | no byte is lost, doubled or reordered silently |
| Timers (`avr_timer.c`, `avr_tca.c`, `avr_tcb.c`, `avr_tcd.c`, `avr_rtc.c`) | the cycle the count is computed from, compare values (buffered) | configuration writes, compare and overflow timers, edges | reconfiguration while a timer is pending; a timer served late | the computed count is one that counts every cycle; one flag per match |
| Analog (`avr_adc*.c`, `avr_acomp.c`, `avr_ac*.c`, `avr_dac.c`, ...) | conversion state | start, trigger, complete | retriggering during a conversion | one result per conversion |
| Non-volatile memory (`avr_eeprom.c`, `avr_flash.c`, `avr_nvmctrl*.c`) | write-enable window, page buffer, busy flags | commands, timed completion | timed write enable; buffer against command order; a ready interrupt asked for in sleep | nothing is written outside a window, nor by a command that was refused |
| Ports, external interrupts, event system, CCL | levels, edges, routes, claims of pins | pin changes, register writes | loops of events; level against edge; two owners of a pin | one interrupt per sensed change; a pin shows its active owner |
| Embedding API (`sim_host.c`) | mode, limits of the run, breakpoints, pause request, event ring, pipe, subscriptions; three locks, three conditions | start, free, resume, pause, step, run_cycles, reset, load, breakpoints, watchpoints, wait_stopped, subscribe, poll | a simulation thread against any number of client threads | no lost wake-up; events before return; limits do not leak |
| GDB server (`sim_gdb.c`) | the connection, breakpoints, the CPU state it stops | continue, step, ^C, kill, reset, detach | the socket is served between instructions, in sleep and not at all in a burst | gdb is told of every stop, and what it takes for stopped is |
| VCD traces (`sim_vcd_file.c`) | a log of value changes, its flush timer, the file; for a replay, the entries read ahead | start, change, flush, stop; open, replay | a log that fills, a reset that drops the timer, several changes in a nanosecond | every change is written, in order; a pulse can be seen, but for a third change in a nanosecond |
| ELF/HEX, DWARF, command register, display, device tables, bindings | - | - | I/O and formats | see section 7 |

How they interact. An instruction reads and writes registers; a write reaches the
peripheral's callback, which arms cycle timers (`avr_cycle_timer_register`), raises or
clears interrupts, and raises IRQs whose hooks run at once. Between two instructions or
bursts, `avr_cycle_timer_process` calls back what is due, then the pending interrupts are
serviced. The embedding API runs all of this in batches under one lock. Everything but the
embedding API is single-threaded: the interleavings there are those of callbacks.

## 2. The modules

```
abstract                     detailed       proofs              checked by
DeadlineQueue <-implements-  CycleTimers    CycleTimersProofs   MCCycleTimers
                             Interrupts     InterruptsProofs    MCInterrupts
                             Host           HostProofs          Host
LossyQueue    <-implements-  HostEvents     HostEventsProofs    MCHostEvents

              Ccp <-extends- Wdt                                \
              Ccp <-extends- ClkCtrl, Nvmctrl, NvmctrlDd         \
                             Watchdog       ProtectedProofs      }  MCProtected
                             Clkpr, Eeprom, Flash               /
                             Tca, Tcb                          /

RtcCounter    <-implements-  Rtc                                \
TimerCounter  <-implements-  Timer           TimerProofs         \
                             Uart, UsartModern, SpiModern         \
                             Adc, AdcModern  PartsProofs           \
                             Extint, Vcd                            } MCPeripherals
                             Irq, Gdb, EvSys                       /
                             Portmux         PeripheralsProofs    /
                             VcdInput                            /
```

### CycleTimers

`active` is `pool->timer` (the sequence of slots), `free` is `pool->timer_free`, `slot` is
`pool->timer_slots`; `cycle` and `runCount` are `avr->cycle` and `avr->run_cycle_count`.
`phase` says who is in control: instructions (`"run"`), the loop of `process`, or a
callback, for which `running` is the slot that `process` has detached. `Register` and
`Cancel` are the calls, allowed wherever code of a peripheral runs, so also in a callback;
`Instruction`, `SleepInstruction`, `SleepingPass`, `Wake` are the run loop as far as the
clock goes; `NothingDue`, `FireHead`, `CatchUp`, `Finish`, `Reschedule`, `TimerReset` are
`process`. `AvrReset` keeps the order of the code: pool cleared, port reset handlers (one
of which may arm a timer against the old clock), clock zeroed, run limit one cycle (whoever gave
it another gives it again before the next burst).

Abstractions. A timer is a model value that stands for a (callback, param) pair. Which
free slot is handed out is left open, a superset of the code's LIFO. The contents of a free
slot are kept, as in the code, but a run hides them with `LiveState` where noted.
`avr_cycle_timer_status` changes no state and is not an action (see section 6 for what is
wrong with it). A halt (EEPROM) adds up to `MaxHalt` cycles behind the back of the budget;
`Overrun` is what it can add to a lateness.

`DeadlineQueue` is what peripherals rely on: a map from timers to deadlines, a clock, at
most one callback at a time. `ImplementsDeadlineQueue` is the refinement.

### Interrupts

Both controllers in one module: `part` is chosen in `Init` and never changes, and says
which controller, which vectors, which are NMIs, which flags are sticky, which sources stop
in sleep, and what the firmware of this instance does. `pending`, `fifo`, `raised`,
`enabled` are the bits and the ring, `iflag` is SREG.I, `istate` is
`avr->interrupt_state` (-1: one instruction of latency; 0: idle; 1: service), `running` the
stack of `interrupt_table.running`, `status` the levels in `cpuint_status`, `ccp` the
protected-write window. An execution alternates an instruction (`phase = "exec"`) with
`avr_service_interrupts` (`"service"`); `Raise` may come at any point, as it does from
timers and hosts. `entered` is history: the level at which each running handler was
entered.

Abstractions. The vector table and the relocation of the handlers (IVSEL, CVT) have no
influence on the choice of a vector and are left out, as are the IRQs that announce
pending and running vectors. LVL0PRI is written at any time (`WritePriority`); LVL1VEC and the round robin bit only
while no level executes (`WriteLevels`; section 6 says what becomes of a later write).

### Host

Run control of `sim_host.c`. A thread's place in the code is `at[t]`, the instance lock is
`lock`. What happens under the lock is one step of its holder, except where other threads
see a part of it without the lock: `pauseReq`, the mirror `running` that
`avr_host_wait_stopped` reads under `stop_lock`, and the event queue. So `host_set_mode` is
three steps (`SetMode`, `PostState`, `PublishStop`) and `host_exec` one step per pass of its
loop, in the order of the code: pause request, breakpoint, `avr_run`, watchpoint, CPU state,
instruction count, cycle count. The MCU is a PC and a CPU state; `AvrRuns`, `AvrSleeps`,
`AvrResets`, `AvrStopped` are what one `avr_run` can do with them. The history variables
`kind`, `asked`, `ran`, `ranCycles`, `owed` record the run that was asked for, how far it is,
and whether the event of its end is still to come.

Abstractions. `cyclesLeft` is `cycle_target - avr->cycle`. Condition variables are a set of
waiting threads; spurious wake-ups are allowed. Pacing and the waiters count only choose
*when* the simulation thread asks for the lock again, which is any time here.

### HostEvents

The event ring (`evq`, `evHead`, `evCount`, `evDropped`), the pipe that makes it pollable,
and the pin subscriptions with their coalescing window. The holder of the instance lock
decides what to push (`todo`) and pushes one event at a time under `ev_lock`, so that the
reader's `Poll` comes in between. `LossyQueue` is the promise to the reader, and
`ImplementsLossyQueue` the refinement.

### MCProtected: what changes only in a timed sequence, and the timers A and B

The watchdogs, the clock registers, the memories, and two timers whose cycle timer every
register write arms anew. They are on different chips or share only
the CCP window, so `MCProtected` does not run them in parallel: `Init` chooses a `part`, and
every step is a step of its peripheral. An instruction takes one cycle (and those of a halt),
and cycle timers are the cycles they have left (`Off`: not armed). A property of this module
is one question asked of all of them that it concerns.

`Watchdog`: `wde` ... `wdp` are the bits of WDTCSR, `timeout` and `window` the two cycle
timers, `count` is `p->cycle_count`. `Write` is `avr_watchdog_write` in its three branches
(`WriteInWindow`, `OpenWindow`, `WriteOutside`), `AvrReset` the reset handler inside
`avr_reset`, so its time-out runs late by the clock of before (`Elapsed`). `since` (cycles
since WDCE and WDE were written) and `missed` (time-outs in a row without a sign of the
firmware) are history.

`Ccp`: `ccp` is `avr->arch.ccp_window`; every instruction of the modules that extend it
ends in `WriteCcp` or `OtherInstruction`, and no reset touches it, as in the code.

`Wdt`: CTRLA and STATUS of the modern watchdog, its timer, and the reset controller:
`run` and `savedRun` are `avr->run` (the raw or the gdb run function, or the callback that
resets) and RSTCTRL's copy of it. `Begin` and `End` bracket one `avr_run`; between them are
instructions, after them the timer. `Crash` is `avr_sadly_crashed`, which attaches a debugger
when the host has set a port, and so takes `avr->run` from a pending reset (`usurped` is
history and remembers that). A clock change (`ChangeClock`) leaves the lengths computed
earlier alone, as the code does.

`ClkCtrl`: both modern clock controllers; `reg` are the registers, `clk` is `avr->frequency`,
`part.dd` says which of the two it is and `part.slow` whether its fuse starts it from the 32 kHz
oscillator. `Clkpr`: the classic prescaler as the record `k`,
with its change window, and the load of firmware that sets `avr->frequency` behind it.

`Eeprom`: EEMPE and its window, both programming modes, the timed part whose EEPE stays set
until the operation is done, and the ready interrupt with the retry that keeps asking for it in
sleep. One cell stands for the whole array. `Flash`: SPMCSR, the page buffer whose words are
written once, and the commands; `part.spmen` is the fuse that enables self-programming.

`Nvmctrl` and `NvmctrlDd`: the two modern controllers. In the first, stores fill the page
buffer of a section (`buf` for EEPROM and user row, `fbuf` for the flash) and a command commits;
in the second, a command arms a mode and stores act. Both have the busy times, the sections that
the fuses protect, and the ready interrupt.

`Tca`, `Tcb`: counters that are not stepped but computed from the cycle they were last set,
with one timer for the next thing that matters. `Tca` has one compare channel in single and
dual slope, both buffers and the four actions of its event input; `Tcb` seven modes. The
match flags, the output and a captured width are checked against a count kept as history.

### MCPeripherals: what hands work on

The IRQ network, the debugger and the peripherals that wait on cycle timers or drive pins, in
one module for the same reason and in the same way.

`Irq`: `hooks` are the chains, `busy` the guard `hook->busy`, `stack` the raises in progress on
the C stack, innermost last, each with the hook it is at. A hook that is called may raise,
connect, register or remove, so a raise is many steps. `seen` is history: the value each hook was told last.

`Uart`, `UsartModern`, `SpiModern`: fifos and shift registers, the pumps and byte timers, flags
and their requests. `Uart` has the flow control and a sender that heeds it or not
(`part.polite`), `UsartModern` the queue of frames on the pin, `SpiModern` both roles and both
buffer modes, with a change of either at any time. `Adc`: the two timers of a conversion, the
trigger sources, the interlock of the result bytes. `AdcModern`: a burst of samples that add up,
started by command, event or itself (free running), restarted and cut off. `Extint`: sensing and the poll of a level.

`Rtc`, `Timer`: counters that are computed in the same way (`age`, `el` are the cycles passed since
they were last set). A core runs past a due timer by up to `Overshoot` cycles. `RtcCounter` and
`TimerCounter` are counters that step cycle by cycle; `CountsEveryCycle` is the refinement: at
every cycle the computed count and the flags are those of the stepped counter.

`Portmux`: functions routed to pins, each with a claim on the pin's override. `EvSys`: generators, channels and users; a
channel tells its users in calls on the C stack (`calls`), and a user told may drive a channel in turn; `told` is the
level each user was told last.

`Vcd` and `VcdInput` are the recorder and the player of value changes: `log` is the fifo, `file` what the file
holds (or still holds), `offered` and `raised` are history. A flush may come at any time its timer is
armed: its period depends on how the log filled before. `Gdb`: `g` is
`avr_gdb_t` with the CPU state and what gdb knows, `phase` the place in
`avr_callback_run_gdb`; the socket is polled before the instruction and in the sleep.

The header of each module says what of its source is left out.

## 3. The runs

| Run | Instance | What it shows |
|---|---|---|
| `CycleTimers` | 2 slots, 3 timers, delays 1 and 3, instructions of 1 and 2 cycles, halts of 0 and 1, bursts of up to 2 cycles, clock up to 8 (229 k states) | the type; slots are conserved; no timer is more than one burst and a halt late; the pool implements `DeadlineQueue`; `process` returns |
| `CycleTimers_periodic` (violation) | 2 slots, 2 timers | a periodic timer is dropped when its own re-insertion finds no slot |
| `Interrupts` | a classic MCU (2 vectors), a CPUINT part without an NMI (2) and one with (3); ring of 3 entries (1.02 M states) | the ring and the pending bits agree; what can be served is armed; levels nest; only a reset strands a level; round robin rotates |
| `Interrupts_stale` (violation) | the classic MCU, firmware that polls | stale entries fill the ring and a raise is lost |
| `Host_control` | 2 clients, a simulation thread, counts of 2 (1.08 M states) | the STATE event comes before `wait_stopped` returns; limits end with their run; the last STATE event tells the mode; step and run_cycles run what was asked for |
| `Host_breaks` | 2 clients, 2 addresses, loads, moved PCs, firmware resets (211 k states) | breakpoints hit |
| `Host_live` | 2 clients, fair threads (13 k states) | pause stops a run, waiters return, free joins the thread, runs progress |
| `Host_breakreset` (violation) | 1 client | a reset between resume and the first instruction skips the breakpoint at the reset vector |
| `HostEvents` | 2 subscriptions of a pin, a ring of 2 events, a pipe of 1 byte | the descriptor is readable exactly while something can be polled; the last value wins; a stop shows the pins; the ring implements `LossyQueue` |
| `Protected` | 4 classic watchdogs (exact or not, WDTON or not), 2 modern ones (with and without a debugger's port), 3 modern clock controllers (one starts from 32 kHz) and the classic prescaler, a timed and an untimed EEPROM, 4 flashes (SPM enabled or not, RWW section or not), 2 NVM controllers, the TCA and the TCB (520 k states) | protected registers and memories change only in sequence; timers follow registers, and the counters and outputs of TCA and TCB the cycles that pass; the ready interrupt is not lost; an ignored watchdog resets; a requested reset is made once; the CCP window is exact; the clock follows its registers |
| `Clock_external` (violation) | an AVR DD on an external clock of unknown rate | every protected write divides the frequency once more |
| `Peripherals` | an IRQ network, gdb, the classic USART with a sender that heeds XOFF or not, the modern USART, the SPI, both ADCs, an external interrupt, the event system, the RTC, the classic timer (strict or not), the pin routing, the recorder and the player of value changes (498 k states) | parties are told; data is whole; work is timed; pins follow functions; a raise returns; the computed counters count every cycle |

Why these bounds are enough for their questions.

* `CycleTimers`. A full pool needs one timer more than slots. The lists' operations tell
  positions "first", "middle" and "last" apart, which the detached slot and two pending
  ones supply. Two instruction lengths and a limit of two cycles make bursts that end on,
  before and past a deadline, and the sleep that ends one cycle past a deadline leaves a
  burst of `RunLimit` cycles for the worst lateness. The proofs remove the bounds for all
  but the refinement and liveness.
* `Interrupts`. Three vectors give each of the three levels one; two of one level are
  needed for round robin and for the ring's order (the part without an NMI). A ring as
  long as the vectors cannot overflow on CPUINT, which is what `PendingIsQueued` says, and
  can on the classic core, which is the violation run's subject.
* `Host`. Two clients are the smallest number that compete for the lock with each other
  and the simulation thread; they are interchangeable (`ClientSymmetry`), except in the
  liveness run, where symmetry would be unsound. A count of 2 has a first and a last
  instruction. Two addresses tell "at a breakpoint" from "elsewhere".
* `HostEvents`. Two subscriptions with different windows reach every branch of
  `host_sub_notify` and `host_flush_coalesced`; a ring of two is empty, partial, full and
  overflowing. The clock is capped at 2 but compares modulo 16, so a reset makes
  `cycle - last_emit` wrap as it does in the code. `evDropped` is capped
  at 1 (`MaxDropped` 0: nothing is pushed behind a drop that is not reported yet). The history `offered` counts modulo 2.
* `Protected`. Two time-outs of different lengths (3 and 6 cycles, or 1 and 2 clocks at two
  frequencies), of which one is longer than the window (3), so that a time-out comes
  inside, at the end of, and after an open window. A CCP window of 2 instructions has a
  first and a last one. The closed window of the modern watchdog may be shorter than,
  equal to or longer than its period. Every rate and divisor of the modern clocks is a power
  of two; the classic prescaler's frequencies (3 and 4) are not, so its divisions round, and
  the fourth of its settings is a reserved one. An EEPROM write (5 cycles) outlasts the window and the
  retry (2), a part of one (3) ends with it. Four flash pages give each section one and the
  application code two, enough for an erase of several pages that crosses a border. `Far` and `Late`
  cap history where it is past every length compared. The TCB's bytes are base 2 (`Base`), so its words
  count to 3. The TCA counts to 2 with a prescaler of 2, so that a fraction of a tick can be lost, and TOP is 0 or 2
  (`Tops`, which the buffers are filled from too). A core runs past a due timer by one cycle at most (`Lateness`).
* `Peripherals`. Two IRQs and a notify function, two hooks each, make every chain there is
  between two: to oneself, in a ring, in a diamond. A hook is busy once, so the
  four of them and the first raise are at most five deep, `MaxDepth`: `RaiseReturns` would fail if the code went deeper. Fifos of two are empty, partial, full. A `tx_cnt`
  of 4 values wraps. Two samples tell conversions apart. `MaxPolls` 3 is one more than two timers, and the
  code must never run a second. Counts to 2 put a compare value below, at and above TOP, and an overshoot of 2 cycles
  passes several matches of the RTC at once; the classic timer is late by one count at most
  (`LateByOneCount`), since a later one loses matches (section 6); `Longest` (9) is longer than any period, and bounds what is kept of deadlines. Three functions on two pins, one of
  which has a choice that the package lacks, make all swaps.
  Two channels, two users and one generator can drive each other in turn. A burst has one or two samples. A log of four entries
  and five changes of two signals overflow once, and crowd a nanosecond (a signal twice, and another change behind it); the files to play have two or three stamps with up to two changes each, on one line or two;
  reading ahead starts below 3, one more than the signals, as the code's threshold is (16 entries per signal). Two addresses and a burst of one pass for gdb, as in `Host`.

`CHECK_DEADLOCK FALSE` stands where the system may really stop: an instance that has been
freed (`Host_*`), a core that sleeps with I clear (`Interrupts`).

### Fairness

`CycleTimers`: `process` and the callbacks are plain C code without a wait, so weak fairness
of `Processes` and of `CallbackReturns`; nothing is assumed of peripherals or firmware.
`Host`: threads are scheduled (weak fairness of each thread's own steps). A thread that asks
for the lock again and again while it comes free gets it (strong fairness of `TakesLock(c)`
and `SimTakesLock`): `host_lock` registers in `waiters`, and `host_thread` yields up to 64
times to let queued callers in, which is the code's own means to that end. Nothing is assumed of
clients: they need not call, and a client in a wait needs no timeout.
`Irq` in `MCPeripherals`: a delivery in progress goes on to its next hook, and a hook returns: they are
C calls (weak fairness of `IrqDelivers`). A hook need not raise anything.

## 4. What the properties caught or pin down

* `SlotsConserved`, `ImplementsDeadlineQueue`: the hand-over between the two lists and the
  detached slot. The second one fails as soon as an insertion is not sorted, a reset in a
  callback leaves the detached slot in a list, or a catch-up serves the list before it.
* `Prompt`: the budget of a burst must be shortened by whatever an instruction arms. The
  bound is the burst limit and the halts of a burst, not zero: a CPU that slept to one cycle past a deadline
  and is woken then runs a burst before the timers are looked at, and a halt of an EEPROM access is not taken from the budget.
* `ArmedForService`: all paths that make a vector serviceable have to arm the check, in
  five places of the code. `AcknowledgedComesLast`: the rotation of LVL0PRI, modulo arithmetic and all.
* `EventBeforeReturn`, `StopIsPosted`: the order mode, event, mirror in `host_set_mode`.
* `RunCounts`: passes of a sleeping CPU and host resets must not use up a step or a cycle
  budget.
* `ReadableIffPollable`, `ImplementsLossyQueue`, `LastValueWins`, `StopShowsPins`: the event
  path.
* `ResetIsArmed`: a second request must not save the callback that resets as the one to
  give back. The property excepts a debugger that a crash attached in between: then the
  reset is lost, later requests are only noted, and the next reset gives `avr->run` back to
  the function that does not serve the debugger (`sim_avr.c:318`, `avr_rstctrl.c:53`, `:87`).
* `CcpIsExact`: the `+ 1` of `avr_ccp_write` against the decrement at the end of the
  same instruction.
* `ReadyRequested`: the ready interrupt of the EEPROM is asked for while the core sleeps in a mode that
  drops the request; the retry has to be armed on every path on which it may be dropped.
* `ChangesFollowSequence` for the memories: an erase of several pages that reaches a protected section
  must erase none, and bytes left in the buffer must not be committed to another page.
* `PartiesAreTold`, `RaiseReturns`: a hook that raises the IRQ it is called for ends (`hook->busy`), and
  whoever is left with an old value is one of the cases that the code cannot help: nested, stopped, joined later.
  Users of event channels that drive channels in turn are told as well, and the calls end.
  For gdb: a stop that nothing tells it, or a run behind its back; the exceptions are the crash and the reset of section 6.
* `DataIsWhole`: a byte with XOFF heeded, a pair of result bytes, a byte in a buffer, a burst that was cut off and one that follows, a change in the log when the recording ends.
* `WorkIsTimed`: flags and shift registers against the one timer that moves them on; and
  `TimersFollowRegisters`, where time-outs, counts, outputs and captured widths have to be what the registers ask for.
  They found most of the disagreements of section 6: each of
  their exceptions (`orphan`; `stale`, `turned`) is history that marks a state the code reaches and does not leave.
* `CountsEveryCycle`: a late overflow, a write of TCNT or PER, a prescaler held: the anchor and the next
  deadline have to be computed anew, each in its own way. The refinement fails for every one left out.

Every property of a passing run has a mutant of the code's model that breaks it
(`PROJECT.json`, "mutants"; the mutated operators stand beside the originals).

## 5. The proofs

`CycleTimersProofs` proves, for every pool, every set of delays, costs, halts and every
limit that satisfy `SlotAssumption` and `CycleAssumption`:

| Theorem | Says |
|---|---|
| `TypeCorrect` | `Spec => []TypeOK`; the budget of a burst is never zero |
| `NoSlotIsLost` | `Spec => []SlotsConserved` |
| `AlwaysSorted` | the pending list is sorted by deadline |
| `AlwaysPrompt` | `Spec => []Prompt` |
| `PoolIsDeadlineQueue` | `Spec => ImplementsDeadlineQueue`: the refinement, step by step |

None of the first four is inductive alone. A list that is not sorted makes `process` look at the wrong
head, so `Prompt` needs `Sorted`; insertion into a list that repeats a slot breaks order, so
`Sorted` needs `SlotsConserved`; a slot detached outside a callback would vanish, so that needs
`DetachedWhileCalled`; and lateness is bounded only because the budget, with what halts may have added to the clock per
cycle of it (`Overrun`), never reaches further than
the earliest deadline and a burst (`BudgetCoversHead`) and a callback is never early
(`NeverEarly`). `IInv` is their conjunction. The proof has lemmas about the lists (what `InsertAt`,
`RemoveAt`, `Tail` and `PlaceOf` do to the set of members, to order and to uniqueness), a lemma per action
that it keeps `IInv`, and `Invariance`, from which the theorems follow.

The refinement adds `OneEntryEach`: no timer is pending twice. The mapping looks for the first entry of a timer, and with one entry
each it is *the* entry (`ShownIsWhen`); two lists that differ in the entry of one timer only show the same deadlines but for it
(`OthersShown`), and since `SlotsConserved` makes the list the complement of the slots that are free or held (`ListIs`), no
step needs to be followed through the list. A free slot means room in the abstract queue by an injection of the pending timers into the slots (`FreeIsRoom`). The
hypothesis is `~MayDuplicate`: `avr_cycle_timer_process` inserts what a callback returns without looking whether the callback has armed its own timer, and then
a timer is pending twice.

`InterruptsProofs` proves about `Interrupts`, for every set of vectors, levels, ring and firmware:

| Theorem | Says |
|---|---|
| `TypesHold` | `Spec => []TypeOK`; ring and stack stay within their arrays |
| `RingAgrees` | `Spec => []PendingIsQueued`, from `Queued`: on CPUINT the ring holds each pending vector once |
| `HandlersNest` | `Spec => []LevelsNest`, from `Nested`; the levels a reset stranded lie below or are marked as such (`StrandedBelow`) |
| `StrandingIsReset` | `Spec => OnlyResetStrands` |
| `ServiceIsArmed` | `Spec => []ArmedForService` for firmware that masks no pending vector and uses no CLI beside an NMI (`Disciplined`), from `Armed` |
| `RoundRobinRotates` | `Spec => AcknowledgedComesLast`: with LVL0PRI set to the vector served, it is the last in the order of all n |

`HostProofs` proves about `Host`, for every set of clients, counts and addresses:

| Theorem | Says |
|---|---|
| `HostTypes` | `Spec => []TypeOK` |
| `EventsBeforeReturns` | `Spec => []EventBeforeReturn` |
| `StopsArePosted` | `Spec => []StopIsPosted` |
| `LimitsEnd` | `Spec => []LimitsEndWithRun` |
| `RunsCount` | `Spec => []RunCounts`, without resets by firmware (`Elapsed = {}`) and with counts within `HistoryBound` |
| `BreakpointsHit` | `Spec => BreaksHit`, without SLEEP and host resets |

The invariant is `HostInv`: `Locked`, a thread is inside a critical section exactly when it holds the
lock, and the simulation thread exists exactly while the instance is threaded; and `Stopped`, the thread that
stops the instance tells it before it gives the lock away, event first and mirror last. `StopsArePosted` is
not inductive without the first, since another thread could otherwise change the mode between the three steps.

`HostEventsProofs` proves about `HostEvents`, for every number of subscriptions, windows and sizes:

| Theorem | Says |
|---|---|
| `TypesHold` | `Spec => []TypeOK` |
| `DescriptorTellsTheTruth` | `Spec => []ReadableIffPollable` |
| `QueueIsLossyQueue` | `Spec => ImplementsLossyQueue`: the refinement, step by step |
| `LastValueIsLevel` | `Spec => []LastValueWins`, from what is known of each subscription: kept, pushed, or unheard of (`Informed`) |
| `StopTellsPins` | `Spec => []StopShowsPins`, from `KeptAreDriven`: a value is kept back only on a pin that was driven since the last stop |

`ProtectedProofs` proves about `MCProtected`, for every set of parts and all constants that are well
formed (`ProtectedAssumption`, below):

| Theorem | Says |
|---|---|
| `TypesStand` | `Spec => []TypeOK`, of all ten peripherals |
| `TimersStayArmed` | `Spec => []TimersFollowRegisters`: each cycle timer is armed exactly while the registers ask for it; outputs and captured widths are those of the count |
| `WindowStaysExact` | `Spec => []CcpIsExact`, from `Counted`: the window left and the instructions since the signature add up |
| `HungWatchdogResets` | `Spec => []HungIsReset`, from `IgnoredShows`: a time-out that was ignored has left its flag and its enable set |
| `ResetStaysArmed` | `Spec => []ResetIsArmed`, from `WdtArmed`, which adds that a debugger takes `avr->run` only from a reset that is still pending |
| `ReadyStaysRequested` | `Spec => []ReadyRequested` |
| `ClockStaysDivided` | `Spec => []ClockFollowsRegisters`, if the board has set the external rates (`RateIsSet`); without it `Clock_external` shows the opposite |
| `ProtectedChangesInSequence` | `Spec => ChangesFollowSequence`, an action property, from the windows (`WatchdogWindowRuns`, `EepromWindowRuns`, `EnableRuns`, `OpenedIsTimed`): the time since the sequence and what is left of an open window add up to its length at most |

The invariant `Inv` is a conjunction of one invariant per peripheral (`WatchdogInv` ... `TcbInv`) and `Counted`, and not a `CASE`
over the part: a step of one peripheral leaves all others alone, so each is proved once to hold initially (`...InitHolds`), to be kept by
its own steps (`...Keeps`) and by those of others (`...Stands`), and `OthersStand` and `NextKeeps` compose them. What each adds to
the property it is for:

* Watchdogs and memories: sums, as above; a memory is busy exactly as long as an operation is timed (`BusyIsTimed`, `OpIsTimed`).
  `Wdt` has the lengths of its time-out and of its window as they were when CTRLA was written (`Lengths`), since a clock change leaves them alone.
* `Clkpr`: dividing, rounding and multiplying back is the identity (`RoundedBack`), so that a reset finds the clock that the
  part started with; and after a load, the clock the firmware named is the divided one (`ClkprDivided`).
* `Tca`: the count is a quotient of the cycles since the count was set. `WaitsForPhase` says that the timer stands at the first match or
  the end of the period after the phase reached, `MatchIsFlagged` and `LevelIsCounted` that nothing lies between; a late pass
  may reach one phase at most, which is where the bound on lateness comes in.
* `Tcb`: in every mode the timer waits for the next wrap, top or change of the output (`WrapIsTimed`, `TopIsTimed`, `OutputIsTimed`), and the history
  that a captured width is checked against is the count (`GaugeIsSince`).

The assumptions are those of the peripherals (`WellFormed` in each module) and say what a device table has: a time-out, a window and
a prescaler are at least one cycle; fields are those of the tables; the source selected by a reset runs; no divisor exceeds a
rate; a flash has a first page; a power of two is positive (`Clkpr`, where `2 ^ n` is out of the provers' arithmetic). TLC evaluates them in both runs of `MCProtected`.

`PeripheralsProofs` proves about `MCPeripherals`, for every set of parts and all constants that are well formed
(`PeripheralsAssumption`):

| Theorem | Says |
|---|---|
| `PartiesTold` | `Spec => []PartiesAreTold`: of the hooks of an IRQ (`HooksInStep`), the users of an event channel (`UsersInStep`, `CallsEnd`) and gdb (`GdbKnows`) |
| `PinsFollow` | `Spec => []PinsFollowFunctions` |
| `TypesOfParts` | `Spec => []TypeOK`, of all fourteen peripherals |
| `WorkTimed` | `Spec => []WorkIsTimed`: flags, shift registers, counts and polls against the one timer that moves each on; of the classic timer, with calls that are late by a count at most |
| `EveryCycleCounts` | `Spec => CountsEveryCycle`: the counters of the RTC and of the classic timer implement `RtcCounter` and `TimerCounter`, step by step |
| `DataWhole` | `Spec => []DataIsWhole`: no byte of a heeded sender, no transfer, no sample of a burst, no half of a result, no change of a trace is lost, doubled or torn |

`PeripheralsInv` has one invariant for each of the fourteen peripherals, composed in the same way (`...InitHolds`, `...Keeps`, `...Shows`;
`PartStays` says that a part never becomes another). `TimerProofs` has that of the classic timer, `PartsProofs` those of the others that wait on cycle timers, `PeripheralsProofs` the rest and the whole.

* `Uart`: the pump runs exactly while there are bytes, an overrun is of a full fifo, and a sender that may send knows of room
  (`FifoKept`, `NothingRejected`); what waits to be transmitted has its timer (`TransmitterTimed`).
* `UsartModern`: a frame has its bits to shift exactly while the bit timer runs, and nothing waits without one (`Shifting`, `UsartReceives`).
* `SpiModern`: in the buffer mode, what is owed to the other side is what is in the shift register and then in the buffer (`SpiLined`), at any time
  no more is owed than there is room for (`SpiCounted`), and an active flag has been asked to be served (`Told`). Flags follow the queue (`SpiOrdered`) unless the
  roles were changed with bytes on their way.
* `Adc`: the interlock of the result is closed while one half was read (`AdcInv`). `AdcModern`: while a burst runs the sum is that of the samples
  taken (`AdcmSums`), a sum being a recursive function that the proof unfolds one sample at a time (`IsTotal`).
* `Extint`: a request by the level stands in the low-level sense on a low pin, and is polled.
* `Rtc`: the timer is due in `target * cpt - age` cycles (`RtcTiming`), or CNT is past PER and wraps in a cycle.
* `Timer`: the overflow stands at the end of the period that runs (`TimerRuns`), a compare match before it and at its place in the same period
  (`TimerMatches`), and no period is of a single cycle (`TimerTimed`), as the code refuses one.
* `EveryCycleCounts` needs more of both (`CountersHold`). The RTC waits for the next match or for the wrap, or one cycle when CNT is past PER, and no match
  lies between (`RtcCounting`); then its `Position` in the period is one more after every cycle (`PositionMovesOn`), whether the timer has been called or
  is late. The classic timer has the lengths of its period and of its matches from the compare values in use (`TimerPeriod`), and a match ahead that is not waited for, as a
  write of TCNT leaves it, is that of the next count (`TimerSkips`), which `TimerCounter` has in `skips`. What the firmware would see is one of three records, of the period that runs
  (`SeenBefore`), of one that has ended while its timer is late (`SeenLate`), or of a counter that stands (`SeenStopped`). A cycle that passes, the end of a period, a match, and each
  write take one of these to another; the quotients by the prescaler change only in `DividesNext` and `RemainderMoves`.
* `Vcd`: file and log are what was offered, entry for entry (`VcdWhole`), and a line stands at its nanosecond or one later (`Stands`). `VcdPulses` says which
  two lines of a signal may share a stamp: with a flush between, or in a nanosecond in which a signal has changed twice before (`CrowdedIn`).
  `PulsesShow` had excepted the signal's own third change alone, and a log of three entries (the first instance) agreed. The proof did not go through: when a signal changes twice, the code
  moves the stamp on by a nanosecond, and compares no later change of the same nanosecond with it, so that both changes of another signal stand
  under that stamp (the comment at `sim_vcd_file.c:457` does not hold there). The property and the instance (a log of four) have been corrected.
* `VcdInput`: what was raised, what is read ahead and what is left of the file make up one file (`PlayerRead`, against `Whole(file)`), in order (`PlayerOrder`), and the timer
  stands at the first entry of the log (`PlayerTimed`).

* `Portmux`: a function has claimed the pin it is routed to exactly while it is active (`ClaimsFollowRoutes`), and the claims are made
  anew at every change.
* `Gdb`: what gdb takes the CPU for agrees with `avr->state`, crashes and resets apart (`GdbAgrees`). The property does not keep itself: that a CPU which
  is let run has reported its step, and stands at a breakpoint only when it was resumed from there (`MayRun`), is what makes its next pass tell.
* `EvSys`: the calls on the C stack wait for hooks of different users (`HooksHold`, by the guard `hook->busy`), so their number is bounded by
  that of the users: a sequence without repetition is an injection. A call tells users of its own channel (`OwnChannel`), one call at most emits on a channel that is not
  crossed by another (`OneEmission`), and a user who does not know the level is one that a call will still come to (`ToldOrPends`).
* `Irq`: hooks are called in the order of the chain; those before the place that an undisturbed raise has reached have its value, and one raise at
  most of an IRQ is undisturbed (`RaisesHold`). A hook that joins or leaves in the middle of a raise keeps the order of the rest
  (`AdditionKeepsOrder`, `RemovalKeepsOrder`), and one that is not connected has been told nothing (`NothingTold`).

The assumptions: no hook is also a notification or the number that stands for none; channels, users and functions are finite sets of numbers; 0 is in the table of
routes; the reset vector is an address; a match of the timer comes late by one count at most (`LateByOneCount`), and every period is shorter than `Longest`; fifos, divisors and
rates are at least one; the counts of the RTC are 0 to some n; a burst may be of one sample; the number that stands for no byte is not a byte; for the recorder a
cycle lasts two nanoseconds or more and the clock of the file does not wrap (a core of 500 MHz at most, a trace within 2^64 ns); for the player, a line of the file fits in the log when
it is read, its first change is at its first stamp, and a stamp has fewer changes than make the reading stop (`Fits`, `Sparse`): section 6 says what becomes of other files. TLC
evaluates them in `Peripherals`.

Lemmas about products and quotients, by rates and dividers that are variables and so beyond the provers' arithmetic, are at the head of `TimerProofs`; those about finite sets of numbers (a least, a greatest, a bound) at the head of `PartsProofs` and `InterruptsProofs`; induction is had there from the
well-founded orders of the library, since an induction theorem over a predicate cannot be instantiated.

Only model-checked: liveness (`ProcessReturns`, `RaiseReturns`, the
runs of `Host_live`: fairness and `ENABLED` are outside the prover's reach). The properties that the other runs of `Host`
share with a theorem are proved under the hypotheses named there. No module uses a RECURSIVE operator.

## 6. Disagreements between the code and its comments

Four have a run that shows them: `CycleTimers_periodic` (`sim_cycle_timers.c:248` against
`sim_cycle_timers.h:25`), `Interrupts_stale` (`sim_interrupts.c:209` against
`sim_interrupts.h:50`), `Host_breakreset` (`sim_host.c:421` against its own comment), `Clock_external`
(`avr_clkctrl_dd.c:149` against `:112`: not only does the clock not keep its rate, a write
of an unchanged register changes it). What follows was met while modelling and has no run. The models do as
the code does; where a property excepts such a case, its definition says so.

Core.

* `avr_cycle_timer_status` (`sim_cycle_timers.c:203`) returns `1 + when - cycle` unsigned; the
  comment at lines 188-189 says a pending timer never reads as zero. One that is a cycle late does.
* `avr_watchdog_reset` re-arms the timeout in the reset handler (`avr_watchdog.c:222`), against the
  clock that `avr_reset` zeroes afterwards (`sim_avr.c:303`): the first timeout comes late by the
  cycles that had passed.
* `avr_cpuint_reset` (`avr_cpuint.c:114`) leaves `cpuint_status`: levels that were executing at the
  reset stay marked and block the vectors of their level. `OnlyResetStrands` says that nothing else does.
* CLI clears `interrupt_state` (`sim_core.h:136`), which disarms a pending NMI, although the
  service is written to let it through (`sim_interrupts.c:376`). A core that sleeps with I clear is
  declared done (`sim_avr.c:540`) although an NMI could wake it (`sim_interrupts.c:212`).
* A raise of a vector that is pending already returns before it arms the service, although the
  comment at `sim_interrupts.c:442` counts on "a later raise" to do so.
* LVL1VEC rewritten inside a handler changes the level of vectors that are already queued and can
  leave one serviceable with the service idle; the run writes it with no level executing.
* IRQs (`sim_irq.c`): a hook that raises its own IRQ leaves the hooks called before it with the inner value and those after
  it with the outer one; on a filtered IRQ a change back from within is dropped. `IRQ_FLAG_INIT` and `NTF_STOP` share a bit. A
  hook that a raise in progress stands at must not be removed (the memory is freed; `Removable` excludes it).

Embedding API and GDB.

* A resume while the CPU sleeps at the resume address skips the breakpoint of the handler it wakes
  into (`sim_host.c:474-476`, `:493`).
* Firmware or the watchdog resetting during `avr_host_run_cycles` leaves the target where it was, so
  the run lasts longer by the cycles before the reset (only `avr_host_reset` moves it, `sim_host.c:1113-1118`).
* A coalesced pin can emit twice within a window (`sim_host.c:255` takes the cycle of the value, not
  of the emission, for `last_emit`); `sim_host.h:562-563` promises one event per window.
* The overflow report comes only if the reader's buffer has room behind the events (`sim_host.c:2184`).
* GDB: `s` or `c` while the core sleeps forgets the sleep. A watchpoint hit by a step, or two hit by one instruction, give two
  replies to one command. A crash with gdb attached stops the core without a reply. A reset by the watchdog or RSTCTRL in the pass
  of a stop sets the core running behind gdb's back, and one asked for by a stepped instruction loses the step's reply. A
  disconnect during a stepped SLEEP ends stopped with nobody connected; a kill in the sleep loop followed by the close
  sets the core running again. An access watchpoint sets three kind bits, its removal clears one; of overlapping ranges only the
  first is looked at; the 32nd point is written past the table. With `run_cycle_limit` above 1 a breakpoint inside a burst is missed. `D`
  falls through to kill unless `DETACHABLE` is defined.

Memories and clocks.

* A reset of the EEPROM or of an NVM controller abandons the write in progress. The 0-series controller has no
  callback on INTCTRL, so enabling EEREADY with the flag set requests nothing, and its EEPROM and user row share the dirty bits. The
  ready interrupt of the DD, documented as a level, is not asked for again after its service.
* Clkpr: a load of firmware that names the present (rounded) frequency is not noticed; a reset takes frequency times
  division as the undivided clock, which can drift once.

Serial.

* Uart: UDRIE set with TXEN clear, then TXEN: the flag is set and no interrupt requested. UDRE served without a write or a disable is
  not asked for again. A read of UDR with RXEN clear tells XON; a reset does not tell XOFF; XON is told only
  on an empty fifo (`avr_uart.h` says "not full"). `tx_cnt` is a byte and wraps.
* UsartModern: RXC is not asked for again when bytes remain after its service; a write of TXDATA clears TXCIF but not its request;
  TXC and loopback wait on one timer that every write restarts; a reset leaves the byte in the loopback.
* SpiModern: CTRLA has no handler, so disabling or leaving the host role leaves the byte in the shift register and
  buffered writes never start; as a client it answers with the byte it sent last as host; a read of DATA sets
  RXCIF for the next byte without a request (`again` marks it: firmware that clears RXCIF with a one and reads on
  gets no interrupt), or clears IF and leaves the request; a write with both buffers full is
  dropped without a flag; a write while disabled overwrites the head of the receive fifo.
* TWI (`avr_twi.c`, read but not modelled): TWCR written without TWINT clears the flag; TWEN cleared leaves the
  state timer; a write of TWDR when idle makes a later TWINT send START; COND_READ is never cleared; the next state is overwritten by
  overlapping delays and survives a reset.

Timers.

* Timer: a match of a compare value smaller than the lateness is lost; `tov_base == 0` is taken for "not started", so the first overflow
  after a reset at cycle 0 may be missed; CTC with OCRA below TCNT wraps at OCRA instead of MAX; a new prescaler or mode sets the
  count to 0, and TCNT written while stopped is lost; TCNT = OCR - 1 flags the match again; in strict fast PWM a match at TOP
  looks at the newly latched OCR; TOP 0 with prescaler 1 is not timed and the count runs away (`Timed` excepts it).
* Tcb: CCMP written in time-out mode while the count stands is not looked at (`stale`); any write of CTRLA or CTRLB restarts CNT from
  the value read last; INT started with CNT above 0 waits a whole period; a wrap noticed late shortens a measurement, loses the interrupt of
  an 8-bit PWM period and delays its output; a disable with a new CLKSEL rescales the frozen count; a reset
  does not lower WO.
* Tca: single slope counting down, WO is not raised when the count drops below CMP, since no event waits for it (split mode has one); a
  change of the event line (HIGHLVL, UPDOWN) or a register write in the cycle of a match re-anchors the period and loses the match; a CNT above
  TOP reads 0 at once and is 0 for a tick more; every register write drops the fraction of the prescaler's tick.
* Rtc: any write of CTRLA, CLKSEL, PER or CMP restarts the tick; a single byte of CNT is written with a stale other one; clearing the enabled flag while
  the other one is set leaves the request.

Analog, pins, events.

* Adc: ADSC written with ADEN clear sticks (`orphan`); a reset keeps the interlock. Extint: a request left by an edge mode when the sense becomes
  "low" is not polled; `avr_extint_set_strict_lvl_trig` has no effect.
* AdcModern: enabling again with FREERUN left set does not resume the conversions; disabling leaves STCONV set, and STCONV written
  while disabled sticks.
* EvSys: a strobe leaves the users at 0 even if their channel is at 1; a write of CHANNELn keeps the level the old generator left; a user that
  drives its own channel leaves the users after it with the outer value, as for a hook of `sim_irq.c`.
* Classic and modern ports (read, not modelled): a write of PORT, DIR, OUT or PINCTRL re-raises the pull-ups of all inputs over an external low; an
  external drive against an output leaves the IRQ at another value than the pin, so an equal PORT write is filtered. Modern: reading IN stores
  the inverted value back, so that with INVEN two reads of an input differ; sensing looks at the raw value; level sensing
  triggers on a change only; after a reset IN reads 0 until the pins are driven again.
* CCL (`avr_ccl.c`, read, not modelled): a hook that evaluates again while the outputs are published clocks a LUT twice on one edge.

Traces.

* Vcd: `avr_reset` drops the flush timer and zeroes the clock, so that a recording goes on only when its log is full, and its stamps wrap; the
  third change of a signal in one nanosecond is hidden, and so are both of another signal that changes twice behind the second; changes of one nanosecond on both sides of a flush share a stamp or step back;
  `1 << sigindex` is undefined from 31 signals on while 64 are allowed; a start while recording drops the log and the open file.
* VcdInput: from 16 signals on the threshold for reading ahead exceeds the fifo, and changes are lost without a word; changes behind a
  first stamp that is empty come early; the first delay is relative and the later deadlines absolute, so that a replay
  opened at a cycle other than 0 is hurried; a reset ends a replay.

## 7. Not modelled, and why

`PROJECT.json` gives the status of each component. The share of lines that `map` covers is small by
nature: of 848 thousand lines, the device headers that a vendor generates (`cores/avr/`) are all but a few per
cent; the simulator proper (`sim/`) has some 29 thousand, of which about a third are control over time.

* Nothing to check over time: the device tables, VREF, DAC, ZCD, SYSCFG, BOD and the like (register stores), the display
  (data), the examples and tests, the bindings and the GUI (a wrapper of `sim_host.h`).
* Formats: the text of GDB packets, ELF and HEX, DWARF, VCD. Their arithmetic is not concurrent, and a test reaches it.
* The instruction set: data, with a test-suite of its own. What the decoder does to control (the tail of `avr_run_one`,
  SLEEP, the I bit) is in `CycleTimers`, `Interrupts` and `Host`.
* USB: an endpoint's banks are driven by ioctls of a host controller that is not in the repository, so an environment would have to be invented.
* I/O dispatch: which callback a register has is decided once, at construction; the peripherals' modules take their
  handlers as called.
* Classic ports and modern ports: what one would ask of them, that an input shows what the outside drives and that a sensed
  change asks for an interrupt once, does not hold of this code (section 6): a register write overrides the outside. What holds is a restatement of
  the handlers. `Portmux` models the overrides, `Extint` the sensing of the classic pins.
* TWI, both generations: the bus state survives writes, resets and overlapping delays (section 6), so that an order of bus events can only be
  stated with an exception for every one of them. The SPI of the classic cores is one timer and one flag. USI, LIN and bit-banged SPI: the same timers and flags
  as `Uart` and `SpiModern`, on less state.
* A CPU that is done or has crashed is not reset by its firmware, so `AvrResets` needs one that runs or sleeps; the reserved
  values of CLKSEL; the interrupt of the modern USART's data register, which is always empty.
* Parts of modelled peripherals: the split and frequency modes of TCA, TCD, the PIT and busy bits of the RTC, input capture,
  external clocks, output pins and phase correct PWM of the classic timer, the ADCs of the DD and tiny2 families, the comparators, the table
  of watchpoints of gdb. The header of the module says so where there is one.
* CCL: its evaluation is one function of inputs and two bits of state per LUT; what could go wrong is the nesting that `Irq` and `EvSys` model.
* The composition of timers, interrupts and sleep in one run loop: each half is modelled where its state is. `CycleTimers`
  has the loop with its bursts and the sleep, and any interrupt; `Interrupts` has instructions, service and sleep, and raises at any point,
  so every interleaving of the whole is one of each half.
* `sim_cmds.c`: a byte written to a register starts or stops a trace or prints; `Vcd` has the starts and stops at any time.

## 8. What could come next

In this order.

1. `TwiModern` and `Twi` with the exceptions of section 6 as history, and the split mode of `Tca`.
2. Modern ports with a `Ccl` between them, over `EvSys`.
