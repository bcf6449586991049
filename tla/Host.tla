-------------------------------- MODULE Host --------------------------------
(***************************************************************************)
(* Run control of the embedding API (sim_host.c): one simulation thread    *)
(* executes the MCU in batches under the instance lock while client        *)
(* threads resume, step, pause, reset and wait.                            *)
(*                                                                         *)
(* Everything that happens under the lock is one step of its holder, but   *)
(* for the parts that other threads see without it: pause_req (no lock),   *)
(* the mirror "running" (stop_lock) and the event queue (ev_lock).  The    *)
(* last two are critical sections without a wait inside, so one step each. *)
(* The waiters count only chooses when the simulation thread asks for the  *)
(* lock again, which may be any time here.                                 *)
(*                                                                         *)
(* The MCU is what the loop of host_exec asks of it: where the PC is and   *)
(* whether the CPU runs, sleeps or has stopped.                            *)
(***************************************************************************)
EXTENDS Integers, FiniteSets, TLC

CONSTANTS
    Client,       \* threads that call the API
    Sim,          \* the simulation thread
    None,         \* nobody holds the lock
    Address,      \* where the PC can be
    ResetVector, HandlerEntry,
    Counts,       \* arguments of step and run_cycles
    SleepCycles,  \* what a pass of a sleeping CPU adds to the cycle counter
    Elapsed,      \* values of the cycle counter when firmware resets the MCU
    HistoryBound, \* bound: the history counts up to here
    Calls,        \* the API calls that clients make: a subset of CallKinds
    MaySleep      \* firmware executes SLEEP

CallKinds == {"start", "free", "resume", "pause", "step", "run_cycles", "reset",
              "load", "set_cpu", "breakpoint", "watchpoint", "access", "wait_stopped"}

ASSUME ThreadAssumption == Sim \notin Client /\ None \notin Client \cup {Sim}

ASSUME AddressAssumption ==
    /\ {ResetVector, HandlerEntry} \subseteq Address
    /\ Counts \subseteq Nat \ {0} /\ SleepCycles \subseteq Nat \ {0}
    /\ Elapsed \subseteq Nat /\ HistoryBound \in Nat /\ Calls \subseteq CallKinds /\ MaySleep \in BOOLEAN

Thread == Client \cup {Sim}

\* Clients are interchangeable.
ClientSymmetry == Permutations(Client)

VARIABLES
    lock,       \* the thread that holds h->lock, or None
    at,         \* where each thread is
    call,       \* what each client is calling
    threaded, quit,
    mode,       \* h->mode: "paused", "running", "done" or "crashed"
    stepLeft, cycleLimit,
    cyclesLeft, \* cycle_target - avr->cycle
    skipBreak, resumeValid, resumePc,
    breaks,     \* break_pc
    watched,    \* some watchpoint is set
    pauseReq,   \* h->pause_req
    running,    \* the mirror of mode under stop_lock
    stopping,   \* how far host_set_mode is: "no", "post" or "publish"
    posted,     \* the state of the last STATE event that was queued
    pc, cpu,    \* avr->pc, avr->state: "running", "sleeping" or stopped
    kind, asked, ran, ranCycles, \* history: the run asked for, how far it is
    owed        \* history: a run has ended and its STATE event is not queued

control == <<threaded, quit>>
limits  == <<stepLeft, cycleLimit, cyclesLeft>>
resume  == <<skipBreak, resumeValid, resumePc>>
debug   == <<breaks, watched>>
outside == <<pauseReq, running, stopping, posted>>
mcu     == <<pc, cpu>>
history == <<kind, asked, ran, ranCycles, owed>>
vars == <<lock, at, call, control, mode, limits, resume, debug, outside, mcu,
          history>>

NoCall == [op |-> "none"]

\* The calls a client can make, with their arguments.
CallsOf(op) ==
    IF op \in {"step", "run_cycles"} THEN [op : {op}, n : Counts]
    ELSE IF op \in {"set_cpu", "breakpoint"} THEN [op : {op}, pc : Address]
    ELSE [op : {op}]

Init ==
    /\ lock = None
    /\ at = [t \in Thread |-> IF t = Sim THEN "off" ELSE "out"]
    /\ call = [c \in Client |-> NoCall]
    /\ threaded = FALSE /\ quit = FALSE
    /\ mode = "paused" /\ stepLeft = 0 /\ cycleLimit = FALSE /\ cyclesLeft = 0
    /\ skipBreak = FALSE /\ resumeValid = FALSE /\ resumePc = ResetVector
    /\ breaks = {} /\ watched = FALSE
    /\ pauseReq = FALSE /\ running = FALSE /\ stopping = "no" /\ posted = "none"
    /\ pc = ResetVector /\ cpu = "running"
    /\ kind = "none" /\ asked = 0 /\ ran = 0 /\ ranCycles = 0 /\ owed = FALSE

At(t, from, to) == at[t] = from /\ at' = [at EXCEPT ![t] = to]

\* Mutants: one of the two conditions is not broadcast.
WakesSimOnly(t, to) ==
    at' = [u \in Thread |-> IF u = t THEN to
                            ELSE IF u = Sim /\ at[u] = "waiting" THEN "woken" ELSE at[u]]

WakesClientsOnly(t, to) ==
    at' = [u \in Thread |-> IF u = t THEN to
                            ELSE IF u # Sim /\ at[u] = "waiting" THEN "woken" ELSE at[u]]

\* t moves on and every thread that waits on a condition is woken.
WakesAll(t, to) ==
    at' = [u \in Thread |-> IF u = t THEN to
                            ELSE IF at[u] = "waiting" THEN "woken" ELSE at[u]]

-----------------------------------------------------------------------------
(* host_set_mode, in the three steps that other threads can tell apart.    *)

\* Mutant: the limits of a run that crashes or ends outlive it.
SetModeKeepsLimits(m) ==
    /\ mode' = m
    /\ stepLeft' = IF m = "paused" THEN 0 ELSE stepLeft
    /\ cycleLimit' = (m # "paused" /\ cycleLimit)
    /\ resumeValid' = (m = "paused") /\ resumePc' = pc'
    /\ stopping' = "post"
    /\ UNCHANGED running

\* Mutant: the stop is published with the mode, before its event is queued.
SetModePublishes(m) ==
    /\ mode' = m
    /\ stepLeft' = 0 /\ cycleLimit' = FALSE
    /\ resumeValid' = (m = "paused") /\ resumePc' = pc'
    /\ stopping' = "post"
    /\ running' = FALSE

\* First the mode, the limits and the resume point: all callers stop the run.
SetMode(m) ==
    /\ mode' = m
    /\ stepLeft' = 0 /\ cycleLimit' = FALSE
    /\ resumeValid' = (m = "paused") /\ resumePc' = pc'
    /\ stopping' = "post"
    /\ UNCHANGED running

\* Then the STATE event is queued.
PostState ==
    /\ stopping = "post" /\ stopping' = "publish"
    /\ posted' = mode
    /\ owed' = FALSE
    /\ UNCHANGED <<lock, at, call, control, mode, limits, resume, debug,
                   pauseReq, running, mcu, kind, asked, ran, ranCycles>>

\* Last, host_publish_mode and the broadcast on cond.
PublishStop ==
    /\ stopping = "publish" /\ stopping' = "no"
    /\ running' = (mode = "running")
    /\ WakesAll(lock, at[lock])
    /\ UNCHANGED <<lock, call, control, mode, limits, resume, debug, pauseReq,
                   posted, mcu, history>>

-----------------------------------------------------------------------------
(* host_exec, by the simulation thread or by a client in manual mode.      *)

Executes(t) == lock = t /\ at[t] = "exec" /\ mode = "running" /\ stopping = "no"

\* host_set_mode is called with the run unfinished, nothing having run.
Stops(t, m) ==
    /\ at' = [at EXCEPT ![t] = "between"]
    /\ SetMode(m)
    /\ owed' = TRUE
    /\ UNCHANGED <<lock, call, control, skipBreak, debug, posted, kind, asked>>

\* Mutant: a pause is only looked at before an instruction.
PauseSeenAwake == pauseReq /\ cpu = "running"

\* avr_host_pause is honoured before the next instruction, or while asleep.
PauseSeen == pauseReq

ExecPaused(t) ==
    /\ Executes(t)
    /\ PauseSeen
    /\ pauseReq' = FALSE
    /\ UNCHANGED <<cyclesLeft, mcu, ran, ranCycles>>
    /\ Stops(t, "paused")

AtBreak == cpu = "running" /\ pc \in breaks /\ ~skipBreak

ExecBreakpoint(t) ==
    /\ Executes(t)
    /\ ~PauseSeen /\ AtBreak
    /\ UNCHANGED <<cyclesLeft, pauseReq, mcu, ran, ranCycles>>
    /\ Stops(t, "paused")

\* What is left of the cycle limit; kept at zero while no limit is set.
Left(n) == IF cycleLimit /\ cyclesLeft > n THEN cyclesLeft - n ELSE 0

Counted(n) == IF n > HistoryBound THEN HistoryBound ELSE n

Ran(instructions, cycles) ==
    /\ ran' = Counted(ran + instructions)
    /\ ranCycles' = Counted(ranCycles + cycles)

\* One avr_run of a running CPU: the PC moves, the CPU may stop or sleep.
AvrRuns ==
    /\ cpu = "running"
    /\ pc' \in Address
    /\ cpu' \in {"running", "done", "crashed"} \cup (IF MaySleep THEN {"sleeping"} ELSE {})
    /\ cyclesLeft' = Left(1)
    /\ Ran(1, 1)

\* A sleeping CPU wakes into a handler, or goes on behind SLEEP when that is
\* blocked, or stops for good when I is clear.
AvrSleeps ==
    /\ cpu = "sleeping"
    /\ \/ pc' = pc /\ cpu' \in {"sleeping", "running", "done"}
       \/ pc' = HandlerEntry /\ cpu' = "running"
    /\ \E n \in SleepCycles : cyclesLeft' = Left(n) /\ Ran(0, n)

\* A software or watchdog reset: avr_reset zeroes the cycle counter.
AvrResets ==
    /\ cpu \in {"running", "sleeping"}
    /\ pc' = ResetVector /\ cpu' = "running"
    /\ \E e \in Elapsed : /\ cyclesLeft + e <= HistoryBound
                          /\ cyclesLeft' = IF cycleLimit THEN cyclesLeft + e ELSE 0
    /\ Ran(IF cpu = "running" THEN 1 ELSE 0, 1)

\* A CPU that has stopped only runs its timers.
AvrStopped ==
    /\ cpu \in {"done", "crashed"}
    /\ UNCHANGED <<mcu, cyclesLeft, ran, ranCycles>>

Avr == AvrRuns \/ AvrSleeps \/ AvrResets \/ AvrStopped

Executed == cpu = "running"

\* Mutant: the count is not tested before it is decremented.
StepsUnchecked == IF Executed THEN stepLeft - 1 ELSE stepLeft

Steps == IF Executed /\ stepLeft > 0 THEN stepLeft - 1 ELSE stepLeft

\* A run that has a limit reaches it with this avr_run.
LimitReached == \/ stepLeft > 0 /\ Steps = 0
                \/ cycleLimit /\ cyclesLeft' = 0

\* What follows avr_run, in the order of the code: a watchpoint, the state
\* of the CPU, the count of instructions, the count of cycles.
ExecRuns(t) ==
    /\ Executes(t)
    /\ ~PauseSeen /\ ~AtBreak
    /\ Avr
    /\ skipBreak' = (~Executed /\ skipBreak)
    /\ \E hit \in {FALSE, watched} :
         IF hit \/ cpu' \in {"done", "crashed"} \/ LimitReached
         THEN /\ SetMode(IF ~hit /\ cpu' \in {"done", "crashed"} THEN cpu' ELSE "paused")
              /\ owed' = TRUE
         ELSE /\ stepLeft' = Steps
              /\ UNCHANGED <<mode, cycleLimit, resumeValid, resumePc, stopping,
                             running, owed>>
    /\ at' = [at EXCEPT ![t] = "between"]
    /\ UNCHANGED <<lock, call, control, debug, pauseReq, posted, kind, asked>>

\* The batch goes on; a client in manual mode starts the next one itself.
ExecContinues(t) ==
    /\ lock = t /\ mode = "running" /\ stopping = "no"
    /\ At(t, "between", "exec")
    /\ UNCHANGED <<lock, call, control, mode, limits, resume, debug, outside,
                   mcu, history>>

\* host_exec returns and the simulation thread gives the lock away; pacing
\* only delays its return.  A client is done.
ExecEnds(t) ==
    /\ lock = t /\ stopping = "no"
    /\ IF t = Sim THEN At(t, "between", "yielding") /\ lock' = None
       ELSE mode # "running" /\ At(t, "between", "leaving") /\ UNCHANGED lock
    /\ UNCHANGED <<call, control, mode, limits, resume, debug, outside, mcu,
                   history>>

Exec(t) == ExecPaused(t) \/ ExecBreakpoint(t) \/ ExecRuns(t) \/ ExecContinues(t) \/ ExecEnds(t)

-----------------------------------------------------------------------------
(* host_thread *)

\* The lock is taken: at first, after a wait, after a batch.
SimTakesLock ==
    /\ lock = None /\ at[Sim] \in {"starting", "woken", "yielding"}
    /\ lock' = Sim
    /\ at' = [at EXCEPT ![Sim] = "loop"]
    /\ UNCHANGED <<call, control, mode, limits, resume, debug, outside, mcu,
                   history>>

SimExits ==
    /\ At(Sim, "loop", "exited")
    /\ quit
    /\ lock' = None
    /\ UNCHANGED <<call, control, mode, limits, resume, debug, outside, mcu,
                   history>>

SimWaits ==
    /\ At(Sim, "loop", "waiting")
    /\ ~quit /\ mode # "running"
    /\ lock' = None
    /\ UNCHANGED <<call, control, mode, limits, resume, debug, outside, mcu,
                   history>>

SimBatch ==
    /\ At(Sim, "loop", "exec")
    /\ ~quit /\ mode = "running"
    /\ UNCHANGED <<lock, call, control, mode, limits, resume, debug, outside,
                   mcu, history>>

SimThread == SimTakesLock \/ SimExits \/ SimWaits \/ SimBatch

\* A condition variable may return without having been signalled.
SpuriousWake(t) ==
    /\ At(t, "waiting", "woken")
    /\ UNCHANGED <<lock, call, control, mode, limits, resume, debug, outside,
                   mcu, history>>

-----------------------------------------------------------------------------
(* API calls *)

Alone(c) == \A d \in Client \ {c} : at[d] = "out"

\* A client calls.  No other call may be in progress or follow during free.
Enter(c) ==
    /\ \E op \in Calls \ {"pause", "wait_stopped"} : \E k \in CallsOf(op) :
         /\ op = "free" => Alone(c)
         /\ call' = [call EXCEPT ![c] = k]
    /\ \A d \in Client : call[d].op # "free"
    /\ At(c, "out", "queued")
    /\ UNCHANGED <<lock, control, mode, limits, resume, debug, outside, mcu,
                   history>>

TakesLock(c) ==
    /\ lock = None
    /\ At(c, "queued", "in")
    /\ lock' = c
    /\ UNCHANGED <<call, control, mode, limits, resume, debug, outside, mcu,
                   history>>

\* host_unlock at the end of a call; avr_host_free goes on to pthread_join.
Leaves(c) ==
    /\ stopping = "no"
    /\ At(c, "leaving", IF call[c].op = "free" THEN "joining" ELSE "out")
    /\ lock' = None
    /\ call' = [call EXCEPT ![c] = IF @.op = "free" THEN @ ELSE NoCall]
    /\ UNCHANGED <<control, mode, limits, resume, debug, outside, mcu, history>>

In(c, op) == at[c] = "in" /\ call[c].op = op

Done(c) == at' = [at EXCEPT ![c] = "leaving"]

\* An accessor, or a call that is not allowed in this state.
Returns(c) ==
    /\ \/ In(c, "access")
       \/ In(c, "start") /\ threaded
       \/ In(c, "resume") /\ (~threaded \/ mode # "paused")
       \/ (In(c, "step") \/ In(c, "run_cycles")) /\ mode # "paused"
       \/ (In(c, "load") \/ In(c, "set_cpu")) /\ mode = "running"
    /\ Done(c)
    /\ UNCHANGED <<lock, call, control, mode, limits, resume, debug, outside,
                   mcu, history>>

Start(c) ==
    /\ In(c, "start") /\ ~threaded
    /\ threaded' = TRUE
    /\ at' = [at EXCEPT ![c] = "leaving", ![Sim] = "starting"]
    /\ UNCHANGED <<lock, call, quit, mode, limits, resume, debug, outside, mcu,
                   history>>

\* avr_host_free stops the thread, if there is one.
Free(c) ==
    /\ In(c, "free")
    /\ IF threaded THEN quit' = TRUE /\ WakesAll(c, "leaving")
                   ELSE UNCHANGED quit /\ Done(c)
    /\ UNCHANGED <<lock, call, threaded, mode, limits, resume, debug, outside,
                   mcu, history>>

Joins(c) ==
    /\ threaded => at[Sim] = "exited"
    /\ At(c, "joining", "freed")
    /\ UNCHANGED <<lock, call, control, mode, limits, resume, debug, outside,
                   mcu, history>>

\* Mutant: the first instruction of every run is exempt.
SkipsAlways == TRUE

\* "this run's first instruction skips breaks"
Skips == resumeValid /\ pc = resumePc

\* host_go, with the limit the caller has set just before.
Go(c) ==
    /\ mode = "paused"
    /\ pauseReq' = FALSE
    /\ skipBreak' = Skips
    /\ mode' = "running"
    /\ running' = TRUE
    /\ WakesAll(c, IF threaded THEN "leaving" ELSE "exec")
    /\ kind' = call[c].op /\ ran' = 0 /\ ranCycles' = 0
    /\ UNCHANGED <<lock, call, control, resumeValid, resumePc, debug, stopping,
                   mcu, owed>>

Resume(c) ==
    /\ In(c, "resume") /\ threaded
    /\ Go(c)
    /\ posted' = "running" /\ asked' = 0
    /\ UNCHANGED limits

Step(c) ==
    /\ In(c, "step")
    /\ Go(c)
    /\ stepLeft' = call[c].n /\ asked' = call[c].n
    /\ UNCHANGED <<cycleLimit, cyclesLeft, posted>>

RunCycles(c) ==
    /\ In(c, "run_cycles")
    /\ Go(c)
    /\ cycleLimit' = TRUE
    /\ cyclesLeft' = call[c].n /\ asked' = call[c].n
    /\ UNCHANGED <<stepLeft, posted>>

\* Mutant: the end of the run is not moved along with the cycle counter.
RebasedNot == cyclesLeft + 1

\* avr_host_reset keeps what is left of a run.
Rebased == cyclesLeft

\* Mutant: the mode is set without host_set_mode.
AfterResetSilent(start) ==
    /\ pc' = start /\ cpu' = "running"
    /\ mode' = IF mode \in {"done", "crashed"} THEN "paused" ELSE mode
    /\ resumeValid' = FALSE
    /\ UNCHANGED <<stepLeft, cycleLimit, resumePc, stopping, skipBreak, running, owed>>

\* avr_reset and host_after_reset; then the PC may be set.
AfterReset(start) ==
    /\ pc' = start /\ cpu' = "running"
    /\ IF mode \in {"done", "crashed"}
       THEN /\ mode' = "paused" /\ stopping' = "post"
            /\ stepLeft' = 0 /\ cycleLimit' = FALSE /\ resumePc' = ResetVector
       ELSE UNCHANGED <<mode, stopping, stepLeft, cycleLimit, resumePc>>
    /\ resumeValid' = FALSE
    /\ UNCHANGED <<skipBreak, running, owed>>

Reset(c) ==
    /\ In(c, "reset")
    /\ AfterReset(ResetVector)
    /\ cyclesLeft' = Rebased
    /\ Done(c)
    /\ UNCHANGED <<lock, call, control, debug, pauseReq, posted, kind, asked,
                   ran, ranCycles>>

\* avr_host_load_elf, _hex and _flash reset the MCU, and start a bootloader where
\* it is; the cycle target stays, which nothing reads before the next run sets it.
Load(c) ==
    /\ In(c, "load") /\ mode # "running"
    /\ \E flashbase \in Address : AfterReset(flashbase)
    /\ Done(c)
    /\ UNCHANGED <<lock, call, control, cyclesLeft, debug, pauseReq, posted,
                   kind, asked, ran, ranCycles>>

SetCpu(c) ==
    /\ In(c, "set_cpu") /\ mode # "running"
    /\ pc' = call[c].pc
    /\ resumeValid' = FALSE
    /\ Done(c)
    /\ UNCHANGED <<lock, call, control, mode, limits, skipBreak, resumePc, debug,
                   outside, cpu, history>>

\* avr_host_break_add and _remove
Breakpoint(c) ==
    /\ In(c, "breakpoint")
    /\ breaks' \in {breaks \cup {call[c].pc}, breaks \ {call[c].pc}}
    /\ Done(c)
    /\ UNCHANGED <<lock, call, control, mode, limits, resume, watched, outside,
                   mcu, history>>

\* avr_host_watch_add and _remove
Watchpoint(c) ==
    /\ In(c, "watchpoint")
    /\ watched' \in BOOLEAN
    /\ Done(c)
    /\ UNCHANGED <<lock, call, control, mode, limits, resume, breaks, outside,
                   mcu, history>>

\* avr_host_pause takes no lock.
Pause(c) ==
    /\ "pause" \in Calls /\ at[c] = "out"
    /\ pauseReq' = TRUE
    /\ UNCHANGED <<lock, at, call, control, mode, limits, resume, debug, running,
                   stopping, posted, mcu, history>>

\* avr_host_wait_stopped: the mirror is read and the wait begins, or the call
\* returns, in one critical section of stop_lock.
WaitStopped(c) ==
    /\ "wait_stopped" \in Calls
    /\ \/ at[c] = "out" /\ \A d \in Client : call[d].op # "free"
       \/ at[c] = "woken"
    /\ at' = [at EXCEPT ![c] = IF running THEN "waiting" ELSE "out"]
    /\ UNCHANGED <<lock, call, control, mode, limits, resume, debug, outside,
                   mcu, history>>

WaitTimesOut(c) ==
    /\ At(c, "waiting", "out")
    /\ UNCHANGED <<lock, call, control, mode, limits, resume, debug, outside,
                   mcu, history>>

Body(c) ==
    \/ Returns(c) \/ Start(c) \/ Free(c) \/ Resume(c) \/ Step(c) \/ RunCycles(c)
    \/ Reset(c) \/ Load(c) \/ SetCpu(c) \/ Breakpoint(c) \/ Watchpoint(c)

ClientStep(c) ==
    \/ Enter(c) \/ TakesLock(c) \/ Body(c) \/ Leaves(c) \/ Joins(c)
    \/ Pause(c) \/ WaitStopped(c) \/ WaitTimesOut(c)

Next ==
    \/ PostState \/ PublishStop
    \/ SimThread
    \/ \E t \in Thread : Exec(t) \/ SpuriousWake(t)
    \/ \E c \in Client : ClientStep(c)

Spec == Init /\ [][Next]_vars

\* Threads are scheduled, and a thread that asks for the lock again and again
\* while it comes free gets it: host_thread yields to the queued callers, and
\* at most 64 times, to make that so.
Fairness ==
    /\ WF_vars(PostState) /\ WF_vars(PublishStop)
    /\ SF_vars(SimTakesLock)
    /\ WF_vars(SimExits \/ SimWaits \/ SimBatch)
    /\ \A t \in Thread : WF_vars(Exec(t))
    /\ \A c \in Client :
         /\ SF_vars(TakesLock(c))
         /\ WF_vars(Body(c)) /\ WF_vars(Leaves(c)) /\ WF_vars(Joins(c))
         /\ WF_vars(at[c] = "woken" /\ WaitStopped(c))

FairSpec == Spec /\ Fairness

-----------------------------------------------------------------------------
(* Properties *)

TypeOK ==
    /\ lock \in Thread \cup {None}
    /\ at \in [Thread -> {"off", "starting", "loop", "exec", "between", "yielding",
                          "waiting", "woken", "exited", "out", "queued", "in",
                          "leaving", "joining", "freed"}]
    /\ call \in [Client -> UNION {CallsOf(op) : op \in CallKinds \cup {"none"}}]
    /\ threaded \in BOOLEAN /\ quit \in BOOLEAN
    /\ mode \in {"paused", "running", "done", "crashed"}
    /\ stepLeft \in Nat /\ cycleLimit \in BOOLEAN
    /\ cyclesLeft \in Nat
    /\ skipBreak \in BOOLEAN /\ resumeValid \in BOOLEAN
    /\ resumePc \in Address /\ breaks \subseteq Address /\ watched \in BOOLEAN
    /\ pauseReq \in BOOLEAN /\ running \in BOOLEAN
    /\ stopping \in {"no", "post", "publish"}
    /\ posted \in {"none", "paused", "running", "done", "crashed"}
    /\ pc \in Address /\ cpu \in {"running", "sleeping", "done", "crashed"}
    /\ kind \in {"none", "resume", "step", "run_cycles"}
    /\ asked \in Nat /\ ran \in Nat /\ ranCycles \in Nat /\ owed \in BOOLEAN

\* avr_host_wait_stopped() must not return before the STATE event of the stop
\* is queued: the mirror it reads still says running while the event is owed.
EventBeforeReturn == owed => running

\* A limit belongs to the run that was asked for it: whatever ends a run, a
\* later one is not cut short by what was left of its count.
LimitsEndWithRun ==
    /\ mode # "running" => stepLeft = 0 /\ ~cycleLimit
    /\ mode = "running" => (kind # "step" => stepLeft = 0)
                           /\ (cycleLimit <=> kind = "run_cycles")

\* A client that follows the STATE events is never left with a run that is
\* over: between two holders of the lock, the last event told of the stop.
StopIsPosted ==
    (lock = None /\ mode # "running") => posted \in {mode, "none"}

\* step(n) executes n instructions and run_cycles(n) stops at n cycles, no
\* matter how the run is interleaved with sleep, with resets by the host and
\* with other calls.  A reset by firmware is not among them: it restarts the
\* clock and leaves the target of run_cycles where it was.
RunCounts ==
    mode = "running" =>
        /\ kind = "step" => ran + stepLeft = asked
        /\ kind = "run_cycles" => ranCycles + cyclesLeft = asked

\* An instruction at a breakpoint does not execute, but for the one that the
\* paused instance resumes from.
BreaksHit ==
    [][(ran' # ran /\ ran' > 0 /\ pc \in breaks) => (ran = 0 /\ pc = resumePc)]_vars

\* A pause that arrives during a run stops it, unless the instance is freed.
PauseStops == (mode = "running" /\ pauseReq) ~> (mode # "running" \/ quit)

\* A client that waits without a timeout returns after the run has stopped,
\* unless a new run begins; and avr_host_free returns, because the thread
\* leaves its wait or its run.
WaitersReturn ==
    /\ \A c \in Client : (at[c] = "waiting" /\ ~running) ~> (at[c] # "waiting" \/ running)
    /\ quit ~> (at[Sim] = "exited" /\ \E c \in Client : at[c] = "freed")

\* Clients that call accessors in a tight loop cannot stall the simulation:
\* cycles pass in every run.
RunProgresses ==
    (mode = "running" /\ ranCycles = 0) ~> (mode # "running" \/ ranCycles > 0 \/ quit)
=============================================================================
