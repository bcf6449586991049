----------------------------- MODULE HostProofs -----------------------------
(***************************************************************************)
(* Proofs about Host, for every set of clients, every address space and    *)
(* every set of calls, with an MCU that does whatever host_exec can see.   *)
(***************************************************************************)
EXTENDS Host, TLAPS

Request == UNION {CallsOf(op) : op \in CallKinds \cup {"none"}}

Places == {"off", "starting", "loop", "exec", "between", "yielding", "waiting", "woken",
           "exited", "out", "queued", "in", "leaving", "joining", "freed"}

(***************************************************************************)
(* Types                                                                   *)
(***************************************************************************)

\* A call carries the argument of its kind.
LEMMA RequestArguments ==
    ASSUME NEW k \in Request
    PROVE  /\ k.op \in {"step", "run_cycles"} => k.n \in Counts
           /\ k.op \in {"set_cpu", "breakpoint"} => k.pc \in Address
<1>1. PICK op \in CallKinds \cup {"none"} : k \in CallsOf(op)
  BY DEF Request
<1>2. k.op = op
  BY <1>1 DEF CallsOf
<1>3. QED
  BY <1>1, <1>2 DEF CallsOf

\* A client's call is one of the kind it names.
LEMMA CallsAreRequests ==
    ASSUME NEW op \in Calls, NEW k \in CallsOf(op)
    PROVE  k \in Request /\ k.op = op
BY AddressAssumption DEF Request, CallsOf

LEMMA NoCallIsRequest == NoCall \in Request
<1>1. NoCall \in CallsOf("none")
  BY DEF NoCall, CallsOf
<1>2. QED
  BY <1>1 DEF Request

\* The control state: who holds the lock and where the threads are.
ControlType ==
    /\ lock \in Thread \cup {None}
    /\ at \in [Thread -> Places]
    /\ call \in [Client -> Request]
    /\ threaded \in BOOLEAN /\ quit \in BOOLEAN

\* The state of the run: how it stops, where it stands, how far it goes.
StopType ==
    /\ mode \in {"paused", "running", "done", "crashed"}
    /\ pauseReq \in BOOLEAN /\ running \in BOOLEAN
    /\ stopping \in {"no", "post", "publish"}
    /\ posted \in {"none", "paused", "running", "done", "crashed"}
    /\ owed \in BOOLEAN

PlaceType ==
    /\ skipBreak \in BOOLEAN /\ resumeValid \in BOOLEAN
    /\ resumePc \in Address /\ breaks \subseteq Address /\ watched \in BOOLEAN
    /\ pc \in Address /\ cpu \in {"running", "sleeping", "done", "crashed"}

CountType ==
    /\ stepLeft \in Nat /\ cycleLimit \in BOOLEAN
    /\ cyclesLeft \in Nat
    /\ kind \in {"none", "resume", "step", "run_cycles"}
    /\ asked \in Nat /\ ran \in Nat /\ ranCycles \in Nat

RunType == StopType /\ PlaceType /\ CountType

LEMMA TypeParts == TypeOK <=> ControlType /\ RunType
BY DEF TypeOK, ControlType, RunType, StopType, PlaceType, CountType, Places, Request

USE DEF vars, control, limits, resume, debug, outside, mcu, history

LEMMA ControlTypeStep ==
    ControlType /\ [Next]_vars => ControlType'
<1> SUFFICES ASSUME ControlType, [Next]_vars PROVE ControlType'
  OBVIOUS
<1> USE DEF ControlType
<1> USE DEF At, WakesAll, Done, Places, Thread
<1>1. CASE PostState
  BY <1>1 DEF PostState
<1>2. CASE PublishStop
  BY <1>2 DEF PublishStop
<1>3. CASE SimThread
  BY <1>3 DEF SimThread, SimTakesLock, SimExits, SimWaits, SimBatch
<1>4. ASSUME NEW t \in Thread, Exec(t) PROVE ControlType'
  <2>1. CASE ExecPaused(t)
    BY <2>1 DEF ExecPaused, Executes, Stops
  <2>2. CASE ExecBreakpoint(t)
    BY <2>2 DEF ExecBreakpoint, Executes, Stops
  <2>3. CASE ExecRuns(t)
    BY <2>3 DEF ExecRuns, Executes
  <2>4. CASE ExecContinues(t) \/ ExecEnds(t)
    BY <2>4 DEF ExecContinues, ExecEnds
  <2>5. QED
    BY <1>4, <2>1, <2>2, <2>3, <2>4 DEF Exec
<1>5. ASSUME NEW t \in Thread, SpuriousWake(t) PROVE ControlType'
  BY <1>5 DEF SpuriousWake
<1>6. ASSUME NEW c \in Client, ClientStep(c) PROVE ControlType'
  <2>1. CASE Enter(c)
    <3>1. PICK op \in Calls : \E k \in CallsOf(op) : call' = [call EXCEPT ![c] = k]
      BY <2>1 DEF Enter
    <3>2. call' \in [Client -> Request]
      BY <3>1, CallsAreRequests
    <3>3. QED
      BY <2>1, <3>2 DEF Enter
  <2>2. CASE TakesLock(c)
    BY <2>2 DEF TakesLock
  <2>3. CASE Body(c)
    <3>1. CASE Returns(c) \/ Start(c) \/ Free(c)
      BY <3>1 DEF Returns, Start, Free
    <3>2. CASE Resume(c) \/ Step(c) \/ RunCycles(c)
      BY <3>2 DEF Resume, Step, RunCycles, Go
    <3>3. CASE Reset(c) \/ Load(c) \/ SetCpu(c) \/ Breakpoint(c) \/ Watchpoint(c)
      BY <3>3 DEF Reset, Load, SetCpu, Breakpoint, Watchpoint
    <3>4. QED
      BY <2>3, <3>1, <3>2, <3>3 DEF Body
  <2>4. CASE Leaves(c)
    BY <2>4, NoCallIsRequest DEF Leaves
  <2>5. CASE Joins(c) \/ Pause(c) \/ WaitStopped(c) \/ WaitTimesOut(c)
    BY <2>5 DEF Joins, Pause, WaitStopped, WaitTimesOut
  <2>6. QED
    BY <1>6, <2>1, <2>2, <2>3, <2>4, <2>5 DEF ClientStep
<1>7. CASE UNCHANGED vars
  BY <1>7
<1>8. QED
  BY <1>1, <1>2, <1>3, <1>4, <1>5, <1>6, <1>7 DEF Next

LEMMA RunTypeStep ==
    ControlType /\ RunType /\ [Next]_vars => RunType'
<1> SUFFICES ASSUME ControlType, RunType, [Next]_vars PROVE RunType'
  OBVIOUS
<1> USE AddressAssumption DEF RunType, StopType, PlaceType, CountType
<1>1. CASE PostState
  <2>1. StopType'
    BY <1>1 DEF PostState
  <2>2. PlaceType'
    BY <1>1 DEF PostState
  <2>3. CountType'
    BY <1>1 DEF PostState
  <2>4. QED
    BY <2>1, <2>2, <2>3 DEF RunType
<1>2. CASE PublishStop
  BY <1>2 DEF PublishStop
<1>3. CASE SimThread
  BY <1>3 DEF SimThread, SimTakesLock, SimExits, SimWaits, SimBatch
<1>4. ASSUME NEW t \in Thread, Exec(t) PROVE RunType'
  <2>1. CASE ExecPaused(t)
    BY <2>1 DEF ExecPaused, Stops, SetMode
  <2>2. CASE ExecBreakpoint(t)
    BY <2>2 DEF ExecBreakpoint, Stops, SetMode
  <2>3. CASE ExecRuns(t)
    <3>1. /\ pc' \in Address /\ cpu' \in {"running", "sleeping", "done", "crashed"}
          /\ cyclesLeft' \in Nat /\ ran' \in Nat /\ ranCycles' \in Nat
      <4>1. CASE AvrRuns
        BY <4>1 DEF AvrRuns, Left, Ran, Counted
      <4>2. CASE AvrSleeps
        BY <4>2 DEF AvrSleeps, Left, Ran, Counted
      <4>3. CASE AvrResets
        BY <4>3 DEF AvrResets, Ran, Counted
      <4>4. CASE AvrStopped
        BY <4>4 DEF AvrStopped
      <4>5. QED
        BY <2>3, <4>1, <4>2, <4>3, <4>4 DEF ExecRuns, Avr
    <3>2. Steps \in Nat
      BY DEF Steps
    <3>3. PICK hit \in {FALSE, watched} :
             IF hit \/ cpu' \in {"done", "crashed"} \/ LimitReached
             THEN /\ SetMode(IF ~hit /\ cpu' \in {"done", "crashed"} THEN cpu' ELSE "paused")
                  /\ owed' = TRUE
             ELSE /\ stepLeft' = Steps
                  /\ UNCHANGED <<mode, cycleLimit, resumeValid, resumePc, stopping, running, owed>>
      BY <2>3 DEF ExecRuns
    <3>4. mode' \in {"paused", "running", "done", "crashed"}
      BY <3>1, <3>3 DEF SetMode
    <3>5. stepLeft' \in Nat /\ resumePc' \in Address /\ stopping' \in {"no", "post", "publish"}
      BY <3>1, <3>2, <3>3 DEF SetMode
    <3>6. cycleLimit' \in BOOLEAN /\ resumeValid' \in BOOLEAN /\ running' \in BOOLEAN /\ owed' \in BOOLEAN
      BY <3>3 DEF SetMode
    <3>7. skipBreak' \in BOOLEAN
      BY <2>3 DEF ExecRuns
    <3>8. StopType'
      BY <2>3, <3>4, <3>5, <3>6 DEF ExecRuns
    <3>9. PlaceType'
      BY <2>3, <3>1, <3>5, <3>6, <3>7 DEF ExecRuns
    <3>10. CountType'
      BY <2>3, <3>1, <3>5, <3>6 DEF ExecRuns
    <3>11. QED
      BY <3>8, <3>9, <3>10 DEF RunType
  <2>4. CASE ExecContinues(t) \/ ExecEnds(t)
    BY <2>4 DEF ExecContinues, ExecEnds
  <2>5. QED
    BY <1>4, <2>1, <2>2, <2>3, <2>4 DEF Exec
<1>5. ASSUME NEW t \in Thread, SpuriousWake(t) PROVE RunType'
  BY <1>5 DEF SpuriousWake
<1>6. ASSUME NEW c \in Client, ClientStep(c) PROVE RunType'
  <2>1. /\ call[c].op \in {"step", "run_cycles"} => call[c].n \in Counts
        /\ call[c].op \in {"set_cpu", "breakpoint"} => call[c].pc \in Address
    BY RequestArguments DEF ControlType
  <2>2. CASE Enter(c) \/ TakesLock(c) \/ Leaves(c) \/ Joins(c) \/ WaitStopped(c) \/ WaitTimesOut(c)
    BY <2>2 DEF Enter, TakesLock, Leaves, Joins, WaitStopped, WaitTimesOut
  <2>3. CASE Pause(c)
    BY <2>3 DEF Pause
  <2>4. CASE Body(c)
    <3>1. CASE Returns(c) \/ Start(c) \/ Free(c)
      BY <3>1 DEF Returns, Start, Free
    <3>2. CASE Resume(c)
      BY <3>2 DEF Resume, Go, In, Skips
    <3>3. CASE Step(c) \/ RunCycles(c)
      <4>1. StopType'
        BY <3>3, <2>1 DEF Step, RunCycles, Go, In, Skips
      <4>2. PlaceType'
        BY <3>3, <2>1 DEF Step, RunCycles, Go, In, Skips
      <4>3. CountType'
        <5>1. CASE Step(c)
          BY <5>1, <2>1 DEF Step, Go, In
        <5>2. CASE RunCycles(c)
          BY <5>2, <2>1 DEF RunCycles, Go, In
        <5>3. QED
          BY <3>3, <5>1, <5>2
      <4>4. QED
        BY <4>1, <4>2, <4>3 DEF RunType
    <3>4. CASE Reset(c) \/ Load(c)
      <4>1. StopType'
        BY <3>4, AddressAssumption DEF Reset, Load, AfterReset, Rebased
      <4>2. PlaceType'
        BY <3>4, AddressAssumption DEF Reset, Load, AfterReset, Rebased
      <4>3. CountType'
        <5>1. PICK start \in Address :
                  AfterReset(start) /\ cyclesLeft' = cyclesLeft /\ UNCHANGED <<kind, asked, ran, ranCycles>>
          BY <3>4, AddressAssumption DEF Reset, Load, Rebased
        <5>2. stepLeft' \in Nat
          BY <5>1 DEF AfterReset
        <5>3. cycleLimit' \in BOOLEAN
          BY <5>1 DEF AfterReset
        <5>4. QED
          BY <5>1, <5>2, <5>3
      <4>4. QED
        BY <4>1, <4>2, <4>3 DEF RunType
    <3>5. CASE SetCpu(c) \/ Breakpoint(c) \/ Watchpoint(c)
      <4>1. StopType'
        BY <3>5, <2>1 DEF SetCpu, Breakpoint, Watchpoint, In
      <4>2. PlaceType'
        BY <3>5, <2>1 DEF SetCpu, Breakpoint, Watchpoint, In
      <4>3. CountType'
        BY <3>5, <2>1 DEF SetCpu, Breakpoint, Watchpoint, In
      <4>4. QED
        BY <4>1, <4>2, <4>3 DEF RunType
    <3>6. QED
      BY <2>4, <3>1, <3>2, <3>3, <3>4, <3>5 DEF Body
  <2>5. QED
    BY <1>6, <2>2, <2>3, <2>4 DEF ClientStep
<1>7. CASE UNCHANGED vars
  BY <1>7
<1>8. QED
  BY <1>1, <1>2, <1>3, <1>4, <1>5, <1>6, <1>7 DEF Next

LEMMA TypeInit == Init => TypeOK
<1> SUFFICES ASSUME Init PROVE ControlType /\ RunType
  BY TypeParts
<1>1. ControlType
  BY NoCallIsRequest DEF Init, ControlType, Places, Thread
<1>2. RunType
  BY AddressAssumption DEF Init, RunType, StopType, PlaceType, CountType
<1>3. QED
  BY <1>1, <1>2

\* Every variable of the instance keeps its type, whatever the clients call.
THEOREM HostTypes == Spec => []TypeOK
<1>1. TypeOK /\ [Next]_vars => TypeOK'
  <2> SUFFICES ASSUME TypeOK, [Next]_vars PROVE TypeOK'
    OBVIOUS
  <2>1. ControlType /\ RunType
    BY TypeParts
  <2>2. ControlType' /\ RunType'
    BY <2>1, ControlTypeStep, RunTypeStep
  <2>3. QED
    BY <2>2 DEF TypeOK, ControlType, RunType, StopType, PlaceType, CountType, Places, Request
<1>2. QED
  BY <1>1, TypeInit, PTL DEF Spec

(***************************************************************************)
(* The lock                                                                *)
(***************************************************************************)

Holding == {"loop", "exec", "between", "in", "leaving"}

\* A thread is inside the critical section exactly when it holds the lock, and
\* the simulation thread exists from avr_host_start on.
Locked ==
    /\ \A t \in Thread : at[t] \in Holding <=> lock = t
    /\ threaded <=> at[Sim] # "off"

LEMMA LockedStep ==
    ControlType /\ Locked /\ [Next]_vars => Locked'
<1> SUFFICES ASSUME ControlType, Locked, [Next]_vars PROVE Locked'
  OBVIOUS
<1> USE ThreadAssumption DEF ControlType, Locked, Holding, At, WakesAll, Done, Thread
<1>1. CASE PostState
  BY <1>1 DEF PostState
<1>2. CASE PublishStop
  BY <1>2 DEF PublishStop
<1>3. CASE SimThread
  BY <1>3 DEF SimThread, SimTakesLock, SimExits, SimWaits, SimBatch
<1>4. ASSUME NEW t \in Thread, Exec(t) PROVE Locked'
  <2>1. CASE ExecPaused(t)
    BY <2>1 DEF ExecPaused, Executes, Stops
  <2>2. CASE ExecBreakpoint(t)
    BY <2>2 DEF ExecBreakpoint, Executes, Stops
  <2>3. CASE ExecRuns(t)
    BY <2>3 DEF ExecRuns, Executes
  <2>4. CASE ExecContinues(t)
    BY <2>4 DEF ExecContinues
  <2>5. CASE ExecEnds(t)
    BY <2>5 DEF ExecEnds
  <2>6. QED
    BY <1>4, <2>1, <2>2, <2>3, <2>4, <2>5 DEF Exec
<1>5. ASSUME NEW t \in Thread, SpuriousWake(t) PROVE Locked'
  BY <1>5 DEF SpuriousWake
<1>6. ASSUME NEW c \in Client, ClientStep(c) PROVE Locked'
  <2>1. CASE Enter(c) \/ TakesLock(c)
    BY <2>1 DEF Enter, TakesLock
  <2>2. CASE Body(c)
    <3>1. CASE Returns(c) \/ Start(c) \/ Free(c)
      BY <3>1 DEF Returns, Start, Free, In
    <3>2. CASE Resume(c) \/ Step(c) \/ RunCycles(c)
      BY <3>2 DEF Resume, Step, RunCycles, Go, In
    <3>3. CASE Reset(c) \/ Load(c) \/ SetCpu(c) \/ Breakpoint(c) \/ Watchpoint(c)
      BY <3>3 DEF Reset, Load, SetCpu, Breakpoint, Watchpoint, In
    <3>4. QED
      BY <2>2, <3>1, <3>2, <3>3 DEF Body
  <2>3. CASE Leaves(c)
    BY <2>3 DEF Leaves
  <2>4. CASE Joins(c) \/ Pause(c) \/ WaitStopped(c) \/ WaitTimesOut(c)
    BY <2>4 DEF Joins, Pause, WaitStopped, WaitTimesOut
  <2>5. QED
    BY <1>6, <2>1, <2>2, <2>3, <2>4 DEF ClientStep
<1>7. CASE UNCHANGED vars
  BY <1>7
<1>8. QED
  BY <1>1, <1>2, <1>3, <1>4, <1>5, <1>6, <1>7 DEF Next

(***************************************************************************)
(* Stops                                                                   *)
(***************************************************************************)

\* A stop is told by the thread that made it, before it gives the lock away:
\* the event first, the mirror last.
Stopped ==
    /\ stopping # "no" => mode # "running" /\ \E t \in Thread : lock = t /\ at[t] \in {"between", "leaving"}
    /\ stopping = "no" => (running <=> mode = "running")
    /\ owed => stopping = "post" /\ running
    /\ (stopping # "post" /\ mode # "running") => posted \in {mode, "none"}

\* A thread that is at a place of Holding, but not at one where a stop is told,
\* is not in the middle of one.
LEMMA NotTelling ==
    ASSUME Locked, Stopped, NEW t \in Thread, at[t] \in {"loop", "exec", "in"} PROVE stopping = "no"
BY DEF Locked, Stopped, Holding

LEMMA FreeIsToldOf ==
    ASSUME Stopped, lock = None PROVE stopping = "no"
BY ThreadAssumption DEF Stopped, Thread

LEMMA StoppedStep ==
    ControlType /\ RunType /\ Locked /\ Stopped /\ [Next]_vars => Stopped'
<1> SUFFICES ASSUME ControlType, RunType, Locked, Stopped, [Next]_vars PROVE Stopped'
  OBVIOUS
<1>1. CASE PostState
  BY <1>1 DEF PostState, Stopped
<1>2. CASE PublishStop
  BY <1>2 DEF PublishStop, Stopped
<1>3. CASE SimThread
  <2>1. stopping = "no"
    BY <1>3, NotTelling, FreeIsToldOf DEF SimThread, SimTakesLock, SimExits, SimWaits, SimBatch, At, Thread
  <2>2. QED
    BY <1>3, <2>1 DEF SimThread, SimTakesLock, SimExits, SimWaits, SimBatch, Stopped
<1>4. ASSUME NEW t \in Thread, Exec(t) PROVE Stopped'
  <2>1. ASSUME NEW m \in {"paused", "done", "crashed"}, Executes(t), SetMode(m),
               owed' = TRUE, at' = [at EXCEPT ![t] = "between"], UNCHANGED <<lock, posted>>
        PROVE  Stopped'
    BY <2>1 DEF Executes, SetMode, Stopped, ControlType
  <2>2. CASE ExecPaused(t)
    BY <2>2, <2>1 DEF ExecPaused, Stops
  <2>3. CASE ExecBreakpoint(t)
    BY <2>3, <2>1 DEF ExecBreakpoint, Stops
  <2>4. CASE ExecRuns(t)
    <3>1. PICK hit \in {FALSE, watched} :
             IF hit \/ cpu' \in {"done", "crashed"} \/ LimitReached
             THEN /\ SetMode(IF ~hit /\ cpu' \in {"done", "crashed"} THEN cpu' ELSE "paused")
                  /\ owed' = TRUE
             ELSE /\ stepLeft' = Steps
                  /\ UNCHANGED <<mode, cycleLimit, resumeValid, resumePc, stopping, running, owed>>
      BY <2>4 DEF ExecRuns
    <3>2. CASE hit \/ cpu' \in {"done", "crashed"} \/ LimitReached
      BY <3>1, <3>2, <2>1, <2>4 DEF ExecRuns
    <3>3. CASE ~(hit \/ cpu' \in {"done", "crashed"} \/ LimitReached)
      BY <3>1, <3>3, <2>4 DEF ExecRuns, Executes, Stopped
    <3>4. QED
      BY <3>2, <3>3
  <2>5. CASE ExecContinues(t) \/ ExecEnds(t)
    BY <2>5 DEF ExecContinues, ExecEnds, Stopped
  <2>6. QED
    BY <1>4, <2>2, <2>3, <2>4, <2>5 DEF Exec
<1>5. ASSUME NEW t \in Thread, SpuriousWake(t) PROVE Stopped'
  BY <1>5 DEF SpuriousWake, Stopped, At, ControlType
<1>6. ASSUME NEW c \in Client, ClientStep(c) PROVE Stopped'
  <2>1. CASE Enter(c) \/ TakesLock(c)
    BY <2>1, FreeIsToldOf DEF Enter, TakesLock, Stopped, At, ControlType
  <2>2. CASE Body(c)
    <3>1. at[c] = "in" /\ stopping = "no"
      BY <2>2, NotTelling DEF Body, Returns, Start, Free, Resume, Step, RunCycles, Reset, Load,
         SetCpu, Breakpoint, Watchpoint, In, Thread
    <3>2. CASE Returns(c) \/ Start(c) \/ Free(c) \/ SetCpu(c) \/ Breakpoint(c) \/ Watchpoint(c)
      BY <3>1, <3>2 DEF Returns, Start, Free, SetCpu, Breakpoint, Watchpoint, Stopped
    <3>3. CASE Resume(c) \/ Step(c) \/ RunCycles(c)
      BY <3>1, <3>3 DEF Resume, Step, RunCycles, Go, Stopped
    <3>4. CASE Reset(c) \/ Load(c)
      <4>1. PICK start \in Address : AfterReset(start) /\ Done(c) /\ UNCHANGED <<lock, posted>>
        BY <3>4, AddressAssumption DEF Reset, Load
      <4>2. lock = c /\ at'[c] = "leaving"
        BY <3>1, <4>1 DEF Locked, Holding, Thread, Done, ControlType
      <4>3. QED
        BY <3>1, <4>1, <4>2 DEF AfterReset, Stopped, Thread
    <3>5. QED
      BY <2>2, <3>2, <3>3, <3>4 DEF Body
  <2>3. CASE Leaves(c)
    BY <2>3 DEF Leaves, Stopped
  <2>4. CASE Joins(c) \/ Pause(c) \/ WaitStopped(c) \/ WaitTimesOut(c)
    BY <2>4 DEF Joins, Pause, WaitStopped, WaitTimesOut, Stopped, At, ControlType
  <2>5. QED
    BY <1>6, <2>1, <2>2, <2>3, <2>4 DEF ClientStep
<1>7. CASE UNCHANGED vars
  BY <1>7 DEF Stopped
<1>8. QED
  BY <1>1, <1>2, <1>3, <1>4, <1>5, <1>6, <1>7 DEF Next

(***************************************************************************)
(* The invariants of the instance as a whole                               *)
(***************************************************************************)

HostInv == ControlType /\ RunType /\ Locked /\ Stopped

LEMMA HostInvHolds == Spec => []HostInv
<1>1. Init => HostInv
  <2> SUFFICES ASSUME Init PROVE HostInv
    OBVIOUS
  <2>1. ControlType /\ RunType
    BY TypeInit, TypeParts
  <2>2. Locked
    BY ThreadAssumption DEF Init, Locked, Holding, Thread
  <2>3. Stopped
    BY DEF Init, Stopped
  <2>4. QED
    BY <2>1, <2>2, <2>3 DEF HostInv
<1>2. HostInv /\ [Next]_vars => HostInv'
  BY ControlTypeStep, RunTypeStep, LockedStep, StoppedStep DEF HostInv
<1>3. QED
  BY <1>1, <1>2, PTL DEF Spec

\* Whoever reads the mirror and finds the run over finds its STATE event queued:
\* the event is owed only while the mirror still says running (host_set_mode).
THEOREM EventsBeforeReturns == Spec => []EventBeforeReturn
<1>1. HostInv => EventBeforeReturn
  BY DEF HostInv, Stopped, EventBeforeReturn
<1>2. QED
  BY <1>1, HostInvHolds, PTL

\* With the lock free the last STATE event tells of the stop the instance is in
\* (host_set_mode, host_after_reset, host_unlock).
THEOREM StopsArePosted == Spec => []StopIsPosted
<1>1. HostInv => StopIsPosted
  BY FreeIsToldOf DEF HostInv, Stopped, StopIsPosted
<1>2. QED
  BY <1>1, HostInvHolds, PTL

(***************************************************************************)
(* Limits                                                                  *)
(***************************************************************************)

\* What the calls leave alone.
LEMMA OthersKeepLimits ==
    ASSUME \/ PostState \/ PublishStop \/ SimThread
           \/ \E t \in Thread : ExecContinues(t) \/ ExecEnds(t) \/ SpuriousWake(t)
           \/ \E c \in Client : \/ Enter(c) \/ TakesLock(c) \/ Leaves(c) \/ Joins(c) \/ Pause(c)
                               \/ WaitStopped(c) \/ WaitTimesOut(c) \/ Returns(c) \/ Start(c)
                               \/ Free(c) \/ Breakpoint(c) \/ Watchpoint(c)
           \/ UNCHANGED vars
    PROVE  UNCHANGED <<mode, limits, resume, mcu, kind, asked, ran, ranCycles>>
BY DEF PostState, PublishStop, SimThread, SimTakesLock, SimExits, SimWaits, SimBatch, ExecContinues,
   ExecEnds, SpuriousWake, Enter, TakesLock, Leaves, Joins, Pause, WaitStopped, WaitTimesOut,
   Returns, Start, Free, Breakpoint, Watchpoint

\* The steps that move the run, each with what it does to the limits.
LEMMA StepKinds ==
    ASSUME [Next]_vars
    PROVE  \/ UNCHANGED <<mode, limits, resume, mcu, kind, asked, ran, ranCycles>>
           \/ \E t \in Thread : ExecPaused(t) \/ ExecBreakpoint(t) \/ ExecRuns(t)
           \/ \E c \in Client : \/ Resume(c) \/ Step(c) \/ RunCycles(c) \/ Reset(c) \/ Load(c)
                               \/ SetCpu(c)
<1>1. CASE UNCHANGED vars
  BY <1>1, OthersKeepLimits
<1>2. CASE PostState \/ PublishStop \/ SimThread
  BY <1>2, OthersKeepLimits
<1>3. ASSUME NEW t \in Thread, Exec(t) \/ SpuriousWake(t)
      PROVE  \/ UNCHANGED <<mode, limits, resume, mcu, kind, asked, ran, ranCycles>>
             \/ ExecPaused(t) \/ ExecBreakpoint(t) \/ ExecRuns(t)
  BY <1>3, OthersKeepLimits DEF Exec
<1>4. ASSUME NEW c \in Client, ClientStep(c)
      PROVE  \/ UNCHANGED <<mode, limits, resume, mcu, kind, asked, ran, ranCycles>>
             \/ Resume(c) \/ Step(c) \/ RunCycles(c) \/ Reset(c) \/ Load(c) \/ SetCpu(c)
  BY <1>4, OthersKeepLimits DEF ClientStep, Body
<1>5. QED
  BY <1>1, <1>2, <1>3, <1>4 DEF Next

LEMMA LimitsStep ==
    RunType /\ LimitsEndWithRun /\ [Next]_vars => LimitsEndWithRun'
<1> SUFFICES ASSUME RunType, LimitsEndWithRun, [Next]_vars PROVE LimitsEndWithRun'
  OBVIOUS
<1>1. CASE UNCHANGED <<mode, limits, resume, mcu, kind, asked, ran, ranCycles>>
  BY <1>1 DEF LimitsEndWithRun
<1>2. ASSUME NEW t \in Thread, ExecPaused(t) \/ ExecBreakpoint(t) PROVE LimitsEndWithRun'
  BY <1>2 DEF ExecPaused, ExecBreakpoint, Stops, SetMode, LimitsEndWithRun
<1>3. ASSUME NEW t \in Thread, ExecRuns(t) PROVE LimitsEndWithRun'
  <2>1. UNCHANGED kind /\ mode = "running"
    BY <1>3 DEF ExecRuns, Executes
  <2>2. CASE /\ stepLeft' = Steps
             /\ UNCHANGED <<mode, cycleLimit, resumeValid, resumePc, stopping, running, owed>>
    BY <2>1, <2>2 DEF Steps, LimitsEndWithRun
  <2>3. ASSUME NEW hit \in {FALSE, watched},
               SetMode(IF ~hit /\ cpu' \in {"done", "crashed"} THEN cpu' ELSE "paused")
        PROVE  LimitsEndWithRun'
    BY <2>3 DEF SetMode, LimitsEndWithRun
  <2>4. QED
    BY <1>3, <2>2, <2>3 DEF ExecRuns
<1>4. ASSUME NEW c \in Client, Resume(c) \/ Step(c) \/ RunCycles(c) PROVE LimitsEndWithRun'
  <2>1. mode = "paused" /\ stepLeft = 0 /\ ~cycleLimit /\ mode' = "running" /\ kind' = call[c].op
    BY <1>4 DEF Resume, Step, RunCycles, Go, LimitsEndWithRun
  <2>2. CASE Resume(c)
    BY <2>1, <2>2 DEF Resume, In, LimitsEndWithRun
  <2>3. CASE Step(c)
    BY <2>1, <2>3 DEF Step, In, LimitsEndWithRun
  <2>4. CASE RunCycles(c)
    BY <2>1, <2>4 DEF RunCycles, In, LimitsEndWithRun
  <2>5. QED
    BY <1>4, <2>2, <2>3, <2>4
<1>5. ASSUME NEW c \in Client, Reset(c) \/ Load(c) PROVE LimitsEndWithRun'
  <2>1. PICK start \in Address : AfterReset(start) /\ UNCHANGED kind
    BY <1>5, AddressAssumption DEF Reset, Load
  <2>2. QED
    BY <2>1 DEF AfterReset, LimitsEndWithRun, RunType, StopType
<1>6. ASSUME NEW c \in Client, SetCpu(c) PROVE LimitsEndWithRun'
  BY <1>6 DEF SetCpu, LimitsEndWithRun
<1>7. QED
  BY <1>1, <1>2, <1>3, <1>4, <1>5, <1>6, StepKinds

\* A count that is left of a run never cuts a later one short: no limit stands
\* while nothing runs, and a run has no limit but its own (host_set_mode,
\* host_go).
THEOREM LimitsEnd == Spec => []LimitsEndWithRun
<1>1. Init => LimitsEndWithRun
  BY DEF Init, LimitsEndWithRun
<1>2. RunType /\ LimitsEndWithRun /\ [Next]_vars => LimitsEndWithRun'
  BY LimitsStep
<1>3. HostInv => RunType
  BY DEF HostInv
<1>4. QED
  BY <1>1, <1>2, <1>3, HostInvHolds, PTL DEF Spec

(***************************************************************************)
(* Counts                                                                  *)
(***************************************************************************)

\* A run with a limit has something left of it, and what is left and what has
\* run make up what was asked for.
Counting ==
    mode = "running" =>
        /\ kind = "step" => stepLeft > 0 /\ ran + stepLeft = asked /\ asked <= HistoryBound
        /\ kind = "run_cycles" =>
             cyclesLeft > 0 /\ ranCycles + cyclesLeft = asked /\ asked <= HistoryBound

\* The history is not cut off below its bound.
LEMMA CountedIsExact ==
    ASSUME NEW n \in Nat, n <= HistoryBound PROVE Counted(n) = n
BY AddressAssumption DEF Counted

LEMMA CountingStep ==
    ASSUME Elapsed = {}, \A n \in Counts : n <= HistoryBound
    PROVE  ControlType /\ RunType /\ LimitsEndWithRun /\ Counting /\ [Next]_vars => Counting'
<1> SUFFICES ASSUME ControlType, RunType, LimitsEndWithRun, Counting, [Next]_vars PROVE Counting'
  OBVIOUS
<1>1. CASE UNCHANGED <<mode, limits, resume, mcu, kind, asked, ran, ranCycles>>
  BY <1>1 DEF Counting
<1>2. ASSUME NEW t \in Thread, ExecPaused(t) \/ ExecBreakpoint(t) PROVE Counting'
  BY <1>2 DEF ExecPaused, ExecBreakpoint, Stops, SetMode, Counting
<1>3. ASSUME NEW t \in Thread, ExecRuns(t) PROVE Counting'
  <2>1. UNCHANGED <<kind, asked>> /\ mode = "running" /\ Avr
    BY <1>3 DEF ExecRuns, Executes
  <2>2. ASSUME NEW hit \in {FALSE, watched},
               SetMode(IF ~hit /\ cpu' \in {"done", "crashed"} THEN cpu' ELSE "paused")
        PROVE  Counting'
    BY <2>2 DEF SetMode, Counting
  <2>3. CASE ~LimitReached /\ stepLeft' = Steps /\ UNCHANGED <<mode, cycleLimit>>
    <3>1. CASE kind = "step"
      <4>1. ran' = IF Executed THEN ran + 1 ELSE ran
        <5>1. ran <= HistoryBound /\ (ran + 1 <= HistoryBound) /\ ran \in Nat
          BY <2>1, <3>1, AddressAssumption DEF Counting, RunType, CountType
        <5>2. Counted(ran + 1) = ran + 1 /\ Counted(ran + 0) = ran
          BY <5>1, CountedIsExact
        <5>3. QED
          BY <2>1, <5>2 DEF Avr, AvrRuns, AvrSleeps, AvrResets, AvrStopped, Ran, Executed
      <4>2. QED
        BY <2>1, <2>3, <3>1, <4>1 DEF Counting, Steps, LimitReached, RunType, CountType
    <3>2. CASE kind = "run_cycles"
      <4> SUFFICES cyclesLeft' > 0 /\ ranCycles' + cyclesLeft' = asked
        BY <2>1, <3>2 DEF Counting
      <4>1. cycleLimit /\ cyclesLeft' # 0 /\ cyclesLeft > 0 /\ ranCycles + cyclesLeft = asked
            /\ asked <= HistoryBound
        BY <2>1, <2>3, <3>2 DEF LimitReached, LimitsEndWithRun, Counting
      <4>2. /\ cyclesLeft \in Nat /\ ranCycles \in Nat /\ HistoryBound \in Nat
            /\ SleepCycles \subseteq Nat
        BY AddressAssumption DEF RunType, CountType
      <4>3. CASE AvrRuns
        <5>1. cyclesLeft > 1 /\ cyclesLeft' = cyclesLeft - 1
          BY <4>1, <4>2, <4>3 DEF AvrRuns, Left
        <5>2. ranCycles' = ranCycles + 1
          BY <4>1, <4>2, <4>3, <5>1 DEF AvrRuns, Ran, Counted
        <5>3. QED
          BY <4>1, <4>2, <5>1, <5>2
      <4>4. CASE AvrSleeps
        <5>1. PICK n \in SleepCycles : cyclesLeft' = Left(n) /\ Ran(0, n)
          BY <4>4 DEF AvrSleeps
        <5>2. n \in Nat /\ cyclesLeft > n /\ cyclesLeft' = cyclesLeft - n
          BY <4>1, <4>2, <5>1 DEF Left
        <5>3. ranCycles' = ranCycles + n
          BY <4>1, <4>2, <5>1, <5>2 DEF Ran, Counted
        <5>4. QED
          BY <4>1, <4>2, <5>2, <5>3
      <4>5. CASE AvrResets
        BY <4>5 DEF AvrResets
      <4>6. CASE AvrStopped
        BY <4>6, <4>1, <4>2 DEF AvrStopped
      <4>7. QED
        BY <2>1, <4>3, <4>4, <4>5, <4>6 DEF Avr
    <3>3. CASE kind \notin {"step", "run_cycles"}
      BY <2>1, <3>3 DEF Counting
    <3>4. QED
      BY <3>1, <3>2, <3>3
  <2>4. QED
    BY <1>3, <2>2, <2>3 DEF ExecRuns
<1>4. ASSUME NEW c \in Client, Resume(c) \/ Step(c) \/ RunCycles(c) PROVE Counting'
  <2>1. call[c].op \in {"step", "run_cycles"} => call[c].n \in Counts
    BY RequestArguments DEF ControlType
  <2>2. kind' = call[c].op /\ ran' = 0 /\ ranCycles' = 0
    BY <1>4 DEF Resume, Step, RunCycles, Go
  <2>3. CASE Resume(c)
    BY <2>2, <2>3 DEF Resume, In, Counting
  <2>4. CASE Step(c)
    <3>1. call[c].n \in Counts /\ stepLeft' = call[c].n /\ asked' = call[c].n /\ kind' = "step"
      BY <2>1, <2>2, <2>4 DEF Step, In
    <3>2. stepLeft' \in Nat \ {0} /\ asked' = stepLeft' /\ asked' <= HistoryBound
      BY <3>1, AddressAssumption
    <3>3. QED
      BY <2>2, <3>1, <3>2 DEF Counting
  <2>5. CASE RunCycles(c)
    <3>1. call[c].n \in Counts /\ cyclesLeft' = call[c].n /\ asked' = call[c].n /\ kind' = "run_cycles"
      BY <2>1, <2>2, <2>5 DEF RunCycles, In
    <3>2. cyclesLeft' \in Nat \ {0} /\ asked' = cyclesLeft' /\ asked' <= HistoryBound
      BY <3>1, AddressAssumption
    <3>3. QED
      BY <2>2, <3>1, <3>2 DEF Counting
  <2>6. QED
    BY <1>4, <2>3, <2>4, <2>5
<1>5. ASSUME NEW c \in Client, Reset(c) \/ Load(c) PROVE Counting'
  <2>1. PICK start \in Address : AfterReset(start) /\ UNCHANGED <<kind, asked, ran, ranCycles>>
                                  /\ cyclesLeft' = cyclesLeft
    BY <1>5, AddressAssumption DEF Reset, Load, Rebased
  <2>2. QED
    BY <2>1 DEF AfterReset, Counting
<1>6. ASSUME NEW c \in Client, SetCpu(c) PROVE Counting'
  BY <1>6 DEF SetCpu, Counting
<1>7. QED
  BY <1>1, <1>2, <1>3, <1>4, <1>5, <1>6, StepKinds

\* While firmware does not reset the MCU, which restarts the clock, a run of n
\* instructions or n cycles counts what it does against n, for all counts that
\* the history can follow (host_exec, avr_host_step, avr_host_run_cycles).
THEOREM RunsCount ==
    ASSUME Elapsed = {}, \A n \in Counts : n <= HistoryBound
    PROVE  Spec => []RunCounts
<1> DEFINE Inv == HostInv /\ LimitsEndWithRun
<1>1. Init => Counting
  BY DEF Init, Counting
<1>2. Inv /\ Counting /\ [Next]_vars => Counting'
  BY CountingStep DEF HostInv
<1>3. Counting => RunCounts
  BY DEF Counting, RunCounts
<1>4. Spec => []Inv
  BY HostInvHolds, LimitsEnd, PTL
<1>5. QED
  BY <1>1, <1>2, <1>3, <1>4, PTL DEF Spec

(***************************************************************************)
(* Breakpoints                                                             *)
(***************************************************************************)

\* The exemption is that of the first instruction, at the place of the pause.
Exempt ==
    /\ cpu # "sleeping"
    /\ \A c \in Client : call[c].op # "reset"
    /\ (mode = "running" /\ skipBreak) => ran = 0 /\ pc = resumePc

LEMMA ExemptStep ==
    ASSUME ~MaySleep, "reset" \notin Calls
    PROVE  ControlType /\ RunType /\ Exempt /\ [Next]_vars => Exempt'
<1> SUFFICES ASSUME ControlType, RunType, Exempt, [Next]_vars PROVE Exempt'
  OBVIOUS
<1>1. \A c \in Client : call'[c].op # "reset"
  <2>1. CASE UNCHANGED call
    BY <2>1 DEF Exempt
  <2>2. ASSUME NEW c \in Client, Enter(c) PROVE \A d \in Client : call'[d].op # "reset"
    <3>1. PICK op \in Calls : \E k \in CallsOf(op) : call' = [call EXCEPT ![c] = k]
      BY <2>2 DEF Enter
    <3>2. PICK k \in CallsOf(op) : call' = [call EXCEPT ![c] = k]
      BY <3>1
    <3>3. k.op # "reset"
      BY <3>1, CallsAreRequests
    <3>4. QED
      BY <3>2, <3>3 DEF Exempt, ControlType
  <2>3. ASSUME NEW c \in Client, Leaves(c) PROVE \A d \in Client : call'[d].op # "reset"
    BY <2>3 DEF Leaves, NoCall, Exempt, ControlType
  <2>4. UNCHANGED call \/ \E c \in Client : Enter(c) \/ Leaves(c)
    BY DEF Next, PostState, PublishStop, SimThread, SimTakesLock, SimExits, SimWaits, SimBatch, Exec,
       ExecPaused, ExecBreakpoint, Stops, ExecRuns, ExecContinues, ExecEnds, SpuriousWake, ClientStep,
       TakesLock, Body, Returns, Start, Free, Resume, Step, RunCycles, Go, Reset, Load, SetCpu,
       Breakpoint, Watchpoint, Joins, Pause, WaitStopped, WaitTimesOut
  <2>5. QED
    BY <2>1, <2>2, <2>3, <2>4
<1>2. cpu' # "sleeping" /\ ((mode' = "running" /\ skipBreak') => ran' = 0 /\ pc' = resumePc')
  <2> DEFINE Goal == cpu' # "sleeping" /\ ((mode' = "running" /\ skipBreak') => ran' = 0 /\ pc' = resumePc')
  <2>1. CASE UNCHANGED <<mode, limits, resume, mcu, kind, asked, ran, ranCycles>>
    BY <2>1 DEF Exempt
  <2>2. ASSUME NEW t \in Thread, ExecPaused(t) \/ ExecBreakpoint(t) PROVE Goal
    BY <2>2 DEF ExecPaused, ExecBreakpoint, Stops, SetMode, Exempt
  <2>3. ASSUME NEW t \in Thread, ExecRuns(t) PROVE Goal
    <3>1. cpu' # "sleeping" /\ (~Executed => cpu' \in {"done", "crashed"})
      BY <2>3 DEF ExecRuns, Avr, AvrRuns, AvrSleeps, AvrResets, AvrStopped, Executed, Exempt
    <3>2. mode' # "running" \/ ~skipBreak'
      BY <2>3, <3>1 DEF ExecRuns, SetMode
    <3>3. QED
      BY <3>1, <3>2
  <2>4. ASSUME NEW c \in Client, Resume(c) \/ Step(c) \/ RunCycles(c) PROVE Goal
    BY <2>4 DEF Resume, Step, RunCycles, Go, Skips, Exempt
  <2>5. ASSUME NEW c \in Client, Reset(c) PROVE Goal
    BY <2>5 DEF Reset, In, Exempt
  <2>6. ASSUME NEW c \in Client, Load(c) PROVE Goal
    BY <2>6 DEF Load, AfterReset
  <2>7. ASSUME NEW c \in Client, SetCpu(c) PROVE Goal
    BY <2>7 DEF SetCpu, Exempt
  <2>8. QED
    BY <2>1, <2>2, <2>3, <2>4, <2>5, <2>6, <2>7, StepKinds
<1>3. QED
  BY <1>1, <1>2 DEF Exempt

\* Without sleep, and without a host reset while the MCU runs (which the run
\* Host_breakreset is about), no instruction executes at a breakpoint but the
\* one the paused instance resumes from (host_exec, host_go, avr_host_set_pc).
THEOREM BreakpointsHit ==
    ASSUME ~MaySleep, "reset" \notin Calls
    PROVE  Spec => BreaksHit
<1> DEFINE A == (ran' # ran /\ ran' > 0 /\ pc \in breaks) => (ran = 0 /\ pc = resumePc)
<1>1. Init => Exempt
  BY DEF Init, Exempt, NoCall
<1>2. HostInv /\ Exempt /\ [Next]_vars => Exempt'
  BY ExemptStep DEF HostInv
<1>3. HostInv /\ Exempt /\ [Next]_vars => [A]_vars
  <2> SUFFICES ASSUME HostInv, Exempt, [Next]_vars, ran' # ran, ran' > 0, pc \in breaks
               PROVE  ran = 0 /\ pc = resumePc
    OBVIOUS
  <2>1. ASSUME NEW t \in Thread, ExecRuns(t) PROVE ran = 0 /\ pc = resumePc
    <3>1. cpu = "running"
      BY <2>1 DEF ExecRuns, Avr, AvrRuns, AvrSleeps, AvrResets, AvrStopped, Exempt
    <3>2. QED
      BY <2>1, <3>1 DEF ExecRuns, Executes, AtBreak, Exempt
  <2>2. ASSUME NEW t \in Thread, ExecPaused(t) \/ ExecBreakpoint(t) PROVE FALSE
    BY <2>2 DEF ExecPaused, ExecBreakpoint
  <2>3. ASSUME NEW c \in Client, Resume(c) \/ Step(c) \/ RunCycles(c) PROVE FALSE
    BY <2>3 DEF Resume, Step, RunCycles, Go
  <2>4. ASSUME NEW c \in Client, Reset(c) \/ Load(c) \/ SetCpu(c) PROVE FALSE
    BY <2>4 DEF Reset, Load, SetCpu
  <2>5. QED
    BY <2>1, <2>2, <2>3, <2>4, StepKinds
<1>4. QED
  BY <1>1, <1>2, <1>3, HostInvHolds, PTL DEF Spec, BreaksHit

=============================================================================
