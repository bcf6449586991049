----------------------------- MODULE HostEvents -----------------------------
(***************************************************************************)
(* Events of the embedding API (sim_host.c): pin subscriptions with a      *)
(* coalescing window, the bounded event queue, and the pipe that makes it  *)
(* pollable.                                                               *)
(*                                                                         *)
(* The holder of the instance lock decides what to push (todo) and then    *)
(* pushes one event at a time, each under ev_lock; the reader polls in     *)
(* between.                                                                *)
(***************************************************************************)
EXTENDS Integers, Sequences, FiniteSets, SequencesExt

CONSTANTS
    Sub,          \* subscriptions; each is made at most once
    Pin,
    PinOf,        \* the pin of a subscription
    Window,       \* its coalescing window in cycles
    QueueSize,    \* HOST_EVQ_SIZE
    PipeSize,     \* the bytes the pipe holds; writes do not block
    PollSizes,    \* how many events the reader has room for
    Modulus,      \* what the history counts pushed events by
    CycleModulus, \* the width of the cycle counter
    MaxCycle,     \* bound: the clock stops here
    MaxDropped    \* bound: no event is pushed when so many are dropped

ASSUME SubAssumption ==
    /\ IsFiniteSet(Sub) /\ Sub \cap {"state", "none"} = {}
    /\ PinOf \in [Sub -> Pin] /\ Window \in [Sub -> Nat]
    /\ QueueSize \in Nat \ {0} /\ PipeSize \in Nat \ {0} /\ PollSizes \subseteq Nat \ {0}
    /\ Modulus \in Nat \ {0} /\ MaxCycle \in Nat /\ MaxDropped \in Nat
    /\ CycleModulus \in Nat /\ CycleModulus > 4 * MaxCycle
    /\ \A s \in Sub : Window[s] <= MaxCycle

VARIABLES
    cycle,    \* avr->cycle
    mode,     \* "running" or "stopped"
    level,    \* the level of each pin
    active,   \* the subscriptions in force
    past,     \* history: those that were cancelled
    pending, pendingValue, pendingCycle, lastEmit, \* the fields of host_sub_t
    todo,     \* the events the holder of the lock is about to push
    evq, evHead, evCount, evDropped,               \* the event queue
    pipe,     \* the bytes in the pipe
    shown,    \* history: the value of each subscription its reader knows
    stale,    \* history: the last value pushed was dropped
    driven,   \* history: the pins the host drove since the instance stopped
    offered   \* history: how many events were pushed, modulo Modulus

subs == <<active, past, pending, pendingValue, pendingCycle, lastEmit>>
queue == <<evq, evHead, evCount, evDropped, pipe>>
history == <<shown, stale, driven, offered>>
vars == <<cycle, mode, level, subs, todo, queue, history>>

None == [sub |-> "none"]
PinEvent(s, v) == [sub |-> s, value |-> v]
State(m) == [sub |-> "state", value |-> m]

Init ==
    /\ cycle = 0 /\ mode = "stopped" /\ level = [p \in Pin |-> 0]
    /\ active = {} /\ past = {}
    /\ pending = [s \in Sub |-> FALSE] /\ pendingValue = [s \in Sub |-> 0]
    /\ pendingCycle = [s \in Sub |-> 0] /\ lastEmit = [s \in Sub |-> 0]
    /\ todo = << >>
    /\ evq = [i \in 0 .. QueueSize - 1 |-> None]
    /\ evHead = 0 /\ evCount = 0 /\ evDropped = 0 /\ pipe = 0
    /\ shown = [s \in Sub |-> 0] /\ stale = [s \in Sub |-> FALSE]
    /\ driven = {} /\ offered = 0

-----------------------------------------------------------------------------
(* Subscriptions *)

Idle == todo = << >>

\* Unsigned arithmetic on avr->cycle.
Since(c) == (cycle - c) % CycleModulus

\* Inside the window of the last event: the value is kept for later.
Coalesced(s) == Window[s] # 0 /\ Since(lastEmit[s]) < Window[s]

Ordered(S) == SetToSeq(S)

\* Mutant: an event that is pushed at once leaves the older value pending.
NotifyKeepsPending(p, v) ==
    LET S == {s \in active : PinOf[s] = p}
        Kept == {s \in S : Coalesced(s)}
    IN  /\ pending' = [s \in Sub |-> s \in Kept \/ pending[s]]
        /\ pendingValue' = [s \in Sub |-> IF s \in Kept THEN v ELSE pendingValue[s]]
        /\ pendingCycle' = [s \in Sub |-> IF s \in Kept THEN cycle ELSE pendingCycle[s]]
        /\ lastEmit' = [s \in Sub |-> IF s \in S \ Kept THEN cycle ELSE lastEmit[s]]
        /\ LET q == Ordered(S \ Kept)
           IN  todo' = [i \in 1 .. Len(q) |-> PinEvent(q[i], v)]

\* host_sub_notify for every subscription of a pin.
Notify(p, v) ==
    LET S == {s \in active : PinOf[s] = p}
        Kept == {s \in S : Coalesced(s)}
    IN  /\ pending' = [s \in Sub |-> s \in Kept \/ (s \notin S /\ pending[s])]
        /\ pendingValue' = [s \in Sub |-> IF s \in Kept THEN v ELSE pendingValue[s]]
        /\ pendingCycle' = [s \in Sub |-> IF s \in Kept THEN cycle ELSE pendingCycle[s]]
        /\ lastEmit' = [s \in Sub |-> IF s \in S \ Kept THEN cycle ELSE lastEmit[s]]
        /\ LET q == Ordered(S \ Kept)
           IN  todo' = [i \in 1 .. Len(q) |-> PinEvent(q[i], v)]

\* A pin changes, or is raised again at its level, by firmware or the host.
Drive(p, v) ==
    /\ Idle
    /\ driven' = IF mode = "stopped" THEN driven \cup {p} ELSE driven
    /\ level' = [level EXCEPT ![p] = v]
    /\ Notify(p, v)
    /\ UNCHANGED <<cycle, mode, active, past, queue, shown, stale, offered>>

\* host_flush_coalesced: the values whose window is over, or all of them;
\* the events in "then" follow.
Flush(force, then) ==
    LET S == {s \in active : pending[s] /\ (force \/ Since(lastEmit[s]) >= Window[s])}
        q == Ordered(S)
    IN  /\ pending' = [s \in Sub |-> pending[s] /\ s \notin S]
        /\ lastEmit' = [s \in Sub |-> IF s \in S THEN pendingCycle[s] ELSE lastEmit[s]]
        /\ todo' = [i \in 1 .. Len(q) |-> PinEvent(q[i], pendingValue[q[i]])] \o then
        /\ UNCHANGED <<active, past, pendingValue, pendingCycle>>

\* The end of host_exec.
BatchEnds ==
    /\ Idle /\ mode = "running"
    /\ Flush(FALSE, << >>)
    /\ UNCHANGED <<cycle, mode, level, queue, history>>

\* Mutant: the STATE event is pushed and the pins are left to the next batch.
StopUnforced ==
    /\ Idle /\ mode = "running"
    /\ mode' = "stopped"
    /\ Flush(FALSE, <<State("stopped")>>)
    /\ UNCHANGED <<cycle, level, queue, history>>

\* host_set_mode: "pin values first".
Stop ==
    /\ Idle /\ mode = "running"
    /\ mode' = "stopped"
    /\ Flush(TRUE, <<State("stopped")>>)
    /\ UNCHANGED <<cycle, level, queue, history>>

Resume ==
    /\ Idle /\ mode = "stopped"
    /\ mode' = "running"
    /\ todo' = <<State("running")>> /\ driven' = {}
    /\ UNCHANGED <<cycle, level, subs, queue, shown, stale, offered>>

Tick ==
    /\ Idle /\ mode = "running" /\ cycle < MaxCycle
    /\ cycle' = cycle + 1
    /\ UNCHANGED <<mode, level, subs, todo, queue, history>>

\* avr_reset restarts the clock; subscriptions keep their cycles.
Reset ==
    /\ Idle
    /\ cycle' = 0
    /\ UNCHANGED <<mode, level, subs, todo, queue, history>>

\* "first change emits at once".  The reader asks for the level as it is.
Subscribe(s) ==
    /\ Idle /\ s \notin active \cup past
    /\ active' = active \cup {s}
    /\ lastEmit' = [lastEmit EXCEPT ![s] = (cycle - Window[s]) % CycleModulus]
    /\ shown' = [shown EXCEPT ![s] = level[PinOf[s]]]
    /\ UNCHANGED <<cycle, mode, level, past, pending, pendingValue, pendingCycle,
                   todo, queue, stale, driven, offered>>

\* The value it kept for later is gone with it.
Unsubscribe(s) ==
    /\ Idle /\ s \in active
    /\ active' = active \ {s} /\ past' = past \cup {s}
    /\ pending' = [pending EXCEPT ![s] = FALSE]
    /\ UNCHANGED <<cycle, mode, level, pendingValue, pendingCycle, lastEmit, todo,
                   queue, history>>

-----------------------------------------------------------------------------
(* The queue *)

\* Mutant: a full queue is written as well.
PushUnchecked ==
    /\ todo # << >> /\ evDropped <= MaxDropped
    /\ todo' = Tail(todo)
    /\ offered' = (offered + 1) % Modulus
    /\ evq' = [evq EXCEPT ![(evHead + evCount) % QueueSize] = Head(todo)]
    /\ evCount' = evCount + 1
    /\ pipe' = IF evCount = 0 /\ pipe < PipeSize THEN pipe + 1 ELSE pipe
    /\ stale' = [s \in Sub |-> s # Head(todo).sub /\ stale[s]]
    /\ UNCHANGED <<cycle, mode, level, subs, evHead, evDropped, shown, driven>>

\* host_push: a full queue drops the event.  The pipe gets a byte when the
\* queue was empty; a full pipe reads as pending already.
Push ==
    /\ todo # << >> /\ evDropped <= MaxDropped
    /\ todo' = Tail(todo)
    /\ offered' = (offered + 1) % Modulus
    /\ IF evCount = QueueSize
       THEN evDropped' = evDropped + 1 /\ UNCHANGED <<evq, evCount, pipe>>
       ELSE /\ evq' = [evq EXCEPT ![(evHead + evCount) % QueueSize] = Head(todo)]
            /\ evCount' = evCount + 1
            /\ pipe' = IF evCount = 0 /\ pipe < PipeSize THEN pipe + 1 ELSE pipe
            /\ UNCHANGED evDropped
    /\ stale' = [s \in Sub |-> IF s = Head(todo).sub THEN evCount = QueueSize ELSE stale[s]]
    /\ UNCHANGED <<cycle, mode, level, subs, evHead, shown, driven>>

Queued == [i \in 1 .. evCount |-> evq[(evHead + i - 1) % QueueSize]]

\* The last value of s in a sequence of events, or v.
LastOf(s, q, v) ==
    LET I == {i \in 1 .. Len(q) : q[i].sub = s}
    IN  IF I = {} THEN v ELSE q[CHOOSE i \in I : \A j \in I : j <= i].value

\* Mutant: the pipe is drained whenever the queue is empty.
DrainedWhenEmpty == evCount' = 0

\* The pipe is drained when there is nothing left to report.
Drained == evCount' = 0 /\ evDropped' = 0

\* Mutant: the drop count is reported with the first room in the buffer.
ReportedAlways(n, max) == evDropped > 0

\* An overflow report fills a place in the buffer behind the events.
Reported(n, max) == evDropped > 0 /\ n < max

\* avr_host_poll_events
Poll(max) ==
    LET n == IF evCount < max THEN evCount ELSE max
        taken == SubSeq(Queued, 1, n)
    IN  /\ evHead' = (evHead + n) % QueueSize
        /\ evCount' = evCount - n
        /\ evDropped' = IF Reported(n, max) THEN 0 ELSE evDropped
        /\ pipe' = IF Drained THEN 0 ELSE pipe
        /\ shown' = [s \in Sub |-> LastOf(s, taken, shown[s])]
        /\ UNCHANGED <<cycle, mode, level, subs, todo, evq, stale, driven, offered>>

Simulates ==
    \/ \E p \in Pin, v \in {0, 1} : Drive(p, v)
    \/ BatchEnds \/ Stop \/ Tick \/ Push

HostCalls == Resume \/ Reset \/ \E s \in Sub : Subscribe(s) \/ Unsubscribe(s)

Next == Simulates \/ HostCalls \/ \E max \in PollSizes : Poll(max)

Spec == Init /\ [][Next]_vars

-----------------------------------------------------------------------------
(* Properties *)

Events == {PinEvent(s, v) : s \in Sub, v \in {0, 1}}
          \cup {State(m) : m \in {"running", "stopped"}}

TypeOK ==
    /\ cycle \in 0 .. MaxCycle /\ mode \in {"running", "stopped"}
    /\ level \in [Pin -> {0, 1}]
    /\ active \subseteq Sub /\ past \subseteq Sub \ active
    /\ pending \in [Sub -> BOOLEAN] /\ pendingValue \in [Sub -> {0, 1}]
    /\ pendingCycle \in [Sub -> 0 .. MaxCycle]
    /\ lastEmit \in [Sub -> 0 .. CycleModulus - 1]
    /\ todo \in Seq(Events)
    /\ evq \in [0 .. QueueSize - 1 -> Events \cup {None}]
    /\ evHead \in 0 .. QueueSize - 1 /\ evCount \in 0 .. QueueSize
    /\ evDropped \in Nat /\ pipe \in 0 .. PipeSize
    /\ shown \in [Sub -> {0, 1}] /\ stale \in [Sub -> BOOLEAN]
    /\ driven \subseteq Pin /\ offered \in 0 .. Modulus - 1

\* The descriptor is readable exactly while a poll would return something,
\* so that a reader in select() neither spins nor misses an event.
ReadableIffPollable == (pipe > 0) <=> (evCount > 0 \/ evDropped > 0)

\* However a pin moves, the last value that was pushed or kept for a
\* subscription is the level of its pin, unless the queue dropped it.
LastValueWins ==
    \A s \in active :
        IF pending[s] THEN pendingValue[s] = level[PinOf[s]]
        ELSE LastOf(s, Queued \o todo, shown[s]) = level[PinOf[s]]
             \/ stale[s]

\* A reader that has seen the STATE event of a stop knows the final level of
\* every pin it subscribed to, unless the queue dropped it.  What the host
\* drives while the instance is stopped may stay behind: it is coalesced too,
\* and the clock stands.
StopShowsPins ==
    (mode = "stopped" /\ evCount = 0 /\ todo = << >>) =>
        \A s \in active : \/ stale[s] \/ PinOf[s] \in driven
                          \/ shown[s] = level[PinOf[s]]

\* The queue of the reader's events is a first-in first-out one that counts
\* what it loses.
Reader == INSTANCE LossyQueue WITH
    Capacity <- QueueSize, queue <- Queued, lost <- evDropped

ImplementsLossyQueue == Reader!Spec

=============================================================================
