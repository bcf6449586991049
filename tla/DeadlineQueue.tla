--------------------------- MODULE DeadlineQueue ---------------------------
(***************************************************************************)
(* What the cycle timers promise to the peripherals (the comment at the    *)
(* head of sim_cycle_timers.h): one-shot callbacks, each pending at most   *)
(* once, called in the order of their deadlines, never early and never     *)
(* more than MaxLate cycles late.  There are no lists, slots or budgets    *)
(* here: CycleTimers implements this module.                               *)
(***************************************************************************)
EXTENDS Integers, FiniteSets

CONSTANTS
    Timer,      \* the identities of the timers
    None,       \* not pending; no callback running
    Capacity,   \* how many timers may be pending or running
    MaxLate     \* the promised lateness

VARIABLES
    deadline,   \* the deadline of every pending timer, or None
    now,        \* the clock
    called      \* the timer whose callback runs, or None

Pending == {t \in Timer : deadline[t] # None}

Used == Cardinality(Pending) + (IF called = None THEN 0 ELSE 1)

Init == /\ deadline = [t \in Timer |-> None]
        /\ now = 0
        /\ called = None

\* t, and no other timer, gets a deadline, at w or later.
Set(t, w) == /\ deadline' = [deadline EXCEPT ![t] = deadline'[t]]
             /\ deadline'[t] \in Nat
             /\ deadline'[t] >= w

\* Arming a timer replaces its deadline; a new one needs room.
Arm(t) == /\ t \in Pending \/ Used < Capacity
          /\ Set(t, now)
          /\ UNCHANGED <<now, called>>

\* Disarming also forgets a deadline that has passed.
Disarm(t) == /\ deadline' = [deadline EXCEPT ![t] = None]
             /\ UNCHANGED <<now, called>>

\* Time passes between callbacks, and never far past a pending deadline.
Advance == /\ called = None
           /\ now' \in Nat /\ now' > now
           /\ \A t \in Pending : now' <= deadline[t] + MaxLate
           /\ UNCHANGED <<deadline, called>>

\* The earliest deadline is served first.
Call(t) == /\ called = None
           /\ t \in Pending
           /\ deadline[t] <= now
           /\ \A u \in Pending : deadline[t] <= deadline[u]
           /\ called' = t
           /\ deadline' = [deadline EXCEPT ![t] = None]
           /\ UNCHANGED now

\* A callback returns.  A deadline it returns counts only if it lies ahead;
\* re-arming needs room for one timer more than the one that returns.
Return == /\ called # None
          /\ called' = None
          /\ \/ UNCHANGED deadline
             \/ /\ Used < Capacity
                /\ called \notin Pending
                /\ Set(called, now + 1)
          /\ UNCHANGED now

\* A reset forgets everything; at most one timer is armed again.
Reset == /\ now' = 0
         /\ called' = None
         /\ deadline' \in [Timer -> Nat \cup {None}]
         /\ Cardinality({t \in Timer : deadline'[t] # None}) <= 1

Next == \/ \E t \in Timer : Arm(t) \/ Disarm(t) \/ Call(t)
        \/ Advance
        \/ Return
        \/ Reset

Spec == Init /\ [][Next]_<<deadline, now, called>>
=============================================================================
