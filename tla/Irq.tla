-------------------------------- MODULE Irq --------------------------------
(***************************************************************************)
(* The IRQ network (sim_irq.c).  A raise calls the hooks of an IRQ one     *)
(* after the other; a hook is a notify function or a chain to another IRQ. *)
(* A notify function may itself raise, connect, register or unregister,    *)
(* on the IRQ it was called for as well, and every hook it reaches may do  *)
(* the same, while the raises below it wait on the C stack.                *)
(*                                                                         *)
(* The FLOATING flag is handed on with the value and decides nothing here. *)
(***************************************************************************)
EXTENDS Integers, SequencesExt

CONSTANTS
    Irqs, Notifies,    \* IRQs; pairs of a notify function and its parameter
    None,              \* no hook
    MaxDepth,          \* raises the C stack has room for
    MaxHooks           \* hooks of an IRQ that are explored

Hooks == Notifies \cup Irqs

\* What the constants have to satisfy.
WellFormed ==
    /\ Irqs \cap Notifies = {} /\ None \notin Hooks
    /\ MaxDepth \in Nat /\ MaxHooks \in Nat

VARIABLES
    part,      \* .inverted, .filtered: the IRQs with NOT and FILTERED;
               \* .held: those a peripheral holds at times
    hooks,     \* irq->hook, a list
    busy,      \* the <<irq, hook>> with hook->busy
    value,     \* irq->value
    initbit,   \* the IRQs with INIT, which is the same bit as NTF_STOP
    strong,    \* the IRQs with STRONG
    stack,     \* raises in progress: irq, out, the hook called, the next, acted
    seen,      \* history: what each hook was last told
    quiet      \* history: IRQs whose last raise was not disturbed

vars == <<part, hooks, busy, value, initbit, strong, stack, seen, quiet>>

Bits == {0, 1}
Unseen == 2

Init ==
    /\ hooks = [i \in Irqs |-> <<>>]
    /\ busy = {} /\ value = [i \in Irqs |-> 0]
    /\ initbit = Irqs /\ strong = {}
    /\ stack = <<>>
    /\ seen = [p \in Irqs \X Hooks |-> Unseen]
    /\ quiet = Irqs

Top == Last(stack)
Below == Front(stack)
OnStack(i) == \E k \in DOMAIN stack : stack[k].irq = i

-----------------------------------------------------------------------------
(* avr_raise_irq_float *)

\* The value an IRQ passes on when v is raised.
Output(i, v) == IF i \in part.inverted THEN 1 - v ELSE v

\* The same value again on a filtered IRQ, unless it is the first.
Repeats(i, v) == value[i] = Output(i, v) /\ i \in part.filtered /\ i \notin initbit

Ignores(i, v) == i \in strong \/ Repeats(i, v)

\* Mutant: the loop does not go on to the next hook.
StaysAt(i, h) == h

\* The place of h in the list of i, the hook after it, and the first one.
PlaceOf(i, h) == CHOOSE n \in DOMAIN hooks[i] : hooks[i][n] = h
FollowedBy(i, h) ==
    IF PlaceOf(i, h) < Len(hooks[i]) THEN hooks[i][PlaceOf(i, h) + 1] ELSE None

First(i) == IF hooks[i] = <<>> THEN None ELSE Head(hooks[i])

\* A raise of v on i, above the raises in below.
Enter(i, v, below) ==
    IF Ignores(i, v)
    THEN stack' = below /\ UNCHANGED <<initbit, quiet>>
    ELSE /\ Len(below) < MaxDepth
         /\ stack' = Append(below, [irq |-> i, out |-> Output(i, v), at |-> None,
                                    next |-> First(i), acted |-> FALSE])
         /\ initbit' = initbit \ {i}
         /\ quiet' = IF OnStack(i) THEN quiet \ {i} ELSE quiet \cup {i}

\* The places in the list of i from hook h on.
From(i, h) == IF h = None THEN {} ELSE {n \in DOMAIN hooks[i] : n >= PlaceOf(i, h)}

MayCall(i, h) == <<i, h>> \notin busy

\* The places of the hooks that the uppermost raise has still to call.
Waiting == {n \in From(Top.irq, Top.next) : MayCall(Top.irq, hooks[Top.irq][n])}

Between == stack # <<>> /\ Top.at = None

\* The next hook that is not busy is called; the one after it is read first.
CallHook ==
    /\ Between /\ Waiting # {}
    /\ LET h == hooks[Top.irq][CHOOSE n \in Waiting : \A m \in Waiting : n <= m] IN
       /\ busy' = busy \cup {<<Top.irq, h>>}
       /\ stack' = Append(Below, [Top EXCEPT !.at = h, !.next = FollowedBy(Top.irq, h),
                                             !.acted = FALSE])
       /\ seen' = [seen EXCEPT ![<<Top.irq, h>>] = Top.out]
    /\ UNCHANGED <<part, hooks, value, initbit, strong, quiet>>

\* All hooks have been called: now the IRQ takes the value.
FinishRaise ==
    /\ Between /\ Waiting = {}
    /\ value' = [value EXCEPT ![Top.irq] = Top.out]
    /\ stack' = Below
    /\ UNCHANGED <<part, hooks, busy, initbit, strong, seen, quiet>>

Acted == [Top EXCEPT !.acted = TRUE]

\* A chain hook raises the IRQ it leads to.
Chain ==
    /\ stack # <<>> /\ Top.at \in Irqs /\ ~Top.acted
    /\ Enter(Top.at, Top.out, Append(Below, Acted))
    /\ UNCHANGED <<part, hooks, busy, value, strong, seen>>

ChainReturns ==
    /\ stack # <<>> /\ Top.at \in Irqs /\ Top.acted
    /\ busy' = busy \ {<<Top.irq, Top.at>>}
    /\ stack' = Append(Below, [Top EXCEPT !.at = None])
    /\ UNCHANGED <<part, hooks, value, initbit, strong, seen, quiet>>

Notified == stack # <<>> /\ Top.at \in Notifies

\* Mutant: the early return of a stopped raise forgets hook->busy.
KeepsBusy == busy

Released == busy \ {<<Top.irq, Top.at>>}

\* A notify function returns with NTF_STOP set: the raise ends at once and the
\* IRQ keeps its value.
StoppedReturn ==
    /\ Notified /\ Top.irq \in initbit
    /\ initbit' = initbit \ {Top.irq}
    /\ busy' = Released
    /\ stack' = Below
    /\ quiet' = quiet \ {Top.irq}
    /\ UNCHANGED <<part, hooks, value, strong, seen>>

NotifyReturns ==
    /\ Notified /\ Top.irq \notin initbit
    /\ busy' = busy \ {<<Top.irq, Top.at>>}
    /\ stack' = Append(Below, [Top EXCEPT !.at = None])
    /\ UNCHANGED <<part, hooks, value, initbit, strong, seen, quiet>>

-----------------------------------------------------------------------------
(* What code outside a raise and notify functions may do *)

\* A notify function does one such thing before it returns.
Free == stack = <<>> \/ (Notified /\ ~Top.acted)
Resume == IF stack = <<>> THEN <<>> ELSE Append(Below, Acted)

Raise(i, v) ==
    /\ Free
    /\ Enter(i, v, Resume)
    /\ UNCHANGED <<part, hooks, busy, value, strong, seen>>

\* avr_irq_register_notify and avr_connect_irq of a hook that is not there.
AddHook(i, h) ==
    /\ Free /\ h # i /\ ~Contains(hooks[i], h) /\ Len(hooks[i]) < MaxHooks
    /\ hooks' = [hooks EXCEPT ![i] = Append(@, h)]
    /\ stack' = Resume
    /\ UNCHANGED <<part, busy, value, initbit, strong, seen, quiet>>

\* No raise in progress has called h or goes on with it: the hook is freed.
Removable(i, h) ==
    \A k \in DOMAIN stack : stack[k].irq = i => h \notin {stack[k].at, stack[k].next}

\* avr_irq_unregister_notify and avr_unconnect_irq
RemoveHook(i, h) ==
    /\ Free /\ Contains(hooks[i], h) /\ Removable(i, h)
    /\ hooks' = [hooks EXCEPT ![i] = RemoveAt(@, PlaceOf(i, h))]
    /\ seen' = [seen EXCEPT ![<<i, h>>] = Unseen]
    /\ stack' = Resume
    /\ UNCHANGED <<part, busy, value, initbit, strong, quiet>>

\* A notify function stops the raise that called it.
Stop ==
    /\ Notified /\ ~Top.acted
    /\ initbit' = initbit \cup {Top.irq}
    /\ stack' = Resume
    /\ UNCHANGED <<part, hooks, busy, value, strong, seen, quiet>>

\* A reset handler registers a notify function that is there already.
Rearm(i) ==
    /\ stack = <<>> /\ \E h \in Notifies : Contains(hooks[i], h)
    /\ value' = [value EXCEPT ![i] = 0]
    /\ initbit' = initbit \cup {i}
    /\ quiet' = quiet \ {i}
    /\ UNCHANGED <<part, hooks, busy, strong, stack, seen>>

\* A peripheral holds a pin, or lets it go.
SetStrong(i) ==
    /\ stack = <<>> /\ i \in part.held
    /\ strong' = IF i \in strong THEN strong \ {i} ELSE strong \cup {i}
    /\ UNCHANGED <<part, hooks, busy, value, initbit, stack, seen, quiet>>

-----------------------------------------------------------------------------
Delivers ==
    \/ CallHook \/ FinishRaise \/ Chain \/ ChainReturns
    \/ StoppedReturn \/ NotifyReturns

Next ==
    \/ Delivers
    \/ \E i \in Irqs, v \in Bits : Raise(i, v)
    \/ \E i \in Irqs, h \in Hooks : AddHook(i, h) \/ RemoveHook(i, h)
    \/ Stop
    \/ \E i \in Irqs : Rearm(i) \/ SetStrong(i)

Spec == Init /\ [][Next]_vars /\ WF_vars(Delivers)

-----------------------------------------------------------------------------
(* Properties *)

TypeOK ==
    /\ hooks \in [Irqs -> Seq(Hooks)] /\ \A i \in Irqs : IsInjective(hooks[i])
    /\ busy \subseteq Irqs \X Hooks
    /\ value \in [Irqs -> Bits] /\ initbit \subseteq Irqs /\ strong \subseteq Irqs
    /\ \A k \in DOMAIN stack :
          /\ stack[k].irq \in Irqs /\ stack[k].out \in Bits
          /\ stack[k].at \in Hooks \cup {None} /\ stack[k].next \in Hooks \cup {None}
    /\ seen \in [Irqs \X Hooks -> Bits \cup {Unseen}] /\ quiet \subseteq Irqs

\* Between raises every hook of an IRQ has been told the value the IRQ has,
\* unless it joined since, or its last raise was stopped by a hook, was raised
\* again from within, or was forgotten by a reset.
HooksInStep ==
    \A i \in quiet : ~OnStack(i) =>
        \A h \in ToSet(hooks[i]) : seen[<<i, h>>] \in {Unseen, value[i]}

\* A raise returns, however the IRQs are connected.
RaiseReturns == []<>(stack = <<>>)

=============================================================================
