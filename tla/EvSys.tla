------------------------------- MODULE EvSys -------------------------------
(***************************************************************************)
(* The event system of the modern cores (avr_evsys.c): generators drive    *)
(* channels, channels tell the users routed to them, and what a user is    *)
(* connected to may drive a channel in turn, while the propagation that    *)
(* called it waits on the C stack.                                         *)
(*                                                                         *)
(* The record e is avr_evsys_t with its registers.  e.told is what the     *)
(* hook of a user IRQ was called with last; it is not called again while   *)
(* it runs (hook->busy of sim_irq.c).  A call is the emission under way,   *)
(* the next user to look at, the user whose hook runs, and what is to be   *)
(* emitted after it.  e.crossed is history: the channels whose users were  *)
(* told out of order, by an emission inside one of the same channel, or    *)
(* by a strobe, which leaves them at 0.                                    *)
(***************************************************************************)
EXTENDS Integers, FiniteSets, Sequences

CONSTANTS
    Channels, Users,   \* 1 .. nchannels and 1 .. nusers, in their order
    Generators         \* values of CHANNELn but 0, which is off

VARIABLE e

Level == {0, 1}
NoUser == 0

\* What the constants have to satisfy: channels and users are numbered from 1.
WellFormed ==
    /\ Channels \in SUBSET (Nat \ {0}) /\ IsFiniteSet(Channels)
    /\ Users \in SUBSET (Nat \ {0}) /\ IsFiniteSet(Users)

Routes == Channels \cup {0}

Init ==
    e = [chan |-> [c \in Channels |-> 0], gen |-> [c \in Channels |-> 0],
         route |-> [u \in Users |-> 0], told |-> [u \in Users |-> 0],
         calls |-> << >>, crossed |-> {}]

-----------------------------------------------------------------------------
(* Calls *)

Idle == e.calls = << >>

\* Mutant: hooks are called though they run.
NoneRuns == {}

Running == {e.calls[i].hook : i \in DOMAIN e.calls} \ {NoUser}

\* Code that may drive a channel: whatever runs between instructions, and the
\* hook of a user.
InControl == ~Idle => e.calls[Len(e.calls)].hook # NoUser

Drive(c, level) == [chan |-> c, level |-> level, strobe |-> FALSE]

\* A pulse on each of some channels, one after the other.
Pulses(channels) ==
    [i \in 1 .. 2 * Len(channels) |->
        [chan |-> channels[(i + 1) \div 2], level |-> i % 2, strobe |-> TRUE]]

\* Channels in their order.
InOrder(channels) ==
    [i \in 1 .. Cardinality(channels) |->
        CHOOSE c \in channels : Cardinality({d \in channels : d <= c}) = i]

\* A call that has all of its emissions before it.
Call(emissions) ==
    [chan |-> 0, level |-> 0, user |-> 0, only |-> Users, hook |-> NoUser, rest |-> emissions]

\* evsys_propagate: the users from u on, in their order.
NextUser(u, users) ==
    LET later == {v \in users : v > u}
    IN IF later = {} THEN 0 ELSE CHOOSE v \in later : \A w \in later : v <= w

Routed(c, users) == {u \in users : e.route[u] = c}

\* avr_evsys_irq_input and avr_evsys_async_generator
Repeated(emission) == ~emission.strobe /\ emission.level = e.chan[emission.chan]

Others == SubSeq(e.calls, 1, Len(e.calls) - 1)
Top == e.calls[Len(e.calls)]
Emits(call) == call.user # 0 \/ call.hook # NoUser

\* A call with nothing left to do has returned.
With(below, call) ==
    IF Emits(call) \/ call.rest # << >> THEN Append(below, call) ELSE below

\* The emission that comes next begins, unless the channel has its level.
Begin ==
    /\ ~Idle /\ Top.hook = NoUser /\ Top.user = 0 /\ Top.rest # << >>
    /\ LET it == Head(Top.rest)
           top == [Top EXCEPT !.rest = Tail(@)]
           inside == \E i \in DOMAIN Others : Emits(Others[i]) /\ Others[i].chan = it.chan
       IN e' = IF Repeated(it) THEN [e EXCEPT !.calls = With(Others, top)]
               ELSE [e EXCEPT !.chan[it.chan] = IF it.strobe THEN @ ELSE it.level,
                              !.crossed = IF it.strobe \/ inside THEN @ \cup {it.chan}
                                          ELSE @ \ {it.chan},
                              !.calls = With(Others,
                                  [top EXCEPT !.chan = it.chan, !.level = it.level,
                                              !.user = NextUser(0, Routed(it.chan, Users))])]

\* avr_raise_irq of a user
Tell ==
    /\ ~Idle /\ Top.hook = NoUser /\ Top.user # 0
    /\ LET u == Top.user
           next == NextUser(u, Routed(Top.chan, Top.only))
       IN e' = IF u \in Running
               THEN [e EXCEPT !.calls = With(Others, [Top EXCEPT !.user = next])]
               ELSE [e EXCEPT !.told[u] = Top.level,
                              !.calls = Append(Others, [Top EXCEPT !.user = next, !.hook = u])]

HookReturns ==
    /\ ~Idle /\ Top.hook # NoUser
    /\ e' = [e EXCEPT !.calls = With(Others, [Top EXCEPT !.hook = NoUser])]

\* A channel is driven through its IRQ (avr_evsys_irq_input).
Input(c, level) ==
    InControl /\ e' = [e EXCEPT !.calls = With(@, Call(<<Drive(c, level)>>))]

\* avr_evsys_async_generator: the channels that listen to it, in their order.
Generate(g, level) ==
    /\ InControl
    /\ LET channels == InOrder({c \in Channels : e.gen[c] = g})
           drives == [i \in DOMAIN channels |-> Drive(channels[i], level)]
       IN e' = [e EXCEPT !.calls = With(@, Call(drives))]

-----------------------------------------------------------------------------
(* Registers, written between calls *)

\* CHANNELn has no handler: the channel keeps its level.
WriteChannel(c, g) == Idle /\ e' = [e EXCEPT !.gen[c] = g]

\* Mutant: a user that is routed anew waits for the next change.
RouteOnly(u, c) == Idle /\ e' = [e EXCEPT !.route[u] = c]

\* avr_evsys_user_write: the user is told the level of its channel.
WriteUser(u, c) ==
    /\ Idle
    /\ e' = [e EXCEPT !.route[u] = c,
                      !.calls = IF c = 0 THEN @
                                ELSE <<[Call(<< >>) EXCEPT !.chan = c, !.level = e.chan[c],
                                                           !.user = u, !.only = {u}]>>]

\* avr_evsys_strobe_write
WriteStrobe(channels) ==
    /\ Idle
    /\ e' = [e EXCEPT !.calls = With(<< >>, Call(Pulses(InOrder(channels))))]

\* avr_evsys_reset: the users are not told.
Reset ==
    /\ Idle
    /\ e' = [e EXCEPT !.chan = [c \in Channels |-> 0], !.gen = [c \in Channels |-> 0],
                      !.route = [u \in Users |-> 0]]

-----------------------------------------------------------------------------
Next ==
    \/ Begin \/ Tell \/ HookReturns
    \/ \E level \in Level : \/ \E c \in Channels : Input(c, level)
                            \/ \E g \in Generators : Generate(g, level)
    \/ \E c \in Channels, g \in Generators \cup {0} : WriteChannel(c, g)
    \/ \E u \in Users, c \in Routes : WriteUser(u, c)
    \/ \E channels \in SUBSET Channels : WriteStrobe(channels)
    \/ Reset

Spec == Init /\ [][Next]_e

-----------------------------------------------------------------------------
(* Properties *)

TypeOK ==
    /\ e.chan \in [Channels -> Level] /\ e.gen \in [Channels -> Generators \cup {0}]
    /\ e.route \in [Users -> Routes] /\ e.told \in [Users -> Level]
    /\ e.crossed \subseteq Channels
    /\ \A i \in DOMAIN e.calls :
           /\ e.calls[i].chan \in Routes /\ e.calls[i].level \in Level
           /\ e.calls[i].user \in Users \cup {0} /\ e.calls[i].hook \in Users \cup {NoUser}

\* Between calls a user has been told the level of the channel it is routed to,
\* however the routes were changed and whatever the users drove when they were
\* told, unless one of them drove the channel that was telling it, or the
\* channel was strobed (evsys_propagate, avr_evsys_user_write).
UsersInStep ==
    Idle => \A u \in Users :
                e.route[u] # 0 /\ e.route[u] \notin e.crossed => e.told[u] = e.chan[e.route[u]]

\* Users that drive each other's channels in a ring do not call each other for
\* ever: a user waits for its own hook at most once.
CallsEnd == Len(e.calls) <= Cardinality(Users) + 1

=============================================================================
