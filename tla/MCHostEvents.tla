---------------------------- MODULE MCHostEvents ----------------------------
(* HostEvents on a queue of a few places. *)
EXTENDS HostEvents

Pins == {"p"}

\* A plain and a coalesced subscription of one pin.
Subs == {"a", "b"}
PinOfSub == [s \in Subs |-> "p"]
WindowOf == [s \in Subs |-> IF s = "b" THEN 2 ELSE 0]

\* Nothing reads an entry of the ring that is not queued, or the kept value of
\* a subscription that has none.
Live ==
    <<cycle, mode, level, active, past, todo, Queued, evHead, evDropped, pipe,
      history,
      [s \in active |-> <<pending[s], Since(lastEmit[s])>>],
      [s \in {t \in Sub : pending[t]} |-> <<pendingValue[s], pendingCycle[s]>>]>>
=============================================================================
