----------------------------- MODULE LossyQueue -----------------------------
(***************************************************************************)
(* What the event queue of the embedding API promises its reader: events   *)
(* come in the order in which they were pushed, none twice, and every one  *)
(* that is missing was dropped for want of room and is counted in the next *)
(* overflow report.                                                        *)
(***************************************************************************)
EXTENDS Integers, Sequences

CONSTANTS Capacity, Modulus

VARIABLES queue,   \* the events to be delivered
          lost,    \* how many were dropped and not yet reported
          offered  \* how many were ever pushed, modulo Modulus

vars == <<queue, lost, offered>>

Init == queue = << >> /\ lost = 0 /\ offered = 0

Push ==
    /\ offered' = (offered + 1) % Modulus
    /\ \/ /\ Len(queue) < Capacity
          /\ Len(queue') = Len(queue) + 1
          /\ SubSeq(queue', 1, Len(queue)) = queue
          /\ lost' = lost
       \/ /\ Len(queue) = Capacity
          /\ queue' = queue
          /\ lost' = lost + 1

\* A report of what was lost comes after everything that was queued.
Poll ==
    /\ \E n \in 0 .. Len(queue) : queue' = SubSeq(queue, n + 1, Len(queue))
    /\ lost' \in {lost, 0}
    /\ lost' # lost => queue' = << >>
    /\ UNCHANGED offered

Next == Push \/ Poll

Spec == Init /\ [][Next]_vars

=============================================================================
