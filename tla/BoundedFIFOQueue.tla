-------------------------- MODULE BoundedFIFOQueue --------------------------
(***************************************************************************)
(* What tinybase-queues.h promises of the ring buffer: a first-in          *)
(* first-out queue of limited capacity, whose Pop answers NULL only when   *)
(* nothing is queued.                                                      *)
(***************************************************************************)
EXTENDS Naturals, Sequences

CONSTANTS Items, NULL, Capacity

VARIABLES
    q,          \* the items in the order they were pushed
    out         \* the last answer of Pop

Init == q = <<>> /\ out = NULL

Enqueue(i) == Len(q) < Capacity /\ q' = Append(q, i) /\ out' = out

Dequeue == q # <<>> /\ out' = Head(q) /\ q' = Tail(q)

Miss == q = <<>> /\ out' = NULL /\ q' = q

Next == (\E i \in Items : Enqueue(i)) \/ Dequeue \/ Miss

Spec == Init /\ [][Next]_<<q, out>>
=============================================================================
