------------------------------ MODULE FIFOQueue ------------------------------
(***************************************************************************)
(* What tinybase-queues.h promises of the free list: a first-in first-out  *)
(* queue with no limit, whose operations each take effect in one step.     *)
(***************************************************************************)
EXTENDS Sequences

CONSTANTS
    Items,      \* what is queued
    NULL        \* the answer of a Pop that returns no item

VARIABLES
    q,          \* the items in the order they were pushed
    out         \* the last answer of Pop

Init == q = <<>> /\ out = NULL

Enqueue(i) == q' = Append(q, i) /\ out' = out

Dequeue == q # <<>> /\ out' = Head(q) /\ q' = Tail(q)

\* Pop answers NULL and says nothing about what is queued.
SpuriousMiss == out' = NULL /\ q' = q

Next == (\E i \in Items : Enqueue(i)) \/ Dequeue \/ SpuriousMiss

Spec == Init /\ [][Next]_<<q, out>>
=============================================================================
