-------------------------- MODULE MCMPMCRingBuffer --------------------------
(* Instances of MPMCRingBuffer for TLC.                                     *)
EXTENDS MPMCRingBuffer, TLC

CONSTANTS p1, p2, c1, c2, i1, i2, i3

OneProducer == {p1}
TwoProducers == {p1, p2}
OneConsumer == {c1}
TwoConsumers == {c1, c2}
ThreeItems == {i1, i2, i3}

Symmetry == Permutations(TwoProducers) \cup Permutations(TwoConsumers) \cup Permutations(ThreeItems)
=============================================================================
