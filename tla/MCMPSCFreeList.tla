--------------------------- MODULE MCMPSCFreeList ---------------------------
(* Instances of MPSCFreeList for TLC.                                       *)
EXTENDS MPSCFreeList

CONSTANTS p1, p2, i1, i2, i3

TwoProducers == {p1, p2}
ThreeItems == {i1, i2, i3}

Zeroed == {NULL}
=============================================================================
