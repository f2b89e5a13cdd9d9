\* Every arena of six bytes and every request that a 4-bit usz does not wrap.
CONSTANTS
    UszBits = 4
    ArenaSize = 6
    Sizes <- ModestSizes
    NULL = NULL
SPECIFICATION Spec
INVARIANTS IInv RegionsInside RegionsDisjoint
