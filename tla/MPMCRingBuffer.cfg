\* Two producers and two consumers on a ring of two slots.
CONSTANTS
    p1 = p1
    p2 = p2
    c1 = c1
    c2 = c2
    i1 = i1
    i2 = i2
    i3 = i3
    Producers <- TwoProducers
    Consumers <- TwoConsumers
    Items <- ThreeItems
    NULL = NULL
    RingSize = 4
    PtrSize = 2
    UszBits = 4
    IntBits = 4
    Compiler = "GCC"
SPECIFICATION Spec
INVARIANT OneOwner
SYMMETRY Symmetry
