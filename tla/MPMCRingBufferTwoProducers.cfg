\* Two producers, one consumer.
CONSTANTS
    p1 = p1
    p2 = p2
    c1 = c1
    c2 = c2
    i1 = i1
    i2 = i2
    i3 = i3
    Producers <- TwoProducers
    Consumers <- OneConsumer
    Items <- ThreeItems
    NULL = NULL
    RingSize = 4
    PtrSize = 2
    UszBits = 4
    IntBits = 4
    Compiler = "GCC"
SPECIFICATION Spec
INVARIANT FrontFilled
