\* One producer, one consumer, a ring of two slots in a buffer of three.
CONSTANTS
    p1 = p1
    p2 = p2
    c1 = c1
    c2 = c2
    i1 = i1
    i2 = i2
    i3 = i3
    Producers <- OneProducer
    Consumers <- OneConsumer
    Items <- ThreeItems
    NULL = NULL
    RingSize = 7
    PtrSize = 2
    UszBits = 4
    IntBits = 4
    Compiler = "GCC"
SPECIFICATION FairSpec
INVARIANTS SPSCInv RingInBounds FrontFilled
PROPERTIES PushFalseMeansFull ImplementsBoundedFIFO EveryItemPopped
