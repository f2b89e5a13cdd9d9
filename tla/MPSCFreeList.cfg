\* Two producers and a consumer that pushes too, three items, the stub zeroed.
CONSTANTS
    p1 = p1
    p2 = p2
    i1 = i1
    i2 = i2
    i3 = i3
    Producers <- TwoProducers
    Consumer = consumer
    Items <- ThreeItems
    Stub = Stub
    NULL = NULL
    StubNextAtInit <- Zeroed
SPECIFICATION FairSpec
INVARIANTS IInv LinkTargetQueued OneOwner
PROPERTIES PopOldest PopNullJustified ImplementsFIFO EveryItemPopped
