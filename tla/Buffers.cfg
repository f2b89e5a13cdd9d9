\* A writable buffer of seven bytes; no total that wraps.
CONSTANTS
    a = a
    b = b
    XMM128_SIZE = 2
    XMM256_SIZE = 4
    GARBAGE = GARBAGE
    Features <- SomeFeatures
    UszBits = 4
    Alloc = 7
    Byte <- TwoBytes
    ZERO = ZERO
    Shapes <- Fresh
    Sources <- SomeSources
    Counts = {0, 1, 3}
    Replacements <- SomeReplacements
    Steps = {0, 1, 2}
SPECIFICATION FairSpec
INVARIANTS ContentIntact ByteSearchExact BufferSearchExact CompareExact
PROPERTIES WritesInBounds CallsReturn
CHECK_DEADLOCK FALSE
