\* The buffer of Buffers.cfg, searched by every version.
CONSTANTS
    a = a
    b = b
    XMM128_SIZE = 2
    XMM256_SIZE = 4
    GARBAGE = GARBAGE
    Features <- SomeFeatures
    UszBits = 4
    Alloc = 7
    Byte <- TwoBytes
    ZERO = ZERO
    Shapes <- Fresh
    Sources <- SomeSources
    Counts = {0, 1, 3}
    Replacements <- SomeReplacements
    Steps = {0, 1, 2}
SPECIFICATION Spec
INVARIANT BufferSearchExactAll
CHECK_DEADLOCK FALSE
