\* usz of eight bits; every encoding, room for two to nine characters.
CONSTANTS
    UszBits = 8
    XMM128_SIZE = 2
    XMM256_SIZE = 4
    GARBAGE = GARBAGE
    Shapes <- SomeShapes
    Chars <- SomeChars
    Texts <- SomeTexts
    Counts = {0, 2}
    UInts = {0, 9, 10, 127}
    Ints <- SomeInts
    Floats <- SomeFloats
    Pairs <- SomePairs
    MaxChars = 3
SPECIFICATION Spec
INVARIANTS TextIntact RefusedOnlyIfFull ReadingYieldsText PrintLenRight SearchRight NumbersReadBack
CHECK_DEADLOCK FALSE
