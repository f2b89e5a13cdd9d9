\* Two threads, each with a handle of its own; no position wraps.
CONSTANTS
    t1 = t1
    t2 = t2
    h1 = h1
    h2 = h2
    a = a
    b = b
    ZERO = ZERO
    Byte <- TwoBytes
    Contents <- SomeContents
    UszBits = 4
    Threads <- TwoThreads
    Handles <- TwoHandles
    HandleOf <- Private
    AppendHandles <- AppendSecond
    Positions = {0, 2}
    Amounts = {0, 1, 2}
    Rooms = {1, 2}
    MaxLen = 3
SPECIFICATION Spec
PROPERTIES ReadDeliversRequested WriteLandsAtStartPos
