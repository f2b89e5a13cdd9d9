\* One thread copies p to q and moves it there and back; the other opens, creates, removes
\* and moves q.
CONSTANTS
    t1 = t1
    t2 = t2
    path_p = path_p
    path_q = path_q
    path_r = path_r
    path_s = path_s
    a = a
    b = b
    ZERO = ZERO
    Byte = {a, b, ZERO}
    UszBits = 4
    Threads <- TwoThreads
    Paths <- TwoPaths
    StartPath <- StartPathP
    Start <- StartP
    PathsOf <- OtherOpens
    FlagSets <- ForWriting
    Jobs <- OneOfThemCopies
    Moves <- OneOfThemMoves
    Apart <- PQApart
    MaxFd = 3
    MaxFile = 5
SPECIFICATION Spec
VIEW UpToNumbers
INVARIANTS NoLeak IInv
PROPERTIES DuplicateCopiesAlone MoveLosesNothing
