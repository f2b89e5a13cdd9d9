\* Two threads that copy files of their own.
CONSTANTS
    t1 = t1
    t2 = t2
    path_p = path_p
    path_q = path_q
    path_r = path_r
    path_s = path_s
    a = a
    b = b
    ZERO = ZERO
    Byte = {a, b, ZERO}
    UszBits = 4
    Threads <- TwoThreads
    Paths <- FourPaths
    StartPath <- StartPathPR
    Start <- StartPR
    PathsOf <- NoOpens
    FlagSets <- ForWriting
    Jobs <- OwnCopies
    Moves <- NoMoves
    Apart <- PQApart
    MaxFd = 4
    MaxFile = 8
SPECIFICATION Spec
PROPERTY DuplicateCopies
