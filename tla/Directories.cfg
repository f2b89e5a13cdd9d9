\* Paths of seven characters, a tree of depth three.
CONSTANTS
    MAX_PATH_SIZE = 8
    Letters = {"a", "b"}
    Parts <- SomeParts
    Places <- SomePlaces
    Sockets <- SomeSockets
    MaxDirs = 4
SPECIFICATION Spec
INVARIANTS PathDenotes HiddenIsHidden MakeDirSucceeds RemoveDirExact
PROPERTY StreamsClosed
CHECK_DEADLOCK FALSE
