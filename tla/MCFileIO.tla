------------------------------ MODULE MCFileIO ------------------------------
(* Instances of FileIO for TLC.                                             *)
EXTENDS FileIO

CONSTANTS t1, t2, h1, h2, a, b

TwoThreads == {t1, t2}
TwoHandles == {h1, h2}
AppendSecond == {h2}

\* Each thread has a handle of its own, the second one opened with APPEND_FILE.
Private == [t \in TwoThreads |-> IF t = t1 THEN h1 ELSE h2]

TwoBytes == {a, b}
SomeContents == {<<>>, <<a>>, <<b, a>>}
=============================================================================
