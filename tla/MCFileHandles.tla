---------------------------- MODULE MCFileHandles ----------------------------
(* Instances of FileHandles for TLC.                                        *)
EXTENDS FileHandles, TLC

CONSTANTS t1, t2, path_p, path_q, path_r, path_s, a, b

TwoThreads == {t1, t2}
TwoPaths == {path_p, path_q}
FourPaths == {path_p, path_q, path_r, path_s}

\* p exists at first, and r too where there are four paths.
StartPathP == <<path_p>>
StartP == << <<a>> >>
StartPathPR == <<path_p, path_r>>
StartPR == << <<a>>, <<b>> >>

(* The first thread copies p to q and to itself, the second one opens, creates
   and removes q.                                                           *)
OneOfThemCopies == t1 :> {<<path_p, path_q>>, <<path_p, path_p>>} @@ t2 :> {}
OtherOpens == t1 :> {} @@ t2 :> {path_q}

\* Its handles are for writing: no copy can read from one whose number it has taken.
ForWriting == {{"WRITE"}}

\* Two threads with paths of their own: t1 copies p to q, t2 copies r to s.
NoOpens == [t \in TwoThreads |-> {}]
OwnCopies == t1 :> {<<path_p, path_q>>} @@ t2 :> {<<path_r, path_s>>}

(* p and q are on different devices for a move from p to q; the way back is a
   rename, which the second thread does too.                                *)
OneOfThemMoves == t1 :> {<<path_p, path_q>>, <<path_q, path_p>>} @@ t2 :> {<<path_q, path_p>>}
NoMoves == [t \in TwoThreads |-> {}]
PQApart == {<<path_p, path_q>>}

(* States that differ in the numbers of the inodes alone are the same: a file
   is numbered by where it is first seen in the directory and the table.    *)
Seen == <<dir[path_p], dir[path_q]>> \o table
Canonical(f) ==
    IF f = NONE THEN NONE
    ELSE CHOOSE k \in DOMAIN Seen : Seen[k] = f /\ \A j \in 1..(k - 1) : Seen[j] # f
UpToNumbers ==
    <<[k \in DOMAIN Seen |-> Canonical(Seen[k])],
      [k \in DOMAIN Seen |-> IF Seen[k] = NONE THEN <<>> ELSE data[Seen[k]]],
      pos, mode, pc, arg, local, held, moving, alone>>
=============================================================================
