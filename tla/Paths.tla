-------------------------------- MODULE Paths --------------------------------
(***************************************************************************)
(* The path editing functions of tinybase-platform-linux.c, as operators.  *)
(*                                                                         *)
(* A path is a record [mem, WriteCur]: a memory of MAX_PATH_SIZE           *)
(* characters, one of them kept for the NUL, and the length of the text.   *)
(* The characters are "/", "." and letters; NUL is the character 0.        *)
(***************************************************************************)
EXTENDS Integers, Sequences, FiniteSets, FiniteSetsExt

CONSTANTS MAX_PATH_SIZE, Letters

NUL == "NUL"
Characters == Letters \cup {"/", "."}

ASSUME PathsAssumption == MAX_PATH_SIZE \in Nat \ {0} /\ NUL \notin Letters

Size == MAX_PATH_SIZE - 1

\* Path(Mem), on memory that is zero
EmptyPath == [mem |-> [i \in 1..MAX_PATH_SIZE |-> NUL], WriteCur |-> 0]

Text(P) == SubSeq(P.mem, 1, P.WriteCur)

\* What the functions see that take P.Base: the text up to the first NUL
CString(P) ==
    SubSeq(P.mem, 1, Min({i \in 1..MAX_PATH_SIZE : P.mem[i] = NUL} \cup {MAX_PATH_SIZE + 1}) - 1)

-----------------------------------------------------------------------------
\* AppendStringToString and AppendCharToString: all of s or nothing
Fits(s, P) == Len(s) <= Size - P.WriteCur
Put(s, P) ==
    LET end == P.WriteCur + Len(s)
    IN  [mem |-> Text(P) \o s \o SubSeq(P.mem, end + 1, MAX_PATH_SIZE), WriteCur |-> end]

LastSlash(s) == Max({i \in DOMAIN s : s[i] = "/"} \cup {0})

(* A slash at the end is passed over; then, MoveUpCount times, the text ends
   before its last slash, or is empty.  What follows WriteCur stays, and one
   character of it, the slash, is taken back.  The path is not empty.       *)
MoveUpPath(P, MoveUpCount) ==
    LET start == IF P.mem[P.WriteCur] = "/" THEN P.WriteCur - 1 ELSE P.WriteCur
        up[n \in 0..MoveUpCount] ==
            IF n = 0 THEN start
            ELSE LET slash == LastSlash(SubSeq(P.mem, 1, up[n - 1]))
                 IN  IF slash = 0 THEN 0 ELSE slash - 1
        cur == up[MoveUpCount]
    IN  [P EXCEPT !.WriteCur = IF cur > 0 THEN cur + 1 ELSE 0]

\* The parts of s: one up to each slash, and what follows the last slash
Slashes(s) == {i \in DOMAIN s : s[i] = "/"}
Tail0(s) == SubSeq(s, LastSlash(s) + 1, Len(s))
PartEnding(s, i) == Tail0(SubSeq(s, 1, i - 1))

Front0(s) == SubSeq(s, 1, Len(s) - 1)

Failed(P) == [ok |-> FALSE, path |-> P]
Done(P) == [ok |-> TRUE, path |-> P]

\* Mutant: ".." is copied like any other name.
TakePartPlain(part, P) ==
    IF part = <<".">> THEN Done(P)
    ELSE IF Fits(part \o <<"/">>, P) THEN Done(Put(part \o <<"/">>, P))
    ELSE Failed(P)

\* A round of the loop that has come to a slash
TakePart(part, P) ==
    IF part = <<".">> THEN Done(P)
    ELSE IF part = <<".", ".">> THEN Done(MoveUpPath(P, 1))
    ELSE IF Fits(part \o <<"/">>, P) THEN Done(Put(part \o <<"/">>, P))
    ELSE IF Fits(part, P) THEN Failed(Put(part, P))
    ELSE Failed(P)

\* Dst keeps its WriteCur.
Undone(Tmp, Dst) == Failed([Tmp EXCEPT !.WriteCur = Dst.WriteCur])

(* The loop over the characters of Src: the path after i of them, or where it
   ran out of room.                                                         *)
Taken(Src, start) ==
    LET loop[i \in 0..Len(Src)] ==
            IF i = 0 THEN Done(start)
            ELSE IF ~loop[i - 1].ok \/ Src[i] # "/" THEN loop[i - 1]
            ELSE TakePart(PartEnding(Src, i), loop[i - 1].path)
    IN  loop

(* _AppendPathToPath, which works in a copy of the record and in the memory
   of Dst itself: if it fails, WriteCur is the old one and the memory is not. *)
AppendPath(NewPart, Dst) ==
    LET Src == IF Dst.WriteCur > 0 /\ NewPart # <<>> /\ NewPart[1] = "/"
               THEN Tail(NewPart) ELSE NewPart
        open == Dst.WriteCur > 0 /\ Dst.mem[Dst.WriteCur] # "/"
        start == IF open THEN Put(<<"/">>, Dst) ELSE Dst
        last == Taken(Src, start)[Len(Src)]
    IN  IF open /\ ~Fits(<<"/">>, Dst) THEN Failed(Dst)
        ELSE IF ~last.ok THEN Undone(last.path, Dst)
        ELSE IF ~Fits(Tail0(Src), last.path) THEN Undone(last.path, Dst)
        ELSE LET P == Put(Tail0(Src), last.path)
             IN  Done([P EXCEPT !.mem[P.WriteCur + 1] = NUL])

\* AppendPathToPath tests the length first; the other variants do not.
AppendPathToPath(NewPart, Dst) ==
    IF Len(NewPart) <= Size - Dst.WriteCur THEN AppendPath(NewPart, Dst) ELSE Failed(Dst)

\* PathCString, strlen
AppendArrayToPath(NewPart, Dst) == AppendPath(NewPart, Dst)

-----------------------------------------------------------------------------
\* NewBuf, which was zero, with a text that fills it at most
NewBuf(text) ==
    [mem |-> [i \in 1..MAX_PATH_SIZE |-> IF i <= Len(text) THEN text[i] ELSE NUL],
     WriteCur |-> Len(text)]

\* Mutant: the dot goes before the path.
HiddenNameFirst(Old) == NewBuf(IF Old[1] = "." THEN Old ELSE <<".">> \o Old)

(* The name with HIDDEN_FILE: a dot before the last part, if it has none.
   What follows the slash is appended if it fits, and nothing sees to a NUL
   behind it.  Old has a slash: without one the code reads before its memory. *)
HiddenName(Old) ==
    LET part == Tail0(Old)
        New == SubSeq(Old, 1, LastSlash(Old))
                  \o (IF part # <<>> /\ part[1] = "." THEN <<>> ELSE <<".">>)
    IN  NewBuf(IF Len(part) <= MAX_PATH_SIZE - Len(New) THEN New \o part ELSE New)

\* IsFileHidden, of a path that exists
FirstByteHidden(Filename) ==
    LET part == SubSeq(Filename, LastSlash(Filename) + 1, Len(Filename))
    IN  part # <<>> /\ part[1] = "."

-----------------------------------------------------------------------------
(* What a text denotes, for the properties: the names on the way from where
   it starts, with "." and ".." carried out.                                *)

Into(names, part) ==
    IF part \in {<<>>, <<".">>} THEN names
    ELSE IF part = <<".", ".">> THEN Front0(names)
    ELSE Append(names, part)

\* Where the text s leads, up to the last slash among its first i characters
Entered(s) ==
    LET upTo[i \in 0..Len(s)] ==
            IF i = 0 THEN <<>>
            ELSE IF s[i] # "/" THEN upTo[i - 1]
            ELSE Into(upTo[i - 1], PartEnding(s, i))
    IN  upTo

Names(s) == Into(Entered(s)[Len(s)], Tail0(s))

Absolute(s) == s # <<>> /\ s[1] = "/"

\* The text s behind the text t
Behind(t, s) == IF t = <<>> THEN s ELSE t \o <<"/">> \o s

\* s holds only names.
Plain(s) == \A i \in Slashes(s) \cup {Len(s) + 1} : PartEnding(s, i) \notin {<<".">>, <<".", ".">>}

NoEmptyPart(s) == \A i \in 2..Len(s) : s[i - 1] # "/" \/ s[i] # "/"

(* Every ".." of s has a name of its own to take back, and if the path is
   absolute not the first one; t itself holds only names.                   *)
StaysBelow(t, s) ==
    /\ Plain(t)
    /\ \A i \in Slashes(s) \cup {Len(s) + 1} :
          PartEnding(s, i) = <<".", ".">> =>
              LET p == Behind(t, SubSeq(s, 1, i - 3))
              IN  Len(Names(p)) > (IF Absolute(p) THEN 1 ELSE 0)
=============================================================================
