------------------------------- MODULE FileIO -------------------------------
(***************************************************************************)
(* Synchronous file access of tinybase-platform-linux.c: FileSizeOf,       *)
(* SeekFile, ReadFromFile, ReadEntireFile, AppendToFile, WriteEntireFile   *)
(* and WriteToFile, by threads that work on handles of one regular file.   *)
(*                                                                         *)
(* One step is one system call.  The kernel's file and the offsets of its  *)
(* open descriptions are external; a read or a write may transfer fewer    *)
(* bytes than asked for.  usz has UszBits bits, and half of its values are *)
(* negative offsets for lseek.                                             *)
(***************************************************************************)
EXTENDS Naturals, Sequences

CONSTANTS
    Threads,
    Handles,
    HandleOf,       \* the handle each thread uses
    AppendHandles,  \* the handles opened with APPEND_FILE
    Byte, ZERO,     \* the bytes that are written, and the byte in a hole
    Contents,       \* the data that is written: sequences of bytes
    Positions,      \* the StartPos and Pos arguments
    Amounts,        \* the AmountToRead arguments
    Rooms,          \* Dst->Size - Dst->WriteCur of the buffers read into
    UszBits,
    MaxLen          \* bound: the file grows no longer

UszMod == 2 ^ UszBits
USZ_MAX == UszMod - 1

ASSUME FileIOAssumption ==
    /\ HandleOf \in [Threads -> Handles]
    /\ AppendHandles \subseteq Handles
    /\ ZERO \notin Byte
    /\ Contents \subseteq Seq(Byte)
    /\ UszBits \in Nat
    /\ UszMod \in Nat
    /\ Positions \subseteq 0..(UszMod - 1)
    /\ Amounts \subseteq 0..(UszMod - 1)
    /\ Rooms \subseteq Nat
    /\ MaxLen \in Nat

VARIABLES
    data,           \* the bytes of the file
    offset,         \* the offset of each open description
    pc,             \* the next system call of each thread
    op,             \* "read" or "write": what follows the seek
    StartPos, Amount, Content,   \* the arguments of each thread's call
    answer          \* history: what the last finished call returned and moved

vars == <<data, offset, pc, op, StartPos, Amount, Content, answer>>

NoAnswer == [call |-> "none"]

Init ==
    /\ data = <<>>
    /\ offset = [h \in Handles |-> 0]
    /\ pc = [t \in Threads |-> "idle"]
    /\ op = [t \in Threads |-> "none"]
    /\ StartPos = [t \in Threads |-> 0]
    /\ Amount = [t \in Threads |-> 0]
    /\ Content = [t \in Threads |-> <<>>]
    /\ answer = NoAnswer

\* Thread t's call returns r; its arguments are gone.
Return(t, r) ==
    /\ pc' = [pc EXCEPT ![t] = "idle"]
    /\ op' = [op EXCEPT ![t] = "none"]
    /\ StartPos' = [StartPos EXCEPT ![t] = 0]
    /\ Amount' = [Amount EXCEPT ![t] = 0]
    /\ Content' = [Content EXCEPT ![t] = <<>>]
    /\ answer' = r

-----------------------------------------------------------------------------
(* The kernel.                                                              *)

Lesser(a, b) == IF a <= b THEN a ELSE b

\* lseek refuses a negative offset and accepts any other, also past the end.
SeekAccepts(pos) == pos < UszMod \div 2
SeekResult(h, pos) == [offset EXCEPT ![h] = IF SeekAccepts(pos) THEN pos ELSE @]

\* The file after n bytes of s are written at offset at; a gap reads as zeros.
Written(at, s, n) ==
    [k \in 1..(IF at + n > Len(data) THEN at + n ELSE Len(data)) |->
        IF k \in (at + 1)..(at + n) THEN s[k - at]
        ELSE IF k <= Len(data) THEN data[k] ELSE ZERO]

\* Where a write through handle h goes.
WriteAt(h) == IF h \in AppendHandles THEN Len(data) ELSE offset[h]

-----------------------------------------------------------------------------
(* SeekFile(File, Pos).  The -1 of a refused lseek is converted to USZ_MAX
   for the comparison with Pos.                                             *)
SeekOk(Pos) == SeekAccepts(Pos) \/ Pos = USZ_MAX

SeekFile(t, Pos) ==
    /\ pc[t] = "idle"
    /\ offset' = SeekResult(HandleOf[t], Pos)
    /\ answer' = [call |-> "seek", ok |-> SeekOk(Pos)]
    /\ UNCHANGED <<data, pc, op, StartPos, Amount, Content>>

(* WriteToFile(File, Content, StartPos), and WriteEntireFile for StartPos 0:
   the seek comes first, and its result is not looked at.                   *)
WriteToFile(t, s, pos) ==
    /\ pc[t] = "idle"
    /\ pc' = [pc EXCEPT ![t] = "seek"]
    /\ op' = [op EXCEPT ![t] = "write"]
    /\ StartPos' = [StartPos EXCEPT ![t] = pos]
    /\ Content' = [Content EXCEPT ![t] = s]
    /\ UNCHANGED <<data, offset, Amount, answer>>

WriteEntireFile(t, s) == WriteToFile(t, s, 0)

\* AppendToFile(File, Content): no seek.
AppendToFile(t, s) ==
    /\ pc[t] = "idle"
    /\ pc' = [pc EXCEPT ![t] = "append"]
    /\ Content' = [Content EXCEPT ![t] = s]
    /\ UNCHANGED <<data, offset, op, StartPos, Amount, answer>>

(* What FileSizeOf may answer: the size, or USZ_MAX when fstat fails.  The
   file is a regular one, so that no size is asked of a block device.       *)
FileSizeOf == {Len(data), USZ_MAX}

\* ReadFromFile's test of the end of what it is to read.
BeyondEOF(pos, amount, FileSize) == (pos + amount) % UszMod > FileSize

\* A read call that returns without having read.
ReadRefused(t) ==
    /\ Return(t, [call |-> "read", ok |-> FALSE])
    /\ UNCHANGED <<data, offset>>

\* The body of ReadFromFile up to the seek; Dst has room for room bytes.
SizeTest(t, amount, pos, room) ==
    \E FileSize \in FileSizeOf :
       IF BeyondEOF(pos, amount, FileSize) \/ amount > room
       THEN ReadRefused(t)
       ELSE /\ pc' = [pc EXCEPT ![t] = "seek"]
            /\ op' = [op EXCEPT ![t] = "read"]
            /\ StartPos' = [StartPos EXCEPT ![t] = pos]
            /\ Amount' = [Amount EXCEPT ![t] = amount]
            /\ UNCHANGED <<data, offset, Content, answer>>

\* ReadFromFile(File, Dst, AmountToRead, StartPos)
ReadFromFile(t, amount, pos, room) ==
    /\ pc[t] = "idle"
    /\ SizeTest(t, amount, pos, room)

(* ReadEntireFile: the size is taken once for the memory, and once more by
   ReadFromFile.  GetMemory of 0 or USZ_MAX bytes fails, and any may.       *)
ReadEntireFile(t) ==
    /\ pc[t] = "idle"
    /\ \/ ReadRefused(t)
       \/ \E FileSize \in FileSizeOf \ {0, USZ_MAX} :
             /\ pc' = [pc EXCEPT ![t] = "sized"]
             /\ Amount' = [Amount EXCEPT ![t] = FileSize]
             /\ UNCHANGED <<data, offset, op, StartPos, Content, answer>>

ReadEntireFileSized(t) ==
    /\ pc[t] = "sized"
    /\ SizeTest(t, Amount[t], 0, Amount[t])

\* Mutant: the seek before a read or write is left out.
NoSeek(t) ==
    /\ pc[t] = "seek"
    /\ pc' = [pc EXCEPT ![t] = op[t]]
    /\ UNCHANGED <<data, offset, op, StartPos, Amount, Content, answer>>

Seek(t) ==
    /\ pc[t] = "seek"
    /\ offset' = SeekResult(HandleOf[t], StartPos[t])
    /\ pc' = [pc EXCEPT ![t] = op[t]]
    /\ UNCHANGED <<data, op, StartPos, Amount, Content, answer>>

\* read(File, Dst->Base + Dst->WriteCur, AmountToRead); anything less is false.
Read(t) ==
    LET h == HandleOf[t]
        there == IF offset[h] < Len(data) THEN Len(data) - offset[h] ELSE 0
    IN /\ pc[t] = "read"
       /\ \E n \in 0..Lesser(there, Amount[t]) :
             /\ offset' = [offset EXCEPT ![h] = @ + n]
             /\ Return(t, IF n # Amount[t] THEN [call |-> "read", ok |-> FALSE]
                          ELSE [call |-> "read", ok |-> TRUE,
                                moved |-> SubSeq(data, offset[h] + 1, offset[h] + n)])
       /\ UNCHANGED data

\* Mutant: a short write counts as success.
WriteOkAlways(t, n) == TRUE

\* return (BytesWritten == Content.WriteCur)
WriteOk(t, n) == n = Len(Content[t])

\* write(File, Content.Base, Content.WriteCur)
Write(t) ==
    LET h == HandleOf[t]
        at == WriteAt(h)
    IN /\ pc[t] \in {"write", "append"}
       /\ \E n \in 0..Len(Content[t]) :
             /\ n = 0 \/ at + n <= MaxLen
             /\ data' = IF n = 0 THEN data ELSE Written(at, Content[t], n)
             /\ offset' = IF n = 0 THEN offset ELSE [offset EXCEPT ![h] = at + n]
             /\ Return(t, [call |-> pc[t], ok |-> WriteOk(t, n)])

(* Another process, or CreateNewFile with FORCE_CREATE, empties the file.   *)
Truncate ==
    /\ data' = <<>>
    /\ UNCHANGED <<offset, pc, op, StartPos, Amount, Content, answer>>

Next ==
    \/ \E t \in Threads :
          \/ \E pos \in Positions : SeekFile(t, pos)
          \/ \E s \in Contents : AppendToFile(t, s) \/ WriteEntireFile(t, s)
          \/ \E s \in Contents, pos \in Positions : WriteToFile(t, s, pos)
          \/ \E n \in Amounts, pos \in Positions, room \in Rooms : ReadFromFile(t, n, pos, room)
          \/ ReadEntireFile(t) \/ ReadEntireFileSized(t)
          \/ Seek(t) \/ Read(t) \/ Write(t)
    \/ Truncate

Spec == Init /\ [][Next]_vars

-----------------------------------------------------------------------------
(* Properties.                                                              *)

\* File f holds the bytes s from position pos on.
Holds(f, pos, s) == \A i \in DOMAIN s : pos + i \in DOMAIN f /\ f[pos + i] = s[i]

(* A ReadFromFile that returns true (and a ReadEntireFile that returns
   memory) has delivered all the bytes asked for, from the position asked
   for, as they are in the file when it reads, whatever other threads have
   done to the file since its size was tested.                              *)
ReadDeliversRequested ==
    [][\A t \in Threads :
         pc[t] = "read" /\ pc'[t] = "idle" /\ answer'.ok =>
             /\ Len(answer'.moved) = Amount[t]
             /\ Holds(data, StartPos[t], answer'.moved)]_vars

(* A WriteToFile or WriteEntireFile that returns true has put all of Content
   where it was asked to: at StartPos, or at the end of the file on a handle
   opened with APPEND_FILE.                                                 *)
WriteLandsAtStartPos ==
    [][\A t \in Threads :
         pc[t] = "write" /\ pc'[t] = "idle" /\ answer'.ok =>
             Holds(data', IF HandleOf[t] \in AppendHandles THEN Len(data) ELSE StartPos[t],
                   Content[t])]_vars

-----------------------------------------------------------------------------
(* The invariant behind the two properties.                                 *)

TypeOK ==
    /\ data \in Seq(Byte \cup {ZERO})
    /\ offset \in [Handles -> Nat]
    /\ pc \in [Threads -> {"idle", "sized", "seek", "read", "write", "append"}]
    /\ op \in [Threads -> {"none", "read", "write"}]
    /\ StartPos \in [Threads -> Nat]
    /\ Amount \in [Threads -> Nat]
    /\ Content \in [Threads -> Seq(Byte)]

\* No two threads share a handle: a seek and what follows it are two calls.
OwnHandles == \A t, u \in Threads : HandleOf[t] = HandleOf[u] => t = u

\* lseek takes every position for what it is.
PositionsAccepted == \A pos \in Positions \cup {0} : SeekAccepts(pos)

(* Between the seek of ReadFromFile or WriteToFile and the system call that
   follows it, the handle stays where the seek has put it.                  *)
IInv ==
    /\ TypeOK
    /\ \A t \in Threads :
          /\ pc[t] = "seek" => op[t] \in {"read", "write"} /\ SeekAccepts(StartPos[t])
          /\ pc[t] \in {"read", "write"} => offset[HandleOf[t]] = StartPos[t]
=============================================================================
