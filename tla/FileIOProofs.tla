----------------------------- MODULE FileIOProofs -----------------------------
(***************************************************************************)
(* Proofs about FileIO, for all threads that share no handle, every file,  *)
(* every content and every position that lseek accepts: between the seek   *)
(* and the read or write no other call moves the offset, so a call that    *)
(* answers true has moved the bytes at its StartPos, whatever the other    *)
(* threads do to the file and however short the system calls fall.         *)
(***************************************************************************)
EXTENDS FileIO, SequenceTheorems, TLAPS

-----------------------------------------------------------------------------
(* The kernel.                                                              *)

(* The file after a write is a sequence, with the bytes that were written at
   the place of the write.                                                  *)
LEMMA WrittenHolds ==
    ASSUME data \in Seq(Byte \cup {ZERO}), NEW s \in Seq(Byte), NEW at \in Nat,
           NEW n \in 0..Len(s)
    PROVE  /\ Written(at, s, n) \in Seq(Byte \cup {ZERO})
           /\ n = Len(s) => Holds(Written(at, s, n), at, s)
<1> DEFINE m == IF at + n > Len(data) THEN at + n ELSE Len(data)
           f == Written(at, s, n)
<1>1. m \in Nat /\ at + n <= m
  OBVIOUS
<1>2. f = [k \in 1..m |-> IF k \in (at + 1)..(at + n) THEN s[k - at]
                          ELSE IF k <= Len(data) THEN data[k] ELSE ZERO]
  BY DEF Written
<1>3. DOMAIN s = 1..Len(s) /\ DOMAIN data = 1..Len(data) /\ Len(s) \in Nat /\ Len(data) \in Nat
  OBVIOUS
<1>4. \A k \in 1..m : f[k] \in Byte \cup {ZERO}
  <2>1. SUFFICES ASSUME NEW k \in 1..m
                 PROVE  f[k] \in Byte \cup {ZERO}
    OBVIOUS
  <2>2. k \in (at + 1)..(at + n) => k - at \in 1..Len(s)
    BY <1>3
  <2>3. \A i \in 1..Len(s) : s[i] \in Byte
    BY <1>3
  <2>4. \A i \in 1..Len(data) : data[i] \in Byte \cup {ZERO}
    BY <1>3
  <2>5. k <= Len(data) => k \in 1..Len(data)
    BY <1>1, <1>3
  <2>6. QED
    BY <1>2, <2>2, <2>3, <2>4, <2>5
<1>5. f \in [1..m -> Byte \cup {ZERO}]
  BY <1>2, <1>4
<1>6. f \in Seq(Byte \cup {ZERO})
  BY <1>1, <1>5
<1>7. ASSUME n = Len(s)
      PROVE  Holds(f, at, s)
  <2>1. SUFFICES ASSUME NEW i \in 1..Len(s)
                 PROVE  at + i \in 1..m /\ f[at + i] = s[i]
    BY <1>2, <1>3 DEF Holds
  <2>2. at + i \in 1..m /\ at + i \in (at + 1)..(at + n) /\ (at + i) - at = i
    BY <1>1, <1>3, <1>7
  <2>3. QED
    BY <1>2, <2>2
<1>8. QED
  BY <1>6, <1>7

(* What read delivers: n bytes of the file, from position p on.             *)
LEMMA PartOfSequence ==
    ASSUME NEW S, NEW s \in Seq(S), NEW p \in Nat, NEW n \in Nat, n = 0 \/ p + n <= Len(s)
    PROVE  /\ Len(SubSeq(s, p + 1, p + n)) = n
           /\ DOMAIN SubSeq(s, p + 1, p + n) = 1..n
           /\ \A i \in 1..n : SubSeq(s, p + 1, p + n)[i] = s[p + i]
<1> DEFINE first == p + 1
           last == p + n
           part == SubSeq(s, first, last)
<1>1. first \in Int /\ last \in Int /\ last - first + 1 = n
  OBVIOUS
<1>2. \A i \in first..last : s[i] \in S
  BY ElementOfSeq
<1>3. \A i \in 1..n : first + i - 1 = p + i
  OBVIOUS
<1>4. first <= last <=> n # 0
  OBVIOUS
<1> HIDE DEF first, last
<1>5. /\ part \in Seq(S)
      /\ Len(part) = IF first <= last THEN last - first + 1 ELSE 0
      /\ \A i \in 1..(last - first + 1) : part[i] = s[first + i - 1]
  BY <1>1, <1>2, SubSeqProperties
<1>6. Len(part) = n
  BY <1>1, <1>4, <1>5
<1>7. DOMAIN part = 1..Len(part)
  BY <1>5
<1>8. \A i \in 1..n : part[i] = s[p + i]
  BY <1>1, <1>3, <1>5
<1>9. QED
  BY <1>6, <1>7, <1>8 DEF first, last

(* A seek to a position that lseek accepts goes there and moves no other
   handle.                                                                  *)
LEMMA SeekGoesThere ==
    ASSUME offset \in [Handles -> Nat], NEW h \in Handles, NEW pos \in Nat
    PROVE  /\ SeekResult(h, pos) \in [Handles -> Nat]
           /\ SeekAccepts(pos) => SeekResult(h, pos)[h] = pos
           /\ \A g \in Handles \ {h} : SeekResult(h, pos)[g] = offset[g]
  BY DEF SeekResult

-----------------------------------------------------------------------------
(* The invariant.                                                           *)

\* What the invariant says of one thread.
AtItsPlace(t) ==
    /\ pc[t] = "seek" => op[t] \in {"read", "write"} /\ SeekAccepts(StartPos[t])
    /\ pc[t] \in {"read", "write"} => offset[HandleOf[t]] = StartPos[t]

(* A step of a thread leaves the place of every other thread alone, if it
   moves no offset but that of its own handle.                              *)
LEMMA OthersStay ==
    ASSUME OwnHandles, IInv, NEW u \in Threads, NEW t \in Threads \ {u},
           offset' \in [Handles -> Nat],
           \A g \in Handles \ {HandleOf[u]} : offset'[g] = offset[g],
           pc'[t] = pc[t], op'[t] = op[t], StartPos'[t] = StartPos[t]
    PROVE  AtItsPlace(t)'
<1>1. HandleOf[t] \in Handles \ {HandleOf[u]}
  BY FileIOAssumption DEF OwnHandles
<1>2. QED
  BY <1>1 DEF IInv, AtItsPlace, SeekAccepts

(* So that the invariant holds after a step that keeps the types and the
   place of the thread itself.                                              *)
LEMMA OwnStep ==
    ASSUME OwnHandles, IInv, TypeOK', NEW u \in Threads, AtItsPlace(u)',
           \A g \in Handles \ {HandleOf[u]} : offset'[g] = offset[g],
           \A t \in Threads \ {u} :
              pc'[t] = pc[t] /\ op'[t] = op[t] /\ StartPos'[t] = StartPos[t]
    PROVE  IInv'
<1>1. offset' \in [Handles -> Nat]
  BY DEF TypeOK
<1>2. \A t \in Threads \ {u} : AtItsPlace(t)'
  BY <1>1, OthersStay
<1>3. \A t \in Threads : AtItsPlace(t)'
  BY <1>2
<1>4. QED
  BY <1>3 DEF IInv, AtItsPlace, SeekAccepts

(* The call of a thread returns, and the thread is at no place.             *)
LEMMA ReturnPreserves ==
    ASSUME OwnHandles, IInv, NEW u \in Threads, NEW r, Return(u, r),
           data' \in Seq(Byte \cup {ZERO}), offset' \in [Handles -> Nat],
           \A g \in Handles \ {HandleOf[u]} : offset'[g] = offset[g]
    PROVE  IInv'
<1>1. TypeOK'
  <2>1. <<>> \in Seq(Byte)
    OBVIOUS
  <2>2. QED
    BY <2>1 DEF IInv, TypeOK, Return
<1>2. AtItsPlace(u)'
  BY DEF IInv, TypeOK, Return, AtItsPlace
<1>3. \A t \in Threads \ {u} : pc'[t] = pc[t] /\ op'[t] = op[t] /\ StartPos'[t] = StartPos[t]
  BY DEF IInv, TypeOK, Return
<1>4. QED
  BY <1>1, <1>2, <1>3, OwnStep

(* The test of ReadFromFile either ends the call or goes on to a seek to a
   position that lseek accepts.                                             *)
LEMMA SizeTestPreserves ==
    ASSUME OwnHandles, IInv, NEW u \in Threads, NEW amount \in Nat, NEW pos \in Nat,
           NEW room, SeekAccepts(pos), SizeTest(u, amount, pos, room)
    PROVE  IInv'
<1>1. CASE ReadRefused(u)
  BY <1>1, ReturnPreserves DEF ReadRefused, IInv, TypeOK
<1>2. CASE ~ReadRefused(u)
  <2>1. /\ pc' = [pc EXCEPT ![u] = "seek"]
        /\ op' = [op EXCEPT ![u] = "read"]
        /\ StartPos' = [StartPos EXCEPT ![u] = pos]
        /\ Amount' = [Amount EXCEPT ![u] = amount]
        /\ UNCHANGED <<data, offset, Content, answer>>
    BY <1>2 DEF SizeTest
  <2>2. TypeOK'
    BY <2>1 DEF IInv, TypeOK
  <2>3. AtItsPlace(u)'
    BY <2>1 DEF IInv, TypeOK, AtItsPlace, SeekAccepts
  <2>4. \A t \in Threads \ {u} : pc'[t] = pc[t] /\ op'[t] = op[t] /\ StartPos'[t] = StartPos[t]
    BY <2>1 DEF IInv, TypeOK
  <2>5. QED
    BY <2>1, <2>2, <2>3, <2>4, OwnStep
<1>3. QED
  BY <1>1, <1>2

\* A thread that is idle calls ReadEntireFile; nothing but its size is known.
LEMMA ReadEntireFilePreserves ==
    ASSUME OwnHandles, IInv, NEW u \in Threads, ReadEntireFile(u)
    PROVE  IInv'
<1>1. CASE ReadRefused(u)
  BY <1>1, ReturnPreserves DEF ReadRefused, IInv, TypeOK
<1>2. CASE ~ReadRefused(u)
  <2>1. /\ pc' = [pc EXCEPT ![u] = "sized"]
        /\ Amount' = [Amount EXCEPT ![u] = Len(data)]
        /\ UNCHANGED <<data, offset, op, StartPos, Content, answer>>
    BY <1>2, Zenon DEF ReadEntireFile, FileSizeOf
  <2>2. TypeOK'
    <3>1. Len(data) \in Nat
      BY DEF IInv, TypeOK
    <3>2. QED
      BY <2>1, <3>1 DEF IInv, TypeOK
  <2>3. QED
    BY <2>1, <2>2, OwnStep DEF IInv, TypeOK, AtItsPlace
<1>3. QED
  BY <1>1, <1>2

\* A call of WriteToFile goes on to a seek to a position that lseek accepts.
LEMMA WriteToFilePreserves ==
    ASSUME OwnHandles, IInv, NEW u \in Threads, NEW s \in Seq(Byte), NEW p \in Nat,
           SeekAccepts(p), WriteToFile(u, s, p)
    PROVE  IInv'
<1>1. TypeOK'
  BY DEF WriteToFile, IInv, TypeOK
<1>2. AtItsPlace(u)'
  BY DEF WriteToFile, IInv, TypeOK, AtItsPlace, SeekAccepts
<1>3. QED
  BY <1>1, <1>2, OwnStep DEF WriteToFile, IInv, TypeOK

\* The seek puts the handle where the read or write that follows belongs.
LEMMA SeekPreserves ==
    ASSUME OwnHandles, IInv, NEW u \in Threads, Seek(u)
    PROVE  IInv'
<1> DEFINE h == HandleOf[u]
<1>1. h \in Handles /\ StartPos[u] \in Nat
  BY FileIOAssumption DEF IInv, TypeOK
<1>2. op[u] \in {"read", "write"} /\ SeekAccepts(StartPos[u])
  BY DEF Seek, IInv
<1>3. /\ offset' \in [Handles -> Nat] /\ offset'[h] = StartPos[u]
      /\ \A g \in Handles \ {h} : offset'[g] = offset[g]
  BY <1>1, <1>2, SeekGoesThere DEF Seek, IInv, TypeOK
<1>4. TypeOK'
  BY <1>2, <1>3 DEF Seek, IInv, TypeOK
<1>5. AtItsPlace(u)'
  BY <1>2, <1>3 DEF Seek, IInv, TypeOK, AtItsPlace
<1>6. QED
  BY <1>3, <1>4, <1>5, OwnStep DEF Seek, IInv, TypeOK

\* The read moves the offset of its own handle and ends the call.
LEMMA ReadPreserves ==
    ASSUME OwnHandles, IInv, NEW u \in Threads, Read(u)
    PROVE  IInv'
<1> DEFINE h == HandleOf[u]
<1>1. PICK n \in Nat :
         offset' = [offset EXCEPT ![h] = @ + n] /\ (\E r : Return(u, r)) /\ data' = data
  <2> DEFINE there == IF offset[h] < Len(data) THEN Len(data) - offset[h] ELSE 0
  <2>1. 0..Lesser(there, Amount[u]) \subseteq Nat
    OBVIOUS
  <2> HIDE DEF there
  <2>2. QED
    BY <2>1 DEF Read, there
<1>2. h \in Handles
  BY FileIOAssumption
<1>3. offset' \in [Handles -> Nat] /\ \A g \in Handles \ {h} : offset'[g] = offset[g]
  BY <1>1, <1>2 DEF IInv, TypeOK
<1>4. QED
  BY <1>1, <1>3, ReturnPreserves DEF IInv, TypeOK

\* So does the write, and leaves a file of bytes.
LEMMA WritePreserves ==
    ASSUME OwnHandles, IInv, NEW u \in Threads, Write(u)
    PROVE  IInv'
<1> DEFINE h == HandleOf[u]
           at == WriteAt(h)
<1>1. PICK n \in 0..Len(Content[u]) :
         /\ data' = IF n = 0 THEN data ELSE Written(at, Content[u], n)
         /\ offset' = IF n = 0 THEN offset ELSE [offset EXCEPT ![h] = at + n]
         /\ \E r : Return(u, r)
  BY DEF Write
<1>2. h \in Handles /\ Content[u] \in Seq(Byte) /\ data \in Seq(Byte \cup {ZERO})
  BY FileIOAssumption DEF IInv, TypeOK
<1>3. at \in Nat
  BY <1>2 DEF WriteAt, IInv, TypeOK
<1>4. data' \in Seq(Byte \cup {ZERO})
  BY <1>1, <1>2, <1>3, WrittenHolds
<1>5. Len(Content[u]) \in Nat
  BY <1>2
<1>6. at + n \in Nat
  BY <1>3, <1>5
<1>7. offset' \in [Handles -> Nat] /\ \A g \in Handles \ {h} : offset'[g] = offset[g]
  BY <1>1, <1>2, <1>6 DEF IInv, TypeOK
<1>8. QED
  BY <1>1, <1>4, <1>7, ReturnPreserves

(* Every step of every thread, and of those outside the process, keeps the
   invariant.                                                               *)
LEMMA StepPreserves ==
    ASSUME OwnHandles, PositionsAccepted, IInv, [Next]_vars
    PROVE  IInv'
<1> USE FileIOAssumption
<1>1. /\ \A pos \in Positions : pos \in Nat /\ SeekAccepts(pos)
      /\ SeekAccepts(0)
  BY DEF PositionsAccepted
<1>2. \A n \in Amounts : n \in Nat
  OBVIOUS
<1>3. ASSUME NEW t \in Threads, NEW pos \in Positions, SeekFile(t, pos)
      PROVE  IInv'
  <2>1. HandleOf[t] \in Handles /\ pos \in Nat
    BY <1>1
  <2>2. /\ offset' \in [Handles -> Nat]
        /\ \A g \in Handles \ {HandleOf[t]} : offset'[g] = offset[g]
    <3>1. offset \in [Handles -> Nat]
      BY DEF IInv, TypeOK
    <3>2. offset' = SeekResult(HandleOf[t], pos)
      BY <1>3 DEF SeekFile
    <3>3. QED
      BY <2>1, <3>1, <3>2, SeekGoesThere
  <2>3. TypeOK'
    BY <1>3, <2>2 DEF SeekFile, IInv, TypeOK
  <2>4. AtItsPlace(t)'
    BY <1>3 DEF SeekFile, AtItsPlace
  <2>5. QED
    BY <1>3, <2>2, <2>3, <2>4, OwnStep DEF SeekFile
<1>4. ASSUME NEW t \in Threads, NEW s \in Contents, AppendToFile(t, s)
      PROVE  IInv'
  <2>1. s \in Seq(Byte)
    OBVIOUS
  <2>2. TypeOK' /\ AtItsPlace(t)'
    BY <1>4, <2>1 DEF AppendToFile, IInv, TypeOK, AtItsPlace
  <2>3. QED
    BY <1>4, <2>2, OwnStep DEF AppendToFile, IInv, TypeOK
<1>5. ASSUME NEW t \in Threads, NEW s \in Contents, WriteEntireFile(t, s)
      PROVE  IInv'
  BY <1>1, <1>5, WriteToFilePreserves DEF WriteEntireFile
<1>6. ASSUME NEW t \in Threads, NEW s \in Contents, NEW pos \in Positions, WriteToFile(t, s, pos)
      PROVE  IInv'
  BY <1>1, <1>6, WriteToFilePreserves
<1>7. ASSUME NEW t \in Threads, NEW n \in Amounts, NEW pos \in Positions, NEW room \in Rooms,
             ReadFromFile(t, n, pos, room)
      PROVE  IInv'
  BY <1>1, <1>2, <1>7, SizeTestPreserves DEF ReadFromFile
<1>8. ASSUME NEW t \in Threads, ReadEntireFileSized(t)
      PROVE  IInv'
  <2>1. Amount[t] \in Nat
    BY DEF IInv, TypeOK
  <2>2. QED
    BY <1>1, <1>8, <2>1, SizeTestPreserves DEF ReadEntireFileSized
<1>9. CASE Truncate
  <2>1. <<>> \in Seq(Byte \cup {ZERO})
    OBVIOUS
  <2>2. QED
    BY <1>9, <2>1 DEF Truncate, IInv, TypeOK, SeekAccepts
<1>10. CASE UNCHANGED vars
  BY <1>10 DEF vars, IInv, TypeOK, SeekAccepts
<1>11. QED
  BY <1>3, <1>4, <1>5, <1>6, <1>7, <1>8, <1>9, <1>10, ReadEntireFilePreserves, SeekPreserves,
     ReadPreserves, WritePreserves DEF Next

(* The handle stays where the seek of a call has put it until the call's read
   or write, for all threads that share no handle.                          *)
THEOREM Invariant == OwnHandles /\ PositionsAccepted => (Spec => []IInv)
<1> SUFFICES ASSUME OwnHandles, PositionsAccepted
             PROVE  Spec => []IInv
  OBVIOUS
<1>1. Init => IInv
  <2>1. <<>> \in Seq(Byte) /\ <<>> \in Seq(Byte \cup {ZERO})
    OBVIOUS
  <2>2. QED
    BY <2>1 DEF Init, IInv, TypeOK
<1>2. IInv /\ [Next]_vars => IInv'
  BY StepPreserves
<1>3. QED
  BY <1>1, <1>2, PTL DEF Spec

-----------------------------------------------------------------------------
(* What the calls have done.                                                *)

\* Only its own read or write ends a call that has made its seek.
LEMMA LastStepIsOwn ==
    ASSUME [Next]_vars, NEW t \in Threads, TypeOK, pc[t] \in {"read", "write"}, pc'[t] = "idle"
    PROVE  Read(t) \/ Write(t)
<1> DEFINE Other(u) ==
        \/ \E pos \in Positions : SeekFile(u, pos)
        \/ \E s \in Contents : AppendToFile(u, s) \/ WriteEntireFile(u, s)
        \/ \E s \in Contents, pos \in Positions : WriteToFile(u, s, pos)
        \/ \E n \in Amounts, pos \in Positions, room \in Rooms : ReadFromFile(u, n, pos, room)
        \/ ReadEntireFile(u) \/ ReadEntireFileSized(u) \/ Seek(u)
<1>1. ASSUME NEW u \in Threads, Other(u)
      PROVE  FALSE
  <2>1. pc[u] \in {"idle", "sized", "seek"}
    BY <1>1 DEF SeekFile, AppendToFile, WriteEntireFile, WriteToFile, ReadFromFile,
                ReadEntireFile, ReadEntireFileSized, Seek
  <2>2. \E x : pc' = pc \/ pc' = [pc EXCEPT ![u] = x]
    BY <1>1 DEF SeekFile, AppendToFile, WriteEntireFile, WriteToFile, ReadFromFile,
                ReadEntireFile, ReadEntireFileSized, Seek, SizeTest, ReadRefused, Return
  <2>3. u # t
    BY <2>1
  <2>4. QED
    BY <2>2, <2>3 DEF TypeOK
<1>2. ASSUME NEW u \in Threads, Read(u) \/ Write(u)
      PROVE  u = t
  <2>1. pc' = [pc EXCEPT ![u] = "idle"]
    BY <1>2 DEF Read, Write, Return
  <2>2. QED
    BY <2>1 DEF TypeOK
<1>3. CASE Truncate \/ UNCHANGED vars
  BY <1>3 DEF Truncate, vars
<1>4. QED
  BY <1>1, <1>2, <1>3 DEF Next

(* A ReadFromFile or ReadEntireFile that answers true has delivered every byte
   asked for, from the position asked for, as it is in the file when it reads. *)
THEOREM ReadIsExact ==
    OwnHandles /\ PositionsAccepted => (Spec => ReadDeliversRequested)
<1> SUFFICES ASSUME OwnHandles, PositionsAccepted
             PROVE  Spec => ReadDeliversRequested
  OBVIOUS
<1> DEFINE A == \A t \in Threads :
                   pc[t] = "read" /\ pc'[t] = "idle" /\ answer'.ok =>
                      /\ Len(answer'.moved) = Amount[t]
                      /\ Holds(data, StartPos[t], answer'.moved)
<1>1. ASSUME IInv, [Next]_vars, NEW t \in Threads,
             pc[t] = "read", pc'[t] = "idle", answer'.ok
      PROVE  Len(answer'.moved) = Amount[t] /\ Holds(data, StartPos[t], answer'.moved)
  <2> DEFINE h == HandleOf[t]
  <2>1. Read(t)
    BY <1>1, LastStepIsOwn DEF IInv, Write
  <2>2. h \in Handles /\ offset[h] = StartPos[t] /\ StartPos[t] \in Nat /\ Amount[t] \in Nat
    BY <1>1, FileIOAssumption DEF IInv, TypeOK
  <2>3. data \in Seq(Byte \cup {ZERO}) /\ Len(data) \in Nat
    BY <1>1 DEF IInv, TypeOK
  <2> DEFINE there == IF offset[h] < Len(data) THEN Len(data) - offset[h] ELSE 0
  <2>4. PICK n \in 0..Lesser(there, Amount[t]) :
           Return(t, IF n # Amount[t] THEN [call |-> "read", ok |-> FALSE]
                     ELSE [call |-> "read", ok |-> TRUE,
                           moved |-> SubSeq(data, offset[h] + 1, offset[h] + n)])
    BY <2>1 DEF Read
  <2>5. answer' = IF n # Amount[t] THEN [call |-> "read", ok |-> FALSE]
                  ELSE [call |-> "read", ok |-> TRUE,
                        moved |-> SubSeq(data, offset[h] + 1, offset[h] + n)]
    BY <2>4 DEF Return
  <2>6. n = Amount[t]
    BY <1>1, <2>5
  <2>7. answer'.moved = SubSeq(data, StartPos[t] + 1, StartPos[t] + n)
    BY <2>2, <2>5, <2>6
  <2>8. n = 0 \/ StartPos[t] + n <= Len(data)
    BY <2>2, <2>3, <2>6 DEF Lesser
  <2>9. /\ Len(answer'.moved) = n /\ DOMAIN answer'.moved = 1..n
        /\ \A i \in 1..n : answer'.moved[i] = data[StartPos[t] + i]
    <3>1. /\ StartPos[t] \in Nat /\ n \in Nat
          /\ n = 0 \/ StartPos[t] + n <= Len(data)
      BY <2>2, <2>6, <2>8
    <3> DEFINE part == SubSeq(data, StartPos[t] + 1, StartPos[t] + n)
    <3>2. /\ Len(part) = n /\ DOMAIN part = 1..n
          /\ \A i \in 1..n : part[i] = data[StartPos[t] + i]
      BY SMTT(30), <2>3, <3>1, PartOfSequence
    <3>3. answer'.moved = part
      BY <2>7
    <3> HIDE DEF part
    <3>4. QED
      BY <3>2, <3>3
  <2>10. \A i \in 1..n : StartPos[t] + i \in DOMAIN data
    BY <2>2, <2>3, <2>6, <2>8
  <2>11. QED
    BY <2>6, <2>9, <2>10 DEF Holds
<1>2. IInv /\ [Next]_vars => [A]_vars
  BY <1>1
<1>3. QED
  BY <1>2, Invariant, PTL DEF Spec, ReadDeliversRequested

(* A WriteToFile or WriteEntireFile that answers true has put all of its
   Content at StartPos, or at the end of a file opened with APPEND_FILE.    *)
THEOREM WriteIsExact ==
    OwnHandles /\ PositionsAccepted => (Spec => WriteLandsAtStartPos)
<1> SUFFICES ASSUME OwnHandles, PositionsAccepted
             PROVE  Spec => WriteLandsAtStartPos
  OBVIOUS
<1> DEFINE place(t) == IF HandleOf[t] \in AppendHandles THEN Len(data) ELSE StartPos[t]
           A == \A t \in Threads :
                   pc[t] = "write" /\ pc'[t] = "idle" /\ answer'.ok =>
                      Holds(data', place(t), Content[t])
<1>1. ASSUME IInv, [Next]_vars, NEW t \in Threads,
             pc[t] = "write", pc'[t] = "idle", answer'.ok
      PROVE  Holds(data', place(t), Content[t])
  <2> DEFINE h == HandleOf[t]
  <2>1. Write(t)
    BY <1>1, LastStepIsOwn DEF IInv, Read
  <2>2. /\ offset[h] = StartPos[t] /\ StartPos[t] \in Nat /\ Content[t] \in Seq(Byte)
        /\ data \in Seq(Byte \cup {ZERO})
    BY <1>1, FileIOAssumption DEF IInv, TypeOK
  <2>3. place(t) = WriteAt(h) /\ WriteAt(h) \in Nat
    BY <2>2 DEF WriteAt
  <2>4. PICK n \in 0..Len(Content[t]) :
           /\ data' = IF n = 0 THEN data ELSE Written(WriteAt(h), Content[t], n)
           /\ Return(t, [call |-> pc[t], ok |-> WriteOk(t, n)])
    BY <2>1 DEF Write
  <2>5. n = Len(Content[t])
    BY <1>1, <2>4 DEF Return, WriteOk
  <2>6. CASE n = 0
    <3>1. DOMAIN Content[t] = 1..Len(Content[t])
      BY <2>2
    <3>2. Len(Content[t]) = 0
      BY <2>5, <2>6
    <3>3. \A i \in 1..0 : FALSE
      OBVIOUS
    <3>4. QED
      BY <3>1, <3>2, <3>3 DEF Holds
  <2>7. CASE n # 0
    BY <2>2, <2>3, <2>4, <2>5, <2>7, WrittenHolds
  <2>8. QED
    BY <2>6, <2>7
<1>2. IInv /\ [Next]_vars => [A]_vars
  BY <1>1
<1>3. QED
  BY <1>2, Invariant, PTL DEF Spec, WriteLandsAtStartPos

=============================================================================
