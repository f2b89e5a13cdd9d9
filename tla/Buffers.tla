------------------------------- MODULE Buffers -------------------------------
(***************************************************************************)
(* The buffer of tinybase-memory.c and the operations that edit it:        *)
(* ClearBuffer, AdvanceBuffer, CopyData, AppendDataToBuffer,               *)
(* AppendBufferToBuffer, AppendBufferToBufferNTimes, ReplaceByteInBuffer;  *)
(* InitBuffersArch, which chooses the versions of the query functions.     *)
(*                                                                         *)
(* The buffer lies at the start of an allocation of Alloc bytes; Base is   *)
(* an offset into it.  usz has UszBits bits and wraps.  Loops that write   *)
(* memory take one step per iteration.                                     *)
(***************************************************************************)
EXTENDS BufferQuery

CONSTANTS
    Features,       \* what LoadCPUArch may report: sets of SSE2, SSE3, AVX2
    Alloc,          \* bytes allocated for the buffer
    Byte, ZERO,     \* the bytes data is made of, and the byte 0
    Shapes,         \* the pairs <<data, Size>> the buffer may start with
    Sources,        \* the data that is appended: sequences of bytes
    Counts,         \* the counts of AppendBufferToBufferNTimes
    Replacements,   \* the pairs <<OldByte, NewByte>> of ReplaceByteInBuffer
    Steps           \* how far AdvanceBuffer is asked to advance

ASSUME BuffersAssumption ==
    /\ Alloc \in 1..(UszMod - 1)
    /\ ZERO \notin Byte
    /\ \A p \in Shapes : p \in Seq(Byte) \X {0, Alloc} /\ Len(p[1]) <= Alloc
    /\ \A s \in Sources : s \in Seq(Byte) /\ Len(s) < UszMod
    /\ Counts \subseteq 0..(UszMod - 1)
    /\ Replacements \subseteq Byte \X Byte
    /\ Steps \subseteq 0..(UszMod - 1)

VARIABLES
    mem,                    \* the allocated bytes
    Base, WriteCur, Size,   \* the fields of the buffer
    cpu, Arch,              \* the features of the CPU, the versions installed
    pc,                     \* "idle", or the function whose loop is running
    Src, Count,             \* arguments of the running NTimes
    Old, New, RBase, RCur,  \* arguments of the running Replace, by value
    content,                \* history: what the calls have put in the buffer
    wild                    \* history: memory outside the allocation was written

buf == <<Base, WriteCur, Size, cpu, Arch>>
locals == <<Src, Count, Old, New, RBase, RCur>>
vars == <<mem, buf, pc, locals, content, wild>>

Usz(n) == n % UszMod
Minus(a, b) == (a + UszMod - b) % UszMod

\* Buffer(Ptr, WriteCur, Size), with Ptr at the start of the allocation
Buffer(data, size) ==
    /\ mem = [a \in 0..(Alloc - 1) |-> IF a < Len(data) THEN data[a + 1] ELSE ZERO]
    /\ Base = 0 /\ WriteCur = Len(data) /\ Size = size
    /\ content = data

Init ==
    /\ \E p \in Shapes : Buffer(p[1], p[2])
    /\ cpu \in Features /\ Arch = Scalar
    /\ pc = "idle"
    /\ Src = <<>> /\ Count = 0
    /\ Old = ZERO /\ New = ZERO /\ RBase = 0 /\ RCur = 0
    /\ wild = FALSE

-----------------------------------------------------------------------------
\* memcpy or memset of the bytes s to offset at.
Store(at, s) ==
    /\ mem' = [a \in DOMAIN mem |-> IF a \in at..(at + Len(s) - 1) THEN s[a - at + 1] ELSE mem[a]]
    /\ wild' = (wild \/ (Len(s) > 0 /\ at + Len(s) > Alloc))

\* Mutant: one byte too many is accepted.
CopyFitsOneMore(DstSize, SrcSize) == DstSize + 1 >= SrcSize

\* CopyData copies if (DstSize >= SrcSize)
CopyFits(DstSize, SrcSize) == DstSize >= SrcSize

Room == Minus(Size, WriteCur)

\* No call is looked at after one that wrote outside the allocation.
Idle == pc = "idle" /\ ~wild
Call == Idle /\ UNCHANGED <<pc, locals>>

\* memset of the whole Size, then WriteCur = 0
ClearBuffer ==
    /\ Call
    /\ Store(Base, [k \in 1..Size |-> ZERO])
    /\ WriteCur' = 0
    /\ content' = <<>>
    /\ UNCHANGED <<Base, Size, cpu, Arch>>

\* Base += NumBytes, WriteCur -= NumBytes
AdvanceBuffer(NumBytes) ==
    /\ Call
    /\ Base' = Usz(Base + NumBytes)
    /\ WriteCur' = Minus(WriteCur, NumBytes)
    /\ content' = SubSeq(content, NumBytes + 1, Len(content))
    /\ UNCHANGED <<mem, wild, Size, cpu, Arch>>

\* Mutant: WriteCur is advanced whether or not the data fitted.
AppendIgnoringResult(s) ==
    /\ Call
    /\ IF CopyFits(Room, Len(s))
       THEN Store(Base + WriteCur, s) /\ content' = content \o s
       ELSE UNCHANGED <<mem, wild, content>>
    /\ WriteCur' = Usz(WriteCur + Len(s))
    /\ UNCHANGED <<Base, Size, cpu, Arch>>

\* CopyData to Base + WriteCur; WriteCur advances if it succeeds.
AppendDataToBuffer(s) ==
    /\ Call
    /\ IF CopyFits(Room, Len(s))
       THEN /\ Store(Base + WriteCur, s)
            /\ WriteCur' = Usz(WriteCur + Len(s))
            /\ content' = content \o s
       ELSE UNCHANGED <<mem, wild, WriteCur, content>>
    /\ UNCHANGED <<Base, Size, cpu, Arch>>

\* The same, from a buffer: Src.WriteCur bytes at Src.Base.
AppendBufferToBuffer(s) == AppendDataToBuffer(s)

-----------------------------------------------------------------------------
(* AppendBufferToBufferNTimes: the test of the total, then one iteration of
   while (Count--) per step.  The result of CopyData is not looked at.      *)

NTimesCall(s, n) ==
    /\ Idle
    /\ Usz(Len(s) * n) <= Room
    /\ pc' = "ntimes"
    /\ Src' = s
    /\ Count' = n
    /\ UNCHANGED <<mem, buf, Old, New, RBase, RCur, content, wild>>

NTimesRefused(s, n) ==
    /\ Call
    /\ Usz(Len(s) * n) > Room
    /\ UNCHANGED <<mem, buf, content, wild>>

NTimesCopy ==
    /\ pc = "ntimes"
    /\ Count > 0
    /\ Count' = Count - 1
    /\ IF CopyFits(Room, Len(Src)) THEN Store(Base + WriteCur, Src) ELSE UNCHANGED <<mem, wild>>
    /\ WriteCur' = Usz(WriteCur + Len(Src))
    /\ content' = content \o Src
    /\ UNCHANGED <<Base, Size, cpu, Arch, pc, Src, Old, New, RBase, RCur>>

NTimesReturn ==
    /\ pc = "ntimes"
    /\ Count = 0
    /\ pc' = "idle"
    /\ Src' = <<>>
    /\ UNCHANGED <<mem, buf, Count, Old, New, RBase, RCur, content, wild>>

AppendBufferToBufferNTimes ==
    \/ \E s \in Sources, n \in Counts : NTimesCall(s, n) \/ NTimesRefused(s, n)
    \/ NTimesCopy
    \/ NTimesReturn

-----------------------------------------------------------------------------
(* ReplaceByteInBuffer, on its own copy of the buffer.                      *)

\* The buffer at offset base, in an allocation aligned for the vector loads
View(base, cur) ==
    [mem |-> [x \in XMM256_SIZE..(XMM256_SIZE + Alloc - 1) |-> mem[x - XMM256_SIZE]],
     Base |-> XMM256_SIZE + base, WriteCur |-> cur]

FoundIdx == ByteInBuffer(Old, View(RBase, RCur), {"RETURN_IDX_FIND"}, Arch)

ReplaceCall(o, n) ==
    /\ Idle
    /\ pc' = "replace"
    /\ Old' = o /\ New' = n
    /\ RBase' = Base /\ RCur' = WriteCur
    /\ content' = [k \in DOMAIN content |-> IF content[k] = o THEN n ELSE content[k]]
    /\ UNCHANGED <<mem, buf, Src, Count, wild>>

\* Mutant: the byte is found and passed over, not replaced.
ReplaceOneNoStore ==
    /\ pc = "replace"
    /\ FoundIdx # INVALID_IDX
    /\ RBase' = RBase + FoundIdx
    /\ RCur' = RCur - FoundIdx
    /\ UNCHANGED <<mem, wild, buf, pc, Src, Count, Old, New, content>>

\* Buffer.Base[FoundIdx] = NewByte; AdvanceBuffer(&Buffer, FoundIdx)
ReplaceOne ==
    /\ pc = "replace"
    /\ FoundIdx # INVALID_IDX
    /\ Store(RBase + FoundIdx, <<New>>)
    /\ RBase' = RBase + FoundIdx
    /\ RCur' = RCur - FoundIdx
    /\ UNCHANGED <<buf, pc, Src, Count, Old, New, content>>

ReplaceReturn ==
    /\ pc = "replace"
    /\ FoundIdx = INVALID_IDX
    /\ pc' = "idle"
    /\ Old' = ZERO /\ New' = ZERO /\ RBase' = 0 /\ RCur' = 0
    /\ UNCHANGED <<mem, buf, Src, Count, content, wild>>

ReplaceByteInBuffer ==
    (\E r \in Replacements : ReplaceCall(r[1], r[2])) \/ ReplaceOne \/ ReplaceReturn

-----------------------------------------------------------------------------
\* Called once the program knows its CPU; other calls may have come before.
InitBuffersArch ==
    /\ Call
    /\ Arch' = InitArch(cpu)
    /\ UNCHANGED <<mem, Base, WriteCur, Size, cpu, content, wild>>

\* The program advances no further than the data: nothing in the code stops it.
Next ==
    \/ InitBuffersArch
    \/ ClearBuffer
    \/ \E n \in Steps : n <= WriteCur /\ AdvanceBuffer(n)
    \/ \E s \in Sources : AppendDataToBuffer(s) \/ AppendBufferToBuffer(s)
    \/ AppendBufferToBufferNTimes
    \/ ReplaceByteInBuffer

Spec == Init /\ [][Next]_vars

\* A loop that has begun keeps running: nothing in it waits.
FairSpec == Spec /\ WF_vars(NTimesCopy \/ NTimesReturn \/ ReplaceOne \/ ReplaceReturn)

-----------------------------------------------------------------------------
(* Properties.                                                              *)

(* No sequence of calls writes outside the allocation, as long as
   AdvanceBuffer has not moved Base: it leaves Size alone.                  *)
WritesInBounds == [][Base = 0 /\ ~wild => ~wild']_vars

(* Between calls the buffer holds exactly what the calls that answered true
   have put there, in their order and with their replacements, less what
   AdvanceBuffer has passed over: a refused append leaves nothing behind.   *)
ContentIntact ==
    pc = "idle" /\ ~wild =>
        /\ WriteCur = Len(content)
        /\ Base + WriteCur <= Alloc
        /\ \A k \in 1..Len(content) : mem[Base + k - 1] = content[k]

(* The answers for an occurrence at k.  For RETURN_PTR_AFTER and no occurrence
   tinybase-memory.h:103 has INVALID_IDX; NULL is what the code answers and the
   tests ask for (test-memory.c:268 and 293).  Behind the occurrence is k + len,
   as in test-memory.c:288; the example in tinybase-memory.h:118 counts one more. *)
Buf == View(Base, WriteCur)
Returns(len, k) ==
    {<<"RETURN_BOOL", IF k = INVALID_IDX THEN 0 ELSE 1>>,
     <<"RETURN_IDX_FIND", k>>,
     <<"RETURN_IDX_AFTER", IF k = INVALID_IDX THEN k ELSE k + len>>,
     <<"RETURN_PTR_FIND", IF k = INVALID_IDX THEN NULL ELSE Buf.Base + k>>,
     <<"RETURN_PTR_AFTER", IF k = INVALID_IDX THEN NULL ELSE Buf.Base + k + len>>}

\* What a search for s in the first n bytes must answer: first or last occurrence
Occurrences(s, n) ==
    {k \in 0..(n - Len(s)) : SubSeq(content, k + 1, k + Len(s)) = s}
FirstOccurrence(s, n) == LET at == Occurrences(s, n) IN IF at = {} THEN INVALID_IDX ELSE Min(at)
LastOccurrence(s, n) == LET at == Occurrences(s, n) IN IF at = {} THEN INVALID_IDX ELSE Max(at)

(* Whichever version is installed and wherever Base lies in its vector,
   ByteInBuffer finds a byte in a first part of the data exactly when the calls
   have put it there, first or last as asked, never one before Base or behind
   the part, and each flag makes the right thing of its offset.             *)
ByteSearchExact ==
    pc = "idle" /\ ~wild => \A n \in 0..WriteCur, c \in Byte :
        /\ \A r \in Returns(1, FirstOccurrence(<<c>>, n)) :
               ByteInBuffer(c, View(Base, n), {r[1]}, Arch) = r[2]
        /\ \A r \in Returns(1, LastOccurrence(<<c>>, n)) :
               ByteInBuffer(c, View(Base, n), {r[1], "SEARCH_REVERSE"}, Arch) = r[2]

BufferSearchExactFor(s) ==
    \A n \in 0..WriteCur :
        /\ \A r \in Returns(Len(s), FirstOccurrence(s, n)) :
               DataInBuffer(s, View(Base, n), {r[1]}, Arch) = r[2]
        /\ \A r \in Returns(Len(s), LastOccurrence(s, n)) :
               DataInBuffer(s, View(Base, n), {r[1], "SEARCH_REVERSE"}, Arch) = r[2]

(* The same for BufferInBuffer and DataInBuffer and needles of any length,
   the ones longer than the data and than a vector too, and never one that runs
   past the part, but for the AVX2 version.                                 *)
BufferSearchExact ==
    pc = "idle" /\ ~wild /\ Arch.buffer # "AVX2" =>
        \A s \in Sources \ {<<>>} : BufferSearchExactFor(s)

(* tinybase-memory.h: BufferInBuffer "searches for instance of [Needle] in
   [Haystack]", whichever version is installed.                             *)
BufferSearchExactAll ==
    pc = "idle" /\ ~wild => \A s \in Sources \ {<<>>} : BufferSearchExactFor(s)

(* CompareBuffers answers where the buffer and other data first differ, and
   EqualBuffers whether they are the same, for what the calls have put in the
   buffer and also when both lie in the same memory.  As many bytes are compared
   as both have: CompareBuffers does not look at WriteCur.  RETURN_PTR_DIFF is
   for a difference: without one it gives the pointer behind the data, where
   tinybase-memory.h:104 has the length.                                    *)
CompareExact ==
    pc = "idle" /\ ~wild => \A s \in Sources, k \in 0..WriteCur :
        LET rest == SubSeq(content, k + 1, WriteCur)
            B == View(Base + k, WriteCur - k)
        IN  /\ EqualBuffers(B, DataBuffer(s)) <=> rest = s
            /\ EqualBuffers(Buf, B) <=> rest = content
            /\ \A n \in 0..Min({Len(s), Len(rest)}) :
                  LET d == CompareBuffers(B, DataBuffer(s), n, "RETURN_IDX_DIFF")
                  IN  /\ d \in 0..n /\ SubSeq(rest, 1, d) = SubSeq(s, 1, d)
                      /\ CompareBuffers(B, DataBuffer(s), n, "RETURN_BOOL") = (IF d = n THEN 1 ELSE 0)
                      /\ d < n => /\ rest[d + 1] # s[d + 1]
                                  /\ CompareBuffers(B, DataBuffer(s), n, "RETURN_PTR_DIFF") = B.Base + d

(* Every call of ReplaceByteInBuffer and of the append in a loop returns, but
   for the replacement of a byte by itself, which finds it for ever.        *)
CallsReturn == (pc = "ntimes" \/ (pc = "replace" /\ Old # New)) ~> pc = "idle"

-----------------------------------------------------------------------------
(* The invariant that carries the properties above over the loops.          *)

TypeOK ==
    /\ mem \in [0..(Alloc - 1) -> Byte \cup {ZERO}]
    /\ Base \in 0..(UszMod - 1) /\ WriteCur \in 0..(UszMod - 1) /\ Size \in {0, Alloc}
    /\ pc \in {"idle", "ntimes", "replace"}
    /\ Src \in Seq(Byte) /\ Count \in 0..(UszMod - 1)
    /\ Old \in Byte \cup {ZERO} /\ New \in Byte \cup {ZERO}
    /\ RBase \in Nat /\ RCur \in Nat
    /\ content \in Seq(Byte)
    /\ wild \in BOOLEAN

\* The totals that AppendBufferToBufferNTimes computes do not wrap.
NoTotalWraps == \A s \in Sources, n \in Counts : Len(s) * n < UszMod

\* A buffer is created over all of the allocation, or with no data and Size 0.
Writable == \A p \in Shapes : p[2] = Alloc \/ p[1] = <<>>

\* What the loop of AppendBufferToBufferNTimes has still to copy has room.
RestFits == pc = "ntimes" => Len(Src) * Count <= Room

\* ReplaceByteInBuffer has come as far as RBase; behind it the bytes are old.
Replacing ==
    /\ Base <= RBase
    /\ RBase + RCur = Base + WriteCur
    /\ \A k \in 1..Len(content) :
           LET byte == mem[Base + k - 1]
           IN  content[k] = IF Base + k - 1 >= RBase /\ byte = Old THEN New ELSE byte

\* The length is the content's; the data lies in the allocation and holds it.
Intact ==
    /\ WriteCur = Len(content)
    /\ Base + WriteCur <= Alloc
    /\ Writable => Size = Alloc \/ WriteCur = 0
    /\ pc # "replace" => \A k \in 1..Len(content) : mem[Base + k - 1] = content[k]
    /\ RestFits

(* While nothing wild has been written the data is intact, also after each
   iteration of the loop that appends; a replacement never writes anything
   wild and has done the part it has passed.                                *)
IInv ==
    /\ TypeOK
    /\ ~wild => Intact
    /\ pc = "replace" => ~wild /\ Replacing
=============================================================================
