----------------------------- MODULE BufferQuery -----------------------------
(***************************************************************************)
(* The query functions of tinybase-memory.c: comparison, and the search    *)
(* for a byte or for another buffer, in the scalar version and in the ones *)
(* for vector registers, as pure operators.                                *)
(*                                                                         *)
(* A buffer is a record [mem, Base, WriteCur]: a memory, an address in it  *)
(* and a length.  Vector registers have XMM128_SIZE and XMM256_SIZE bytes, *)
(* scaled down; a mask register is the set of the positions that match.    *)
(***************************************************************************)
EXTENDS Integers, Sequences, FiniteSets, FiniteSetsExt

CONSTANTS
    UszBits,                    \* width of usz
    XMM128_SIZE, XMM256_SIZE,   \* width of the vector registers
    GARBAGE                     \* what a load from outside the memory yields

UszMod == 2 ^ UszBits

ASSUME BufferQueryAssumption ==
    /\ UszBits \in Nat
    /\ UszMod \in Nat
    /\ XMM128_SIZE \in 2..XMM256_SIZE
    /\ XMM256_SIZE \in 2..UszMod

INVALID_IDX == UszMod - 1
NULL == 0

\* The data s in a memory of its own.
DataBuffer(s) == [mem |-> [a \in 1..Len(s) |-> s[a]], Base |-> 1, WriteCur |-> Len(s)]

\* Buf.Base[k]
At(Buf, k) == IF Buf.Base + k \in DOMAIN Buf.mem THEN Buf.mem[Buf.Base + k] ELSE GARBAGE

\* Buffer(Buf.Base + k, len, 0)
Part(Buf, k, len) == [Buf EXCEPT !.Base = @ + k, !.WriteCur = len]

-----------------------------------------------------------------------------
(* Comparison.                                                              *)

\* Mutant: the byte at AmountToCompare - 1 is not compared.
CompareIdxShort(A, B, AmountToCompare) ==
    LET from[Idx \in 0..AmountToCompare] ==
            IF Idx + 1 < AmountToCompare /\ At(A, Idx) = At(B, Idx) THEN from[Idx + 1]
            ELSE IF Idx + 1 = AmountToCompare THEN AmountToCompare ELSE Idx
    IN  from[0]

\* The offset of the first byte that differs, or AmountToCompare
CompareIdx(A, B, AmountToCompare) ==
    LET from[Idx \in 0..AmountToCompare] ==
            IF Idx < AmountToCompare /\ At(A, Idx) = At(B, Idx) THEN from[Idx + 1] ELSE Idx
    IN  from[0]

CompareBuffers(A, B, AmountToCompare, Flag) ==
    LET Idx == CompareIdx(A, B, AmountToCompare)
    IN  CASE Flag = "RETURN_BOOL"     -> IF Idx = AmountToCompare THEN 1 ELSE 0
          [] Flag = "RETURN_IDX_DIFF" -> Idx
          [] OTHER                    -> A.Base + Idx

EqualBuffers(A, B) ==
    /\ A.WriteCur = B.WriteCur
    /\ \/ A.WriteCur = 0
       \/ /\ At(A, 0) = At(B, 0)
          /\ At(A, A.WriteCur - 1) = At(B, B.WriteCur - 1)
          /\ A.WriteCur = CompareIdx(A, B, A.WriteCur)

-----------------------------------------------------------------------------
(* Search for a byte.                                                       *)

ByteInBufferIdxSimple(Needle, Haystack) ==
    LET from[Idx \in 0..Haystack.WriteCur] ==
            IF Idx = Haystack.WriteCur THEN INVALID_IDX
            ELSE IF At(Haystack, Idx) = Needle THEN Idx ELSE from[Idx + 1]
    IN  from[0]

\* From the end down to 1, then 0
ReverseByteInBufferIdxSimple(Needle, Haystack) ==
    LET from[Idx \in 0..Haystack.WriteCur] ==
            IF At(Haystack, Idx) = Needle THEN Idx
            ELSE IF Idx = 0 THEN INVALID_IDX ELSE from[Idx - 1]
    IN  IF Haystack.WriteCur > 0 THEN from[Haystack.WriteCur - 1] ELSE INVALID_IDX

\* cmpeq and movemask over the W bytes at offset k
CompareMask(Needle, Haystack, k, W) == {i \in 0..(W - 1) : At(Haystack, k + i) = Needle}

\* Mutant: the bytes before Base are not masked out.
FirstChunkWhole(Chunk, k, Offset) == Chunk

\* The first chunk loses the Offset bytes before Base: Mask & (~0u << Offset)
MaskFirst(Chunk, k, Offset) == IF k < 0 THEN {i \in Chunk : i >= Offset} ELSE Chunk

(* The SSE2 and the AVX2 version differ in the width W alone.  The chunks are
   aligned: the first one begins Offset bytes before Base and its mask loses
   these; whole chunks follow, and what remains is searched byte by byte.   *)
ByteInBufferIdxVector(Needle, Haystack, W) ==
    LET Offset == Haystack.Base % W
        from[k \in (-W)..Haystack.WriteCur] ==
            LET Mask == MaskFirst(CompareMask(Needle, Haystack, k, W), k, Offset)
                PartialIdx == k + W
                RemainingSize == Haystack.WriteCur - PartialIdx
                Rest == ByteInBufferIdxSimple(Needle, Part(Haystack, PartialIdx, RemainingSize))
            IN  IF Mask # {} THEN k + Min(Mask)
                ELSE IF RemainingSize >= W THEN from[k + W]
                ELSE IF Rest = INVALID_IDX THEN Rest ELSE Rest + PartialIdx
    IN  IF Haystack.WriteCur > W THEN from[-Offset]
        ELSE ByteInBufferIdxSimple(Needle, Haystack)

ByteInBufferIdxSSE2(Needle, Haystack) == ByteInBufferIdxVector(Needle, Haystack, XMM128_SIZE)
ByteInBufferIdxAVX2(Needle, Haystack) == ByteInBufferIdxVector(Needle, Haystack, XMM256_SIZE)

-----------------------------------------------------------------------------
(* Search for a buffer.  A Needle has at least one byte.                    *)

\* The tests every version makes before it answers offset k
NeedleAt(Needle, Haystack, k) ==
    /\ At(Haystack, k) = At(Needle, 0)
    /\ At(Haystack, k + Needle.WriteCur - 1) = At(Needle, Needle.WriteCur - 1)
    /\ EqualBuffers(Part(Haystack, k, Needle.WriteCur), Needle)

\* Offsets from k up, while the needle fits behind them
BufferInBufferFrom(Needle, Haystack, k) ==
    LET from[Idx \in k..(Haystack.WriteCur + 1)] ==
            IF Haystack.WriteCur - Idx < Needle.WriteCur THEN INVALID_IDX
            ELSE IF NeedleAt(Needle, Haystack, Idx) THEN Idx ELSE from[Idx + 1]
    IN  from[k]

BufferInBufferIdxSimple(Needle, Haystack) ==
    IF Haystack.WriteCur < Needle.WriteCur THEN INVALID_IDX
    ELSE BufferInBufferFrom(Needle, Haystack, 0)

\* From the last offset down to 1, then 0
ReverseBufferInBufferIdxSimple(Needle, Haystack) ==
    LET from[Idx \in 0..Haystack.WriteCur] ==
            IF NeedleAt(Needle, Haystack, Idx) THEN Idx
            ELSE IF Idx = 0 THEN INVALID_IDX ELSE from[Idx - 1]
    IN  IF Haystack.WriteCur < Needle.WriteCur THEN INVALID_IDX
        ELSE from[Haystack.WriteCur - Needle.WriteCur]

\* Mutant: a match that runs past the end of the data counts.
FitsNot(Needle, HaystackRemaining, MatchIdx) == TRUE

\* TempRemaining >= Needle.WriteCur
FitsBehind(Needle, HaystackRemaining, MatchIdx) == HaystackRemaining - MatchIdx >= Needle.WriteCur

\* Chunks while one fits, their matches in ascending order, then byte by byte
BufferInBufferIdxSSE3(Needle, Haystack) ==
    LET from[k \in 0..(Haystack.WriteCur + XMM128_SIZE)] ==
            LET Remaining == Haystack.WriteCur - k
                Mask == CompareMask(At(Needle, 0), Haystack, k, XMM128_SIZE)
                Hits == {i \in Mask : FitsBehind(Needle, Remaining, i)
                                      /\ NeedleAt(Needle, Haystack, k + i)}
            IN  IF ~(Remaining >= XMM128_SIZE /\ Remaining >= Needle.WriteCur)
                THEN BufferInBufferFrom(Needle, Haystack, k)
                ELSE IF Hits # {} THEN k + Min(Hits)
                ELSE from[k + XMM128_SIZE]
    IN  IF Haystack.WriteCur < Needle.WriteCur THEN INVALID_IDX ELSE from[0]

(* Chunks while they begin before the last offset where the needle fits.  The
   compare for the last byte compares LastByte with itself; a match is not
   tested to lie inside the data.  The loop after it never runs.            *)
BufferInBufferIdxAVX2(Needle, Haystack) ==
    LET Last == Haystack.WriteCur - Needle.WriteCur
        from[k \in 0..(Haystack.WriteCur + XMM256_SIZE)] ==
            LET Hits == {i \in CompareMask(At(Needle, 0), Haystack, k, XMM256_SIZE) :
                            CompareIdx(Part(Haystack, k + i, 0), Needle, Needle.WriteCur)
                                = Needle.WriteCur}
            IN  IF k >= Last THEN INVALID_IDX
                ELSE IF Hits # {} THEN k + Min(Hits)
                ELSE from[k + XMM256_SIZE]
    IN  IF Haystack.WriteCur < Needle.WriteCur THEN INVALID_IDX ELSE from[0]

-----------------------------------------------------------------------------
(* The functions the application calls.  Arch names the versions that
   InitBuffersArch has installed: see InitArch.                             *)

Scalar == [byte |-> "Simple", buffer |-> "Simple"]

\* The later test wins; features are the bits LoadCPUArch found set.
InitArch(features) ==
    [byte   |-> IF "AVX2" \in features THEN "AVX2"
                ELSE IF "SSE2" \in features THEN "SSE2" ELSE "Simple",
     buffer |-> IF "AVX2" \in features THEN "AVX2"
                ELSE IF "SSE3" \in features THEN "SSE3" ELSE "Simple"]

\* What is made of an offset where len bytes were found
Answer(Idx, len, Haystack, Flags) ==
    IF "RETURN_BOOL" \in Flags THEN IF Idx # INVALID_IDX THEN 1 ELSE 0
    ELSE IF "RETURN_IDX_FIND" \in Flags THEN Idx
    ELSE IF "RETURN_IDX_AFTER" \in Flags THEN IF Idx # INVALID_IDX THEN Idx + len ELSE Idx
    ELSE IF Idx = INVALID_IDX THEN NULL
    ELSE Haystack.Base + Idx + (IF "RETURN_PTR_AFTER" \in Flags THEN len ELSE 0)

ByteInBuffer(Needle, Haystack, Flags, Arch) ==
    LET Idx == CASE "SEARCH_REVERSE" \in Flags -> ReverseByteInBufferIdxSimple(Needle, Haystack)
                 [] OTHER -> CASE Arch.byte = "SSE2" -> ByteInBufferIdxSSE2(Needle, Haystack)
                               [] Arch.byte = "AVX2" -> ByteInBufferIdxAVX2(Needle, Haystack)
                               [] OTHER -> ByteInBufferIdxSimple(Needle, Haystack)
    IN  Answer(Idx, 1, Haystack, Flags)

BufferInBuffer(Needle, Haystack, Flags, Arch) ==
    LET Idx == CASE "SEARCH_REVERSE" \in Flags -> ReverseBufferInBufferIdxSimple(Needle, Haystack)
                 [] OTHER -> CASE Arch.buffer = "SSE3" -> BufferInBufferIdxSSE3(Needle, Haystack)
                               [] Arch.buffer = "AVX2" -> BufferInBufferIdxAVX2(Needle, Haystack)
                               [] OTHER -> BufferInBufferIdxSimple(Needle, Haystack)
    IN  Answer(Idx, Needle.WriteCur, Haystack, Flags)

DataInBuffer(Data, Haystack, Flags, Arch) == BufferInBuffer(DataBuffer(Data), Haystack, Flags, Arch)
=============================================================================
