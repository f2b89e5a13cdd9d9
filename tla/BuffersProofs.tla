--------------------------- MODULE BuffersProofs ---------------------------
(***************************************************************************)
(* What the calls that edit a buffer leave behind: the data, where it      *)
(* should be, and nothing written outside the allocation; and that the     *)
(* searches answer what the data says.                                     *)
(*                                                                         *)
(* The first part is about the query functions alone, for data of any      *)
(* length, wherever it lies: the searches of every version find the first  *)
(* or the last occurrence.  The second part is the invariant of the calls   *)
(* that edit, the third about buffers that hold text, in each of the six    *)
(* encodings.                                                              *)
(***************************************************************************)
EXTENDS Buffers, Encoding, NumberLemmas

\* A haystack of the code: a pointer and a length that usz holds.
IsBuffer(H) ==
    /\ H = [mem |-> H.mem, Base |-> H.Base, WriteCur |-> H.WriteCur]
    /\ H.Base \in Nat
    /\ H.WriteCur \in 0..(UszMod - 1)

\* The least of the offsets from k up to n where at is N, or INVALID_IDX.
FirstOf(at, N, k, n) ==
    {r \in Int : \/ r \in k..(n - 1) /\ at[r] = N /\ \A j \in k..(r - 1) : at[j] # N
                 \/ r = INVALID_IDX /\ \A j \in k..(n - 1) : at[j] # N}

\* The greatest of the offsets from 0 up to k where at is N, or INVALID_IDX.
LastOf(at, N, k) ==
    {r \in Int : \/ r \in 0..k /\ at[r] = N /\ \A j \in (r + 1)..k : at[j] # N
                 \/ r = INVALID_IDX /\ \A j \in 0..k : at[j] # N}

\* The bytes of a buffer, by their offset.
Bytes(H) == [k \in Int |-> At(H, k)]

(* Sizes and INVALID_IDX are numbers, and 0 is not INVALID_IDX.             *)
LEMMA UszModType == UszMod \in Nat /\ UszMod > 1 /\ INVALID_IDX \in Nat
<1> UszMod \in Nat /\ XMM128_SIZE \in 2..XMM256_SIZE /\ XMM256_SIZE \in 2..UszMod
  BY BufferQueryAssumption
<1> HIDE DEF UszMod
<1> QED
  BY DEF INVALID_IDX

-----------------------------------------------------------------------------
(* The scalar searches for a byte.                                          *)

(* ByteInBufferIdxSimple answers the first occurrence.                      *)
THEOREM SimpleFindsFirst ==
    ASSUME NEW N, NEW H, H.WriteCur \in 0..(UszMod - 1)
    PROVE  ByteInBufferIdxSimple(N, H) \in FirstOf(Bytes(H), N, 0, H.WriteCur)
<1> DEFINE n == H.WriteCur
           at == Bytes(H)
           D == 0..n
           body(g) == [Idx \in 0..H.WriteCur |->
                          IF Idx = H.WriteCur THEN INVALID_IDX
                          ELSE IF At(H, Idx) = N THEN Idx ELSE g[Idx + 1]]
           Stop == {i \in D : i = n \/ at[i] = N}
           val == [i \in D |-> IF i = n THEN INVALID_IDX ELSE i]
           next == [i \in D |-> i + 1]
           rank == [i \in D |-> n - i]
           Good == [i \in D |-> FirstOf(at, N, i, n)]
           f == CHOOSE g : g = body(g)
<1>1. ByteInBufferIdxSimple(N, H) = f[0]
  BY Zenon DEF ByteInBufferIdxSimple
<1>2. n \in Nat /\ n < UszMod /\ UszMod \in Nat /\ INVALID_IDX \in Int
  BY UszModType
<1>3. \A i \in D : at[i] = At(H, i)
  BY <1>2 DEF Bytes
<1>4. \A g : g = body(g) <=> Runs(g, D, Stop, val, next)
  <2>1. \A g : \A i \in D : body(g)[i] = IF i \in Stop THEN val[i] ELSE g[next[i]]
    BY <1>2, <1>3
  <2>2. \A g : body(g) = [i \in D |-> body(g)[i]]
    OBVIOUS
  <2> HIDE DEF body, D, Stop, val, next
  <2> QED
    BY <2>1, <2>2 DEF Runs
<1> HIDE DEF n, at, UszMod, INVALID_IDX
<1>5. IsLoop(D, Stop, next, rank, n)
  BY <1>2 DEF IsLoop
<1>6. \A i \in D : i \in Stop => val[i] \in Good[i]
  BY <1>2 DEF FirstOf
<1>7. \A i \in D : i \notin Stop => Good[next[i]] \subseteq Good[i]
  BY <1>2 DEF FirstOf
<1>8. f = body(f)
  <2>1. \E g : Runs(g, D, Stop, val, next)
    <3> HIDE DEF D, Stop, val, next, rank
    <3> QED
      BY <1>2, <1>5, LoopDefined
  <2> HIDE DEF body, D, Stop, val, next
  <2>2. \E g : g = body(g)
    BY <1>4, <2>1
  <2> QED
    BY <2>2, Zenon
<1>9. Runs(f, D, Stop, val, next)
  <2> HIDE DEF body, D, Stop, val, next, f
  <2> QED
    BY <1>4, <1>8
<1>10. \A i \in D : f[i] \in Good[i]
  <2> HIDE DEF D, Stop, val, next, rank, Good, f
  <2> QED
    BY <1>2, <1>5, <1>6, <1>7, <1>9, LoopInduction
<1>11. 0 \in D
  BY <1>2
<1>12. Good[0] = FirstOf(at, N, 0, n)
  BY <1>11
<1> QED
  <2> HIDE DEF Good, f, D
  <2> QED
    BY <1>1, <1>10, <1>11, <1>12 DEF n, at

(* ReverseByteInBufferIdxSimple answers the last occurrence.                *)
THEOREM ReverseFindsLast ==
    ASSUME NEW N, NEW H, H.WriteCur \in 0..(UszMod - 1)
    PROVE  ReverseByteInBufferIdxSimple(N, H) \in LastOf(Bytes(H), N, H.WriteCur - 1)
<1> DEFINE n == H.WriteCur
           at == Bytes(H)
           D == 0..n
           body(g) == [Idx \in 0..H.WriteCur |->
                          IF At(H, Idx) = N THEN Idx
                          ELSE IF Idx = 0 THEN INVALID_IDX ELSE g[Idx - 1]]
           Stop == {i \in D : i = 0 \/ at[i] = N}
           val == [i \in D |-> IF at[i] = N THEN i ELSE INVALID_IDX]
           next == [i \in D |-> i - 1]
           rank == [i \in D |-> i]
           Good == [i \in D |-> LastOf(at, N, i)]
           f == CHOOSE g : g = body(g)
<1>1. ReverseByteInBufferIdxSimple(N, H) = IF n > 0 THEN f[n - 1] ELSE INVALID_IDX
  BY Zenon DEF ReverseByteInBufferIdxSimple
<1>2. n \in Nat /\ n < UszMod /\ UszMod \in Nat /\ INVALID_IDX \in Int
  BY UszModType
<1>3. \A i \in D : at[i] = At(H, i)
  BY <1>2 DEF Bytes
<1>4. \A g : g = body(g) <=> Runs(g, D, Stop, val, next)
  <2>1. \A g : \A i \in D : body(g)[i] = IF i \in Stop THEN val[i] ELSE g[next[i]]
    BY <1>2, <1>3
  <2>2. \A g : body(g) = [i \in D |-> body(g)[i]]
    OBVIOUS
  <2> HIDE DEF body, D, Stop, val, next
  <2> QED
    BY <2>1, <2>2 DEF Runs
<1> HIDE DEF n, at, UszMod, INVALID_IDX
<1>5. IsLoop(D, Stop, next, rank, n)
  BY <1>2 DEF IsLoop
<1>6. \A i \in D : i \in Stop => val[i] \in Good[i]
  BY <1>2 DEF LastOf
<1>7. \A i \in D : i \notin Stop => Good[next[i]] \subseteq Good[i]
  BY <1>2 DEF LastOf
<1>8. f = body(f)
  <2>1. \E g : Runs(g, D, Stop, val, next)
    <3> HIDE DEF D, Stop, val, next, rank
    <3> QED
      BY <1>2, <1>5, LoopDefined
  <2> HIDE DEF body, D, Stop, val, next
  <2>2. \E g : g = body(g)
    BY <1>4, <2>1
  <2> QED
    BY <2>2, Zenon
<1>9. Runs(f, D, Stop, val, next)
  <2> HIDE DEF body, D, Stop, val, next, f
  <2> QED
    BY <1>4, <1>8
<1>10. \A i \in D : f[i] \in Good[i]
  <2> HIDE DEF D, Stop, val, next, rank, Good, f
  <2> QED
    BY <1>2, <1>5, <1>6, <1>7, <1>9, LoopInduction
<1>11. CASE n > 0
  <2>1. n - 1 \in D
    BY <1>2, <1>11
  <2>2. Good[n - 1] = LastOf(at, N, n - 1)
    BY <2>1
  <2> HIDE DEF Good, f, D
  <2> QED
    BY <1>1, <1>10, <1>11, <2>1, <2>2 DEF n, at
<1>12. CASE n = 0
  <2>1. INVALID_IDX \in LastOf(at, N, n - 1)
    BY <1>2, <1>12 DEF LastOf
  <2> HIDE DEF f
  <2> QED
    BY <1>1, <1>12, <2>1 DEF n, at
<1> QED
  BY <1>2, <1>11, <1>12

-----------------------------------------------------------------------------
(* The vector searches for a byte.                                          *)

(* The bytes of a part are the bytes of the whole.                          *)
LEMMA PartBytes ==
    ASSUME NEW H, IsBuffer(H), NEW k \in Int, NEW len
    PROVE  /\ Part(H, k, len).WriteCur = len
           /\ \A j \in Int : Bytes(Part(H, k, len))[j] = Bytes(H)[k + j]
<1>1. /\ Part(H, k, len).mem = H.mem
      /\ Part(H, k, len).Base = H.Base + k
      /\ Part(H, k, len).WriteCur = len
  <2>1. \A m, b, w :
            /\ Part([mem |-> m, Base |-> b, WriteCur |-> w], k, len).mem = m
            /\ Part([mem |-> m, Base |-> b, WriteCur |-> w], k, len).Base = b + k
            /\ Part([mem |-> m, Base |-> b, WriteCur |-> w], k, len).WriteCur = len
    BY DEF Part
  <2>2. PICK m, b, w : H = [mem |-> m, Base |-> b, WriteCur |-> w]
    BY DEF IsBuffer
  <2>3. H.mem = m /\ H.Base = b /\ H.WriteCur = w
    BY <2>2
  <2> DEFINE G == [mem |-> m, Base |-> b, WriteCur |-> w]
  <2>4. /\ Part(G, k, len).mem = m
        /\ Part(G, k, len).Base = b + k
        /\ Part(G, k, len).WriteCur = len
    BY <2>1
  <2>5. H = G
    BY <2>2
  <2> HIDE DEF G
  <2> QED
    BY <2>3, <2>4, <2>5
<1>2. \A j \in Int : (H.Base + k) + j = H.Base + (k + j)
  BY DEF IsBuffer
<1> QED
  BY <1>1, <1>2 DEF Bytes, At

(* Min of FiniteSetsExt on natural numbers.                                 *)
LEMMA MinOf ==
    ASSUME NEW S, S \subseteq Nat, S # {}
    PROVE  Min(S) \in S /\ \A x \in S : Min(S) <= x
<1>1. \E x \in S : \A y \in S : x <= y
  BY SmallestMember
<1> QED
  BY <1>1 DEF Min

(* The search of a chunk finds the first occurrence from k on in it, if
   there is one; the first chunk loses what lies before the data.           *)
LEMMA ChunkSearch ==
    ASSUME NEW N, NEW H, IsBuffer(H), NEW W \in Nat \ {0}, NEW Offset \in 0..(W - 1),
           NEW k \in Int, k >= 0 \/ k = -Offset, k + W <= H.WriteCur
    PROVE  LET Mask == MaskFirst(CompareMask(N, H, k, W), k, Offset)
               at == Bytes(H)
               lo == IF k < 0 THEN 0 ELSE k
           IN  /\ Mask # {} => k + Min(Mask) \in FirstOf(at, N, lo, H.WriteCur)
               /\ Mask = {} => \A j \in lo..(k + W - 1) : at[j] # N
<1> DEFINE Mask == MaskFirst(CompareMask(N, H, k, W), k, Offset)
           at == Bytes(H)
           lo == IF k < 0 THEN 0 ELSE k
           n == H.WriteCur
<1>1. n \in Nat /\ H.Base \in Nat
  <2> UszMod \in Nat
    BY UszModType
  <2> HIDE DEF UszMod
  <2> QED
    BY DEF IsBuffer
<1>2. lo \in Nat
  OBVIOUS
<1>3. Mask = {i \in 0..(W - 1) : k + i >= lo /\ at[k + i] = N}
  BY <1>1 DEF MaskFirst, CompareMask, Bytes
<1>4. ASSUME Mask # {} PROVE k + Min(Mask) \in FirstOf(at, N, lo, n)
  <2>1. Mask \subseteq Nat
    BY <1>3
  <2> HIDE DEF Mask, at, lo, n
  <2>2. Min(Mask) \in Mask /\ \A x \in Mask : Min(Mask) <= x
    BY <1>4, <2>1, MinOf
  <2> DEFINE m == Min(Mask)
  <2>3. m \in 0..(W - 1) /\ k + m >= lo /\ at[k + m] = N
    BY <1>3, <2>2
  <2>4. ASSUME NEW j \in lo..(k + m - 1) PROVE at[j] # N
    <3> HIDE DEF m
    <3>1. j - k \in 0..(W - 1) /\ k + (j - k) = j /\ ~(m <= j - k)
      BY <1>2, <2>3 DEF lo
    <3>2. j - k \notin Mask
      BY <2>2, <3>1 DEF m
    <3> QED
      BY <1>3, <3>1, <3>2
  <2> HIDE DEF m
  <2>5. k + m \in lo..(n - 1) /\ k + m \in Int
    BY <1>1, <1>2, <2>3 DEF n
  <2> QED
    BY <2>3, <2>4, <2>5 DEF FirstOf, m
<1>5. ASSUME Mask = {}, NEW j \in lo..(k + W - 1) PROVE at[j] # N
  <2> HIDE DEF Mask, at
  <2>1. j - k \in 0..(W - 1) /\ k + (j - k) = j /\ j >= lo
    BY <1>1
  <2> QED
    BY <1>3, <1>5, <2>1
<1> QED
  BY <1>4, <1>5

(* What a search of the rest finds, counted from the start of the data.     *)
LEMMA RestSearch ==
    ASSUME NEW N, NEW H, IsBuffer(H), NEW k \in 0..H.WriteCur, NEW Rest,
           Rest \in FirstOf(Bytes(Part(H, k, H.WriteCur - k)), N, 0, H.WriteCur - k)
    PROVE  (IF Rest = INVALID_IDX THEN Rest ELSE Rest + k)
               \in FirstOf(Bytes(H), N, k, H.WriteCur)
<1> DEFINE n == H.WriteCur
           at == Bytes(H)
           part == Bytes(Part(H, k, n - k))
<1>1. n \in Nat /\ n < UszMod /\ UszMod \in Nat /\ INVALID_IDX = UszMod - 1
  <2>1. UszMod \in Nat
    BY UszModType
  <2> HIDE DEF UszMod
  <2> QED
    BY <2>1 DEF IsBuffer, INVALID_IDX
<1>2. \A j \in Int : part[j] = at[k + j]
  <2>1. k \in Int
    BY <1>1
  <2> QED
    BY <2>1, PartBytes
<1> HIDE DEF n, at, part, UszMod, INVALID_IDX
<1>3. k \in 0..n /\ Rest \in FirstOf(part, N, 0, n - k)
  BY DEF n, part
<1>4. CASE Rest = INVALID_IDX
  <2>1. \A j \in 0..(n - k - 1) : part[j] # N
    BY <1>1, <1>3, <1>4 DEF FirstOf
  <2>2. ASSUME NEW j \in k..(n - 1) PROVE at[j] # N
    <3>1. j - k \in 0..(n - k - 1) /\ j - k \in Int /\ k + (j - k) = j
      BY <1>1, <1>3
    <3>2. part[j - k] # N
      BY <2>1, <3>1
    <3>3. part[j - k] = at[k + (j - k)]
      BY <1>2, <3>1, Zenon
    <3> QED
      BY <3>1, <3>2, <3>3, Zenon
  <2>3. Rest \in FirstOf(at, N, k, n)
    BY <1>1, <1>4, <2>2 DEF FirstOf
  <2> QED
    BY <1>4, <2>3 DEF n, at
<1>5. CASE Rest # INVALID_IDX
  <2>1. Rest \in 0..(n - k - 1) /\ part[Rest] = N /\ \A j \in 0..(Rest - 1) : part[j] # N
    BY <1>3, <1>5 DEF FirstOf
  <2>2. ASSUME NEW j \in k..(Rest + k - 1) PROVE at[j] # N
    <3>1. j - k \in 0..(Rest - 1) /\ j - k \in Int /\ k + (j - k) = j
      BY <1>1, <1>3, <2>1
    <3>2. part[j - k] # N
      BY <2>1, <3>1
    <3>3. part[j - k] = at[k + (j - k)]
      BY <1>2, <3>1, Zenon
    <3> QED
      BY <3>1, <3>2, <3>3, Zenon
  <2>3. at[Rest + k] = N /\ Rest + k \in k..(n - 1)
    <3>1. k + Rest = Rest + k /\ Rest \in Int /\ Rest + k \in k..(n - 1)
      BY <1>1, <1>3, <2>1
    <3> QED
      BY <1>2, <2>1, <3>1
  <2>4. Rest + k \in FirstOf(at, N, k, n)
    BY <1>1, <2>2, <2>3 DEF FirstOf
  <2> QED
    BY <1>5, <2>4 DEF n, at
<1> QED
  BY <1>4, <1>5

(* ByteInBufferIdxVector answers the first occurrence, whatever the width of
   the register and wherever the data lies in it: bytes before the data and
   behind it do not count.                                                  *)
THEOREM VectorFindsFirst ==
    ASSUME NEW N, NEW H, IsBuffer(H), NEW W \in Nat \ {0}
    PROVE  ByteInBufferIdxVector(N, H, W) \in FirstOf(Bytes(H), N, 0, H.WriteCur)
<1> DEFINE n == H.WriteCur
           at == Bytes(H)
           Offset == H.Base % W
           D == (-W)..n
           Mask(k) == MaskFirst(CompareMask(N, H, k, W), k, Offset)
           Rest(k) == ByteInBufferIdxSimple(N, Part(H, k + W, n - (k + W)))
           body(g) == [k \in (-W)..H.WriteCur |->
               LET Msk == MaskFirst(CompareMask(N, H, k, W), k, Offset)
                   PartialIdx == k + W
                   RemainingSize == H.WriteCur - PartialIdx
                   Rst == ByteInBufferIdxSimple(N, Part(H, PartialIdx, RemainingSize))
               IN  IF Msk # {} THEN k + Min(Msk)
                   ELSE IF RemainingSize >= W THEN g[k + W]
                   ELSE IF Rst = INVALID_IDX THEN Rst ELSE Rst + PartialIdx]
           Stop == {k \in D : Mask(k) # {} \/ ~(n - (k + W) >= W)}
           val == [k \in D |-> IF Mask(k) # {} THEN k + Min(Mask(k))
                               ELSE IF Rest(k) = INVALID_IDX THEN Rest(k) ELSE Rest(k) + (k + W)]
           next == [k \in D |-> k + W]
           rank == [k \in D |-> n - k]
           lo(k) == IF k < 0 THEN 0 ELSE k
           Reached(k) == (k >= 0 \/ k = -Offset) /\ k + W <= n
           Good == [k \in D |-> IF Reached(k) THEN FirstOf(at, N, lo(k), n)
                                ELSE {val[j] : j \in D} \cup Int]
           f == CHOOSE g : g = body(g)
<1>1. ByteInBufferIdxVector(N, H, W) = IF n > W THEN f[-Offset] ELSE ByteInBufferIdxSimple(N, H)
  BY Zenon DEF ByteInBufferIdxVector
<1>2. n \in Nat /\ n < UszMod /\ UszMod \in Nat /\ INVALID_IDX \in Int /\ Offset \in 0..(W - 1)
  <2>1. UszMod \in Nat /\ INVALID_IDX \in Int
    BY UszModType
  <2> HIDE DEF UszMod
  <2> QED
    BY <2>1 DEF IsBuffer
<1>3. \A g : g = body(g) <=> Runs(g, D, Stop, val, next)
  <2>1. ASSUME NEW g, NEW k \in D
        PROVE  body(g)[k] = IF k \in Stop THEN val[k] ELSE g[next[k]]
    <3>1. body(g)[k] = IF Mask(k) # {} THEN k + Min(Mask(k))
                       ELSE IF n - (k + W) >= W THEN g[k + W]
                       ELSE IF Rest(k) = INVALID_IDX THEN Rest(k) ELSE Rest(k) + (k + W)
      OBVIOUS
    <3>2. k \in Stop <=> (Mask(k) # {} \/ ~(n - (k + W) >= W))
      OBVIOUS
    <3>3. /\ val[k] = IF Mask(k) # {} THEN k + Min(Mask(k))
                      ELSE IF Rest(k) = INVALID_IDX THEN Rest(k) ELSE Rest(k) + (k + W)
          /\ next[k] = k + W
      OBVIOUS
    <3> HIDE DEF body, Mask, Stop, val, next, Rest, n
    <3> QED
      BY <3>1, <3>2, <3>3
  <2>2. \A g : body(g) = [k \in D |-> body(g)[k]]
    OBVIOUS
  <2> HIDE DEF body, D, Stop, val, next
  <2> QED
    BY <2>1, <2>2 DEF Runs
<1> HIDE DEF n, at, Offset, Mask, Rest, UszMod, INVALID_IDX
<1>4. IsLoop(D, Stop, next, rank, n + W)
  BY <1>2 DEF IsLoop
<1>5. ASSUME NEW k \in D, k \in Stop PROVE val[k] \in Good[k]
  <2>1. CASE ~Reached(k)
    <3> HIDE DEF val
    <3> QED
      BY <2>1
  <2>2. CASE Reached(k)
    <3>1. k \in Int /\ Good[k] = FirstOf(at, N, lo(k), n)
      BY <1>2, <2>2
    <3>2. /\ Mask(k) # {} => k + Min(Mask(k)) \in FirstOf(at, N, lo(k), n)
          /\ Mask(k) = {} => \A j \in lo(k)..(k + W - 1) : at[j] # N
      BY <1>2, <2>2, <3>1, ChunkSearch DEF Mask, n, at
    <3>3. CASE Mask(k) # {}
      <4>1. val[k] = k + Min(Mask(k))
        BY <3>3
      <4> QED
        BY <3>1, <3>2, <3>3, <4>1
    <3>4. CASE Mask(k) = {}
      <4> DEFINE m == k + W
                 r == IF Rest(k) = INVALID_IDX THEN Rest(k) ELSE Rest(k) + m
      <4>1. m \in 0..n /\ n - m \in 0..(UszMod - 1) /\ m \in Int /\ lo(k) <= m
        BY <1>2, <2>2, <3>1
      <4>2. val[k] = r
        BY <3>4
      <4> HIDE DEF m
      <4>3. Rest(k) \in FirstOf(Bytes(Part(H, m, n - m)), N, 0, n - m)
        <5>1. Part(H, m, n - m).WriteCur = n - m
          BY <4>1, PartBytes
        <5> QED
          BY <4>1, <5>1, SimpleFindsFirst DEF Rest, m
      <4>4. r \in FirstOf(at, N, m, n)
        BY <4>1, <4>3, RestSearch DEF n, at
      <4> HIDE DEF r, lo
      <4>5. \A j \in lo(k)..(m - 1) : at[j] # N
        BY <3>2, <3>4 DEF m
      <4>6. lo(k) \in Nat
        BY <3>1 DEF lo
      <4>7. r \in FirstOf(at, N, lo(k), n)
        BY <1>2, <4>1, <4>4, <4>5, <4>6 DEF FirstOf
      <4> QED
        BY <3>1, <4>2, <4>7
    <3> QED
      BY <3>3, <3>4
  <2> QED
    BY <2>1, <2>2
<1>6. ASSUME NEW k \in D, k \notin Stop PROVE Good[next[k]] \subseteq Good[k]
  <2>1. k \in Int /\ n - (k + W) >= W /\ Mask(k) = {}
    BY <1>2, <1>6
  <2>2. next[k] = k + W /\ k + W \in D /\ Reached(k + W) /\ k + W >= 0
    BY <1>2, <2>1
  <2>3. Good[next[k]] = FirstOf(at, N, k + W, n)
    BY <2>2
  <2>4. CASE ~Reached(k)
    <3>1. Good[k] = {val[j] : j \in D} \cup Int
      BY <2>4
    <3> QED
      BY <2>3, <3>1 DEF FirstOf
  <2>5. CASE Reached(k)
    <3>1. Good[k] = FirstOf(at, N, lo(k), n)
      BY <2>5
    <3>2. \A j \in lo(k)..(k + W - 1) : at[j] # N
      BY <1>2, <2>1, <2>5, ChunkSearch DEF Mask, n, at
    <3>3. lo(k) \in Nat /\ lo(k) <= k + W
      BY <2>1, <2>2
    <3>4. ASSUME NEW r \in FirstOf(at, N, k + W, n) PROVE r \in FirstOf(at, N, lo(k), n)
      <4> HIDE DEF lo
      <4> QED
        BY <1>2, <2>1, <3>2, <3>3 DEF FirstOf
    <3> QED
      BY <2>3, <3>1, <3>4
  <2> QED
    BY <2>4, <2>5
<1>7. f = body(f)
  <2>1. \E g : Runs(g, D, Stop, val, next)
    <3> HIDE DEF D, Stop, val, next, rank
    <3> QED
      BY <1>4, LoopDefined
  <2> HIDE DEF body, D, Stop, val, next
  <2>2. \E g : g = body(g)
    BY <1>3, <2>1
  <2> QED
    BY <2>2, Zenon
<1>8. Runs(f, D, Stop, val, next)
  <2> HIDE DEF body, D, Stop, val, next, f
  <2> QED
    BY <1>3, <1>7
<1>9. \A k \in D : f[k] \in Good[k]
  <2> HIDE DEF D, Stop, val, next, rank, Good, f
  <2> QED
    BY <1>4, <1>5, <1>6, <1>8, LoopInduction
<1>10. CASE n > W
  <2>1. -Offset \in D /\ Reached(-Offset) /\ lo(-Offset) = 0
    BY <1>2, <1>10
  <2>2. Good[-Offset] = FirstOf(at, N, 0, n)
    BY <2>1
  <2>3. f[-Offset] \in FirstOf(at, N, 0, n)
    <3> HIDE DEF f, Good, D
    <3> QED
      BY <1>9, <2>1, <2>2
  <2> HIDE DEF f
  <2> QED
    BY <1>1, <1>10, <2>3 DEF n, at
<1>11. CASE ~(n > W)
  <2>1. H.WriteCur \in 0..(UszMod - 1)
    BY DEF IsBuffer
  <2> HIDE DEF f
  <2> QED
    BY <1>1, <1>11, <2>1, SimpleFindsFirst
<1> QED
  BY <1>10, <1>11

-----------------------------------------------------------------------------
(* Comparison.                                                              *)

\* The least offset below n where at and bt differ, or n.
DifferAt(at, bt, k, n) ==
    {d \in k..n : (\A j \in k..(d - 1) : at[j] = bt[j]) /\ (d < n => at[d] # bt[d])}

(* CompareIdx answers where the buffers first differ.                       *)
THEOREM CompareFindsDifference ==
    ASSUME NEW A, NEW B, NEW n \in Nat
    PROVE  CompareIdx(A, B, n) \in DifferAt(Bytes(A), Bytes(B), 0, n)
<1> DEFINE at == Bytes(A)
           bt == Bytes(B)
           D == 0..n
           body(g) == [Idx \in 0..n |->
                          IF Idx < n /\ At(A, Idx) = At(B, Idx) THEN g[Idx + 1] ELSE Idx]
           Stop == {i \in D : ~(i < n /\ at[i] = bt[i])}
           val == [i \in D |-> i]
           next == [i \in D |-> i + 1]
           rank == [i \in D |-> n - i]
           Good == [i \in D |-> DifferAt(at, bt, i, n)]
           f == CHOOSE g : g = body(g)
<1>1. CompareIdx(A, B, n) = f[0]
  BY Zenon DEF CompareIdx
<1>2. \A i \in D : at[i] = At(A, i) /\ bt[i] = At(B, i)
  BY DEF Bytes
<1>3. \A g : g = body(g) <=> Runs(g, D, Stop, val, next)
  <2>1. \A g : \A i \in D : body(g)[i] = IF i \in Stop THEN val[i] ELSE g[next[i]]
    BY <1>2
  <2>2. \A g : body(g) = [i \in D |-> body(g)[i]]
    OBVIOUS
  <2> HIDE DEF body, D, Stop, val, next
  <2> QED
    BY <2>1, <2>2 DEF Runs
<1> HIDE DEF at, bt
<1>4. IsLoop(D, Stop, next, rank, n)
  BY DEF IsLoop
<1>5. \A i \in D : i \in Stop => val[i] \in Good[i]
  BY DEF DifferAt
<1>6. \A i \in D : i \notin Stop => Good[next[i]] \subseteq Good[i]
  BY DEF DifferAt
<1>7. f = body(f)
  <2>1. \E g : Runs(g, D, Stop, val, next)
    <3> HIDE DEF D, Stop, val, next, rank
    <3> QED
      BY <1>4, LoopDefined
  <2> HIDE DEF body, D, Stop, val, next
  <2>2. \E g : g = body(g)
    BY <1>3, <2>1
  <2> QED
    BY <2>2, Zenon
<1>8. Runs(f, D, Stop, val, next)
  <2> HIDE DEF body, D, Stop, val, next, f
  <2> QED
    BY <1>3, <1>7
<1>9. \A i \in D : f[i] \in Good[i]
  <2> HIDE DEF D, Stop, val, next, rank, Good, f
  <2> QED
    BY <1>4, <1>5, <1>6, <1>8, LoopInduction
<1>10. 0 \in D /\ Good[0] = DifferAt(at, bt, 0, n)
  OBVIOUS
<1> QED
  <2> HIDE DEF Good, f, D
  <2> QED
    BY <1>1, <1>9, <1>10 DEF at, bt

(* EqualBuffers: as many bytes, and the same; the tests of the first and the
   last byte that come first change nothing.                                *)
THEOREM EqualBuffersExact ==
    ASSUME NEW A, NEW B, A.WriteCur \in Nat
    PROVE  EqualBuffers(A, B) <=>
               /\ A.WriteCur = B.WriteCur
               /\ \A j \in 0..(A.WriteCur - 1) : Bytes(A)[j] = Bytes(B)[j]
<1> DEFINE n == A.WriteCur
           at == Bytes(A)
           bt == Bytes(B)
           d == CompareIdx(A, B, n)
<1>1. SUFFICES ASSUME B.WriteCur = n
               PROVE  EqualBuffers(A, B) <=> \A j \in 0..(n - 1) : at[j] = bt[j]
  BY DEF EqualBuffers
<1>2. d \in DifferAt(at, bt, 0, n)
  BY CompareFindsDifference
<1>3. n \in Nat
  OBVIOUS
<1>4. n > 0 => /\ At(A, 0) = at[0] /\ At(B, 0) = bt[0]
               /\ At(A, n - 1) = at[n - 1] /\ At(B, n - 1) = bt[n - 1]
  BY DEF Bytes
<1>5. EqualBuffers(A, B) <=>
          n = 0 \/ (At(A, 0) = At(B, 0) /\ At(A, n - 1) = At(B, n - 1) /\ n = d)
  BY <1>1 DEF EqualBuffers
<1> HIDE DEF n, at, bt, d
<1>6. d = n <=> \A j \in 0..(n - 1) : at[j] = bt[j]
  BY <1>2, <1>3 DEF DifferAt
<1> QED
  BY <1>3, <1>4, <1>5, <1>6

(* The needle lies at offset k when its bytes do.                           *)
LEMMA NeedleAtExact ==
    ASSUME NEW N, NEW H, IsBuffer(H), N.WriteCur \in Nat \ {0}, NEW k \in Int
    PROVE  NeedleAt(N, H, k) <=>
               \A j \in 0..(N.WriteCur - 1) : Bytes(H)[k + j] = Bytes(N)[j]
<1> DEFINE m == N.WriteCur
           at == Bytes(H)
           bt == Bytes(N)
           P == Part(H, k, m)
<1>1. P.WriteCur = m /\ \A j \in Int : Bytes(P)[j] = at[k + j]
  BY PartBytes
<1>2. EqualBuffers(P, N) <=> \A j \in 0..(m - 1) : Bytes(P)[j] = bt[j]
  BY <1>1, EqualBuffersExact
<1>3. /\ At(H, k) = at[k] /\ At(N, 0) = bt[0]
      /\ At(H, k + m - 1) = at[k + m - 1] /\ At(N, m - 1) = bt[m - 1]
  BY DEF Bytes
<1>4. NeedleAt(N, H, k) <=>
          At(H, k) = At(N, 0) /\ At(H, k + m - 1) = At(N, m - 1) /\ EqualBuffers(P, N)
  BY DEF NeedleAt
<1>5. m \in Nat \ {0} /\ k + 0 = k /\ k + (m - 1) = k + m - 1 /\ 0 \in 0..(m - 1) /\ m - 1 \in 0..(m - 1)
  OBVIOUS
<1> HIDE DEF m, at, bt, P
<1>6. EqualBuffers(P, N) <=> \A j \in 0..(m - 1) : at[k + j] = bt[j]
  BY <1>1, <1>2, <1>5
<1>7. (\A j \in 0..(m - 1) : at[k + j] = bt[j]) => at[k] = bt[0] /\ at[k + m - 1] = bt[m - 1]
  BY <1>5
<1>8. NeedleAt(N, H, k) <=> \A j \in 0..(m - 1) : at[k + j] = bt[j]
  BY <1>3, <1>4, <1>6, <1>7
<1> QED
  BY <1>8 DEF m, at, bt

-----------------------------------------------------------------------------
(* The searches for a buffer.                                               *)

\* The offsets where a needle lies, as a table to search for the value 1.
Matches(N, H) == [k \in Int |-> IF NeedleAt(N, H, k) THEN 1 ELSE 0]

\* A needle of the code, which has a byte at least.
IsNeedle(N) == N.WriteCur \in Nat \ {0}

\* The first of the offsets from k on where the needle lies in the data.
FirstMatch(N, H, k) == FirstOf(Matches(N, H), 1, k, H.WriteCur - N.WriteCur + 1)

(* The length of a buffer is a usz.                                         *)
LEMMA HaystackType ==
    ASSUME NEW H, IsBuffer(H)
    PROVE  H.WriteCur \in Nat /\ H.WriteCur < UszMod /\ UszMod \in Nat /\ INVALID_IDX \in Int
<1>1. UszMod \in Nat /\ INVALID_IDX \in Int
  BY UszModType
<1> HIDE DEF UszMod
<1> QED
  BY <1>1 DEF IsBuffer

(* From k up, offset by offset.                                             *)
LEMMA FromFindsFirst ==
    ASSUME NEW N, IsNeedle(N), NEW H, IsBuffer(H), NEW k \in 0..(H.WriteCur + 1)
    PROVE  BufferInBufferFrom(N, H, k) \in FirstMatch(N, H, k)
<1> DEFINE n == H.WriteCur
           m == N.WriteCur
           at == Matches(N, H)
           D == k..(n + 1)
           body(g) == [Idx \in k..(H.WriteCur + 1) |->
                          IF H.WriteCur - Idx < N.WriteCur THEN INVALID_IDX
                          ELSE IF NeedleAt(N, H, Idx) THEN Idx ELSE g[Idx + 1]]
           Stop == {i \in D : n - i < m \/ at[i] = 1}
           val == [i \in D |-> IF n - i < m THEN INVALID_IDX ELSE i]
           next == [i \in D |-> i + 1]
           rank == [i \in D |-> n + 1 - i]
           Good == [i \in D |-> FirstOf(at, 1, i, n - m + 1)]
           f == CHOOSE g : g = body(g)
<1>1. BufferInBufferFrom(N, H, k) = f[k]
  BY Zenon DEF BufferInBufferFrom
<1>2. n \in Nat /\ m \in Nat /\ m # 0 /\ INVALID_IDX \in Int /\ k \in 0..(n + 1)
  BY HaystackType DEF IsNeedle
<1>3. \A g : g = body(g) <=> Runs(g, D, Stop, val, next)
  <2>1. ASSUME NEW i \in D PROVE i \in Int /\ (at[i] = 1 <=> NeedleAt(N, H, i))
    <3>1. i \in Int
      BY <1>2
    <3> QED
      BY <3>1 DEF Matches
  <2> HIDE DEF at
  <2>2. \A g : \A i \in D : body(g)[i] = IF i \in Stop THEN val[i] ELSE g[next[i]]
    BY <2>1
  <2>3. \A g : body(g) = [i \in D |-> body(g)[i]]
    OBVIOUS
  <2> HIDE DEF body, D, Stop, val, next
  <2> QED
    BY <2>2, <2>3 DEF Runs
<1> HIDE DEF n, m, at, UszMod, INVALID_IDX
<1>4. IsLoop(D, Stop, next, rank, n + 1)
  BY <1>2 DEF IsLoop
<1>5. \A i \in D : i \in Stop => val[i] \in Good[i]
  BY <1>2 DEF FirstOf
<1>6. \A i \in D : i \notin Stop => Good[next[i]] \subseteq Good[i]
  <2>1. ASSUME NEW i \in D, i \notin Stop, NEW r \in FirstOf(at, 1, i + 1, n - m + 1)
        PROVE  r \in FirstOf(at, 1, i, n - m + 1)
    BY <1>2, <2>1 DEF FirstOf
  <2>2. ASSUME NEW i \in D, i \notin Stop PROVE next[i] = i + 1 /\ i + 1 \in D
    BY <1>2, <2>2
  <2> QED
    BY <2>1, <2>2
<1>7. f = body(f)
  <2>1. \E g : Runs(g, D, Stop, val, next)
    <3> HIDE DEF D, Stop, val, next, rank
    <3> QED
      BY <1>4, LoopDefined
  <2> HIDE DEF body, D, Stop, val, next
  <2>2. \E g : g = body(g)
    BY <1>3, <2>1
  <2> QED
    BY <2>2, Zenon
<1>8. Runs(f, D, Stop, val, next)
  <2> HIDE DEF body, D, Stop, val, next, f
  <2> QED
    BY <1>3, <1>7
<1>9. \A i \in D : f[i] \in Good[i]
  <2> HIDE DEF D, Stop, val, next, rank, Good, f
  <2> QED
    BY <1>4, <1>5, <1>6, <1>8, LoopInduction
<1>10. k \in D /\ Good[k] = FirstOf(at, 1, k, n - m + 1)
  BY <1>2
<1> QED
  <2> HIDE DEF Good, f, D
  <2> QED
    BY <1>1, <1>9, <1>10 DEF n, m, at, FirstMatch

(* A needle longer than the data does not lie in it.                        *)
LEMMA LongNeedle ==
    ASSUME NEW N, IsNeedle(N), NEW H, IsBuffer(H), H.WriteCur < N.WriteCur
    PROVE  /\ INVALID_IDX \in FirstMatch(N, H, 0)
           /\ INVALID_IDX \in LastOf(Matches(N, H), 1, H.WriteCur - N.WriteCur)
<1> DEFINE n == H.WriteCur
           m == N.WriteCur
<1>1. n \in Nat /\ m \in Nat /\ INVALID_IDX \in Int /\ n < m
  BY HaystackType DEF IsNeedle
<1> HIDE DEF n, m, INVALID_IDX
<1>2. 0..(n - m + 1 - 1) = {} /\ 0..(n - m) = {}
  BY <1>1
<1> QED
  BY <1>1, <1>2 DEF FirstMatch, FirstOf, LastOf, n, m

(* BufferInBufferIdxSimple answers the first offset where the needle lies.  *)
THEOREM SimpleFindsFirstMatch ==
    ASSUME NEW N, IsNeedle(N), NEW H, IsBuffer(H)
    PROVE  BufferInBufferIdxSimple(N, H) \in FirstMatch(N, H, 0)
<1>1. 0 \in 0..(H.WriteCur + 1)
  BY HaystackType
<1> QED
  BY <1>1, FromFindsFirst, LongNeedle DEF BufferInBufferIdxSimple

(* ReverseBufferInBufferIdxSimple answers the last.                         *)
THEOREM ReverseFindsLastMatch ==
    ASSUME NEW N, IsNeedle(N), NEW H, IsBuffer(H)
    PROVE  ReverseBufferInBufferIdxSimple(N, H)
               \in LastOf(Matches(N, H), 1, H.WriteCur - N.WriteCur)
<1> DEFINE n == H.WriteCur
           m == N.WriteCur
           at == Matches(N, H)
           D == 0..n
           body(g) == [Idx \in 0..H.WriteCur |->
                          IF NeedleAt(N, H, Idx) THEN Idx
                          ELSE IF Idx = 0 THEN INVALID_IDX ELSE g[Idx - 1]]
           Stop == {i \in D : i = 0 \/ at[i] = 1}
           val == [i \in D |-> IF at[i] = 1 THEN i ELSE INVALID_IDX]
           next == [i \in D |-> i - 1]
           rank == [i \in D |-> i]
           Good == [i \in D |-> LastOf(at, 1, i)]
           f == CHOOSE g : g = body(g)
<1>1. ReverseBufferInBufferIdxSimple(N, H) = IF n < m THEN INVALID_IDX ELSE f[n - m]
  BY Zenon DEF ReverseBufferInBufferIdxSimple
<1>2. n \in Nat /\ m \in Nat /\ m # 0 /\ INVALID_IDX \in Int
  BY HaystackType DEF IsNeedle
<1>3. \A g : g = body(g) <=> Runs(g, D, Stop, val, next)
  <2>1. ASSUME NEW i \in D PROVE i \in Int /\ (at[i] = 1 <=> NeedleAt(N, H, i))
    <3>1. i \in Int
      BY <1>2
    <3> QED
      BY <3>1 DEF Matches
  <2> HIDE DEF at
  <2>2. \A g : \A i \in D : body(g)[i] = IF i \in Stop THEN val[i] ELSE g[next[i]]
    BY <2>1
  <2>3. \A g : body(g) = [i \in D |-> body(g)[i]]
    OBVIOUS
  <2> HIDE DEF body, D, Stop, val, next
  <2> QED
    BY <2>2, <2>3 DEF Runs
<1> HIDE DEF n, m, at, UszMod, INVALID_IDX
<1>4. IsLoop(D, Stop, next, rank, n)
  BY <1>2 DEF IsLoop
<1>5. \A i \in D : i \in Stop => val[i] \in Good[i]
  BY <1>2 DEF LastOf
<1>6. \A i \in D : i \notin Stop => Good[next[i]] \subseteq Good[i]
  BY <1>2 DEF LastOf
<1>7. f = body(f)
  <2>1. \E g : Runs(g, D, Stop, val, next)
    <3> HIDE DEF D, Stop, val, next, rank
    <3> QED
      BY <1>4, LoopDefined
  <2> HIDE DEF body, D, Stop, val, next
  <2>2. \E g : g = body(g)
    BY <1>3, <2>1
  <2> QED
    BY <2>2, Zenon
<1>8. Runs(f, D, Stop, val, next)
  <2> HIDE DEF body, D, Stop, val, next, f
  <2> QED
    BY <1>3, <1>7
<1>9. \A i \in D : f[i] \in Good[i]
  <2> HIDE DEF D, Stop, val, next, rank, Good, f
  <2> QED
    BY <1>4, <1>5, <1>6, <1>8, LoopInduction
<1>10. CASE ~(n < m)
  <2>1. n - m \in D /\ Good[n - m] = LastOf(at, 1, n - m)
    BY <1>2, <1>10
  <2> HIDE DEF Good, f, D
  <2> QED
    BY <1>1, <1>9, <1>10, <2>1 DEF n, m, at
<1>11. CASE n < m
  <2> HIDE DEF f
  <2> QED
    BY <1>1, <1>11, LongNeedle DEF n, m
<1> QED
  BY <1>10, <1>11

(* BufferInBufferIdxSSE3 answers the first offset where the needle lies: no
   match that runs past the data, none missed between two chunks.           *)
THEOREM SSE3FindsFirstMatch ==
    ASSUME NEW N, IsNeedle(N), NEW H, IsBuffer(H)
    PROVE  BufferInBufferIdxSSE3(N, H) \in FirstMatch(N, H, 0)
<1> DEFINE n == H.WriteCur
           m == N.WriteCur
           W == XMM128_SIZE
           at == Matches(N, H)
           D == 0..(n + W)
           Hits(k) == {i \in CompareMask(At(N, 0), H, k, W) :
                          FitsBehind(N, n - k, i) /\ NeedleAt(N, H, k + i)}
           From(k) == BufferInBufferFrom(N, H, k)
           body(g) == [k \in 0..(H.WriteCur + XMM128_SIZE) |->
               LET Remaining == H.WriteCur - k
                   Mask == CompareMask(At(N, 0), H, k, XMM128_SIZE)
                   Hts == {i \in Mask : FitsBehind(N, Remaining, i)
                                        /\ NeedleAt(N, H, k + i)}
               IN  IF ~(Remaining >= XMM128_SIZE /\ Remaining >= N.WriteCur)
                   THEN BufferInBufferFrom(N, H, k)
                   ELSE IF Hts # {} THEN k + Min(Hts)
                   ELSE g[k + XMM128_SIZE]]
           Last(k) == ~(n - k >= W /\ n - k >= m)
           Stop == {k \in D : Last(k) \/ Hits(k) # {}}
           val == [k \in D |-> IF Last(k) THEN From(k) ELSE k + Min(Hits(k))]
           next == [k \in D |-> k + W]
           rank == [k \in D |-> n + W - k]
           Good == [k \in D |-> IF k <= n THEN FirstMatch(N, H, k)
                                ELSE {val[j] : j \in D} \cup Int]
           f == CHOOSE g : g = body(g)
<1>1. BufferInBufferIdxSSE3(N, H) = IF n < m THEN INVALID_IDX ELSE f[0]
  BY Zenon DEF BufferInBufferIdxSSE3
<1>2. n \in Nat /\ m \in Nat /\ m # 0 /\ INVALID_IDX \in Int /\ W \in Nat /\ W # 0
  <2>1. UszMod \in Nat
    BY UszModType
  <2>2. XMM128_SIZE \in 2..XMM256_SIZE /\ XMM256_SIZE \in 2..UszMod
    BY BufferQueryAssumption
  <2>3. W \in Nat /\ W # 0
    <3> HIDE DEF UszMod
    <3> QED
      BY <2>1, <2>2
  <2> QED
    BY <2>3, HaystackType DEF IsNeedle
<1>3. \A g : g = body(g) <=> Runs(g, D, Stop, val, next)
  <2>1. ASSUME NEW g, NEW k \in D
        PROVE  body(g)[k] = IF k \in Stop THEN val[k] ELSE g[next[k]]
    <3>1. body(g)[k] = IF Last(k) THEN From(k)
                       ELSE IF Hits(k) # {} THEN k + Min(Hits(k)) ELSE g[k + W]
      OBVIOUS
    <3>2. k \in Stop <=> (Last(k) \/ Hits(k) # {})
      OBVIOUS
    <3>3. /\ val[k] = IF Last(k) THEN From(k) ELSE k + Min(Hits(k))
          /\ next[k] = k + W
      OBVIOUS
    <3> HIDE DEF body, Hits, Stop, val, next, From, Last, n, W
    <3> QED
      BY <3>1, <3>2, <3>3
  <2>2. \A g : body(g) = [k \in D |-> body(g)[k]]
    OBVIOUS
  <2> HIDE DEF body, D, Stop, val, next
  <2> QED
    BY <2>1, <2>2 DEF Runs
<1>4. ASSUME NEW k \in D
      PROVE  k \in Nat /\ Hits(k) = {i \in 0..(W - 1) : k + i <= n - m /\ at[k + i] = 1}
  <2>1. k \in Nat /\ \A i \in 0..(W - 1) : k + i \in Int
    BY <1>2
  <2>2. ASSUME NEW i \in 0..(W - 1)
        PROVE  i \in Hits(k) <=> (k + i <= n - m /\ at[k + i] = 1)
    <3>1. i \in CompareMask(At(N, 0), H, k, W) <=> At(H, k + i) = At(N, 0)
      BY DEF CompareMask
    <3>2. NeedleAt(N, H, k + i) => At(H, k + i) = At(N, 0)
      BY DEF NeedleAt
    <3>3. at[k + i] = 1 <=> NeedleAt(N, H, k + i)
      BY <2>1 DEF Matches
    <3>4. FitsBehind(N, n - k, i) <=> k + i <= n - m
      BY <1>2, <2>1 DEF FitsBehind
    <3> HIDE DEF n, W, at, m
    <3> QED
      BY <3>1, <3>2, <3>3, <3>4
  <2>3. \A i \in Hits(k) : i \in 0..(W - 1)
    BY DEF CompareMask
  <2> HIDE DEF Hits, n, W, at, m
  <2> QED
    BY <2>1, <2>2, <2>3
<1> HIDE DEF n, m, W, at, Hits, From, UszMod, INVALID_IDX
<1>5. IsLoop(D, Stop, next, rank, n + W)
  BY <1>2 DEF IsLoop
<1>6. ASSUME NEW k \in D, k \in Stop PROVE val[k] \in Good[k]
  <2>1. CASE ~(k <= n)
    <3> HIDE DEF val
    <3> QED
      BY <2>1
  <2>2. CASE k <= n /\ Last(k)
    <3>1. k \in 0..(H.WriteCur + 1)
      BY <1>2, <2>2 DEF n
    <3> QED
      BY <2>2, <3>1, FromFindsFirst DEF From
  <2>3. CASE k <= n /\ ~Last(k)
    <3> DEFINE j == Min(Hits(k))
    <3>1. Hits(k) \subseteq Nat /\ Hits(k) # {}
      BY <1>2, <1>4, <1>6, <2>3
    <3>2. j \in Hits(k) /\ \A x \in Hits(k) : j <= x
      BY <3>1, MinOf
    <3> HIDE DEF j
    <3>3. k \in Nat /\ j \in 0..(W - 1) /\ k + j <= n - m /\ at[k + j] = 1
      BY <1>4, <3>2
    <3>4. ASSUME NEW x \in k..(k + j - 1) PROVE at[x] # 1
      <4>1. x - k \in 0..(W - 1) /\ k + (x - k) = x /\ x <= n - m /\ ~(j <= x - k)
        BY <1>2, <3>3
      <4>2. x - k \notin Hits(k)
        BY <3>2, <4>1
      <4> QED
        BY <1>4, <4>1, <4>2
    <3>5. k + j \in FirstOf(at, 1, k, n - m + 1)
      BY <1>2, <3>3, <3>4 DEF FirstOf
    <3>6. val[k] = k + j /\ Good[k] = FirstMatch(N, H, k)
      BY <2>3 DEF j
    <3> HIDE DEF val, Good
    <3> QED
      BY <3>5, <3>6 DEF FirstMatch, n, m, at
  <2> QED
    BY <2>1, <2>2, <2>3
<1>7. ASSUME NEW k \in D, k \notin Stop PROVE Good[next[k]] \subseteq Good[k]
  <2>1. k \in Nat /\ n - k >= W /\ n - k >= m /\ Hits(k) = {}
    BY <1>4, <1>7
  <2>2. next[k] = k + W /\ k + W \in D /\ k + W <= n /\ k <= n
    BY <1>2, <2>1
  <2>3. Good[next[k]] = FirstMatch(N, H, k + W) /\ Good[k] = FirstMatch(N, H, k)
    BY <2>2
  <2>4. ASSUME NEW x \in k..(k + W - 1), x \in k..(n - m) PROVE at[x] # 1
    <3>1. x - k \in 0..(W - 1) /\ k + (x - k) = x /\ x <= n - m
      BY <1>2, <2>1, <2>4
    <3> QED
      BY <1>4, <2>1, <3>1
  <2>5. ASSUME NEW r \in FirstOf(at, 1, k + W, n - m + 1)
        PROVE  r \in FirstOf(at, 1, k, n - m + 1)
    BY <1>2, <2>1, <2>4 DEF FirstOf
  <2> QED
    BY <2>3, <2>5 DEF FirstMatch, n, m, at
<1>8. f = body(f)
  <2>1. \E g : Runs(g, D, Stop, val, next)
    <3> HIDE DEF D, Stop, val, next, rank
    <3> QED
      BY <1>5, LoopDefined
  <2> HIDE DEF body, D, Stop, val, next
  <2>2. \E g : g = body(g)
    BY <1>3, <2>1
  <2> QED
    BY <2>2, Zenon
<1>9. Runs(f, D, Stop, val, next)
  <2> HIDE DEF body, D, Stop, val, next, f
  <2> QED
    BY <1>3, <1>8
<1>10. \A i \in D : f[i] \in Good[i]
  <2> HIDE DEF D, Stop, val, next, rank, Good, f
  <2> QED
    BY <1>5, <1>6, <1>7, <1>9, LoopInduction
<1>11. CASE n < m
  <2> HIDE DEF f
  <2> QED
    BY <1>1, <1>11, LongNeedle DEF n, m
<1>12. CASE ~(n < m)
  <2>1. 0 \in D /\ Good[0] = FirstMatch(N, H, 0)
    BY <1>2
  <2> HIDE DEF Good, f, D
  <2> QED
    BY <1>1, <1>10, <1>12, <2>1
<1> QED
  BY <1>11, <1>12

-----------------------------------------------------------------------------
(* The functions the application calls.                                     *)

(* ByteInBuffer answers for the first occurrence, or with SEARCH_REVERSE for
   the last, whichever version is installed.                                *)
THEOREM ByteInBufferExact ==
    ASSUME NEW N, NEW H, IsBuffer(H), NEW Flags, NEW arch
    PROVE  /\ "SEARCH_REVERSE" \notin Flags =>
                  \E r \in FirstOf(Bytes(H), N, 0, H.WriteCur) :
                      ByteInBuffer(N, H, Flags, arch) = Answer(r, 1, H, Flags)
           /\ "SEARCH_REVERSE" \in Flags =>
                  \E r \in LastOf(Bytes(H), N, H.WriteCur - 1) :
                      ByteInBuffer(N, H, Flags, arch) = Answer(r, 1, H, Flags)
<1>1. XMM128_SIZE \in Nat \ {0} /\ XMM256_SIZE \in Nat \ {0}
  <2>1. UszMod \in Nat
    BY UszModType
  <2>2. XMM128_SIZE \in 2..XMM256_SIZE /\ XMM256_SIZE \in 2..UszMod
    BY BufferQueryAssumption
  <2> HIDE DEF UszMod
  <2> QED
    BY <2>1, <2>2
<1>2. H.WriteCur \in 0..(UszMod - 1)
  BY DEF IsBuffer
<1>3. ASSUME "SEARCH_REVERSE" \in Flags
      PROVE  ByteInBuffer(N, H, Flags, arch)
                 = Answer(ReverseByteInBufferIdxSimple(N, H), 1, H, Flags)
  BY <1>3 DEF ByteInBuffer
<1>4. ASSUME "SEARCH_REVERSE" \notin Flags, arch.byte = "SSE2"
      PROVE  ByteInBuffer(N, H, Flags, arch) = Answer(ByteInBufferIdxSSE2(N, H), 1, H, Flags)
  BY <1>4 DEF ByteInBuffer
<1>5. ASSUME "SEARCH_REVERSE" \notin Flags, arch.byte = "AVX2"
      PROVE  ByteInBuffer(N, H, Flags, arch) = Answer(ByteInBufferIdxAVX2(N, H), 1, H, Flags)
  BY <1>5 DEF ByteInBuffer
<1>6. ASSUME "SEARCH_REVERSE" \notin Flags, arch.byte # "SSE2", arch.byte # "AVX2"
      PROVE  ByteInBuffer(N, H, Flags, arch) = Answer(ByteInBufferIdxSimple(N, H), 1, H, Flags)
  BY <1>6 DEF ByteInBuffer
<1>7. /\ ByteInBufferIdxSimple(N, H) \in FirstOf(Bytes(H), N, 0, H.WriteCur)
      /\ ReverseByteInBufferIdxSimple(N, H) \in LastOf(Bytes(H), N, H.WriteCur - 1)
  BY <1>2, SimpleFindsFirst, ReverseFindsLast
<1>8. /\ ByteInBufferIdxSSE2(N, H) \in FirstOf(Bytes(H), N, 0, H.WriteCur)
      /\ ByteInBufferIdxAVX2(N, H) \in FirstOf(Bytes(H), N, 0, H.WriteCur)
  BY <1>1, VectorFindsFirst DEF ByteInBufferIdxSSE2, ByteInBufferIdxAVX2
<1> QED
  BY <1>3, <1>4, <1>5, <1>6, <1>7, <1>8

(* BufferInBuffer, with the versions that search right.                     *)
THEOREM BufferInBufferExact ==
    ASSUME NEW N, IsNeedle(N), NEW H, IsBuffer(H), NEW Flags, NEW arch,
           arch.buffer # "AVX2"
    PROVE  /\ "SEARCH_REVERSE" \notin Flags =>
                  \E r \in FirstMatch(N, H, 0) :
                      BufferInBuffer(N, H, Flags, arch) = Answer(r, N.WriteCur, H, Flags)
           /\ "SEARCH_REVERSE" \in Flags =>
                  \E r \in LastOf(Matches(N, H), 1, H.WriteCur - N.WriteCur) :
                      BufferInBuffer(N, H, Flags, arch) = Answer(r, N.WriteCur, H, Flags)
<1>1. ASSUME "SEARCH_REVERSE" \in Flags
      PROVE  BufferInBuffer(N, H, Flags, arch)
                 = Answer(ReverseBufferInBufferIdxSimple(N, H), N.WriteCur, H, Flags)
  BY <1>1 DEF BufferInBuffer
<1>2. ASSUME "SEARCH_REVERSE" \notin Flags, arch.buffer = "SSE3"
      PROVE  BufferInBuffer(N, H, Flags, arch)
                 = Answer(BufferInBufferIdxSSE3(N, H), N.WriteCur, H, Flags)
  BY <1>2 DEF BufferInBuffer
<1>3. ASSUME "SEARCH_REVERSE" \notin Flags, arch.buffer # "SSE3"
      PROVE  BufferInBuffer(N, H, Flags, arch)
                 = Answer(BufferInBufferIdxSimple(N, H), N.WriteCur, H, Flags)
  BY <1>3 DEF BufferInBuffer
<1> QED
  BY <1>1, <1>2, <1>3, SimpleFindsFirstMatch, ReverseFindsLastMatch, SSE3FindsFirstMatch

-----------------------------------------------------------------------------
(* The arithmetic of usz.                                                   *)

(* usz holds the size of the allocation, and INVALID_IDX is its last
   value.                                                                   *)
LEMMA Sizes ==
    /\ UszMod \in Nat \ {0}
    /\ Alloc \in Nat \ {0} /\ Alloc < UszMod
    /\ INVALID_IDX = UszMod - 1
<1>1. UszMod \in Nat /\ UszMod > 1
  BY UszModType
<1>2. Alloc \in 1..(UszMod - 1)
  BY BuffersAssumption
<1> HIDE DEF UszMod
<1> QED
  BY <1>1, <1>2 DEF INVALID_IDX

(* What is reduced to usz is a usz.                                         *)
LEMMA UszType ==
    ASSUME NEW x \in Nat
    PROVE  Usz(x) \in 0..(UszMod - 1)
<1>1. UszMod \in Nat \ {0}
  BY Sizes
<1> HIDE DEF UszMod
<1> QED
  BY <1>1, Division DEF Usz

(* What does not overflow is not reduced.                                   *)
LEMMA UszExact ==
    ASSUME NEW x \in 0..(UszMod - 1)
    PROVE  Usz(x) = x
<1>1. UszMod \in Nat \ {0}
  BY Sizes
<1> HIDE DEF UszMod
<1>2. x = UszMod * 0 + x /\ x \in Nat
  BY <1>1
<1>3. x % UszMod = x
  BY <1>1, <1>2, RemainderUnique
<1> QED
  BY <1>3 DEF Usz

(* A difference of two usz wraps when it would be negative.                 *)
LEMMA MinusExact ==
    ASSUME NEW a \in 0..(UszMod - 1), NEW b \in 0..(UszMod - 1)
    PROVE  Minus(a, b) = IF b <= a THEN a - b ELSE a + UszMod - b
<1>1. UszMod \in Nat \ {0}
  BY Sizes
<1> HIDE DEF UszMod
<1> DEFINE M == UszMod
<1>2. CASE b <= a
  <2>1. a + M - b \in Nat /\ a - b \in 0..(M - 1) /\ a + M - b = M * 1 + (a - b)
    BY <1>1, <1>2
  <2>2. (a + M - b) % M = a - b
    <3> HIDE DEF M
    <3>1. M \in Nat \ {0}
      BY <1>1 DEF M
    <3> QED
      BY <2>1, <3>1, RemainderUnique
  <2> QED
    BY <1>2, <2>2 DEF Minus
<1>3. CASE ~(b <= a)
  <2>1. a + M - b \in Nat /\ a + M - b \in 0..(M - 1) /\ a + M - b = M * 0 + (a + M - b)
    BY <1>1, <1>3
  <2>2. (a + M - b) % M = a + M - b
    <3> HIDE DEF M
    <3>1. M \in Nat \ {0}
      BY <1>1 DEF M
    <3> QED
      BY <2>1, <3>1, RemainderUnique
  <2> QED
    BY <1>3, <2>2 DEF Minus
<1> QED
  BY <1>2, <1>3

-----------------------------------------------------------------------------
(* Writing to the memory.                                                   *)

(* Store keeps the types, and never forgets that something wild was written. *)
LEMMA StoreTypes ==
    ASSUME TypeOK, NEW at \in Nat, NEW s \in Seq(Byte \cup {ZERO}), Store(at, s)
    PROVE  /\ mem' \in [0..(Alloc - 1) -> Byte \cup {ZERO}]
           /\ wild' \in BOOLEAN
           /\ wild' <=> wild \/ (Len(s) > 0 /\ at + Len(s) > Alloc)
           /\ \A a \in 0..(Alloc - 1) :
                  mem'[a] = IF a \in at..(at + Len(s) - 1) THEN s[a - at + 1] ELSE mem[a]
<1>1. DOMAIN mem = 0..(Alloc - 1)
  BY DEF TypeOK
<1>2. Alloc \in Nat /\ Len(s) \in Nat
  BY Sizes
<1>3. \A a \in 0..(Alloc - 1) :
          mem'[a] = IF a \in at..(at + Len(s) - 1) THEN s[a - at + 1] ELSE mem[a]
  BY <1>1 DEF Store
<1>4. \A a \in 0..(Alloc - 1) :
          a \in at..(at + Len(s) - 1) => a - at + 1 \in 1..Len(s) /\ s[a - at + 1] \in Byte \cup {ZERO}
  <2>1. \A k \in 1..Len(s) : s[k] \in Byte \cup {ZERO}
    OBVIOUS
  <2>2. \A a \in 0..(Alloc - 1) : a \in at..(at + Len(s) - 1) => a - at + 1 \in 1..Len(s)
    BY <1>2
  <2> QED
    BY <2>1, <2>2
<1>5. mem' \in [0..(Alloc - 1) -> Byte \cup {ZERO}]
  <2>1. \A a \in 0..(Alloc - 1) : mem[a] \in Byte \cup {ZERO}
    BY DEF TypeOK
  <2>2. mem' = [a \in 0..(Alloc - 1) |-> IF a \in at..(at + Len(s) - 1) THEN s[a - at + 1] ELSE mem[a]]
    BY <1>1 DEF Store
  <2> QED
    BY <1>4, <2>1, <2>2
<1>6. wild' = (wild \/ (Len(s) > 0 /\ at + Len(s) > Alloc)) /\ wild \in BOOLEAN
  BY DEF Store, TypeOK
<1> QED
  BY <1>3, <1>5, <1>6, Zenon

(* Data stored behind the content, inside the allocation, extends it.       *)
LEMMA StoreExtends ==
    ASSUME TypeOK, NEW s \in Seq(Byte), Store(Base + WriteCur, s),
           WriteCur = Len(content), Base + WriteCur + Len(s) <= Alloc,
           \A k \in 1..Len(content) : mem[Base + k - 1] = content[k]
    PROVE  \A k \in 1..Len(content \o s) : mem'[Base + k - 1] = (content \o s)[k]
<1> DEFINE n == Len(content)
           m == Len(s)
<1>1. n \in Nat /\ m \in Nat /\ Base \in Nat /\ WriteCur = n /\ Alloc \in Nat /\ Base + n + m <= Alloc
  BY Sizes DEF TypeOK
<1>2. \A a \in 0..(Alloc - 1) :
          mem'[a] = IF a \in (Base + WriteCur)..(Base + WriteCur + Len(s) - 1)
                    THEN s[a - (Base + WriteCur) + 1] ELSE mem[a]
  <2>1. s \in Seq(Byte \cup {ZERO}) /\ Base + WriteCur \in Nat
    BY DEF TypeOK
  <2> QED
    BY <2>1, StoreTypes
<1>3. Len(content \o s) = n + m
  BY DEF TypeOK
<1>4. ASSUME NEW k \in 1..n PROVE mem'[Base + k - 1] = (content \o s)[k]
  <2>1. (content \o s)[k] = content[k]
    BY DEF TypeOK
  <2>2. Base + k - 1 \in 0..(Alloc - 1) /\ Base + k - 1 \notin (Base + WriteCur)..(Base + WriteCur + Len(s) - 1)
    BY <1>1
  <2> QED
    BY <1>2, <2>1, <2>2
<1>5. ASSUME NEW k \in (n + 1)..(n + m) PROVE mem'[Base + k - 1] = (content \o s)[k]
  <2>1. (content \o s)[k] = s[k - n]
    BY <1>1 DEF TypeOK
  <2> HIDE DEF n, m
  <2>2. /\ Base + k - 1 \in 0..(Alloc - 1)
        /\ Base + k - 1 \in (Base + WriteCur)..(Base + WriteCur + m - 1)
        /\ (Base + k - 1) - (Base + WriteCur) + 1 = k - n
    BY <1>1
  <2> QED
    BY <1>2, <2>1, <2>2 DEF m
<1> HIDE DEF n, m
<1> QED
  <2>1. \A k \in 1..(n + m) : k \in 1..n \/ k \in (n + 1)..(n + m)
    BY <1>1
  <2> QED
    BY <1>3, <1>4, <1>5, <2>1

-----------------------------------------------------------------------------
(* The invariant.                                                           *)

(* Size - WriteCur is the room that is left, unless the data is longer
   than Size.                                                               *)
LEMMA RoomExact ==
    ASSUME TypeOK
    PROVE  Room = IF WriteCur <= Size THEN Size - WriteCur ELSE Size + UszMod - WriteCur
<1>1. Size \in 0..(UszMod - 1) /\ WriteCur \in 0..(UszMod - 1)
  <2>1. Alloc \in Nat /\ Alloc < UszMod /\ UszMod \in Nat
    BY Sizes
  <2> HIDE DEF UszMod
  <2> QED
    BY <2>1 DEF TypeOK
<1> QED
  BY <1>1, MinusExact DEF Room

(* Buffer() hands over data that lies in the allocation.                    *)
LEMMA InitInvariant ==
    Init => IInv
<1> SUFFICES ASSUME Init PROVE IInv
  OBVIOUS
<1>1. PICK p \in Shapes : Buffer(p[1], p[2])
  BY DEF Init
<1>2. UszMod \in Nat /\ Alloc \in Nat /\ Alloc < UszMod /\ 0 \in 0..(UszMod - 1)
  <2>1. UszMod \in Nat \ {0} /\ Alloc \in Nat /\ Alloc < UszMod
    BY Sizes
  <2> HIDE DEF UszMod
  <2> QED
    BY <2>1
<1>3. p \in Seq(Byte) \X {0, Alloc} /\ Len(p[1]) <= Alloc
  BY BuffersAssumption
<1>4. p[1] \in Seq(Byte) /\ p[2] \in {0, Alloc} /\ Len(p[1]) \in Nat
  BY <1>3
<1>5. /\ mem = [a \in 0..(Alloc - 1) |-> IF a < Len(p[1]) THEN p[1][a + 1] ELSE ZERO]
      /\ Base = 0 /\ WriteCur = Len(p[1]) /\ Size = p[2] /\ content = p[1]
  BY <1>1 DEF Buffer
<1> HIDE DEF UszMod
<1>6. TypeOK
  <2>1. \A a \in 0..(Alloc - 1) : a < Len(p[1]) => p[1][a + 1] \in Byte
    <3>1. \A k \in 1..Len(p[1]) : p[1][k] \in Byte
      BY <1>4
    <3>2. \A a \in 0..(Alloc - 1) : a < Len(p[1]) => a + 1 \in 1..Len(p[1])
      BY <1>2, <1>4
    <3> QED
      BY <3>1, <3>2
  <2>2. mem \in [0..(Alloc - 1) -> Byte \cup {ZERO}]
    BY <1>5, <2>1
  <2>3. WriteCur \in 0..(UszMod - 1)
    BY <1>2, <1>3, <1>4, <1>5
  <2>4. Src \in Seq(Byte) /\ content \in Seq(Byte)
    BY <1>4, <1>5 DEF Init
  <2> QED
    BY <1>2, <1>4, <1>5, <2>2, <2>3, <2>4 DEF Init, TypeOK
<1>7. \A k \in 1..Len(content) : mem[Base + k - 1] = content[k]
  <2>1. ASSUME NEW k \in 1..Len(p[1]) PROVE mem[k - 1] = p[1][k] /\ Base + k - 1 = k - 1
    <3>1. k - 1 \in 0..(Alloc - 1) /\ k - 1 < Len(p[1]) /\ (k - 1) + 1 = k /\ 0 + k - 1 = k - 1
      BY <1>2, <1>3, <1>4
    <3> QED
      BY <1>5, <3>1
  <2> QED
    BY <1>5, <2>1
<1>8. Writable => Size = Alloc \/ WriteCur = 0
  BY <1>5 DEF Writable
<1>9. pc = "idle" /\ wild = FALSE
  BY DEF Init
<1>10. Base + WriteCur <= Alloc /\ WriteCur = Len(content)
  BY <1>2, <1>3, <1>4, <1>5
<1> QED
  BY <1>6, <1>7, <1>8, <1>9, <1>10 DEF IInv, Intact, RestFits

(* ClearBuffer.                                                             *)
LEMMA ClearPreserves ==
    ASSUME IInv, ClearBuffer
    PROVE  IInv'
<1>1. TypeOK /\ ~wild /\ Intact /\ pc = "idle" /\ pc' = "idle"
  BY DEF IInv, ClearBuffer, Call, Idle
<1>2. Base \in Nat /\ WriteCur \in Nat /\ Size \in Nat /\ Alloc \in Nat /\ 0 \in 0..(UszMod - 1)
  <2>1. UszMod \in Nat \ {0} /\ Alloc \in Nat
    BY Sizes
  <2> HIDE DEF UszMod
  <2> QED
    BY <1>1, <2>1 DEF TypeOK
<1> DEFINE zeros == [k \in 1..Size |-> ZERO]
<1>3. zeros \in Seq(Byte \cup {ZERO})
  BY <1>2
<1>4. Store(Base, zeros)
  BY DEF ClearBuffer
<1>5. mem' \in [0..(Alloc - 1) -> Byte \cup {ZERO}] /\ wild' \in BOOLEAN
  <2> HIDE DEF zeros
  <2> QED
    BY <1>1, <1>2, <1>3, <1>4, StoreTypes
<1>6. /\ content' = <<>> /\ WriteCur' = 0
      /\ UNCHANGED <<Base, Size, pc, Src, Count, Old, New, RBase, RCur>>
  BY DEF ClearBuffer, Call, locals
<1>7. TypeOK'
  BY <1>1, <1>2, <1>5, <1>6 DEF TypeOK
<1>8. Intact'
  BY <1>1, <1>2, <1>6 DEF Intact, RestFits
<1> QED
  BY <1>1, <1>7, <1>8 DEF IInv

(* AdvanceBuffer.                                                           *)
LEMMA AdvancePreserves ==
    ASSUME IInv, NEW n \in Steps, n <= WriteCur, AdvanceBuffer(n)
    PROVE  IInv'
<1>1. TypeOK /\ ~wild /\ Intact /\ pc = "idle" /\ pc' = "idle"
  BY DEF IInv, AdvanceBuffer, Call, Idle
<1>2. /\ n \in 0..(UszMod - 1) /\ n <= WriteCur
      /\ Base' = Usz(Base + n) /\ WriteCur' = Minus(WriteCur, n)
      /\ content' = SubSeq(content, n + 1, Len(content))
      /\ UNCHANGED <<mem, wild, Size, pc, Src, Count, Old, New, RBase, RCur>>
  BY BuffersAssumption DEF AdvanceBuffer, Call, locals
<1>3. /\ UszMod \in Nat /\ Alloc \in Nat /\ Alloc < UszMod
      /\ Base \in Nat /\ WriteCur \in 0..(UszMod - 1) /\ WriteCur \in Nat /\ n \in Nat
      /\ Base + WriteCur <= Alloc /\ WriteCur = Len(content)
  <2>1. UszMod \in Nat /\ Alloc \in Nat /\ Alloc < UszMod
    BY Sizes
  <2> HIDE DEF UszMod
  <2> QED
    BY <1>1, <1>2, <2>1 DEF TypeOK, Intact
<1>4. Base' = Base + n /\ Base' \in 0..(UszMod - 1)
  <2>1. Base + n \in 0..(UszMod - 1)
    <3> HIDE DEF UszMod
    <3> QED
      BY <1>2, <1>3
  <2> QED
    BY <1>2, <2>1, UszExact
<1>5. WriteCur' = WriteCur - n /\ WriteCur' \in 0..(UszMod - 1)
  <2>1. WriteCur' = WriteCur - n
    BY <1>2, <1>3, MinusExact
  <2> HIDE DEF UszMod
  <2> QED
    BY <1>2, <1>3, <2>1
<1> HIDE DEF UszMod
<1>6. /\ content' \in Seq(Byte) /\ Len(content') = WriteCur - n
      /\ \A k \in 1..(WriteCur - n) : content'[k] = content[k + n]
  <2>1. content \in Seq(Byte)
    BY <1>1 DEF TypeOK
  <2>2. n + 1 \in 1..(Len(content) + 1) /\ Len(content) \in 0..Len(content)
    BY <1>2, <1>3
  <2>3. content' \in Seq(Byte) /\ Len(content') = Len(content) - (n + 1) + 1
    BY <1>2, <1>3, <2>1, <2>2
  <2>4. \A k \in 1..(WriteCur - n) : content'[k] = content[(n + 1) + k - 1] /\ (n + 1) + k - 1 = k + n
    BY <1>2, <1>3, <2>1, <2>2
  <2> QED
    BY <1>3, <2>3, <2>4
<1>7. TypeOK'
  BY <1>1, <1>2, <1>4, <1>5, <1>6 DEF TypeOK
<1>8. ASSUME NEW k \in 1..Len(content') PROVE mem'[Base' + k - 1] = content'[k]
  <2>0. k \in 1..(WriteCur - n)
    BY <1>6
  <2>1. k + n \in 1..Len(content) /\ Base + (k + n) - 1 = Base' + k - 1
    BY SMTT(30), <1>2, <1>3, <1>4, <2>0
  <2>2. mem[Base + (k + n) - 1] = content[k + n]
    BY <1>1, <2>1 DEF Intact
  <2> QED
    BY <1>2, <1>6, <2>0, <2>1, <2>2
<1>9. Intact'
  <2>1. Writable => Size' = Alloc \/ WriteCur' = 0
    BY <1>1, <1>2, <1>3, <1>5 DEF Intact
  <2>2. WriteCur' = Len(content') /\ Base' + WriteCur' <= Alloc
    BY <1>2, <1>3, <1>4, <1>5, <1>6
  <2> QED
    BY <1>1, <1>8, <2>1, <2>2 DEF Intact, RestFits
<1> QED
  BY <1>1, <1>2, <1>7, <1>9 DEF IInv

(* One piece of data that fits is copied behind the content: by a call, or
   by an iteration of the loop.                                             *)
LEMMA Extended ==
    ASSUME TypeOK, Intact, ~wild, pc # "replace", NEW s \in Seq(Byte), Len(s) <= Room,
           Store(Base + WriteCur, s), WriteCur' = Usz(WriteCur + Len(s)),
           content' = content \o s, UNCHANGED <<Base, Size>>
    PROVE  /\ mem' \in [0..(Alloc - 1) -> Byte \cup {ZERO}]
           /\ WriteCur' \in 0..(UszMod - 1)
           /\ content' \in Seq(Byte)
           /\ wild' \in BOOLEAN
           /\ Writable /\ Base = 0 => ~wild'
           /\ ~wild' =>
                  /\ WriteCur' = WriteCur + Len(s)
                  /\ WriteCur' = Len(content')
                  /\ Base' + WriteCur' <= Alloc
                  /\ Writable => Size' = Alloc \/ WriteCur' = 0
                  /\ \A k \in 1..Len(content') : mem'[Base' + k - 1] = content'[k]
                  /\ Room' = Room - Len(s)
<1>1. /\ UszMod \in Nat /\ Alloc \in Nat \ {0} /\ Alloc < UszMod
      /\ Base \in Nat /\ WriteCur \in 0..(UszMod - 1) /\ WriteCur \in Nat /\ Len(s) \in Nat
      /\ Base + WriteCur <= Alloc /\ WriteCur = Len(content) /\ Size \in {0, Alloc}
  <2>1. UszMod \in Nat /\ Alloc \in Nat \ {0} /\ Alloc < UszMod
    BY Sizes
  <2> HIDE DEF UszMod
  <2> QED
    BY <2>1 DEF TypeOK, Intact
<1>2. WriteCur' \in 0..(UszMod - 1)
  <2>1. WriteCur + Len(s) \in Nat
    BY <1>1
  <2> QED
    BY <2>1, UszType
<1>3. /\ Room = IF WriteCur <= Size THEN Size - WriteCur ELSE Size + UszMod - WriteCur
  BY RoomExact
<1>4. /\ mem' \in [0..(Alloc - 1) -> Byte \cup {ZERO}]
      /\ wild' \in BOOLEAN
      /\ wild' <=> (Len(s) > 0 /\ Base + WriteCur + Len(s) > Alloc)
  <2>1. s \in Seq(Byte \cup {ZERO}) /\ Base + WriteCur \in Nat
    BY <1>1
  <2>2. /\ mem' \in [0..(Alloc - 1) -> Byte \cup {ZERO}]
        /\ wild' \in BOOLEAN
        /\ wild' <=> wild \/ (Len(s) > 0 /\ Base + WriteCur + Len(s) > Alloc)
    BY <2>1, StoreTypes
  <2> QED
    BY <2>2
<1>5. content' \in Seq(Byte) /\ Len(content') = Len(content) + Len(s)
  BY DEF TypeOK
<1> HIDE DEF UszMod
<1>6. ASSUME Writable, Base = 0 PROVE ~wild'
  <2>1. Size = Alloc \/ WriteCur = 0
    BY <1>6 DEF Intact
  <2>2. WriteCur + Len(s) <= Alloc
    BY <1>1, <1>3, <1>6, <2>1
  <2> QED
    BY <1>1, <1>4, <1>6, <2>2
<1>7. ASSUME ~wild'
      PROVE  /\ WriteCur' = WriteCur + Len(s)
             /\ WriteCur' = Len(content')
             /\ Base' + WriteCur' <= Alloc
             /\ Writable => Size' = Alloc \/ WriteCur' = 0
             /\ \A k \in 1..Len(content') : mem'[Base' + k - 1] = content'[k]
             /\ Room' = Room - Len(s)
  <2>1. Base + WriteCur + Len(s) <= Alloc
    BY <1>1, <1>4, <1>7
  <2>2. WriteCur' = WriteCur + Len(s)
    <3>1. WriteCur + Len(s) \in 0..(UszMod - 1)
      BY <1>1, <2>1
    <3> QED
      BY <3>1, UszExact
  <2>3. Writable => Size' = Alloc \/ WriteCur' = 0
    <3>1. ASSUME Writable PROVE Size = Alloc \/ (WriteCur = 0 /\ Len(s) = 0)
      <4>1. Size = Alloc \/ WriteCur = 0
        BY <3>1 DEF Intact
      <4> QED
        BY <1>1, <1>3, <4>1
    <3> QED
      BY <1>1, <2>2, <3>1
  <2>4. \A k \in 1..Len(content \o s) : mem'[Base + k - 1] = (content \o s)[k]
    <3>1. \A k \in 1..Len(content) : mem[Base + k - 1] = content[k]
      BY DEF Intact
    <3> QED
      BY <1>1, <2>1, <3>1, StoreExtends
  <2>5. Room' = Room - Len(s)
    <3>1. Room' = IF WriteCur' <= Size' THEN Size' - WriteCur' ELSE Size' + UszMod - WriteCur'
      <4>1. Size' \in 0..(UszMod - 1)
        BY <1>1
      <4>2. Room' = Minus(Size', WriteCur')
        BY DEF Room
      <4> QED
        BY <1>2, <4>1, <4>2, MinusExact
    <3> QED
      BY <1>1, <1>3, <2>1, <2>2, <3>1
  <2>6. WriteCur' = Len(content') /\ Base' + WriteCur' <= Alloc
    BY <1>1, <1>5, <2>1, <2>2
  <2> QED
    BY <2>2, <2>3, <2>4, <2>5, <2>6
<1> QED
  BY <1>2, <1>4, <1>5, <1>6, <1>7

(* Data that fits is appended; what does not fit changes nothing.           *)
LEMMA AppendPreserves ==
    ASSUME IInv, NEW s \in Sources, AppendDataToBuffer(s)
    PROVE  IInv'
<1>1. TypeOK /\ ~wild /\ Intact /\ pc = "idle" /\ pc' = "idle"
  BY DEF IInv, AppendDataToBuffer, Call, Idle
<1>2. s \in Seq(Byte) /\ Len(s) \in Nat /\ UNCHANGED <<Base, Size, pc, Src, Count, Old, New, RBase, RCur>>
  BY BuffersAssumption DEF AppendDataToBuffer, Call, locals
<1>3. CASE ~CopyFits(Room, Len(s))
  <2>1. UNCHANGED <<mem, wild, WriteCur, content>>
    BY <1>3 DEF AppendDataToBuffer
  <2> QED
    BY <1>1, <1>2, <2>1 DEF IInv, TypeOK, Intact, RestFits
<1>4. CASE CopyFits(Room, Len(s))
  <2>1. /\ Store(Base + WriteCur, s)
        /\ WriteCur' = Usz(WriteCur + Len(s))
        /\ content' = content \o s
    BY <1>4 DEF AppendDataToBuffer
  <2>2. Len(s) <= Room
    BY <1>1, <1>4 DEF CopyFits
  <2>3. /\ mem' \in [0..(Alloc - 1) -> Byte \cup {ZERO}]
        /\ WriteCur' \in 0..(UszMod - 1) /\ content' \in Seq(Byte) /\ wild' \in BOOLEAN
        /\ ~wild' =>
               /\ WriteCur' = Len(content')
               /\ Base' + WriteCur' <= Alloc
               /\ Writable => Size' = Alloc \/ WriteCur' = 0
               /\ \A k \in 1..Len(content') : mem'[Base' + k - 1] = content'[k]
    BY <1>1, <1>2, <2>1, <2>2, Extended
  <2>4. TypeOK'
    BY <1>1, <1>2, <2>3 DEF TypeOK
  <2>5. ~wild' => Intact'
    BY <1>1, <2>3 DEF Intact, RestFits
  <2> QED
    BY <1>1, <2>4, <2>5 DEF IInv
<1> QED
  BY <1>3, <1>4

(* The loop of AppendBufferToBufferNTimes.  Its one test of the total stands
   for a test in every iteration, as long as the total has not wrapped.     *)
LEMMA NTimesCallPreserves ==
    ASSUME IInv, NoTotalWraps, NEW s \in Sources, NEW n \in Counts, NTimesCall(s, n)
    PROVE  IInv'
<1>1. TypeOK /\ ~wild /\ Intact /\ pc = "idle"
  BY DEF IInv, NTimesCall, Idle
<1>2. /\ Usz(Len(s) * n) <= Room /\ pc' = "ntimes" /\ Src' = s /\ Count' = n
      /\ UNCHANGED <<mem, Base, WriteCur, Size, Old, New, RBase, RCur, content, wild>>
  BY DEF NTimesCall, buf
<1>3. s \in Seq(Byte) /\ n \in 0..(UszMod - 1) /\ Len(s) * n < UszMod
  BY BuffersAssumption DEF NoTotalWraps
<1>4. Len(s) * n <= Room
  <2>1. n \in Nat /\ Len(s) \in Nat /\ UszMod \in Nat
    <3>1. UszMod \in Nat
      BY Sizes
    <3> HIDE DEF UszMod
    <3> QED
      BY <1>3, <3>1
  <2>2. Len(s) * n \in Nat
    BY <2>1
  <2> DEFINE total == Len(s) * n
  <2>3. total \in 0..(UszMod - 1)
    <3> HIDE DEF total, UszMod
    <3>1. total \in Nat /\ total < UszMod
      BY <1>3, <2>2 DEF total
    <3> QED
      BY <2>1, <3>1
  <2>4. Usz(total) = total
    <3> HIDE DEF total
    <3> QED
      BY <2>3, UszExact
  <2> QED
    BY <1>2, <2>4
<1>5. TypeOK'
  BY <1>1, <1>2, <1>3 DEF TypeOK
<1>6. Room' = Room
  BY <1>2 DEF Room, Minus
<1>7. RestFits'
  BY <1>2, <1>4, <1>6 DEF RestFits
<1>8. Intact'
  BY <1>1, <1>2, <1>7 DEF Intact
<1> QED
  BY <1>2, <1>5, <1>8 DEF IInv

(* An iteration of AppendBufferToBufferNTimes copies Src once: the total
   has been tested against the room, so that each of the copies fits.       *)
LEMMA NTimesCopyPreserves ==
    ASSUME IInv, NTimesCopy
    PROVE  IInv'
<1>1. TypeOK /\ (~wild => Intact) /\ pc = "ntimes" /\ pc' = "ntimes"
  BY DEF IInv, NTimesCopy
<1>2. /\ Count > 0 /\ Count' = Count - 1
      /\ WriteCur' = Usz(WriteCur + Len(Src)) /\ content' = content \o Src
      /\ UNCHANGED <<Base, Size, Src, Old, New, RBase, RCur>>
  BY DEF NTimesCopy
<1>3. /\ UszMod \in Nat /\ Src \in Seq(Byte) /\ content \in Seq(Byte) /\ Len(Src) \in Nat
      /\ Count \in 0..(UszMod - 1) /\ WriteCur \in Nat /\ Base \in Nat /\ Count \in Nat
  <2>1. UszMod \in Nat
    BY Sizes
  <2> HIDE DEF UszMod
  <2> QED
    BY <1>1, <2>1 DEF TypeOK
<1>4. Count' \in 0..(UszMod - 1) /\ content' \in Seq(Byte)
  <2> HIDE DEF UszMod
  <2> QED
    BY <1>2, <1>3
<1>5. WriteCur' \in 0..(UszMod - 1)
  <2>1. WriteCur + Len(Src) \in Nat
    BY <1>3
  <2> QED
    BY <1>2, <2>1, UszType
<1>6. /\ mem' \in [0..(Alloc - 1) -> Byte \cup {ZERO}]
      /\ wild' \in BOOLEAN
      /\ wild => wild'
  <2>1. CASE CopyFits(Room, Len(Src))
    <3>1. Store(Base + WriteCur, Src)
      BY <2>1 DEF NTimesCopy
    <3>2. Src \in Seq(Byte \cup {ZERO}) /\ Base + WriteCur \in Nat
      BY <1>3
    <3> QED
      BY <1>1, <3>1, <3>2, StoreTypes
  <2>2. CASE ~CopyFits(Room, Len(Src))
    <3>1. UNCHANGED <<mem, wild>>
      BY <2>2 DEF NTimesCopy
    <3> QED
      BY <1>1, <3>1 DEF TypeOK
  <2> QED
    BY <2>1, <2>2
<1>7. TypeOK'
  BY <1>1, <1>2, <1>4, <1>5, <1>6 DEF TypeOK
<1>8. ASSUME ~wild' PROVE Intact'
  <2>1. ~wild /\ Intact
    BY <1>1, <1>6, <1>8
  <2> DEFINE m == Len(Src)
             left == m * (Count - 1)
  <2>2. left \in Nat /\ m * Count = left + m
    <3>1. \A u \in Nat, v \in Nat \ {0} : u * (v - 1) \in Nat /\ u * v = u * (v - 1) + u
      OBVIOUS
    <3>2. Count \in Nat \ {0}
      BY <1>2, <1>3
    <3> QED
      BY <1>3, <3>1, <3>2
  <2>3. m * Count <= Room /\ Room \in Int
    <3>1. m * Count <= Room
      BY <1>1, <2>1 DEF Intact, RestFits
    <3>2. Room \in Int
      <4>1. Alloc \in Nat /\ UszMod \in Nat
        BY Sizes
      <4> HIDE DEF UszMod
      <4>2. Size \in Int
        BY <1>1, <4>1 DEF TypeOK
      <4> QED
        BY <1>1, <1>3, <4>1, <4>2, RoomExact
    <3> QED
      BY <3>1, <3>2
  <2>4. m <= Room /\ left <= Room - m
    <3> HIDE DEF left
    <3>1. m \in Nat
      BY <1>3
    <3> HIDE DEF m
    <3>2. left + m <= Room
      BY <2>2, <2>3
    <3> QED
      BY <2>2, <2>3, <3>1, <3>2
  <2>5. Store(Base + WriteCur, Src)
    BY <2>4 DEF NTimesCopy, CopyFits
  <2>6. /\ WriteCur' = Len(content')
        /\ Base' + WriteCur' <= Alloc
        /\ Writable => Size' = Alloc \/ WriteCur' = 0
        /\ \A k \in 1..Len(content') : mem'[Base' + k - 1] = content'[k]
        /\ Room' = Room - m
    BY <1>1, <1>2, <1>3, <1>8, <2>1, <2>4, <2>5, Extended
  <2>7. RestFits'
    BY <1>2, <2>4, <2>6 DEF RestFits
  <2> QED
    BY <1>1, <2>6, <2>7 DEF Intact
<1> QED
  BY <1>1, <1>7, <1>8 DEF IInv

(* The loop has copied Src Count times and returns.                         *)
LEMMA NTimesReturnPreserves ==
    ASSUME IInv, NTimesReturn
    PROVE  IInv'
<1>1. /\ TypeOK /\ (~wild => Intact) /\ pc = "ntimes" /\ pc' = "idle" /\ Src' = <<>>
      /\ UNCHANGED <<mem, Base, WriteCur, Size, Count, Old, New, RBase, RCur, content, wild>>
  BY DEF IInv, NTimesReturn, buf
<1>2. <<>> \in Seq(Byte)
  OBVIOUS
<1> QED
  BY <1>1, <1>2 DEF IInv, TypeOK, Intact, RestFits

-----------------------------------------------------------------------------
(* ReplaceByteInBuffer.                                                     *)

(* The query functions see the bytes of the memory, wherever the allocation
   lies.                                                                    *)
LEMMA ViewBytes ==
    ASSUME NEW b \in Nat, NEW c \in Nat, b + c <= Alloc
    PROVE  /\ IsBuffer(View(b, c))
           /\ View(b, c).WriteCur = c
           /\ \A k \in 0..(c - 1) : Bytes(View(b, c))[k] = mem[b + k]
<1>1. Alloc \in Nat /\ Alloc < UszMod /\ UszMod \in Nat
  BY Sizes
<1>2. XMM256_SIZE \in Nat
  <2>1. XMM128_SIZE \in 2..XMM256_SIZE /\ XMM256_SIZE \in 2..UszMod
    BY BufferQueryAssumption
  <2> HIDE DEF UszMod
  <2> QED
    BY <1>1, <2>1
<1> DEFINE X == XMM256_SIZE
           V == View(b, c)
           m == [x \in X..(X + Alloc - 1) |-> mem[x - X]]
<1>3. V.WriteCur = c /\ V.Base = X + b /\ V.mem = m
  BY DEF View
<1>4. IsBuffer(V)
  <2>1. V = [mem |-> V.mem, Base |-> V.Base, WriteCur |-> V.WriteCur]
    BY DEF View
  <2> HIDE DEF UszMod, V
  <2>2. V.Base \in Nat /\ V.WriteCur \in 0..(UszMod - 1)
    BY <1>1, <1>2, <1>3
  <2> QED
    BY <2>1, <2>2 DEF IsBuffer
<1>5. ASSUME NEW k \in 0..(c - 1) PROVE Bytes(V)[k] = mem[b + k]
  <2>1. X + b + k \in X..(X + Alloc - 1) /\ X + b + k - X = b + k /\ k \in Int
    BY <1>1, <1>2
  <2>2. m[X + b + k] = mem[b + k] /\ X + b + k \in DOMAIN m
    <3> DEFINE y == X + b + k
    <3>1. y \in X..(X + Alloc - 1) /\ y - X = b + k
      BY <1>1, <1>2, <2>1
    <3> HIDE DEF y
    <3>2. y \in DOMAIN m /\ m[y] = mem[y - X]
      BY <3>1
    <3> QED
      BY <3>1, <3>2 DEF y
  <2> HIDE DEF V, m
  <2>3. At(V, k) = m[X + b + k]
    BY <1>3, <2>2 DEF At
  <2> QED
    BY <2>1, <2>2, <2>3 DEF Bytes
<1> QED
  BY <1>3, <1>4, <1>5

(* The search of the loop finds the next byte to be replaced.               *)
LEMMA FoundNext ==
    ASSUME RBase \in Nat, RCur \in Nat, RBase + RCur <= Alloc
    PROVE  \/ /\ FoundIdx \in 0..(RCur - 1) /\ FoundIdx # INVALID_IDX
              /\ mem[RBase + FoundIdx] = Old
              /\ \A k \in 0..(FoundIdx - 1) : mem[RBase + k] # Old
           \/ FoundIdx = INVALID_IDX /\ \A k \in 0..(RCur - 1) : mem[RBase + k] # Old
<1> DEFINE V == View(RBase, RCur)
<1>1. /\ IsBuffer(V) /\ V.WriteCur = RCur
      /\ \A k \in 0..(RCur - 1) : Bytes(V)[k] = mem[RBase + k]
  BY ViewBytes
<1>2. PICK r \in FirstOf(Bytes(V), Old, 0, V.WriteCur) :
          ByteInBuffer(Old, V, {"RETURN_IDX_FIND"}, Arch) = Answer(r, 1, V, {"RETURN_IDX_FIND"})
  <2>1. "SEARCH_REVERSE" \notin {"RETURN_IDX_FIND"}
    OBVIOUS
  <2> HIDE DEF V
  <2> QED
    BY <1>1, <2>1, ByteInBufferExact
<1>3. FoundIdx = r
  BY <1>2 DEF FoundIdx, Answer
<1>4. Alloc < UszMod /\ UszMod \in Nat /\ Alloc \in Nat /\ INVALID_IDX = UszMod - 1
  BY Sizes
<1> HIDE DEF V, UszMod, INVALID_IDX
<1>5. \/ r \in 0..(RCur - 1) /\ Bytes(V)[r] = Old /\ \A j \in 0..(r - 1) : Bytes(V)[j] # Old
      \/ r = INVALID_IDX /\ \A j \in 0..(RCur - 1) : Bytes(V)[j] # Old
  BY <1>1, <1>2 DEF FirstOf
<1>6. r \in 0..(RCur - 1) => r # INVALID_IDX /\ \A j \in 0..(r - 1) : j \in 0..(RCur - 1)
  BY <1>4
<1> QED
  BY <1>1, <1>3, <1>5, <1>6

(* ReplaceByteInBuffer starts: nothing is behind RBase yet.                 *)
LEMMA ReplaceCallPreserves ==
    ASSUME IInv, NEW o \in Byte, NEW n \in Byte, ReplaceCall(o, n)
    PROVE  IInv'
<1>1. TypeOK /\ ~wild /\ Intact /\ pc = "idle"
  BY DEF IInv, ReplaceCall, Idle
<1>2. /\ pc' = "replace" /\ Old' = o /\ New' = n /\ RBase' = Base /\ RCur' = WriteCur
      /\ content' = [k \in DOMAIN content |-> IF content[k] = o THEN n ELSE content[k]]
      /\ UNCHANGED <<mem, Base, WriteCur, Size, Src, Count, wild>>
  BY DEF ReplaceCall, buf
<1>3. /\ Base \in Nat /\ WriteCur \in Nat /\ Alloc \in Nat
      /\ content \in Seq(Byte) /\ Len(content) \in Nat /\ WriteCur = Len(content)
  <2>1. UszMod \in Nat /\ Alloc \in Nat
    BY Sizes
  <2> HIDE DEF UszMod
  <2> QED
    BY <1>1, <2>1 DEF TypeOK, Intact
<1>4. /\ content' \in Seq(Byte) /\ Len(content') = Len(content)
      /\ \A k \in 1..Len(content) : content'[k] = IF content[k] = o THEN n ELSE content[k]
  <2>1. DOMAIN content = 1..Len(content) /\ \A k \in 1..Len(content) : content[k] \in Byte
    BY <1>3
  <2>2. content' = [k \in 1..Len(content) |-> IF content[k] = o THEN n ELSE content[k]]
    BY <1>2, <2>1
  <2>3. content' \in [1..Len(content) -> Byte]
    BY <2>1, <2>2
  <2>4. content' \in Seq(Byte) /\ Len(content') = Len(content)
    BY <1>3, <2>3
  <2> QED
    BY <2>2, <2>4
<1>5. TypeOK'
  BY <1>1, <1>2, <1>3, <1>4 DEF TypeOK
<1>6. Intact'
  BY <1>1, <1>2, <1>4 DEF Intact, RestFits
<1>7. Replacing'
  <2>1. ASSUME NEW k \in 1..Len(content')
        PROVE  content'[k] = IF Base' + k - 1 >= RBase' /\ mem'[Base' + k - 1] = Old'
                             THEN New' ELSE mem'[Base' + k - 1]
    <3>1. k \in 1..Len(content) /\ Base + k - 1 >= Base
      BY <1>3, <1>4
    <3>2. mem[Base + k - 1] = content[k]
      BY <1>1, <3>1 DEF Intact
    <3> QED
      BY <1>2, <1>4, <3>1, <3>2
  <2>2. Base' <= RBase' /\ RBase' + RCur' = Base' + WriteCur'
    BY <1>2, <1>3
  <2> QED
    BY <2>1, <2>2 DEF Replacing
<1> QED
  BY <1>1, <1>2, <1>5, <1>6, <1>7 DEF IInv

(* What the loop of a replacement stands on.                                *)
LEMMA ReplaceTypes ==
    ASSUME IInv, pc = "replace"
    PROVE  /\ TypeOK /\ ~wild /\ Intact /\ Replacing
           /\ Base \in Nat /\ WriteCur \in Nat /\ Alloc \in Nat /\ RBase \in Nat /\ RCur \in Nat
           /\ RBase + RCur = Base + WriteCur /\ Base <= RBase /\ RBase + RCur <= Alloc
           /\ Len(content) = WriteCur
           /\ \A k \in 1..Len(content) :
                  content[k] = IF Base + k - 1 >= RBase /\ mem[Base + k - 1] = Old
                               THEN New ELSE mem[Base + k - 1]
<1>1. TypeOK /\ ~wild /\ Intact /\ Replacing
  BY DEF IInv
<1>2. Base \in Nat /\ WriteCur \in Nat /\ Alloc \in Nat /\ RBase \in Nat /\ RCur \in Nat
  <2>1. UszMod \in Nat /\ Alloc \in Nat
    BY Sizes
  <2> HIDE DEF UszMod
  <2> QED
    BY <1>1, <2>1 DEF TypeOK
<1> QED
  BY <1>1, <1>2 DEF Intact, Replacing

(* The byte that was found is replaced; the ones passed over to reach it
   are no bytes to be replaced.                                             *)
LEMMA ReplaceOnePreserves ==
    ASSUME IInv, ReplaceOne
    PROVE  IInv' /\ ~wild'
<1> DEFINE F == FoundIdx
<1>1. /\ pc = "replace" /\ F # INVALID_IDX /\ Store(RBase + F, <<New>>)
      /\ RBase' = RBase + F /\ RCur' = RCur - F
      /\ UNCHANGED <<Base, WriteCur, Size, pc, Src, Count, Old, New, content>>
  BY DEF ReplaceOne, buf
<1>2. /\ TypeOK /\ ~wild /\ Intact /\ Replacing
      /\ Base \in Nat /\ WriteCur \in Nat /\ Alloc \in Nat /\ RBase \in Nat /\ RCur \in Nat
      /\ RBase + RCur = Base + WriteCur /\ Base <= RBase /\ RBase + RCur <= Alloc
      /\ Len(content) = WriteCur
  BY <1>1, ReplaceTypes
<1>3. \A k \in 1..Len(content) :
          content[k] = IF Base + k - 1 >= RBase /\ mem[Base + k - 1] = Old
                       THEN New ELSE mem[Base + k - 1]
  BY <1>1, ReplaceTypes
<1>4. F \in 0..(RCur - 1) /\ mem[RBase + F] = Old /\ \A k \in 0..(F - 1) : mem[RBase + k] # Old
  BY <1>1, <1>2, FoundNext
<1> HIDE DEF F
<1>5. F \in Nat /\ RBase + F \in Nat /\ RCur - F \in Nat /\ RBase + F + 1 <= Alloc
  BY <1>2, <1>4
<1>6. /\ mem' \in [0..(Alloc - 1) -> Byte \cup {ZERO}]
      /\ ~wild' /\ wild' \in BOOLEAN
      /\ \A a \in 0..(Alloc - 1) : mem'[a] = IF a = RBase + F THEN New ELSE mem[a]
  <2>1. <<New>> \in Seq(Byte \cup {ZERO}) /\ Len(<<New>>) = 1 /\ <<New>>[1] = New
    BY <1>2 DEF TypeOK
  <2>2. /\ mem' \in [0..(Alloc - 1) -> Byte \cup {ZERO}]
        /\ wild' \in BOOLEAN
        /\ wild' <=> wild \/ (Len(<<New>>) > 0 /\ RBase + F + Len(<<New>>) > Alloc)
        /\ \A a \in 0..(Alloc - 1) :
               mem'[a] = IF a \in (RBase + F)..(RBase + F + Len(<<New>>) - 1)
                         THEN <<New>>[a - (RBase + F) + 1] ELSE mem[a]
    BY <1>1, <1>2, <1>5, <2>1, StoreTypes
  <2>3. ASSUME NEW a \in 0..(Alloc - 1) PROVE mem'[a] = IF a = RBase + F THEN New ELSE mem[a]
    <3>1. a \in (RBase + F)..(RBase + F + 1 - 1) <=> a = RBase + F
      BY <1>2, <1>5
    <3>2. a = RBase + F => a - (RBase + F) + 1 = 1
      BY <1>2, <1>5
    <3> QED
      BY <2>1, <2>2, <3>1, <3>2
  <2>4. ~wild'
    BY <1>2, <1>5, <2>1, <2>2
  <2> QED
    BY <2>2, <2>3, <2>4
<1>7. TypeOK'
  BY <1>1, <1>2, <1>5, <1>6 DEF TypeOK
<1>8. Intact'
  BY <1>1, <1>2, <1>6 DEF Intact, RestFits
<1>9. Replacing'
  <2>1. Base' <= RBase' /\ RBase' + RCur' = Base' + WriteCur'
    BY <1>1, <1>2, <1>4
  <2>2. ASSUME NEW k \in 1..Len(content)
        PROVE  content[k] = IF Base + k - 1 >= RBase + F /\ mem'[Base + k - 1] = Old
                            THEN New ELSE mem'[Base + k - 1]
    <3> DEFINE a == Base + k - 1
    <3>1. a \in 0..(Alloc - 1) /\ a \in Int
      BY <1>2
    <3>2. content[k] = IF a >= RBase /\ mem[a] = Old THEN New ELSE mem[a]
      BY <1>3
    <3>3. mem'[a] = IF a = RBase + F THEN New ELSE mem[a]
      BY <1>6, <3>1
    <3> SUFFICES content[k] = IF a >= RBase + F /\ mem'[a] = Old THEN New ELSE mem'[a]
      OBVIOUS
    <3> HIDE DEF a
    <3>4. CASE a >= RBase + F
      BY <1>2, <1>4, <1>5, <3>1, <3>2, <3>3, <3>4
    <3>5. CASE a < RBase
      BY <1>2, <1>5, <3>1, <3>2, <3>3, <3>5
    <3>6. CASE a >= RBase /\ a < RBase + F
      <4>1. a - RBase \in 0..(F - 1) /\ RBase + (a - RBase) = a
        BY <1>2, <1>5, <3>1, <3>6
      <4>2. mem[a] # Old
        BY <1>4, <4>1
      <4> QED
        BY <1>2, <1>5, <3>1, <3>2, <3>3, <3>6, <4>2
    <3>7. a >= RBase + F \/ a < RBase \/ (a >= RBase /\ a < RBase + F)
      BY <1>2, <1>5, <3>1
    <3> QED
      BY <3>4, <3>5, <3>6, <3>7
  <2> QED
    BY <1>1, <2>1, <2>2 DEF Replacing
<1> QED
  BY <1>6, <1>7, <1>8, <1>9 DEF IInv

(* No byte is found any more: the rest of the data has no byte to
   replace.                                                                 *)
LEMMA ReplaceReturnPreserves ==
    ASSUME IInv, ReplaceReturn
    PROVE  IInv'
<1>1. /\ pc = "replace" /\ FoundIdx = INVALID_IDX
      /\ pc' = "idle" /\ Old' = ZERO /\ New' = ZERO /\ RBase' = 0 /\ RCur' = 0
      /\ UNCHANGED <<mem, Base, WriteCur, Size, Src, Count, content, wild>>
  BY DEF ReplaceReturn, buf
<1>2. /\ TypeOK /\ ~wild /\ Intact
      /\ Base \in Nat /\ WriteCur \in Nat /\ Alloc \in Nat /\ RBase \in Nat /\ RCur \in Nat
      /\ RBase + RCur = Base + WriteCur /\ Base <= RBase /\ RBase + RCur <= Alloc
      /\ Len(content) = WriteCur
  BY <1>1, ReplaceTypes
<1>3. \A k \in 1..Len(content) :
          content[k] = IF Base + k - 1 >= RBase /\ mem[Base + k - 1] = Old
                       THEN New ELSE mem[Base + k - 1]
  BY <1>1, ReplaceTypes
<1>4. \A j \in 0..(RCur - 1) : mem[RBase + j] # Old
  BY <1>1, <1>2, FoundNext
<1>5. ASSUME NEW k \in 1..Len(content) PROVE mem[Base + k - 1] = content[k]
  <2>1. CASE Base + k - 1 >= RBase
    <3>1. Base + k - 1 - RBase \in 0..(RCur - 1) /\ RBase + (Base + k - 1 - RBase) = Base + k - 1
      BY <1>2, <2>1
    <3>2. mem[Base + k - 1] # Old
      BY <1>4, <3>1
    <3> QED
      BY <1>3, <3>2
  <2>2. CASE ~(Base + k - 1 >= RBase)
    BY <1>3, <2>2
  <2> QED
    BY <2>1, <2>2
<1>6. TypeOK'
  BY <1>1, <1>2 DEF TypeOK
<1>7. Intact'
  BY <1>1, <1>2, <1>5 DEF Intact, RestFits
<1> QED
  BY <1>1, <1>6, <1>7 DEF IInv

-----------------------------------------------------------------------------
(* The theorems about the calls that edit.                                  *)

(* Every call of the editing functions, and every iteration of their
   loops, keeps the invariant.                                              *)
LEMMA StepPreserves ==
    ASSUME IInv, NoTotalWraps, [Next]_vars
    PROVE  IInv'
<1>1. CASE UNCHANGED vars
  BY <1>1 DEF IInv, TypeOK, Intact, Replacing, RestFits, Room, vars, buf, locals
<1>2. CASE InitBuffersArch
  BY <1>2 DEF InitBuffersArch, Call, locals, IInv, TypeOK, Intact, Replacing, RestFits, Room
<1>3. CASE ClearBuffer
  BY <1>3, ClearPreserves
<1>4. CASE \E n \in Steps : n <= WriteCur /\ AdvanceBuffer(n)
  BY <1>4, AdvancePreserves
<1>5. CASE \E s \in Sources : AppendDataToBuffer(s) \/ AppendBufferToBuffer(s)
  BY <1>5, AppendPreserves DEF AppendBufferToBuffer
<1>6. CASE AppendBufferToBufferNTimes
  <2>1. ASSUME NEW s \in Sources, NEW n \in Counts, NTimesCall(s, n) PROVE IInv'
    BY <2>1, NTimesCallPreserves
  <2>2. ASSUME NEW s \in Sources, NEW n \in Counts, NTimesRefused(s, n) PROVE IInv'
    <3>1. UNCHANGED vars
      BY <2>2 DEF NTimesRefused, Call, vars
    <3> QED
      BY <1>1, <3>1
  <2> QED
    BY <1>6, <2>1, <2>2, NTimesCopyPreserves, NTimesReturnPreserves
    DEF AppendBufferToBufferNTimes
<1>7. CASE ReplaceByteInBuffer
  <2>1. ASSUME NEW r \in Replacements, ReplaceCall(r[1], r[2]) PROVE IInv'
    <3>1. r[1] \in Byte /\ r[2] \in Byte
      BY BuffersAssumption
    <3> QED
      BY <2>1, <3>1, ReplaceCallPreserves
  <2> QED
    BY <1>7, <2>1, ReplaceOnePreserves, ReplaceReturnPreserves DEF ReplaceByteInBuffer
<1> QED
  BY <1>1, <1>2, <1>3, <1>4, <1>5, <1>6, <1>7 DEF Next

(* The data stays intact, whatever the calls and their sizes are, as long as
   no total that AppendBufferToBufferNTimes computes wraps.                 *)
THEOREM Invariant ==
    NoTotalWraps => (Spec => []IInv)
<1> SUFFICES ASSUME NoTotalWraps PROVE Spec => []IInv
  OBVIOUS
<1>1. Init => IInv
  BY InitInvariant
<1>2. IInv /\ [Next]_vars => IInv'
  BY StepPreserves
<1> QED
  BY <1>1, <1>2, PTL DEF Spec

(* Between calls the buffer holds exactly what the calls have put there.    *)
THEOREM ContentStaysIntact ==
    NoTotalWraps => (Spec => []ContentIntact)
<1> SUFFICES ASSUME NoTotalWraps PROVE Spec => []ContentIntact
  OBVIOUS
<1>1. IInv => ContentIntact
  BY DEF IInv, Intact, ContentIntact
<1> QED
  BY <1>1, Invariant, PTL

(* As long as AdvanceBuffer has not moved the buffer no call writes outside
   the allocation, if the buffer was created over all of it.                *)
THEOREM NothingWildWritten ==
    NoTotalWraps /\ Writable => (Spec => WritesInBounds)
<1> SUFFICES ASSUME NoTotalWraps, Writable PROVE Spec => WritesInBounds
  OBVIOUS
<1>1. ASSUME IInv, [Next]_vars, Base = 0, ~wild PROVE ~wild'
  <2>1. TypeOK /\ Intact /\ wild \in BOOLEAN /\ (Size = Alloc \/ WriteCur = 0)
    BY <1>1 DEF IInv, Intact, TypeOK
  <2>2. ASSUME UNCHANGED wild PROVE ~wild'
    BY <1>1, <2>2
  <2>3. CASE UNCHANGED vars \/ InitBuffersArch \/ \E n \in Steps : n <= WriteCur /\ AdvanceBuffer(n)
    BY <2>2, <2>3 DEF vars, InitBuffersArch, AdvanceBuffer
  <2>4. CASE ClearBuffer
    <3>1. Alloc \in Nat /\ Size \in Nat /\ Size <= Alloc /\ 0 \in Nat
      BY <2>1, Sizes DEF TypeOK
    <3> DEFINE zeros == [k \in 1..Size |-> ZERO]
    <3>2. zeros \in Seq(Byte \cup {ZERO}) /\ Len(zeros) = Size /\ Store(0, zeros)
      BY <1>1, <2>4, <3>1 DEF ClearBuffer
    <3> HIDE DEF zeros
    <3>3. wild' <=> wild \/ (Len(zeros) > 0 /\ 0 + Len(zeros) > Alloc)
      BY <2>1, <3>1, <3>2, StoreTypes
    <3> QED
      BY <1>1, <3>1, <3>2, <3>3
  <2>5. ASSUME NEW s \in Sources, AppendDataToBuffer(s) PROVE ~wild'
    <3>1. CASE ~CopyFits(Room, Len(s))
      BY <2>2, <2>5, <3>1 DEF AppendDataToBuffer
    <3>2. CASE CopyFits(Room, Len(s))
      <4>1. /\ Store(Base + WriteCur, s) /\ WriteCur' = Usz(WriteCur + Len(s))
            /\ content' = content \o s /\ UNCHANGED <<Base, Size>>
            /\ s \in Seq(Byte) /\ pc # "replace" /\ Len(s) <= Room
        BY <2>5, <3>2, BuffersAssumption DEF AppendDataToBuffer, Call, Idle, CopyFits
      <4> QED
        BY <1>1, <2>1, <4>1, Extended
    <3> QED
      BY <3>1, <3>2
  <2>6. ASSUME NTimesCopy PROVE ~wild'
    <3>1. CASE ~CopyFits(Room, Len(Src))
      BY <2>2, <2>6, <3>1 DEF NTimesCopy
    <3>2. CASE CopyFits(Room, Len(Src))
      <4>1. /\ Store(Base + WriteCur, Src) /\ WriteCur' = Usz(WriteCur + Len(Src))
            /\ content' = content \o Src /\ UNCHANGED <<Base, Size>>
            /\ Src \in Seq(Byte) /\ pc # "replace" /\ Len(Src) <= Room
        BY <2>1, <2>6, <3>2 DEF NTimesCopy, CopyFits, TypeOK
      <4> QED
        BY <1>1, <2>1, <4>1, Extended
    <3> QED
      BY <3>1, <3>2
  <2>7. CASE AppendBufferToBufferNTimes
    <3>1. ASSUME NEW s \in Sources, NEW n \in Counts, NTimesCall(s, n) \/ NTimesRefused(s, n)
          PROVE  ~wild'
      BY <2>2, <3>1 DEF NTimesCall, NTimesRefused
    <3>2. ASSUME NTimesReturn PROVE ~wild'
      BY <2>2, <3>2 DEF NTimesReturn
    <3> QED
      BY <2>6, <2>7, <3>1, <3>2 DEF AppendBufferToBufferNTimes
  <2>8. CASE ReplaceByteInBuffer
    <3>1. ASSUME NEW r \in Replacements, ReplaceCall(r[1], r[2]) PROVE ~wild'
      BY <2>2, <3>1 DEF ReplaceCall
    <3>2. ASSUME ReplaceReturn PROVE ~wild'
      BY <2>2, <3>2 DEF ReplaceReturn
    <3> QED
      BY <1>1, <2>8, <3>1, <3>2, ReplaceOnePreserves DEF ReplaceByteInBuffer
  <2> QED
    BY <1>1, <2>3, <2>4, <2>5, <2>7, <2>8 DEF Next, AppendBufferToBuffer
<1>2. IInv /\ [Next]_vars => [Base = 0 /\ ~wild => ~wild']_vars
  BY <1>1
<1> QED
  BY <1>2, Invariant, PTL DEF Spec, WritesInBounds

-----------------------------------------------------------------------------
(* The searches.                                                            *)

(* What the searches answer, in terms of the set of all the occurrences.    *)
LEMMA FirstIsMin ==
    ASSUME NEW at, NEW N, NEW q \in Int, q < UszMod, NEW r \in FirstOf(at, N, 0, q)
    PROVE  LET S == {k \in 0..(q - 1) : at[k] = N}
           IN  r = IF S = {} THEN INVALID_IDX ELSE Min(S)
<1> DEFINE S == {k \in 0..(q - 1) : at[k] = N}
<1>1. UszMod \in Nat /\ INVALID_IDX = UszMod - 1
  BY Sizes
<1> HIDE DEF UszMod, INVALID_IDX
<1>2. CASE S = {}
  <2>1. r \notin 0..(q - 1) \/ at[r] # N
    BY <1>2
  <2> QED
    BY <1>2, <2>1 DEF FirstOf
<1>3. CASE S # {}
  <2>1. S \subseteq Nat
    OBVIOUS
  <2>2. Min(S) \in S /\ \A x \in S : Min(S) <= x
    <3> HIDE DEF S
    <3> QED
      BY <1>3, <2>1, MinOf
  <2> DEFINE m == Min(S)
  <2>3. m \in 0..(q - 1) /\ at[m] = N /\ \A x \in S : m <= x
    BY <2>2
  <2> HIDE DEF m
  <2>4. r \in 0..(q - 1) /\ at[r] = N /\ \A j \in 0..(r - 1) : at[j] # N
    BY <2>3 DEF FirstOf
  <2>5. r \in S
    BY <2>4
  <2>6. r = m
    BY <2>3, <2>4, <2>5
  <2> QED
    BY <1>3, <2>6 DEF m
<1> QED
  BY <1>2, <1>3

(* The answer of a search from the end is the largest of the offsets.       *)
LEMMA LastIsMax ==
    ASSUME NEW at, NEW N, NEW q \in Int, q < UszMod, NEW r \in LastOf(at, N, q - 1)
    PROVE  LET S == {k \in 0..(q - 1) : at[k] = N}
           IN  r = IF S = {} THEN INVALID_IDX ELSE Max(S)
<1> DEFINE S == {k \in 0..(q - 1) : at[k] = N}
<1>1. UszMod \in Nat /\ INVALID_IDX = UszMod - 1
  BY Sizes
<1> HIDE DEF UszMod, INVALID_IDX
<1>2. CASE S = {}
  <2>1. r \notin 0..(q - 1) \/ at[r] # N
    BY <1>2
  <2> QED
    BY <1>2, <2>1 DEF LastOf
<1>3. CASE S # {}
  <2>1. r \in 0..(q - 1) /\ at[r] = N /\ \A j \in (r + 1)..(q - 1) : at[j] # N
    BY <1>3 DEF LastOf
  <2>2. r \in S /\ \A x \in S : r >= x
    BY <2>1
  <2>3. \A x \in S : x \in Int
    OBVIOUS
  <2> HIDE DEF S
  <2>4. \A m \in S : (\A y \in S : m >= y) => m = r
    BY <2>2, <2>3
  <2>5. \E m \in S : \A y \in S : m >= y
    BY <2>2
  <2>6. Max(S) \in S /\ \A y \in S : Max(S) >= y
    BY <2>5 DEF Max
  <2>7. Max(S) = r
    BY <2>4, <2>6
  <2> QED
    BY <1>3, <2>7 DEF S
<1> QED
  BY <1>2, <1>3

(* What is made of an offset is what the flag asks for.                     *)
LEMMA AnswerReturns ==
    ASSUME TypeOK, NEW len \in Nat, NEW n, NEW k \in Int, NEW r \in Returns(len, k), NEW Flags,
           Flags = {r[1]} \/ Flags = {r[1], "SEARCH_REVERSE"}
    PROVE  Answer(k, len, View(Base, n), Flags) = r[2]
<1> DEFINE b == XMM256_SIZE + Base
<1>1. View(Base, n).Base = b /\ Buf.Base = b
  BY DEF View, Buf
<1>2. b \in Int
  <2>1. UszMod \in Nat
    BY Sizes
  <2>2. XMM128_SIZE \in 2..XMM256_SIZE /\ XMM256_SIZE \in 2..UszMod
    BY BufferQueryAssumption
  <2> HIDE DEF UszMod
  <2> QED
    BY <2>1, <2>2 DEF TypeOK
<1> HIDE DEF b, INVALID_IDX
<1>3. CASE r = <<"RETURN_BOOL", IF k = INVALID_IDX THEN 0 ELSE 1>>
  BY <1>3 DEF Answer
<1>4. CASE r = <<"RETURN_IDX_FIND", k>>
  BY <1>4 DEF Answer
<1>5. CASE r = <<"RETURN_IDX_AFTER", IF k = INVALID_IDX THEN k ELSE k + len>>
  BY <1>5 DEF Answer
<1>6. CASE r = <<"RETURN_PTR_FIND", IF k = INVALID_IDX THEN NULL ELSE Buf.Base + k>>
  BY <1>1, <1>2, <1>6 DEF Answer
<1>7. CASE r = <<"RETURN_PTR_AFTER", IF k = INVALID_IDX THEN NULL ELSE Buf.Base + k + len>>
  BY <1>1, <1>2, <1>7 DEF Answer
<1> QED
  BY <1>3, <1>4, <1>5, <1>6, <1>7 DEF Returns

(* A part of the data, as the searches see it and as the calls wrote it.    *)
LEMMA PartOfContent ==
    ASSUME IInv, pc = "idle", ~wild, NEW n \in 0..WriteCur
    PROVE  /\ n \in Nat /\ n <= Len(content) /\ n < UszMod
           /\ IsBuffer(View(Base, n)) /\ View(Base, n).WriteCur = n
           /\ \A k \in 0..(n - 1) : Bytes(View(Base, n))[k] = content[k + 1]
<1>1. /\ UszMod \in Nat /\ Alloc \in Nat /\ Alloc < UszMod
      /\ Base \in Nat /\ WriteCur \in Nat /\ WriteCur = Len(content) /\ Base + WriteCur <= Alloc
  <2>1. UszMod \in Nat /\ Alloc \in Nat /\ Alloc < UszMod
    BY Sizes
  <2> HIDE DEF UszMod
  <2> QED
    BY <2>1 DEF IInv, TypeOK, Intact
<1>2. n \in Nat /\ n <= Len(content) /\ n < UszMod /\ Base + n <= Alloc
  <2> HIDE DEF UszMod
  <2> QED
    BY <1>1
<1>3. /\ IsBuffer(View(Base, n)) /\ View(Base, n).WriteCur = n
      /\ \A k \in 0..(n - 1) : Bytes(View(Base, n))[k] = mem[Base + k]
  BY <1>1, <1>2, ViewBytes
<1>4. ASSUME NEW k \in 0..(n - 1) PROVE mem[Base + k] = content[k + 1]
  <2>1. k + 1 \in 1..Len(content) /\ Base + (k + 1) - 1 = Base + k
    BY <1>1, <1>2
  <2> QED
    BY <2>1 DEF IInv, Intact
<1> QED
  BY <1>2, <1>3, <1>4

(* Where s occurs, byte by byte.                                            *)
LEMMA OccursAt ==
    ASSUME IInv, NEW s \in Seq(Byte), NEW k \in Nat, k + Len(s) <= Len(content)
    PROVE  SubSeq(content, k + 1, k + Len(s)) = s
               <=> \A j \in 0..(Len(s) - 1) : content[k + j + 1] = s[j + 1]
<1> DEFINE m == Len(s)
           u == SubSeq(content, k + 1, k + m)
<1>1. content \in Seq(Byte) /\ m \in Nat /\ Len(content) \in Nat
  BY DEF IInv, TypeOK
<1>2. u \in Seq(Byte) /\ Len(u) = m /\ \A i \in 1..m : u[i] = content[k + i]
  BY <1>1
<1> HIDE DEF m, u
<1>3. u = s <=> \A i \in 1..m : u[i] = s[i]
  <2>1. (\A i \in 1..m : u[i] = s[i]) => u = s
    BY <1>2, SeqEqual DEF m
  <2> QED
    BY <2>1
<1>4. (\A i \in 1..m : u[i] = s[i]) <=> \A j \in 0..(m - 1) : content[k + j + 1] = s[j + 1]
  <2>1. ASSUME \A i \in 1..m : u[i] = s[i], NEW j \in 0..(m - 1)
        PROVE  content[k + j + 1] = s[j + 1]
    <3>1. j + 1 \in 1..m /\ k + (j + 1) = k + j + 1
      BY <1>1
    <3> QED
      BY <1>2, <2>1, <3>1
  <2>2. ASSUME \A j \in 0..(m - 1) : content[k + j + 1] = s[j + 1], NEW i \in 1..m
        PROVE  u[i] = s[i]
    <3>1. i - 1 \in 0..(m - 1) /\ k + (i - 1) + 1 = k + i /\ (i - 1) + 1 = i
      BY <1>1
    <3>2. content[k + (i - 1) + 1] = s[(i - 1) + 1]
      BY <2>2, <3>1
    <3> QED
      BY <1>2, <3>1, <3>2
  <2> QED
    BY <2>1, <2>2
<1> QED
  BY <1>3, <1>4 DEF u, m

(* ByteInBuffer answers for what the calls have put in the buffer.          *)
LEMMA ByteSearchFollows ==
    IInv => ByteSearchExact
<1> SUFFICES ASSUME IInv, pc = "idle", ~wild, NEW n \in 0..WriteCur, NEW c \in Byte
             PROVE  /\ \A r \in Returns(1, FirstOccurrence(<<c>>, n)) :
                           ByteInBuffer(c, View(Base, n), {r[1]}, Arch) = r[2]
                    /\ \A r \in Returns(1, LastOccurrence(<<c>>, n)) :
                           ByteInBuffer(c, View(Base, n), {r[1], "SEARCH_REVERSE"}, Arch) = r[2]
  BY DEF ByteSearchExact
<1> DEFINE V == View(Base, n)
           S == {k \in 0..(n - 1) : Bytes(V)[k] = c}
<1>1. /\ TypeOK /\ n \in Nat /\ n <= Len(content) /\ n < UszMod
      /\ IsBuffer(V) /\ V.WriteCur = n
      /\ \A k \in 0..(n - 1) : Bytes(V)[k] = content[k + 1]
  BY PartOfContent DEF IInv
<1>2. INVALID_IDX \in Int
  BY UszModType
<1>3. Occurrences(<<c>>, n) = S
  <2>1. <<c>> \in Seq(Byte) /\ Len(<<c>>) = 1 /\ <<c>>[1] = c /\ Len(content) \in Nat
    BY <1>1 DEF TypeOK
  <2>2. ASSUME NEW k \in 0..(n - 1)
        PROVE  SubSeq(content, k + 1, k + Len(<<c>>)) = <<c>> <=> Bytes(V)[k] = c
    <3>1. k \in Nat /\ k + Len(<<c>>) <= Len(content) /\ k + 0 + 1 = k + 1
      BY <1>1, <2>1
    <3>2. 0..(Len(<<c>>) - 1) = {0}
      BY <2>1
    <3> HIDE DEF V
    <3>3. SubSeq(content, k + 1, k + Len(<<c>>)) = <<c>>
              <=> \A j \in 0..(Len(<<c>>) - 1) : content[k + j + 1] = <<c>>[j + 1]
      BY <2>1, <3>1, OccursAt
    <3>4. SubSeq(content, k + 1, k + Len(<<c>>)) = <<c>> <=> content[k + 1] = c
      BY <2>1, <3>1, <3>2, <3>3
    <3> QED
      BY <1>1, <3>4
  <2>3. 0..(n - Len(<<c>>)) = 0..(n - 1)
    BY <2>1
  <2> HIDE DEF V
  <2> QED
    BY <2>2, <2>3 DEF Occurrences
<1> HIDE DEF V, UszMod, INVALID_IDX
<1>4. ASSUME NEW r \in Returns(1, FirstOccurrence(<<c>>, n))
      PROVE  ByteInBuffer(c, V, {r[1]}, Arch) = r[2]
  <2>1. "SEARCH_REVERSE" \notin {r[1]}
    BY DEF Returns
  <2>2. PICK x \in FirstOf(Bytes(V), c, 0, n) :
            ByteInBuffer(c, V, {r[1]}, Arch) = Answer(x, 1, V, {r[1]})
    BY <1>1, <2>1, ByteInBufferExact
  <2>3. x = FirstOccurrence(<<c>>, n) /\ x \in Int
    <3>1. x = IF S = {} THEN INVALID_IDX ELSE Min(S)
      BY <1>1, FirstIsMin
    <3> HIDE DEF S
    <3> QED
      BY <1>3, <3>1 DEF FirstOccurrence, FirstOf
  <2>4. Answer(x, 1, V, {r[1]}) = r[2]
    BY <1>1, <2>3, AnswerReturns DEF V
  <2> QED
    BY <2>2, <2>4
<1>5. ASSUME NEW r \in Returns(1, LastOccurrence(<<c>>, n))
      PROVE  ByteInBuffer(c, V, {r[1], "SEARCH_REVERSE"}, Arch) = r[2]
  <2> DEFINE Flags == {r[1], "SEARCH_REVERSE"}
  <2>1. "SEARCH_REVERSE" \in Flags
    OBVIOUS
  <2>2. PICK x \in LastOf(Bytes(V), c, n - 1) :
            ByteInBuffer(c, V, Flags, Arch) = Answer(x, 1, V, Flags)
    <3> HIDE DEF Flags
    <3> QED
      BY <1>1, <2>1, ByteInBufferExact
  <2>3. x = LastOccurrence(<<c>>, n) /\ x \in Int
    <3>1. x = IF S = {} THEN INVALID_IDX ELSE Max(S)
      BY <1>1, LastIsMax
    <3> HIDE DEF S
    <3> QED
      BY <1>3, <3>1 DEF LastOccurrence, LastOf
  <2>4. Answer(x, 1, V, Flags) = r[2]
    BY <1>1, <2>3, AnswerReturns DEF V
  <2> QED
    BY <2>2, <2>4
<1> QED
  BY <1>4, <1>5 DEF V

(* BufferInBuffer and DataInBuffer, but for the AVX2 version.               *)
LEMMA BufferSearchFollows ==
    IInv => BufferSearchExact
<1> SUFFICES ASSUME IInv, pc = "idle", ~wild, Arch.buffer # "AVX2",
                    NEW s \in Sources \ {<<>>}, NEW n \in 0..WriteCur
             PROVE  /\ \A r \in Returns(Len(s), FirstOccurrence(s, n)) :
                           DataInBuffer(s, View(Base, n), {r[1]}, Arch) = r[2]
                    /\ \A r \in Returns(Len(s), LastOccurrence(s, n)) :
                           DataInBuffer(s, View(Base, n), {r[1], "SEARCH_REVERSE"}, Arch) = r[2]
  BY DEF BufferSearchExact, BufferSearchExactFor
<1> DEFINE V == View(Base, n)
           N == DataBuffer(s)
           m == Len(s)
           q == n - m + 1
           S == {k \in 0..(q - 1) : Matches(N, V)[k] = 1}
<1>1. /\ TypeOK /\ n \in Nat /\ n <= Len(content) /\ n < UszMod
      /\ IsBuffer(V) /\ V.WriteCur = n
      /\ \A k \in 0..(n - 1) : Bytes(V)[k] = content[k + 1]
  BY PartOfContent DEF IInv
<1>2. INVALID_IDX \in Int /\ UszMod \in Nat
  BY UszModType
<1>3. s \in Seq(Byte) /\ m \in Nat \ {0} /\ Len(content) \in Nat
  <2>1. s \in Seq(Byte) /\ s # <<>>
    BY BuffersAssumption
  <2> QED
    BY <1>1, <2>1, EmptySeq DEF TypeOK
<1>4. IsNeedle(N) /\ N.WriteCur = m
  BY <1>3 DEF IsNeedle, DataBuffer
<1>5. \A j \in 0..(m - 1) : Bytes(N)[j] = s[j + 1]
  <2>1. N.Base = 1 /\ N.mem = [a \in 1..Len(s) |-> s[a]]
    BY DEF DataBuffer
  <2>2. ASSUME NEW j \in 0..(m - 1) PROVE Bytes(N)[j] = s[j + 1]
    <3>1. 1 + j = j + 1 /\ j + 1 \in 1..Len(s) /\ j \in Int
      BY <1>3
    <3> HIDE DEF N
    <3>2. At(N, j) = s[j + 1]
      BY <2>1, <3>1 DEF At
    <3> QED
      BY <3>1, <3>2 DEF Bytes
  <2> QED
    BY <2>2
<1> HIDE DEF V, N, UszMod, INVALID_IDX
<1>6. q \in Int /\ q < UszMod /\ n - m = q - 1
  <2> HIDE DEF m
  <2> QED
    BY <1>1, <1>2, <1>3
<1>7. Occurrences(s, n) = S
  <2>1. ASSUME NEW k \in 0..(n - m)
        PROVE  SubSeq(content, k + 1, k + Len(s)) = s <=> Matches(N, V)[k] = 1
    <3>1. k \in Nat /\ k + Len(s) <= Len(content) /\ k + m <= n
      BY <1>1, <1>3
    <3>2. SubSeq(content, k + 1, k + Len(s)) = s
              <=> \A j \in 0..(m - 1) : content[k + j + 1] = s[j + 1]
      BY <1>3, <3>1, OccursAt
    <3>3. Matches(N, V)[k] = 1 <=> \A j \in 0..(m - 1) : Bytes(V)[k + j] = Bytes(N)[j]
      <4>1. NeedleAt(N, V, k) <=> \A j \in 0..(N.WriteCur - 1) : Bytes(V)[k + j] = Bytes(N)[j]
        <5>1. N.WriteCur \in Nat \ {0} /\ k \in Int
          BY <1>3, <1>4, <3>1
        <5> QED
          BY <1>1, <5>1, NeedleAtExact
      <4> QED
        BY <1>4, <3>1, <4>1 DEF Matches
    <3>4. ASSUME NEW j \in 0..(m - 1)
          PROVE  Bytes(V)[k + j] = Bytes(N)[j] <=> content[k + j + 1] = s[j + 1]
      <4>1. k + j \in 0..(n - 1)
        BY <1>1, <1>3, <3>1
      <4> QED
        BY <1>1, <1>5, <4>1
    <3> HIDE DEF m
    <3> QED
      BY <3>2, <3>3, <3>4
  <2> QED
    BY <1>6, <2>1 DEF Occurrences
<1>8. ASSUME NEW r \in Returns(m, FirstOccurrence(s, n))
      PROVE  DataInBuffer(s, V, {r[1]}, Arch) = r[2]
  <2>1. "SEARCH_REVERSE" \notin {r[1]}
    BY DEF Returns
  <2> HIDE DEF m, q
  <2>2. PICK x \in FirstMatch(N, V, 0) :
            BufferInBuffer(N, V, {r[1]}, Arch) = Answer(x, m, V, {r[1]})
    <3> DEFINE Flags == {r[1]}
    <3>1. "SEARCH_REVERSE" \notin Flags
      BY <2>1
    <3> HIDE DEF Flags
    <3>2. \E x \in FirstMatch(N, V, 0) :
              BufferInBuffer(N, V, Flags, Arch) = Answer(x, m, V, Flags)
      BY <1>1, <1>4, <3>1, BufferInBufferExact
    <3> QED
      BY <3>2 DEF Flags
  <2>3. x \in FirstOf(Matches(N, V), 1, 0, q)
    BY <1>1, <1>4 DEF FirstMatch, q
  <2>4. x = FirstOccurrence(s, n) /\ x \in Int
    <3>1. x = IF S = {} THEN INVALID_IDX ELSE Min(S)
      BY <1>6, <2>3, FirstIsMin
    <3> HIDE DEF S
    <3> QED
      BY <1>7, <2>3, <3>1 DEF FirstOccurrence, FirstOf
  <2>5. Answer(x, m, V, {r[1]}) = r[2]
    BY <1>1, <1>3, <2>4, AnswerReturns DEF V
  <2> QED
    BY <2>2, <2>5 DEF DataInBuffer, N
<1>9. ASSUME NEW r \in Returns(m, LastOccurrence(s, n))
      PROVE  DataInBuffer(s, V, {r[1], "SEARCH_REVERSE"}, Arch) = r[2]
  <2> DEFINE Flags == {r[1], "SEARCH_REVERSE"}
  <2>1. "SEARCH_REVERSE" \in Flags
    OBVIOUS
  <2> HIDE DEF m, q
  <2>2. PICK x \in LastOf(Matches(N, V), 1, n - m) :
            BufferInBuffer(N, V, Flags, Arch) = Answer(x, m, V, Flags)
    <3> HIDE DEF Flags
    <3> QED
      BY <1>1, <1>4, <2>1, BufferInBufferExact
  <2>3. x \in LastOf(Matches(N, V), 1, q - 1)
    BY <1>6
  <2>4. x = LastOccurrence(s, n) /\ x \in Int
    <3>1. x = IF S = {} THEN INVALID_IDX ELSE Max(S)
      BY <1>6, <2>3, LastIsMax
    <3> HIDE DEF S
    <3> QED
      BY <1>7, <2>3, <3>1 DEF LastOccurrence, LastOf
  <2>5. Answer(x, m, V, Flags) = r[2]
    BY <1>1, <1>3, <2>4, AnswerReturns DEF V
  <2> QED
    BY <2>2, <2>5 DEF DataInBuffer, N
<1> QED
  BY <1>8, <1>9 DEF V

(* The searches answer what the data says in every state between two calls,
   whatever version is installed, wherever the buffer lies in its vectors.  *)
THEOREM ByteSearchCorrect ==
    NoTotalWraps => (Spec => []ByteSearchExact)
<1> SUFFICES ASSUME NoTotalWraps PROVE Spec => []ByteSearchExact
  OBVIOUS
<1> QED
  BY ByteSearchFollows, Invariant, PTL

(* The same for needles of any length, unless the AVX2 version is installed. *)
THEOREM BufferSearchCorrect ==
    NoTotalWraps => (Spec => []BufferSearchExact)
<1> SUFFICES ASSUME NoTotalWraps PROVE Spec => []BufferSearchExact
  OBVIOUS
<1> QED
  BY BufferSearchFollows, Invariant, PTL

-----------------------------------------------------------------------------
(* Comparison.                                                              *)

(* The bytes of data in a memory of its own.                                *)
LEMMA DataBytes ==
    ASSUME NEW s \in Seq(Byte)
    PROVE  /\ DataBuffer(s).WriteCur = Len(s)
           /\ \A j \in 0..(Len(s) - 1) : Bytes(DataBuffer(s))[j] = s[j + 1]
<1> DEFINE N == DataBuffer(s)
<1>1. N.Base = 1 /\ N.mem = [a \in 1..Len(s) |-> s[a]] /\ N.WriteCur = Len(s)
  BY DEF DataBuffer
<1>2. ASSUME NEW j \in 0..(Len(s) - 1) PROVE Bytes(N)[j] = s[j + 1]
  <2>1. 1 + j = j + 1 /\ j + 1 \in 1..Len(s) /\ j \in Int
    OBVIOUS
  <2> HIDE DEF N
  <2>2. At(N, j) = s[j + 1]
    BY <1>1, <2>1 DEF At
  <2> QED
    BY <2>1, <2>2 DEF Bytes
<1> QED
  BY <1>1, <1>2

(* The comparisons of intact data answer what the sequences of its bytes
   give.                                                                    *)
LEMMA CompareFollows ==
    IInv => CompareExact
<1> SUFFICES ASSUME IInv, pc = "idle", ~wild, NEW s \in Sources, NEW k \in 0..WriteCur
             PROVE  LET rest == SubSeq(content, k + 1, WriteCur)
                        B == View(Base + k, WriteCur - k)
                    IN  /\ EqualBuffers(B, DataBuffer(s)) <=> rest = s
                        /\ EqualBuffers(Buf, B) <=> rest = content
                        /\ \A n \in 0..Min({Len(s), Len(rest)}) :
                              LET d == CompareBuffers(B, DataBuffer(s), n, "RETURN_IDX_DIFF")
                              IN  /\ d \in 0..n /\ SubSeq(rest, 1, d) = SubSeq(s, 1, d)
                                  /\ CompareBuffers(B, DataBuffer(s), n, "RETURN_BOOL")
                                         = (IF d = n THEN 1 ELSE 0)
                                  /\ d < n =>
                                        /\ rest[d + 1] # s[d + 1]
                                        /\ CompareBuffers(B, DataBuffer(s), n, "RETURN_PTR_DIFF")
                                               = B.Base + d
  BY DEF CompareExact
<1> DEFINE rest == SubSeq(content, k + 1, WriteCur)
           B == View(Base + k, WriteCur - k)
           N == DataBuffer(s)
           l == WriteCur - k
<1>1. /\ content \in Seq(Byte) /\ s \in Seq(Byte) /\ Len(s) \in Nat
      /\ Base \in Nat /\ WriteCur \in Nat /\ WriteCur = Len(content) /\ Base + WriteCur <= Alloc
      /\ \A i \in 1..Len(content) : mem[Base + i - 1] = content[i]
  <2>1. UszMod \in Nat
    BY Sizes
  <2> HIDE DEF UszMod
  <2> QED
    BY <2>1, BuffersAssumption DEF IInv, TypeOK, Intact
<1>2. k \in Nat /\ l \in Nat /\ Base + k \in Nat /\ Base + k + l <= Alloc
  <2>1. Alloc \in Nat
    BY Sizes
  <2> QED
    BY <1>1, <2>1
<1>3. rest \in Seq(Byte) /\ Len(rest) = l /\ \A i \in 1..l : rest[i] = content[k + i]
  BY <1>1, <1>2
<1>4. B.WriteCur = l /\ \A j \in 0..(l - 1) : Bytes(B)[j] = rest[j + 1]
  <2>1. View(Base + k, l).WriteCur = l
        /\ \A j \in 0..(l - 1) : Bytes(View(Base + k, l))[j] = mem[Base + k + j]
    <3> HIDE DEF l
    <3> QED
      BY <1>2, ViewBytes
  <2>2. ASSUME NEW j \in 0..(l - 1) PROVE mem[Base + k + j] = rest[j + 1]
    <3>1. k + (j + 1) \in 1..Len(content) /\ Base + (k + (j + 1)) - 1 = Base + k + j /\ j + 1 \in 1..l
      BY <1>1, <1>2
    <3>2. mem[Base + (k + (j + 1)) - 1] = content[k + (j + 1)]
      BY <1>1, <3>1
    <3> HIDE DEF rest, l
    <3> QED
      BY <1>3, <3>1, <3>2
  <2> QED
    BY <2>1, <2>2
<1>5. N.WriteCur = Len(s) /\ \A j \in 0..(Len(s) - 1) : Bytes(N)[j] = s[j + 1]
  BY <1>1, DataBytes
<1>6. Buf.WriteCur = WriteCur /\ \A j \in 0..(WriteCur - 1) : Bytes(Buf)[j] = content[j + 1]
  <2>1. /\ Buf.WriteCur = WriteCur
        /\ \A j \in 0..(WriteCur - 1) : Bytes(Buf)[j] = mem[Base + j]
    BY <1>1, ViewBytes DEF Buf
  <2>2. ASSUME NEW j \in 0..(WriteCur - 1) PROVE mem[Base + j] = content[j + 1]
    <3>1. j + 1 \in 1..Len(content) /\ Base + (j + 1) - 1 = Base + j
      BY <1>1
    <3> QED
      BY <1>1, <3>1
  <2> QED
    BY <2>1, <2>2
<1> HIDE DEF rest, B, N, l
\* Two pieces of data are the same when as long and the same byte by byte.
<1>7. ASSUME NEW u \in Seq(Byte), NEW v \in Seq(Byte)
      PROVE  u = v <=> Len(u) = Len(v) /\ \A j \in 0..(Len(u) - 1) : u[j + 1] = v[j + 1]
  <2>1. ASSUME Len(u) = Len(v), \A j \in 0..(Len(u) - 1) : u[j + 1] = v[j + 1] PROVE u = v
    <3>1. ASSUME NEW i \in 1..Len(u) PROVE u[i] = v[i]
      <4>1. i - 1 \in 0..(Len(u) - 1) /\ (i - 1) + 1 = i
        OBVIOUS
      <4>2. u[(i - 1) + 1] = v[(i - 1) + 1]
        BY <2>1, <4>1
      <4> QED
        BY <4>1, <4>2
    <3> QED
      BY <2>1, <3>1, SeqEqual
  <2> QED
    BY <2>1
<1>8. EqualBuffers(B, N) <=> rest = s
  <2>1. EqualBuffers(B, N) <=> l = Len(s) /\ \A j \in 0..(l - 1) : Bytes(B)[j] = Bytes(N)[j]
    BY <1>2, <1>4, <1>5, EqualBuffersExact
  <2>2. rest = s <=> l = Len(s) /\ \A j \in 0..(l - 1) : rest[j + 1] = s[j + 1]
    BY <1>1, <1>3, <1>7
  <2> QED
    BY <1>4, <1>5, <2>1, <2>2
<1>9. EqualBuffers(Buf, B) <=> rest = content
  <2>1. EqualBuffers(Buf, B)
            <=> WriteCur = l /\ \A j \in 0..(WriteCur - 1) : Bytes(Buf)[j] = Bytes(B)[j]
    BY <1>1, <1>4, <1>6, EqualBuffersExact
  <2>2. rest = content <=> l = WriteCur /\ \A j \in 0..(l - 1) : rest[j + 1] = content[j + 1]
    BY <1>1, <1>3, <1>7
  <2> QED
    BY <1>4, <1>6, <2>1, <2>2
<1>10. ASSUME NEW n \in 0..Min({Len(s), Len(rest)})
       PROVE  LET d == CompareBuffers(B, N, n, "RETURN_IDX_DIFF")
              IN  /\ d \in 0..n /\ SubSeq(rest, 1, d) = SubSeq(s, 1, d)
                  /\ d < n => rest[d + 1] # s[d + 1]
                  /\ CompareBuffers(B, N, n, "RETURN_BOOL") = (IF d = n THEN 1 ELSE 0)
                  /\ CompareBuffers(B, N, n, "RETURN_PTR_DIFF") = B.Base + d
  <2> DEFINE d == CompareIdx(B, N, n)
  <2>1. n \in Nat /\ n <= Len(s) /\ n <= l
    <3> DEFINE T == {Len(s), l}
    <3>1. T \subseteq Nat /\ T # {} /\ Len(s) \in T /\ l \in T
      BY <1>1, <1>2
    <3> HIDE DEF T
    <3>2. Min(T) \in Nat /\ Min(T) <= Len(s) /\ Min(T) <= l
      BY <3>1, MinOf
    <3>3. n \in 0..Min(T)
      BY <1>3 DEF T
    <3> QED
      BY <1>1, <1>2, <3>2, <3>3
  <2>2. /\ CompareBuffers(B, N, n, "RETURN_IDX_DIFF") = d
        /\ CompareBuffers(B, N, n, "RETURN_BOOL") = (IF d = n THEN 1 ELSE 0)
        /\ CompareBuffers(B, N, n, "RETURN_PTR_DIFF") = B.Base + d
    <3> HIDE DEF d
    <3> QED
      BY DEF CompareBuffers, d
  <2>3. d \in DifferAt(Bytes(B), Bytes(N), 0, n)
    BY <2>1, CompareFindsDifference
  <2> HIDE DEF d
  <2>4. d \in 0..n /\ (\A j \in 0..(d - 1) : rest[j + 1] = s[j + 1])
        /\ (d < n => rest[d + 1] # s[d + 1])
    <3>1. d \in 0..n /\ (\A j \in 0..(d - 1) : Bytes(B)[j] = Bytes(N)[j])
          /\ (d < n => Bytes(B)[d] # Bytes(N)[d])
      BY <2>3 DEF DifferAt
    <3>2. \A j \in 0..(n - 1) : Bytes(B)[j] = rest[j + 1] /\ Bytes(N)[j] = s[j + 1]
      BY <1>1, <1>2, <1>4, <1>5, <2>1
    <3>3. \A j \in 0..(d - 1) : j \in 0..(n - 1)
      BY <2>1, <3>1
    <3>4. d < n => d \in 0..(n - 1)
      BY <2>1, <3>1
    <3>5. \A j \in 0..(d - 1) : rest[j + 1] = s[j + 1]
      BY <3>1, <3>2, <3>3
    <3>6. d < n => rest[d + 1] # s[d + 1]
      BY <3>1, <3>2, <3>4
    <3> QED
      BY <3>1, <3>5, <3>6
  <2>5. SubSeq(rest, 1, d) = SubSeq(s, 1, d)
    <3> DEFINE u == SubSeq(rest, 1, d)
               v == SubSeq(s, 1, d)
    <3>1. d \in Nat /\ d <= Len(rest) /\ d <= Len(s)
      BY <1>1, <1>2, <1>3, <2>1, <2>4
    <3>2. /\ u \in Seq(Byte) /\ Len(u) = d /\ \A i \in 1..d : u[i] = rest[i]
          /\ v \in Seq(Byte) /\ Len(v) = d /\ \A i \in 1..d : v[i] = s[i]
      BY <1>1, <1>3, <3>1
    <3> HIDE DEF u, v
    <3>3. \A j \in 0..(d - 1) : u[j + 1] = v[j + 1]
      <4>1. \A j \in 0..(d - 1) : j + 1 \in 1..d
        BY <3>1
      <4> QED
        BY <2>4, <3>2, <4>1
    <3>4. u = v
      BY <1>7, <3>2, <3>3
    <3> QED
      BY <3>4 DEF u, v
  <2> QED
    BY <2>2, <2>4, <2>5
<1> QED
  BY <1>8, <1>9, <1>10 DEF rest, B, N

(* CompareBuffers and EqualBuffers answer for what the calls have put in the
   buffer, also when both buffers lie in the same memory.                   *)
THEOREM CompareCorrect ==
    NoTotalWraps => (Spec => []CompareExact)
<1> SUFFICES ASSUME NoTotalWraps PROVE Spec => []CompareExact
  OBVIOUS
<1> QED
  BY CompareFollows, Invariant, PTL

-----------------------------------------------------------------------------
(* Characters and texts: what is written of a code point is what is read, in
   every encoding, and with that what StringLen counts and Transcode writes.  *)

\* A code point that Enc can hold: surrogates are none, and ASCII has 128.
Encodable(u, Enc) ==
    u \in Nat /\ u < 1114112 /\ (u < 55296 \/ u >= 57344) /\ (Enc = "ASCII" => u < 128)

\* The bytes that AppendCharToString and Transcode write for u.
Written(u, Enc) == CharBytes(EncodeChar(u, Enc), Enc)

(* The bits of a code point in groups of six.                               *)
LEMMA SixBits ==
    ASSUME NEW u \in Nat, u < 1114112
    PROVE  /\ u = 64 * (u \div 64) + (u % 64) /\ u % 64 \in 0..63 /\ u \div 64 \in Nat
           /\ u \div 64 = 64 * (u \div 4096) + ((u \div 64) % 64)
           /\ (u \div 64) % 64 \in 0..63 /\ u \div 4096 \in Nat
           /\ u \div 4096 = 64 * (u \div 262144) + ((u \div 4096) % 64)
           /\ (u \div 4096) % 64 \in 0..63 /\ u \div 262144 \in 0..4
BY SMT

(* The first n of four.                                                     *)
LEMMA Shorter ==
    ASSUME NEW a, NEW b, NEW c, NEW d
    PROVE  /\ SubSeq(<<a, b, c, d>>, 1, 1) = <<a>>
           /\ SubSeq(<<a, b, c, d>>, 1, 2) = <<a, b>>
           /\ SubSeq(<<a, b, c, d>>, 1, 3) = <<a, b, c>>
           /\ SubSeq(<<a, b, c, d>>, 1, 4) = <<a, b, c, d>>
<1>1. SubSeq(<<a, b, c, d>>, 1, 1) = <<a>>
  <2> DEFINE x == SubSeq(<<a, b, c, d>>, 1, 1)
  <2>1. x \in Seq({a, b, c, d}) /\ Len(x) = 1 /\ x[1] = a
    BY SMT
  <2> HIDE DEF x
  <2>2. x = <<a>>
    BY <2>1
  <2> QED
    BY <2>2 DEF x
<1>2. SubSeq(<<a, b, c, d>>, 1, 2) = <<a, b>>
  <2> DEFINE x == SubSeq(<<a, b, c, d>>, 1, 2)
  <2>1. x \in Seq({a, b, c, d}) /\ Len(x) = 2 /\ x[1] = a /\ x[2] = b
    BY SMT
  <2> HIDE DEF x
  <2>2. x = <<a, b>>
    BY <2>1
  <2> QED
    BY <2>2 DEF x
<1>3. SubSeq(<<a, b, c, d>>, 1, 3) = <<a, b, c>>
  <2> DEFINE x == SubSeq(<<a, b, c, d>>, 1, 3)
  <2>1. x \in Seq({a, b, c, d}) /\ Len(x) = 3 /\ x[1] = a /\ x[2] = b /\ x[3] = c
    BY SMT
  <2> HIDE DEF x
  <2>2. x = <<a, b, c>>
    BY <2>1
  <2> QED
    BY <2>2 DEF x
<1>4. SubSeq(<<a, b, c, d>>, 1, 4) = <<a, b, c, d>>
  <2> DEFINE x == SubSeq(<<a, b, c, d>>, 1, 4)
  <2>1. x \in Seq({a, b, c, d}) /\ Len(x) = 4 /\ x[1] = a /\ x[2] = b /\ x[3] = c /\ x[4] = d
    BY SMT
  <2> HIDE DEF x
  <2>2. x = <<a, b, c, d>>
    BY <2>1
  <2> QED
    BY <2>2 DEF x
<1> QED
  BY <1>1, <1>2, <1>3, <1>4

LEMMA FirstOfFour ==
    ASSUME NEW D, D = <<D[1], D[2], D[3], D[4]>>
    PROVE  /\ SubSeq(D, 1, 1) = <<D[1]>> /\ SubSeq(D, 1, 2) = <<D[1], D[2]>>
           /\ SubSeq(D, 1, 3) = <<D[1], D[2], D[3]>>
           /\ SubSeq(D, 1, 4) = <<D[1], D[2], D[3], D[4]>>
<1> DEFINE a == D[1]  b == D[2]  c == D[3]  d == D[4]
<1>1. D = <<a, b, c, d>>
  OBVIOUS
<1> HIDE DEF a, b, c, d
<1>2. /\ SubSeq(D, 1, 1) = <<a>> /\ SubSeq(D, 1, 2) = <<a, b>>
      /\ SubSeq(D, 1, 3) = <<a, b, c>> /\ SubSeq(D, 1, 4) = <<a, b, c, d>>
  <2>1. /\ SubSeq(<<a, b, c, d>>, 1, 1) = <<a>> /\ SubSeq(<<a, b, c, d>>, 1, 2) = <<a, b>>
        /\ SubSeq(<<a, b, c, d>>, 1, 3) = <<a, b, c>>
        /\ SubSeq(<<a, b, c, d>>, 1, 4) = <<a, b, c, d>>
    BY Shorter
  <2> QED
    BY <1>1, <2>1, Zenon
<1> QED
  BY <1>2 DEF a, b, c, d

LEMMA FourBytes ==
    ASSUME NEW D, D = <<D[1], D[2], D[3], D[4]>>, NEW S, \A i \in 1..4 : D[i] \in S
    PROVE  D \in Seq(S) /\ Len(D) = 4
<1> DEFINE a == D[1]  b == D[2]  c == D[3]  d == D[4]
<1>1. D = <<a, b, c, d>> /\ a \in S /\ b \in S /\ c \in S /\ d \in S
  OBVIOUS
<1> HIDE DEF a, b, c, d
<1>2. <<a, b, c, d>> \in Seq(S) /\ Len(<<a, b, c, d>>) = 4
  BY <1>1
<1> QED
  BY <1>1, <1>2, Zenon

(* What EncodeChar and GetNextChar have to agree on: four bytes, of which those
   behind the first n are zero, the number n that the lead byte tells, and the
   code point that they stand for.                                          *)
Agreed(Char, n, u, Enc) ==
    /\ Char = <<Char[1], Char[2], Char[3], Char[4]>>
    /\ \A i \in 1..4 : Char[i] \in 0..255
    /\ n = GetMultibyteCharSize(Char, Enc) /\ n \in 1..4
    /\ \A i \in (n + 1)..4 : Char[i] = 0
    /\ DecodeChar(Char, Enc) = u

LEMMA UTF8Size ==
    ASSUME NEW Char, NEW Enc, Enc = "UTF8"
    PROVE  GetMultibyteCharSize(Char, Enc) =
             IF Char[4] # 0 THEN 4 ELSE IF Char[3] # 0 THEN 3 ELSE IF Char[2] # 0 THEN 2 ELSE 1
BY DEF GetMultibyteCharSize, Wide16, Wide32

(* In UTF-8 the lead byte tells the size, and no byte behind it is one.     *)
LEMMA AgreedUTF8 ==
    ASSUME NEW u \in Nat, u < 1114112, NEW Enc, Enc = "UTF8",
           NEW Char, Char = EncodeChar(u, Enc)
    PROVE  \E n \in 1..4 : /\ Agreed(Char, n, u, Enc)
                           /\ UTF8CharSize(Char[1]) = n /\ Char[1] \div 64 # 2
                           /\ \A i \in 2..n : Char[i] \div 64 = 2
<1>1. Char = UnicodeToUTF8(u) /\ DecodeChar(Char, Enc) = UTF8ToUnicode(Char)
  <2>1. Char = UnicodeToUTF8(u)
    BY SMT DEF EncodeChar, Wide16
  <2>2. DecodeChar(Char, Enc) = UTF8ToUnicode(Char)
    BY SMT DEF DecodeChar, Wide16
  <2> QED
    BY SMT, <2>1, <2>2
<1>2. GetMultibyteCharSize(Char, "UTF8") = GetMultibyteCharSize(Char, Enc)
  BY SMT
<1> DEFINE Good(n) == /\ Agreed(Char, n, u, Enc)
                      /\ UTF8CharSize(Char[1]) = n /\ Char[1] \div 64 # 2
                      /\ \A i \in 2..n : Char[i] \div 64 = 2
<1>3. CASE u < 128
  <2>1. Char = <<u, 0, 0, 0>>
    BY SMT, <1>1, <1>3 DEF UnicodeToUTF8, Word
  <2>2. GetMultibyteCharSize(Char, Enc) = 1
    BY SMT, <1>3, <2>1, UTF8Size
  <2>3. UTF8ToUnicode(Char) = u
    BY SMT, <1>2, <1>3, <2>1, <2>2 DEF UTF8ToUnicode
  <2>4. UTF8CharSize(Char[1]) = 1 /\ Char[1] \div 64 # 2
    BY SMT, <1>3, <2>1 DEF UTF8CharSize
  <2>5. Good(1)
    BY SMT, <1>1, <1>3, <2>1, <2>2, <2>3, <2>4 DEF Agreed
  <2> QED
    BY SMT, <2>5
<1>4. CASE u >= 128 /\ u < 2048
  <2>1. Char = <<192 + (u \div 64), 128 + (u % 64), 0, 0>>
    BY SMT, <1>1, <1>4 DEF UnicodeToUTF8
  <2>2. GetMultibyteCharSize(Char, Enc) = 2
    BY SMT, <1>4, <2>1, UTF8Size
  <2>3. UTF8ToUnicode(Char) = u
    BY SMT, <1>2, <1>4, <2>1, <2>2 DEF UTF8ToUnicode, FitsIn16
  <2>4. UTF8CharSize(Char[1]) = 2 /\ Char[1] \div 64 # 2 /\ Char[2] \div 64 = 2
    BY SMT, <1>4, <2>1 DEF UTF8CharSize
  <2>5. Good(2)
    BY SMT, <1>1, <1>4, <2>1, <2>2, <2>3, <2>4 DEF Agreed
  <2> QED
    BY SMT, <2>5
<1>5. CASE u >= 2048 /\ u < 65536
  <2>1. Char = <<224 + (u \div 4096), 128 + ((u \div 64) % 64), 128 + (u % 64), 0>>
    BY SMT, <1>1, <1>5 DEF UnicodeToUTF8
  <2>2. GetMultibyteCharSize(Char, Enc) = 3
    BY SMT, <1>5, <2>1, UTF8Size
  <2>3. UTF8ToUnicode(Char) = u
    <3>1. /\ Char[1] % 16 = u \div 4096 /\ Char[2] % 64 = (u \div 64) % 64 /\ Char[3] % 64 = u % 64
          /\ Char[3] # 0 /\ Char[4] = 0
      BY SMT, <1>5, <2>1
    <3>2. u = 4096 * (u \div 4096) + 64 * ((u \div 64) % 64) + (u % 64)
      BY SMT, SixBits
    <3> QED
      BY SMT, <1>2, <2>2, <3>1, <3>2, SixBits DEF UTF8ToUnicode, FitsIn16
  <2>4. UTF8CharSize(Char[1]) = 3 /\ Char[1] \div 64 # 2
    BY SMT, <1>5, <2>1 DEF UTF8CharSize
  <2>5. Good(3)
    BY SMT, <1>1, <1>5, <2>1, <2>2, <2>3, <2>4 DEF Agreed
  <2> QED
    BY SMT, <2>5
<1>6. CASE u >= 65536
  <2>1. Char = <<240 + (u \div 262144), 128 + ((u \div 4096) % 64), 128 + ((u \div 64) % 64),
                 128 + (u % 64)>>
    BY SMT, <1>1, <1>6 DEF UnicodeToUTF8
  <2>2. GetMultibyteCharSize(Char, Enc) = 4
    BY SMT, <1>6, <2>1, UTF8Size
  <2>3. UTF8ToUnicode(Char) = u
    <3>1. /\ Char[1] % 8 = u \div 262144 /\ Char[2] % 64 = (u \div 4096) % 64
          /\ Char[3] % 64 = (u \div 64) % 64 /\ Char[4] % 64 = u % 64
          /\ Char[3] # 0 /\ Char[4] # 0
      <4>1. \A q \in 0..4 : (240 + q) % 8 = q
        BY SMT
      <4>2. \A q \in 0..63 : (128 + q) % 64 = q /\ 128 + q # 0
        BY SMT
      <4> QED
        BY SMTT(30), <2>1, <4>1, <4>2, SixBits
    <3>2. u = 262144 * (u \div 262144) + 4096 * ((u \div 4096) % 64)
                + 64 * ((u \div 64) % 64) + (u % 64)
      BY SMT, SixBits
    <3> QED
      BY SMT, <1>2, <2>2, <3>1, <3>2, SixBits DEF UTF8ToUnicode, FitsIn16
  <2>4. UTF8CharSize(Char[1]) = 4 /\ Char[1] \div 64 # 2
    BY SMT, <1>6, <2>1 DEF UTF8CharSize
  <2>5. Good(4)
    BY SMT, <1>1, <1>6, <2>1, <2>2, <2>3, <2>4 DEF Agreed
  <2> QED
    BY SMT, <2>5
<1> QED
  BY SMT, <1>3, <1>4, <1>5, <1>6

(* In ASCII a character is its code point.                                  *)
LEMMA AgreedASCII ==
    ASSUME NEW u \in Nat, u < 128, NEW Enc, Enc = "ASCII",
           NEW Char, Char = EncodeChar(u, Enc)
    PROVE  Agreed(Char, 1, u, Enc)
<1>1. Char = Word(u)
  BY SMT DEF EncodeChar, Wide16
<1>2. DecodeChar(Char, Enc) = Value(Char)
  BY SMT DEF DecodeChar, Wide16
<1>3. Char = <<u, 0, 0, 0>>
  BY SMT, <1>1 DEF Word
<1>4. Value(Char) = u
  BY SMT, <1>3 DEF Value
<1>5. GetMultibyteCharSize(Char, Enc) = 1
  BY SMT, <1>3 DEF GetMultibyteCharSize, Wide16, Wide32
<1> QED
  BY SMT, <1>2, <1>3, <1>4, <1>5 DEF Agreed

(* The bits of a code point in groups of eight.                             *)
LEMMA EightBits ==
    ASSUME NEW u \in Nat, u < 1114112
    PROVE  /\ u = 256 * (u \div 256) + (u % 256) /\ u % 256 \in 0..255 /\ u \div 256 \in Nat
           /\ u \div 256 = 256 * (u \div 65536) + ((u \div 256) % 256)
           /\ (u \div 256) % 256 \in 0..255 /\ u \div 65536 \in 0..16
           /\ (u \div 65536) % 256 = u \div 65536 /\ u \div 16777216 = 0
BY SMT

(* A surrogate pair: ten bits each.                                         *)
LEMMA TenBits ==
    ASSUME NEW u \in Nat, u < 1114112, u >= 65536
    PROVE  \E a \in Nat, b \in Nat :
               /\ a = (u - 65536) \div 1024 + 55296 /\ b = ((u - 65536) % 1024) + 56320
               /\ u = 65536 + (a - 55296) * 1024 + (b - 56320)
               /\ a % 256 \in 0..255 /\ a \div 256 \in 216..219
               /\ b % 256 \in 0..255 /\ b \div 256 \in 220..223
               /\ (a % 256) + 256 * (a \div 256) = a /\ (b % 256) + 256 * (b \div 256) = b
<1> DEFINE v == u - 65536
           a == v \div 1024 + 55296
           b == (v % 1024) + 56320
<1>1. v \in Nat /\ v < 1048576
  BY SMT
<1>2. v = 1024 * (v \div 1024) + (v % 1024) /\ v % 1024 \in 0..1023 /\ v \div 1024 \in 0..1023
  BY SMT, <1>1
<1>3. a \in 55296..56319 /\ b \in 56320..57343
  BY SMT, <1>2
<1>4. u = 65536 + (a - 55296) * 1024 + (b - 56320)
  BY SMT, <1>1, <1>2
<1>5. a % 256 \in 0..255 /\ a \div 256 \in 216..219 /\ (a % 256) + 256 * (a \div 256) = a
  <2> HIDE DEF a
  <2> QED
    BY SMT, <1>3
<1>6. b % 256 \in 0..255 /\ b \div 256 \in 220..223 /\ (b % 256) + 256 * (b \div 256) = b
  <2> HIDE DEF b
  <2> QED
    BY SMT, <1>3
<1>7. a \in Nat /\ b \in Nat
  BY SMT, <1>3
<1>8. a = (u - 65536) \div 1024 + 55296 /\ b = ((u - 65536) % 1024) + 56320
  BY SMT
<1> HIDE DEF a, b
<1> QED
  BY SMT, <1>4, <1>5, <1>6, <1>7, <1>8

(* In UTF-16 the high byte of the first unit tells the size.                *)
LEMMA AgreedUTF16 ==
    ASSUME NEW u \in Nat, u < 1114112, u < 55296 \/ u >= 57344,
           NEW Enc, Enc \in {"UTF16LE", "UTF16BE"},
           NEW Char, Char = EncodeChar(u, Enc)
    PROVE  \E n \in {2, 4} : Agreed(Char, n, u, Enc) /\ UTF16CharSize(Char[2]) = n
<1>1. Char = UnicodeToUTF16(u)
  BY SMT DEF EncodeChar, Wide16
<1>2. DecodeChar(Char, Enc) = UTF16ToUnicode(Char)
  BY SMT DEF DecodeChar, Wide16
<1>3. GetMultibyteCharSize(Char, Enc) = IF Char[3] = 0 /\ Char[4] = 0 THEN 2 ELSE 4
  BY SMT DEF GetMultibyteCharSize, Wide16, FitsIn16
<1>4. CASE u < 65536
  <2>1. Char = <<u % 256, u \div 256, 0, 0>> /\ u % 256 \in 0..255 /\ u \div 256 \in 0..255
    BY SMT, <1>1, <1>4 DEF UnicodeToUTF16, Word
  <2>2. GetMultibyteCharSize(Char, Enc) = 2
    BY SMT, <1>3, <2>1
  <2>3. UTF16ToUnicode(Char) = u
    <3>1. Char[1] + 256 * Char[2] = u /\ Char[3] = 0 /\ Char[4] = 0
      BY SMT, <1>4, <2>1, EightBits
    <3> QED
      BY SMT, <3>1 DEF UTF16ToUnicode, FitsIn16, Value
  <2>4. UTF16CharSize(Char[2]) = 2
    <3>1. u \div 256 < 216 \/ u \div 256 >= 224
      BY SMT
    <3> QED
      BY SMT, <2>1, <3>1 DEF UTF16CharSize
  <2>5. Agreed(Char, 2, u, Enc)
    BY SMT, <1>2, <2>1, <2>2, <2>3 DEF Agreed
  <2> QED
    BY SMT, <2>4, <2>5
<1>5. CASE u >= 65536
  <2>1. PICK a \in Nat, b \in Nat :
               /\ a = (u - 65536) \div 1024 + 55296 /\ b = ((u - 65536) % 1024) + 56320
               /\ u = 65536 + (a - 55296) * 1024 + (b - 56320)
               /\ a % 256 \in 0..255 /\ a \div 256 \in 216..219
               /\ b % 256 \in 0..255 /\ b \div 256 \in 220..223
               /\ (a % 256) + 256 * (a \div 256) = a /\ (b % 256) + 256 * (b \div 256) = b
    BY SMT, <1>5, TenBits
  <2>2. Char = <<a % 256, a \div 256, b % 256, b \div 256>>
    BY SMT, <1>1, <1>5, <2>1 DEF UnicodeToUTF16
  <2>3. GetMultibyteCharSize(Char, Enc) = 4
    BY SMT, <1>3, <2>1, <2>2
  <2>4. UTF16ToUnicode(Char) = u
    <3>1. Char[1] + 256 * Char[2] = a /\ Char[3] + 256 * Char[4] = b /\ Char[4] # 0
      BY SMT, <2>1, <2>2
    <3> QED
      <4>1. \A i \in 1..4 : Char[i] \in Int
        BY SMT, <2>1, <2>2
      <4>2. UTF16ToUnicode(Char) = 65536 + (Char[1] + 256 * Char[2] - 55296) * 1024
                                          + (Char[3] + 256 * Char[4] - 56320)
        BY SMT, <3>1 DEF UTF16ToUnicode, FitsIn16
      <4>3. UTF16ToUnicode(Char) = 65536 + (a - 55296) * 1024 + (b - 56320)
        BY SMT, <3>1, <4>1, <4>2
      <4> QED
        BY SMT, <2>1, <4>3
  <2>5. UTF16CharSize(Char[2]) = 4
    BY SMT, <2>1, <2>2 DEF UTF16CharSize
  <2>6. Agreed(Char, 4, u, Enc)
    <3>1. Char = <<Char[1], Char[2], Char[3], Char[4]>> /\ \A i \in 1..4 : Char[i] \in 0..255
      <4>1. a \div 256 \in 0..255 /\ b \div 256 \in 0..255
        BY SMT, <2>1
      <4>2. /\ Char[1] = a % 256 /\ Char[2] = a \div 256
            /\ Char[3] = b % 256 /\ Char[4] = b \div 256
        BY SMT, <2>2
      <4>3. Char = <<Char[1], Char[2], Char[3], Char[4]>>
        BY SMT, <2>2, <4>2
      <4>4. \A i \in 1..4 : Char[i] \in 0..255
        BY SMT, <2>1, <4>1, <4>2
      <4> QED
        BY SMT, <4>3, <4>4
    <3> QED
      BY SMT, <1>2, <2>3, <2>4, <3>1 DEF Agreed
  <2> QED
    BY SMT, <2>5, <2>6
<1> QED
  BY SMT, <1>4, <1>5

(* In UTF-32 every character has four bytes.                                *)
LEMMA AgreedUTF32 ==
    ASSUME NEW u \in Nat, u < 1114112, NEW Enc, Enc \in {"UTF32LE", "UTF32BE"},
           NEW Char, Char = EncodeChar(u, Enc)
    PROVE  Agreed(Char, 4, u, Enc)
<1>1. Char = Word(u)
  BY SMT DEF EncodeChar, Wide16
<1>2. DecodeChar(Char, Enc) = Value(Char)
  BY SMT DEF DecodeChar, Wide16
<1>3. /\ Char = <<u % 256, (u \div 256) % 256, u \div 65536, 0>>
      /\ u % 256 \in 0..255 /\ (u \div 256) % 256 \in 0..255 /\ u \div 65536 \in 0..16
  BY SMT, <1>1, EightBits DEF Word
<1>4. Value(Char) = u
  BY SMT, <1>3, EightBits DEF Value
<1>5. GetMultibyteCharSize(Char, Enc) = 4
  BY SMT DEF GetMultibyteCharSize, Wide16, Wide32
<1> QED
  BY SMT, <1>2, <1>3, <1>4, <1>5 DEF Agreed

(* The order in which bytes are written is undone by reading them in it.    *)
LEMMA OrderUndone ==
    ASSUME NEW Enc \in Encodings, NEW Char, NEW n \in 1..4, NEW u, Agreed(Char, n, u, Enc),
           NEW D, D = AdjustEndianness(Char, Enc)
    PROVE  /\ D = <<D[1], D[2], D[3], D[4]>>
           /\ \A i \in 1..4 : D[i] \in 0..255
           /\ \A i \in (n + 1)..4 : D[i] = 0
           /\ AdjustEndianness(D, Enc) = Char
           /\ SubSeq(D, 1, n) \in Seq(0..255) /\ Len(SubSeq(D, 1, n)) = n
           /\ \A i \in 1..n : SubSeq(D, 1, n)[i] = D[i]
<1>1. /\ Char = <<Char[1], Char[2], Char[3], Char[4]>> /\ \A i \in 1..4 : Char[i] \in 0..255
      /\ n = GetMultibyteCharSize(Char, Enc) /\ \A i \in (n + 1)..4 : Char[i] = 0
  BY DEF Agreed
<1>2. /\ D = <<D[1], D[2], D[3], D[4]>> /\ \A i \in 1..4 : D[i] \in 0..255
      /\ \A i \in (n + 1)..4 : D[i] = 0
      /\ AdjustEndianness(D, Enc) = Char
  <2>1. CASE Enc = "UTF16BE"
    <3>1. D = <<Char[2], Char[1], Char[4], Char[3]>>
      BY SMT, <2>1 DEF AdjustEndianness
    <3>2. n \in {2, 4}
      BY <1>1, <2>1 DEF GetMultibyteCharSize, Wide16
    <3>3. AdjustEndianness(D, Enc) = <<D[2], D[1], D[4], D[3]>>
      BY SMT, <2>1 DEF AdjustEndianness
    <3> QED
      BY <1>1, <3>1, <3>2, <3>3
  <2>2. CASE Enc = "UTF32BE"
    <3>1. D = <<Char[4], Char[3], Char[2], Char[1]>>
      BY SMT, <2>2 DEF AdjustEndianness
    <3>2. n = 4
      BY <1>1, <2>2 DEF GetMultibyteCharSize, Wide16, Wide32
    <3>3. AdjustEndianness(D, Enc) = <<D[4], D[3], D[2], D[1]>>
      BY SMT, <2>2 DEF AdjustEndianness
    <3> QED
      BY <1>1, <3>1, <3>2, <3>3
  <2>3. CASE Enc # "UTF16BE" /\ Enc # "UTF32BE"
    <3>1. D = Char
      BY SMT, <2>3 DEF AdjustEndianness
    <3>2. AdjustEndianness(Char, Enc) = Char
      BY SMT, <2>3 DEF AdjustEndianness
    <3> QED
      BY <1>1, <3>1, <3>2
  <2> QED
    BY <2>1, <2>2, <2>3
<1>3. /\ SubSeq(D, 1, n) \in Seq(0..255) /\ Len(SubSeq(D, 1, n)) = n
      /\ \A i \in 1..n : SubSeq(D, 1, n)[i] = D[i]
  <2>1. /\ SubSeq(D, 1, 1) = <<D[1]>> /\ SubSeq(D, 1, 2) = <<D[1], D[2]>>
        /\ SubSeq(D, 1, 3) = <<D[1], D[2], D[3]>>
        /\ SubSeq(D, 1, 4) = <<D[1], D[2], D[3], D[4]>>
    BY <1>2, FirstOfFour
  <2>2. CASE n = 1
    BY <1>2, <2>1, <2>2
  <2>3. CASE n = 2
    BY <1>2, <2>1, <2>3
  <2>4. CASE n = 3
    BY <1>2, <2>1, <2>4
  <2>5. CASE n = 4
    BY <1>2, <2>1, <2>5
  <2> QED
    BY SMTT(30), <2>2, <2>3, <2>4, <2>5
<1> QED
  BY <1>2, <1>3

(* What is written for a code point: the bytes of its character in the order of
   the encoding, as many as the lead byte tells.                            *)
LEMMA WrittenBytes ==
    ASSUME NEW Enc \in Encodings, NEW u, Encodable(u, Enc)
    PROVE  LET Char == EncodeChar(u, Enc)
               n == GetMultibyteCharSize(Char, Enc)
               D == AdjustEndianness(Char, Enc)
               s == Written(u, Enc)
           IN  /\ n \in 1..4 /\ DecodeChar(Char, Enc) = u
               /\ Enc = "UTF8" => /\ UTF8CharSize(Char[1]) = n /\ Char[1] \div 64 # 2
                                  /\ \A i \in 2..n : Char[i] \div 64 = 2
               /\ Wide16(Enc) => UTF16CharSize(Char[2]) = n /\ n >= 2
               /\ Wide32(Enc) => n = 4
               /\ Enc = "ASCII" => n = 1
               /\ D = <<D[1], D[2], D[3], D[4]>>
               /\ \A i \in 1..4 : D[i] \in 0..255
               /\ \A i \in (n + 1)..4 : D[i] = 0
               /\ AdjustEndianness(D, Enc) = Char
               /\ s \in Seq(0..255) /\ Len(s) = n /\ \A i \in 1..n : s[i] = D[i]
               /\ D[1] = IF Enc = "UTF16BE" THEN Char[2]
                         ELSE IF Enc = "UTF32BE" THEN Char[4] ELSE Char[1]
               /\ Enc = "UTF16LE" \/ Enc = "UTF8" => D = Char
<1> DEFINE Char == EncodeChar(u, Enc)
           n == GetMultibyteCharSize(Char, Enc)
           D == AdjustEndianness(Char, Enc)
           s == Written(u, Enc)
<1>1. u \in Nat /\ u < 1114112 /\ (u < 55296 \/ u >= 57344) /\ (Enc = "ASCII" => u < 128)
  BY SMT DEF Encodable
<1>2. /\ Agreed(Char, n, u, Enc) /\ n \in 1..4
      /\ Enc = "UTF8" => /\ UTF8CharSize(Char[1]) = n /\ Char[1] \div 64 # 2
                         /\ \A i \in 2..n : Char[i] \div 64 = 2
      /\ Wide16(Enc) => UTF16CharSize(Char[2]) = n /\ n >= 2
      /\ Wide32(Enc) => n = 4
      /\ Enc = "ASCII" => n = 1
  <2> DEFINE N(m) == m = n
  <2>1. \A m : Agreed(Char, m, u, Enc) => m = n /\ m \in 1..4
    BY DEF Agreed
  <2>2. CASE Enc = "UTF8"
    <3>1. PICK m \in 1..4 : /\ Agreed(Char, m, u, Enc)
                           /\ UTF8CharSize(Char[1]) = m /\ Char[1] \div 64 # 2
                           /\ \A i \in 2..m : Char[i] \div 64 = 2
      <4> HIDE DEF Char
      <4>1. Char = EncodeChar(u, Enc)
        BY DEF Char
      <4> QED
        BY SMT, <1>1, <2>2, <4>1, AgreedUTF8
    <3>2. m = n
      BY <2>1, <3>1, Zenon
    <3> HIDE DEF Char, n
    <3> QED
      BY <2>2, <3>1, <3>2 DEF Wide16, Wide32
  <2>3. CASE Enc = "ASCII"
    <3>1. Agreed(Char, 1, u, Enc)
      <4> HIDE DEF Char
      <4>1. Char = EncodeChar(u, Enc)
        BY DEF Char
      <4> QED
        BY SMT, <1>1, <2>3, <4>1, AgreedASCII
    <3>2. 1 = n
      BY <2>1, <3>1, Zenon
    <3> HIDE DEF Char, n
    <3> QED
      BY <2>3, <3>1, <3>2 DEF Wide16, Wide32
  <2>4. CASE Enc \in {"UTF16LE", "UTF16BE"}
    <3>1. PICK m \in {2, 4} : Agreed(Char, m, u, Enc) /\ UTF16CharSize(Char[2]) = m
      <4> HIDE DEF Char
      <4>1. Char = EncodeChar(u, Enc)
        BY DEF Char
      <4> QED
        BY SMT, <1>1, <2>4, <4>1, AgreedUTF16
    <3>2. m = n
      BY <2>1, <3>1, Zenon
    <3> HIDE DEF Char, n
    <3> QED
      BY <2>4, <3>1, <3>2 DEF Wide16, Wide32
  <2>5. CASE Enc \in {"UTF32LE", "UTF32BE"}
    <3>1. Agreed(Char, 4, u, Enc)
      <4> HIDE DEF Char
      <4>1. Char = EncodeChar(u, Enc)
        BY DEF Char
      <4> QED
        BY SMT, <1>1, <2>5, <4>1, AgreedUTF32
    <3>2. 4 = n
      BY <2>1, <3>1, Zenon
    <3> HIDE DEF Char, n
    <3> QED
      BY <2>5, <3>1, <3>2 DEF Wide16, Wide32
  <2> QED
    BY <2>2, <2>3, <2>4, <2>5 DEF Encodings
<1>3. s = SubSeq(D, 1, n)
  BY DEF Written, CharBytes
<1>4. /\ D = <<D[1], D[2], D[3], D[4]>>
      /\ \A i \in 1..4 : D[i] \in 0..255
      /\ \A i \in (n + 1)..4 : D[i] = 0
      /\ AdjustEndianness(D, Enc) = Char
      /\ s \in Seq(0..255) /\ Len(s) = n /\ \A i \in 1..n : s[i] = D[i]
  <2> HIDE DEF Char, n
  <2>1. D = AdjustEndianness(Char, Enc)
    OBVIOUS
  <2> QED
    <3>1. /\ D = <<D[1], D[2], D[3], D[4]>>
          /\ \A i \in 1..4 : D[i] \in 0..255
          /\ \A i \in (n + 1)..4 : D[i] = 0
          /\ AdjustEndianness(D, Enc) = Char
          /\ SubSeq(D, 1, n) \in Seq(0..255) /\ Len(SubSeq(D, 1, n)) = n
          /\ \A i \in 1..n : SubSeq(D, 1, n)[i] = D[i]
      <4>1. Agreed(Char, n, u, Enc) /\ n \in 1..4
        BY <1>2
      <4> HIDE DEF Agreed, D
      <4> QED
        BY SMT, <2>1, <4>1, OrderUndone
    <3> QED
      BY SMT, <1>3, <3>1
<1>5. D[1] = IF Enc = "UTF16BE" THEN Char[2] ELSE IF Enc = "UTF32BE" THEN Char[4] ELSE Char[1]
  <2> HIDE DEF Char
  <2> QED
    BY SMT DEF AdjustEndianness
<1>6. Enc = "UTF16LE" \/ Enc = "UTF8" => D = Char
  <2> HIDE DEF Char
  <2> QED
    BY SMT DEF AdjustEndianness
<1>7. DecodeChar(Char, Enc) = u
  BY <1>2 DEF Agreed
<1> HIDE DEF Char, n, D, s
<1>8. /\ n \in 1..4 /\ DecodeChar(Char, Enc) = u
      /\ Enc = "UTF8" => /\ UTF8CharSize(Char[1]) = n /\ Char[1] \div 64 # 2
                         /\ \A i \in 2..n : Char[i] \div 64 = 2
      /\ Wide16(Enc) => UTF16CharSize(Char[2]) = n /\ n >= 2
      /\ Wide32(Enc) => n = 4
      /\ Enc = "ASCII" => n = 1
  BY <1>2, <1>7, Zenon
<1> USE DEF Char, n, D, s
<1> QED
  BY <1>4, <1>5, <1>6, <1>8, Zenon

\* A has the bytes s from offset k on.
LiesAt(s, A, k) ==
    /\ A.bytes \in Seq(0..255) /\ k \in Nat /\ k + Len(s) <= Len(A.bytes)
    /\ \A i \in 1..Len(s) : A.bytes[k + i] = s[i]

(* What was written for a code point, in any encoding and byte order, reads
   back as that code point and as many bytes, wherever it lies; and UTF-8 tells
   the first byte of a character from the others.                           *)
THEOREM ReadsBack ==
    ASSUME NEW Enc \in Encodings, NEW u, Encodable(u, Enc),
           NEW A, A.Enc = Enc, NEW k, LiesAt(Written(u, Enc), A, k)
    PROVE  /\ GetNextCharSize(A, k) = Len(Written(u, Enc))
           /\ DecodeChar(GetNextChar(A, k), Enc) = u
           /\ GetMultibyteCharSize(GetNextChar(A, k), Enc) = Len(Written(u, Enc))
           /\ Written(u, Enc) \in Seq(0..255) /\ Len(Written(u, Enc)) \in 1..4
           /\ Enc = "ASCII" => Len(Written(u, Enc)) = 1
           /\ Wide32(Enc) => Len(Written(u, Enc)) = 4
           /\ Enc = "UTF8" => \A i \in 1..Len(Written(u, Enc)) :
                                  A.bytes[k + i] \div 64 = 2 <=> i # 1
<1> DEFINE Char == EncodeChar(u, Enc)
           n == GetMultibyteCharSize(Char, Enc)
           D == AdjustEndianness(Char, Enc)
           s == Written(u, Enc)
<1>1. Char = EncodeChar(u, Enc) /\ n = GetMultibyteCharSize(Char, Enc)
      /\ D = AdjustEndianness(Char, Enc) /\ s = Written(u, Enc)
  BY Zenon
<1> HIDE DEF Char, n, D, s
<1>2. /\ n \in 1..4 /\ DecodeChar(Char, Enc) = u
      /\ Enc = "UTF8" => /\ UTF8CharSize(Char[1]) = n /\ Char[1] \div 64 # 2
                         /\ \A i \in 2..n : Char[i] \div 64 = 2
      /\ Wide16(Enc) => UTF16CharSize(Char[2]) = n /\ n >= 2
      /\ Wide32(Enc) => n = 4
      /\ Enc = "ASCII" => n = 1
  BY SMT, <1>1, WrittenBytes
<1>4. /\ D = <<D[1], D[2], D[3], D[4]>>
      /\ \A i \in 1..4 : D[i] \in 0..255
      /\ \A i \in (n + 1)..4 : D[i] = 0
      /\ AdjustEndianness(D, Enc) = Char
      /\ s \in Seq(0..255) /\ Len(s) = n /\ \A i \in 1..n : s[i] = D[i]
  <2>1. D = <<D[1], D[2], D[3], D[4]>>
    <3> USE DEF Char, n, D, s
    <3> QED
      BY WrittenBytes, Zenon
  <2>2. /\ \A i \in 1..4 : D[i] \in 0..255
        /\ \A i \in (n + 1)..4 : D[i] = 0
        /\ AdjustEndianness(D, Enc) = Char
        /\ s \in Seq(0..255) /\ Len(s) = n /\ \A i \in 1..n : s[i] = D[i]
    BY SMTT(30), <1>1, WrittenBytes
  <2> QED
    BY <2>1, <2>2, Zenon
<1>5. D[1] = IF Enc = "UTF16BE" THEN Char[2] ELSE IF Enc = "UTF32BE" THEN Char[4] ELSE Char[1]
  BY SMT, <1>1, WrittenBytes
<1>6. Enc = "UTF16LE" \/ Enc = "UTF8" => D = Char
  BY SMT, <1>1, WrittenBytes
<1>7. /\ A.bytes \in Seq(0..255) /\ k \in Nat /\ k + n <= Len(A.bytes)
      /\ \A i \in 1..n : A.bytes[k + i] = D[i]
  BY <1>1, <1>4 DEF LiesAt
<1>8. \A i \in 1..n : ByteAt(A, k + i - 1) = D[i]
  BY <1>2, <1>7 DEF ByteAt
<1>9. ByteAt(A, k) = D[1] /\ (n >= 2 => ByteAt(A, k + 1) = D[2])
  BY <1>2, <1>7 DEF ByteAt
<1>10. GetNextCharSize(A, k) = n
  <2>1. CASE Enc = "UTF8"
    BY SMT, <1>2, <1>5, <1>9, <2>1 DEF GetNextCharSize
  <2>2. CASE Enc = "UTF16LE"
    BY SMT, <1>2, <1>6, <1>9, <2>2 DEF GetNextCharSize, Wide16
  <2>3. CASE Enc = "UTF16BE"
    BY SMT, <1>2, <1>5, <1>9, <2>3 DEF GetNextCharSize, Wide16
  <2>4. CASE Wide32(Enc)
    BY SMT, <1>2, <2>4 DEF GetNextCharSize, Wide32
  <2>5. CASE Enc = "ASCII"
    BY SMT, <1>2, <2>5 DEF GetNextCharSize, Wide32
  <2> QED
    BY <2>1, <2>2, <2>3, <2>4, <2>5 DEF Encodings, Wide32
<1>11. GetNextChar(A, k) = Char
  <2> DEFINE byte(i) == IF i <= n THEN ByteAt(A, k + i - 1) ELSE 0
             Read == [i \in 1..4 |-> byte(i)]
  <2>1. GetNextChar(A, k) = AdjustEndianness(Read, Enc)
    BY <1>10 DEF GetNextChar
  <2>2. \A i \in 1..4 : byte(i) = D[i]
    BY <1>2, <1>4, <1>8
  <2> HIDE DEF byte
  <2>3. \A i \in 1..4 : byte(i) \in 0..255
    <3>1. \A i \in 1..4 : D[i] \in 0..255
      BY <1>4, Zenon
    <3> QED
      BY <2>2, <3>1, Zenon
  <2>6. Read \in Seq(0..255) /\ Len(Read) = 4 /\ \A i \in 1..4 : Read[i] = D[i]
    BY <2>2, <2>3
  <2>4. D \in Seq(0..255) /\ Len(D) = 4
    BY <1>4, FourBytes
  <2> HIDE DEF Read
  <2>5. Read = D
    BY <2>4, <2>6
  <2> QED
    BY <1>4, <2>1, <2>5
<1>12. DecodeChar(Char, Enc) = u
  BY <1>2
<1>13. Enc = "UTF8" => \A i \in 1..n : A.bytes[k + i] \div 64 = 2 <=> i # 1
  BY <1>2, <1>4, <1>6, <1>7
<1> QED
  BY <1>1, <1>2, <1>4, <1>10, <1>11, <1>12, <1>13

-----------------------------------------------------------------------------
(* Texts.                                                                   *)

\* A holds the text t, its i-th character at pos[i].
SpellsOut(t, A, pos) ==
    /\ t \in Seq(Nat) /\ A.bytes \in Seq(0..255)
    /\ pos \in [1..(Len(t) + 1) -> Nat]
    /\ pos[1] = 0 /\ pos[Len(t) + 1] = Len(A.bytes)
    /\ \A i \in 1..Len(t) : /\ Encodable(t[i], A.Enc)
                            /\ LiesAt(Written(t[i], A.Enc), A, pos[i])
                            /\ pos[i + 1] = pos[i] + Len(Written(t[i], A.Enc))

(* Reading a text by GetNextChar and GetNextCharSize goes from one character
   to the next and yields the text.                                         *)
THEOREM TextReadsBack ==
    ASSUME NEW A, A.Enc \in Encodings, NEW t, NEW pos, SpellsOut(t, A, pos),
           NEW i \in 1..Len(t)
    PROVE  /\ DecodeChar(GetNextChar(A, pos[i]), A.Enc) = t[i]
           /\ pos[i] \in Nat /\ pos[i + 1] = pos[i] + GetNextCharSize(A, pos[i])
           /\ GetNextCharSize(A, pos[i]) \in 1..4
           /\ GetMultibyteCharSize(GetNextChar(A, pos[i]), A.Enc) = GetNextCharSize(A, pos[i])
           /\ A.Enc = "ASCII" => GetNextCharSize(A, pos[i]) = 1
           /\ Wide32(A.Enc) => GetNextCharSize(A, pos[i]) = 4
           /\ A.Enc = "UTF8" => \A j \in (pos[i] + 1)..pos[i + 1] :
                                   A.bytes[j] \div 64 = 2 <=> j # pos[i] + 1
<1> DEFINE k == pos[i]  s == Written(t[i], A.Enc)
<1>1. /\ Encodable(t[i], A.Enc) /\ LiesAt(s, A, k) /\ pos[i + 1] = k + Len(s)
      /\ k \in Nat
  <2>1. /\ Encodable(t[i], A.Enc) /\ LiesAt(s, A, k) /\ pos[i + 1] = k + Len(s)
    BY Zenon DEF SpellsOut
  <2>2. k \in Nat
    BY <2>1, Zenon DEF LiesAt
  <2> QED
    BY <2>1, <2>2, Zenon
<1>2. /\ GetNextCharSize(A, k) = Len(s)
      /\ DecodeChar(GetNextChar(A, k), A.Enc) = t[i]
      /\ GetMultibyteCharSize(GetNextChar(A, k), A.Enc) = Len(s)
      /\ Len(s) \in 1..4
      /\ A.Enc = "ASCII" => Len(s) = 1
      /\ Wide32(A.Enc) => Len(s) = 4
      /\ A.Enc = "UTF8" => \A j \in 1..Len(s) : A.bytes[k + j] \div 64 = 2 <=> j # 1
  <2> HIDE DEF k, s
  <2>1. s = Written(t[i], A.Enc)
    BY DEF s
  <2> QED
    BY SMTT(30), <1>1, <2>1, ReadsBack
<1> HIDE DEF k, s
<1>3. ASSUME A.Enc = "UTF8", NEW j \in (k + 1)..(k + Len(s))
      PROVE  A.bytes[j] \div 64 = 2 <=> j # k + 1
  <2>1. j - k \in 1..Len(s) /\ k + (j - k) = j /\ (j - k # 1 <=> j # k + 1)
    BY <1>1, <1>2
  <2> QED
    BY <1>2, <1>3, <2>1
<1> QED
  BY <1>1, <1>2, <1>3 DEF k, s

(* Later characters lie behind earlier ones.                                *)
LEMMA PlacesIncrease ==
    ASSUME NEW A, A.Enc \in Encodings, NEW t, NEW pos, SpellsOut(t, A, pos)
    PROVE  \A j \in 1..(Len(t) + 1) : \A i \in 1..(j - 1) : pos[i] < pos[j]
<1> DEFINE L == Len(t)
           Bad == {j \in Nat : j \in 1..(L + 1) /\ \E i \in 1..(j - 1) : ~(pos[i] < pos[j])}
<1>1. L \in Nat /\ \A i \in 1..(L + 1) : pos[i] \in Nat
  BY DEF SpellsOut
<1>2. \A i \in 1..L : pos[i] < pos[i + 1]
  <2> TAKE i \in 1..L
  <2>1. pos[i] \in Nat /\ GetNextCharSize(A, pos[i]) \in 1..4
        /\ pos[i + 1] = pos[i] + GetNextCharSize(A, pos[i])
    BY TextReadsBack
  <2> QED
    BY <2>1
<1> HIDE DEF L
<1>3. Bad = {}
  <2>1. SUFFICES ASSUME Bad # {} PROVE FALSE
    OBVIOUS
  <2>2. PICK j \in Bad : \A m \in Bad : j <= m
    <3>1. Bad \subseteq Nat
      OBVIOUS
    <3> HIDE DEF Bad
    <3> QED
      BY <2>1, <3>1, SmallestMember
  <2>3. j \in 1..(L + 1) /\ \E i \in 1..(j - 1) : ~(pos[i] < pos[j])
    BY <2>2
  <2>4. PICK i \in 1..(j - 1) : ~(pos[i] < pos[j])
    BY <2>3
  <2>5. j - 1 \in 1..L /\ pos[j - 1] < pos[j]
    <3>1. j - 1 \in 1..L /\ (j - 1) + 1 = j
      BY <1>1, <2>3, <2>4
    <3> QED
      BY <1>2, <3>1
  <2>6. i \in 1..((j - 1) - 1)
    BY <1>1, <2>3, <2>4, <2>5
  <2>7. ~(pos[i] < pos[j - 1])
    BY <1>1, <2>3, <2>4, <2>5
  <2>8. j - 1 \in Bad
    BY <1>1, <2>5, <2>6, <2>7
  <2> QED
    BY <2>2, <2>3, <2>8
<1> QED
  BY <1>1, <1>3 DEF L

(* Characters of one size.                                                  *)
LEMMA EvenSpacing ==
    ASSUME NEW A, A.Enc \in Encodings, NEW t, NEW pos, SpellsOut(t, A, pos),
           NEW c \in {1, 4}, \A i \in 1..Len(t) : GetNextCharSize(A, pos[i]) = c
    PROVE  Len(A.bytes) = c * Len(t)
<1> DEFINE L == Len(t)
           Bad == {j \in Nat : j \in 1..(L + 1) /\ pos[j] # c * (j - 1)}
<1>1. /\ L \in Nat /\ \A i \in 1..(L + 1) : pos[i] \in Nat
      /\ pos[1] = 0 /\ pos[L + 1] = Len(A.bytes)
  BY SMTT(30) DEF SpellsOut
<1>2. \A i \in 1..L : pos[i + 1] = pos[i] + c
  <2> TAKE i \in 1..L
  <2>1. pos[i + 1] = pos[i] + GetNextCharSize(A, pos[i])
    BY TextReadsBack
  <2> QED
    BY <2>1
<1> HIDE DEF L
<1>3. Bad = {}
  <2>1. SUFFICES ASSUME Bad # {} PROVE FALSE
    OBVIOUS
  <2>2. PICK j \in Bad : \A m \in Bad : j <= m
    <3>1. Bad \subseteq Nat
      OBVIOUS
    <3> HIDE DEF Bad
    <3> QED
      BY <2>1, <3>1, SmallestMember
  <2>3. j \in 1..(L + 1) /\ pos[j] # c * (j - 1)
    BY <2>2
  <2>4. j # 1
    BY <1>1, <2>3
  <2>5. j - 1 \in 1..L /\ (j - 1) + 1 = j
    BY <1>1, <2>3, <2>4
  <2>6. pos[j] = pos[j - 1] + c
    BY <1>2, <2>5
  <2>7. pos[j - 1] # c * ((j - 1) - 1)
    <3>1. CASE c = 1
      BY <1>1, <2>3, <2>5, <2>6, <3>1
    <3>2. CASE c = 4
      BY <1>1, <2>3, <2>5, <2>6, <3>2
    <3> QED
      BY <3>1, <3>2
  <2>8. j - 1 \in Bad
    BY <1>1, <2>5, <2>7
  <2> QED
    BY <2>2, <2>3, <2>8
<1>4. pos[L + 1] = c * L
  <2>1. L + 1 \in 1..(L + 1) /\ L + 1 \in Nat /\ (L + 1) - 1 = L
    BY <1>1
  <2>2. pos[L + 1] = c * ((L + 1) - 1)
    BY <1>3, <2>1
  <2> QED
    BY <2>1, <2>2
<1> QED
  BY <1>1, <1>4 DEF L

\* What a round adds to the answer of the later ones: itself or its bytes.
Round(add, later) == IF add.counts THEN 1 + later ELSE add.bytes \o later

\* f is what a loop that goes on at next until it is in Stop has put together.
Gathers(f, D, Stop, end, next, add) ==
    /\ f = [i \in D |-> f[i]]
    /\ \A i \in D : f[i] = IF i \in Stop THEN end ELSE Round(add[i], f[next[i]])

(* A loop that comes nearer to its end with every round gathers something, from
   every position.                                                          *)
LEMMA GatheringDefined ==
    ASSUME NEW D, NEW Stop, NEW end, NEW next, NEW add, NEW rank, NEW top,
           IsLoop(D, Stop, next, rank, top)
    PROVE  \E f : Gathers(f, D, Stop, end, next, add)
<1> USE DEF IsLoop, Gathers
<1> DEFINE Near(m) == {i \in D : rank[i] < m}
           Counted(m, g) == g = [i \in Near(m) |-> IF i \in Stop THEN end ELSE Round(add[i], g[next[i]])]
           Bad == {m \in Nat : \A g : ~Counted(m, g)}
<1>1. Bad = {}
  <2>1. SUFFICES ASSUME Bad # {} PROVE FALSE
    OBVIOUS
  <2>2. PICK m \in Bad : \A k \in Bad : m <= k
    <3> Bad \subseteq Nat
      OBVIOUS
    <3> HIDE DEF Bad
    <3> QED
      BY <2>1, SmallestMember
  <2>3. m \in Nat /\ \A g : ~Counted(m, g)
    BY <2>2
  <2>4. CASE m = 0
    <3>1. Near(0) = {}
      OBVIOUS
    <3>2. Counted(0, [i \in {} |-> 0])
      BY <3>1
    <3> QED
      BY <2>3, <2>4, <3>2
  <2>5. CASE m # 0
    <3>1. m - 1 \in Nat /\ ~(m <= m - 1)
      BY <2>3, <2>5
    <3>2. PICK g : Counted(m - 1, g)
      <4>1. m - 1 \notin Bad
        BY <2>2, <3>1
      <4> QED
        BY <3>1, <4>1
    <3> DEFINE h == [i \in Near(m) |-> IF i \in Stop THEN end ELSE Round(add[i], g[next[i]])]
    <3>3. \A i \in Near(m - 1) : h[i] = g[i]
      <4>1. Near(m - 1) \subseteq Near(m)
        BY <2>3, <3>1
      <4>2. \A i \in Near(m - 1) : g[i] = IF i \in Stop THEN end ELSE Round(add[i], g[next[i]])
        BY <3>2
      <4> QED
        BY <4>1, <4>2
    <3>4. \A i \in Near(m) : i \notin Stop => next[i] \in Near(m - 1)
      BY <2>3, <3>1
    <3>5. Counted(m, h)
      <4> HIDE DEF Near
      <4>1. \A i \in Near(m) : i \notin Stop => h[next[i]] = g[next[i]]
        <5> HIDE DEF h
        <5> QED
          BY <3>3, <3>4
      <4> QED
        BY <4>1
    <3> QED
      <4> HIDE DEF Counted, h
      <4> QED
        BY <2>3, <3>5
  <2> QED
    BY <2>4, <2>5
<1>2. top + 1 \in Nat /\ Near(top + 1) = D
  OBVIOUS
<1>3. \E g : Counted(top + 1, g)
  <2> HIDE DEF Counted
  <2> QED
    BY <1>1, <1>2
<1>4. PICK g : Counted(top + 1, g)
  BY <1>3
<1>5. g = [i \in D |-> IF i \in Stop THEN end ELSE Round(add[i], g[next[i]])]
  BY <1>2, <1>4
<1> QED
  BY <1>5

(* The loop of UTF16LenCodePoints goes from character to character.         *)
LEMMA RoundsUTF16 ==
    ASSUME NEW A, A.Enc \in {"UTF16LE", "UTF16BE"}, NEW t, NEW pos, SpellsOut(t, A, pos)
    PROVE  UTF16LenCodePoints(A) = Len(t)
<1> DEFINE n == Len(A.bytes)
           size(k) == GetNextCharSize(A, k)
           D == 0..(n + 4)
           Stop == {k \in D : k >= n}
           next == [k \in D |-> k + size(k)]
           rank == [k \in D |-> (n + 4) - k]
           add == [k \in D |-> [counts |-> TRUE]]
           body(g) == [k \in 0..(n + 4) |-> IF k >= n THEN 0 ELSE 1 + g[k + size(k)]]
           f == CHOOSE g : g = body(g)
           L == Len(t)
<1>1. UTF16LenCodePoints(A) = f[0]
  BY Zenon DEF UTF16LenCodePoints
<1>2. n \in Nat /\ L \in Nat /\ pos[1] = 0 /\ pos[L + 1] = n
      /\ \A i \in 1..(L + 1) : pos[i] \in Nat
  <2>1. n \in Nat /\ L \in Nat
    BY DEF SpellsOut
  <2> QED
    BY <2>1, Zenon DEF SpellsOut
<1>3. \A k : size(k) \in {2, 4}
  <2> TAKE k
  <2>1. CASE A.Enc = "UTF16LE"
    BY SMT, <2>1 DEF GetNextCharSize, UTF16CharSize
  <2>2. CASE A.Enc = "UTF16BE"
    BY SMT, <2>2 DEF GetNextCharSize, UTF16CharSize
  <2> QED
    BY <2>1, <2>2
<1>4. \A i \in 1..L : pos[i + 1] = pos[i] + size(pos[i])
  <2>1. A.Enc \in Encodings
    BY DEF Encodings
  <2> TAKE i \in 1..L
  <2> QED
    BY <2>1, TextReadsBack
<1>5. \A i \in 1..L : pos[i] < n
  <2>1. A.Enc \in Encodings
    BY DEF Encodings
  <2>2. \A j \in 1..(L + 1) : \A i \in 1..(j - 1) : pos[i] < pos[j]
    BY <2>1, PlacesIncrease
  <2>3. L + 1 \in 1..(L + 1) /\ 1..((L + 1) - 1) = 1..L
    BY <1>2
  <2> HIDE DEF L, n
  <2> QED
    BY <1>2, <2>2, <2>3
<1> HIDE DEF n, size, L
<1>6. \A g : g = body(g) <=> Gathers(g, D, Stop, 0, next, add)
  <2>1. \A g : \A k \in D : body(g)[k] = IF k \in Stop THEN 0 ELSE Round(add[k], g[next[k]])
    BY <1>2 DEF Round
  <2>2. \A g : body(g) = [k \in D |-> body(g)[k]]
    OBVIOUS
  <2> HIDE DEF body, D, Stop, next, add
  <2> QED
    BY <2>1, <2>2 DEF Gathers
<1>7. IsLoop(D, Stop, next, rank, n + 4)
  <2>1. \A k \in D : k \in Stop \/ (next[k] \in D /\ rank[next[k]] < rank[k])
    <3> SUFFICES ASSUME NEW k \in D, k \notin Stop
                 PROVE  next[k] \in D /\ rank[next[k]] < rank[k]
      OBVIOUS
    <3>1. k \in Nat /\ k < n
      BY <1>2
    <3>2. next[k] = k + size(k) /\ size(k) \in {2, 4}
      BY <1>3
    <3> QED
      BY <1>2, <3>1, <3>2
  <2>2. n + 4 \in Nat /\ \A k \in D : rank[k] \in 0..(n + 4)
    BY <1>2
  <2> HIDE DEF D, Stop, next, rank
  <2> QED
    BY <2>1, <2>2 DEF IsLoop
<1>8. f = body(f)
  <2>1. \E g : Gathers(g, D, Stop, 0, next, add)
    <3> HIDE DEF D, Stop, next, add, rank
    <3> QED
      BY <1>7, GatheringDefined
  <2> HIDE DEF body, D, Stop, next, add
  <2>2. \E g : g = body(g)
    BY <1>6, <2>1
  <2> QED
    BY <2>2, Zenon
<1> HIDE DEF f
<1>9. \A k \in 0..(n + 4) : f[k] = IF k >= n THEN 0 ELSE 1 + f[k + size(k)]
  BY <1>8
<1> DEFINE Bad == {m \in Nat : m \in 0..L /\ f[pos[(L + 1) - m]] # m}
<1>10. Bad = {}
  <2>1. SUFFICES ASSUME Bad # {} PROVE FALSE
    OBVIOUS
  <2>2. PICK m \in Bad : \A k \in Bad : m <= k
    <3>1. Bad \subseteq Nat
      OBVIOUS
    <3> HIDE DEF Bad
    <3> QED
      BY <2>1, <3>1, SmallestMember
  <2>3. m \in 0..L /\ f[pos[(L + 1) - m]] # m
    BY <2>2
  <2>4. m # 0
    <3>1. f[n] = 0
      BY <1>2, <1>9
    <3> QED
      BY <1>2, <2>3, <3>1
  <2> DEFINE i == (L + 1) - m
  <2>5. i \in 1..L /\ i + 1 = (L + 1) - (m - 1) /\ m - 1 \in 0..L
    BY <1>2, <2>3, <2>4
  <2>6. f[pos[i]] = 1 + f[pos[i + 1]]
    <3>1. pos[i] \in 0..(n + 4) /\ ~(pos[i] >= n)
      BY <1>2, <1>5, <2>5
    <3> HIDE DEF i
    <3>2. pos[i + 1] = pos[i] + size(pos[i])
      BY <1>4, <2>5
    <3> QED
      BY <1>9, <3>1, <3>2
  <2>7. m - 1 \notin Bad
    BY <2>2, <2>3
  <2>8. f[pos[i + 1]] = m - 1
    <3>1. m - 1 \in Nat
      BY <2>5
    <3>2. f[pos[(L + 1) - (m - 1)]] = m - 1
      BY <2>5, <2>7, <3>1
    <3> QED
      BY <2>5, <3>2
  <2> QED
    BY <2>3, <2>6, <2>8
<1>11. f[0] = L
  <2>1. L \in Nat /\ L \in 0..L /\ (L + 1) - L = 1
    BY <1>2
  <2>2. f[pos[(L + 1) - L]] = L
    BY <1>10, <2>1
  <2> QED
    BY <1>2, <2>1, <2>2
<1> QED
  BY <1>1, <1>11 DEF L

(* The bytes that are not the second or a later one of a character are as many
   as there are characters.                                                 *)
LEMMA LeadsUTF8 ==
    ASSUME NEW A, A.Enc = "UTF8", NEW t, NEW pos, SpellsOut(t, A, pos)
    PROVE  UTF8LenCodePoints(A) = Len(t)
<1> DEFINE n == Len(A.bytes)
           L == Len(t)
           S == {k \in DOMAIN A.bytes : A.bytes[k] \div 64 # 2}
           g == [i \in 1..L |-> pos[i] + 1]
<1>1. A.Enc \in Encodings
  BY DEF Encodings
<1>2. /\ n \in Nat /\ L \in Nat /\ pos[1] = 0 /\ pos[L + 1] = n
      /\ \A i \in 1..(L + 1) : pos[i] \in Nat
      /\ S = {k \in 1..n : A.bytes[k] \div 64 # 2}
  <2>1. n \in Nat /\ L \in Nat /\ DOMAIN A.bytes = 1..n
    BY DEF SpellsOut
  <2>2. S = {k \in 1..n : A.bytes[k] \div 64 # 2}
    BY <2>1, Zenon
  <2> QED
    BY <2>1, <2>2, Zenon DEF SpellsOut
<1>3. \A i \in 1..L : \A j \in (pos[i] + 1)..pos[i + 1] : A.bytes[j] \div 64 = 2 <=> j # pos[i] + 1
  <2> TAKE i \in 1..L
  <2> QED
    BY <1>1, TextReadsBack
<1>4. \A j \in 1..(L + 1) : \A i \in 1..(j - 1) : pos[i] < pos[j]
  BY <1>1, PlacesIncrease
<1> HIDE DEF n, L, S
<1>5. \A i \in 1..L : pos[i] < pos[i + 1] /\ pos[i + 1] <= n
  <2> TAKE i \in 1..L
  <2>1. i + 1 \in 1..(L + 1) /\ i \in 1..((i + 1) - 1) /\ L + 1 \in 1..(L + 1)
        /\ (i + 1 # L + 1 => i + 1 \in 1..((L + 1) - 1))
    BY <1>2
  <2>2. pos[i] < pos[i + 1]
    BY <1>4, <2>1
  <2>3. i + 1 # L + 1 => pos[i + 1] < n
    BY <1>2, <1>4, <2>1
  <2>4. pos[i + 1] \in Nat
    BY <1>2, <2>1
  <2> QED
    BY <1>2, <2>2, <2>3, <2>4
<1>6. \A i \in 1..L : g[i] \in S
  <2> TAKE i \in 1..L
  <2>1. g[i] = pos[i] + 1 /\ pos[i] \in Nat /\ pos[i + 1] \in Nat
    BY <1>2
  <2>2. pos[i] + 1 \in 1..n /\ pos[i] + 1 \in (pos[i] + 1)..pos[i + 1]
    BY <1>2, <1>5, <2>1
  <2>3. A.bytes[pos[i] + 1] \div 64 # 2
    BY <1>3, <2>2
  <2> QED
    BY <1>2, <2>1, <2>2, <2>3
<1>7. \A k \in S : \E i \in 1..L : g[i] = k
  <2> TAKE k \in S
  <2> DEFINE After == {i \in Nat : i \in 1..(L + 1) /\ pos[i] >= k}
  <2>1. k \in 1..n /\ A.bytes[k] \div 64 # 2
    BY <1>2
  <2>2. L + 1 \in After /\ After \subseteq Nat
    BY <1>2, <2>1
  <2>3. PICK j \in After : \A m \in After : j <= m
    <3> HIDE DEF After
    <3> QED
      BY <2>2, SmallestMember
  <2>4. j \in 1..(L + 1) /\ pos[j] >= k
    BY <2>3
  <2>5. j # 1
    BY <1>2, <2>1, <2>4
  <2>6. j - 1 \in 1..L /\ j - 1 \in 1..(L + 1) /\ j - 1 \in Nat /\ (j - 1) + 1 = j /\ ~(j <= j - 1)
    BY <1>2, <2>4, <2>5
  <2>7. ~(pos[j - 1] >= k)
    BY <2>3, <2>6
  <2>8. k \in (pos[j - 1] + 1)..pos[(j - 1) + 1]
    <3>1. pos[j - 1] \in Nat /\ pos[j] \in Nat
      BY <1>2, <2>4, <2>6
    <3> QED
      BY <2>1, <2>4, <2>6, <2>7, <3>1
  <2>9. k = pos[j - 1] + 1
    BY <1>3, <2>1, <2>6, <2>8
  <2> QED
    BY <2>6, <2>9
<1>8. \A i, j \in 1..L : g[i] = g[j] => i = j
  <2> TAKE i, j \in 1..L
  <2> HAVE g[i] = g[j]
  <2>1. pos[i] = pos[j]
    BY <1>2
  <2>2. ~(i < j)
    BY <1>2, <1>4, <2>1
  <2>3. ~(j < i)
    BY <1>2, <1>4, <2>1
  <2> QED
    BY <1>2, <2>2, <2>3
<1>9. g \in [1..L -> S]
  BY <1>6
<1>10. Cardinality(S) = L
  <2>1. g \in Bijection(1..L, S)
    <3> HIDE DEF g
    <3> QED
      BY <1>7, <1>8, <1>9 DEF Bijection, Injection, Surjection, IsInjective
  <2> HIDE DEF g
  <2> QED
    BY <1>2, <2>1, FS_CountingElements DEF ExistsBijection
<1> QED
  BY <1>10, Zenon DEF S, L, UTF8LenCodePoints

(* StringLen with LEN_CODEPOINT answers the number of characters of a text, in
   every encoding, for texts of any length.                                 *)
THEOREM CodePointsCounted ==
    ASSUME NEW A, A.Enc \in Encodings, NEW t, NEW pos, SpellsOut(t, A, pos),
           NEW LenType, LenType = "LEN_CODEPOINT"
    PROVE  StringLen(A, LenType) = Len(t)
<1>1. CASE A.Enc = "UTF8"
  <2>1. UTF8LenCodePoints(A) = Len(t)
    BY <1>1, LeadsUTF8
  <2> QED
    BY SMT, <1>1, <2>1 DEF StringLen, Wide16, Wide32
<1>2. CASE A.Enc \in {"UTF16LE", "UTF16BE"}
  <2>1. UTF16LenCodePoints(A) = Len(t)
    BY <1>2, RoundsUTF16
  <2>2. A.Enc # "UTF8" /\ Wide16(A.Enc) /\ ~Wide32(A.Enc)
    BY <1>2 DEF Wide16, Wide32
  <2>3. StringLen(A, LenType) = UTF16LenCodePoints(A)
    BY Zenon, <2>2 DEF StringLen
  <2> QED
    BY <2>1, <2>3, Zenon
<1>3. CASE Wide32(A.Enc)
  <2>1. \A i \in 1..Len(t) : GetNextCharSize(A, pos[i]) = 4
    BY <1>3, TextReadsBack
  <2>2. Len(A.bytes) = 4 * Len(t)
    BY <2>1, EvenSpacing
  <2>3. Len(t) \in Nat
    BY DEF SpellsOut
  <2>4. Len(A.bytes) \div 4 = Len(t)
    BY SMT, <2>2, <2>3
  <2>5. A.Enc # "UTF8" /\ ~Wide16(A.Enc)
    BY <1>3 DEF Wide16, Wide32
  <2> QED
    BY Zenon, <1>3, <2>4, <2>5 DEF StringLen
<1>4. CASE A.Enc = "ASCII"
  <2>1. \A i \in 1..Len(t) : GetNextCharSize(A, pos[i]) = 1
    BY <1>4, TextReadsBack
  <2>3. Len(t) \in Nat
    BY DEF SpellsOut
  <2>2. Len(A.bytes) = 1 * Len(t) /\ Len(t) \in Nat
    BY <2>1, <2>3, EvenSpacing
  <2> QED
    BY SMT, <1>4, <2>2 DEF StringLen, Wide16, Wide32
<1> QED
  BY <1>1, <1>2, <1>3, <1>4 DEF Encodings, Wide32

(* Bytes keep spelling what they spell when others follow or precede them.  *)
LEMMA LiesInFront ==
    ASSUME NEW s, NEW A, NEW C, NEW b \in Seq(0..255), NEW k,
           LiesAt(s, A, k), s \in Seq(0..255), C.bytes = A.bytes \o b
    PROVE  LiesAt(s, C, k)
<1>1. /\ A.bytes \in Seq(0..255) /\ k \in Nat /\ k + Len(s) <= Len(A.bytes) /\ Len(s) \in Nat
      /\ \A i \in 1..Len(s) : A.bytes[k + i] = s[i]
  BY DEF LiesAt
<1>2. /\ C.bytes \in Seq(0..255) /\ Len(C.bytes) = Len(A.bytes) + Len(b)
      /\ \A i \in 1..Len(A.bytes) : C.bytes[i] = A.bytes[i]
  BY <1>1
<1>3. Len(A.bytes) \in Nat /\ Len(b) \in Nat
  BY <1>1
<1>4. \A i \in 1..Len(s) : k + i \in 1..Len(A.bytes)
  BY <1>1, <1>3
<1>5. \A i \in 1..Len(s) : C.bytes[k + i] = s[i]
  BY <1>1, <1>2, <1>4
<1>6. k + Len(s) <= Len(C.bytes)
  BY <1>1, <1>2, <1>3
<1> QED
  BY <1>1, <1>2, <1>5, <1>6 DEF LiesAt

LEMMA LiesBehind ==
    ASSUME NEW s, NEW A, NEW C, NEW b \in Seq(0..255), NEW k,
           LiesAt(s, A, k), s \in Seq(0..255), C.bytes = b \o A.bytes
    PROVE  LiesAt(s, C, Len(b) + k)
<1>1. /\ A.bytes \in Seq(0..255) /\ k \in Nat /\ k + Len(s) <= Len(A.bytes) /\ Len(s) \in Nat
      /\ \A i \in 1..Len(s) : A.bytes[k + i] = s[i]
  BY DEF LiesAt
<1>2. Len(A.bytes) \in Nat /\ Len(b) \in Nat
  BY <1>1
<1>3. /\ C.bytes \in Seq(0..255) /\ Len(C.bytes) = Len(b) + Len(A.bytes)
      /\ \A j \in 1..Len(A.bytes) : C.bytes[Len(b) + j] = A.bytes[j]
  BY <1>1
<1>4. \A i \in 1..Len(s) : k + i \in 1..Len(A.bytes) /\ (Len(b) + k) + i = Len(b) + (k + i)
  BY <1>1, <1>2
<1>5. \A i \in 1..Len(s) : C.bytes[(Len(b) + k) + i] = s[i]
  BY <1>1, <1>3, <1>4
<1> QED
  BY <1>1, <1>2, <1>3, <1>5 DEF LiesAt

(* One text behind another.                                                 *)
LEMMA TextsJoined ==
    ASSUME NEW A, NEW B, NEW C, A.Enc \in Encodings, B.Enc = A.Enc, C.Enc = A.Enc,
           C.bytes = A.bytes \o B.bytes,
           NEW t1, NEW p1, SpellsOut(t1, A, p1), NEW t2, NEW p2, SpellsOut(t2, B, p2)
    PROVE  \E p : SpellsOut(t1 \o t2, C, p)
<1> DEFINE L1 == Len(t1)
           L2 == Len(t2)
           N1 == Len(A.bytes)
           t == t1 \o t2
           p == [i \in 1..(L1 + L2 + 1) |-> IF i <= L1 THEN p1[i] ELSE N1 + p2[i - L1]]
           W(u) == Written(u, A.Enc)
<1>1. /\ L1 \in Nat /\ L2 \in Nat /\ N1 \in Nat
      /\ t1 \in Seq(Nat) /\ t2 \in Seq(Nat) /\ A.bytes \in Seq(0..255) /\ B.bytes \in Seq(0..255)
      /\ Len(B.bytes) \in Nat
  BY DEF SpellsOut
<1>2. /\ \A i \in 1..(L1 + 1) : p1[i] \in Nat
      /\ p1[1] = 0 /\ p1[L1 + 1] = N1
      /\ \A i \in 1..L1 : /\ Encodable(t1[i], A.Enc) /\ LiesAt(W(t1[i]), A, p1[i])
                           /\ p1[i + 1] = p1[i] + Len(W(t1[i]))
  BY Zenon DEF SpellsOut
<1>3. /\ \A i \in 1..(L2 + 1) : p2[i] \in Nat
      /\ p2[1] = 0 /\ p2[L2 + 1] = Len(B.bytes)
      /\ \A i \in 1..L2 : /\ Encodable(t2[i], A.Enc) /\ LiesAt(W(t2[i]), B, p2[i])
                           /\ p2[i + 1] = p2[i] + Len(W(t2[i]))
  BY Zenon DEF SpellsOut
<1>4. \A u : Encodable(u, A.Enc) => W(u) \in Seq(0..255) /\ Len(W(u)) \in Nat
  <2> TAKE u
  <2> HAVE Encodable(u, A.Enc)
  <2>1. W(u) \in Seq(0..255)
    BY WrittenBytes
  <2> QED
    BY <2>1
<1>5. /\ C.bytes \in Seq(0..255) /\ Len(C.bytes) = N1 + Len(B.bytes)
      /\ t \in Seq(Nat) /\ Len(t) = L1 + L2
      /\ \A i \in 1..L1 : t[i] = t1[i]
      /\ \A i \in 1..L2 : t[L1 + i] = t2[i]
  BY <1>1
<1> HIDE DEF L1, L2, N1, t, W
<1>6. /\ \A i \in 1..L1 : p[i] = p1[i]
      /\ \A i \in 1..(L2 + 1) : p[L1 + i] = N1 + p2[i]
  <2>1. \A i \in 1..L1 : i \in 1..(L1 + L2 + 1) /\ i <= L1
    BY <1>1
  <2>2. \A i \in 1..(L2 + 1) : L1 + i \in 1..(L1 + L2 + 1) /\ ~(L1 + i <= L1) /\ (L1 + i) - L1 = i
    BY <1>1
  <2> QED
    BY <2>1, <2>2
<1>7. \A i \in 1..(L1 + 1) : p[i] = p1[i]
  <2>1. 1 \in 1..(L2 + 1) /\ p2[1] = 0 /\ N1 + 0 = N1
    BY <1>1, <1>3
  <2>2. p[L1 + 1] = p1[L1 + 1]
    <3> HIDE DEF p
    <3> QED
      BY <1>2, <1>6, <2>1
  <2>3. \A i \in 1..(L1 + 1) : i \in 1..L1 \/ i = L1 + 1
    BY <1>1
  <2> HIDE DEF p
  <2> QED
    BY <1>6, <2>2, <2>3
<1>8. p \in [1..(Len(t) + 1) -> Nat]
  <2>1. \A i \in 1..(L1 + L2 + 1) : p[i] \in Nat
    <3> TAKE i \in 1..(L1 + L2 + 1)
    <3>1. CASE i <= L1
      BY <1>1, <1>2, <1>6, <3>1
    <3>2. CASE ~(i <= L1)
      <4>1. i - L1 \in 1..(L2 + 1) /\ L1 + (i - L1) = i
        BY <1>1, <3>2
      <4>2. p[i] = N1 + p2[i - L1] /\ p2[i - L1] \in Nat
        BY <1>3, <1>6, <4>1
      <4> HIDE DEF p
      <4> QED
        BY <1>1, <4>2
    <3> QED
      BY <3>1, <3>2
  <2>2. 1..(Len(t) + 1) = 1..(L1 + L2 + 1)
    BY <1>5
  <2>3. p \in [1..(L1 + L2 + 1) -> Nat]
    BY <2>1
  <2> QED
    BY <2>2, <2>3, Zenon
<1> HIDE DEF p
<1>9. p[1] = 0 /\ p[Len(t) + 1] = Len(C.bytes)
  <2>1. 1 \in 1..(L1 + 1) /\ L2 + 1 \in 1..(L2 + 1) /\ L1 + (L2 + 1) = Len(t) + 1
    BY <1>1, <1>5
  <2> QED
    BY <1>2, <1>3, <1>5, <1>6, <1>7, <2>1
<1>10. ASSUME NEW i \in 1..Len(t)
       PROVE  /\ Encodable(t[i], C.Enc) /\ LiesAt(Written(t[i], C.Enc), C, p[i])
              /\ p[i + 1] = p[i] + Len(Written(t[i], C.Enc))
  <2>1. W(t[i]) = Written(t[i], C.Enc)
    BY DEF W
  <2>2. CASE i <= L1
    <3>1. i \in 1..L1 /\ i \in 1..(L1 + 1) /\ i + 1 \in 1..(L1 + 1)
      <4>1. i \in 1..(L1 + L2)
        BY <1>5
      <4> QED
        BY <1>1, <2>2, <4>1
    <3>2. t[i] = t1[i] /\ p[i] = p1[i] /\ p[i + 1] = p1[i + 1]
      BY <1>5, <1>7, <3>1
    <3>3. Encodable(t[i], A.Enc) /\ LiesAt(W(t[i]), A, p[i]) /\ p[i + 1] = p[i] + Len(W(t[i]))
      BY <1>2, <3>1, <3>2
    <3>4. LiesAt(W(t[i]), C, p[i])
      BY <1>1, <1>4, <3>3, LiesInFront
    <3> QED
      BY <2>1, <3>3, <3>4
  <2>3. CASE ~(i <= L1)
    <3> DEFINE j == i - L1
    <3>1. /\ j \in 1..L2 /\ j \in 1..(L2 + 1) /\ j + 1 \in 1..(L2 + 1)
          /\ L1 + j = i /\ L1 + (j + 1) = i + 1
      <4>1. i \in 1..(L1 + L2)
        BY <1>5
      <4> QED
        BY <1>1, <2>3, <4>1
    <3> HIDE DEF j
    <3>2. t[i] = t2[j] /\ p[i] = N1 + p2[j] /\ p[i + 1] = N1 + p2[j + 1]
      BY <1>5, <1>6, <3>1
    <3>3. Encodable(t[i], A.Enc) /\ LiesAt(W(t[i]), B, p2[j]) /\ p2[j + 1] = p2[j] + Len(W(t[i]))
      BY <1>3, <3>1, <3>2
    <3>4. LiesAt(W(t[i]), C, N1 + p2[j])
      BY <1>1, <1>4, <3>3, LiesBehind DEF N1
    <3>5. p[i + 1] = p[i] + Len(W(t[i]))
      <4>1. p2[j] \in Nat /\ Len(W(t[i])) \in Nat
        BY <1>3, <1>4, <3>1, <3>3
      <4> QED
        BY <1>1, <3>2, <3>3, <4>1
    <3> QED
      BY <2>1, <3>2, <3>3, <3>4, <3>5
  <2> QED
    BY <2>2, <2>3
<1>11. SpellsOut(t, C, p)
  BY <1>5, <1>8, <1>9, <1>10 DEF SpellsOut
<1> QED
  BY <1>11 DEF t

LEMMA OneCharacter ==
    ASSUME NEW Enc \in Encodings, NEW u, Encodable(u, Enc),
           NEW A, A.Enc = Enc, A.bytes = Written(u, Enc)
    PROVE  \E p : SpellsOut(<<u>>, A, p)
<1> DEFINE s == Written(u, Enc)
           p == [i \in 1..2 |-> IF i = 1 THEN 0 ELSE Len(s)]
<1>1. s \in Seq(0..255) /\ Len(s) \in Nat /\ u \in Nat
  <2>1. s \in Seq(0..255)
    BY WrittenBytes
  <2> QED
    BY <2>1 DEF Encodable
<1> HIDE DEF s
<1>2. LiesAt(s, A, 0)
  <2>1. A.bytes = s
    BY DEF s
  <2>2. \A i \in 1..Len(s) : 0 + i = i
    BY <1>1
  <2> QED
    BY <1>1, <2>1, <2>2 DEF LiesAt
<1>3. p \in [1..2 -> Nat] /\ p[1] = 0 /\ p[2] = Len(s)
  BY <1>1
<1> HIDE DEF p
<1>4. /\ <<u>> \in Seq(Nat) /\ Len(<<u>>) = 1 /\ Len(<<u>>) + 1 = 2 /\ <<u>>[1] = u
      /\ \A i \in 1..Len(<<u>>) : i = 1
  BY <1>1
<1>5. A.bytes = s /\ s = Written(u, A.Enc) /\ A.Enc = Enc /\ 1 + 1 = 2 /\ 0 + Len(s) = Len(s)
  BY <1>1 DEF s
<1>6. \A i \in 1..Len(<<u>>) : /\ Encodable(<<u>>[i], A.Enc)
                               /\ LiesAt(Written(<<u>>[i], A.Enc), A, p[i])
                               /\ p[i + 1] = p[i] + Len(Written(<<u>>[i], A.Enc))
  <2> TAKE i \in 1..Len(<<u>>)
  <2>1. i = 1 /\ <<u>>[i] = u
    BY <1>4
  <2> QED
    BY <1>2, <1>3, <1>5, <2>1, Zenon
<1>7. SpellsOut(<<u>>, A, p)
  <2>1. p \in [1..(Len(<<u>>) + 1) -> Nat] /\ p[Len(<<u>>) + 1] = Len(A.bytes)
    BY <1>3, <1>4, <1>5, Zenon
  <2> QED
    BY <1>1, <1>3, <1>4, <1>5, <1>6, <2>1, Zenon DEF SpellsOut
<1> QED
  BY <1>7

LEMMA NoCharacter ==
    ASSUME NEW A, A.bytes = <<>>
    PROVE  \E p : SpellsOut(<<>>, A, p)
<1> DEFINE p == [i \in 1..1 |-> 0]
<1>1. p \in [1..(Len(<<>>) + 1) -> Nat] /\ p[1] = 0 /\ p[Len(<<>>) + 1] = Len(A.bytes)
  OBVIOUS
<1>2. <<>> \in Seq(Nat) /\ A.bytes \in Seq(0..255) /\ 1..Len(<<>>) = {}
  OBVIOUS
<1> HIDE DEF p
<1>3. SpellsOut(<<>>, A, p)
  BY <1>1, <1>2 DEF SpellsOut
<1> QED
  BY <1>3

(* What Transcode writes of a text is the same text in the other encoding,
   when that encoding has all of its characters.                           *)
THEOREM TranscodedSpells ==
    ASSUME NEW Text, Text.Enc \in Encodings, NEW t, NEW pos, SpellsOut(t, Text, pos),
           NEW Enc \in Encodings, \A i \in 1..Len(t) : Encodable(t[i], Enc),
           NEW B, B.Enc = Enc, B.bytes = Transcoded(Text, Enc)
    PROVE  \E p : SpellsOut(t, B, p)
<1> DEFINE n == Len(Text.bytes)
           size(k) == GetMultibyteCharSize(GetNextChar(Text, k), Text.Enc)
           out(k) == CharBytes(EncodeChar(DecodeChar(GetNextChar(Text, k), Text.Enc), Enc), Enc)
           D == 0..(n + 4)
           Stop == {k \in D : k >= n}
           next == [k \in D |-> k + size(k)]
           rank == [k \in D |-> (n + 4) - k]
           add == [k \in D |-> [counts |-> FALSE, bytes |-> out(k)]]
           body(g) == [k \in 0..(n + 4) |-> IF k >= n THEN <<>> ELSE out(k) \o g[k + size(k)]]
           f == CHOOSE g : g = body(g)
           L == Len(t)
<1>1. Transcoded(Text, Enc) = f[0]
  BY Zenon DEF Transcoded
<1>2. n \in Nat /\ L \in Nat /\ pos[1] = 0 /\ pos[L + 1] = n
      /\ t \in Seq(Nat) /\ \A i \in 1..(L + 1) : pos[i] \in Nat
  <2>1. n \in Nat /\ L \in Nat
    BY DEF SpellsOut
  <2> QED
    BY <2>1, Zenon DEF SpellsOut
<1>3. \A k : size(k) \in 1..4
  BY DEF GetMultibyteCharSize
<1>4. \A i \in 1..L : pos[i + 1] = pos[i] + size(pos[i]) /\ out(pos[i]) = Written(t[i], Enc)
  <2> TAKE i \in 1..L
  <2>1. /\ DecodeChar(GetNextChar(Text, pos[i]), Text.Enc) = t[i]
        /\ pos[i + 1] = pos[i] + GetNextCharSize(Text, pos[i])
        /\ GetMultibyteCharSize(GetNextChar(Text, pos[i]), Text.Enc) = GetNextCharSize(Text, pos[i])
    BY TextReadsBack
  <2> QED
    BY <2>1, Zenon DEF Written
<1>5. \A i \in 1..L : pos[i] < n
  <2>1. \A j \in 1..(L + 1) : \A i \in 1..(j - 1) : pos[i] < pos[j]
    BY PlacesIncrease
  <2>2. L + 1 \in 1..(L + 1) /\ 1..((L + 1) - 1) = 1..L
    BY <1>2
  <2> HIDE DEF L, n
  <2> QED
    BY <1>2, <2>1, <2>2
<1>6. \A i \in 1..L : Encodable(t[i], Enc)
  OBVIOUS
<1> HIDE DEF n, size, L, out
<1>7. \A g : g = body(g) <=> Gathers(g, D, Stop, <<>>, next, add)
  <2>1. \A g : \A k \in D : body(g)[k] = IF k \in Stop THEN <<>> ELSE Round(add[k], g[next[k]])
    BY <1>2 DEF Round
  <2>2. \A g : body(g) = [k \in D |-> body(g)[k]]
    OBVIOUS
  <2> HIDE DEF body, D, Stop, next, add
  <2> QED
    BY <2>1, <2>2 DEF Gathers
<1>8. IsLoop(D, Stop, next, rank, n + 4)
  <2>1. \A k \in D : k \in Stop \/ (next[k] \in D /\ rank[next[k]] < rank[k])
    <3> SUFFICES ASSUME NEW k \in D, k \notin Stop
                 PROVE  next[k] \in D /\ rank[next[k]] < rank[k]
      OBVIOUS
    <3>1. k \in Nat /\ k < n
      BY <1>2
    <3>2. next[k] = k + size(k) /\ size(k) \in 1..4
      BY <1>3
    <3> QED
      BY SMTT(30), <1>2, <3>1, <3>2
  <2>2. n + 4 \in Nat /\ \A k \in D : rank[k] \in 0..(n + 4)
    BY <1>2
  <2> HIDE DEF D, Stop, next, rank
  <2> QED
    BY <2>1, <2>2 DEF IsLoop
<1>9. f = body(f)
  <2>1. \E g : Gathers(g, D, Stop, <<>>, next, add)
    <3> HIDE DEF D, Stop, next, add, rank
    <3> QED
      BY <1>8, GatheringDefined
  <2> HIDE DEF body, D, Stop, next, add
  <2>2. \E g : g = body(g)
    BY <1>7, <2>1
  <2> QED
    BY <2>2, Zenon
<1> HIDE DEF f
<1>10. \A k \in 0..(n + 4) : f[k] = IF k >= n THEN <<>> ELSE out(k) \o f[k + size(k)]
  BY <1>9
<1> DEFINE Later(m) == SubSeq(t, (L + 1) - m, L)
           There(m) == [Enc |-> Enc, bytes |-> f[pos[(L + 1) - m]]]
           Bad == {m \in Nat : m \in 0..L /\ ~(\E p : SpellsOut(Later(m), There(m), p))}
<1>11. Bad = {}
  <2>1. SUFFICES ASSUME Bad # {} PROVE FALSE
    OBVIOUS
  <2>2. PICK m \in Bad : \A k \in Bad : m <= k
    <3>1. Bad \subseteq Nat
      OBVIOUS
    <3> HIDE DEF Bad
    <3> QED
      BY <2>1, <3>1, SmallestMember
  <2>3. m \in 0..L /\ ~(\E p : SpellsOut(Later(m), There(m), p))
    BY <2>2
  <2>4. m # 0
    <3>1. f[n] = <<>>
      BY <1>2, <1>10
    <3>2. (L + 1) - 0 = L + 1 /\ SubSeq(t, L + 1, L) = <<>>
      BY <1>2 DEF L
    <3>3. Later(0) = <<>> /\ There(0).bytes = <<>>
      BY <1>2, <3>1, <3>2
    <3> HIDE DEF Later, There
    <3>4. \E p : SpellsOut(Later(0), There(0), p)
      BY <3>3, NoCharacter
    <3> QED
      BY <2>3, <3>4
  <2> DEFINE i == (L + 1) - m
  <2>5. i \in 1..L /\ i + 1 = (L + 1) - (m - 1) /\ m - 1 \in 0..L /\ m - 1 \in Nat
    BY <1>2, <2>3, <2>4
  <2>6. f[pos[i]] = Written(t[i], Enc) \o f[pos[i + 1]]
    <3>1. pos[i] \in 0..(n + 4) /\ ~(pos[i] >= n)
      BY <1>2, <1>5, <2>5
    <3> HIDE DEF i
    <3>2. pos[i + 1] = pos[i] + size(pos[i]) /\ out(pos[i]) = Written(t[i], Enc)
      BY <1>4, <2>5
    <3> QED
      BY <1>10, <3>1, <3>2
  <2>7. \E p : SpellsOut(Later(m - 1), There(m - 1), p)
    <3>1. m - 1 \notin Bad
      BY <2>2, <2>3
    <3> HIDE DEF Later, There
    <3> QED
      BY <2>5, <3>1
  <2>8. Later(m) = <<t[i]>> \o Later(m - 1)
    <3>1. Later(m) = SubSeq(t, i, L) /\ Later(m - 1) = SubSeq(t, i + 1, L)
      BY <2>5
    <3> HIDE DEF i, Later
    <3>2. SubSeq(t, i, L) = <<t[i]>> \o SubSeq(t, i + 1, L)
      BY <1>2, <2>5 DEF L
    <3> QED
      BY <3>1, <3>2
  <2>9. There(m).Enc = Enc /\ There(m - 1).Enc = Enc
    OBVIOUS
  <2>10. There(m).bytes = Written(t[i], Enc) \o There(m - 1).bytes
    BY <2>5, <2>6
  <2> HIDE DEF Later, There
  <2> DEFINE First == [Enc |-> Enc, bytes |-> Written(t[i], Enc)]
  <2>11. First.Enc = Enc /\ First.bytes = Written(t[i], Enc)
    OBVIOUS
  <2> HIDE DEF First, i
  <2>12. Encodable(t[i], Enc)
    BY <1>6, <2>5
  <2>13. \E p : SpellsOut(<<t[i]>>, First, p)
    BY <2>11, <2>12, OneCharacter
  <2>14. \E p : SpellsOut(<<t[i]>> \o Later(m - 1), There(m), p)
    <3>1. PICK p1 : SpellsOut(<<t[i]>>, First, p1)
      BY <2>13
    <3>2. PICK p2 : SpellsOut(Later(m - 1), There(m - 1), p2)
      BY <2>7
    <3>3. There(m).bytes = First.bytes \o There(m - 1).bytes
      BY <2>10, <2>11
    <3> QED
      BY <2>9, <2>11, <3>1, <3>2, <3>3, TextsJoined
  <2> QED
    BY <2>3, <2>8, <2>14
<1>12. \E p : SpellsOut(Later(L), There(L), p)
  <2>1. L \in Nat /\ L \in 0..L
    BY <1>2
  <2> HIDE DEF Later, There
  <2> QED
    BY <1>11, <2>1
<1>13. Later(L) = t /\ There(L).bytes = f[0] /\ There(L).Enc = Enc
  <2>1. (L + 1) - L = 1 /\ SubSeq(t, 1, L) = t
    BY <1>2 DEF L
  <2> QED
    BY <1>2, <2>1
<1> HIDE DEF Later, There
<1>14. There(L).bytes = B.bytes /\ There(L).Enc = B.Enc
  BY <1>1, <1>13
<1>15. PICK p : SpellsOut(t, There(L), p)
  BY <1>12, <1>13
<1>16. SpellsOut(t, B, p)
  BY <1>14, <1>15, ZenonT(60) DEF SpellsOut, LiesAt
<1> QED
  BY <1>16

(* Transcode writes all of a text behind what the destination holds, or it
   answers false and leaves the destination as it was; it never writes part. *)
THEOREM TranscodeWhole ==
    ASSUME NEW Text, Text.Enc \in Encodings, NEW t, NEW pos, SpellsOut(t, Text, pos),
           NEW bytes, NEW size \in Nat, NEW Enc \in Encodings,
           \A i \in 1..Len(t) : Encodable(t[i], Enc),
           NEW t0, NEW pos0, SpellsOut(t0, String(bytes, size, Enc), pos0)
    PROVE  LET D == String(bytes, size, Enc)
               E == Transcode(Text, D)
           IN  \/ /\ \E p : SpellsOut(t0 \o t, E, p)
                  /\ E.Size = size /\ E.Enc = Enc /\ Len(E.bytes) <= size
               \/ E = D /\ \E B, p : /\ SpellsOut(t, [bytes |-> B, Enc |-> Enc], p)
                                     /\ Len(bytes) + Len(B) > size
<1> DEFINE D == String(bytes, size, Enc)
           E == Transcode(Text, D)
           B == Transcoded(Text, Enc)
           W == [bytes |-> B, Enc |-> Enc]
<1>1. W.bytes = B /\ W.Enc = Enc /\ D.bytes = bytes /\ D.Size = size /\ D.Enc = Enc
  BY DEF String
<1>2. PICK p : SpellsOut(t, W, p)
  <2> HIDE DEF W
  <2> QED
    BY <1>1, TranscodedSpells DEF B
<1>3. bytes \in Seq(0..255) /\ B \in Seq(0..255)
  <2>1. SpellsOut(t0, D, pos0)
    OBVIOUS
  <2> HIDE DEF W, D, B
  <2> QED
    BY <1>1, <1>2, <2>1 DEF SpellsOut
<1> HIDE DEF B, W
<1>4. CASE Len(bytes) + Len(B) <= size
  <2>1. E = [D EXCEPT !.bytes = bytes \o B]
    BY <1>1, <1>4 DEF Transcode, B
  <2>2. E.bytes = bytes \o B /\ E.Size = size /\ E.Enc = Enc
    BY <2>1 DEF String
  <2>3. SpellsOut(t0, D, pos0)
    OBVIOUS
  <2> HIDE DEF D, E
  <2>4. E.bytes = D.bytes \o W.bytes
    BY <1>1, <2>2
  <2>5. \E q : SpellsOut(t0 \o t, E, q)
    BY <1>1, <1>2, <2>2, <2>3, <2>4, TextsJoined
  <2>6. Len(E.bytes) <= size
    BY <1>3, <1>4, <2>2
  <2> QED
    BY <2>2, <2>5, <2>6 DEF D, E
<1>5. CASE ~(Len(bytes) + Len(B) <= size)
  <2>1. E = D
    BY <1>1, <1>5 DEF Transcode, B
  <2>2. Len(bytes) + Len(B) > size
    BY <1>3, <1>5
  <2> QED
    BY <1>2, <2>1, <2>2 DEF W
<1> QED
  BY <1>4, <1>5
=============================================================================
