---------------------------- MODULE NumberLemmas ----------------------------
(***************************************************************************)
(* Facts about natural numbers and finite sets that the proofs share: the  *)
(* least number principle, and the remainders that cursors are reduced to; *)
(* and about parts and beginnings of sequences.                            *)
(***************************************************************************)
EXTENDS Integers, FiniteSetTheorems, SequenceTheorems, WellFoundedInduction, TLAPS

(* Every set of natural numbers that is not empty has a smallest member.    *)
LEMMA SmallestMember ==
    ASSUME NEW T, T \subseteq Nat, T # {}
    PROVE  \E x \in T : \A y \in T : x <= y
<1>1. PICK x \in T : \A y \in T : <<y, x>> \notin OpToRel(<, Nat)
  BY WFMin, NatLessThanWellFounded, Zenon
<1>2. x \in Nat /\ \A y \in T : y \in Nat /\ ~(y < x)
  BY <1>1, Zenon DEF OpToRel
<1>3. \A y \in T : x <= y
  BY <1>2, SMT
<1>4. QED
  BY <1>1, <1>3

(* What a loop has at its start, and keeps in each round, it has at last.   *)
LEMMA Rounds ==
    ASSUME NEW n \in Nat, NEW T, 0 \in T, \A i \in 1..n : i - 1 \in T => i \in T
    PROVE  \A i \in 0..n : i \in T
<1> DEFINE Bad == {i \in 0..n : i \notin T}
<1>1. SUFFICES ASSUME Bad # {} PROVE FALSE
  OBVIOUS
<1>2. PICK m \in Bad : \A k \in Bad : m <= k
  <2> Bad \subseteq Nat
    OBVIOUS
  <2> HIDE DEF Bad
  <2> QED
    BY <1>1, SmallestMember
<1>3. m # 0 /\ m \in 1..n /\ m - 1 \in 0..n
  BY <1>2
<1>4. m - 1 \in T
  BY <1>2, <1>3
<1> QED
  BY <1>2, <1>3, <1>4

(* The image of a finite set is finite and no larger.                       *)
LEMMA ImageBound ==
    ASSUME NEW S, IsFiniteSet(S), NEW g
    PROVE  /\ IsFiniteSet({g[x] : x \in S})
           /\ Cardinality({g[x] : x \in S}) <= Cardinality(S)
           /\ Cardinality({g[x] : x \in S}) \in Nat
<1> DEFINE T == {g[x] : x \in S}
           h == [x \in S |-> g[x]]
<1>1. h \in Surjection(S, T)
  BY DEF Surjection
<1>2. IsFiniteSet(T) /\ Cardinality(T) <= Cardinality(S)
  BY <1>1, FS_Surjection
<1>3. QED
  BY <1>2, FS_CardinalityType

-----------------------------------------------------------------------------
(* Remainders.                                                              *)

(* Division with remainder.                                                 *)
LEMMA Division ==
    ASSUME NEW N \in Nat \ {0}, NEW x \in Nat
    PROVE  x \div N \in Int /\ x % N \in 0..(N - 1) /\ x = N * (x \div N) + (x % N)
OBVIOUS

(* Division with remainder has one remainder.                               *)
LEMMA RemainderUnique ==
    ASSUME NEW N \in Nat \ {0}, NEW a \in Nat, NEW q \in Int, NEW r \in 0..(N - 1), a = N * q + r
    PROVE  a % N = r
OBVIOUS

(* Going on by less than a whole turn.                                      *)
LEMMA RemainderOffset ==
    ASSUME NEW N \in Nat \ {0}, NEW x \in Nat, NEW k \in 0..N
    PROVE  (x + k) % N = IF (x % N) + k < N THEN (x % N) + k ELSE (x % N) + k - N
<1> DEFINE q == x \div N
           r == x % N
<1>1. q \in Int /\ r \in 0..(N - 1) /\ x = N * q + r
  BY Division
<1> HIDE DEF q, r
<1>2. CASE r + k < N
  <2>1. x + k = N * q + (r + k) /\ r + k \in 0..(N - 1) /\ x + k \in Nat
    BY <1>1, <1>2
  <2>2. (x + k) % N = r + k
    BY <1>1, <2>1, RemainderUnique
  <2>3. QED
    BY <1>2, <2>2 DEF r
<1>3. CASE ~(r + k < N)
  <2>1. N * (q + 1) = N * q + N
    BY <1>1
  <2>2. x + k = N * (q + 1) + (r + k - N) /\ r + k - N \in 0..(N - 1) /\ x + k \in Nat /\ q + 1 \in Int
    BY <1>1, <1>3, <2>1
  <2>3. (x + k) % N = r + k - N
    BY <1>1, <2>2, RemainderUnique
  <2>4. QED
    BY <1>3, <2>3 DEF r
<1>4. QED
  BY <1>2, <1>3

(* A remainder modulo a multiple of N loses nothing modulo N.               *)
LEMMA RemainderOfRemainder ==
    ASSUME NEW N \in Nat \ {0}, NEW m \in Nat \ {0}, NEW x \in Nat
    PROVE  (x % (N * m)) % N = x % N
<1> DEFINE M == N * m
           y == x % M
           b == x \div M
           q == y \div N
           r == y % N
<1>1. M \in Nat \ {0}
  OBVIOUS
<1>2. b \in Int /\ y \in Nat /\ x = M * b + y
  <2> HIDE DEF M
  <2>1. x \div M \in Int /\ x % M \in 0..(M - 1) /\ x = M * (x \div M) + (x % M)
    BY <1>1, Division
  <2>2. QED
    BY <1>1, <2>1
<1>3. q \in Int /\ r \in 0..(N - 1) /\ y = N * q + r
  BY <1>2, Division
<1>4. M * b = N * (m * b)
  <2>1. \A u, v, w \in Int : (u * v) * w = u * (v * w)
    OBVIOUS
  <2> HIDE DEF b
  <2>2. QED
    BY <1>2, <2>1
<1>5. m * b + q \in Int /\ x = N * (m * b + q) + r
  <2>1. \A u, v, w \in Int : u * (v + w) = u * v + u * w
    OBVIOUS
  <2>2. m * b \in Int
    BY <1>2
  <2> HIDE DEF M, b, q, r, y
  <2>3. QED
    BY <1>2, <1>3, <1>4, <2>1, <2>2
<1>6. x % N = r
  <2> HIDE DEF M, b, q, r, y
  <2>1. QED
    BY <1>3, <1>5, RemainderUnique
<1>7. QED
  BY <1>6

(* A window of at most N cursors takes as many slots.                       *)
LEMMA WindowCount ==
    ASSUME NEW N \in Nat \ {0}, NEW first \in Nat, NEW n \in 0..N
    PROVE  /\ Cardinality({(first + k) % N : k \in 0..(n - 1)}) = n
           /\ \A k, l \in 0..(N - 1) : (first + k) % N = (first + l) % N => k = l
<1> DEFINE S == {(first + k) % N : k \in 0..(n - 1)}
           f == [k \in 1..n |-> (first + (k - 1)) % N]
<1>1. ASSUME NEW k \in 0..(N - 1), NEW l \in 0..(N - 1), (first + k) % N = (first + l) % N
      PROVE  k = l
  <2>1. first % N \in 0..(N - 1)
    OBVIOUS
  <2>2. /\ (first + k) % N = IF (first % N) + k < N THEN (first % N) + k
                             ELSE (first % N) + k - N
        /\ (first + l) % N = IF (first % N) + l < N THEN (first % N) + l
                             ELSE (first % N) + l - N
    <3>1. k \in 0..N /\ l \in 0..N
      OBVIOUS
    <3>2. QED
      BY <3>1, RemainderOffset
  <2>3. QED
    BY <1>1, <2>1, <2>2
<1>2. f \in Bijection(1..n, S)
  <2>1. \A k \in 1..n : k - 1 \in 0..(n - 1) /\ k - 1 \in 0..(N - 1)
    OBVIOUS
  <2>2. f \in [1..n -> S]
    BY <2>1
  <2>3. \A k, l \in 1..n : f[k] = f[l] => k = l
    <3>1. \A k, l \in 1..n : f[k] = f[l] => k - 1 = l - 1
      BY <1>1, <2>1
    <3>2. QED
      BY <3>1
  <2>4. \A s \in S : \E k \in 1..n : f[k] = s
    <3>1. SUFFICES ASSUME NEW j \in 0..(n - 1)
                   PROVE  \E k \in 1..n : f[k] = (first + j) % N
      OBVIOUS
    <3>2. j + 1 \in 1..n /\ (j + 1) - 1 = j
      OBVIOUS
    <3>3. f[j + 1] = (first + j) % N
      BY <3>2
    <3>4. QED
      BY <3>2, <3>3
  <2> HIDE DEF f, S
  <2>5. QED
    BY <2>2, <2>3, <2>4 DEF Bijection, Injection, Surjection, IsInjective
<1>3. Cardinality(S) = n
  <2> HIDE DEF f, S
  <2>1. QED
    BY <1>2, FS_CountingElements DEF ExistsBijection
<1>4. QED
  BY <1>1, <1>3

-----------------------------------------------------------------------------
(* Loops.  A loop over the positions D is written as a recursive function:
   it stops at a position of Stop with the answer val there, and else goes on
   at the position next, which is nearer to the end.                        *)

\* rank counts, down from top, how far a position is from the end.
IsLoop(D, Stop, next, rank, top) ==
    /\ top \in Nat
    /\ \A i \in D : rank[i] \in 0..top
    /\ \A i \in D : i \in Stop \/ (next[i] \in D /\ rank[next[i]] < rank[i])

\* g is the function so defined.
Runs(g, D, Stop, val, next) ==
    /\ g = [i \in D |-> g[i]]
    /\ \A i \in D : g[i] = IF i \in Stop THEN val[i] ELSE g[next[i]]

(* Such a function exists, by adding the positions in the order of their
   distance from the end.                                                   *)
LEMMA LoopDefined ==
    ASSUME NEW D, NEW Stop, NEW val, NEW next, NEW rank, NEW top,
           IsLoop(D, Stop, next, rank, top)
    PROVE  \E g : Runs(g, D, Stop, val, next)
<1> USE DEF IsLoop, Runs
<1> DEFINE Near(m) == {i \in D : rank[i] < m}
           Fits(m, g) == g = [i \in Near(m) |-> IF i \in Stop THEN val[i] ELSE g[next[i]]]
           Bad == {m \in Nat : \A g : ~Fits(m, g)}
<1>1. Bad = {}
  <2>1. SUFFICES ASSUME Bad # {} PROVE FALSE
    OBVIOUS
  <2>2. PICK m \in Bad : \A k \in Bad : m <= k
    <3> Bad \subseteq Nat
      OBVIOUS
    <3> HIDE DEF Bad
    <3> QED
      BY <2>1, SmallestMember
  <2>3. m \in Nat /\ \A g : ~Fits(m, g)
    BY <2>2
  <2>4. CASE m = 0
    <3>1. Near(0) = {}
      OBVIOUS
    <3>2. Fits(0, [i \in {} |-> 0])
      BY <3>1
    <3> QED
      BY <2>3, <2>4, <3>2
  <2>5. CASE m # 0
    <3>1. m - 1 \in Nat /\ ~(m <= m - 1)
      BY <2>3, <2>5
    <3>2. PICK g : Fits(m - 1, g)
      <4>1. m - 1 \notin Bad
        BY <2>2, <3>1
      <4> QED
        BY <3>1, <4>1
    <3> DEFINE h == [i \in Near(m) |-> IF i \in Stop THEN val[i] ELSE g[next[i]]]
    <3>3. \A i \in Near(m - 1) : h[i] = g[i]
      <4>1. Near(m - 1) \subseteq Near(m)
        BY <2>3, <3>1
      <4>2. \A i \in Near(m - 1) : g[i] = IF i \in Stop THEN val[i] ELSE g[next[i]]
        BY <3>2
      <4> QED
        BY <4>1, <4>2
    <3>4. \A i \in Near(m) : i \notin Stop => next[i] \in Near(m - 1)
      BY <2>3, <3>1
    <3>5. Fits(m, h)
      <4> HIDE DEF Near
      <4>1. \A i \in Near(m) : i \notin Stop => h[next[i]] = g[next[i]]
        <5> HIDE DEF h
        <5> QED
          BY <3>3, <3>4
      <4> QED
        BY <4>1
    <3> QED
      <4> HIDE DEF Fits, h
      <4> QED
        BY <2>3, <3>5
  <2> QED
    BY <2>4, <2>5
<1>2. top + 1 \in Nat /\ Near(top + 1) = D
  OBVIOUS
<1>3. \E g : Fits(top + 1, g)
  <2> HIDE DEF Fits
  <2> QED
    BY <1>1, <1>2
<1>4. PICK g : Fits(top + 1, g)
  BY <1>3
<1>5. g = [i \in D |-> IF i \in Stop THEN val[i] ELSE g[next[i]]]
  BY <1>2, <1>4
<1> QED
  BY <1>5

(* What holds of every answer given at once, and is handed down from a
   position to the one before it, holds of the answer from every position.  *)
LEMMA LoopInduction ==
    ASSUME NEW D, NEW Stop, NEW val, NEW next, NEW rank, NEW top, NEW g, NEW Good,
           IsLoop(D, Stop, next, rank, top), Runs(g, D, Stop, val, next),
           \A i \in D : i \in Stop => val[i] \in Good[i],
           \A i \in D : i \notin Stop => Good[next[i]] \subseteq Good[i]
    PROVE  \A i \in D : g[i] \in Good[i]
<1> USE DEF IsLoop, Runs
<1> DEFINE Bad == {m \in Nat : \E i \in D : rank[i] = m /\ g[i] \notin Good[i]}
<1>1. SUFFICES ASSUME NEW j \in D, g[j] \notin Good[j] PROVE FALSE
  OBVIOUS
<1>2. Bad \subseteq Nat /\ Bad # {}
  <2>1. rank[j] \in Bad
    BY <1>1
  <2> QED
    BY <2>1
<1>3. PICK m \in Bad : \A k \in Bad : m <= k
  <2> HIDE DEF Bad
  <2> QED
    BY <1>2, SmallestMember
<1>4. PICK i \in D : g[i] \notin Good[i] /\ rank[i] = m
  BY <1>3
<1>5. g[i] = IF i \in Stop THEN val[i] ELSE g[next[i]]
  OBVIOUS
<1>6. i \notin Stop
  BY <1>4, <1>5
<1>7. next[i] \in D /\ rank[next[i]] < rank[i] /\ g[next[i]] \notin Good[next[i]]
  BY <1>4, <1>5, <1>6
<1>8. rank[next[i]] \in Bad
  BY <1>7
<1>9. m <= rank[next[i]]
  BY <1>3, <1>8
<1> QED
  BY <1>4, <1>7, <1>9

-----------------------------------------------------------------------------
(* Sequences.                                                               *)

(* A part of a sequence.                                                    *)
LEMMA PartOf ==
    ASSUME NEW S, NEW s \in Seq(S), NEW a \in Int, NEW b \in Int,
           1 <= a, a <= b + 1, b <= Len(s)
    PROVE  /\ SubSeq(s, a, b) \in Seq(S)
           /\ Len(SubSeq(s, a, b)) = b - a + 1
           /\ \A i \in 1..(b - a + 1) : SubSeq(s, a, b)[i] = s[a + i - 1]
<1>1. \A i \in a..b : s[i] \in S
  <2>1. \A i \in a..b : i \in 1..Len(s)
    BY LenProperties
  <2> QED
    BY <2>1, ElementOfSeq
<1>2. /\ SubSeq(s, a, b) \in Seq(S)
      /\ Len(SubSeq(s, a, b)) = IF a <= b THEN b - a + 1 ELSE 0
      /\ \A i \in 1..(b - a + 1) : SubSeq(s, a, b)[i] = s[a + i - 1]
  BY <1>1, SubSeqProperties
<1> QED
  BY <1>2

(* The beginning of a sequence.                                             *)
LEMMA Beginning ==
    ASSUME NEW S, NEW s \in Seq(S), NEW n \in 0..Len(s)
    PROVE  /\ SubSeq(s, 1, n) \in Seq(S)
           /\ Len(SubSeq(s, 1, n)) = n
           /\ \A i \in 1..n : SubSeq(s, 1, n)[i] = s[i]
<1>1. n \in Nat /\ n <= Len(s)
  BY LenProperties
<1>2. /\ SubSeq(s, 1, n) \in Seq(S)
      /\ Len(SubSeq(s, 1, n)) = n - 1 + 1
      /\ \A i \in 1..(n - 1 + 1) : SubSeq(s, 1, n)[i] = s[1 + i - 1]
  BY <1>1, PartOf
<1>3. n - 1 + 1 = n /\ \A i \in 1..n : 1 + i - 1 = i
  BY <1>1
<1> QED
  BY <1>2, <1>3

(* One text after another.                                                  *)
LEMMA Joined ==
    ASSUME NEW S, NEW s \in Seq(S), NEW t \in Seq(S)
    PROVE  /\ s \o t \in Seq(S)
           /\ Len(s \o t) = Len(s) + Len(t)
           /\ \A i \in 1..Len(s) : (s \o t)[i] = s[i]
           /\ \A i \in 1..Len(t) : (s \o t)[Len(s) + i] = t[i]
<1>1. Len(s) \in Nat /\ Len(t) \in Nat
  BY LenProperties
<1>2. /\ s \o t \in Seq(S)
      /\ Len(s \o t) = Len(s) + Len(t)
      /\ \A i \in 1..(Len(s) + Len(t)) : (s \o t)[i] = IF i <= Len(s) THEN s[i] ELSE t[i - Len(s)]
  BY ConcatProperties
<1>3. \A i \in 1..Len(s) : i \in 1..(Len(s) + Len(t)) /\ i <= Len(s)
  BY <1>1
<1>4. \A i \in 1..Len(t) : /\ Len(s) + i \in 1..(Len(s) + Len(t)) /\ ~(Len(s) + i <= Len(s))
                           /\ Len(s) + i - Len(s) = i
  BY <1>1
<1> QED
  BY <1>2, <1>3, <1>4

(* The beginning of a longer sequence                                       *)
LEMMA FrontOf ==
    ASSUME NEW S, NEW a \in Seq(S), NEW y \in S
    PROVE  /\ Append(a, y) \in Seq(S) /\ Len(Append(a, y)) = Len(a) + 1 /\ Len(a) \in Nat
           /\ SubSeq(a, 1, Len(a)) = a
           /\ \A m \in 0..Len(a) : SubSeq(Append(a, y), 1, m) = SubSeq(a, 1, m)
<1> DEFINE b == Append(a, y)
<1>1. /\ b \in Seq(S) /\ Len(b) = Len(a) + 1 /\ \A i \in 1..Len(a) : b[i] = a[i]
      /\ Len(a) \in Nat
  BY AppendProperties, LenProperties
<1> HIDE DEF b
<1>2. ASSUME NEW m \in 0..Len(a) PROVE SubSeq(b, 1, m) = SubSeq(a, 1, m)
  <2>1. m \in 0..Len(b) /\ \A i \in 1..m : i \in 1..Len(a)
    BY <1>1
  <2>2. /\ SubSeq(b, 1, m) \in Seq(S) /\ Len(SubSeq(b, 1, m)) = m
        /\ \A i \in 1..m : SubSeq(b, 1, m)[i] = b[i]
    BY <1>1, <2>1, Beginning
  <2>3. /\ SubSeq(a, 1, m) \in Seq(S) /\ Len(SubSeq(a, 1, m)) = m
        /\ \A i \in 1..m : SubSeq(a, 1, m)[i] = a[i]
    BY Beginning
  <2> QED
    BY <1>1, <2>1, <2>2, <2>3, SeqEqual
<1>3. SubSeq(a, 1, Len(a)) = a
  <2> DEFINE n == Len(a)
  <2>1. n \in 0..Len(a)
    BY <1>1
  <2> HIDE DEF n
  <2>2. /\ SubSeq(a, 1, n) \in Seq(S) /\ Len(SubSeq(a, 1, n)) = n
        /\ \A i \in 1..n : SubSeq(a, 1, n)[i] = a[i]
    BY <2>1, Beginning
  <2>3. SubSeq(a, 1, n) = a
    BY <2>2, SeqEqual DEF n
  <2> QED
    BY <2>3 DEF n
<1> QED
  BY <1>1, <1>2, <1>3 DEF b

\* p are the first members of q.
Begin(p, q) == Len(p) <= Len(q) /\ p = SubSeq(q, 1, Len(p))

(* What it is to begin.                                                     *)
LEMMA BeginFact ==
    ASSUME NEW S, NEW q \in Seq(S)
    PROVE  /\ Begin(q, q) /\ Begin(<<>>, q)
           /\ \A y \in S : Begin(q, Append(q, y))
           /\ \A p \in Seq(S) : Begin(p, q) <=> Len(p) <= Len(q) /\ \A i \in 1..Len(p) : p[i] = q[i]
<1>1. Len(q) \in Nat
  BY LenProperties
<1>2. SubSeq(q, 1, Len(q)) = q
  <2> DEFINE n == Len(q)
  <2>1. n \in 0..Len(q)
    BY <1>1
  <2> HIDE DEF n
  <2>2. /\ SubSeq(q, 1, n) \in Seq(S) /\ Len(SubSeq(q, 1, n)) = n
        /\ \A i \in 1..n : SubSeq(q, 1, n)[i] = q[i]
    BY <2>1, Beginning
  <2>3. SubSeq(q, 1, n) = q
    BY <2>2, SeqEqual DEF n
  <2> QED
    BY <2>3 DEF n
<1>3. Begin(q, q)
  BY <1>1, <1>2 DEF Begin
<1>4. Begin(<<>>, q)
  <2>1. Len(<<>>) = 0
    BY EmptySeq
  <2>2. SubSeq(q, 1, 0) = <<>>
    BY SubSeqEmpty
  <2> QED
    BY <1>1, <2>1, <2>2 DEF Begin
<1>5. ASSUME NEW y \in S PROVE Begin(q, Append(q, y))
  <2>1. Len(Append(q, y)) = Len(q) + 1 /\ \A m \in 0..Len(q) : SubSeq(Append(q, y), 1, m) = SubSeq(q, 1, m)
    BY FrontOf
  <2>2. Len(q) \in 0..Len(q)
    BY <1>1
  <2> QED
    BY <1>1, <1>2, <2>1, <2>2 DEF Begin
<1>6. ASSUME NEW p \in Seq(S)
      PROVE  Begin(p, q) <=> Len(p) <= Len(q) /\ \A i \in 1..Len(p) : p[i] = q[i]
  <2> SUFFICES ASSUME Len(p) <= Len(q)
               PROVE  p = SubSeq(q, 1, Len(p)) <=> \A i \in 1..Len(p) : p[i] = q[i]
    BY DEF Begin
  <2> DEFINE n == Len(p)
             t == SubSeq(q, 1, n)
  <2>1. n \in 0..Len(q)
    BY <1>1, LenProperties
  <2> HIDE DEF n
  <2>2. t \in Seq(S) /\ Len(t) = n /\ \A i \in 1..n : t[i] = q[i]
    BY <2>1, Beginning
  <2> HIDE DEF t
  <2>3. ASSUME \A i \in 1..n : p[i] = q[i] PROVE p = t
    BY <2>2, <2>3, SeqEqual DEF n
  <2>4. p = t <=> \A i \in 1..n : p[i] = q[i]
    BY <2>2, <2>3
  <2> QED
    BY <2>4 DEF n, t
<1> QED
  BY <1>3, <1>4, <1>5, <1>6

(* Beginning is transitive.                                                 *)
LEMMA BeginTransitive ==
    ASSUME NEW S, NEW p \in Seq(S), NEW q \in Seq(S), NEW r \in Seq(S), Begin(p, q), Begin(q, r)
    PROVE  Begin(p, r)
<1>1. Len(p) \in Nat /\ Len(q) \in Nat /\ Len(r) \in Nat
  BY LenProperties
<1>2. Len(p) <= Len(q) /\ \A i \in 1..Len(p) : p[i] = q[i]
  BY BeginFact
<1>3. Len(q) <= Len(r) /\ \A i \in 1..Len(q) : q[i] = r[i]
  BY BeginFact
<1>4. Len(p) <= Len(r) /\ \A i \in 1..Len(p) : p[i] = r[i] /\ i \in 1..Len(q)
  BY <1>1, <1>2, <1>3
<1> QED
  BY <1>4, BeginFact
=============================================================================
