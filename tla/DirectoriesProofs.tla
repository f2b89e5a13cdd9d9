------------------------- MODULE DirectoriesProofs -------------------------
(***************************************************************************)
(* What path editing leaves behind, and what MakeDir and RemoveDir do to   *)
(* the tree, for texts of any length and trees of any shape.               *)
(*                                                                         *)
(* The first part is about texts: where their parts begin and end, and     *)
(* where they lead.                                                        *)
(***************************************************************************)
EXTENDS Directories, NumberLemmas

Texts == Seq(Characters)

\* s is empty or ends with a slash.
Ended(s) == s = <<>> \/ s[Len(s)] = "/"

SlashFree(s) == \A i \in 1..Len(s) : s[i] # "/"

-----------------------------------------------------------------------------
(* Parts of a text.                                                         *)

(* The last slash is one, and none follows.                                 *)
LEMMA LastSlashFact ==
    ASSUME NEW s \in Texts
    PROVE  /\ LastSlash(s) \in 0..Len(s)
           /\ LastSlash(s) # 0 => s[LastSlash(s)] = "/"
           /\ \A i \in 1..Len(s) : i > LastSlash(s) => s[i] # "/"
<1> DEFINE S == {i \in DOMAIN s : s[i] = "/"} \cup {0}
<1>1. Len(s) \in Nat /\ DOMAIN s = 1..Len(s)
  BY LenProperties DEF Texts
<1>2. S \subseteq 0..Len(s) /\ 0 \in S
  BY <1>1
<1>3. \E m \in S : \A y \in S : m >= y
  <2> DEFINE D == {Len(s) - y : y \in S}
  <2>1. D \subseteq Nat /\ D # {}
    BY <1>1, <1>2
  <2>2. PICK d \in D : \A e \in D : d <= e
    <3> HIDE DEF D
    <3> QED
      BY <2>1, SmallestMember
  <2>3. PICK m \in S : d = Len(s) - m
    BY <2>2
  <2>4. \A y \in S : Len(s) - m <= Len(s) - y
    BY <2>2, <2>3
  <2> QED
    <3> HIDE DEF S
    <3> QED
      BY <1>1, <1>2, <2>3, <2>4
<1>4. Max(S) \in S /\ \A y \in S : Max(S) >= y
  <2> HIDE DEF S
  <2> QED
    BY <1>3, Zenon DEF Max
<1>5. LastSlash(s) = Max(S)
  BY DEF LastSlash
<1> DEFINE L == LastSlash(s)
<1>6. L \in S /\ \A y \in S : L >= y
  BY <1>4, <1>5
<1>7. \A i \in 1..Len(s) : s[i] = "/" => i \in S
  BY <1>1
<1>8. L \in 0..Len(s) /\ (L # 0 => s[L] = "/")
  <2> HIDE DEF L
  <2> QED
    BY <1>2, <1>6
<1>9. \A i \in 1..Len(s) : i > L => s[i] # "/"
  <2> HIDE DEF L, S
  <2> QED
    BY <1>1, <1>6, <1>7, <1>8
<1> QED
  BY <1>8, <1>9

(* It is the only such place.                                               *)
LEMMA LastSlashIs ==
    ASSUME NEW s \in Texts, NEW L \in 0..Len(s), L = 0 \/ s[L] = "/",
           \A i \in 1..Len(s) : i > L => s[i] # "/"
    PROVE  LastSlash(s) = L
<1>1. Len(s) \in Nat
  BY LenProperties DEF Texts
<1> DEFINE K == LastSlash(s)
<1>2. /\ K \in 0..Len(s) /\ (K # 0 => s[K] = "/")
      /\ \A i \in 1..Len(s) : i > K => s[i] # "/"
  BY LastSlashFact
<1>3. K = L
  <2> HIDE DEF K
  <2>1. ~(K > L)
    BY <1>1, <1>2
  <2>2. ~(L > K)
    BY <1>1, <1>2
  <2> QED
    BY <1>1, <1>2, <2>1, <2>2
<1> QED
  BY <1>3

(* What follows the last slash.                                             *)
LEMMA TailFact ==
    ASSUME NEW s \in Texts
    PROVE  /\ Tail0(s) \in Texts
           /\ Len(Tail0(s)) = Len(s) - LastSlash(s)
           /\ \A i \in 1..Len(Tail0(s)) : Tail0(s)[i] = s[LastSlash(s) + i]
           /\ SlashFree(Tail0(s))
<1> DEFINE L == LastSlash(s)
           T == SubSeq(s, L + 1, Len(s))
<1>1. Len(s) \in Nat
  BY LenProperties DEF Texts
<1>2. L \in 0..Len(s) /\ \A i \in 1..Len(s) : i > L => s[i] # "/"
  BY LastSlashFact
<1>3. Tail0(s) = T
  BY DEF Tail0
<1> HIDE DEF L
<1>4. /\ T \in Seq(Characters)
      /\ Len(T) = Len(s) - (L + 1) + 1
      /\ \A i \in 1..(Len(s) - (L + 1) + 1) : T[i] = s[L + 1 + i - 1]
  <2>1. L + 1 \in Int /\ Len(s) \in Int /\ 1 <= L + 1 /\ L + 1 <= Len(s) + 1 /\ Len(s) <= Len(s)
    BY <1>1, <1>2
  <2> DEFINE a == L + 1
  <2> HIDE DEF a
  <2>2. a \in Int /\ 1 <= a /\ a <= Len(s) + 1
    BY <2>1 DEF a
  <2>3. /\ SubSeq(s, a, Len(s)) \in Seq(Characters)
        /\ Len(SubSeq(s, a, Len(s))) = Len(s) - a + 1
        /\ \A i \in 1..(Len(s) - a + 1) : SubSeq(s, a, Len(s))[i] = s[a + i - 1]
    BY <2>1, <2>2, PartOf DEF Texts
  <2> QED
    BY <2>3 DEF a
<1>5. Len(s) - (L + 1) + 1 = Len(s) - L /\ \A i \in 1..(Len(s) - L) : L + 1 + i - 1 = L + i
  BY <1>1, <1>2
<1> HIDE DEF T
<1>6. Len(T) = Len(s) - L /\ \A i \in 1..Len(T) : T[i] = s[L + i]
  BY <1>4, <1>5
<1>7. \A i \in 1..Len(T) : L + i \in 1..Len(s) /\ L + i > L
  BY <1>1, <1>2, <1>6
<1>8. SlashFree(T)
  BY <1>2, <1>6, <1>7 DEF SlashFree
<1> QED
  BY <1>3, <1>4, <1>6, <1>8 DEF L, Texts

(* A text without slashes is one part.                                      *)
LEMMA TailOfPart ==
    ASSUME NEW s \in Texts, SlashFree(s)
    PROVE  LastSlash(s) = 0 /\ Tail0(s) = s
<1>1. Len(s) \in Nat
  BY LenProperties DEF Texts
<1>2. LastSlash(s) = 0
  BY <1>1, LastSlashIs DEF SlashFree
<1>3. Tail0(s) = SubSeq(s, 1, Len(s))
  BY <1>2 DEF Tail0
<1> QED
  BY <1>2, <1>3, SubSeqFull DEF Texts

(* The part at the end does not depend on what is before its slash.         *)
LEMMA TailBehind ==
    ASSUME NEW u \in Texts, NEW x \in Texts, Ended(u)
    PROVE  /\ Tail0(u \o x) = Tail0(x)
           /\ LastSlash(u \o x) = Len(u) + LastSlash(x)
<1> DEFINE t == u \o x
           L == LastSlash(x)
           n == Len(u)
<1>1. n \in Nat /\ Len(x) \in Nat
  BY LenProperties DEF Texts
<1>2. /\ t \in Texts /\ Len(t) = n + Len(x)
      /\ \A i \in 1..n : t[i] = u[i]
      /\ \A i \in 1..Len(x) : t[n + i] = x[i]
  BY Joined DEF Texts
<1>3. /\ L \in 0..Len(x) /\ (L # 0 => x[L] = "/")
      /\ \A i \in 1..Len(x) : i > L => x[i] # "/"
  BY LastSlashFact
<1>4. n = 0 \/ (n \in 1..n /\ u[n] = "/")
  BY <1>1, EmptySeq DEF Ended, Texts
<1> HIDE DEF t, L, n
<1>5. LastSlash(t) = n + L
  <2>1. n + L \in 0..Len(t)
    BY <1>1, <1>2, <1>3
  <2>2. n + L = 0 \/ t[n + L] = "/"
    <3>1. CASE L = 0
      BY <1>1, <1>2, <1>4, <3>1
    <3>2. CASE L # 0
      BY <1>1, <1>2, <1>3, <3>2
    <3> QED
      BY <3>1, <3>2
  <2>3. \A i \in 1..Len(t) : i > n + L => t[i] # "/"
    <3> SUFFICES ASSUME NEW i \in 1..Len(t), i > n + L PROVE t[i] # "/"
      OBVIOUS
    <3>1. i - n \in 1..Len(x) /\ i - n > L /\ n + (i - n) = i
      BY <1>1, <1>2, <1>3
    <3> QED
      BY <1>2, <1>3, <3>1
  <2> QED
    BY <1>2, <2>1, <2>2, <2>3, LastSlashIs
<1>6. Tail0(t) = Tail0(x)
  <2>1. /\ Tail0(t) \in Texts /\ Len(Tail0(t)) = Len(t) - (n + L)
        /\ \A i \in 1..Len(Tail0(t)) : Tail0(t)[i] = t[n + L + i]
    BY <1>2, <1>5, TailFact
  <2>2. /\ Tail0(x) \in Texts /\ Len(Tail0(x)) = Len(x) - L
        /\ \A i \in 1..Len(Tail0(x)) : Tail0(x)[i] = x[L + i]
    BY TailFact DEF L
  <2>3. Len(Tail0(t)) = Len(Tail0(x))
    BY <1>1, <1>2, <1>3, <2>1, <2>2
  <2>4. \A i \in 1..Len(Tail0(t)) : Tail0(t)[i] = Tail0(x)[i]
    <3> SUFFICES ASSUME NEW i \in 1..Len(Tail0(t)) PROVE Tail0(t)[i] = Tail0(x)[i]
      OBVIOUS
    <3>1. n + L + i = n + (L + i) /\ L + i \in 1..Len(x) /\ i \in 1..Len(Tail0(x))
      BY <1>1, <1>2, <1>3, <2>1, <2>2
    <3> QED
      BY <1>2, <2>1, <2>2, <3>1
  <2> QED
    BY <2>1, <2>2, <2>3, <2>4, SeqEqual DEF Texts
<1> QED
  BY <1>5, <1>6 DEF t, L, n

-----------------------------------------------------------------------------
(* Where a text leads.                                                      *)

(* The front of a sequence, and a name more, are of the same kind.          *)
LEMMA IntoType ==
    ASSUME NEW names \in Seq(Texts), NEW part \in Texts
    PROVE  Into(names, part) \in Seq(Texts)
<1>1. CASE names = <<>>
  <2>1. Front0(<<>>) = <<>>
    <3>1. Len(<<>>) = 0
      BY EmptySeq
    <3> QED
      BY <3>1, SubSeqEmpty DEF Front0
  <2> QED
    BY <1>1, <2>1, AppendProperties DEF Into
<1>2. CASE names # <<>>
  <2>1. Len(names) \in Nat \ {0}
    BY <1>2, EmptySeq
  <2>2. Front0(names) \in Seq(Texts)
    BY <2>1, Beginning DEF Front0
  <2> QED
    BY <2>2, AppendProperties DEF Into
<1> QED
  BY <1>1, <1>2

(* A part that ends at a slash, or at the end.                              *)
LEMMA PartEndingType ==
    ASSUME NEW s \in Texts, NEW i \in 1..(Len(s) + 1)
    PROVE  /\ PartEnding(s, i) \in Texts /\ SlashFree(PartEnding(s, i))
           /\ Len(PartEnding(s, i)) <= i - 1
<1>1. Len(s) \in Nat
  BY LenProperties DEF Texts
<1>2. i - 1 \in 0..Len(s)
  BY <1>1
<1> DEFINE t == SubSeq(s, 1, i - 1)
<1>3. t \in Texts /\ Len(t) = i - 1
  BY <1>2, Beginning DEF Texts
<1> HIDE DEF t
<1>4. /\ Tail0(t) \in Texts /\ SlashFree(Tail0(t)) /\ Len(Tail0(t)) = Len(t) - LastSlash(t)
      /\ LastSlash(t) \in 0..Len(t)
  BY <1>3, TailFact, LastSlashFact
<1>5. PartEnding(s, i) = Tail0(t)
  BY DEF PartEnding, t
<1> QED
  BY <1>2, <1>3, <1>4, <1>5

(* Entered is what its recursion says: a function for the first m characters
   exists for every m, by adding one at a time.                             *)
LEMMA EnteredIs ==
    ASSUME NEW s \in Texts
    PROVE  Entered(s) = [i \in 0..Len(s) |->
                           IF i = 0 THEN <<>>
                           ELSE IF s[i] # "/" THEN Entered(s)[i - 1]
                           ELSE Into(Entered(s)[i - 1], PartEnding(s, i))]
<1> DEFINE step(i, v) == IF s[i] # "/" THEN v ELSE Into(v, PartEnding(s, i))
           upTo(m, g) == g = [i \in 0..m |-> IF i = 0 THEN <<>> ELSE step(i, g[i - 1])]
           n == Len(s)
           T == {m \in 0..n : \E g : upTo(m, g)}
<1>1. n \in Nat
  BY LenProperties DEF Texts
<1>2. \E g : upTo(n, g)
  <2> HIDE DEF step, n
  <2>1. 0 \in T
    <3>1. upTo(0, [i \in 0..0 |-> <<>>])
      OBVIOUS
    <3> HIDE DEF upTo
    <3> QED
      BY <1>1, <3>1
  <2>2. \A m \in 1..n : m - 1 \in T => m \in T
    <3> SUFFICES ASSUME NEW m \in 1..n, m - 1 \in T PROVE m \in T
      OBVIOUS
    <3>1. PICK g : upTo(m - 1, g)
      OBVIOUS
    <3> DEFINE h == [i \in 0..m |-> IF i = 0 THEN <<>> ELSE step(i, g[i - 1])]
    <3>2. \A i \in 0..(m - 1) : h[i] = g[i]
      BY <1>1, <3>1
    <3>3. \A i \in 0..m : i # 0 => i - 1 \in 0..(m - 1)
      BY <1>1
    <3>4. h = [i \in 0..m |-> IF i = 0 THEN <<>> ELSE step(i, h[i - 1])]
      <4>1. \A i \in 0..m : i # 0 => h[i - 1] = g[i - 1]
        <5> HIDE DEF h
        <5> QED
          BY <3>2, <3>3
      <4> QED
        BY <4>1
    <3>5. upTo(m, h)
      <4> HIDE DEF h
      <4> QED
        BY <3>4
    <3> HIDE DEF upTo, h
    <3> QED
      BY <1>1, <3>5
  <2>3. \A m \in 0..n : m \in T
    <3> HIDE DEF T
    <3> QED
      BY <1>1, <2>1, <2>2, Rounds
  <2> HIDE DEF upTo
  <2> QED
    BY <1>1, <2>3
<1> DEFINE E == Entered(s)
<1>3. upTo(n, E)
  <2>1. E = CHOOSE g : g = [i \in 0..Len(s) |->
                           IF i = 0 THEN <<>>
                           ELSE IF s[i] # "/" THEN g[i - 1]
                           ELSE Into(g[i - 1], PartEnding(s, i))]
    BY DEF Entered
  <2>2. \E g : g = [i \in 0..Len(s) |->
                           IF i = 0 THEN <<>>
                           ELSE IF s[i] # "/" THEN g[i - 1]
                           ELSE Into(g[i - 1], PartEnding(s, i))]
    BY <1>2
  <2>3. E = [i \in 0..Len(s) |->
                           IF i = 0 THEN <<>>
                           ELSE IF s[i] # "/" THEN E[i - 1]
                           ELSE Into(E[i - 1], PartEnding(s, i))]
    <3> HIDE DEF E
    <3> QED
      BY <2>1, <2>2, Zenon
  <2> QED
    BY <2>3
<1> QED
  BY <1>3

(* Entered, character by character.                                         *)
LEMMA EnteredStep ==
    ASSUME NEW s \in Texts
    PROVE  /\ Entered(s)[0] = <<>>
           /\ \A i \in 1..Len(s) :
                 /\ s[i] # "/" => Entered(s)[i] = Entered(s)[i - 1]
                 /\ s[i] = "/" => Entered(s)[i] = Into(Entered(s)[i - 1], PartEnding(s, i))
<1> DEFINE E == Entered(s)
<1>1. E = [i \in 0..Len(s) |->
             IF i = 0 THEN <<>>
             ELSE IF s[i] # "/" THEN E[i - 1] ELSE Into(E[i - 1], PartEnding(s, i))]
  BY EnteredIs
<1>2. Len(s) \in Nat
  BY LenProperties DEF Texts
<1> HIDE DEF E
<1>3. E[0] = <<>>
  BY <1>1, <1>2
<1>4. \A i \in 1..Len(s) :
         E[i] = IF s[i] # "/" THEN E[i - 1] ELSE Into(E[i - 1], PartEnding(s, i))
  <2>1. \A i \in 1..Len(s) : i \in 0..Len(s) /\ i # 0
    BY <1>2
  <2> QED
    BY <1>1, <2>1
<1> QED
  BY <1>3, <1>4 DEF E

(* It is a sequence of names at every character, and so is Names.           *)
LEMMA NamesType ==
    ASSUME NEW s \in Texts
    PROVE  /\ \A i \in 0..Len(s) : Entered(s)[i] \in Seq(Texts)
           /\ Names(s) \in Seq(Texts)
<1> DEFINE n == Len(s)
           T == {i \in 0..n : Entered(s)[i] \in Seq(Texts)}
<1>1. n \in Nat
  BY LenProperties DEF Texts
<1>2. \A i \in 0..n : i \in T
  <2>1. 0 \in T
    <3>1. Entered(s)[0] \in Seq(Texts)
      BY EnteredStep, EmptySeq
    <3> QED
      BY <1>1, <3>1
  <2>2. \A i \in 1..n : i - 1 \in T => i \in T
    <3> SUFFICES ASSUME NEW i \in 1..n, Entered(s)[i - 1] \in Seq(Texts)
                 PROVE  Entered(s)[i] \in Seq(Texts)
      BY <1>1
    <3>1. PartEnding(s, i) \in Texts
      <4>1. i \in 1..(Len(s) + 1)
        BY <1>1
      <4> QED
        BY <4>1, PartEndingType
    <3>2. Into(Entered(s)[i - 1], PartEnding(s, i)) \in Seq(Texts)
      BY <3>1, IntoType
    <3> QED
      BY <3>2, EnteredStep
  <2> HIDE DEF T, n
  <2> QED
    BY <1>1, <2>1, <2>2, Rounds
<1>3. Entered(s)[n] \in Seq(Texts) /\ Tail0(s) \in Texts
  BY <1>1, <1>2, TailFact
<1> QED
  BY <1>2, <1>3, IntoType DEF Names

(* Where the text leads up to a character depends on what is before it.     *)
LEMMA EnteredPrefix ==
    ASSUME NEW s \in Texts, NEW t \in Texts, NEW n \in Nat, n <= Len(s), n <= Len(t),
           \A i \in 1..n : s[i] = t[i]
    PROVE  \A i \in 0..n : Entered(s)[i] = Entered(t)[i]
<1> DEFINE T == {i \in 0..n : Entered(s)[i] = Entered(t)[i]}
<1>1. Len(s) \in Nat /\ Len(t) \in Nat
  BY LenProperties DEF Texts
<1>2. 0 \in T
  BY EnteredStep
<1>3. \A i \in 1..n : i - 1 \in T => i \in T
  <2> SUFFICES ASSUME NEW i \in 1..n, Entered(s)[i - 1] = Entered(t)[i - 1]
               PROVE  Entered(s)[i] = Entered(t)[i]
    OBVIOUS
  <2>1. i \in 1..Len(s) /\ i \in 1..Len(t) /\ i - 1 \in 0..Len(s) /\ i - 1 \in 0..Len(t)
    BY <1>1
  <2> DEFINE u == SubSeq(s, 1, i - 1)
             v == SubSeq(t, 1, i - 1)
  <2>2. /\ u \in Texts /\ Len(u) = i - 1 /\ \A j \in 1..(i - 1) : u[j] = s[j]
        /\ v \in Texts /\ Len(v) = i - 1 /\ \A j \in 1..(i - 1) : v[j] = t[j]
    BY <2>1, Beginning DEF Texts
  <2>3. \A j \in 1..(i - 1) : j \in 1..n
    OBVIOUS
  <2>4. u = v
    <3> HIDE DEF u, v
    <3>1. Len(u) = Len(v) /\ \A j \in 1..Len(u) : u[j] = v[j]
      BY <2>2, <2>3
    <3> QED
      BY <2>2, <3>1, SeqEqual DEF Texts
  <2>5. PartEnding(s, i) = PartEnding(t, i)
    BY <2>4 DEF PartEnding
  <2>6. s[i] = t[i]
    OBVIOUS
  <2> QED
    BY <2>1, <2>5, <2>6, EnteredStep
<1> HIDE DEF T
<1>4. \A i \in 0..n : i \in T
  BY <1>2, <1>3, Rounds
<1> QED
  BY <1>4 DEF T

(* Between two slashes nothing is entered.                                  *)
LEMMA EnteredSkip ==
    ASSUME NEW s \in Texts, NEW k \in 0..Len(s), NEW j \in 0..Len(s), k <= j,
           \A i \in 1..Len(s) : k < i /\ i <= j => s[i] # "/"
    PROVE  Entered(s)[j] = Entered(s)[k]
<1> DEFINE n == j - k
           T == {i \in 0..n : Entered(s)[k + i] = Entered(s)[k]}
<1>1. Len(s) \in Nat
  BY LenProperties DEF Texts
<1>2. n \in Nat /\ k + n = j /\ k + 0 = k
  BY <1>1
<1>3. 0 \in T
  BY <1>2
<1>4. \A i \in 1..n : i - 1 \in T => i \in T
  <2> SUFFICES ASSUME NEW i \in 1..n, Entered(s)[k + (i - 1)] = Entered(s)[k]
               PROVE  Entered(s)[k + i] = Entered(s)[k]
    OBVIOUS
  <2>1. k + i \in 1..Len(s) /\ k < k + i /\ k + i <= j /\ k + i - 1 = k + (i - 1)
    BY <1>1, <1>2
  <2>2. s[k + i] # "/"
    BY <2>1
  <2>3. Entered(s)[k + i] = Entered(s)[k + i - 1]
    BY <2>1, <2>2, EnteredStep
  <2> QED
    BY <2>1, <2>3
<1>5. n \in 0..n
  BY <1>2
<1> HIDE DEF T, n
<1>6. \A i \in 0..n : i \in T
  BY <1>2, <1>3, <1>4, Rounds
<1>7. n \in T
  BY <1>5, <1>6
<1> QED
  BY <1>2, <1>7 DEF T

(* A text with no slash at its end: nothing is left to enter.               *)
LEMMA NamesEnded ==
    ASSUME NEW s \in Texts, Ended(s)
    PROVE  Names(s) = Entered(s)[Len(s)] /\ Tail0(s) = <<>>
<1>1. Len(s) \in Nat /\ (s # <<>> => Len(s) > 0) /\ Len(<<>>) = 0
  BY LenProperties, EmptySeq DEF Texts
<1>2. LastSlash(s) = Len(s)
  BY <1>1, LastSlashIs DEF Ended
<1>3. Tail0(s) \in Texts /\ Len(Tail0(s)) = 0
  BY <1>1, <1>2, TailFact
<1>4. Tail0(s) = <<>>
  BY <1>3, EmptySeq DEF Texts
<1> QED
  BY <1>4 DEF Names, Into

(* The beginning of a text after which another one comes.                   *)
LEMMA BeginningOfJoined ==
    ASSUME NEW u \in Texts, NEW x \in Texts, NEW i \in 0..Len(x)
    PROVE  SubSeq(u \o x, 1, Len(u) + i) = u \o SubSeq(x, 1, i)
<1> DEFINE t == u \o x
           y == SubSeq(x, 1, i)
           n == Len(u)
           l == SubSeq(t, 1, n + i)
           r == u \o y
<1>1. n \in Nat /\ Len(x) \in Nat
  BY LenProperties DEF Texts
<1>2. /\ t \in Texts /\ Len(t) = n + Len(x)
      /\ \A k \in 1..n : t[k] = u[k]
      /\ \A k \in 1..Len(x) : t[n + k] = x[k]
  BY Joined DEF Texts
<1>3. y \in Texts /\ Len(y) = i /\ \A k \in 1..i : y[k] = x[k]
  BY Beginning DEF Texts
<1> HIDE DEF y
<1>4. /\ r \in Texts /\ Len(r) = n + Len(y)
      /\ \A k \in 1..n : r[k] = u[k]
      /\ \A k \in 1..Len(y) : r[n + k] = y[k]
  <2>1. y \in Seq(Characters) /\ u \in Seq(Characters)
    BY <1>3 DEF Texts
  <2> QED
    BY <2>1, Joined DEF Texts
<1> HIDE DEF t, n
<1>5. n + i \in 0..Len(t)
  BY <1>1, <1>2
<1>6. l \in Texts /\ Len(l) = n + i /\ \A k \in 1..(n + i) : l[k] = t[k]
  BY <1>2, <1>5, Beginning DEF Texts
<1> HIDE DEF l, r
<1>7. \A k \in 1..(n + i) : l[k] = r[k]
  <2> SUFFICES ASSUME NEW k \in 1..(n + i) PROVE l[k] = r[k]
    OBVIOUS
  <2>1. CASE k \in 1..n
    BY <1>2, <1>4, <1>6, <2>1
  <2>2. CASE k \notin 1..n
    <3>1. k - n \in 1..i /\ k - n \in 1..Len(x) /\ n + (k - n) = k
      BY <1>1, <2>2
    <3>2. l[k] = x[k - n]
      BY <1>2, <1>6, <3>1
    <3>3. r[k] = y[k - n]
      BY <1>3, <1>4, <3>1
    <3> QED
      BY <1>3, <3>1, <3>2, <3>3
  <2> QED
    BY <2>1, <2>2
<1>8. l = r
  BY <1>3, <1>4, <1>6, <1>7, SeqEqual DEF Texts
<1> QED
  BY <1>8 DEF l, r, t, y, n

(* The parts of a text that comes behind a slash are its own.               *)
LEMMA PartEndingBehind ==
    ASSUME NEW u \in Texts, NEW x \in Texts, Ended(u), NEW i \in 1..(Len(x) + 1)
    PROVE  PartEnding(u \o x, Len(u) + i) = PartEnding(x, i)
<1>1. Len(u) \in Nat /\ Len(x) \in Nat
  BY LenProperties DEF Texts
<1>2. i - 1 \in 0..Len(x) /\ Len(u) + i - 1 = Len(u) + (i - 1)
  BY <1>1
<1> DEFINE y == SubSeq(x, 1, i - 1)
<1>3. SubSeq(u \o x, 1, Len(u) + (i - 1)) = u \o y
  BY <1>2, BeginningOfJoined
<1>4. y \in Texts
  BY <1>2, Beginning DEF Texts
<1> HIDE DEF y
<1>5. Tail0(u \o y) = Tail0(y)
  BY <1>4, TailBehind
<1>6. PartEnding(u \o x, Len(u) + i) = Tail0(u \o y)
  <2>1. PartEnding(u \o x, Len(u) + i) = Tail0(SubSeq(u \o x, 1, Len(u) + i - 1))
    BY DEF PartEnding
  <2> QED
    BY <1>2, <1>3, <2>1, Zenon
<1> QED
  BY <1>5, <1>6 DEF PartEnding, y

(* Where a text leads that comes behind another one.                        *)
LEMMA EnteredBehind ==
    ASSUME NEW u \in Texts, NEW x \in Texts, Ended(u)
    PROVE  /\ Entered(u \o x)[Len(u)] = Names(u)
           /\ \A i \in 1..Len(x) :
                 /\ x[i] # "/" => Entered(u \o x)[Len(u) + i] = Entered(u \o x)[Len(u) + (i - 1)]
                 /\ x[i] = "/" => Entered(u \o x)[Len(u) + i] =
                                  Into(Entered(u \o x)[Len(u) + (i - 1)], PartEnding(x, i))
           /\ Names(u \o x) = Into(Entered(u \o x)[Len(u) + Len(x)], Tail0(x))
<1> DEFINE t == u \o x
           n == Len(u)
<1>1. n \in Nat /\ Len(x) \in Nat
  BY LenProperties DEF Texts
<1>2. /\ t \in Texts /\ Len(t) = n + Len(x)
      /\ \A k \in 1..n : t[k] = u[k]
      /\ \A k \in 1..Len(x) : t[n + k] = x[k]
  BY Joined DEF Texts
<1>3. Entered(t)[n] = Names(u)
  <2> HIDE DEF t
  <2>1. n \in 0..n /\ n <= Len(t) /\ n <= Len(u)
    BY <1>1, <1>2
  <2>2. \A i \in 0..n : Entered(u)[i] = Entered(t)[i]
    <3> HIDE DEF n
    <3> QED
      BY <1>1, <1>2, <2>1, EnteredPrefix
  <2> QED
    BY <2>1, <2>2, NamesEnded
<1>4. ASSUME NEW i \in 1..Len(x)
      PROVE  /\ x[i] # "/" => Entered(t)[n + i] = Entered(t)[n + (i - 1)]
             /\ x[i] = "/" => Entered(t)[n + i] = Into(Entered(t)[n + (i - 1)], PartEnding(x, i))
  <2>1. n + i \in 1..Len(t) /\ n + i - 1 = n + (i - 1) /\ i \in 1..(Len(x) + 1)
    BY <1>1, <1>2
  <2>2. t[n + i] = x[i]
    BY <1>2
  <2>3. PartEnding(t, n + i) = PartEnding(x, i)
    BY <2>1, PartEndingBehind
  <2> HIDE DEF t, n
  <2> DEFINE k == n + i
  <2> HIDE DEF k
  <2>4. /\ t[k] # "/" => Entered(t)[k] = Entered(t)[k - 1]
        /\ t[k] = "/" => Entered(t)[k] = Into(Entered(t)[k - 1], PartEnding(t, k))
    BY <1>2, <2>1, EnteredStep DEF k
  <2>5. k - 1 = n + (i - 1)
    BY <1>1 DEF k
  <2>6. k = n + i
    BY DEF k
  <2> QED
    BY <2>2, <2>3, <2>4, <2>5, <2>6
<1>5. Names(t) = Into(Entered(t)[n + Len(x)], Tail0(x))
  BY <1>2, TailBehind DEF Names
<1> QED
  BY <1>3, <1>4, <1>5

(* The slash at the end leads nowhere else.                                 *)
LEMMA NamesSlash ==
    ASSUME NEW s \in Texts
    PROVE  Names(s \o <<"/">>) = Names(s) /\ Ended(s \o <<"/">>) /\ s \o <<"/">> \in Texts
<1> DEFINE sl == <<"/">>
           t == s \o sl
           n == Len(s)
<1>1. n \in Nat /\ sl \in Texts /\ Len(sl) = 1 /\ sl[1] = "/"
  <2>1. n \in Nat
    BY LenProperties DEF Texts
  <2>2. "/" \in Characters
    BY DEF Characters
  <2>3. sl = <<"/">>
    OBVIOUS
  <2>4. sl \in Seq(Characters)
    BY <2>2
  <2>5. Len(sl) = 1 /\ sl[1] = "/"
    BY <2>3
  <2> QED
    BY <2>1, <2>4, <2>5 DEF Texts
<1> HIDE DEF sl
<1>2. /\ t \in Texts /\ Len(t) = n + 1
      /\ \A k \in 1..n : t[k] = s[k]
      /\ t[n + 1] = "/"
  <2>1. /\ t \in Texts /\ Len(t) = n + Len(sl)
        /\ \A k \in 1..n : t[k] = s[k]
        /\ \A k \in 1..Len(sl) : t[n + k] = sl[k]
    BY <1>1, Joined DEF Texts
  <2>2. 1 \in 1..Len(sl)
    BY <1>1
  <2> QED
    BY <1>1, <2>1, <2>2
<1> HIDE DEF t
<1>3. Ended(t)
  BY <1>1, <1>2 DEF Ended
<1>4. Names(t) = Entered(t)[n + 1]
  BY <1>2, <1>3, NamesEnded
<1>5. n + 1 \in 1..Len(t) /\ n + 1 - 1 = n
  BY <1>1, <1>2
<1>6. Entered(t)[n + 1] = Into(Entered(t)[n], PartEnding(t, n + 1))
  <2>1. Entered(t)[n + 1] = Into(Entered(t)[n + 1 - 1], PartEnding(t, n + 1))
    BY <1>2, <1>5, EnteredStep
  <2> QED
    BY <1>5, <2>1
<1>7. \A i \in 0..n : Entered(t)[i] = Entered(s)[i]
  <2>1. n <= Len(t) /\ n <= Len(s) /\ \A i \in 1..n : s[i] = t[i]
    BY <1>1, <1>2
  <2> HIDE DEF n
  <2> QED
    BY <1>1, <1>2, <2>1, EnteredPrefix
<1>8. PartEnding(t, n + 1) = Tail0(s)
  <2>1. SubSeq(t, 1, n) = s
    <3>1. 0 \in 0..Len(sl)
      BY <1>1
    <3>2. SubSeq(s \o sl, 1, Len(s) + 0) = s \o SubSeq(sl, 1, 0)
      BY <1>1, <3>1, BeginningOfJoined
    <3>3. SubSeq(sl, 1, 0) = <<>>
      BY SubSeqEmpty
    <3>4. s \o <<>> = s
      BY ConcatEmptySeq DEF Texts
    <3>5. Len(s) + 0 = n
      BY <1>1
    <3> QED
      BY <3>2, <3>3, <3>4, <3>5 DEF t
  <2>2. PartEnding(t, n + 1) = Tail0(SubSeq(t, 1, n + 1 - 1))
    BY DEF PartEnding
  <2> QED
    BY <1>5, <2>1, <2>2, Zenon
<1>9. Names(t) = Names(s)
  BY <1>1, <1>4, <1>6, <1>7, <1>8 DEF Names
<1> QED
  BY <1>2, <1>3, <1>9 DEF t, sl

(* A part behind a slash is entered.                                        *)
LEMMA NamesPart ==
    ASSUME NEW s \in Texts, Ended(s), NEW part \in Texts, SlashFree(part)
    PROVE  Names(s \o part) = Into(Names(s), part) /\ Tail0(s \o part) = part
<1> DEFINE t == s \o part
           n == Len(s)
<1>1. n \in Nat /\ Len(part) \in Nat
  BY LenProperties DEF Texts
<1>2. /\ t \in Texts /\ Len(t) = n + Len(part)
      /\ \A k \in 1..Len(part) : t[n + k] = part[k]
  BY Joined DEF Texts
<1>3. Entered(t)[n] = Names(s) /\ Names(t) = Into(Entered(t)[n + Len(part)], Tail0(part))
  BY EnteredBehind
<1>4. Tail0(part) = part /\ Tail0(t) = Tail0(part)
  BY TailOfPart, TailBehind
<1> HIDE DEF t
<1>5. Entered(t)[n + Len(part)] = Entered(t)[n]
  <2>1. n \in 0..Len(t) /\ n + Len(part) \in 0..Len(t) /\ n <= n + Len(part)
    BY <1>1, <1>2
  <2>2. \A i \in 1..Len(t) : n < i /\ i <= n + Len(part) => t[i] # "/"
    <3> SUFFICES ASSUME NEW i \in 1..Len(t), n < i, i <= n + Len(part) PROVE t[i] # "/"
      OBVIOUS
    <3>1. i - n \in 1..Len(part) /\ n + (i - n) = i
      BY <1>1, <1>2
    <3> QED
      BY <1>2, <3>1 DEF SlashFree
  <2> HIDE DEF n
  <2> DEFINE j == n + Len(part)
  <2> HIDE DEF j
  <2>3. Entered(t)[j] = Entered(t)[n]
    BY <1>2, <2>1, <2>2, EnteredSkip DEF j
  <2> QED
    BY <2>3 DEF j
<1> QED
  BY <1>3, <1>4, <1>5 DEF t

-----------------------------------------------------------------------------
(* Texts whose parts are names.                                             *)

Dots == {<<".">>, <<".", ".">>}

\* Every part of s that ends with a slash is a name, or empty.
PlainDirs(s) == \A i \in 1..Len(s) : s[i] = "/" => PartEnding(s, i) \notin Dots

(* A part is the same in a text that goes on.                               *)
LEMMA PartEndingPrefix ==
    ASSUME NEW s \in Texts, NEW t \in Texts, NEW i \in 1..(Len(s) + 1), i <= Len(t) + 1,
           \A j \in 1..Len(s) : j < i => s[j] = t[j]
    PROVE  PartEnding(s, i) = PartEnding(t, i)
<1> DEFINE u == SubSeq(s, 1, i - 1)
           v == SubSeq(t, 1, i - 1)
<1>1. Len(s) \in Nat /\ Len(t) \in Nat
  BY LenProperties DEF Texts
<1>2. i - 1 \in 0..Len(s) /\ i - 1 \in 0..Len(t)
  BY <1>1
<1>3. /\ u \in Texts /\ Len(u) = i - 1 /\ \A j \in 1..(i - 1) : u[j] = s[j]
      /\ v \in Texts /\ Len(v) = i - 1 /\ \A j \in 1..(i - 1) : v[j] = t[j]
  BY <1>2, Beginning DEF Texts
<1>4. \A j \in 1..(i - 1) : j \in 1..Len(s) /\ j < i
  BY <1>1
<1>5. PartEnding(s, i) = Tail0(u) /\ PartEnding(t, i) = Tail0(v)
  BY DEF PartEnding
<1> HIDE DEF u, v
<1>6. Len(u) = Len(v) /\ \A j \in 1..Len(u) : u[j] = v[j]
  BY <1>3, <1>4
<1>7. u = v
  BY <1>3, <1>6, SeqEqual DEF Texts
<1> QED
  BY <1>5, <1>7

(* The part at the end of a text is what follows its last slash.            *)
LEMMA PartEndingLast ==
    ASSUME NEW s \in Texts
    PROVE  PartEnding(s, Len(s) + 1) = Tail0(s)
<1>1. Len(s) \in Nat /\ Len(s) + 1 - 1 = Len(s)
  BY LenProperties DEF Texts
<1>2. SubSeq(s, 1, Len(s)) = s
  BY SubSeqFull DEF Texts
<1>3. PartEnding(s, Len(s) + 1) = Tail0(SubSeq(s, 1, Len(s) + 1 - 1))
  BY DEF PartEnding
<1> QED
  BY <1>1, <1>2, <1>3, Zenon

(* All parts are names: those that end with a slash, and the last.          *)
LEMMA PlainMeans ==
    ASSUME NEW s \in Texts
    PROVE  Plain(s) <=> PlainDirs(s) /\ Tail0(s) \notin Dots
<1>1. PartEnding(s, Len(s) + 1) = Tail0(s)
  BY PartEndingLast
<1>2. DOMAIN s = 1..Len(s)
  BY LenProperties DEF Texts
<1>3. Slashes(s) = {i \in 1..Len(s) : s[i] = "/"}
  BY <1>2 DEF Slashes
<1>4. Plain(s) <=> \A i \in Slashes(s) \cup {Len(s) + 1} : PartEnding(s, i) \notin Dots
  BY DEF Plain, Dots
<1> QED
  BY <1>1, <1>3, <1>4 DEF PlainDirs

(* A part is added, then a slash.                                           *)
LEMMA PlainJoined ==
    ASSUME NEW s \in Texts
    PROVE  /\ \A part \in Texts : PlainDirs(s) /\ SlashFree(part) => PlainDirs(s \o part)
           /\ Plain(s) => PlainDirs(s \o <<"/">>)
<1>1. Len(s) \in Nat
  BY LenProperties DEF Texts
<1>2. ASSUME NEW x \in Texts, PlainDirs(s), NEW i \in 1..Len(s \o x), i <= Len(s), (s \o x)[i] = "/"
      PROVE  PartEnding(s \o x, i) \notin Dots
  <2>1. /\ s \o x \in Texts /\ Len(s \o x) = Len(s) + Len(x) /\ Len(x) \in Nat
        /\ \A k \in 1..Len(s) : (s \o x)[k] = s[k]
    BY LenProperties, Joined DEF Texts
  <2>2. i \in 1..(Len(s) + 1) /\ i <= Len(s \o x) + 1 /\ i \in 1..Len(s)
    BY <1>1, <1>2, <2>1
  <2> DEFINE t == s \o x
  <2> HIDE DEF t
  <2>3. PartEnding(s, i) = PartEnding(t, i)
    BY <2>1, <2>2, PartEndingPrefix DEF t
  <2> QED
    BY <1>2, <2>1, <2>2, <2>3 DEF PlainDirs, t
<1>3. ASSUME NEW part \in Texts, PlainDirs(s), SlashFree(part)
      PROVE  PlainDirs(s \o part)
  <2> SUFFICES ASSUME NEW i \in 1..Len(s \o part), (s \o part)[i] = "/"
               PROVE  PartEnding(s \o part, i) \notin Dots
    BY DEF PlainDirs
  <2>1. CASE i <= Len(s)
    BY <1>2, <1>3, <2>1
  <2>2. CASE ~(i <= Len(s))
    <3>1. /\ Len(s \o part) = Len(s) + Len(part) /\ Len(part) \in Nat
          /\ \A k \in 1..Len(part) : (s \o part)[Len(s) + k] = part[k]
      BY LenProperties, Joined DEF Texts
    <3>2. i - Len(s) \in 1..Len(part) /\ Len(s) + (i - Len(s)) = i
      BY <1>1, <2>2, <3>1
    <3>3. (s \o part)[i] = part[i - Len(s)]
      BY <3>1, <3>2
    <3> QED
      BY <1>3, <3>2, <3>3 DEF SlashFree
  <2> QED
    BY <2>1, <2>2
<1>4. ASSUME Plain(s)
      PROVE  PlainDirs(s \o <<"/">>)
  <2> DEFINE sl == <<"/">>
             t == s \o sl
  <2>1. sl \in Texts /\ Len(sl) = 1
    <3>1. "/" \in Characters
      BY DEF Characters
    <3> QED
      BY <3>1 DEF Texts
  <2>2. PlainDirs(s) /\ Tail0(s) \notin Dots
    BY <1>4, PlainMeans
  <2> HIDE DEF sl
  <2>3. t \in Texts /\ Len(t) = Len(s) + 1 /\ \A k \in 1..Len(s) : t[k] = s[k]
    <3>1. sl \in Seq(Characters) /\ s \in Seq(Characters)
      BY <2>1 DEF Texts
    <3>2. /\ s \o sl \in Seq(Characters) /\ Len(s \o sl) = Len(s) + Len(sl)
          /\ \A k \in 1..Len(s) : (s \o sl)[k] = s[k]
      BY <3>1, Joined
    <3> QED
      BY <2>1, <3>2 DEF Texts
  <2>4. PartEnding(s, Len(s) + 1) = PartEnding(t, Len(s) + 1)
    <3> HIDE DEF t
    <3> DEFINE i == Len(s) + 1
    <3>1. i \in 1..(Len(s) + 1) /\ i <= Len(t) + 1
      BY <1>1, <2>3
    <3> HIDE DEF i
    <3>2. PartEnding(s, i) = PartEnding(t, i)
      BY <2>3, <3>1, PartEndingPrefix
    <3> QED
      BY <3>2 DEF i
  <2>5. ASSUME NEW i \in 1..Len(t), t[i] = "/"
        PROVE  PartEnding(t, i) \notin Dots
    <3>1. CASE i <= Len(s)
      BY <1>2, <2>1, <2>2, <2>5, <3>1
    <3>2. CASE ~(i <= Len(s))
      <4>1. i = Len(s) + 1
        BY <1>1, <2>3, <3>2
      <4> HIDE DEF t
      <4> QED
        BY <2>2, <2>4, <4>1, PartEndingLast
    <3> QED
      BY <3>1, <3>2
  <2>6. PlainDirs(t)
    <3> HIDE DEF t
    <3> QED
      BY <2>5 DEF PlainDirs
  <2> QED
    BY <2>6 DEF sl
<1> QED
  BY <1>3, <1>4

(* What a text begins with has its directories.                             *)
LEMMA PlainBeginning ==
    ASSUME NEW s \in Texts, PlainDirs(s), NEW n \in 0..Len(s)
    PROVE  PlainDirs(SubSeq(s, 1, n))
<1> DEFINE u == SubSeq(s, 1, n)
<1>1. Len(s) \in Nat
  BY LenProperties DEF Texts
<1>2. u \in Texts /\ Len(u) = n /\ \A j \in 1..n : u[j] = s[j]
  BY Beginning DEF Texts
<1> HIDE DEF u
<1>3. SUFFICES ASSUME NEW i \in 1..Len(u), u[i] = "/" PROVE PartEnding(u, i) \notin Dots
  BY DEF PlainDirs, u
<1>4. i \in 1..(Len(u) + 1) /\ i <= Len(s) + 1 /\ i \in 1..Len(s) /\ i \in 1..n
  BY <1>1, <1>2
<1>5. PartEnding(u, i) = PartEnding(s, i)
  BY <1>2, <1>4, PartEndingPrefix
<1> QED
  BY <1>2, <1>3, <1>4, <1>5 DEF PlainDirs

(* A text that ends with a name: the name is entered last.                  *)
LEMMA LastName ==
    ASSUME NEW s \in Texts, s # <<>>, ~Ended(s), Tail0(s) \notin Dots
    PROVE  LET u == SubSeq(s, 1, LastSlash(s))
           IN  /\ u \in Texts /\ Ended(u) /\ Len(u) = LastSlash(s) /\ s = u \o Tail0(s)
               /\ Tail0(s) # <<>>
               /\ Names(s) = Append(Names(u), Tail0(s))
<1> DEFINE L == LastSlash(s)
           u == SubSeq(s, 1, L)
           part == Tail0(s)
<1>1. Len(s) \in Nat /\ Len(s) > 0
  BY LenProperties, EmptySeq DEF Texts
<1>2. L \in 0..Len(s) /\ (L # 0 => s[L] = "/")
  BY LastSlashFact
<1>3. part \in Texts /\ SlashFree(part) /\ Len(part) = Len(s) - L
  BY TailFact
<1> HIDE DEF L
<1>4. u \in Texts /\ Len(u) = L /\ \A i \in 1..L : u[i] = s[i]
  BY <1>2, Beginning DEF Texts
<1>5. s = u \o part
  <2>1. 1 \in 1..(Len(s) + 1) /\ L \in (1 - 1)..Len(s) /\ Len(s) \in L..Len(s)
    BY <1>1, <1>2
  <2>2. SubSeq(s, 1, L) \o SubSeq(s, L + 1, Len(s)) = SubSeq(s, 1, Len(s))
    BY <2>1, ConcatAdjacentSubSeq DEF Texts
  <2>3. SubSeq(s, 1, Len(s)) = s
    BY SubSeqFull DEF Texts
  <2>4. part = SubSeq(s, L + 1, Len(s))
    BY DEF Tail0, L
  <2> QED
    BY <2>2, <2>3, <2>4, Zenon
<1> HIDE DEF u, part
<1>6. Ended(u)
  BY <1>2, <1>4, EmptySeq DEF Ended, Texts
<1>7. part # <<>>
  <2>1. L # Len(s)
    BY <1>1, <1>2 DEF Ended
  <2>2. Len(<<>>) = 0
    BY EmptySeq
  <2> QED
    BY <1>1, <1>2, <1>3, <2>1, <2>2
<1>8. Names(u \o part) = Into(Names(u), part)
  BY <1>3, <1>4, <1>6, NamesPart
<1>9. Into(Names(u), part) = Append(Names(u), part)
  BY <1>7 DEF Into, Dots, part
<1> QED
  BY <1>4, <1>5, <1>6, <1>7, <1>8, <1>9 DEF u, part, L

\* A text with a dot before its last part, if that has none
Dotted(s) ==
    LET part == SubSeq(s, LastSlash(s) + 1, Len(s))
    IN  SubSeq(s, 1, LastSlash(s)) \o (IF part # <<>> /\ part[1] = "." THEN part ELSE <<".">> \o part)

(* Such a text is a hidden name in the same directory.                      *)
LEMMA DottedIsHidden ==
    ASSUME NEW s \in Texts, Slashes(s) # {}
    PROVE  LET h == Dotted(s)
           IN  /\ h \in Texts /\ Len(h) = Len(s) + (IF FirstByteHidden(s) THEN 0 ELSE 1)
               /\ FirstByteHidden(h)
               /\ SubSeq(h, 1, LastSlash(h)) = SubSeq(s, 1, LastSlash(s))
               /\ Tail0(h) \in {Tail0(s), <<".">> \o Tail0(s)}
<1> DEFINE L == LastSlash(s)
           u == SubSeq(s, 1, L)
           part == SubSeq(s, L + 1, Len(s))
           new == IF part # <<>> /\ part[1] = "." THEN part ELSE <<".">> \o part
           h == u \o new
<1>1. Len(s) \in Nat /\ DOMAIN s = 1..Len(s)
  BY LenProperties DEF Texts
<1>2. L \in 0..Len(s) /\ (L # 0 => s[L] = "/") /\ \A i \in 1..Len(s) : i > L => s[i] # "/"
  BY LastSlashFact
<1>3. part \in Texts /\ SlashFree(part)
  BY TailFact DEF Tail0
<1>4. h = Dotted(s) /\ part = Tail0(s)
  BY DEF Dotted, Tail0
<1> HIDE DEF L
<1>5. L \in 1..Len(s)
  BY <1>1, <1>2 DEF Slashes
<1>6. u \in Texts /\ Len(u) = L /\ \A i \in 1..L : u[i] = s[i]
  BY <1>2, Beginning DEF Texts
<1> HIDE DEF u, part
<1>7. Ended(u)
  BY <1>2, <1>5, <1>6 DEF Ended
<1>8. /\ new \in Texts /\ SlashFree(new) /\ Len(new) > 0 /\ new[1] = "."
      /\ Len(new) = Len(part) + (IF part # <<>> /\ part[1] = "." THEN 0 ELSE 1)
  <2>1. CASE part # <<>> /\ part[1] = "."
    <3>1. Len(part) \in Nat /\ Len(part) # 0
      BY <1>3, <2>1, EmptySeq DEF Texts
    <3>2. new = part
      BY <2>1
    <3> HIDE DEF new
    <3> QED
      BY <1>3, <2>1, <3>1, <3>2
  <2>2. CASE ~(part # <<>> /\ part[1] = ".")
    <3> DEFINE dot == <<".">>
    <3>1. dot \in Seq(Characters) /\ Len(dot) = 1 /\ dot[1] = "."
      <4>1. "." \in Characters
        BY DEF Characters
      <4> QED
        BY <4>1
    <3> HIDE DEF dot
    <3>2. part \in Seq(Characters) /\ Len(part) \in Nat
      BY <1>3, LenProperties DEF Texts
    <3>3. /\ dot \o part \in Seq(Characters) /\ Len(dot \o part) = Len(dot) + Len(part)
          /\ \A i \in 1..Len(dot) : (dot \o part)[i] = dot[i]
          /\ \A i \in 1..Len(part) : (dot \o part)[Len(dot) + i] = part[i]
      <4>1. dot \in Seq(Characters) /\ part \in Seq(Characters)
        BY <3>1, <3>2
      <4> QED
        BY <4>1, Joined
    <3> DEFINE t == dot \o part
    <3>4. new = t
      BY <2>2 DEF dot
    <3> HIDE DEF t, new
    <3>5. t \in Texts /\ Len(t) = 1 + Len(part) /\ t[1] = "." /\ \A i \in 1..Len(part) : t[1 + i] = part[i]
      BY <3>1, <3>3 DEF t, Texts
    <3>6. \A i \in 1..Len(t) : t[i] # "/"
      <4> SUFFICES ASSUME NEW i \in 1..Len(t) PROVE t[i] # "/"
        OBVIOUS
      <4>1. CASE i = 1
        BY <3>5, <4>1
      <4>2. CASE i # 1
        <5>1. i - 1 \in 1..Len(part) /\ 1 + (i - 1) = i
          BY <3>2, <3>5, <4>2
        <5> QED
          BY <1>3, <3>5, <5>1 DEF SlashFree
      <4> QED
        BY <4>1, <4>2
    <3>7. Len(t) > 0
      BY <3>2, <3>5
    <3>8. Len(new) = Len(part) + (IF part # <<>> /\ part[1] = "." THEN 0 ELSE 1)
      BY <2>2, <3>2, <3>4, <3>5
    <3> QED
      BY <3>4, <3>5, <3>6, <3>7, <3>8 DEF SlashFree
  <2> QED
    BY <2>1, <2>2
<1>8a. new \in {part, <<".">> \o part}
  OBVIOUS
<1> HIDE DEF new
<1>9. LastSlash(new) = 0 /\ Tail0(new) = new
  BY <1>8, TailOfPart
<1>10. LastSlash(h) = L /\ Tail0(h) = new
  <2>1. LastSlash(h) = Len(u) + LastSlash(new) /\ Tail0(h) = Tail0(new)
    BY <1>6, <1>7, <1>8, TailBehind
  <2> QED
    BY <1>5, <1>6, <1>9, <2>1
<1>11. SubSeq(h, 1, L) = u
  <2>1. 0 \in 0..Len(new)
    BY <1>8, LenProperties DEF Texts
  <2>2. SubSeq(u \o new, 1, Len(u) + 0) = u \o SubSeq(new, 1, 0)
    BY <1>6, <1>8, <2>1, BeginningOfJoined
  <2>3. SubSeq(new, 1, 0) = <<>>
    BY SubSeqEmpty
  <2>4. u \o <<>> = u
    BY <1>6, ConcatEmptySeq DEF Texts
  <2>5. Len(u) + 0 = L
    BY <1>5, <1>6
  <2> QED
    BY <2>2, <2>3, <2>4, <2>5
<1>12. FirstByteHidden(h)
  <2>1. new # <<>>
    BY <1>8, EmptySeq
  <2>2. FirstByteHidden(h) <=> Tail0(h) # <<>> /\ Tail0(h)[1] = "."
    BY DEF FirstByteHidden, Tail0
  <2> HIDE DEF h
  <2> QED
    BY <1>8, <1>10, <2>1, <2>2
<1>13. Len(s) = L + Len(part) /\ Len(part) \in Nat
  <2>1. Len(Tail0(s)) = Len(s) - LastSlash(s)
    BY TailFact
  <2>2. Len(part) = Len(s) - L
    BY <1>4, <2>1 DEF L
  <2> QED
    BY <1>1, <1>5, <2>2
<1>14. h \in Texts /\ Len(h) = Len(u) + Len(new)
  BY <1>6, <1>8, Joined, ConcatProperties DEF Texts
<1>15. FirstByteHidden(s) <=> part # <<>> /\ part[1] = "."
  BY <1>4 DEF FirstByteHidden, Tail0
<1> QED
  <2> HIDE DEF h
  <2>1. Len(h) = Len(s) + (IF FirstByteHidden(s) THEN 0 ELSE 1)
    BY <1>5, <1>6, <1>8, <1>13, <1>14, <1>15
  <2>2. SubSeq(s, 1, LastSlash(s)) = u
    BY DEF u, L
  <2>3. LastSlash(h) = L /\ SubSeq(h, 1, LastSlash(h)) = u
    BY <1>10, <1>11
  <2> QED
    BY <1>4, <1>8a, <1>10, <1>12, <1>14, <2>1, <2>2, <2>3

-----------------------------------------------------------------------------
(* Path records.                                                            *)

\* Memory of MAX_PATH_SIZE characters, the last of them NUL, and a text in it.
PathOK(P) ==
    /\ P = [mem |-> P.mem, WriteCur |-> P.WriteCur]
    /\ P.mem \in Seq(Characters \cup {NUL}) /\ Len(P.mem) = MAX_PATH_SIZE
    /\ P.WriteCur \in 0..Size
    /\ P.mem[MAX_PATH_SIZE] = NUL
    /\ \A i \in 1..P.WriteCur : P.mem[i] # NUL

(* Sizes are numbers, and a text has no NUL.                                *)
LEMMA SizeType ==
    /\ MAX_PATH_SIZE \in Nat \ {0} /\ Size \in Nat /\ MAX_PATH_SIZE = Size + 1
    /\ NUL \notin Characters
<1>1. MAX_PATH_SIZE \in Nat \ {0} /\ NUL \notin Letters
  BY PathsAssumption
<1>2. NUL \notin {"/", "."}
  BY DEF NUL
<1> QED
  BY <1>1, <1>2 DEF Size, Characters

(* What is before the NUL of a memory is a text.                            *)
LEMMA TextOfMemory ==
    ASSUME NEW mem \in Seq(Characters \cup {NUL}), NEW n \in 0..Len(mem),
           \A i \in 1..n : mem[i] # NUL
    PROVE  /\ SubSeq(mem, 1, n) \in Texts /\ Len(SubSeq(mem, 1, n)) = n
           /\ \A i \in 1..n : SubSeq(mem, 1, n)[i] = mem[i]
<1>1. Len(mem) \in Nat
  BY LenProperties
<1>2. \A i \in 1..n : mem[i] \in Characters
  <2>1. \A i \in 1..n : i \in 1..Len(mem)
    BY <1>1
  <2>2. \A i \in 1..n : mem[i] \in Characters \cup {NUL}
    BY <2>1, ElementOfSeq
  <2> QED
    BY <2>2
<1>3. 1 \in Int /\ n \in Int
  OBVIOUS
<1>4. /\ SubSeq(mem, 1, n) \in Seq(Characters)
      /\ Len(SubSeq(mem, 1, n)) = IF 1 <= n THEN n - 1 + 1 ELSE 0
      /\ \A i \in 1..(n - 1 + 1) : SubSeq(mem, 1, n)[i] = mem[1 + i - 1]
  BY <1>2, <1>3, SubSeqProperties
<1>5. n - 1 + 1 = n /\ (IF 1 <= n THEN n - 1 + 1 ELSE 0) = n /\ \A i \in 1..n : 1 + i - 1 = i
  OBVIOUS
<1> QED
  BY <1>4, <1>5 DEF Texts

(* The text of a path.                                                      *)
LEMMA TextFact ==
    ASSUME NEW P, PathOK(P)
    PROVE  /\ Text(P) \in Texts /\ Len(Text(P)) = P.WriteCur
           /\ \A i \in 1..P.WriteCur : Text(P)[i] = P.mem[i]
<1>1. P.WriteCur \in 0..Len(P.mem)
  BY SizeType DEF PathOK
<1> QED
  BY <1>1, TextOfMemory DEF PathOK, Text

(* What is appended is behind the text, and nothing else is written.        *)
LEMMA PutFact ==
    ASSUME NEW P, PathOK(P), NEW s \in Texts, Fits(s, P)
    PROVE  /\ PathOK(Put(s, P))
           /\ Put(s, P).WriteCur = P.WriteCur + Len(s)
           /\ Text(Put(s, P)) = Text(P) \o s
           /\ \A i \in 1..MAX_PATH_SIZE : i <= P.WriteCur => Put(s, P).mem[i] = P.mem[i]
           /\ \A i \in 1..MAX_PATH_SIZE : P.mem[i] # NUL => Put(s, P).mem[i] # NUL
<1> DEFINE C == Characters \cup {NUL}
           w == P.WriteCur
           end == w + Len(s)
           t == Text(P)
           rest == SubSeq(P.mem, end + 1, MAX_PATH_SIZE)
           mem == (t \o s) \o rest
           Q == [mem |-> mem, WriteCur |-> end]
<1>1. /\ P.mem \in Seq(C) /\ Len(P.mem) = MAX_PATH_SIZE /\ w \in 0..Size
      /\ P.mem[MAX_PATH_SIZE] = NUL
  BY DEF PathOK
<1>2. Len(s) \in Nat /\ end \in 0..Size /\ MAX_PATH_SIZE = Size + 1 /\ Size \in Nat
  <2>1. Len(s) \in Nat
    BY LenProperties DEF Texts
  <2>2. Len(s) <= Size - w
    BY DEF Fits
  <2> QED
    BY <1>1, <2>1, <2>2, SizeType
<1>3. t \in Texts /\ Len(t) = w /\ \A i \in 1..w : t[i] = P.mem[i]
  BY TextFact
<1>4. Put(s, P) = Q
  BY DEF Put
<1> HIDE DEF t, w
<1>5. \A x \in Texts : x \in Seq(C)
  BY SeqMonotonic DEF Texts
<1>6. /\ rest \in Seq(C) /\ Len(rest) = MAX_PATH_SIZE - end /\ rest[MAX_PATH_SIZE - end] = NUL
      /\ \A k \in 1..(MAX_PATH_SIZE - end) : rest[k] = P.mem[end + k]
  <2> DEFINE a == end + 1
  <2>1. a \in Int /\ MAX_PATH_SIZE \in Int /\ 1 <= a /\ a <= MAX_PATH_SIZE + 1
    BY <1>1, <1>2
  <2> HIDE DEF a
  <2>2. /\ SubSeq(P.mem, a, MAX_PATH_SIZE) \in Seq(C)
        /\ Len(SubSeq(P.mem, a, MAX_PATH_SIZE)) = MAX_PATH_SIZE - a + 1
        /\ \A i \in 1..(MAX_PATH_SIZE - a + 1) : SubSeq(P.mem, a, MAX_PATH_SIZE)[i] = P.mem[a + i - 1]
    BY <1>1, <2>1, PartOf
  <2>3. rest = SubSeq(P.mem, a, MAX_PATH_SIZE)
    BY DEF a
  <2> HIDE DEF rest
  <2>4. /\ MAX_PATH_SIZE - a + 1 = MAX_PATH_SIZE - end
        /\ MAX_PATH_SIZE - end \in 1..(MAX_PATH_SIZE - a + 1)
        /\ a + (MAX_PATH_SIZE - end) - 1 = MAX_PATH_SIZE
        /\ \A k \in 1..(MAX_PATH_SIZE - end) : a + k - 1 = end + k
    BY <1>2 DEF a
  <2> QED
    BY <1>1, <2>2, <2>3, <2>4
<1> DEFINE front == t \o s
<1>7. /\ front \in Texts /\ Len(front) = end
      /\ \A i \in 1..w : front[i] = t[i]
      /\ \A i \in 1..Len(s) : front[w + i] = s[i]
  <2>1. t \in Seq(Characters) /\ s \in Seq(Characters)
    BY <1>3 DEF Texts
  <2>2. /\ t \o s \in Seq(Characters) /\ Len(t \o s) = Len(t) + Len(s)
        /\ \A i \in 1..Len(t) : (t \o s)[i] = t[i]
        /\ \A i \in 1..Len(s) : (t \o s)[Len(t) + i] = s[i]
    BY <2>1, Joined
  <2> QED
    BY <1>3, <2>2 DEF Texts
<1> HIDE DEF front, end, rest
<1>8. /\ mem \in Seq(C) /\ Len(mem) = MAX_PATH_SIZE
      /\ \A i \in 1..end : mem[i] = front[i]
      /\ mem[MAX_PATH_SIZE] = NUL
      /\ \A k \in 1..(MAX_PATH_SIZE - end) : mem[end + k] = P.mem[end + k]
  <2>1. front \in Seq(C)
    BY <1>5, <1>7
  <2>2. /\ front \o rest \in Seq(C) /\ Len(front \o rest) = Len(front) + Len(rest)
        /\ \A i \in 1..Len(front) : (front \o rest)[i] = front[i]
        /\ \A i \in 1..Len(rest) : (front \o rest)[Len(front) + i] = rest[i]
    <3>1. front \in Seq(C) /\ rest \in Seq(C)
      BY <1>6, <2>1
    <3> HIDE DEF C
    <3> QED
      BY <3>1, Joined
  <2>3. mem = front \o rest
    BY DEF front
  <2>4. /\ Len(front) + Len(rest) = MAX_PATH_SIZE
        /\ MAX_PATH_SIZE - end \in 1..Len(rest)
        /\ Len(front) + (MAX_PATH_SIZE - end) = MAX_PATH_SIZE
    BY <1>2, <1>6, <1>7
  <2> HIDE DEF mem
  <2> QED
    BY <1>6, <1>7, <2>2, <2>3, <2>4
<1> HIDE DEF mem
<1>9. \A i \in 1..end : mem[i] \in Characters
  <2>1. \A i \in 1..end : front[i] \in Characters
    BY <1>7, ElementOfSeq DEF Texts
  <2> QED
    BY <1>8, <2>1
<1>10. PathOK(Q)
  BY <1>2, <1>8, <1>9, SizeType DEF PathOK
<1>11. Text(Q) = front
  <2>1. /\ Text(Q) \in Texts /\ Len(Text(Q)) = end
        /\ \A i \in 1..end : Text(Q)[i] = mem[i]
    <3> DEFINE R == Q
    <3>1. R.WriteCur = end /\ R.mem = mem /\ PathOK(R)
      BY <1>10
    <3> HIDE DEF R
    <3>2. /\ Text(R) \in Texts /\ Len(Text(R)) = R.WriteCur
          /\ \A i \in 1..R.WriteCur : Text(R)[i] = R.mem[i]
      BY <3>1, TextFact
    <3> QED
      BY <3>1, <3>2 DEF R
  <2> HIDE DEF Q
  <2> QED
    BY <1>7, <1>8, <2>1, SeqEqual DEF Texts
<1>12. \A i \in 1..MAX_PATH_SIZE : i <= w => mem[i] = P.mem[i]
  <2> SUFFICES ASSUME NEW i \in 1..MAX_PATH_SIZE, i <= w PROVE mem[i] = P.mem[i]
    OBVIOUS
  <2>1. i \in 1..w /\ i \in 1..end
    BY <1>1, <1>2 DEF end
  <2> QED
    BY <1>3, <1>7, <1>8, <2>1
<1>13. Q.WriteCur = end /\ Q.mem = mem
  OBVIOUS
<1>14. \A i \in 1..MAX_PATH_SIZE : P.mem[i] # NUL => mem[i] # NUL
  <2> SUFFICES ASSUME NEW i \in 1..MAX_PATH_SIZE, P.mem[i] # NUL PROVE mem[i] # NUL
    OBVIOUS
  <2>1. CASE i <= end
    <3>1. i \in 1..end
      BY <1>2, <2>1
    <3> QED
      BY <1>9, <3>1, SizeType
  <2>2. CASE i > end
    <3> DEFINE k == i - end
    <3>1. k \in 1..(MAX_PATH_SIZE - end) /\ end + k = i
      BY <1>2, <2>2
    <3> HIDE DEF k
    <3> QED
      BY <1>8, <3>1
  <2> QED
    BY <1>2, <2>1, <2>2
<1> HIDE DEF Q
<1> QED
  BY <1>4, <1>10, <1>11, <1>12, <1>13, <1>14 DEF w, end, front, t

-----------------------------------------------------------------------------
(* MoveUpPath.                                                              *)

\* What one round of its loop does with the length.
UpFrom(mem, m) == LET slash == LastSlash(SubSeq(mem, 1, m)) IN IF slash = 0 THEN 0 ELSE slash - 1

\* The text without the slash at its end.
Unslashed(P) == IF P.mem[P.WriteCur] = "/" THEN P.WriteCur - 1 ELSE P.WriteCur

(* One round, or two.                                                       *)
LEMMA MoveUpIs ==
    ASSUME NEW P, P = [mem |-> P.mem, WriteCur |-> P.WriteCur], NEW n \in {1, 2}
    PROVE  LET one == UpFrom(P.mem, Unslashed(P))
               cur == IF n = 1 THEN one ELSE UpFrom(P.mem, one)
           IN  MoveUpPath(P, n) = [mem |-> P.mem, WriteCur |-> IF cur > 0 THEN cur + 1 ELSE 0]
<1> DEFINE start == IF P.mem[P.WriteCur] = "/" THEN P.WriteCur - 1 ELSE P.WriteCur
           one == UpFrom(P.mem, start)
           two == UpFrom(P.mem, one)
           IsUp(g) == g = [k \in 0..n |->
                             IF k = 0 THEN start
                             ELSE LET slash == LastSlash(SubSeq(P.mem, 1, g[k - 1]))
                                  IN  IF slash = 0 THEN 0 ELSE slash - 1]
           up == CHOOSE g : IsUp(g)
           res(c) == [mem |-> P.mem, WriteCur |-> IF c > 0 THEN c + 1 ELSE 0]
<1>1. MoveUpPath(P, n) = res(up[n])
  <2>1. MoveUpPath(P, n) = [P EXCEPT !.WriteCur = IF up[n] > 0 THEN up[n] + 1 ELSE 0]
    BY Zenon DEF MoveUpPath
  <2> HIDE DEF up
  <2> QED
    BY <2>1
<1>2. start = Unslashed(P)
  BY DEF Unslashed
<1>3. \A g : IsUp(g) <=> g = [k \in 0..n |-> IF k = 0 THEN start ELSE UpFrom(P.mem, g[k - 1])]
  BY Zenon DEF UpFrom
<1> HIDE DEF start
<1>4. IsUp([k \in 0..n |-> IF k = 0 THEN start ELSE IF k = 1 THEN one ELSE two])
  <2> DEFINE h == [k \in 0..n |-> IF k = 0 THEN start ELSE IF k = 1 THEN one ELSE two]
  <2>1. h = [k \in 0..n |-> IF k = 0 THEN start ELSE UpFrom(P.mem, h[k - 1])]
    <3>1. ASSUME NEW k \in 0..n
          PROVE  h[k] = IF k = 0 THEN start ELSE UpFrom(P.mem, h[k - 1])
      <4>1. k = 0 \/ (k = 1 /\ k - 1 = 0) \/ (k = 2 /\ k - 1 = 1)
        OBVIOUS
      <4>2. 0 \in 0..n /\ 1 \in 0..n
        OBVIOUS
      <4>3. h[0] = start /\ h[1] = one /\ (2 \in 0..n => h[2] = two)
        BY <4>2
      <4> HIDE DEF h
      <4> QED
        BY <4>1, <4>3
    <3>2. h = [k \in 0..n |-> h[k]]
      OBVIOUS
    <3> HIDE DEF h
    <3> QED
      BY <3>1, <3>2
  <2> HIDE DEF IsUp, h
  <2>2. IsUp(h)
    BY <1>3, <2>1
  <2> QED
    BY <2>2 DEF h
<1>5. IsUp(up)
  <2> HIDE DEF IsUp
  <2> QED
    BY <1>4, Zenon
<1>6. up = [k \in 0..n |-> IF k = 0 THEN start ELSE UpFrom(P.mem, up[k - 1])]
  <2> HIDE DEF IsUp, up
  <2> QED
    BY <1>3, <1>5
<1> HIDE DEF up
<1>7. up[1] = one /\ (n = 2 => up[2] = two)
  <2>1. up[0] = start
    BY <1>6
  <2>2. 1 \in 0..n /\ 1 # 0 /\ 1 - 1 = 0
    OBVIOUS
  <2>3. up[1] = UpFrom(P.mem, up[1 - 1])
    BY <1>6, <2>2
  <2>4. up[1] = one
    BY <2>1, <2>2, <2>3
  <2>5. n = 2 => up[2] = UpFrom(P.mem, up[2 - 1])
    BY <1>6
  <2>6. 2 - 1 = 1
    OBVIOUS
  <2> QED
    BY <2>4, <2>5, <2>6
<1> QED
  BY <1>1, <1>2, <1>7

(* A round goes to a slash, or to the beginning.                            *)
LEMMA UpFromFact ==
    ASSUME NEW P, PathOK(P), NEW m \in 0..P.WriteCur
    PROVE  /\ UpFrom(P.mem, m) \in 0..m
           /\ UpFrom(P.mem, m) > 0 => UpFrom(P.mem, m) + 1 \in 1..m
<1> DEFINE t == SubSeq(P.mem, 1, m)
<1>1. m \in 0..Len(P.mem) /\ \A i \in 1..m : P.mem[i] # NUL
  BY SizeType DEF PathOK
<1>2. t \in Texts /\ Len(t) = m
  BY <1>1, TextOfMemory DEF PathOK
<1> HIDE DEF t
<1>3. LastSlash(t) \in 0..m
  BY <1>2, LastSlashFact
<1>4. UpFrom(P.mem, m) = IF LastSlash(t) = 0 THEN 0 ELSE LastSlash(t) - 1
  BY DEF UpFrom, t
<1> QED
  BY <1>3, <1>4

(* A path that moves up is a path, and its text a beginning of the text.    *)
LEMMA MoveUpOK ==
    ASSUME NEW P, PathOK(P), P.WriteCur > 0, NEW n \in {1, 2}
    PROVE  /\ PathOK(MoveUpPath(P, n))
           /\ MoveUpPath(P, n).mem = P.mem
           /\ MoveUpPath(P, n).WriteCur <= P.WriteCur
<1> DEFINE one == UpFrom(P.mem, Unslashed(P))
           cur == IF n = 1 THEN one ELSE UpFrom(P.mem, one)
           Q == [mem |-> P.mem, WriteCur |-> IF cur > 0 THEN cur + 1 ELSE 0]
<1>1. P.WriteCur \in 0..Size /\ Size \in Nat
  BY SizeType DEF PathOK
<1>2. Unslashed(P) \in 0..P.WriteCur
  BY <1>1 DEF Unslashed
<1>3. /\ one \in 0..Unslashed(P)
      /\ one > 0 => one + 1 \in 1..Unslashed(P)
  BY <1>2, UpFromFact
<1> HIDE DEF one
<1>4. one \in 0..P.WriteCur
  BY <1>1, <1>2, <1>3
<1>5. /\ UpFrom(P.mem, one) \in 0..one
      /\ UpFrom(P.mem, one) > 0 => UpFrom(P.mem, one) + 1 \in 1..one
  BY <1>4, UpFromFact
<1>6. (IF cur > 0 THEN cur + 1 ELSE 0) \in 0..P.WriteCur
  BY <1>1, <1>2, <1>3, <1>4, <1>5
<1>7. MoveUpPath(P, n) = Q
  BY MoveUpIs DEF PathOK, one
<1> HIDE DEF cur
<1>8. Q.mem = P.mem /\ Q.WriteCur \in 0..P.WriteCur /\ Q = [mem |-> Q.mem, WriteCur |-> Q.WriteCur]
  BY <1>6
<1> HIDE DEF Q
<1>9. PathOK(Q)
  BY <1>1, <1>8 DEF PathOK
<1> QED
  BY <1>1, <1>7, <1>8, <1>9

(* Of a text that ends with a slash, MoveUpPath takes the last directory,
   which may be the empty one.                                              *)
LEMMA UpText ==
    ASSUME NEW s \in Texts, s # <<>>, Ended(s), PlainDirs(s)
    PROVE  LET c == SubSeq(s, 1, Len(s) - 1)
               u == SubSeq(s, 1, LastSlash(c))
               up == IF LastSlash(c) <= 1 THEN <<>> ELSE u
           IN  /\ LastSlash(c) \in 0..(Len(s) - 1)
               /\ up \in Texts /\ Ended(up) /\ PlainDirs(up)
               /\ Names(s) = Names(up) \/ \E name \in Texts : Names(s) = Append(Names(up), name)
               /\ NoEmptyPart(s) =>
                     /\ NoEmptyPart(up)
                     /\ Names(s) = <<>> \/ \E name \in Texts : Names(s) = Append(Names(up), name)
                     /\ (Absolute(s) => Len(Names(s)) > 1) => (Absolute(up) <=> Absolute(s))
<1> DEFINE c == SubSeq(s, 1, Len(s) - 1)
           L == LastSlash(c)
           u == SubSeq(s, 1, L)
           up == IF L <= 1 THEN <<>> ELSE u
           part == Tail0(c)
           sl == <<"/">>
<1>1. Len(s) \in Nat /\ Len(s) > 0 /\ s[Len(s)] = "/" /\ Len(s) - 1 \in 0..Len(s)
  BY LenProperties, EmptySeq DEF Texts, Ended
<1>2. c \in Texts /\ Len(c) = Len(s) - 1 /\ \A i \in 1..(Len(s) - 1) : c[i] = s[i]
  BY <1>1, Beginning DEF Texts
<1>3. s = c \o sl
  <2>1. 1 \in 1..(Len(s) + 1) /\ Len(s) - 1 \in (1 - 1)..Len(s) /\ Len(s) \in (Len(s) - 1)..Len(s)
    BY <1>1
  <2>2. SubSeq(s, 1, Len(s) - 1) \o SubSeq(s, (Len(s) - 1) + 1, Len(s)) = SubSeq(s, 1, Len(s))
    BY <2>1, ConcatAdjacentSubSeq DEF Texts
  <2>3. SubSeq(s, 1, Len(s)) = s
    BY SubSeqFull DEF Texts
  <2>4. (Len(s) - 1) + 1 = Len(s)
    BY <1>1
  <2>5. SubSeq(s, Len(s), Len(s)) = sl
    <3> DEFINE e == SubSeq(s, Len(s), Len(s))
    <3>1. Len(s) \in Int /\ 1 <= Len(s) /\ Len(s) <= Len(s) + 1 /\ Len(s) <= Len(s)
      BY <1>1
    <3>2. /\ e \in Seq(Characters) /\ Len(e) = Len(s) - Len(s) + 1
          /\ \A i \in 1..(Len(s) - Len(s) + 1) : e[i] = s[Len(s) + i - 1]
      BY <3>1, PartOf DEF Texts
    <3> HIDE DEF e
    <3>3. Len(s) - Len(s) + 1 = 1 /\ 1 \in 1..1 /\ Len(s) + 1 - 1 = Len(s)
      BY <1>1
    <3>4. Len(e) = 1 /\ e[1] = "/"
      BY <1>1, <3>2, <3>3
    <3>5. sl \in Seq(Characters) /\ Len(sl) = 1 /\ sl[1] = "/"
      <4>1. "/" \in Characters
        BY DEF Characters
      <4> QED
        BY <4>1
    <3> HIDE DEF sl
    <3>6. \A i \in 1..Len(e) : e[i] = sl[i]
      BY <3>4, <3>5
    <3>7. e = sl
      BY <3>2, <3>4, <3>5, <3>6, SeqEqual
    <3> QED
      BY <3>7 DEF e
  <2> QED
    BY <2>2, <2>3, <2>4, <2>5, Zenon
<1> HIDE DEF c, sl
<1>4. L \in 0..Len(c) /\ (L # 0 => c[L] = "/") /\ \A i \in 1..Len(c) : i > L => c[i] # "/"
  BY <1>2, LastSlashFact
<1>5. part \in Texts /\ SlashFree(part) /\ Len(part) = Len(c) - L
  BY <1>2, TailFact
<1>6. part \notin Dots
  <2>1. PartEnding(s, Len(s)) = part
    BY DEF PartEnding, c
  <2>2. Len(s) \in 1..Len(s)
    BY <1>1
  <2> QED
    BY <1>1, <2>1, <2>2 DEF PlainDirs
<1> HIDE DEF L
<1>7. L \in 0..Len(s) /\ L \in 0..(Len(s) - 1)
  BY <1>1, <1>2, <1>4
<1>8. u \in Texts /\ Len(u) = L /\ \A i \in 1..L : u[i] = s[i]
  BY <1>7, Beginning DEF Texts
<1>9. Ended(u)
  BY <1>2, <1>4, <1>7, <1>8, EmptySeq DEF Ended, Texts
<1>10. c = u \o part
  <2>1. 1 \in 1..(Len(c) + 1) /\ L \in (1 - 1)..Len(c) /\ Len(c) \in L..Len(c)
    BY <1>1, <1>2, <1>4
  <2>2. SubSeq(c, 1, L) \o SubSeq(c, L + 1, Len(c)) = SubSeq(c, 1, Len(c))
    BY <1>2, <2>1, ConcatAdjacentSubSeq DEF Texts
  <2>3. SubSeq(c, 1, Len(c)) = c
    BY <1>2, SubSeqFull DEF Texts
  <2>4. part = SubSeq(c, L + 1, Len(c))
    BY DEF Tail0, L
  <2>5. SubSeq(c, 1, L) = u
    <3> DEFINE v == SubSeq(c, 1, L)
    <3>1. v \in Texts /\ Len(v) = L /\ \A i \in 1..L : v[i] = c[i]
      BY <1>2, <1>4, Beginning DEF Texts
    <3> HIDE DEF v, u
    <3>2. \A i \in 1..Len(v) : v[i] = u[i]
      BY <1>2, <1>4, <1>8, <3>1
    <3>3. v = u
      BY <1>8, <3>1, <3>2, SeqEqual DEF Texts
    <3> QED
      BY <3>3 DEF v
  <2> QED
    BY <2>2, <2>3, <2>4, <2>5, Zenon
<1> HIDE DEF part, u
<1>11. Names(s) = Into(Names(u), part)
  <2>1. Names(s) = Names(c)
    BY <1>2, <1>3, NamesSlash DEF sl
  <2>2. Names(u \o part) = Into(Names(u), part)
    BY <1>5, <1>8, <1>9, NamesPart
  <2> QED
    BY <1>10, <2>1, <2>2
<1>12. Names(s) = IF part = <<>> THEN Names(u) ELSE Append(Names(u), part)
  BY <1>6, <1>11 DEF Into, Dots
<1>13. <<>> \in Texts /\ Names(<<>>) = <<>> /\ Ended(<<>>) /\ PlainDirs(<<>>) /\ Len(<<>>) = 0
  <2>1. <<>> \in Texts /\ Len(<<>>) = 0
    BY EmptySeq DEF Texts
  <2>2. Names(<<>>) = Entered(<<>>)[0]
    BY <2>1, NamesEnded DEF Ended
  <2>3. Entered(<<>>)[0] = <<>>
    BY <2>1, EnteredStep
  <2> QED
    BY <2>1, <2>2, <2>3 DEF Ended, PlainDirs
<1>14. L = 1 => Names(u) = <<>>
  <2> SUFFICES ASSUME L = 1 PROVE Names(u) = <<>>
    OBVIOUS
  <2>1. Names(u) = Entered(u)[1]
    BY <1>8, <1>9, NamesEnded
  <2>2. u[1] = "/" /\ 1 \in 1..Len(u) /\ 1 - 1 = 0
    BY <1>2, <1>4, <1>8
  <2>3. Entered(u)[1] = Into(Entered(u)[1 - 1], PartEnding(u, 1)) /\ Entered(u)[0] = <<>>
    BY <1>8, <2>2, EnteredStep
  <2>4. PartEnding(u, 1) \in Texts /\ Len(PartEnding(u, 1)) <= 1 - 1
    <3>1. 1 \in 1..(Len(u) + 1)
      BY <1>8
    <3> QED
      BY <1>8, <3>1, PartEndingType
  <2>5. PartEnding(u, 1) = <<>>
    <3>1. Len(PartEnding(u, 1)) \in Nat
      BY <2>4, LenProperties DEF Texts
    <3>2. Len(PartEnding(u, 1)) = 0
      BY <2>4, <3>1
    <3> QED
      BY <2>4, <3>2, EmptySeq DEF Texts
  <2>6. Into(<<>>, <<>>) = <<>>
    BY DEF Into
  <2> QED
    BY <2>1, <2>2, <2>3, <2>5, <2>6
<1>15. Names(up) = Names(u)
  <2>1. L = 0 => u = <<>>
    BY <1>8, EmptySeq DEF Texts
  <2>2. L <= 1 => L = 0 \/ L = 1
    BY <1>7
  <2> QED
    BY <1>13, <1>14, <2>1, <2>2
<1>16. up \in Texts /\ Ended(up) /\ PlainDirs(up)
  <2>1. PlainDirs(u)
    BY <1>7, PlainBeginning DEF u
  <2> QED
    BY <1>8, <1>9, <1>13, <2>1
<1>17. ASSUME NoEmptyPart(s)
       PROVE  /\ NoEmptyPart(up)
              /\ Names(s) = <<>> \/ Names(s) = Append(Names(up), part)
              /\ (Absolute(s) => Len(Names(s)) > 1) => (Absolute(up) <=> Absolute(s))
  <2>1. NoEmptyPart(u)
    <3>1. \A i \in 2..L : u[i - 1] = s[i - 1] /\ u[i] = s[i] /\ i \in 2..Len(s)
      BY <1>1, <1>7, <1>8
    <3> QED
      BY <1>8, <1>17, <3>1 DEF NoEmptyPart
  <2>2. NoEmptyPart(up)
    <3>1. NoEmptyPart(<<>>)
      BY <1>13 DEF NoEmptyPart
    <3> QED
      BY <2>1, <3>1
  <2>3. part = <<>> => Len(s) = 1
    <3> SUFFICES ASSUME part = <<>>, Len(s) # 1 PROVE FALSE
      OBVIOUS
    <3>1. L = Len(s) - 1 /\ Len(s) \in 2..Len(s)
      BY <1>1, <1>2, <1>4, <1>5, <1>13
    <3>2. s[Len(s) - 1] = "/" /\ s[Len(s)] = "/"
      BY <1>1, <1>2, <1>4, <3>1
    <3> QED
      BY <1>17, <3>1, <3>2 DEF NoEmptyPart
  <2>4. part = <<>> => Names(s) = <<>>
    <3> SUFFICES ASSUME part = <<>> PROVE Names(s) = <<>>
      OBVIOUS
    <3>1. L = 0
      <4>1. Len(s) = 1
        BY <2>3
      <4> QED
        BY <1>7, <4>1
    <3>2. u = <<>>
      BY <1>8, <3>1, EmptySeq DEF Texts
    <3> QED
      BY <1>12, <1>13, <3>2
  <2>5. ASSUME Absolute(s) => Len(Names(s)) > 1
        PROVE  Absolute(up) <=> Absolute(s)
    <3>1. CASE L <= 1
      <4>1. SUFFICES ASSUME Absolute(s) PROVE FALSE
        BY <3>1 DEF Absolute
      <4>2. Len(Names(s)) > 1 /\ s[1] = "/"
        BY <2>5, <4>1 DEF Absolute
      <4>3. L # 1 => L = 0 /\ u = <<>> /\ Len(s) = 1
        <5> SUFFICES ASSUME L # 1 PROVE L = 0 /\ u = <<>> /\ Len(s) = 1
          OBVIOUS
        <5>1. L = 0
          BY <1>7, <3>1
        <5>2. u = <<>>
          BY <1>8, <5>1, EmptySeq DEF Texts
        <5>3. Len(s) = 1
          <6>1. 1 \in 1..(Len(s) - 1) => c[1] # "/" /\ c[1] = s[1]
            BY <1>2, <1>4, <5>1
          <6>2. s[1] = "/"
            BY <4>2
          <6>3. Len(s) # 1 => 1 \in 1..(Len(s) - 1)
            BY <1>1
          <6> QED
            BY <6>1, <6>2, <6>3
        <5> QED
          BY <5>1, <5>2, <5>3
      <4>4. Names(u) = <<>>
        BY <1>13, <1>14, <4>3
      <4>5. Len(Append(<<>>, part)) = 1
        BY <1>5, <1>13, AppendProperties, EmptySeq
      <4> QED
        BY <1>12, <1>13, <4>2, <4>4, <4>5
    <3>2. CASE ~(L <= 1)
      <4>1. up = u /\ L > 1 /\ 1 \in 1..L
        BY <1>7, <3>2
      <4>2. u # <<>> /\ u[1] = s[1]
        BY <1>8, <1>13, <4>1
      <4> QED
        BY <4>1, <4>2 DEF Absolute
    <3> QED
      BY <3>1, <3>2
  <2> HIDE DEF up
  <2> QED
    BY <1>12, <1>15, <2>2, <2>4, <2>5
<1> HIDE DEF up
<1>18. Names(s) = Names(up) \/ \E name \in Texts : Names(s) = Append(Names(up), name)
  BY <1>5, <1>12, <1>15
<1> QED
  BY <1>5, <1>7, <1>16, <1>17, <1>18 DEF up, u, L, c

(* What MoveUpPath leaves of a text that ends with a slash.                 *)
LEMMA MoveUpText ==
    ASSUME NEW P, PathOK(P), Text(P) # <<>>, Ended(Text(P)), PlainDirs(Text(P))
    PROVE  LET s == Text(P)
               up == Text(MoveUpPath(P, 1))
           IN  /\ P.WriteCur > 0
               /\ up \in Texts /\ Ended(up) /\ PlainDirs(up)
               /\ Names(s) = Names(up) \/ \E name \in Texts : Names(s) = Append(Names(up), name)
               /\ NoEmptyPart(s) =>
                     /\ NoEmptyPart(up)
                     /\ Names(s) = <<>> \/ \E name \in Texts : Names(s) = Append(Names(up), name)
                     /\ (Absolute(s) => Len(Names(s)) > 1) => (Absolute(up) <=> Absolute(s))
<1> DEFINE s == Text(P)
           w == P.WriteCur
           c == SubSeq(s, 1, Len(s) - 1)
           L == LastSlash(c)
           u == SubSeq(s, 1, L)
           up == IF L <= 1 THEN <<>> ELSE u
           one == UpFrom(P.mem, Unslashed(P))
           Q == [mem |-> P.mem, WriteCur |-> IF one > 0 THEN one + 1 ELSE 0]
<1>1. s \in Texts /\ Len(s) = w /\ (\A i \in 1..w : s[i] = P.mem[i]) /\ w \in 0..Size /\ Size \in Nat
  BY TextFact, SizeType DEF PathOK
<1>2. w > 0 /\ w \in 1..w /\ P.mem[w] = "/"
  <2>1. w # 0
    BY <1>1, EmptySeq DEF Texts
  <2> HIDE DEF s
  <2>2. s[w] = "/"
    BY <1>1 DEF Ended, s
  <2> QED
    BY <1>1, <2>1, <2>2
<1>3. Unslashed(P) = w - 1
  BY <1>2 DEF Unslashed
<1>4. c = SubSeq(P.mem, 1, w - 1)
  <2> DEFINE v == SubSeq(P.mem, 1, w - 1)
  <2>1. w - 1 \in 0..Len(s) /\ w - 1 \in 0..Len(P.mem) /\ \A i \in 1..(w - 1) : i \in 1..w /\ P.mem[i] # NUL
    BY <1>1, <1>2, SizeType DEF PathOK
  <2>2. v \in Texts /\ Len(v) = w - 1 /\ \A i \in 1..(w - 1) : v[i] = P.mem[i]
    BY <2>1, TextOfMemory DEF PathOK
  <2> HIDE DEF s, v
  <2> DEFINE m == w - 1
  <2>3. SubSeq(s, 1, m) \in Texts /\ Len(SubSeq(s, 1, m)) = m /\ \A i \in 1..m : SubSeq(s, 1, m)[i] = s[i]
    <3>1. m \in 0..Len(s)
      BY <2>1
    <3> HIDE DEF m
    <3> QED
      BY <1>1, <3>1, Beginning DEF Texts
  <2>4. c = SubSeq(s, 1, m)
    <3>1. Len(s) - 1 = m
      BY <1>1
    <3> QED
      BY <3>1
  <2> HIDE DEF c
  <2>5. c \in Texts /\ Len(c) = w - 1 /\ \A i \in 1..(w - 1) : c[i] = s[i]
    BY <2>3, <2>4
  <2>6. \A i \in 1..Len(c) : c[i] = v[i]
    BY <1>1, <2>1, <2>2, <2>5
  <2>7. c = v
    BY <2>2, <2>5, <2>6, SeqEqual DEF Texts
  <2> QED
    BY <2>7 DEF v
<1>5. one = IF L = 0 THEN 0 ELSE L - 1
  BY <1>3, <1>4 DEF UpFrom
<1>6. MoveUpPath(P, 1) = Q
  <2>1. P = [mem |-> P.mem, WriteCur |-> P.WriteCur]
    BY DEF PathOK
  <2>2. 1 \in {1, 2}
    OBVIOUS
  <2> HIDE DEF one
  <2> QED
    BY <2>1, <2>2, MoveUpIs DEF one
<1> HIDE DEF c
<1>7. /\ L \in 0..(Len(s) - 1)
      /\ up \in Texts /\ Ended(up) /\ PlainDirs(up)
      /\ Names(s) = Names(up) \/ \E name \in Texts : Names(s) = Append(Names(up), name)
      /\ NoEmptyPart(s) =>
            /\ NoEmptyPart(up)
            /\ Names(s) = <<>> \/ \E name \in Texts : Names(s) = Append(Names(up), name)
            /\ (Absolute(s) => Len(Names(s)) > 1) => (Absolute(up) <=> Absolute(s))
  <2> HIDE DEF s, up, L
  <2> QED
    BY <1>1, UpText DEF s, up, L, c
<1>8. Text(Q) = up
  <2>1. PathOK(Q)
    BY <1>2, <1>6, MoveUpOK
  <2> HIDE DEF one
  <2>2. Q.WriteCur = (IF L <= 1 THEN 0 ELSE L) /\ Q.mem = P.mem
    <3> HIDE DEF L
    <3> QED
      BY <1>1, <1>2, <1>5, <1>7
  <2> HIDE DEF Q
  <2>3. /\ Text(Q) \in Texts /\ Len(Text(Q)) = Q.WriteCur
        /\ \A i \in 1..Q.WriteCur : Text(Q)[i] = Q.mem[i]
    BY <2>1, TextFact
  <2>4. CASE L <= 1
    <3>1. Text(Q) = <<>>
      BY <2>2, <2>3, <2>4, EmptySeq DEF Texts
    <3> QED
      BY <2>4, <3>1
  <2>5. CASE ~(L <= 1)
    <3> HIDE DEF s, L
    <3>1. L \in 0..Len(s)
      BY <1>1, <1>7
    <3>2. u \in Texts /\ Len(u) = L /\ \A i \in 1..L : u[i] = s[i]
      BY <1>1, <3>1, Beginning DEF Texts
    <3> HIDE DEF u
    <3>3. Len(Text(Q)) = Len(u) /\ \A i \in 1..Len(u) : Text(Q)[i] = u[i]
      BY <1>1, <2>2, <2>3, <2>5, <3>1, <3>2
    <3>4. Text(Q) = u
      BY <2>3, <3>2, <3>3, SeqEqual DEF Texts
    <3> QED
      BY <2>5, <3>4
  <2> QED
    BY <2>4, <2>5
<1> HIDE DEF s, up, Q
<1> QED
  BY <1>2, <1>6, <1>7, <1>8 DEF s

-----------------------------------------------------------------------------
(* The loop of _AppendPathToPath.                                           *)

(* A round that comes to a slash.                                           *)
LEMMA TakePartFact ==
    ASSUME NEW P, PathOK(P), NEW part \in Texts, part = <<".", ".">> => P.WriteCur > 0
    PROVE  LET r == TakePart(part, P)
           IN  /\ r = [ok |-> r.ok, path |-> r.path] /\ r.ok \in BOOLEAN /\ PathOK(r.path)
               /\ part = <<".">> => r.ok /\ r.path = P
               /\ part = <<".", ".">> => r.ok /\ r.path = MoveUpPath(P, 1)
               /\ part \notin Dots =>
                     /\ r.path.WriteCur >= P.WriteCur
                     /\ \A i \in 1..P.WriteCur : r.path.mem[i] = P.mem[i]
                     /\ r.ok => /\ Text(r.path) = (Text(P) \o part) \o <<"/">>
                                /\ r.path.WriteCur = P.WriteCur + Len(part) + 1
                     /\ Len(part) + 1 <= Size - P.WriteCur => r.ok
<1> DEFINE sl == <<"/">>
           whole == part \o sl
           r == TakePart(part, P)
<1>1. sl \in Texts /\ Len(sl) = 1
  <2>1. "/" \in Characters
    BY DEF Characters
  <2> QED
    BY <2>1 DEF Texts
<1> HIDE DEF sl
<1>2. whole \in Texts /\ Len(whole) = Len(part) + 1
  <2>1. sl \in Seq(Characters) /\ part \in Seq(Characters)
    BY <1>1 DEF Texts
  <2>2. part \o sl \in Seq(Characters) /\ Len(part \o sl) = Len(part) + Len(sl)
    BY <2>1, Joined
  <2> QED
    BY <1>1, <2>2 DEF Texts
<1>3. Len(part) \in Nat /\ P.WriteCur \in 0..Size /\ Size \in Nat /\ MAX_PATH_SIZE = Size + 1
  BY LenProperties, SizeType DEF Texts, PathOK
<1>4. <<".">> # <<".", ".">>
  <2>1. Len(<<".">>) = 1 /\ Len(<<".", ".">>) = 2
    OBVIOUS
  <2> QED
    BY <2>1
<1>5. CASE part = <<".">>
  <2>1. r = Done(P)
    BY <1>5 DEF TakePart
  <2> HIDE DEF r
  <2>2. r = [ok |-> TRUE, path |-> P]
    BY <2>1 DEF Done
  <2>3. r.ok /\ r.path = P
    BY <2>2
  <2> QED
    BY <1>4, <1>5, <2>2, <2>3 DEF Dots, r
<1>6. CASE part = <<".", ".">>
  <2>1. r = Done(MoveUpPath(P, 1))
    BY <1>4, <1>6 DEF TakePart
  <2>2. PathOK(MoveUpPath(P, 1))
    <3>1. P.WriteCur > 0 /\ 1 \in {1, 2}
      BY <1>6
    <3> QED
      BY <3>1, MoveUpOK
  <2> HIDE DEF r
  <2>3. r = [ok |-> TRUE, path |-> MoveUpPath(P, 1)]
    BY <2>1 DEF Done
  <2>4. r.ok /\ r.path = MoveUpPath(P, 1)
    BY <2>3
  <2> QED
    BY <1>4, <1>6, <2>2, <2>3, <2>4 DEF Dots, r
<1>7. CASE part \notin Dots
  <2>1. part # <<".">> /\ part # <<".", ".">>
    BY <1>7 DEF Dots
  <2>2. r = IF Fits(whole, P) THEN Done(Put(whole, P))
            ELSE IF Fits(part, P) THEN Failed(Put(part, P)) ELSE Failed(P)
    BY <2>1 DEF TakePart, sl
  <2> HIDE DEF r, whole
  <2>3. \A i \in 1..P.WriteCur : i \in 1..MAX_PATH_SIZE /\ i <= P.WriteCur
    BY <1>3
  <2>4. CASE Fits(whole, P)
    <3> DEFINE Q == Put(whole, P)
    <3>1. /\ PathOK(Q) /\ Q.WriteCur = P.WriteCur + Len(whole)
          /\ Text(Q) = Text(P) \o whole
          /\ \A i \in 1..MAX_PATH_SIZE : i <= P.WriteCur => Q.mem[i] = P.mem[i]
      BY <1>2, <2>4, PutFact
    <3> HIDE DEF Q
    <3>2. r = [ok |-> TRUE, path |-> Q]
      BY <2>2, <2>4 DEF Done, Q
    <3>3. r.ok /\ r.path = Q
      BY <3>2
    <3>4. Text(P) \o whole = (Text(P) \o part) \o sl
      <4>1. Text(P) \in Seq(Characters) /\ part \in Seq(Characters) /\ sl \in Seq(Characters)
        BY <1>1, TextFact DEF Texts
      <4>2. (Text(P) \o part) \o sl = Text(P) \o (part \o sl)
        BY <4>1, ConcatAssociative
      <4> QED
        BY <4>2 DEF whole
    <3>5. Q.WriteCur >= P.WriteCur /\ Q.WriteCur = P.WriteCur + Len(part) + 1
      <4>1. Q.WriteCur = P.WriteCur + Len(whole)
        BY <3>1
      <4>2. Len(whole) = Len(part) + 1
        BY <1>2
      <4> QED
        BY <1>3, <4>1, <4>2
    <3> QED
      BY <2>1, <2>3, <3>1, <3>2, <3>3, <3>4, <3>5 DEF r, sl
  <2>5. CASE ~Fits(whole, P) /\ Fits(part, P)
    <3> DEFINE Q == Put(part, P)
    <3>1. /\ PathOK(Q) /\ Q.WriteCur = P.WriteCur + Len(part)
          /\ \A i \in 1..MAX_PATH_SIZE : i <= P.WriteCur => Q.mem[i] = P.mem[i]
      BY <2>5, PutFact
    <3> HIDE DEF Q
    <3>2. r = [ok |-> FALSE, path |-> Q]
      BY <2>2, <2>5 DEF Failed, Q
    <3>3. ~r.ok /\ r.path = Q
      BY <3>2
    <3>4. Q.WriteCur >= P.WriteCur
      BY <1>3, <3>1
    <3>5. ~(Len(part) + 1 <= Size - P.WriteCur)
      BY <1>2, <2>5 DEF Fits
    <3> QED
      BY <2>1, <2>3, <3>1, <3>2, <3>3, <3>4, <3>5 DEF r
  <2>6. CASE ~Fits(whole, P) /\ ~Fits(part, P)
    <3>1. r = [ok |-> FALSE, path |-> P]
      BY <2>2, <2>6 DEF Failed
    <3>2. ~r.ok /\ r.path = P
      BY <3>1
    <3>3. ~(Len(part) + 1 <= Size - P.WriteCur)
      BY <1>2, <2>6 DEF Fits
    <3> QED
      BY <1>3, <2>1, <3>1, <3>2, <3>3 DEF r
  <2> QED
    BY <2>4, <2>5, <2>6
<1> QED
  BY <1>5, <1>6, <1>7 DEF Dots

(* Taken, round by round.                                                   *)
LEMMA TakenStep ==
    ASSUME NEW s \in Texts, NEW start
    PROVE  /\ Taken(s, start)[0] = Done(start)
           /\ \A i \in 1..Len(s) :
                 Taken(s, start)[i] =
                    IF ~Taken(s, start)[i - 1].ok \/ s[i] # "/" THEN Taken(s, start)[i - 1]
                    ELSE TakePart(PartEnding(s, i), Taken(s, start)[i - 1].path)
<1> DEFINE step(i, v) ==
              IF ~v.ok \/ s[i] # "/" THEN v ELSE TakePart(PartEnding(s, i), v.path)
           upTo(m, g) == g = [i \in 0..m |-> IF i = 0 THEN Done(start) ELSE step(i, g[i - 1])]
           n == Len(s)
           T == {m \in 0..n : \E g : upTo(m, g)}
<1>1. n \in Nat
  BY LenProperties DEF Texts
<1>2. \E g : upTo(n, g)
  <2> HIDE DEF step, n
  <2>1. 0 \in T
    <3>1. upTo(0, [i \in 0..0 |-> Done(start)])
      OBVIOUS
    <3> HIDE DEF upTo
    <3> QED
      BY <1>1, <3>1
  <2>2. \A m \in 1..n : m - 1 \in T => m \in T
    <3> SUFFICES ASSUME NEW m \in 1..n, m - 1 \in T PROVE m \in T
      OBVIOUS
    <3>1. PICK g : upTo(m - 1, g)
      OBVIOUS
    <3> DEFINE h == [i \in 0..m |-> IF i = 0 THEN Done(start) ELSE step(i, g[i - 1])]
    <3>2. \A i \in 0..(m - 1) : h[i] = g[i]
      BY <1>1, <3>1
    <3>3. \A i \in 0..m : i # 0 => i - 1 \in 0..(m - 1)
      BY <1>1
    <3>4. h = [i \in 0..m |-> IF i = 0 THEN Done(start) ELSE step(i, h[i - 1])]
      <4>1. \A i \in 0..m : i # 0 => h[i - 1] = g[i - 1]
        <5> HIDE DEF h
        <5> QED
          BY <3>2, <3>3
      <4> QED
        BY <4>1
    <3>5. upTo(m, h)
      <4> HIDE DEF h
      <4> QED
        BY <3>4
    <3> HIDE DEF upTo, h
    <3> QED
      BY <1>1, <3>5
  <2>3. \A m \in 0..n : m \in T
    <3> HIDE DEF T
    <3> QED
      BY <1>1, <2>1, <2>2, Rounds
  <2> HIDE DEF upTo
  <2> QED
    BY <1>1, <2>3
<1> DEFINE E == Taken(s, start)
           Is(g) == g = [i \in 0..Len(s) |->
                           IF i = 0 THEN Done(start)
                           ELSE IF ~g[i - 1].ok \/ s[i] # "/" THEN g[i - 1]
                           ELSE TakePart(PartEnding(s, i), g[i - 1].path)]
<1>3. Is(E)
  <2>1. E = CHOOSE g : Is(g)
    BY DEF Taken
  <2>2. \E g : Is(g)
    BY <1>2
  <2> HIDE DEF E, Is
  <2> QED
    BY <2>1, <2>2, Zenon
<1> HIDE DEF E
<1>4. E[0] = Done(start)
  BY <1>1, <1>3
<1>5. ASSUME NEW i \in 1..Len(s)
      PROVE  E[i] = IF ~E[i - 1].ok \/ s[i] # "/" THEN E[i - 1]
                    ELSE TakePart(PartEnding(s, i), E[i - 1].path)
  <2>1. i \in 0..Len(s) /\ i # 0
    BY <1>1
  <2> QED
    BY <1>3, <2>1
<1> QED
  BY <1>4, <1>5 DEF E

\* A part of s that MoveUpPath is called for
IsUp(s, i) == s[i] = "/" /\ PartEnding(s, i) = <<".", ".">>

\* What the loop keeps, wherever it leads.
Kept(r, names, start) ==
    /\ r = [ok |-> r.ok, path |-> r.path] /\ r.ok \in BOOLEAN /\ PathOK(r.path)
    /\ r.ok => /\ Ended(Text(r.path))
               /\ PlainDirs(Text(start)) => PlainDirs(Text(r.path))
               /\ Len(Names(Text(r.path))) >= Len(names)

(* The empty text leads nowhere.                                            *)
LEMMA EmptyText ==
    <<>> \in Texts /\ Names(<<>>) = <<>> /\ Ended(<<>>) /\ PlainDirs(<<>>) /\ Len(<<>>) = 0
<1>1. <<>> \in Texts /\ Len(<<>>) = 0
  BY EmptySeq DEF Texts
<1>2. Names(<<>>) = Entered(<<>>)[0]
  BY <1>1, NamesEnded DEF Ended
<1>3. Entered(<<>>)[0] = <<>>
  BY <1>1, EnteredStep
<1> QED
  BY <1>1, <1>2, <1>3 DEF Ended, PlainDirs

(* Entering a part: how many names there are then.                          *)
LEMMA IntoLength ==
    ASSUME NEW names \in Seq(Texts), NEW part \in Texts
    PROVE  /\ part = <<>> \/ part = <<".">> => Into(names, part) = names
           /\ part = <<".", ".">> =>
                 /\ Into(names, part) = Front0(names)
                 /\ Len(names) > 0 => Len(Into(names, part)) = Len(names) - 1
           /\ part # <<>> /\ part \notin Dots =>
                 Into(names, part) = Append(names, part) /\ Len(Into(names, part)) = Len(names) + 1
<1>1. Len(<<".">>) = 1 /\ Len(<<".", ".">>) = 2 /\ Len(<<>>) = 0
  OBVIOUS
<1>2. <<".", ".">> # <<".">> /\ <<".", ".">> # <<>>
  BY <1>1
<1>3. part = <<".", ".">> => Into(names, part) = Front0(names)
  BY <1>2 DEF Into
<1>4. Len(names) > 0 => Len(Front0(names)) = Len(names) - 1
  <2> SUFFICES ASSUME Len(names) > 0 PROVE Len(Front0(names)) = Len(names) - 1
    OBVIOUS
  <2>1. Len(names) \in Nat
    BY LenProperties
  <2>2. Len(names) - 1 \in 0..Len(names)
    BY <2>1
  <2> QED
    BY <2>2, Beginning DEF Front0
<1>5. part # <<>> /\ part \notin Dots => Into(names, part) = Append(names, part)
  BY DEF Into, Dots
<1>6. Len(Append(names, part)) = Len(names) + 1
  BY AppendProperties
<1> QED
  BY <1>3, <1>4, <1>5, <1>6 DEF Into

(* The text with a part and a slash more.                                   *)
LEMMA WithPart ==
    ASSUME NEW s \in Texts, Ended(s), NEW part \in Texts, SlashFree(part), part \notin Dots
    PROVE  LET t == (s \o part) \o <<"/">>
           IN  /\ t \in Texts /\ Ended(t) /\ Len(t) = Len(s) + Len(part) + 1
               /\ \A i \in 1..Len(s) : t[i] = s[i]
               /\ \A i \in 1..Len(part) : t[Len(s) + i] = part[i]
               /\ t[Len(t)] = "/"
               /\ Names(t) = Into(Names(s), part)
               /\ PlainDirs(s) => PlainDirs(t)
<1> DEFINE f == s \o part
           sl == <<"/">>
           t == f \o sl
<1>1. Len(s) \in Nat /\ Len(part) \in Nat
  BY LenProperties DEF Texts
<1>2. /\ f \in Texts /\ Len(f) = Len(s) + Len(part)
      /\ \A i \in 1..Len(s) : f[i] = s[i]
      /\ \A i \in 1..Len(part) : f[Len(s) + i] = part[i]
  BY Joined DEF Texts
<1>3. Names(f) = Into(Names(s), part) /\ Tail0(f) = part
  BY NamesPart
<1>4. PlainDirs(s) => PlainDirs(f)
  BY PlainJoined
<1> HIDE DEF f
<1>5. Names(t) = Names(f) /\ Ended(t) /\ t \in Texts
  BY <1>2, NamesSlash
<1>6. PlainDirs(s) => PlainDirs(t)
  <2> SUFFICES ASSUME PlainDirs(s) PROVE PlainDirs(t)
    OBVIOUS
  <2>1. Plain(f)
    BY <1>2, <1>3, <1>4, PlainMeans
  <2> QED
    BY <1>2, <2>1, PlainJoined
<1>7. /\ Len(t) = Len(f) + 1 /\ \A i \in 1..Len(f) : t[i] = f[i]
      /\ t[Len(f) + 1] = "/"
  <2>1. sl \in Texts /\ Len(sl) = 1 /\ sl[1] = "/"
    <3>1. "/" \in Characters
      BY DEF Characters
    <3> QED
      BY <3>1 DEF Texts
  <2> HIDE DEF sl
  <2>2. f \in Seq(Characters) /\ sl \in Seq(Characters)
    BY <1>2, <2>1 DEF Texts
  <2>3. /\ Len(f \o sl) = Len(f) + Len(sl)
        /\ \A i \in 1..Len(f) : (f \o sl)[i] = f[i]
        /\ \A i \in 1..Len(sl) : (f \o sl)[Len(f) + i] = sl[i]
    BY <2>2, Joined
  <2>4. 1 \in 1..Len(sl)
    BY <2>1
  <2> HIDE DEF t
  <2> QED
    BY <2>1, <2>3, <2>4 DEF t
<1> HIDE DEF t
<1>8. Len(t) = Len(s) + Len(part) + 1 /\ t[Len(t)] = "/"
  BY <1>1, <1>2, <1>7
<1>9. \A i \in 1..Len(s) : t[i] = s[i]
  BY <1>1, <1>2, <1>7
<1>10. \A i \in 1..Len(part) : t[Len(s) + i] = part[i]
  <2>1. \A i \in 1..Len(part) : Len(s) + i \in 1..Len(f)
    BY <1>1, <1>2
  <2> QED
    BY <1>2, <1>7, <2>1
<1> QED
  BY <1>3, <1>5, <1>6, <1>8, <1>9, <1>10 DEF t, f

(* In every round the path is a path that ends with a slash, has only names
   if it had only names, and leads at least as far down.                    *)
LEMMA LoopKeeps ==
    ASSUME NEW s \in Texts, NEW start, PathOK(start), Ended(Text(start)),
           NEW u \in Texts, Ended(u), Names(Text(start)) = Names(u),
           \A i \in 1..Len(s) : IsUp(s, i) =>
              PlainDirs(Text(start)) /\ Len(Entered(u \o s)[Len(u) + (i - 1)]) > 0
    PROVE  \A i \in 0..Len(s) : Kept(Taken(s, start)[i], Entered(u \o s)[Len(u) + i], start)
<1> DEFINE R == Taken(s, start)
           E == [i \in 0..Len(s) |-> Entered(u \o s)[Len(u) + i]]
           T == {i \in 0..Len(s) : Kept(R[i], E[i], start)}
<1>1. Len(s) \in Nat /\ Len(u) \in Nat /\ Len(u) + 0 = Len(u)
  BY LenProperties DEF Texts
<1>2. /\ E[0] = Names(u)
      /\ \A i \in 1..Len(s) : /\ s[i] # "/" => E[i] = E[i - 1]
                              /\ s[i] = "/" => E[i] = Into(E[i - 1], PartEnding(s, i))
  <2>1. 0 \in 0..Len(s) /\ \A i \in 1..Len(s) : i \in 0..Len(s) /\ i - 1 \in 0..Len(s)
    BY <1>1
  <2> QED
    BY <1>1, <2>1, EnteredBehind
<1>3. \A i \in 0..Len(s) : E[i] \in Seq(Texts)
  <2>1. u \o s \in Texts /\ Len(u \o s) = Len(u) + Len(s)
    BY Joined DEF Texts
  <2>2. \A i \in 0..Len(s) : Len(u) + i \in 0..(Len(u) + Len(s))
    BY <1>1
  <2> QED
    BY <2>1, <2>2, NamesType
<1>4. \A i \in 1..Len(s) : IsUp(s, i) => PlainDirs(Text(start)) /\ Len(E[i - 1]) > 0
  <2>1. \A i \in 1..Len(s) : i - 1 \in 0..Len(s)
    BY <1>1
  <2> QED
    BY <2>1
<1>5. /\ R[0] = Done(start)
      /\ \A i \in 1..Len(s) :
            R[i] = IF ~R[i - 1].ok \/ s[i] # "/" THEN R[i - 1]
                   ELSE TakePart(PartEnding(s, i), R[i - 1].path)
  BY TakenStep
<1> HIDE DEF R, E
<1>6. 0 \in T
  <2>1. R[0] = [ok |-> TRUE, path |-> start]
    BY <1>5 DEF Done
  <2>2. R[0].ok /\ R[0].path = start
    BY <2>1
  <2>3. Len(Names(Text(start))) \in Nat
    BY <1>1, <1>2, <1>3, LenProperties
  <2>4. Kept(R[0], E[0], start)
    BY <1>2, <2>1, <2>2, <2>3 DEF Kept
  <2> QED
    BY <1>1, <2>4
<1>7. \A i \in 1..Len(s) : i - 1 \in T => i \in T
  <2> SUFFICES ASSUME NEW i \in 1..Len(s), Kept(R[i - 1], E[i - 1], start)
               PROVE  Kept(R[i], E[i], start)
    BY <1>1
  <2> DEFINE part == PartEnding(s, i)
             p == R[i - 1].path
             t == Text(p)
             old == E[i - 1]
             new == E[i]
             r == R[i]
  <2>1. part \in Texts /\ SlashFree(part)
    <3>1. i \in 1..(Len(s) + 1)
      BY <1>1
    <3> QED
      BY <3>1, PartEndingType
  <2>2. old \in Seq(Texts) /\ new \in Seq(Texts) /\ Len(old) \in Nat /\ Len(new) \in Nat
    <3>1. i \in 0..Len(s) /\ i - 1 \in 0..Len(s)
      BY <1>1
    <3>2. old \in Seq(Texts) /\ new \in Seq(Texts)
      BY <1>3, <3>1
    <3> QED
      BY <3>2, LenProperties
  <2> HIDE DEF part
  <2>3. CASE ~R[i - 1].ok \/ s[i] # "/"
    <3>1. r = R[i - 1] /\ (r.ok => s[i] # "/")
      BY <1>5, <2>3
    <3>2. r.ok => new = old
      BY <1>2, <3>1
    <3> QED
      BY <3>1, <3>2 DEF Kept
  <2>4. CASE R[i - 1].ok /\ s[i] = "/"
    <3>1. PathOK(p) /\ Ended(t) /\ (PlainDirs(Text(start)) => PlainDirs(t)) /\ Len(Names(t)) >= Len(old)
      BY <2>4 DEF Kept
    <3>2. t \in Texts /\ Names(t) \in Seq(Texts) /\ Len(Names(t)) \in Nat
      <4>1. t \in Texts
        BY <3>1, TextFact
      <4> HIDE DEF t
      <4>2. Names(t) \in Seq(Texts)
        BY <4>1, NamesType
      <4> QED
        BY <4>1, <4>2, LenProperties
    <3>3. r = TakePart(part, p)
      BY <1>5, <2>4 DEF part
    <3>4. new = Into(old, part)
      BY <1>2, <2>4 DEF part
    <3>5. part = <<".", ".">> => PlainDirs(t) /\ Len(old) > 0 /\ t # <<>> /\ p.WriteCur > 0
      <4> SUFFICES ASSUME part = <<".", ".">>
                   PROVE  PlainDirs(t) /\ Len(old) > 0 /\ t # <<>> /\ p.WriteCur > 0
        OBVIOUS
      <4>1. IsUp(s, i)
        BY <2>4 DEF IsUp, part
      <4>2. PlainDirs(Text(start)) /\ Len(old) > 0
        BY <1>4, <4>1
      <4>3. PlainDirs(t)
        BY <3>1, <4>2
      <4>4. t # <<>>
        <5> HIDE DEF t
        <5> QED
          BY <2>2, <3>1, <3>2, <4>2, EmptyText
      <4>5. p.WriteCur > 0
        BY <3>1, <4>3, <4>4, MoveUpText
      <4> QED
        BY <4>2, <4>3, <4>4, <4>5
    <3> HIDE DEF r, p
    <3>6. /\ r = [ok |-> r.ok, path |-> r.path] /\ r.ok \in BOOLEAN /\ PathOK(r.path)
          /\ part = <<".">> => r.ok /\ r.path = p
          /\ part = <<".", ".">> => r.ok /\ r.path = MoveUpPath(p, 1)
          /\ part \notin Dots => (r.ok => Text(r.path) = (t \o part) \o <<"/">>)
      BY <2>1, <3>1, <3>3, <3>5, TakePartFact
    <3>7. CASE part = <<".">>
      <4>1. new = old
        BY <2>1, <2>2, <3>4, <3>7, IntoLength
      <4>2. Text(r.path) = t
        BY <3>6, <3>7
      <4> HIDE DEF t
      <4>3. Kept(r, new, start)
        BY <3>1, <3>6, <4>1, <4>2 DEF Kept
      <4> QED
        BY <4>3 DEF r
    <3>8. CASE part = <<".", ".">>
      <4> DEFINE up == Text(MoveUpPath(p, 1))
      <4>1. /\ up \in Texts /\ Ended(up) /\ PlainDirs(up)
            /\ Names(t) = Names(up) \/ \E name \in Texts : Names(t) = Append(Names(up), name)
        BY <3>1, <3>5, <3>8, MoveUpText
      <4>2. Text(r.path) = up
        BY <3>6, <3>8
      <4> HIDE DEF t, up
      <4>3. Len(new) = Len(old) - 1
        BY <2>1, <2>2, <3>4, <3>5, <3>8, IntoLength
      <4>4. Names(up) \in Seq(Texts) /\ Len(Names(up)) \in Nat
        BY <4>1, NamesType, LenProperties
      <4>5. Len(Names(up)) >= Len(Names(t)) - 1
        <5>1. \A name \in Texts : Len(Append(Names(up), name)) = Len(Names(up)) + 1
          BY <4>4, AppendProperties
        <5> QED
          BY <4>1, <4>4, <5>1
      <4>6. Len(Names(up)) >= Len(new)
        BY <2>2, <3>1, <3>2, <4>3, <4>4, <4>5
      <4>7. Kept(r, new, start)
        BY <3>6, <4>1, <4>2, <4>6 DEF Kept
      <4> QED
        BY <4>7 DEF r
    <3>9. CASE part \notin Dots
      <4> DEFINE w == (t \o part) \o <<"/">>
      <4> HIDE DEF t
      <4>1. /\ Ended(w) /\ Names(w) = Into(Names(t), part)
            /\ PlainDirs(t) => PlainDirs(w)
        BY <2>1, <3>1, <3>2, <3>9, WithPart
      <4>2. r.ok => Text(r.path) = w
        BY <3>6, <3>9
      <4> HIDE DEF w
      <4>3. Len(Names(w)) >= Len(new)
        <5>1. CASE part = <<>>
          BY <2>1, <2>2, <3>1, <3>2, <3>4, <4>1, <5>1, IntoLength
        <5>2. CASE part # <<>>
          <6>1. Len(new) = Len(old) + 1
            BY <2>1, <2>2, <3>4, <3>9, <5>2, IntoLength
          <6>2. Len(Names(w)) = Len(Names(t)) + 1
            BY <2>1, <3>2, <3>9, <4>1, <5>2, IntoLength
          <6> QED
            BY <2>2, <3>1, <3>2, <6>1, <6>2
        <5> QED
          BY <5>1, <5>2
      <4>4. Kept(r, new, start)
        BY <3>1, <3>6, <4>1, <4>2, <4>3 DEF Kept
      <4> QED
        BY <4>4 DEF r
    <3> QED
      BY <3>7, <3>8, <3>9 DEF Dots
  <2> QED
    BY <2>3, <2>4 DEF Kept
<1> HIDE DEF T
<1>8. \A i \in 0..Len(s) : i \in T
  BY <1>1, <1>6, <1>7, Rounds
<1> QED
  BY <1>8 DEF T, R, E

(* A part is empty at the beginning, and between two slashes.               *)
LEMMA EmptyPart ==
    ASSUME NEW s \in Texts, NEW i \in 1..Len(s)
    PROVE  /\ i = 1 => PartEnding(s, i) = <<>>
           /\ PartEnding(s, i) = <<>> => i = 1 \/ s[i - 1] = "/"
<1> DEFINE t == SubSeq(s, 1, i - 1)
<1>1. Len(s) \in Nat
  BY LenProperties DEF Texts
<1>2. i - 1 \in 0..Len(s)
  BY <1>1
<1>3. t \in Texts /\ Len(t) = i - 1 /\ \A j \in 1..(i - 1) : t[j] = s[j]
  BY <1>2, Beginning DEF Texts
<1>4. PartEnding(s, i) = Tail0(t)
  BY DEF PartEnding
<1> HIDE DEF t
<1>5. /\ Tail0(t) \in Texts /\ Len(Tail0(t)) = Len(t) - LastSlash(t)
      /\ LastSlash(t) \in 0..Len(t) /\ (LastSlash(t) # 0 => t[LastSlash(t)] = "/")
  BY <1>3, TailFact, LastSlashFact
<1>6. ASSUME i = 1 PROVE PartEnding(s, i) = <<>>
  <2>1. Len(Tail0(t)) = 0
    BY <1>3, <1>5, <1>6
  <2> QED
    BY <1>4, <1>5, <2>1, EmptySeq DEF Texts
<1>7. ASSUME PartEnding(s, i) = <<>>, i # 1 PROVE s[i - 1] = "/"
  <2>1. Len(Tail0(t)) = 0
    BY <1>4, <1>7, EmptyText
  <2>2. LastSlash(t) = i - 1
    BY <1>3, <1>5, <2>1
  <2>3. i - 1 \in 1..(i - 1)
    BY <1>7
  <2> QED
    BY <1>3, <1>5, <2>2, <2>3
<1> QED
  BY <1>6, <1>7

\* What the loop keeps where no part is empty: it leads where the text leads.
Follows(t, names, whole, i) ==
    /\ Names(t) = names
    /\ NoEmptyPart(t)
    /\ t # <<>> => (Absolute(t) <=> Absolute(whole))
    /\ t = <<>> => i = 0 \/ ~Absolute(whole)

\* The path at the start of the loop, and the text u before s
Begins(t, u, s) ==
    \/ u = <<>> /\ t = <<>>
    \/ u # <<>> /\ t # <<>> /\ (Absolute(t) <=> Absolute(u)) /\ (s = <<>> \/ s[1] # "/")

(* In every round the path leads to where the text so far leads.            *)
LEMMA LoopFollows ==
    ASSUME NEW s \in Texts, NEW start, PathOK(start), Ended(Text(start)),
           NEW u \in Texts, Ended(u), Names(Text(start)) = Names(u),
           NoEmptyPart(s), NoEmptyPart(Text(start)), Begins(Text(start), u, s),
           \A i \in 1..Len(s) : IsUp(s, i) =>
              /\ PlainDirs(Text(start))
              /\ Len(Entered(u \o s)[Len(u) + (i - 1)]) > (IF Absolute(u \o s) THEN 1 ELSE 0)
    PROVE  \A i \in 0..Len(s) : Taken(s, start)[i].ok =>
              Follows(Text(Taken(s, start)[i].path), Entered(u \o s)[Len(u) + i], u \o s, i)
<1> DEFINE R == Taken(s, start)
           whole == u \o s
           E == [i \in 0..Len(s) |-> Entered(whole)[Len(u) + i]]
           T == {i \in 0..Len(s) : R[i].ok => Follows(Text(R[i].path), E[i], whole, i)}
<1>1. Len(s) \in Nat /\ Len(u) \in Nat /\ Len(u) + 0 = Len(u)
  BY LenProperties DEF Texts
<1>2. /\ E[0] = Names(u)
      /\ \A i \in 1..Len(s) : /\ s[i] # "/" => E[i] = E[i - 1]
                              /\ s[i] = "/" => E[i] = Into(E[i - 1], PartEnding(s, i))
  <2>1. 0 \in 0..Len(s) /\ \A i \in 1..Len(s) : i \in 0..Len(s) /\ i - 1 \in 0..Len(s)
    BY <1>1
  <2> QED
    BY <1>1, <2>1, EnteredBehind
<1>3. \A i \in 0..Len(s) : E[i] \in Seq(Texts)
  <2>1. u \o s \in Texts /\ Len(u \o s) = Len(u) + Len(s)
    BY Joined DEF Texts
  <2>2. \A i \in 0..Len(s) : Len(u) + i \in 0..(Len(u) + Len(s))
    BY <1>1
  <2> QED
    BY <2>1, <2>2, NamesType
<1>4. \A i \in 1..Len(s) : IsUp(s, i) =>
         PlainDirs(Text(start)) /\ Len(E[i - 1]) > (IF Absolute(whole) THEN 1 ELSE 0)
  <2>1. \A i \in 1..Len(s) : i - 1 \in 0..Len(s)
    BY <1>1
  <2> QED
    BY <2>1
<1>5. /\ R[0] = Done(start)
      /\ \A i \in 1..Len(s) :
            R[i] = IF ~R[i - 1].ok \/ s[i] # "/" THEN R[i - 1]
                   ELSE TakePart(PartEnding(s, i), R[i - 1].path)
  BY TakenStep
<1>6. \A i \in 0..Len(s) : Kept(R[i], E[i], start)
  <2>1. \A i \in 1..Len(s) : IsUp(s, i) =>
              PlainDirs(Text(start)) /\ Len(Entered(u \o s)[Len(u) + (i - 1)]) > 0
    <3>1. \A i \in 1..Len(s) : i - 1 \in 0..Len(s)
      BY <1>1
    <3>2. \A i \in 1..Len(s) : Len(E[i - 1]) \in Nat
      BY <1>3, <3>1, LenProperties
    <3>3. \A i \in 1..Len(s) : IsUp(s, i) => PlainDirs(Text(start)) /\ Len(E[i - 1]) > 0
      <4> HIDE DEF E, whole
      <4> QED
        BY <1>4, <3>2
    <3> QED
      BY <3>1, <3>3
  <2> QED
    BY <2>1, LoopKeeps
<1>7. /\ Len(whole) = Len(u) + Len(s)
      /\ u = <<>> => whole = s
      /\ u # <<>> => (Absolute(whole) <=> Absolute(u))
  <2>1. Len(whole) = Len(u) + Len(s) /\ \A i \in 1..Len(u) : whole[i] = u[i]
    BY Joined DEF Texts
  <2>2. u = <<>> => whole = s
    BY ConcatEmptySeq DEF Texts
  <2>3. ASSUME u # <<>> PROVE Absolute(whole) <=> Absolute(u)
    <3>1. Len(u) > 0 /\ 1 \in 1..Len(u)
      BY <1>1, <2>3, EmptySeq DEF Texts
    <3> HIDE DEF whole
    <3>2. whole # <<>> /\ whole[1] = u[1]
      BY <1>1, <2>1, <3>1, EmptyText
    <3> QED
      BY <2>3, <3>2 DEF Absolute
  <2> QED
    BY <2>1, <2>2, <2>3
<1> HIDE DEF R, E, whole
<1>8. 0 \in T
  <2>1. R[0].ok /\ R[0].path = start
    BY <1>5 DEF Done
  <2>2. Text(start) # <<>> => (Absolute(Text(start)) <=> Absolute(whole))
    BY <1>7 DEF Begins
  <2>3. Follows(Text(start), E[0], whole, 0)
    BY <1>2, <2>2 DEF Follows
  <2> QED
    BY <1>1, <2>1, <2>3
<1>9. \A i \in 1..Len(s) : i - 1 \in T => i \in T
  <2> SUFFICES ASSUME NEW i \in 1..Len(s), R[i].ok,
                      R[i - 1].ok => Follows(Text(R[i - 1].path), E[i - 1], whole, i - 1)
               PROVE  Follows(Text(R[i].path), E[i], whole, i)
    BY <1>1
  <2> DEFINE part == PartEnding(s, i)
             p == R[i - 1].path
             t == Text(p)
             old == E[i - 1]
             new == E[i]
             r == R[i]
  <2>1. part \in Texts /\ SlashFree(part) /\ Len(part) <= i - 1
    <3>1. i \in 1..(Len(s) + 1)
      BY <1>1
    <3> QED
      BY <3>1, PartEndingType
  <2>2. i \in 0..Len(s) /\ i - 1 \in 0..Len(s) /\ i # 0
    BY <1>1
  <2>3. old \in Seq(Texts) /\ new \in Seq(Texts) /\ Len(old) \in Nat /\ Len(new) \in Nat
    <3>1. old \in Seq(Texts) /\ new \in Seq(Texts)
      BY <1>3, <2>2
    <3> QED
      BY <3>1, LenProperties
  <2>4. part = <<>> => i = 1 \/ s[i - 1] = "/"
    BY EmptyPart
  <2>5. part # <<>> => i - 1 # 0
    BY <2>2, EmptyPart
  <2>6. i = 1 /\ s[1] = "/" => u = <<>> /\ whole = s
    <3> SUFFICES ASSUME i = 1, s[1] = "/" PROVE u = <<>> /\ whole = s
      OBVIOUS
    <3>1. s # <<>>
      BY <1>1, EmptyText
    <3>2. u = <<>>
      BY <3>1 DEF Begins
    <3> QED
      BY <1>7, <3>2
  <2>7. CASE ~R[i - 1].ok \/ s[i] # "/"
    <3>1. r = R[i - 1]
      BY <1>5, <2>7
    <3>2. s[i] # "/" /\ Follows(t, old, whole, i - 1)
      BY <2>7, <3>1
    <3>3. new = old
      BY <1>2, <3>2
    <3>4. t = <<>> => ~Absolute(whole)
      <4> SUFFICES ASSUME t = <<>> PROVE ~Absolute(whole)
        OBVIOUS
      <4>1. CASE i - 1 # 0
        BY <3>2, <4>1 DEF Follows
      <4>2. CASE i - 1 = 0
        <5>1. i = 1 /\ R[0].path = start
          BY <1>5, <2>2, <4>2 DEF Done
        <5>2. Text(start) = <<>>
          BY <4>2, <5>1
        <5>3. whole = s
          BY <1>7, <5>2 DEF Begins
        <5>4. s[1] # "/"
          BY <3>2, <5>1
        <5> QED
          BY <5>3, <5>4 DEF Absolute
      <4> QED
        BY <4>1, <4>2
    <3> HIDE DEF t
    <3>5. Follows(t, new, whole, i)
      BY <3>2, <3>3, <3>4 DEF Follows
    <3> QED
      BY <3>1, <3>5 DEF t
  <2>8. CASE R[i - 1].ok /\ s[i] = "/"
    <3>1. /\ PathOK(p) /\ Ended(t) /\ (PlainDirs(Text(start)) => PlainDirs(t))
          /\ Follows(t, old, whole, i - 1)
      BY <1>6, <2>2, <2>8 DEF Kept
    <3>2. t \in Texts /\ Len(t) \in Nat
      <4>1. t \in Texts
        BY <3>1, TextFact
      <4> HIDE DEF t
      <4> QED
        BY <4>1, LenProperties DEF Texts
    <3>3. r = TakePart(part, p)
      BY <1>5, <2>8
    <3>4. new = Into(old, part)
      BY <1>2, <2>8
    <3>5. part = <<".", ".">> =>
             /\ PlainDirs(t) /\ t # <<>> /\ p.WriteCur > 0
             /\ Len(old) > (IF Absolute(t) THEN 1 ELSE 0)
      <4> SUFFICES ASSUME part = <<".", ".">>
                   PROVE  /\ PlainDirs(t) /\ t # <<>> /\ p.WriteCur > 0
                          /\ Len(old) > (IF Absolute(t) THEN 1 ELSE 0)
        OBVIOUS
      <4>1. IsUp(s, i)
        BY <2>8 DEF IsUp
      <4>2. PlainDirs(Text(start)) /\ Len(old) > (IF Absolute(whole) THEN 1 ELSE 0)
        BY <1>4, <4>1
      <4>3. PlainDirs(t)
        BY <3>1, <4>2
      <4>4. t # <<>>
        <5> HIDE DEF t
        <5>1. t = <<>> => Len(old) = 0
          BY <3>1, EmptyText DEF Follows
        <5> QED
          BY <4>2, <5>1
      <4>5. p.WriteCur > 0
        BY <3>1, <4>3, <4>4, MoveUpText
      <4>6. Absolute(t) <=> Absolute(whole)
        BY <3>1, <4>4 DEF Follows
      <4> QED
        BY <4>2, <4>3, <4>4, <4>5, <4>6
    <3> HIDE DEF r, p, part
    <3>6. /\ r = [ok |-> r.ok, path |-> r.path] /\ r.ok \in BOOLEAN /\ PathOK(r.path)
          /\ part = <<".">> => r.ok /\ r.path = p
          /\ part = <<".", ".">> => r.ok /\ r.path = MoveUpPath(p, 1)
          /\ part \notin Dots => (r.ok => Text(r.path) = (t \o part) \o <<"/">>)
      BY <2>1, <3>1, <3>3, <3>5, TakePartFact
    <3>7. CASE part = <<".">>
      <4>1. new = old
        BY <2>1, <2>3, <3>4, <3>7, IntoLength
      <4>2. Text(r.path) = t
        BY <3>6, <3>7
      <4>3. i - 1 # 0
        <5>1. Len(<<".">>) = 1
          OBVIOUS
        <5> QED
          BY <2>5, <3>7, <5>1, EmptyText
      <4> HIDE DEF t
      <4>4. Follows(t, new, whole, i)
        BY <3>1, <4>1, <4>3 DEF Follows
      <4> QED
        BY <4>2, <4>4 DEF r
    <3>8. CASE part = <<".", ".">>
      <4> DEFINE up == Text(MoveUpPath(p, 1))
      <4>1. /\ up \in Texts
            /\ NoEmptyPart(t) =>
                  /\ NoEmptyPart(up)
                  /\ Names(t) = <<>> \/ \E name \in Texts : Names(t) = Append(Names(up), name)
                  /\ (Absolute(t) => Len(Names(t)) > 1) => (Absolute(up) <=> Absolute(t))
        BY <3>1, <3>5, <3>8, MoveUpText
      <4>2. Text(r.path) = up
        BY <3>6, <3>8
      <4> HIDE DEF t, up
      <4>3. Names(t) = old /\ NoEmptyPart(t) /\ (Absolute(t) <=> Absolute(whole))
        BY <3>1, <3>5, <3>8 DEF Follows
      <4>4. Len(old) > 0 /\ (Absolute(t) => Len(old) > 1)
        BY <2>3, <3>5, <3>8
      <4>5. Names(up) \in Seq(Texts)
        BY <4>1, NamesType
      <4>6. PICK name \in Texts : old = Append(Names(up), name)
        <5>1. old # <<>>
          BY <4>4, EmptyText
        <5> QED
          BY <4>1, <4>3, <5>1
      <4>7. Front0(old) = Names(up)
        <5> DEFINE f == Front0(old)
                   n == Len(Names(up))
        <5>1. /\ n \in Nat /\ Len(old) = n + 1 /\ Len(old) - 1 = n /\ n \in 0..Len(old)
              /\ \A k \in 1..n : old[k] = Names(up)[k]
          BY <4>5, <4>6, AppendProperties, LenProperties
        <5>2. f = SubSeq(old, 1, n)
          BY <5>1 DEF Front0
        <5> HIDE DEF f, n
        <5>3. f \in Seq(Texts) /\ Len(f) = n /\ \A k \in 1..n : f[k] = old[k]
          BY <2>3, <5>1, <5>2, Beginning
        <5>4. Len(f) = Len(Names(up)) /\ \A k \in 1..Len(f) : f[k] = Names(up)[k]
          BY <5>1, <5>3 DEF n
        <5>5. f = Names(up)
          BY <4>5, <5>3, <5>4, SeqEqual
        <5> QED
          BY <5>5 DEF f
      <4>8. new = Names(up)
        BY <2>1, <2>3, <3>4, <3>8, <4>7, IntoLength
      <4>9. NoEmptyPart(up) /\ (Absolute(up) <=> Absolute(whole))
        BY <4>1, <4>3, <4>4
      <4>10. Follows(up, new, whole, i)
        BY <4>8, <4>9 DEF Follows, Absolute
      <4> QED
        BY <4>2, <4>10 DEF r
    <3>9. CASE part \notin Dots
      <4> DEFINE w == (t \o part) \o <<"/">>
      <4> HIDE DEF t
      <4>1. /\ w \in Texts /\ Len(w) = Len(t) + Len(part) + 1
            /\ \A k \in 1..Len(t) : w[k] = t[k]
            /\ \A k \in 1..Len(part) : w[Len(t) + k] = part[k]
            /\ w[Len(w)] = "/"
            /\ Names(w) = Into(Names(t), part)
        BY SMTT(30), <2>1, <3>1, <3>2, <3>9, WithPart
      <4>2. Text(r.path) = w
        BY <3>6, <3>9 DEF r
      <4> HIDE DEF w
      <4>3. Names(w) = new /\ NoEmptyPart(t) /\ w # <<>> /\ Len(part) \in Nat
        <5>1. Len(part) \in Nat
          BY <2>1, LenProperties DEF Texts
        <5>2. w # <<>>
          BY <3>2, <4>1, <5>1, EmptyText
        <5> QED
          BY <3>1, <3>4, <4>1, <5>1, <5>2 DEF Follows
      <4>4. part = <<>> => i = 1 /\ t = <<>> /\ u = <<>> /\ whole = s /\ s[1] = "/"
        <5> SUFFICES ASSUME part = <<>>
                     PROVE  i = 1 /\ t = <<>> /\ u = <<>> /\ whole = s /\ s[1] = "/"
          OBVIOUS
        <5>1. i = 1
          <6> SUFFICES ASSUME i # 1 PROVE FALSE
            OBVIOUS
          <6>1. s[i - 1] = "/" /\ s[i] = "/" /\ i \in 2..Len(s)
            BY <2>4, <2>8 DEF part
          <6> QED
            BY <6>1 DEF NoEmptyPart
        <5>2. u = <<>> /\ whole = s
          BY <2>6, <2>8, <5>1
        <5>3. Text(start) = <<>>
          BY <5>2 DEF Begins
        <5>4. t = <<>>
          <6>1. R[0].path = start
            BY <1>5 DEF Done
          <6>2. i - 1 = 0
            BY <5>1
          <6> QED
            BY <5>3, <6>1, <6>2 DEF t, p
        <5> QED
          BY <2>8, <5>1, <5>2, <5>4
      <4>5. NoEmptyPart(w)
        <5>1. SUFFICES ASSUME NEW k \in 2..Len(w) PROVE w[k - 1] # "/" \/ w[k] # "/"
          BY DEF NoEmptyPart
        <5>2. CASE k <= Len(t)
          <6>1. k \in 2..Len(t) /\ w[k] = t[k] /\ w[k - 1] = t[k - 1]
            BY <3>2, <4>1, <5>2
          <6> QED
            BY <4>3, <6>1 DEF NoEmptyPart
        <5>3. CASE k > Len(t) /\ k <= Len(t) + Len(part)
          <6>1. k - Len(t) \in 1..Len(part) /\ Len(t) + (k - Len(t)) = k
            BY <3>2, <4>3, <5>3
          <6>2. w[k] = part[k - Len(t)]
            BY <4>1, <6>1
          <6> QED
            BY <2>1, <6>1, <6>2 DEF SlashFree
        <5>4. CASE k = Len(t) + Len(part) + 1
          <6>1. CASE part = <<>>
            <7>1. Len(t) = 0 /\ Len(part) = 0
              BY <4>4, <6>1, EmptyText
            <7> QED
              BY <4>1, <5>4, <7>1
          <6>2. CASE part # <<>>
            <7>1. Len(part) > 0
              BY <2>1, <4>3, <6>2, EmptySeq DEF Texts
            <7>2. Len(part) \in 1..Len(part) /\ k - 1 = Len(t) + Len(part)
              BY <3>2, <4>3, <5>4, <7>1
            <7>3. w[k - 1] = part[Len(part)]
              BY <4>1, <7>2
            <7> QED
              BY <2>1, <7>2, <7>3 DEF SlashFree
          <6> QED
            BY <6>1, <6>2
        <5> QED
          BY <3>2, <4>1, <4>3, <5>2, <5>3, <5>4
      <4>6. Absolute(w) <=> Absolute(whole)
        <5>1. CASE t # <<>>
          <6>1. Len(t) > 0 /\ 1 \in 1..Len(t)
            BY <3>2, <5>1, EmptySeq DEF Texts
          <6>2. w[1] = t[1]
            BY <4>1, <6>1
          <6>3. Absolute(t) <=> Absolute(whole)
            BY <3>1, <5>1 DEF Follows
          <6> QED
            BY <4>3, <5>1, <6>2, <6>3 DEF Absolute
        <5>2. CASE t = <<>> /\ part = <<>>
          <6>1. Len(w) = 1 /\ w[1] = "/"
            BY <4>1, <5>2, EmptyText
          <6>2. whole # <<>> /\ whole[1] = "/"
            BY <1>1, <4>4, <5>2, EmptyText
          <6> QED
            BY <4>3, <6>1, <6>2 DEF Absolute
        <5>3. CASE t = <<>> /\ part # <<>>
          <6>1. Len(part) > 0
            BY <2>1, <4>3, <5>3, EmptySeq DEF Texts
          <6>2. 1 \in 1..Len(part) /\ Len(t) + 1 = 1
            BY <4>3, <5>3, <6>1, EmptyText
          <6>3. w[1] # "/"
            BY <2>1, <4>1, <6>2 DEF SlashFree
          <6>4. i - 1 # 0
            BY <2>5, <5>3 DEF part
          <6>5. ~Absolute(whole)
            BY <3>1, <5>3, <6>4 DEF Follows
          <6> QED
            BY <6>3, <6>5 DEF Absolute
        <5> QED
          BY <5>1, <5>2, <5>3
      <4>7. Follows(w, new, whole, i)
        BY <4>3, <4>5, <4>6 DEF Follows
      <4> QED
        BY <4>2, <4>7 DEF r
    <3> QED
      BY <3>7, <3>8, <3>9 DEF Dots
  <2> QED
    BY <2>7, <2>8
<1> HIDE DEF T
<1>10. \A i \in 0..Len(s) : i \in T
  BY <1>1, <1>8, <1>9, Rounds
<1> QED
  BY <1>10 DEF T, R, E, whole


\* What the loop keeps where no part moves up: the text at the start
Longer(r, start) ==
    /\ r = [ok |-> r.ok, path |-> r.path] /\ r.ok \in BOOLEAN /\ PathOK(r.path)
    /\ r.path.WriteCur >= start.WriteCur
    /\ \A j \in 1..start.WriteCur : r.path.mem[j] = start.mem[j]

(* Without ".." the loop only appends.                                      *)
LEMMA LoopAppends ==
    ASSUME NEW s \in Texts, NEW start, PathOK(start), \A i \in 1..Len(s) : ~IsUp(s, i)
    PROVE  \A i \in 0..Len(s) : Longer(Taken(s, start)[i], start)
<1> DEFINE R == Taken(s, start)
           T == {i \in 0..Len(s) : Longer(R[i], start)}
<1>1. Len(s) \in Nat
  BY LenProperties DEF Texts
<1>2. /\ R[0] = Done(start)
      /\ \A i \in 1..Len(s) :
            R[i] = IF ~R[i - 1].ok \/ s[i] # "/" THEN R[i - 1]
                   ELSE TakePart(PartEnding(s, i), R[i - 1].path)
  BY TakenStep
<1> HIDE DEF R
<1>3. 0 \in T
  <2>1. R[0] = [ok |-> TRUE, path |-> start]
    BY <1>2 DEF Done
  <2>2. R[0].ok /\ R[0].path = start
    BY <2>1
  <2>3. start.WriteCur \in Nat
    BY DEF PathOK
  <2>4. Longer(R[0], start)
    BY <2>1, <2>2, <2>3 DEF Longer
  <2> QED
    BY <1>1, <2>4
<1>4. \A i \in 1..Len(s) : i - 1 \in T => i \in T
  <2> SUFFICES ASSUME NEW i \in 1..Len(s), Longer(R[i - 1], start)
               PROVE  Longer(R[i], start)
    BY <1>1
  <2> DEFINE part == PartEnding(s, i)
             p == R[i - 1].path
             r == R[i]
  <2>1. part \in Texts
    <3>1. i \in 1..(Len(s) + 1)
      BY <1>1
    <3> QED
      BY <3>1, PartEndingType
  <2>2. CASE ~R[i - 1].ok \/ s[i] # "/"
    BY <1>2, <2>2
  <2>3. CASE R[i - 1].ok /\ s[i] = "/"
    <3>1. PathOK(p) /\ p.WriteCur >= start.WriteCur /\ \A j \in 1..start.WriteCur : p.mem[j] = start.mem[j]
      BY DEF Longer
    <3>2. r = TakePart(part, p) /\ part # <<".", ".">>
      BY <1>2, <2>3 DEF IsUp
    <3>3. start.WriteCur \in Nat /\ p.WriteCur \in Nat
      BY <3>1 DEF PathOK
    <3> HIDE DEF part, p, r
    <3>4. /\ r = [ok |-> r.ok, path |-> r.path] /\ r.ok \in BOOLEAN /\ PathOK(r.path)
          /\ part = <<".">> => r.path = p
          /\ part \notin Dots => r.path.WriteCur >= p.WriteCur
                                 /\ \A j \in 1..p.WriteCur : r.path.mem[j] = p.mem[j]
      BY <2>1, <3>1, <3>2, TakePartFact
    <3>5. r.path.WriteCur \in Nat
      BY <3>4 DEF PathOK
    <3>6. r.path.WriteCur >= start.WriteCur /\ \A j \in 1..start.WriteCur : r.path.mem[j] = start.mem[j]
      BY <3>1, <3>2, <3>3, <3>4, <3>5 DEF Dots
    <3>7. Longer(r, start)
      BY <3>4, <3>6 DEF Longer
    <3> QED
      BY <3>7 DEF r
  <2> QED
    BY <2>2, <2>3 DEF Longer
<1> HIDE DEF T
<1>5. \A i \in 0..Len(s) : i \in T
  BY <1>1, <1>3, <1>4, Rounds
<1> QED
  BY <1>5 DEF T, R

(* An empty path stays empty when it moves up.                              *)
LEMMA MoveUpEmpty ==
    ASSUME NEW P, PathOK(P), P.WriteCur = 0
    PROVE  MoveUpPath(P, 1) = P
<1>1. Unslashed(P) = 0 \/ Unslashed(P) = -1
  BY DEF Unslashed
<1>2. \A m \in {0, -1} : SubSeq(P.mem, 1, m) = <<>>
  <2>1. P.mem \in Seq(Characters \cup {NUL})
    BY DEF PathOK
  <2> QED
    BY <2>1, SMT
<1>3. LastSlash(<<>>) = 0
  <2>1. <<>> \in Texts /\ SlashFree(<<>>)
    BY EmptyText DEF SlashFree
  <2> QED
    BY <2>1, TailOfPart
<1>4. UpFrom(P.mem, Unslashed(P)) = 0
  BY <1>1, <1>2, <1>3 DEF UpFrom
<1>5. MoveUpPath(P, 1) = [mem |-> P.mem, WriteCur |-> 0]
  <2>1. 1 \in {1, 2}
    OBVIOUS
  <2>2. P = [mem |-> P.mem, WriteCur |-> P.WriteCur]
    BY DEF PathOK
  <2> QED
    BY <1>4, <2>1, <2>2, MoveUpIs
<1> QED
  BY <1>5 DEF PathOK

\* What the loop keeps, whatever it reads: a path, and no NUL in the text before
Sound(r, n) ==
    /\ r = [ok |-> r.ok, path |-> r.path] /\ r.ok \in BOOLEAN /\ PathOK(r.path)
    /\ \A j \in 1..n : r.path.mem[j] # NUL

(* A round of the loop keeps a path a path.                                 *)
LEMMA TakeAnyPart ==
    ASSUME NEW P, PathOK(P), NEW part \in Texts, NEW n \in 0..Size,
           \A j \in 1..n : P.mem[j] # NUL
    PROVE  Sound(TakePart(part, P), n)
<1> DEFINE r == TakePart(part, P)
<1>1. n \in Nat /\ Size \in Nat /\ MAX_PATH_SIZE = Size + 1 /\ P.WriteCur \in 0..Size
  BY SizeType DEF PathOK
<1>2. \A j \in 1..n : j \in 1..MAX_PATH_SIZE
  BY <1>1
<1>3. CASE part = <<".", ".">> /\ P.WriteCur = 0
  <2>1. Len(<<".">>) = 1 /\ Len(<<".", ".">>) = 2
    OBVIOUS
  <2>2. <<".">> # <<".", ".">>
    BY <2>1
  <2>3. r = [ok |-> TRUE, path |-> P]
    BY <1>3, <2>2, MoveUpEmpty DEF TakePart, Done
  <2> HIDE DEF r
  <2>4. r.ok /\ r.path = P /\ r.ok \in BOOLEAN
    BY <2>3
  <2>5. Sound(r, n)
    BY <2>3, <2>4 DEF Sound
  <2> QED
    BY <2>5 DEF r
<1>4. CASE part = <<".", ".">> /\ P.WriteCur # 0
  <2>1. /\ r = [ok |-> r.ok, path |-> r.path] /\ r.ok \in BOOLEAN /\ PathOK(r.path)
        /\ r.path = MoveUpPath(P, 1)
    BY <1>1, <1>4, TakePartFact
  <2>2. MoveUpPath(P, 1).mem = P.mem
    BY <1>1, <1>4, MoveUpOK
  <2> QED
    BY <2>1, <2>2 DEF Sound
<1>5. CASE part = <<".">>
  <2>1. r = [ok |-> TRUE, path |-> P]
    BY <1>5 DEF TakePart, Done
  <2> HIDE DEF r
  <2>2. r.ok /\ r.path = P /\ r.ok \in BOOLEAN
    BY <2>1
  <2>3. Sound(r, n)
    BY <2>1, <2>2 DEF Sound
  <2> QED
    BY <2>3 DEF r
<1>6. CASE part \notin Dots
  <2> DEFINE whole == part \o <<"/">>
  <2>1. part # <<".">> /\ part # <<".", ".">>
    BY <1>6 DEF Dots
  <2>2. r = IF Fits(whole, P) THEN [ok |-> TRUE, path |-> Put(whole, P)]
            ELSE IF Fits(part, P) THEN [ok |-> FALSE, path |-> Put(part, P)]
            ELSE [ok |-> FALSE, path |-> P]
    BY <2>1 DEF TakePart, Done, Failed
  <2>3. whole \in Texts
    <3>1. "/" \in Characters
      BY DEF Characters
    <3>2. <<"/">> \in Seq(Characters) /\ part \in Seq(Characters)
      BY <3>1 DEF Texts
    <3> QED
      BY <3>2, Joined DEF Texts
  <2> HIDE DEF r, whole
  <2>4. ASSUME NEW s \in Texts, Fits(s, P)
        PROVE  PathOK(Put(s, P)) /\ \A j \in 1..n : Put(s, P).mem[j] # NUL
    BY <1>2, <2>4, PutFact
  <2>5. CASE Fits(whole, P)
    <3>1. r = [ok |-> TRUE, path |-> Put(whole, P)]
      BY <2>2, <2>5
    <3>2. r.ok /\ r.path = Put(whole, P) /\ r.ok \in BOOLEAN
      BY <3>1
    <3>3. Sound(r, n)
      BY <2>3, <2>4, <2>5, <3>1, <3>2 DEF Sound
    <3> QED
      BY <3>3 DEF r
  <2>6. CASE ~Fits(whole, P) /\ Fits(part, P)
    <3>1. r = [ok |-> FALSE, path |-> Put(part, P)]
      BY <2>2, <2>6
    <3>2. ~r.ok /\ r.path = Put(part, P) /\ r.ok \in BOOLEAN
      BY <3>1
    <3>3. Sound(r, n)
      BY <2>4, <2>6, <3>1, <3>2 DEF Sound
    <3> QED
      BY <3>3 DEF r
  <2>7. CASE ~Fits(whole, P) /\ ~Fits(part, P)
    <3>1. r = [ok |-> FALSE, path |-> P]
      BY <2>2, <2>7
    <3>2. ~r.ok /\ r.path = P /\ r.ok \in BOOLEAN
      BY <3>1
    <3>3. Sound(r, n)
      BY <3>1, <3>2 DEF Sound
    <3> QED
      BY <3>3 DEF r
  <2> QED
    BY <2>5, <2>6, <2>7
<1> QED
  BY <1>3, <1>4, <1>5, <1>6 DEF Dots

(* So does the loop.                                                        *)
LEMMA LoopSound ==
    ASSUME NEW s \in Texts, NEW start, PathOK(start), NEW n \in 0..Size,
           \A j \in 1..n : start.mem[j] # NUL
    PROVE  \A i \in 0..Len(s) : Sound(Taken(s, start)[i], n)
<1> DEFINE R == Taken(s, start)
           T == {i \in 0..Len(s) : Sound(R[i], n)}
<1>1. Len(s) \in Nat
  BY LenProperties DEF Texts
<1>2. /\ R[0] = Done(start)
      /\ \A i \in 1..Len(s) :
            R[i] = IF ~R[i - 1].ok \/ s[i] # "/" THEN R[i - 1]
                   ELSE TakePart(PartEnding(s, i), R[i - 1].path)
  BY TakenStep
<1> HIDE DEF R
<1>3. 0 \in T
  <2>1. R[0] = [ok |-> TRUE, path |-> start]
    BY <1>2 DEF Done
  <2>2. R[0].ok /\ R[0].path = start
    BY <2>1
  <2>3. Sound(R[0], n)
    BY <2>1, <2>2 DEF Sound
  <2> QED
    BY <1>1, <2>3
<1>4. \A i \in 1..Len(s) : i - 1 \in T => i \in T
  <2> SUFFICES ASSUME NEW i \in 1..Len(s), Sound(R[i - 1], n)
               PROVE  Sound(R[i], n)
    BY <1>1
  <2>1. PartEnding(s, i) \in Texts
    <3>1. i \in 1..(Len(s) + 1)
      BY <1>1
    <3> QED
      BY <3>1, PartEndingType
  <2>2. Sound(TakePart(PartEnding(s, i), R[i - 1].path), n)
    BY <2>1, TakeAnyPart DEF Sound
  <2> QED
    BY <1>2, <2>2
<1> HIDE DEF T
<1>5. \A i \in 0..Len(s) : i \in T
  BY <1>1, <1>3, <1>4, Rounds
<1> QED
  BY <1>5 DEF T, R

-----------------------------------------------------------------------------
(* AppendPath.                                                              *)

(* A path is a C string, and of its own text if that is terminated.         *)
LEMMA CStringFact ==
    ASSUME NEW P, PathOK(P)
    PROVE  /\ CString(P) \in Texts /\ Len(CString(P)) <= Size
           /\ P.mem[P.WriteCur + 1] = NUL => CString(P) = Text(P)
<1> DEFINE N == {i \in 1..MAX_PATH_SIZE : P.mem[i] = NUL} \cup {MAX_PATH_SIZE + 1}
           m == Min(N)
<1>1. P.WriteCur \in 0..Size /\ Size \in Nat /\ MAX_PATH_SIZE = Size + 1
  BY SizeType DEF PathOK
<1>2. N \subseteq Nat /\ MAX_PATH_SIZE \in N
  BY <1>1 DEF PathOK
<1>3. m \in N /\ \A y \in N : m <= y
  <2> HIDE DEF N
  <2>1. \E x \in N : \A y \in N : x <= y
    BY <1>2, SmallestMember
  <2> QED
    BY <2>1, Zenon DEF Min
<1>4. CString(P) = SubSeq(P.mem, 1, m - 1)
  BY DEF CString
<1> HIDE DEF m
<1>5. m \in 1..MAX_PATH_SIZE /\ P.mem[m] = NUL
  <2>1. m <= MAX_PATH_SIZE
    BY <1>2, <1>3
  <2> QED
    BY <1>1, <1>3, <2>1
<1>6. \A i \in 1..MAX_PATH_SIZE : P.mem[i] = NUL => m <= i
  <2>1. \A i \in 1..MAX_PATH_SIZE : P.mem[i] = NUL => i \in N
    OBVIOUS
  <2> QED
    BY <1>3, <2>1
<1> HIDE DEF N
<1> DEFINE k == m - 1
<1>7. k \in 0..Size /\ k \in 0..Len(P.mem) /\ \A i \in 1..k : P.mem[i] # NUL
  <2>1. k \in 0..Size /\ \A i \in 1..k : i \in 1..MAX_PATH_SIZE /\ ~(m <= i)
    BY <1>1, <1>5
  <2>2. Len(P.mem) = MAX_PATH_SIZE
    BY DEF PathOK
  <2> HIDE DEF k
  <2> QED
    BY <1>1, <1>6, <2>1, <2>2
<1>8. CString(P) = SubSeq(P.mem, 1, k)
  BY <1>4
<1> HIDE DEF k
<1>9. CString(P) \in Texts /\ Len(CString(P)) = k
  <2>1. P.mem \in Seq(Characters \cup {NUL})
    BY DEF PathOK
  <2>2. SubSeq(P.mem, 1, k) \in Texts /\ Len(SubSeq(P.mem, 1, k)) = k
    BY <1>7, <2>1, TextOfMemory, Zenon
  <2> QED
    BY <1>8, <2>2
<1>10. ASSUME P.mem[P.WriteCur + 1] = NUL PROVE CString(P) = Text(P)
  <2>1. P.WriteCur + 1 \in 1..MAX_PATH_SIZE
    BY <1>1
  <2>2. m <= P.WriteCur + 1
    BY <1>6, <1>10, <2>1
  <2>3. ~(m \in 1..P.WriteCur)
    BY <1>5 DEF PathOK
  <2>4. k = P.WriteCur
    BY <1>1, <1>5, <2>2, <2>3 DEF k
  <2> QED
    BY <1>8, <2>4 DEF Text
<1> QED
  BY <1>1, <1>7, <1>9, <1>10

(* NewBuf holds a text that leaves room for the NUL as a C string.          *)
LEMMA NewBufFact ==
    ASSUME NEW t \in Texts, Len(t) <= Size
    PROVE  CString(NewBuf(t)) = t
<1> DEFINE P == NewBuf(t)
           C == Characters \cup {NUL}
<1>1. Len(t) \in Nat /\ Size \in Nat /\ MAX_PATH_SIZE = Size + 1 /\ NUL \notin Characters
  BY SizeType, LenProperties DEF Texts
<1>2. \A i \in 1..Len(t) : t[i] \in Characters /\ t[i] # NUL
  BY <1>1, ElementOfSeq DEF Texts
<1>3. P.mem = [i \in 1..MAX_PATH_SIZE |-> IF i <= Len(t) THEN t[i] ELSE NUL] /\ P.WriteCur = Len(t)
  BY DEF NewBuf
<1>4. P = [mem |-> P.mem, WriteCur |-> P.WriteCur]
  BY DEF NewBuf
<1> HIDE DEF P
<1> DEFINE mem == [i \in 1..MAX_PATH_SIZE |-> IF i <= Len(t) THEN t[i] ELSE NUL]
<1>5. mem \in Seq(C) /\ Len(mem) = MAX_PATH_SIZE
  <2>1. \A i \in 1..MAX_PATH_SIZE : (IF i <= Len(t) THEN t[i] ELSE NUL) \in C
    BY <1>1, <1>2
  <2>2. mem \in [1..MAX_PATH_SIZE -> C] /\ MAX_PATH_SIZE \in Nat
    BY <1>1, <2>1
  <2> HIDE DEF mem
  <2> QED
    BY <2>2, IsASeq
<1>6. (\A i \in 1..Len(t) : mem[i] = t[i]) /\ mem[MAX_PATH_SIZE] = NUL /\ mem[Len(t) + 1] = NUL
  BY <1>1
<1>6a. P.mem = mem
  BY <1>3
<1> HIDE DEF mem
<1>7. PathOK(P)
  BY <1>1, <1>2, <1>3, <1>6a, <1>4, <1>5, <1>6 DEF PathOK
<1>8. CString(P) = Text(P)
  BY <1>3, <1>6a, <1>6, <1>7, CStringFact
<1>9. Text(P) = t
  <2>1. Text(P) \in Texts /\ Len(Text(P)) = Len(t) /\ \A i \in 1..Len(t) : Text(P)[i] = t[i]
    <3>1. /\ Text(P) \in Texts /\ Len(Text(P)) = P.WriteCur
          /\ \A i \in 1..P.WriteCur : Text(P)[i] = P.mem[i]
      BY <1>7, TextFact
    <3> QED
      BY <1>3, <1>6a, <1>6, <3>1
  <2> QED
    BY <2>1, SeqEqual DEF Texts
<1> QED
  BY <1>8, <1>9 DEF P

(* HiddenName makes the hidden name, if there is room.                      *)
LEMMA HiddenNameFact ==
    ASSUME NEW s \in Texts, Slashes(s) # {}, Len(Dotted(s)) <= Size
    PROVE  CString(HiddenName(s)) = Dotted(s)
<1> DEFINE part == Tail0(s)
           u == SubSeq(s, 1, LastSlash(s))
           dot == IF part # <<>> /\ part[1] = "." THEN <<>> ELSE <<".">>
           New == u \o dot
<1>1. HiddenName(s) = NewBuf(IF Len(part) <= MAX_PATH_SIZE - Len(New) THEN New \o part ELSE New)
  BY DEF HiddenName
<1>2. /\ u \in Seq(Characters) /\ dot \in Seq(Characters) /\ part \in Seq(Characters)
  <2>1. Len(s) \in Nat
    BY LenProperties DEF Texts
  <2>2. LastSlash(s) \in 0..Len(s)
    BY LastSlashFact
  <2>3. u \in Seq(Characters)
    BY <2>2, Beginning DEF Texts
  <2>4. part \in Seq(Characters)
    BY TailFact DEF Texts
  <2>5. <<".">> \in Seq(Characters) /\ <<>> \in Seq(Characters)
    <3>1. "." \in Characters
      BY DEF Characters
    <3> QED
      BY <3>1
  <2> QED
    BY <2>3, <2>4, <2>5
<1>3. Dotted(s) = u \o (dot \o part)
  <2>1. Dotted(s) = u \o (IF part # <<>> /\ part[1] = "." THEN part ELSE <<".">> \o part)
    BY DEF Dotted, Tail0
  <2>2. <<>> \o part = part
    BY <1>2, ConcatEmptySeq
  <2> QED
    BY <2>1, <2>2
<1> HIDE DEF u, dot, part
<1>4. New \o part = Dotted(s)
  BY <1>2, <1>3, ConcatAssociative
<1>5. Len(New) \in Nat /\ Len(part) \in Nat /\ Len(Dotted(s)) = Len(New) + Len(part)
  <2>1. New \in Seq(Characters)
    BY <1>2, ConcatProperties
  <2> HIDE DEF New
  <2> QED
    BY <1>2, <1>4, <2>1, ConcatProperties, LenProperties
<1> HIDE DEF New
<1>6. Len(part) <= MAX_PATH_SIZE - Len(New)
  BY <1>5, SizeType
<1>7. Dotted(s) \in Texts
  BY DottedIsHidden
<1>8. HiddenName(s) = NewBuf(Dotted(s))
  BY <1>1, <1>4, <1>6
<1> QED
  BY <1>7, <1>8, NewBufFact

\* AppendPath, its steps by name: what it reads, where its loop begins and ends
Rest(s, Dst) == IF Dst.WriteCur > 0 /\ s # <<>> /\ s[1] = "/" THEN Tail(s) ELSE s
IsOpen(Dst) == Dst.WriteCur > 0 /\ Dst.mem[Dst.WriteCur] # "/"
LoopStart(Dst) == IF IsOpen(Dst) THEN Put(<<"/">>, Dst) ELSE Dst
LoopEnd(s, Dst) == Taken(Rest(s, Dst), LoopStart(Dst))[Len(Rest(s, Dst))]

(* AppendPath in these words.                                               *)
LEMMA AppendPathIs ==
    ASSUME NEW s, NEW Dst
    PROVE  LET x == Rest(s, Dst)
               last == LoopEnd(s, Dst)
               P == Put(Tail0(x), last.path)
           IN  AppendPath(s, Dst) =
                  IF IsOpen(Dst) /\ ~Fits(<<"/">>, Dst) THEN [ok |-> FALSE, path |-> Dst]
                  ELSE IF ~last.ok \/ ~Fits(Tail0(x), last.path)
                  THEN [ok |-> FALSE, path |-> [last.path EXCEPT !.WriteCur = Dst.WriteCur]]
                  ELSE [ok |-> TRUE, path |-> [P EXCEPT !.mem[P.WriteCur + 1] = NUL]]
  BY DEF AppendPath, Rest, IsOpen, LoopStart, LoopEnd, Failed, Undone, Done

(* What is read is a text: the argument, or all of it but the first slash.  *)
LEMMA RestFact ==
    ASSUME NEW s \in Texts, NEW Dst
    PROVE  LET x == Rest(s, Dst)
           IN  /\ x \in Texts
               /\ x = s \/ (/\ s # <<>> /\ s[1] = "/" /\ Dst.WriteCur > 0
                            /\ s = <<"/">> \o x /\ Len(s) = Len(x) + 1
                            /\ \A i \in 1..Len(x) : x[i] = s[i + 1])
<1> DEFINE x == Rest(s, Dst)
<1>1. CASE Dst.WriteCur > 0 /\ s # <<>> /\ s[1] = "/"
  <2>1. x = Tail(s)
    BY <1>1 DEF Rest
  <2>2. s \in Seq(Characters) /\ s # <<>>
    BY <1>1 DEF Texts
  <2>3. Tail(s) \in Seq(Characters) /\ Len(Tail(s)) = Len(s) - 1 /\ Len(s) \in Nat
        /\ \A i \in 1..Len(Tail(s)) : Tail(s)[i] = s[i + 1]
    BY <2>2, HeadTailProperties, LenProperties
  <2> DEFINE tail == Tail(s)
             y == <<"/">> \o tail
  <2> HIDE DEF tail
  <2>4. y \in Seq(Characters) /\ Len(y) = 1 + Len(tail) /\ y[1] = "/"
        /\ \A i \in 1..Len(tail) : y[1 + i] = tail[i]
    <3> DEFINE sl == <<"/">>
    <3>1. "/" \in Characters
      BY DEF Characters
    <3>2. sl \in Seq(Characters) /\ Len(sl) = 1 /\ sl[1] = "/"
      BY <3>1
    <3>3. tail \in Seq(Characters)
      BY <2>3 DEF tail
    <3> HIDE DEF sl
    <3>4. /\ sl \o tail \in Seq(Characters) /\ Len(sl \o tail) = Len(sl) + Len(tail)
          /\ \A i \in 1..Len(sl) : (sl \o tail)[i] = sl[i]
          /\ \A i \in 1..Len(tail) : (sl \o tail)[Len(sl) + i] = tail[i]
      <4>1. sl \in Seq(Characters) /\ tail \in Seq(Characters)
        BY <3>2, <3>3
      <4> QED
        BY <4>1, Joined
    <3>5. 1 \in 1..Len(sl)
      BY <3>2
    <3> QED
      BY <3>2, <3>4, <3>5 DEF sl
  <2>5. y = s
    <3> HIDE DEF y
    <3>1. Len(y) = Len(s) /\ Len(tail) = Len(s) - 1 /\ Len(s) \in Nat
      BY <2>3, <2>4 DEF tail
    <3>2. \A i \in 1..Len(s) : y[i] = s[i]
      <4> SUFFICES ASSUME NEW i \in 1..Len(s) PROVE y[i] = s[i]
        OBVIOUS
      <4>1. CASE i = 1
        BY <1>1, <2>4, <4>1
      <4>2. CASE i # 1
        <5> DEFINE k == i - 1
        <5>1. k \in 1..Len(tail) /\ k + 1 = i /\ 1 + k = i
          BY <3>1, <4>2
        <5> HIDE DEF k
        <5> QED
          BY <2>3, <2>4, <5>1 DEF tail
      <4> QED
        BY <4>1, <4>2
    <3> QED
      BY <2>2, <2>4, <3>1, <3>2, SeqEqual
  <2>6. s = <<"/">> \o tail
    BY <2>5
  <2>7. tail \in Texts /\ Len(s) = Len(tail) + 1 /\ \A i \in 1..Len(tail) : tail[i] = s[i + 1]
    BY <2>3 DEF Texts, tail
  <2>8. x = tail
    BY <2>1 DEF tail
  <2> HIDE DEF x
  <2>9. x \in Texts /\ s = <<"/">> \o x /\ Len(s) = Len(x) + 1 /\ \A i \in 1..Len(x) : x[i] = s[i + 1]
    BY <2>6, <2>7, <2>8
  <2> QED
    BY <1>1, <2>9 DEF x
<1>2. CASE ~(Dst.WriteCur > 0 /\ s # <<>> /\ s[1] = "/")
  <2>1. x = s
    BY <1>2 DEF Rest
  <2> QED
    BY <2>1
<1> QED
  BY <1>1, <1>2

(* The loop begins with a path that is empty or ends with a slash.          *)
LEMMA LoopStartFact ==
    ASSUME NEW Dst, PathOK(Dst), IsOpen(Dst) => Fits(<<"/">>, Dst)
    PROVE  LET st == LoopStart(Dst)
               t == Text(Dst)
           IN  /\ PathOK(st) /\ Ended(Text(st)) /\ st.WriteCur >= Dst.WriteCur
               /\ Text(st) = t \/ (Text(st) = t \o <<"/">> /\ t # <<>> /\ ~Ended(t))
               /\ Names(Text(st)) = Names(t)
               /\ Plain(t) => PlainDirs(Text(st))
               /\ \A j \in 1..Dst.WriteCur : st.mem[j] = Dst.mem[j] /\ st.mem[j] # NUL
<1> DEFINE st == LoopStart(Dst)
           t == Text(Dst)
           sl == <<"/">>
<1>1. t \in Texts /\ Len(t) = Dst.WriteCur /\ \A i \in 1..Dst.WriteCur : t[i] = Dst.mem[i]
  BY TextFact
<1>2. Dst.WriteCur \in 0..Size /\ Size \in Nat /\ MAX_PATH_SIZE = Size + 1
      /\ \A j \in 1..Dst.WriteCur : Dst.mem[j] # NUL
  BY SizeType DEF PathOK
<1>3. sl \in Texts /\ Len(sl) = 1
  <2>1. "/" \in Characters
    BY DEF Characters
  <2> QED
    BY <2>1 DEF Texts
<1> HIDE DEF t
<1>4. t = <<>> <=> Dst.WriteCur = 0
  BY <1>1, <1>2, EmptyText, EmptySeq DEF Texts
<1>5. CASE IsOpen(Dst)
  <2>1. st = Put(sl, Dst) /\ Fits(sl, Dst)
    BY <1>5 DEF LoopStart
  <2> HIDE DEF sl, st
  <2>2. /\ PathOK(st) /\ st.WriteCur = Dst.WriteCur + Len(sl) /\ Text(st) = t \o sl
        /\ \A i \in 1..MAX_PATH_SIZE : i <= Dst.WriteCur => st.mem[i] = Dst.mem[i]
    BY <1>3, <2>1, PutFact DEF t
  <2>3. t # <<>> /\ ~Ended(t)
    <3>1. Dst.WriteCur > 0 /\ Dst.mem[Dst.WriteCur] # "/" /\ Dst.WriteCur \in 1..Dst.WriteCur
      BY <1>2, <1>5 DEF IsOpen
    <3> QED
      BY <1>1, <1>4, <3>1 DEF Ended
  <2>4. Names(t \o sl) = Names(t) /\ Ended(t \o sl)
    BY <1>1, NamesSlash DEF sl
  <2>5. Plain(t) => PlainDirs(t \o sl)
    BY <1>1, PlainJoined DEF sl
  <2>6. \A j \in 1..Dst.WriteCur : st.mem[j] = Dst.mem[j] /\ st.mem[j] # NUL
    <3>1. \A j \in 1..Dst.WriteCur : j \in 1..MAX_PATH_SIZE /\ j <= Dst.WriteCur
      BY <1>2
    <3> QED
      BY <1>2, <2>2, <3>1
  <2>7. st.WriteCur >= Dst.WriteCur
    BY <1>2, <1>3, <2>2
  <2>8. Text(st) = t \o <<"/">>
    BY <2>2 DEF sl
  <2> QED
    BY <2>2, <2>3, <2>4, <2>5, <2>6, <2>7, <2>8 DEF t, st
<1>6. CASE ~IsOpen(Dst)
  <2>1. st = Dst
    BY <1>6 DEF LoopStart
  <2>2. Ended(t)
    <3>1. Dst.WriteCur > 0 => Dst.mem[Dst.WriteCur] = "/" /\ Dst.WriteCur \in 1..Dst.WriteCur
      BY <1>2, <1>6 DEF IsOpen
    <3> QED
      BY <1>1, <1>2, <1>4, <3>1 DEF Ended
  <2>3. Plain(t) => PlainDirs(t)
    BY <1>1, PlainMeans
  <2> HIDE DEF st
  <2>4. st.WriteCur >= Dst.WriteCur
    BY <1>2, <2>1
  <2> QED
    BY <1>2, <2>1, <2>2, <2>3, <2>4 DEF t, st
<1> QED
  BY <1>5, <1>6

(* A NUL behind the text leaves the text alone.                             *)
LEMMA Terminated ==
    ASSUME NEW P, PathOK(P)
    PROVE  LET Q == [P EXCEPT !.mem[P.WriteCur + 1] = NUL]
           IN  PathOK(Q) /\ Text(Q) = Text(P) /\ CString(Q) = Text(Q)
<1> DEFINE C == Characters \cup {NUL}
           k == P.WriteCur + 1
           mem == [P.mem EXCEPT ![k] = NUL]
           Q == [P EXCEPT !.mem[P.WriteCur + 1] = NUL]
           R == [mem |-> mem, WriteCur |-> P.WriteCur]
<1>1. P.mem \in Seq(C) /\ Len(P.mem) = MAX_PATH_SIZE /\ P.mem[MAX_PATH_SIZE] = NUL
      /\ P.WriteCur \in 0..Size /\ Size \in Nat /\ MAX_PATH_SIZE = Size + 1
      /\ P = [mem |-> P.mem, WriteCur |-> P.WriteCur]
      /\ \A i \in 1..P.WriteCur : P.mem[i] # NUL
  BY SizeType DEF PathOK
<1>2. k \in 1..MAX_PATH_SIZE /\ NUL \in C /\ \A i \in 1..P.WriteCur : i # k /\ i \in 1..MAX_PATH_SIZE
  BY <1>1
<1>3. mem \in Seq(C) /\ Len(mem) = MAX_PATH_SIZE
      /\ \A i \in 1..MAX_PATH_SIZE : mem[i] = IF i = k THEN NUL ELSE P.mem[i]
  <2>1. k \in 1..Len(P.mem)
    BY <1>1, <1>2
  <2> HIDE DEF C, k
  <2>2. mem \in Seq(C) /\ Len(mem) = Len(P.mem)
    BY <1>1, <1>2, <2>1, ExceptSeq
  <2>3. DOMAIN P.mem = 1..MAX_PATH_SIZE
    BY <1>1, LenProperties
  <2> QED
    BY <1>1, <2>2, <2>3
<1>4. Q = R
  <2>1. P = [mem |-> P.mem, WriteCur |-> P.WriteCur]
    BY <1>1
  <2> QED
    BY <2>1, SMT
<1> HIDE DEF k, mem, C
<1>5. R.mem = mem /\ R.WriteCur = P.WriteCur /\ R = [mem |-> R.mem, WriteCur |-> R.WriteCur]
  OBVIOUS
<1> HIDE DEF R, Q
<1>6. mem[MAX_PATH_SIZE] = NUL /\ mem[k] = NUL /\ \A i \in 1..P.WriteCur : mem[i] = P.mem[i]
  <2>1. MAX_PATH_SIZE \in 1..MAX_PATH_SIZE
    BY <1>1
  <2> QED
    BY <1>1, <1>2, <1>3, <2>1
<1>7. PathOK(R)
  BY <1>1, <1>3, <1>5, <1>6 DEF PathOK, C
<1>8. Text(R) = Text(P)
  <2>1. /\ Text(R) \in Texts /\ Len(Text(R)) = R.WriteCur
        /\ \A i \in 1..R.WriteCur : Text(R)[i] = R.mem[i]
    BY <1>7, TextFact
  <2>2. /\ Text(P) \in Texts /\ Len(Text(P)) = P.WriteCur
        /\ \A i \in 1..P.WriteCur : Text(P)[i] = P.mem[i]
    BY TextFact
  <2> QED
    BY <1>5, <1>6, <2>1, <2>2, SeqEqual DEF Texts
<1>9. CString(R) = Text(R)
  <2>1. R.mem[R.WriteCur + 1] = NUL
    BY <1>5, <1>6 DEF k
  <2> QED
    BY <1>7, <2>1, CStringFact
<1> QED
  BY <1>4, <1>7, <1>8, <1>9 DEF Q

(* A WriteCur that goes back to where there is no NUL                       *)
LEMMA SetBack ==
    ASSUME NEW P, PathOK(P), NEW n \in 0..Size, \A j \in 1..n : P.mem[j] # NUL
    PROVE  LET Q == [P EXCEPT !.WriteCur = n]
           IN  PathOK(Q) /\ Q.WriteCur = n /\ Q.mem = P.mem
<1> DEFINE Q == [P EXCEPT !.WriteCur = n]
<1>1. P = [mem |-> P.mem, WriteCur |-> P.WriteCur]
  BY DEF PathOK
<1>2. Q = [mem |-> P.mem, WriteCur |-> n]
  BY <1>1
<1> HIDE DEF Q
<1>3. Q.mem = P.mem /\ Q.WriteCur = n /\ Q = [mem |-> Q.mem, WriteCur |-> Q.WriteCur]
  BY <1>2
<1>4. PathOK(Q)
  BY <1>3 DEF PathOK
<1> QED
  BY <1>3, <1>4 DEF Q

(* What an append leaves is a path; if it answers true, a terminated one, and
   if it answers false, one as long as before.                              *)
LEMMA AppendOK ==
    ASSUME NEW Dst, PathOK(Dst), NEW s \in Texts
    PROVE  LET r == AppendPath(s, Dst)
               last == LoopEnd(s, Dst)
           IN  /\ r = [ok |-> r.ok, path |-> r.path] /\ r.ok \in BOOLEAN /\ PathOK(r.path)
               /\ r.ok => /\ IsOpen(Dst) => Fits(<<"/">>, Dst)
                          /\ last.ok /\ PathOK(last.path) /\ Fits(Tail0(Rest(s, Dst)), last.path)
                          /\ Text(r.path) = Text(last.path) \o Tail0(Rest(s, Dst))
                          /\ CString(r.path) = Text(r.path)
               /\ ~r.ok => r.path = Dst \/ (/\ r.path.mem = last.path.mem
                                            /\ r.path.WriteCur = Dst.WriteCur
                                            /\ IsOpen(Dst) => Fits(<<"/">>, Dst))
<1> DEFINE x == Rest(s, Dst)
           last == LoopEnd(s, Dst)
           tail == Tail0(x)
           P == Put(tail, last.path)
           r == AppendPath(s, Dst)
<1>1. r = IF IsOpen(Dst) /\ ~Fits(<<"/">>, Dst) THEN [ok |-> FALSE, path |-> Dst]
          ELSE IF ~last.ok \/ ~Fits(tail, last.path)
          THEN [ok |-> FALSE, path |-> [last.path EXCEPT !.WriteCur = Dst.WriteCur]]
          ELSE [ok |-> TRUE, path |-> [P EXCEPT !.mem[P.WriteCur + 1] = NUL]]
  BY AppendPathIs
<1>2. x \in Texts /\ tail \in Texts
  BY RestFact, TailFact
<1>3. Dst.WriteCur \in 0..Size
  BY DEF PathOK
<1>4. ASSUME IsOpen(Dst) => Fits(<<"/">>, Dst)
      PROVE  Sound(last, Dst.WriteCur)
  <2>1. PathOK(LoopStart(Dst)) /\ \A j \in 1..Dst.WriteCur : LoopStart(Dst).mem[j] # NUL
    BY <1>4, LoopStartFact
  <2>2. Len(x) \in 0..Len(x)
    BY <1>2, LenProperties DEF Texts
  <2> QED
    BY <1>2, <1>3, <2>1, <2>2, LoopSound DEF LoopEnd
<1>5. CASE IsOpen(Dst) /\ ~Fits(<<"/">>, Dst)
  <2>1. r = [ok |-> FALSE, path |-> Dst]
    BY <1>1, <1>5
  <2> HIDE DEF r
  <2>2. ~r.ok /\ r.path = Dst /\ r.ok \in BOOLEAN
    BY <2>1
  <2>3. r = [ok |-> r.ok, path |-> r.path] /\ PathOK(r.path)
    BY <2>1, <2>2
  <2> QED
    BY <2>2, <2>3 DEF r
<1>6. CASE /\ ~(IsOpen(Dst) /\ ~Fits(<<"/">>, Dst))
           /\ ~last.ok \/ ~Fits(tail, last.path)
  <2> DEFINE Q == [last.path EXCEPT !.WriteCur = Dst.WriteCur]
  <2>1. r = [ok |-> FALSE, path |-> Q]
    BY <1>1, <1>6
  <2>2. PathOK(Q) /\ Q.WriteCur = Dst.WriteCur /\ Q.mem = last.path.mem
    <3>1. PathOK(last.path) /\ \A j \in 1..Dst.WriteCur : last.path.mem[j] # NUL
      BY <1>4, <1>6 DEF Sound
    <3> HIDE DEF last
    <3> QED
      BY <1>3, <3>1, SetBack
  <2> HIDE DEF r, Q
  <2>3. ~r.ok /\ r.path = Q /\ r.ok \in BOOLEAN
    BY <2>1
  <2>4. r = [ok |-> r.ok, path |-> r.path] /\ PathOK(r.path)
    BY <2>1, <2>2, <2>3
  <2> QED
    BY <1>6, <2>2, <2>3, <2>4 DEF r
<1>7. CASE /\ ~(IsOpen(Dst) /\ ~Fits(<<"/">>, Dst))
           /\ last.ok /\ Fits(tail, last.path)
  <2> DEFINE Q == [P EXCEPT !.mem[P.WriteCur + 1] = NUL]
  <2>1. r = [ok |-> TRUE, path |-> Q]
    BY <1>1, <1>7
  <2>2. PathOK(last.path)
    BY <1>4, <1>7 DEF Sound
  <2>3. PathOK(P) /\ Text(P) = Text(last.path) \o tail
    <3> HIDE DEF last, tail
    <3> QED
      BY <1>2, <1>7, <2>2, PutFact
  <2> HIDE DEF P
  <2>4. PathOK(Q) /\ Text(Q) = Text(P) /\ CString(Q) = Text(Q)
    BY <2>3, Terminated
  <2> HIDE DEF r, Q
  <2>5. r.ok /\ r.path = Q /\ r.ok \in BOOLEAN
    BY <2>1
  <2>6. r = [ok |-> r.ok, path |-> r.path] /\ PathOK(r.path)
    BY <2>1, <2>4, <2>5
  <2> QED
    BY <1>7, <2>2, <2>3, <2>4, <2>5, <2>6 DEF r
<1> QED
  BY <1>5, <1>6, <1>7

(* An append that answers false, and never moved up, leaves the text alone. *)
LEMMA AppendRefused ==
    ASSUME NEW Dst, PathOK(Dst), NEW s \in Texts, \A i \in 1..Len(s) : ~IsUp(s, i),
           ~AppendPath(s, Dst).ok
    PROVE  Text(AppendPath(s, Dst).path) = Text(Dst)
<1> DEFINE x == Rest(s, Dst)
           last == LoopEnd(s, Dst)
           Q == AppendPath(s, Dst).path
<1>1. /\ PathOK(Q)
      /\ Q = Dst \/ (/\ Q.mem = last.path.mem /\ Q.WriteCur = Dst.WriteCur
                     /\ IsOpen(Dst) => Fits(<<"/">>, Dst))
  BY AppendOK
<1>2. CASE Q = Dst
  BY <1>2
<1>3. CASE /\ Q.mem = last.path.mem /\ Q.WriteCur = Dst.WriteCur
           /\ IsOpen(Dst) => Fits(<<"/">>, Dst)
  <2>1. x \in Texts /\ \A i \in 1..Len(x) : ~IsUp(x, i)
    <3>1. x \in Texts
      BY RestFact
    <3>2. CASE x = s
      BY <3>1, <3>2
    <3>3. CASE /\ s = <<"/">> \o x /\ Len(s) = Len(x) + 1
               /\ \A i \in 1..Len(x) : x[i] = s[i + 1]
      <4> DEFINE sl == <<"/">>
      <4>1. sl \in Texts /\ Len(sl) = 1 /\ Ended(sl)
        <5>1. "/" \in Characters
          BY DEF Characters
        <5> QED
          BY <5>1 DEF Texts, Ended
      <4>2. Len(x) \in Nat
        BY <3>1, LenProperties DEF Texts
      <4>3. s = sl \o x
        BY <3>3
      <4> HIDE DEF sl, x
      <4>4. ASSUME NEW i \in 1..Len(x) PROVE ~IsUp(x, i)
        <5>1. i \in 1..(Len(x) + 1) /\ i + 1 \in 1..Len(s) /\ 1 + i = i + 1
          BY <3>3, <4>2
        <5>2. PartEnding(sl \o x, Len(sl) + i) = PartEnding(x, i)
          BY <3>1, <4>1, <5>1, PartEndingBehind
        <5>3. PartEnding(s, i + 1) = PartEnding(x, i)
          BY <4>1, <4>3, <5>1, <5>2
        <5>4. ~IsUp(s, i + 1)
          BY <5>1
        <5> QED
          BY <3>3, <5>3, <5>4 DEF IsUp
      <4> QED
        BY <3>1, <4>4
    <3> QED
      BY <3>1, <3>2, <3>3, RestFact
  <2>2. /\ PathOK(LoopStart(Dst)) /\ LoopStart(Dst).WriteCur >= Dst.WriteCur
        /\ \A j \in 1..Dst.WriteCur : LoopStart(Dst).mem[j] = Dst.mem[j]
    BY <1>3, LoopStartFact
  <2>3. /\ \A j \in 1..LoopStart(Dst).WriteCur : last.path.mem[j] = LoopStart(Dst).mem[j]
    <3>1. Len(x) \in 0..Len(x)
      BY <2>1, LenProperties DEF Texts
    <3>2. Longer(last, LoopStart(Dst))
      BY <2>1, <2>2, <3>1, LoopAppends DEF LoopEnd
    <3> QED
      BY <3>2 DEF Longer
  <2>4. Dst.WriteCur \in Nat /\ LoopStart(Dst).WriteCur \in Nat
    BY <2>2 DEF PathOK
  <2>5. \A j \in 1..Dst.WriteCur : j \in 1..LoopStart(Dst).WriteCur
    BY <2>2, <2>4
  <2>6. \A j \in 1..Dst.WriteCur : Q.mem[j] = Dst.mem[j]
    BY <1>3, <2>2, <2>3, <2>5
  <2>7. /\ Text(Q) \in Texts /\ Len(Text(Q)) = Q.WriteCur
        /\ \A i \in 1..Q.WriteCur : Text(Q)[i] = Q.mem[i]
    BY <1>1, TextFact
  <2>8. /\ Text(Dst) \in Texts /\ Len(Text(Dst)) = Dst.WriteCur
        /\ \A i \in 1..Dst.WriteCur : Text(Dst)[i] = Dst.mem[i]
    BY TextFact
  <2> HIDE DEF Q
  <2>9. Text(Q) = Text(Dst)
    BY <1>3, <2>6, <2>7, <2>8, SeqEqual DEF Texts
  <2> QED
    BY <2>9 DEF Q
<1> QED
  BY <1>1, <1>2, <1>3

(* A part ".." are two dots behind a slash or at the beginning.             *)
LEMMA UpPart ==
    ASSUME NEW s \in Texts, NEW i \in 1..Len(s), IsUp(s, i)
    PROVE  i >= 3 /\ s[i - 1] = "." /\ s[i - 2] = "." /\ (i = 3 \/ s[i - 3] = "/") /\ i \in Slashes(s)
<1> DEFINE k == i - 1
           c == SubSeq(s, 1, k)
           L == LastSlash(c)
<1>1. Len(s) \in Nat /\ k \in 0..Len(s) /\ s \in Seq(Characters) /\ DOMAIN s = 1..Len(s)
  BY LenProperties DEF Texts
<1>2. Tail0(c) = <<".", ".">> /\ s[i] = "/"
  BY DEF IsUp, PartEnding
<1> HIDE DEF k
<1>3. c \in Texts /\ Len(c) = k /\ \A j \in 1..k : c[j] = s[j]
  BY <1>1, Beginning DEF Texts
<1> HIDE DEF c
<1>4. /\ L \in 0..Len(c) /\ (L # 0 => c[L] = "/")
      /\ Len(Tail0(c)) = Len(c) - L
      /\ \A j \in 1..Len(Tail0(c)) : Tail0(c)[j] = c[L + j]
  BY <1>3, LastSlashFact, TailFact
<1> HIDE DEF L
<1>5. /\ Len(<<".", ".">>) = 2 /\ <<".", ".">>[1] = "." /\ <<".", ".">>[2] = "."
  OBVIOUS
<1>6. L = k - 2 /\ c[L + 1] = "." /\ c[L + 2] = "."
  <2>1. Len(Tail0(c)) = 2 /\ Tail0(c)[1] = "." /\ Tail0(c)[2] = "."
    BY <1>2, <1>5
  <2>2. 1 \in 1..2 /\ 2 \in 1..2
    OBVIOUS
  <2>3. c[L + 1] = "." /\ c[L + 2] = "."
    BY <1>4, <2>1, <2>2
  <2>4. 2 = k - L
    <3>1. Len(Tail0(c)) = Len(c) - L
      BY <1>4
    <3>2. Len(Tail0(c)) = 2 /\ Len(c) = k
      BY <1>3, <2>1
    <3> QED
      BY <3>1, <3>2, Zenon
  <2>5. L \in Int /\ k \in Int
    BY <1>1, <1>3, <1>4
  <2>6. L = k - 2
    BY <2>4, <2>5
  <2> QED
    BY <2>3, <2>6
<1>7. /\ k = i - 1 /\ L = i - 3 /\ L + 1 = i - 2 /\ L + 2 = i - 1 /\ i >= 3
      /\ L + 1 \in 1..k /\ L + 2 \in 1..k /\ (L # 0 => L \in 1..k)
  BY <1>1, <1>3, <1>4, <1>6 DEF k
<1>8. s[i - 1] = "." /\ s[i - 2] = "."
  BY <1>3, <1>6, <1>7
<1>9. i = 3 \/ s[i - 3] = "/"
  BY <1>3, <1>4, <1>7
<1>10. i \in Slashes(s)
  BY <1>1, <1>2 DEF Slashes
<1> QED
  BY <1>7, <1>8, <1>9, <1>10

(* The text behind another text                                             *)
LEMMA BehindFact ==
    ASSUME NEW t \in Texts, NEW s \in Texts
    PROVE  /\ Behind(t, s) \in Texts
           /\ t = <<>> => Behind(t, s) = s
           /\ t # <<>> => Behind(t, s) = (t \o <<"/">>) \o s
           /\ Len(Behind(t, s)) = (IF t = <<>> THEN 0 ELSE Len(t) + 1) + Len(s)
           /\ \A i \in 1..Len(s) :
                 Behind(t, s)[(IF t = <<>> THEN 0 ELSE Len(t) + 1) + i] = s[i]
           /\ t # <<>> => /\ \A i \in 1..Len(t) : Behind(t, s)[i] = t[i]
                          /\ Behind(t, s)[Len(t) + 1] = "/"
<1>1. Len(t) \in Nat /\ Len(s) \in Nat
  BY LenProperties DEF Texts
<1>2. CASE t = <<>>
  <2>1. Behind(t, s) = s
    BY <1>2 DEF Behind
  <2>2. \A i \in 1..Len(s) : 0 + i = i
    OBVIOUS
  <2> QED
    BY <1>1, <1>2, <2>1, <2>2
<1>3. CASE t # <<>>
  <2> DEFINE sl == <<"/">>
             v == t \o sl
             B == v \o s
  <2>1. sl \in Seq(Characters) /\ Len(sl) = 1 /\ sl[1] = "/" /\ 1 \in 1..Len(sl)
    <3>1. "/" \in Characters
      BY DEF Characters
    <3> QED
      BY <3>1
  <2>2. t \in Seq(Characters) /\ s \in Seq(Characters)
    BY DEF Texts
  <2>3. Behind(t, s) = B
    <3>1. Behind(t, s) = (t \o sl) \o s
      BY <1>3 DEF Behind
    <3> QED
      BY <3>1
  <2> HIDE DEF sl
  <2>4. /\ v \in Seq(Characters) /\ Len(v) = Len(t) + Len(sl)
        /\ \A i \in 1..Len(t) : v[i] = t[i]
        /\ \A i \in 1..Len(sl) : v[Len(t) + i] = sl[i]
    <3>1. sl \in Seq(Characters) /\ t \in Seq(Characters)
      BY <2>1, <2>2
    <3> QED
      BY <3>1, Joined
  <2> HIDE DEF v
  <2>5. /\ B \in Seq(Characters) /\ Len(B) = Len(v) + Len(s)
        /\ \A i \in 1..Len(v) : B[i] = v[i]
        /\ \A i \in 1..Len(s) : B[Len(v) + i] = s[i]
    <3>1. v \in Seq(Characters) /\ s \in Seq(Characters)
      BY <2>2, <2>4
    <3> QED
      BY <3>1, Joined
  <2> HIDE DEF B
  <2>6. Len(v) = Len(t) + 1 /\ (\A i \in 1..Len(t) : i \in 1..Len(v)) /\ Len(t) + 1 \in 1..Len(v)
        /\ v[Len(t) + 1] = "/"
    BY <1>1, <2>1, <2>4
  <2>7. \A i \in 1..Len(t) : B[i] = t[i]
    BY <2>4, <2>5, <2>6
  <2>8. B[Len(t) + 1] = "/"
    BY <2>5, <2>6
  <2>9. \A i \in 1..Len(s) : B[(Len(t) + 1) + i] = s[i]
    BY <2>5, <2>6
  <2>10. Len(B) = (Len(t) + 1) + Len(s)
    BY <2>5, <2>6
  <2>11. B \in Texts
    BY <2>5 DEF Texts
  <2>12. B = (t \o <<"/">>) \o s
    BY DEF B, v, sl
  <2> QED
    BY <1>3, <2>3, <2>7, <2>8, <2>9, <2>10, <2>11, <2>12
<1> QED
  BY <1>2, <1>3

(* Where each ".." has a name to take back, the names on the way to it are
   at least one, and two if the path is absolute.                           *)
LEMMA UpsBelow ==
    ASSUME NEW t \in Texts, NEW s \in Texts, StaysBelow(t, s), NEW i \in 1..Len(s), IsUp(s, i)
    PROVE  LET B == Behind(t, s)
           IN  Len(Entered(B)[Len(B) - Len(s) + (i - 1)]) > (IF Absolute(B) THEN 1 ELSE 0)
<1> DEFINE B == Behind(t, s)
           m == i - 3
           q == SubSeq(s, 1, m)
           p == Behind(t, q)
           o == IF t = <<>> THEN 0 ELSE Len(t) + 1
<1>1. i >= 3 /\ s[i - 1] = "." /\ s[i - 2] = "." /\ (i = 3 \/ s[i - 3] = "/") /\ i \in Slashes(s)
  BY UpPart
<1>2. Len(s) \in Nat /\ Len(t) \in Nat /\ m \in 0..Len(s) /\ o \in Nat
  BY <1>1, LenProperties DEF Texts
<1>3. Len(Names(p)) > (IF Absolute(p) THEN 1 ELSE 0)
  BY <1>1 DEF StaysBelow, IsUp
<1> HIDE DEF m
<1>4. q \in Texts /\ Len(q) = m /\ \A j \in 1..m : q[j] = s[j]
  BY <1>2, Beginning DEF Texts
<1> HIDE DEF q
<1>5. /\ p \in Texts /\ Len(p) = o + m
      /\ \A j \in 1..m : p[o + j] = q[j]
      /\ t # <<>> => (\A j \in 1..Len(t) : p[j] = t[j]) /\ p[Len(t) + 1] = "/"
  BY <1>4, BehindFact
<1>6. /\ B \in Texts /\ Len(B) = o + Len(s)
      /\ \A j \in 1..Len(s) : B[o + j] = s[j]
      /\ t # <<>> => (\A j \in 1..Len(t) : B[j] = t[j]) /\ B[Len(t) + 1] = "/"
  BY BehindFact
<1> HIDE DEF p, B
<1>7. t = <<>> => o = 0
  OBVIOUS
<1>8. t # <<>> => o = Len(t) + 1
  OBVIOUS
<1> HIDE DEF o
<1> DEFINE n == o + m
<1>9. n \in Nat /\ n <= Len(p) /\ n <= Len(B) /\ n = Len(p)
  BY <1>2, <1>5, <1>6
<1>10. \A j \in 1..n : p[j] = B[j]
  <2> SUFFICES ASSUME NEW j \in 1..n PROVE p[j] = B[j]
    OBVIOUS
  <2>1. CASE j <= o
    <3>1. t # <<>>
      BY <1>7, <2>1
    <3>2. j \in 1..Len(t) \/ j = Len(t) + 1
      BY <1>2, <1>8, <2>1, <3>1
    <3> QED
      BY <1>5, <1>6, <3>1, <3>2
  <2>2. CASE j > o
    <3> DEFINE k == j - o
    <3>1. k \in 1..m /\ k \in 1..Len(s) /\ o + k = j
      BY <1>2, <2>2
    <3> HIDE DEF k
    <3> QED
      BY <1>4, <1>5, <1>6, <3>1
  <2> QED
    BY <1>2, <2>1, <2>2
<1>11. Ended(p)
  <2>1. CASE m = 0
    <3>1. CASE t = <<>>
      <4>1. Len(p) = 0
        BY <1>5, <1>7, <2>1, <3>1
      <4> QED
        BY <4>1, EmptySeq, <1>5 DEF Ended, Texts
    <3>2. CASE t # <<>>
      <4>1. Len(p) = Len(t) + 1
        BY <1>2, <1>5, <1>8, <2>1, <3>2
      <4> QED
        BY <1>5, <3>2, <4>1 DEF Ended
    <3> QED
      BY <3>1, <3>2
  <2>2. CASE m # 0
    <3>1. m \in 1..m /\ i # 3 /\ m = i - 3
      BY <1>2, <2>2 DEF m
    <3>2. p[o + m] = s[m] /\ s[m] = "/"
      BY <1>1, <1>4, <1>5, <3>1
    <3> QED
      BY <1>5, <3>2 DEF Ended
  <2> QED
    BY <2>1, <2>2
<1>12. Names(p) = Entered(B)[n]
  <2>1. Names(p) = Entered(p)[n]
    BY <1>5, <1>9, <1>11, NamesEnded
  <2>2. n \in 0..n
    BY <1>9
  <2> HIDE DEF n
  <2>3. Entered(p)[n] = Entered(B)[n]
    BY <1>5, <1>6, <1>9, <1>10, <2>2, EnteredPrefix
  <2> QED
    BY <2>1, <2>3
<1> DEFINE l == Len(B) - Len(s) + (i - 1)
<1>13. l = n + 2 /\ n \in 0..Len(B) /\ l \in 0..Len(B) /\ n <= l
  BY <1>1, <1>2, <1>6 DEF m
<1>14. \A j \in 1..Len(B) : n < j /\ j <= l => B[j] # "/"
  <2>1. B[n + 1] = "." /\ B[n + 2] = "."
    <3>1. n + 1 = o + (i - 2) /\ n + 2 = o + (i - 1) /\ i - 2 \in 1..Len(s) /\ i - 1 \in 1..Len(s)
      BY <1>1, <1>2 DEF m
    <3> HIDE DEF n
    <3>2. B[o + (i - 2)] = s[i - 2] /\ B[o + (i - 1)] = s[i - 1]
      BY <1>6, <3>1
    <3> QED
      BY <1>1, <3>1, <3>2
  <2>2. "." # "/"
    OBVIOUS
  <2> HIDE DEF n, l
  <2> QED
    BY <1>9, <1>13, <2>1, <2>2
<1> HIDE DEF n, l
<1>15. Entered(B)[l] = Entered(B)[n]
  BY <1>6, <1>13, <1>14, EnteredSkip
<1>16. Len(Entered(B)[l]) > (IF Absolute(B) THEN 1 ELSE 0)
  <2>1. p # <<>>
    <3>1. Len(Names(<<>>)) = 0
      BY EmptyText
    <3> QED
      BY <1>3, <3>1
  <2>2. Len(p) > 0
    BY <1>5, <1>9, <2>1, EmptySeq DEF Texts
  <2>3. 1 \in 1..n /\ Len(B) > 0
    BY <1>9, <2>2
  <2>4. p[1] = B[1] /\ B # <<>>
    BY <1>10, <2>3, EmptyText
  <2>5. Absolute(p) <=> Absolute(B)
    BY <2>1, <2>4 DEF Absolute
  <2> QED
    BY <1>3, <1>12, <1>15, <2>5
<1> QED
  BY <1>16 DEF l, B

(* What AppendPath reads and where it begins, as a text behind a text: u is
   the text before, with its slash or slashes, and x what is read.          *)
LEMMA BehindSplit ==
    ASSUME NEW Dst, PathOK(Dst), NEW s \in Texts
    PROVE  LET t == Text(Dst)
               x == Rest(s, Dst)
           IN  \E u \in Texts :
                  /\ Ended(u) /\ Names(u) = Names(t) /\ Behind(t, s) = u \o x
                  /\ t = <<>> => u = <<>> /\ x = s
                  /\ t # <<>> => u # <<>> /\ (Absolute(u) <=> Absolute(t))
                  /\ NoEmptyPart(s) => NoEmptyPart(x) /\ (t # <<>> => x = <<>> \/ x[1] # "/")
                  /\ \A i \in 1..Len(x) : IsUp(x, i) =>
                        /\ i + (Len(s) - Len(x)) \in 1..Len(s)
                        /\ IsUp(s, i + (Len(s) - Len(x)))
                        /\ Len(Behind(t, s)) - Len(s) + (i + (Len(s) - Len(x)) - 1) = Len(u) + (i - 1)
<1> DEFINE t == Text(Dst)
           x == Rest(s, Dst)
           sl == <<"/">>
           t1 == t \o sl
           t2 == t1 \o sl
<1>1. t \in Texts /\ Len(t) = Dst.WriteCur /\ Dst.WriteCur \in Nat
  BY TextFact DEF PathOK
<1>2. sl \in Texts /\ Len(sl) = 1 /\ Ended(sl) /\ sl[1] = "/"
  <2>1. "/" \in Characters
    BY DEF Characters
  <2> QED
    BY <2>1 DEF Texts, Ended
<1>3. x \in Texts /\ Len(x) \in Nat /\ Len(s) \in Nat
  <2>1. x \in Texts
    BY RestFact
  <2> QED
    BY <2>1, LenProperties DEF Texts
<1> HIDE DEF t
<1>4. t = <<>> <=> Dst.WriteCur = 0
  BY <1>1, EmptyText, EmptySeq DEF Texts
<1>5. /\ t1 \in Texts /\ Names(t1) = Names(t) /\ Ended(t1) /\ Len(t1) = Len(t) + 1
      /\ \A i \in 1..Len(t) : t1[i] = t[i]
  <2>1. Names(t1) = Names(t) /\ Ended(t1) /\ t1 \in Texts
    BY <1>1, NamesSlash
  <2>2. t \in Seq(Characters) /\ sl \in Seq(Characters)
    BY <1>1, <1>2 DEF Texts
  <2> HIDE DEF sl
  <2>3. Len(t \o sl) = Len(t) + Len(sl) /\ \A i \in 1..Len(t) : (t \o sl)[i] = t[i]
    BY <2>2, Joined
  <2> QED
    BY <1>2, <2>1, <2>3
<1>6. /\ t2 \in Texts /\ Names(t2) = Names(t) /\ Ended(t2) /\ Len(t2) = Len(t) + 2
      /\ \A i \in 1..Len(t) : t2[i] = t[i]
  <2> HIDE DEF t1
  <2>1. t2 \in Texts /\ Names(t2) = Names(t) /\ Ended(t2)
    BY <1>5, NamesSlash
  <2>2. t1 \in Seq(Characters) /\ sl \in Seq(Characters)
    BY <1>2, <1>5 DEF Texts
  <2> HIDE DEF sl
  <2>3. Len(t1 \o sl) = Len(t1) + Len(sl) /\ \A i \in 1..Len(t1) : (t1 \o sl)[i] = t1[i]
    BY <2>2, Joined
  <2>4. \A i \in 1..Len(t) : i \in 1..Len(t1)
    BY <1>1, <1>5
  <2>5. Len(t2) = Len(t) + 2
    BY <1>1, <1>2, <1>5, <2>3
  <2> QED
    BY <1>5, <2>1, <2>3, <2>4, <2>5
<1>7. Behind(t, s) = IF t = <<>> THEN s ELSE t1 \o s
  BY DEF Behind
<1>8. Len(Behind(t, s)) = (IF t = <<>> THEN 0 ELSE Len(t) + 1) + Len(s)
  BY <1>1, BehindFact
<1>9. ASSUME t # <<>>, NEW v \in Texts, Len(v) > Len(t), \A i \in 1..Len(t) : v[i] = t[i]
      PROVE  v # <<>> /\ (Absolute(v) <=> Absolute(t))
  <2>1. 1 \in 1..Len(t)
    BY <1>1, <1>4, <1>9
  <2>2. v[1] = t[1] /\ v # <<>>
    BY <1>1, <1>9, <2>1, EmptyText
  <2> QED
    BY <1>9, <2>2 DEF Absolute
<1> DEFINE Good(u) ==
              /\ Ended(u) /\ Names(u) = Names(t) /\ Behind(t, s) = u \o x
              /\ t = <<>> => u = <<>> /\ x = s
              /\ t # <<>> => u # <<>> /\ (Absolute(u) <=> Absolute(t))
              /\ NoEmptyPart(s) => NoEmptyPart(x) /\ (t # <<>> => x = <<>> \/ x[1] # "/")
              /\ \A i \in 1..Len(x) : IsUp(x, i) =>
                    /\ i + (Len(s) - Len(x)) \in 1..Len(s)
                    /\ IsUp(s, i + (Len(s) - Len(x)))
                    /\ Len(Behind(t, s)) - Len(s) + (i + (Len(s) - Len(x)) - 1) = Len(u) + (i - 1)
<1>10. \E u \in Texts : Good(u)
  <2>1. CASE t = <<>>
    <3>1. x = s
      BY <1>4, <2>1 DEF Rest
    <3>2. Behind(t, s) = s /\ <<>> \o x = x
      BY <1>7, <2>1, <1>3, ConcatEmptySeq DEF Texts
    <3>3. \A i \in 1..Len(x) : IsUp(x, i) =>
             /\ i + (Len(s) - Len(x)) = i /\ i \in 1..Len(s)
             /\ Len(Behind(t, s)) - Len(s) + (i - 1) = Len(<<>>) + (i - 1)
      BY <1>3, <1>8, <2>1, <3>1, EmptyText
    <3> HIDE DEF x, t1, t2
    <3>4. Good(<<>>)
      BY <2>1, <3>1, <3>2, <3>3, EmptyText
    <3> HIDE DEF Good
    <3> QED
      BY <3>4, EmptyText
  <2>2. CASE t # <<>> /\ x = s /\ ~(s # <<>> /\ s[1] = "/")
    <3>1. \A i \in 1..Len(x) : IsUp(x, i) =>
             /\ i + (Len(s) - Len(x)) = i /\ i \in 1..Len(s)
             /\ Len(Behind(t, s)) - Len(s) + (i - 1) = Len(t1) + (i - 1)
      BY <1>1, <1>3, <1>5, <1>8, <2>2
    <3>2. t1 # <<>> /\ (Absolute(t1) <=> Absolute(t))
      <4> HIDE DEF t1, t2
      <4>1. Len(t1) > Len(t)
        BY <1>1, <1>5
      <4> QED
        BY <1>5, <1>9, <2>2, <4>1
    <3> HIDE DEF x, t1, t2
    <3>3. Behind(t, s) = t1 \o x
      BY <1>7, <2>2
    <3>4. Good(t1)
      BY <1>5, <2>2, <3>1, <3>2, <3>3
    <3> HIDE DEF Good
    <3> QED
      BY <1>5, <3>4
  <2>3. CASE t # <<>> /\ s # <<>> /\ s[1] = "/"
    <3>1. s = sl \o x /\ Len(s) = Len(x) + 1 /\ \A i \in 1..Len(x) : x[i] = s[i + 1]
      <4>1. x # s
        <5>1. x = Tail(s)
          BY <1>1, <1>4, <2>3 DEF Rest
        <5>2. Len(Tail(s)) = Len(s) - 1
          BY <2>3, HeadTailProperties DEF Texts
        <5> QED
          BY <1>3, <5>1, <5>2
      <4> QED
        BY <4>1, RestFact
    <3>2. t2 # <<>> /\ (Absolute(t2) <=> Absolute(t))
      <4> HIDE DEF t1, t2
      <4>1. Len(t2) > Len(t)
        BY <1>1, <1>6
      <4> QED
        BY <1>6, <1>9, <2>3, <4>1
    <3> HIDE DEF x
    <3>3. Behind(t, s) = t2 \o x
      <4>1. t1 \in Seq(Characters) /\ sl \in Seq(Characters) /\ x \in Seq(Characters)
        BY <1>2, <1>3, <1>5 DEF Texts
      <4>2. (t1 \o sl) \o x = t1 \o (sl \o x)
        BY <4>1, ConcatAssociative
      <4> HIDE DEF t1, sl
      <4> QED
        BY <1>7, <2>3, <3>1, <4>2 DEF t2
    <3>4. ASSUME NEW i \in 1..Len(x), IsUp(x, i)
          PROVE  /\ i + (Len(s) - Len(x)) \in 1..Len(s)
                 /\ IsUp(s, i + (Len(s) - Len(x)))
                 /\ Len(Behind(t, s)) - Len(s) + (i + (Len(s) - Len(x)) - 1) = Len(t2) + (i - 1)
      <4>1. i \in 1..(Len(x) + 1) /\ i + 1 \in 1..Len(s) /\ 1 + i = i + 1 /\ i + (Len(s) - Len(x)) = i + 1
        BY <1>3, <3>1
      <4> HIDE DEF sl, t2
      <4>2. PartEnding(sl \o x, Len(sl) + i) = PartEnding(x, i)
        BY <1>2, <1>3, <4>1, PartEndingBehind
      <4>3. PartEnding(s, i + 1) = PartEnding(x, i)
        BY <1>2, <3>1, <4>1, <4>2
      <4>4. IsUp(s, i + 1)
        BY <3>1, <3>4, <4>3 DEF IsUp
      <4>5. Len(Behind(t, s)) - Len(s) + ((i + 1) - 1) = Len(t2) + (i - 1)
        <5> DEFINE b == Len(Behind(t, s))
        <5>1. b = (Len(t) + 1) + Len(s) /\ Len(t) \in Nat /\ Len(t2) = Len(t) + 2
          BY <1>1, <1>6, <1>8, <2>3
        <5> HIDE DEF b
        <5>2. b - Len(s) + ((i + 1) - 1) = Len(t2) + (i - 1)
          BY <1>3, <5>1
        <5> QED
          BY <5>2 DEF b
      <4> QED
        BY <4>1, <4>4, <4>5
    <3>5. ASSUME NoEmptyPart(s) PROVE NoEmptyPart(x) /\ (x = <<>> \/ x[1] # "/")
      <4>1. ASSUME NEW i \in 2..Len(x) PROVE x[i - 1] # "/" \/ x[i] # "/"
        <5>1. i + 1 \in 2..Len(s) /\ i \in 1..Len(x) /\ i - 1 \in 1..Len(x) /\ (i + 1) - 1 = i
              /\ (i - 1) + 1 = i
          BY <1>3, <3>1
        <5>2. x[i - 1] = s[i] /\ x[i] = s[i + 1]
          BY <3>1, <5>1
        <5> QED
          BY <3>5, <5>1, <5>2 DEF NoEmptyPart
      <4>2. ASSUME x # <<>> PROVE x[1] # "/"
        <5>1. Len(x) > 0
          BY <1>3, <4>2, EmptySeq DEF Texts
        <5>2. 1 \in 1..Len(x) /\ 2 \in 2..Len(s) /\ 1 + 1 = 2 /\ 2 - 1 = 1
          BY <1>3, <3>1, <5>1
        <5>3. x[1] = s[2]
          BY <3>1, <5>2
        <5> QED
          BY <2>3, <3>5, <5>2, <5>3 DEF NoEmptyPart
      <4> QED
        BY <4>1, <4>2 DEF NoEmptyPart
    <3> HIDE DEF t1, t2
    <3>6. Good(t2)
      BY <1>6, <2>3, <3>2, <3>3, <3>4, <3>5
    <3> HIDE DEF Good
    <3> QED
      BY <1>6, <3>6
  <2>4. ~(t # <<>> /\ s # <<>> /\ s[1] = "/") => x = s
    BY <1>1, <1>4 DEF Rest
  <2> QED
    BY <2>1, <2>2, <2>3, <2>4
<1> QED
  BY <1>10 DEF t

(* An append that answers true leads where its argument leads from where the
   path led, and takes every directory "." and ".." out of the text.        *)
LEMMA AppendLeads ==
    ASSUME NEW Dst, PathOK(Dst), NEW s \in Texts,
           StaysBelow(Text(Dst), s) \/ \A i \in 1..Len(s) : ~IsUp(s, i),
           AppendPath(s, Dst).ok
    PROVE  LET t == Text(Dst)
               new == Text(AppendPath(s, Dst).path)
           IN  /\ Plain(t) => PlainDirs(new)
               /\ NoEmptyPart(t) /\ NoEmptyPart(s) =>
                     Names(new) = Names(Behind(t, s)) /\ (Absolute(new) <=> Absolute(Behind(t, s)))
               /\ Tail0(new) = Tail0(Rest(s, Dst))
<1> DEFINE t == Text(Dst)
           x == Rest(s, Dst)
           st == LoopStart(Dst)
           last == LoopEnd(s, Dst)
           lt == Text(last.path)
           tail == Tail0(x)
           new == Text(AppendPath(s, Dst).path)
           B == Behind(t, s)
<1>1. /\ IsOpen(Dst) => Fits(<<"/">>, Dst)
      /\ last.ok /\ PathOK(last.path) /\ new = lt \o tail
  BY AppendOK
<1>2. t \in Texts /\ lt \in Texts /\ x \in Texts /\ tail \in Texts /\ SlashFree(tail)
  BY <1>1, RestFact, TextFact, TailFact
<1>3. /\ PathOK(st) /\ Ended(Text(st)) /\ Names(Text(st)) = Names(t)
      /\ Text(st) = t \/ (Text(st) = t \o <<"/">> /\ t # <<>> /\ ~Ended(t))
      /\ Plain(t) => PlainDirs(Text(st))
  BY <1>1, LoopStartFact
<1>4. last = Taken(x, st)[Len(x)] /\ Len(x) \in Nat /\ Len(s) \in Nat /\ Len(x) \in 0..Len(x)
  BY <1>2, LenProperties DEF LoopEnd, Texts
<1>5. PICK u \in Texts :
         /\ Ended(u) /\ Names(u) = Names(t) /\ B = u \o x
         /\ t = <<>> => u = <<>> /\ x = s
         /\ t # <<>> => u # <<>> /\ (Absolute(u) <=> Absolute(t))
         /\ NoEmptyPart(s) => NoEmptyPart(x) /\ (t # <<>> => x = <<>> \/ x[1] # "/")
         /\ \A i \in 1..Len(x) : IsUp(x, i) =>
               /\ i + (Len(s) - Len(x)) \in 1..Len(s)
               /\ IsUp(s, i + (Len(s) - Len(x)))
               /\ Len(B) - Len(s) + (i + (Len(s) - Len(x)) - 1) = Len(u) + (i - 1)
  BY BehindSplit
<1> HIDE DEF x, st, last, new, B, lt, t
<1>6. \A i \in 1..Len(x) : IsUp(x, i) =>
         /\ PlainDirs(Text(st))
         /\ Len(Entered(u \o x)[Len(u) + (i - 1)]) > (IF Absolute(u \o x) THEN 1 ELSE 0)
  <2> SUFFICES ASSUME NEW i \in 1..Len(x), IsUp(x, i)
               PROVE  /\ PlainDirs(Text(st))
                      /\ Len(Entered(B)[Len(u) + (i - 1)]) > (IF Absolute(B) THEN 1 ELSE 0)
    BY <1>5
  <2> DEFINE j == i + (Len(s) - Len(x))
  <2>1. j \in 1..Len(s) /\ IsUp(s, j) /\ Len(B) - Len(s) + (j - 1) = Len(u) + (i - 1)
    BY <1>5
  <2> HIDE DEF j
  <2>2. StaysBelow(t, s)
    BY <2>1 DEF t
  <2>3. Len(Entered(B)[Len(B) - Len(s) + (j - 1)]) > (IF Absolute(B) THEN 1 ELSE 0)
    BY <1>2, <2>1, <2>2, UpsBelow DEF B
  <2>4. PlainDirs(Text(st))
    BY <1>3, <2>2 DEF StaysBelow
  <2> QED
    BY <2>1, <2>3, <2>4
<1>7. Kept(last, Entered(u \o x)[Len(u) + Len(x)], st)
  <2>1. \A i \in 1..Len(x) : IsUp(x, i) =>
           PlainDirs(Text(st)) /\ Len(Entered(u \o x)[Len(u) + (i - 1)]) > 0
    <3> SUFFICES ASSUME NEW i \in 1..Len(x), IsUp(x, i)
                 PROVE  PlainDirs(Text(st)) /\ Len(Entered(u \o x)[Len(u) + (i - 1)]) > 0
      OBVIOUS
    <3> DEFINE n == Len(Entered(u \o x)[Len(u) + (i - 1)])
    <3>1. PlainDirs(Text(st)) /\ n > (IF Absolute(u \o x) THEN 1 ELSE 0)
      BY <1>6
    <3>2. n \in Nat
      <4>1. u \o x \in Texts /\ Len(u \o x) = Len(u) + Len(x) /\ Len(u) \in Nat
        BY <1>2, <1>5, Joined, LenProperties DEF Texts
      <4>2. Len(u) + (i - 1) \in 0..Len(u \o x)
        BY <1>4, <4>1
      <4>3. Entered(u \o x)[Len(u) + (i - 1)] \in Seq(Texts)
        BY <4>1, <4>2, NamesType
      <4> QED
        BY <4>3, LenProperties
    <3> HIDE DEF n
    <3>3. n > 0
      BY <3>1, <3>2
    <3> QED
      BY <3>1, <3>3 DEF n
  <2>2. \A i \in 0..Len(x) : Kept(Taken(x, st)[i], Entered(u \o x)[Len(u) + i], st)
    BY <1>2, <1>3, <1>5, <2>1, LoopKeeps
  <2> QED
    BY <1>4, <2>2
<1>8. Ended(lt) /\ (PlainDirs(Text(st)) => PlainDirs(lt))
  BY <1>1, <1>7 DEF Kept, lt
<1>9. ASSUME Plain(t) PROVE PlainDirs(new)
  <2>1. PlainDirs(lt)
    BY <1>3, <1>8, <1>9
  <2> QED
    BY <1>1, <1>2, <2>1, PlainJoined
<1>10. ASSUME NoEmptyPart(t), NoEmptyPart(s)
       PROVE  Names(new) = Names(B) /\ (Absolute(new) <=> Absolute(B))
  <2>1. NoEmptyPart(Text(st))
    <3>1. CASE Text(st) = t
      BY <1>10, <3>1
    <3>2. CASE Text(st) = t \o <<"/">> /\ t # <<>> /\ ~Ended(t)
      <4> DEFINE v == t \o <<"/">>
                 sl == <<"/">>
      <4>1. Len(v) = Len(t) + 1 /\ Len(t) \in Nat /\ \A i \in 1..Len(t) : v[i] = t[i]
        <5>1. "/" \in Characters
          BY DEF Characters
        <5>2. sl \in Seq(Characters) /\ t \in Seq(Characters) /\ Len(sl) = 1
          BY <1>2, <5>1 DEF Texts
        <5>3. v = t \o sl
          OBVIOUS
        <5> HIDE DEF sl
        <5>4. Len(t \o sl) = Len(t) + Len(sl) /\ \A i \in 1..Len(t) : (t \o sl)[i] = t[i]
          BY <5>2, Joined
        <5> HIDE DEF v
        <5> QED
          BY <5>2, <5>3, <5>4, LenProperties
      <4>2. t[Len(t)] # "/"
        BY <3>2 DEF Ended
      <4> HIDE DEF v
      <4>3. ASSUME NEW i \in 2..Len(v) PROVE v[i - 1] # "/" \/ v[i] # "/"
        <5>1. CASE i = Len(v)
          <6>1. i - 1 = Len(t) /\ i - 1 \in 1..Len(t)
            BY <4>1, <5>1
          <6> QED
            BY <4>1, <4>2, <6>1
        <5>2. CASE i # Len(v)
          <6>1. i \in 2..Len(t) /\ i \in 1..Len(t) /\ i - 1 \in 1..Len(t)
            BY <4>1, <5>2
          <6> QED
            BY <1>10, <4>1, <6>1 DEF NoEmptyPart
        <5> QED
          BY <5>1, <5>2
      <4>4. Text(st) = v
        BY <3>2 DEF v
      <4> QED
        BY <4>3, <4>4 DEF NoEmptyPart
    <3> QED
      BY <1>3, <3>1, <3>2
  <2>2. t # <<>> => Text(st) # <<>> /\ (Absolute(Text(st)) <=> Absolute(t))
    <3>1. CASE Text(st) = t
      BY <3>1
    <3>2. CASE Text(st) = t \o <<"/">> /\ t # <<>>
      <4>1. Behind(t, <<>>) = (t \o <<"/">>) \o <<>>
        BY <3>2 DEF Behind
      <4>2. t \o <<"/">> \in Seq(Characters)
        BY <1>2, NamesSlash DEF Texts
      <4>3. Behind(t, <<>>) = t \o <<"/">>
        BY <4>1, <4>2, ConcatEmptySeq
      <4>4. Len(t \o <<"/">>) = Len(t) + 1 /\ \A i \in 1..Len(t) : (t \o <<"/">>)[i] = t[i]
        <5> DEFINE b == Behind(t, <<>>)
        <5>1. Len(b) = (IF t = <<>> THEN 0 ELSE Len(t) + 1) + Len(<<>>)
              /\ (t # <<>> => \A i \in 1..Len(t) : b[i] = t[i])
          BY <1>2, EmptyText, BehindFact
        <5>2. Len(<<>>) = 0 /\ Len(t) \in Nat
          BY <1>2, EmptyText, LenProperties DEF Texts
        <5> HIDE DEF b
        <5>3. Len(b) = Len(t) + 1 /\ \A i \in 1..Len(t) : b[i] = t[i]
          BY <3>2, <5>1, <5>2
        <5> QED
          BY <4>3, <5>3 DEF b
      <4>5. Len(t) \in Nat /\ Len(t) > 0
        BY <1>2, <3>2, LenProperties, EmptySeq DEF Texts
      <4> DEFINE v == t \o <<"/">>
      <4> HIDE DEF v
      <4>6. Len(v) = Len(t) + 1 /\ v[1] = t[1]
        <5>1. 1 \in 1..Len(t)
          BY <4>5
        <5> QED
          BY <4>4, <5>1 DEF v
      <4>7. v # <<>>
        BY <4>5, <4>6, EmptyText
      <4>8. Absolute(v) <=> Absolute(t)
        BY <3>2, <4>6, <4>7 DEF Absolute
      <4>9. Text(st) = v
        BY <3>2 DEF v
      <4> QED
        BY <4>7, <4>8, <4>9
    <3> QED
      BY <1>3, <3>1, <3>2
  <2>3. t = <<>> => Text(st) = <<>>
    BY <1>3
  <2>4. Begins(Text(st), u, x)
    BY <1>5, <1>10, <2>2, <2>3 DEF Begins
  <2>5. Follows(lt, Entered(u \o x)[Len(u) + Len(x)], u \o x, Len(x))
    <3>1. NoEmptyPart(x)
      BY <1>5, <1>10
    <3>2. Names(Text(st)) = Names(u)
      BY <1>3, <1>5
    <3>3. \A i \in 0..Len(x) : Taken(x, st)[i].ok =>
             Follows(Text(Taken(x, st)[i].path), Entered(u \o x)[Len(u) + i], u \o x, i)
      BY <1>2, <1>3, <1>5, <1>6, <2>1, <2>4, <3>1, <3>2, LoopFollows
    <3> QED
      BY <1>1, <1>4, <3>3 DEF lt
  <2>6. Names(new) = Names(B)
    <3>1. Names(new) = Into(Names(lt), tail)
      BY <1>1, <1>2, <1>8, NamesPart
    <3>2. Names(u \o x) = Into(Entered(u \o x)[Len(u) + Len(x)], tail)
      BY <1>2, <1>5, EnteredBehind
    <3> QED
      BY <1>5, <2>5, <3>1, <3>2 DEF Follows
  <2>7. CASE lt # <<>>
    <3>1. Absolute(lt) <=> Absolute(B)
      BY <1>5, <2>5, <2>7 DEF Follows
    <3>2. new # <<>> /\ new[1] = lt[1]
      <4>1. /\ Len(lt \o tail) = Len(lt) + Len(tail)
            /\ \A i \in 1..Len(lt) : (lt \o tail)[i] = lt[i]
        <5>1. lt \in Seq(Characters) /\ tail \in Seq(Characters)
          BY <1>2 DEF Texts
        <5> HIDE DEF tail
        <5> QED
          BY <5>1, Joined
      <4>2. Len(lt) \in Nat /\ Len(lt) > 0 /\ Len(tail) \in Nat
        BY <1>2, <2>7, LenProperties, EmptySeq DEF Texts
      <4> HIDE DEF tail
      <4>3. 1 \in 1..Len(lt) /\ Len(lt) + Len(tail) # 0
        BY <4>2
      <4>4. new[1] = lt[1] /\ Len(new) # 0
        BY <1>1, <4>1, <4>3
      <4> QED
        BY <4>4, EmptyText
    <3>3. Absolute(new) <=> Absolute(lt)
      BY <2>7, <3>2 DEF Absolute
    <3> QED
      BY <2>6, <3>1, <3>3
  <2>8. CASE lt = <<>>
    <3>1. new = tail
      BY <1>1, <1>2, <2>8, ConcatEmptySeq DEF Texts
    <3>2. ~Absolute(tail)
      <4> HIDE DEF tail
      <4> SUFFICES ASSUME tail # <<>>, tail[1] = "/" PROVE FALSE
        BY DEF Absolute
      <4>1. Len(tail) \in Nat /\ Len(tail) > 0
        BY <1>2, LenProperties, EmptySeq DEF Texts
      <4>2. 1 \in 1..Len(tail)
        BY <4>1
      <4> QED
        BY <1>2, <4>2 DEF SlashFree
    <3>3. ~Absolute(B)
      <4>1. CASE Len(x) = 0
        <5>1. last = Done(st)
          BY <1>2, <1>4, <4>1, TakenStep
        <5>2. lt = Text(st)
          BY <5>1 DEF Done, lt
        <5>3. t = <<>>
          BY <2>2, <2>8, <5>2
        <5>4. u = <<>> /\ x = <<>>
          BY <1>2, <1>5, <4>1, <5>3, EmptySeq DEF Texts
        <5>5. B = <<>>
          BY <1>5, <5>4, <1>2, ConcatEmptySeq DEF Texts
        <5> QED
          BY <5>5 DEF Absolute
      <4>2. CASE Len(x) # 0
        BY <1>5, <2>5, <2>8, <4>2 DEF Follows
      <4> QED
        BY <4>1, <4>2
    <3>4. ~Absolute(new)
      BY <3>1, <3>2
    <3> QED
      BY <2>6, <3>3, <3>4
  <2> QED
    BY <2>7, <2>8
<1>11. Tail0(new) = Tail0(x)
  <2>1. Tail0(lt \o tail) = Tail0(tail) /\ Tail0(tail) = tail
    BY <1>2, <1>8, TailBehind, TailOfPart
  <2> QED
    BY <1>1, <2>1
<1> QED
  BY <1>9, <1>10, <1>11 DEF t, new, B, x

(* A text of names that does not end with a slash, up to its last slash.    *)
LEMMA UpOnce ==
    ASSUME NEW c \in Texts, c # <<>>, ~Ended(c), Plain(c), NoEmptyPart(c),
           Len(Names(c)) > (IF Absolute(c) THEN 1 ELSE 0)
    PROVE  LET L == LastSlash(c)
               u == SubSeq(c, 1, L)
               v == SubSeq(c, 1, L - 1)
           IN  /\ L \in 0..(Len(c) - 1)
               /\ u \in Texts /\ Names(c) = Append(Names(u), Tail0(c)) /\ Tail0(c) \in Texts
               /\ L = 0 => u = <<>>
               /\ L # 0 => /\ L > 1
                           /\ v \in Texts /\ v # <<>> /\ ~Ended(v) /\ Plain(v) /\ NoEmptyPart(v)
                           /\ Names(v) = Names(u) /\ (Absolute(v) <=> Absolute(c))
<1> DEFINE L == LastSlash(c)
           u == SubSeq(c, 1, L)
           v == SubSeq(c, 1, L - 1)
<1>1. PlainDirs(c) /\ Tail0(c) \notin Dots /\ Tail0(c) \in Texts
  BY PlainMeans, TailFact
<1>2. /\ u \in Texts /\ Ended(u) /\ Len(u) = L /\ Tail0(c) # <<>>
      /\ Names(c) = Append(Names(u), Tail0(c))
  BY <1>1, LastName
<1>3. L \in 0..Len(c) /\ (L # 0 => c[L] = "/") /\ Len(c) \in Nat /\ Len(c) > 0
  BY LastSlashFact, LenProperties, EmptySeq DEF Texts
<1>4. L # Len(c)
  BY <1>3 DEF Ended
<1>5. L = 0 => u = <<>>
  BY <1>2, EmptySeq DEF Texts
<1>6. ASSUME L # 0
      PROVE  /\ L > 1
             /\ v \in Texts /\ v # <<>> /\ ~Ended(v) /\ Plain(v) /\ NoEmptyPart(v)
             /\ Names(v) = Names(u) /\ (Absolute(v) <=> Absolute(c))
  <2> HIDE DEF L
  <2>1. /\ \A i \in 1..L : u[i] = c[i]
    <3>1. L \in 0..Len(c)
      BY <1>3
    <3> QED
      BY <3>1, Beginning DEF Texts
  <2> DEFINE k == L - 1
  <2>2. k \in 0..Len(c) /\ k \in Nat
    BY <1>3, <1>6
  <2>3. v = SubSeq(c, 1, k)
    OBVIOUS
  <2> HIDE DEF u, v, k
  <2>4. v \in Texts /\ Len(v) = k /\ \A i \in 1..k : v[i] = c[i]
    BY <2>2, <2>3, Beginning DEF Texts
  <2>5. u = v \o <<"/">>
    <3> DEFINE sl == <<"/">>
               w == v \o sl
    <3>1. w \in Seq(Characters) /\ Len(w) = k + 1 /\ w[k + 1] = "/" /\ \A i \in 1..k : w[i] = v[i]
      <4>1. "/" \in Characters
        BY DEF Characters
      <4>2. sl \in Seq(Characters) /\ Len(sl) = 1 /\ sl[1] = "/" /\ v \in Seq(Characters)
        BY <2>4, <4>1 DEF Texts
      <4> HIDE DEF sl
      <4>3. /\ v \o sl \in Seq(Characters) /\ Len(v \o sl) = Len(v) + Len(sl)
            /\ \A i \in 1..Len(v) : (v \o sl)[i] = v[i]
            /\ \A i \in 1..Len(sl) : (v \o sl)[Len(v) + i] = sl[i]
        <5>1. v \in Seq(Characters) /\ sl \in Seq(Characters)
          BY <4>2
        <5> QED
          BY <5>1, Joined
      <4>4. 1 \in 1..Len(sl)
        BY <4>2
      <4> QED
        BY <2>4, <4>2, <4>3, <4>4
    <3> HIDE DEF w
    <3>2. Len(w) = Len(u)
      BY <1>2, <1>3, <3>1 DEF k
    <3>3. \A i \in 1..Len(u) : w[i] = u[i]
      <4> SUFFICES ASSUME NEW i \in 1..Len(u) PROVE w[i] = u[i]
        OBVIOUS
      <4>1. i \in 1..L /\ (i \in 1..k \/ i = k + 1) /\ k + 1 = L
        BY <1>2, <1>3 DEF k
      <4> QED
        BY <1>3, <1>6, <2>1, <2>4, <3>1, <4>1
    <3>4. w = u
      BY <1>2, <3>1, <3>2, <3>3, SeqEqual DEF Texts
    <3> QED
      BY <3>4 DEF w
  <2>6. Names(v) = Names(u)
    BY <2>4, <2>5, NamesSlash
  <2>7. L > 1
    <3> SUFFICES ASSUME L = 1 PROVE FALSE
      BY <1>3, <1>6
    <3>1. k = 0
      BY DEF k
    <3>2. v = <<>>
      BY <2>4, <3>1, EmptySeq DEF Texts
    <3>3. Names(u) = <<>>
      BY <2>6, <3>2, EmptyText
    <3>4. Len(Names(c)) = 1
      <4>1. Names(c) = <<Tail0(c)>>
        BY <1>2, <3>3
      <4> QED
        BY <4>1
    <3>5. c[1] = "/"
      BY <1>3
    <3> QED
      BY <3>4, <3>5 DEF Absolute
  <2>8. k > 0 /\ v # <<>>
    <3>1. k > 0
      BY <1>3, <2>7 DEF k
    <3> QED
      BY <2>4, <3>1, EmptyText
  <2>9. NoEmptyPart(v)
    <3> SUFFICES ASSUME NEW i \in 2..Len(v) PROVE v[i - 1] # "/" \/ v[i] # "/"
      BY DEF NoEmptyPart
    <3>1. i \in 1..k /\ i - 1 \in 1..k /\ i \in 2..Len(c)
      BY <2>2, <2>4
    <3> QED
      BY <2>4, <3>1 DEF NoEmptyPart
  <2>10. ~Ended(v)
    <3>1. c[L - 1] # "/"
      <4>1. L \in 2..Len(c)
        BY <1>3, <2>7
      <4> QED
        BY <1>3, <1>6, <4>1 DEF NoEmptyPart
    <3>2. k \in 1..k
      BY <2>2, <2>8
    <3>3. v[Len(v)] = c[L - 1]
      BY <2>4, <3>2 DEF k
    <3> QED
      BY <2>8, <3>1, <3>3 DEF Ended
  <2>11. Plain(v)
    <3>1. PlainDirs(v)
      BY <1>1, <2>2, <2>3, PlainBeginning
    <3>2. Tail0(v) \notin Dots
      <4>1. L \in 1..Len(c)
        BY <1>3, <1>6
      <4>2. PartEnding(c, L) \notin Dots
        BY <1>1, <1>3, <1>6, <4>1 DEF PlainDirs
      <4>3. PartEnding(c, L) = Tail0(v)
        BY DEF PartEnding, v
      <4> QED
        BY <4>2, <4>3
    <3> QED
      BY <2>4, <3>1, <3>2, PlainMeans
  <2>12. Absolute(v) <=> Absolute(c)
    <3>1. 1 \in 1..k
      BY <2>2, <2>8
    <3>2. v[1] = c[1]
      BY <2>4, <3>1
    <3> QED
      BY <2>8, <3>2 DEF Absolute
  <2> QED
    BY <2>4, <2>6, <2>7, <2>8, <2>9, <2>10, <2>11, <2>12
<1>7. L \in 0..(Len(c) - 1)
  BY <1>3, <1>4
<1> QED
  BY <1>1, <1>2, <1>5, <1>6, <1>7

(* MoveUpPath leaves a path to the directories above.                       *)
LEMMA UpLeads ==
    ASSUME NEW P, PathOK(P), P.WriteCur > 0, NEW n \in {1, 2},
           Plain(Text(P)), NoEmptyPart(Text(P)),
           Len(Names(Text(P))) > n + (IF Absolute(Text(P)) THEN 0 ELSE -1)
    PROVE  LET s == Text(P)
           IN  Names(Text(MoveUpPath(P, n))) = SubSeq(Names(s), 1, Len(Names(s)) - n)
<1> DEFINE s == Text(P)
           k == Unslashed(P)
           c == SubSeq(P.mem, 1, k)
           C == Characters \cup {NUL}
           N == Names(s)
<1>1. P.WriteCur \in 0..Size /\ Size \in Nat /\ MAX_PATH_SIZE = Size + 1 /\ P.mem \in Seq(C)
      /\ Len(P.mem) = MAX_PATH_SIZE /\ \A i \in 1..P.WriteCur : P.mem[i] # NUL
  BY SizeType DEF PathOK
<1>2. s \in Texts /\ Len(s) = P.WriteCur /\ \A i \in 1..P.WriteCur : s[i] = P.mem[i]
  BY TextFact
<1>3. k \in 0..P.WriteCur /\ (k = P.WriteCur \/ (k = P.WriteCur - 1 /\ P.mem[P.WriteCur] = "/"))
      /\ (k = P.WriteCur => P.mem[P.WriteCur] # "/")
  BY <1>1 DEF Unslashed
<1> HIDE DEF k, s
<1>4. ASSUME NEW m \in 0..P.WriteCur
      PROVE  /\ SubSeq(P.mem, 1, m) \in Texts /\ Len(SubSeq(P.mem, 1, m)) = m
             /\ SubSeq(P.mem, 1, m) = SubSeq(s, 1, m)
             /\ \A i \in 1..m : SubSeq(P.mem, 1, m)[i] = P.mem[i]
  <2>1. m \in 0..Len(P.mem) /\ m \in 0..Len(s) /\ \A i \in 1..m : i \in 1..P.WriteCur
    BY <1>1, <1>2
  <2>2. \A i \in 1..m : P.mem[i] # NUL
    BY <1>1, <2>1
  <2>3. /\ SubSeq(P.mem, 1, m) \in Texts /\ Len(SubSeq(P.mem, 1, m)) = m
        /\ \A i \in 1..m : SubSeq(P.mem, 1, m)[i] = P.mem[i]
    BY <1>1, <2>1, <2>2, TextOfMemory
  <2>4. /\ SubSeq(s, 1, m) \in Texts /\ Len(SubSeq(s, 1, m)) = m
        /\ \A i \in 1..m : SubSeq(s, 1, m)[i] = s[i]
    BY <1>2, <2>1, Beginning DEF Texts
  <2>5. SubSeq(P.mem, 1, m) = SubSeq(s, 1, m)
    BY <1>2, <2>1, <2>3, <2>4, SeqEqual DEF Texts
  <2> QED
    BY <2>3, <2>5
<1>5. Plain(s) /\ NoEmptyPart(s) /\ PlainDirs(s) /\ Tail0(s) \notin Dots
  BY <1>2, PlainMeans DEF s
<1>6. N \in Seq(Texts) /\ Len(N) \in Nat /\ Len(N) > n + (IF Absolute(s) THEN 0 ELSE -1)
  <2>1. N \in Seq(Texts)
    BY <1>2, NamesType
  <2> QED
    BY <2>1, LenProperties DEF s
<1>7. c \in Texts /\ Len(c) = k /\ c = SubSeq(s, 1, k) /\ \A i \in 1..k : c[i] = s[i]
  <2>1. \A i \in 1..k : i \in 1..P.WriteCur
    BY <1>1, <1>3
  <2> QED
    BY <1>2, <1>3, <1>4, <2>1
<1> HIDE DEF c, N
(* The text without its slash leads to the same place.                      *)
<1>8. /\ Names(c) = N /\ Plain(c) /\ ~Ended(c) /\ c # <<>> /\ NoEmptyPart(c)
      /\ (Absolute(c) <=> Absolute(s))
  <2>1. CASE k = P.WriteCur
    <3>1. c = s
      <4>1. s \in Seq(Characters) /\ c \in Seq(Characters) /\ Len(c) = Len(s)
            /\ \A i \in 1..Len(s) : c[i] = s[i]
        BY <1>2, <1>7, <2>1 DEF Texts
      <4> QED
        BY <4>1, SeqEqual
    <3>2. P.WriteCur \in 1..P.WriteCur /\ s # <<>>
      BY <1>1, <1>2, EmptyText
    <3>3. ~Ended(s)
      BY <1>2, <1>3, <2>1, <3>2 DEF Ended
    <3> QED
      BY <1>5, <3>1, <3>2, <3>3 DEF N
  <2>2. CASE k = P.WriteCur - 1 /\ P.mem[P.WriteCur] = "/"
    <3>1. s[P.WriteCur] = "/" /\ P.WriteCur \in 1..Len(s)
      BY <1>1, <1>2, <2>2
    <3>2. s = c \o <<"/">>
      <4> DEFINE sl == <<"/">>
                 w == c \o sl
      <4>1. w \in Seq(Characters) /\ Len(w) = k + 1 /\ w[k + 1] = "/" /\ \A i \in 1..k : w[i] = c[i]
        <5>1. "/" \in Characters
          BY DEF Characters
        <5>2. sl \in Seq(Characters) /\ Len(sl) = 1 /\ sl[1] = "/" /\ c \in Seq(Characters)
          BY <1>7, <5>1 DEF Texts
        <5> HIDE DEF sl
        <5>3. /\ c \o sl \in Seq(Characters) /\ Len(c \o sl) = Len(c) + Len(sl)
              /\ \A i \in 1..Len(c) : (c \o sl)[i] = c[i]
              /\ \A i \in 1..Len(sl) : (c \o sl)[Len(c) + i] = sl[i]
          <6>1. c \in Seq(Characters) /\ sl \in Seq(Characters)
            BY <5>2
          <6> QED
            BY <6>1, Joined
        <5>4. 1 \in 1..Len(sl)
          BY <5>2
        <5> QED
          BY <1>7, <5>2, <5>3, <5>4
      <4> HIDE DEF w
      <4>2. Len(w) = Len(s)
        BY <1>1, <1>2, <2>2, <4>1
      <4>3. \A i \in 1..Len(s) : w[i] = s[i]
        <5> SUFFICES ASSUME NEW i \in 1..Len(s) PROVE w[i] = s[i]
          OBVIOUS
        <5>1. i \in 1..k \/ i = k + 1
          BY <1>1, <1>2, <2>2
        <5>2. k + 1 = P.WriteCur
          BY <1>1, <2>2
        <5> QED
          BY <1>7, <3>1, <4>1, <5>1, <5>2
      <4>4. w = s
        BY <1>2, <4>1, <4>2, <4>3, SeqEqual DEF Texts
      <4> QED
        BY <4>4 DEF w
    <3>3. Names(c) = N
      BY <1>7, <3>2, NamesSlash DEF N
    <3>4. c # <<>>
      <4> SUFFICES ASSUME c = <<>> PROVE FALSE
        OBVIOUS
      <4>1. Len(N) = 0
        BY <3>3, EmptyText
      <4>2. Absolute(s)
        <5>1. P.WriteCur = 1
          BY <1>1, <1>7, <2>2, EmptyText
        <5>2. s # <<>>
          <6>1. Len(s) = 1
            BY <1>2, <5>1
          <6>2. Len(<<>>) = 0
            BY EmptyText
          <6>3. Len(s) # Len(<<>>)
            BY <6>1, <6>2
          <6> QED
            BY <6>3, Zenon
        <5> QED
          BY <3>1, <5>1, <5>2 DEF Absolute
      <4> QED
        BY <1>6, <4>1, <4>2
    <3>5. k > 0
      BY <1>1, <1>3, <1>7, <3>4, EmptySeq DEF Texts
    <3>6. ~Ended(c)
      <4>1. P.WriteCur \in 2..Len(s) /\ k \in 1..k /\ k = P.WriteCur - 1
        BY <1>1, <1>2, <2>2, <3>5
      <4>2. s[P.WriteCur - 1] # "/"
        BY <1>5, <3>1, <4>1 DEF NoEmptyPart
      <4>3. c[Len(c)] # "/"
        BY <1>7, <4>1, <4>2
      <4> QED
        BY <3>4, <4>3 DEF Ended
    <3>7. NoEmptyPart(c)
      <4> SUFFICES ASSUME NEW i \in 2..Len(c) PROVE c[i - 1] # "/" \/ c[i] # "/"
        BY DEF NoEmptyPart
      <4>1. i \in 1..k /\ i - 1 \in 1..k /\ i \in 2..Len(s)
        BY <1>1, <1>2, <1>3, <1>7
      <4> QED
        BY <1>5, <1>7, <4>1 DEF NoEmptyPart
    <3>8. Plain(c)
      <4>1. k \in 0..Len(s)
        BY <1>2, <1>3
      <4>2. PlainDirs(c)
        BY <1>2, <1>5, <1>7, <4>1, PlainBeginning
      <4>3. PartEnding(s, P.WriteCur) \notin Dots
        BY <1>5, <3>1 DEF PlainDirs
      <4>4. PartEnding(s, P.WriteCur) = Tail0(c)
        BY <1>7, <2>2, Zenon DEF PartEnding
      <4> QED
        BY <1>7, <4>2, <4>3, <4>4, PlainMeans
    <3>9. Absolute(c) <=> Absolute(s)
      <4>1. 1 \in 1..k /\ Len(s) # 0
        BY <1>2, <1>3, <3>1, <3>5
      <4>2. c[1] = s[1] /\ s # <<>>
        BY <1>7, <4>1, EmptyText
      <4> QED
        BY <3>4, <4>2 DEF Absolute
    <3> QED
      BY <3>3, <3>4, <3>6, <3>7, <3>8, <3>9
  <2> QED
    BY <1>3, <2>1, <2>2
<1> DEFINE L == LastSlash(c)
           u == SubSeq(c, 1, L)
           v == SubSeq(c, 1, L - 1)
<1>9. /\ L \in 0..(Len(c) - 1)
      /\ u \in Texts /\ N = Append(Names(u), Tail0(c)) /\ Tail0(c) \in Texts
      /\ L = 0 => u = <<>>
      /\ L # 0 => /\ L > 1
                  /\ v \in Texts /\ v # <<>> /\ ~Ended(v) /\ Plain(v) /\ NoEmptyPart(v)
                  /\ Names(v) = Names(u) /\ (Absolute(v) <=> Absolute(c))
  <2>1. Len(Names(c)) > (IF Absolute(c) THEN 1 ELSE 0)
    BY <1>6, <1>8
  <2> QED
    BY <1>7, <1>8, <2>1, UpOnce
<1>10. UpFrom(P.mem, k) = IF L = 0 THEN 0 ELSE L - 1
  BY DEF UpFrom, c
<1>11. Names(u) \in Seq(Texts) /\ Len(N) = Len(Names(u)) + 1 /\ Len(Names(u)) \in Nat
       /\ SubSeq(Names(u), 1, Len(Names(u))) = Names(u)
       /\ \A m \in 0..Len(Names(u)) : SubSeq(N, 1, m) = SubSeq(Names(u), 1, m)
  <2>1. Names(u) \in Seq(Texts)
    BY <1>9, NamesType
  <2> HIDE DEF u
  <2> QED
    BY <1>9, <2>1, FrontOf
<1> DEFINE one == UpFrom(P.mem, k)
           cur == IF n = 1 THEN one ELSE UpFrom(P.mem, one)
           new == IF cur > 0 THEN cur + 1 ELSE 0
<1>12. Text(MoveUpPath(P, n)) = SubSeq(P.mem, 1, new)
  <2>1. MoveUpPath(P, n) = [mem |-> P.mem, WriteCur |-> new]
    BY MoveUpIs DEF PathOK, k
  <2> HIDE DEF new
  <2> DEFINE Q == MoveUpPath(P, n)
  <2>2. Q.mem = P.mem /\ Q.WriteCur = new
    BY <2>1
  <2> HIDE DEF Q
  <2>3. Text(Q) = SubSeq(P.mem, 1, new)
    BY <2>2 DEF Text
  <2> QED
    BY <2>3 DEF Q
<1>13. ASSUME NEW m \in 0..k
       PROVE  SubSeq(P.mem, 1, m) = SubSeq(c, 1, m)
  <2>1. m \in 0..P.WriteCur /\ m \in 0..Len(c) /\ \A i \in 1..m : i \in 1..k /\ i \in 1..P.WriteCur
    BY <1>1, <1>3, <1>7
  <2>2. /\ SubSeq(P.mem, 1, m) \in Texts /\ Len(SubSeq(P.mem, 1, m)) = m
        /\ \A i \in 1..m : SubSeq(P.mem, 1, m)[i] = P.mem[i]
    BY <1>4, <2>1
  <2>3. /\ SubSeq(c, 1, m) \in Texts /\ Len(SubSeq(c, 1, m)) = m
        /\ \A i \in 1..m : SubSeq(c, 1, m)[i] = c[i]
    BY <1>7, <2>1, Beginning DEF Texts
  <2> QED
    BY <1>2, <1>7, <2>1, <2>2, <2>3, SeqEqual DEF Texts
<1>14. L \in 0..k /\ k \in Nat
  BY <1>1, <1>3, <1>7, <1>9
<1>15. L # 0 => Len(N) > n + (IF Absolute(c) THEN 0 ELSE -1)
  BY <1>6, <1>8
<1>16. CASE n = 1
  <2>1. new = L
    BY <1>9, <1>10, <1>14, <1>16
  <2>2. Text(MoveUpPath(P, n)) = u
    <3>1. SubSeq(P.mem, 1, L) = SubSeq(c, 1, L)
      BY <1>13, <1>14
    <3> HIDE DEF new, L
    <3> QED
      BY <1>12, <2>1, <3>1
  <2>3. Len(N) - n = Len(Names(u)) /\ Len(Names(u)) \in 0..Len(Names(u))
    BY <1>11, <1>16
  <2> HIDE DEF u
  <2> QED
    BY <1>11, <2>2, <2>3 DEF N, s
<1>17. CASE n = 2
  <2>1. L # 0
    <3> SUFFICES ASSUME L = 0 PROVE FALSE
      OBVIOUS
    <3>1. u = <<>>
      BY <1>9
    <3>2. Len(Names(u)) = 0
      BY <3>1, EmptyText
    <3> HIDE DEF u
    <3>3. Len(N) = 1
      BY <1>11, <3>2
    <3> QED
      BY <1>6, <1>17, <3>3
  <2> DEFINE M == LastSlash(v)
             u2 == SubSeq(v, 1, M)
             v2 == SubSeq(v, 1, M - 1)
  <2>2. /\ v \in Texts /\ v # <<>> /\ ~Ended(v) /\ Plain(v) /\ NoEmptyPart(v)
        /\ Names(v) = Names(u) /\ (Absolute(v) <=> Absolute(c)) /\ L > 1
    BY <1>9, <2>1
  <2>3. Len(v) = L - 1
    <3> DEFINE l == L - 1
    <3>1. l \in 0..Len(c)
      BY <1>7, <1>14, <2>1
    <3> HIDE DEF l
    <3>2. Len(SubSeq(c, 1, l)) = l
      BY <1>7, <3>1, Beginning DEF Texts
    <3> QED
      BY <3>2 DEF l
  <2> HIDE DEF v
  <2>4. Len(Names(v)) > (IF Absolute(v) THEN 1 ELSE 0)
    <3> HIDE DEF u, L
    <3>1. Len(Names(v)) = Len(N) - 1 /\ Len(N) \in Nat
      BY <1>6, <1>11, <2>2
    <3>2. Len(N) > 2 + (IF Absolute(v) THEN 0 ELSE -1)
      BY <1>15, <1>17, <2>1, <2>2
    <3> QED
      BY <3>1, <3>2
  <2>5. /\ M \in 0..(Len(v) - 1)
        /\ u2 \in Texts /\ Names(v) = Append(Names(u2), Tail0(v)) /\ Tail0(v) \in Texts
        /\ M = 0 => u2 = <<>>
        /\ M # 0 => M > 1
    BY <2>2, <2>4, UpOnce
  <2>6. UpFrom(P.mem, one) = IF M = 0 THEN 0 ELSE M - 1
    <3>1. one = L - 1
      BY <1>10, <2>1
    <3>2. L - 1 \in 0..k
      BY <1>14, <2>1
    <3>3. SubSeq(P.mem, 1, L - 1) = v
      BY <1>13, <3>2 DEF v
    <3> HIDE DEF one, L
    <3> QED
      BY <3>1, <3>3 DEF UpFrom
  <2>7. M \in 0..k
    BY <1>14, <2>3, <2>5
  <2>8. new = M
    <3> HIDE DEF one, M
    <3> QED
      BY <1>17, <2>5, <2>6, <2>7
  <2>9. Text(MoveUpPath(P, n)) = u2
    <3>1. SubSeq(P.mem, 1, M) = SubSeq(v, 1, M)
      <4> DEFINE l == L - 1
      <4>1. l \in 0..k /\ M \in 0..l /\ v = SubSeq(c, 1, l)
        BY <1>14, <2>1, <2>3, <2>5 DEF v
      <4> HIDE DEF l, M
      <4>2. l \in 0..Len(c) /\ M \in 0..Len(c) /\ M \in 0..Len(v) /\ \A i \in 1..M : i \in 1..l
        BY <1>7, <1>14, <2>3, <2>7, <4>1 DEF l
      <4>3. \A i \in 1..l : v[i] = c[i]
        BY <1>7, <4>1, <4>2, Beginning DEF Texts
      <4>4. /\ SubSeq(v, 1, M) \in Texts /\ Len(SubSeq(v, 1, M)) = M
            /\ \A i \in 1..M : SubSeq(v, 1, M)[i] = v[i]
        BY <2>2, <4>2, Beginning DEF Texts
      <4>5. /\ SubSeq(c, 1, M) \in Texts /\ Len(SubSeq(c, 1, M)) = M
            /\ \A i \in 1..M : SubSeq(c, 1, M)[i] = c[i]
        BY <1>7, <4>2, Beginning DEF Texts
      <4>6. SubSeq(v, 1, M) = SubSeq(c, 1, M)
        BY <4>2, <4>3, <4>4, <4>5, SeqEqual DEF Texts
      <4> QED
        BY <1>13, <2>7, <4>6
    <3> HIDE DEF new, M
    <3> QED
      BY <1>12, <2>8, <3>1
  <2>10. Names(u2) \in Seq(Texts)
    BY <2>5, NamesType
  <2> HIDE DEF u2
  <2>11. /\ Len(Names(u2)) \in Nat /\ Len(Names(v)) = Len(Names(u2)) + 1
         /\ SubSeq(Names(u2), 1, Len(Names(u2))) = Names(u2)
         /\ \A m \in 0..Len(Names(u2)) : SubSeq(Names(v), 1, m) = SubSeq(Names(u2), 1, m)
    BY <2>5, <2>10, FrontOf
  <2> DEFINE z == Len(Names(u2))
  <2> HIDE DEF u
  <2>12. Len(N) - n = z /\ z \in 0..Len(Names(u2)) /\ z \in 0..Len(Names(u))
    BY <1>11, <1>17, <2>2, <2>11
  <2> HIDE DEF z
  <2>13. SubSeq(N, 1, z) = Names(u2)
    BY <1>11, <2>2, <2>11, <2>12 DEF z
  <2> QED
    BY <2>9, <2>12, <2>13 DEF N, s
<1> QED
  BY <1>16, <1>17

-----------------------------------------------------------------------------
(* The path that is edited.                                                 *)

\* What PathDenotes says of an append of s to P with the answer r
AppendRight(P, s, r) ==
    /\ r.ok =>
          /\ NoEmptyPart(Text(P)) /\ NoEmptyPart(s) =>
                /\ Names(Text(r.path)) = Names(Behind(Text(P), s))
                /\ Absolute(Text(r.path)) <=> Absolute(Behind(Text(P), s))
          /\ Plain(Text(P)) => \A i \in Slashes(Text(r.path)) :
                PartEnding(Text(r.path), i) \notin {<<".">>, <<".", ".">>}
          /\ CString(r.path) = Text(r.path)
    /\ ~r.ok /\ (\A i \in Slashes(s) : PartEnding(s, i) # <<".", ".">>) =>
          Text(r.path) = Text(P)

(* Each way to append is right.                                             *)
LEMMA AppendIsRight ==
    ASSUME NEW P, PathOK(P), NEW s \in Texts,
           StaysBelow(Text(P), s) \/ \A i \in 1..Len(s) : ~IsUp(s, i),
           NEW r, r = AppendPath(s, P) \/ r = AppendPathToPath(s, P)
    PROVE  AppendRight(P, s, r) /\ PathOK(r.path)
<1>1. CASE r = AppendPath(s, P)
  <2>1. PathOK(r.path) /\ (r.ok => CString(r.path) = Text(r.path))
    BY <1>1, AppendOK
  <2>2. ASSUME r.ok
        PROVE  /\ Plain(Text(P)) => PlainDirs(Text(r.path))
               /\ NoEmptyPart(Text(P)) /\ NoEmptyPart(s) =>
                     /\ Names(Text(r.path)) = Names(Behind(Text(P), s))
                     /\ (Absolute(Text(r.path)) <=> Absolute(Behind(Text(P), s)))
    BY <1>1, <2>2, AppendLeads
  <2>3. \A t \in Texts : DOMAIN t = 1..Len(t)
    BY LenProperties DEF Texts
  <2>4. ASSUME PlainDirs(Text(r.path))
        PROVE  \A i \in Slashes(Text(r.path)) :
                  PartEnding(Text(r.path), i) \notin {<<".">>, <<".", ".">>}
    <3> DEFINE t == Text(r.path)
    <3>1. t \in Texts
      BY <2>1, TextFact
    <3>2. PlainDirs(t)
      BY <2>4
    <3> HIDE DEF t
    <3>3. \A i \in Slashes(t) : i \in 1..Len(t) /\ t[i] = "/"
      BY <2>3, <3>1 DEF Slashes
    <3>4. \A i \in Slashes(t) : PartEnding(t, i) \notin {<<".">>, <<".", ".">>}
      BY <3>2, <3>3 DEF PlainDirs, Dots
    <3> QED
      BY <3>4 DEF t
  <2>5. ASSUME ~r.ok, \A i \in Slashes(s) : PartEnding(s, i) # <<".", ".">>
        PROVE  Text(r.path) = Text(P)
    <3>1. \A i \in 1..Len(s) : ~IsUp(s, i)
      BY <2>3, <2>5 DEF IsUp, Slashes
    <3> QED
      BY <1>1, <2>5, <3>1, AppendRefused
  <2> QED
    BY <2>1, <2>2, <2>4, <2>5 DEF AppendRight
<1>2. CASE r = Failed(P)
  <2>1. r.ok = FALSE /\ r.path = P
    BY <1>2 DEF Failed
  <2> QED
    BY <2>1 DEF AppendRight
<1>3. r = AppendPath(s, P) \/ r = Failed(P)
  BY DEF AppendPathToPath
<1> QED
  BY <1>1, <1>2, <1>3

(* What the working directory appends.                                      *)
LEMMA RootText ==
    <<"/">> \in Texts /\ \A i \in 1..Len(<<"/">>) : ~IsUp(<<"/">>, i)
<1> DEFINE sl == <<"/">>
<1>1. sl \in Texts /\ Len(sl) = 1
  <2>1. "/" \in Characters
    BY DEF Characters
  <2> QED
    BY <2>1 DEF Texts
<1> HIDE DEF sl
<1>2. ASSUME NEW i \in 1..Len(sl) PROVE ~IsUp(sl, i)
  <2>1. i = 1
    BY <1>1
  <2>2. PartEnding(sl, i) = <<>>
    BY <1>1, <2>1, EmptyPart
  <2>3. <<>> # <<".", ".">>
    OBVIOUS
  <2> QED
    BY <2>2, <2>3 DEF IsUp
<1> QED
  BY <1>1, <1>2 DEF sl

(* The empty path is a path.                                                *)
LEMMA EmptyPathOK == PathOK(EmptyPath) /\ Text(EmptyPath) = <<>>
<1> DEFINE zero == [i \in 1..MAX_PATH_SIZE |-> NUL]
<1>1. EmptyPath = [mem |-> zero, WriteCur |-> 0]
  BY DEF EmptyPath
<1>2. zero \in Seq(Characters \cup {NUL}) /\ Len(zero) = MAX_PATH_SIZE /\ zero[MAX_PATH_SIZE] = NUL
  <2>1. MAX_PATH_SIZE \in 1..MAX_PATH_SIZE /\ MAX_PATH_SIZE \in Nat
    BY SizeType
  <2>2. zero \in Seq(Characters \cup {NUL})
    BY <2>1, IsASeq
  <2> QED
    BY <2>1, <2>2, LenProperties
<1> HIDE DEF zero
<1> DEFINE P == EmptyPath
<1>3. P.mem = zero /\ P.WriteCur = 0 /\ P = [mem |-> P.mem, WriteCur |-> P.WriteCur]
  BY <1>1
<1> HIDE DEF P
<1>4. PathOK(P)
  BY <1>2, <1>3, SizeType DEF PathOK
<1>5. Text(P) = <<>>
  <2>1. Text(P) \in Texts /\ Len(Text(P)) = 0
    BY <1>3, <1>4, TextFact
  <2> QED
    BY <2>1, EmptySeq DEF Texts
<1> QED
  BY <1>4, <1>5 DEF P

\* The path is in its memory, what is handed over is a text, and PathDenotes.
EditInv ==
    /\ PathOK(path)
    /\ arg \in Texts /\ Len(arg) <= Size
    /\ PathDenotes

(* An append that is right keeps it.                                        *)
LEMMA EditAppends ==
    ASSUME EditInv, NEW s, NEW r, Edit("append", s, 0, r), AppendRight(path, s, r), PathOK(r.path)
    PROVE  EditInv'
<1>1. path' = r.path /\ arg' = arg
      /\ edit' = [kind |-> "append", was |-> Text(path), arg |-> s, up |-> 0, ok |-> r.ok]
  BY DEF Edit, call
<1>2. /\ edit'.kind = "append" /\ edit'.was = Text(path) /\ edit'.arg = s
      /\ edit'.ok = r.ok
  BY <1>1
<1>3. "append" # "up"
  OBVIOUS
<1>4. PathDenotes'
  BY <1>1, <1>2, <1>3 DEF PathDenotes, AppendRight
<1> QED
  BY <1>1, <1>4 DEF EditInv, PathOK

(* So does moving up.                                                       *)
LEMMA EditMovesUp ==
    ASSUME EditInv, MoveUp
    PROVE  EditInv'
<1>1. PICK n \in {1, 2} :
         /\ path.WriteCur > 0
         /\ \E ok : Edit("up", <<>>, n, [ok |-> ok, path |-> MoveUpPath(path, n)])
  BY DEF MoveUp
<1>2. PICK ok : Edit("up", <<>>, n, [ok |-> ok, path |-> MoveUpPath(path, n)])
  BY <1>1
<1>3. path' = MoveUpPath(path, n) /\ arg' = arg
      /\ edit' = [kind |-> "up", was |-> Text(path), arg |-> <<>>, up |-> n, ok |-> ok]
  BY <1>2 DEF Edit, call
<1>4. /\ edit'.kind = "up" /\ edit'.was = Text(path) /\ edit'.up = n
  BY <1>3
<1>5. "append" # "up"
  OBVIOUS
<1>6. PathOK(MoveUpPath(path, n))
  BY <1>1, MoveUpOK DEF EditInv
<1>7. Plain(Text(path)) /\ NoEmptyPart(Text(path))
         /\ Len(Names(Text(path))) > n + (IF Absolute(Text(path)) THEN 0 ELSE -1) =>
      Names(Text(MoveUpPath(path, n))) = SubSeq(Names(Text(path)), 1, Len(Names(Text(path))) - n)
  BY <1>1, UpLeads DEF EditInv
<1>8. PathDenotes'
  BY <1>3, <1>4, <1>5, <1>7 DEF PathDenotes
<1> QED
  BY <1>3, <1>6, <1>8 DEF EditInv, PathOK

(* Every step keeps it.                                                     *)
LEMMA EditKept == EditInv /\ [Next]_vars => EditInv'
<1> SUFFICES ASSUME EditInv, [Next]_vars PROVE EditInv'
  OBVIOUS
<1>1. CASE AppendToPath
  <2>1. PICK s \in Parts :
           /\ StaysBelow(Text(path), s)
           /\ \/ Edit("append", s, 0, AppendPathToPath(s, path))
              \/ Edit("append", s, 0, AppendArrayToPath(s, path))
    BY <1>1 DEF AppendToPath
  <2>2. s \in Texts
    BY DirectoriesAssumption DEF Texts
  <2>3. PICK r : /\ r = AppendPath(s, path) \/ r = AppendPathToPath(s, path)
                 /\ Edit("append", s, 0, r)
    BY <2>1 DEF AppendArrayToPath
  <2>4. AppendRight(path, s, r) /\ PathOK(r.path)
    BY <2>1, <2>2, <2>3, AppendIsRight DEF EditInv
  <2> QED
    BY <2>3, <2>4, EditAppends
<1>2. CASE AppendCWDToPath
  <2> DEFINE sl == <<"/">>
             r == AppendPath(sl, path)
  <2>1. Edit("append", sl, 0, r)
    BY <1>2 DEF AppendCWDToPath
  <2>2. sl \in Texts /\ \A i \in 1..Len(sl) : ~IsUp(sl, i)
    BY RootText
  <2> HIDE DEF sl
  <2>3. AppendRight(path, sl, r) /\ PathOK(r.path)
    BY <2>2, AppendIsRight DEF EditInv
  <2> HIDE DEF r
  <2> QED
    BY <2>1, <2>3, EditAppends
<1>3. CASE MoveUp
  BY <1>3, EditMovesUp
<1>4. CASE UsePath
  <2>1. arg' = CString(path) /\ path' = EmptyPath /\ edit' = NoEdit
    BY <1>4 DEF UsePath
  <2>2. CString(path) \in Texts /\ Len(CString(path)) <= Size
    BY CStringFact DEF EditInv
  <2>3. PathOK(EmptyPath)
    BY EmptyPathOK
  <2>4. edit'.kind # "append" /\ edit'.kind # "up"
    BY <2>1 DEF NoEdit
  <2>5. PathDenotes'
    BY <2>4 DEF PathDenotes
  <2> QED
    BY <2>1, <2>2, <2>3, <2>5 DEF EditInv, PathOK
<1>5. CASE UNCHANGED <<path, edit, arg>>
  BY <1>5 DEF EditInv, PathDenotes, PathOK
<1>6. MakeDir \/ RemoveDir \/ Others \/ UNCHANGED vars => UNCHANGED <<path, edit, arg>>
  <2>1. MakeDir => UNCHANGED <<path, edit, arg>>
    BY DEF MakeDir, MakeDirCall, MakeDirFirst, MakeDirNext, MakeDirLast, Call, Return
  <2>2. RemoveDir => UNCHANGED <<path, edit, arg>>
    BY DEF RemoveDir, RemoveDirCall, ListOpen, RemoveEntry, ListEnd, Rmdir, Call, Return, RemoveFails
  <2>3. Others \/ UNCHANGED vars => UNCHANGED <<path, edit, arg>>
    BY DEF Others, vars, call
  <2> QED
    BY <2>1, <2>2, <2>3
<1> QED
  BY <1>1, <1>2, <1>3, <1>4, <1>5, <1>6 DEF Next

(* The path is a text in its memory, terminated or not, and it denotes what
   the last edit asked for.                                                 *)
THEOREM EditedPath == Spec => []EditInv
<1>1. Init => EditInv
  <2> SUFFICES ASSUME Init PROVE EditInv
    OBVIOUS
  <2>1. path = EmptyPath /\ edit = NoEdit /\ arg = <<>>
    BY DEF Init
  <2>2. edit.kind # "append" /\ edit.kind # "up"
    BY <2>1 DEF NoEdit
  <2>3. PathDenotes
    BY <2>2 DEF PathDenotes
  <2>4. Len(<<>>) <= Size
    BY EmptyText, SizeType
  <2> QED
    BY <2>1, <2>3, <2>4, EmptyText, EmptyPathOK DEF EditInv
<1> QED
  BY <1>1, EditKept, PTL DEF Spec

(* PathDenotes: an append that answers true leaves a path to where its
   argument leads, with every directory "." and ".." taken out of the text,
   and terminated; one that answers false leaves the text alone, unless it had
   moved up; and MoveUpPath leaves a path to the directories above.         *)
THEOREM PathDenotesAlways == Spec => []PathDenotes
<1>1. EditInv => PathDenotes
  BY DEF EditInv
<1> QED
  BY <1>1, EditedPath, PTL

(* HiddenIsHidden: a file created with HIDDEN_FILE is one that IsFileHidden
   calls hidden, in the directory of its path and under its name but for the
   dot, if the path has a slash and room for the dot.                       *)
THEOREM HiddenAlways == Spec => []HiddenIsHidden
<1>1. EditInv => HiddenIsHidden
  <2> DEFINE Old == CString(path)
             h == CString(HiddenName(Old))
  <2> SUFFICES ASSUME EditInv, Slashes(Old) # {}, Len(Old) < Size \/ FirstByteHidden(Old)
               PROVE  /\ FirstByteHidden(h)
                      /\ SubSeq(h, 1, LastSlash(h)) = SubSeq(Old, 1, LastSlash(Old))
                      /\ Tail0(h) \in {Tail0(Old), <<".">> \o Tail0(Old)}
    BY DEF HiddenIsHidden
  <2>1. Old \in Texts /\ Len(Old) <= Size
    BY CStringFact DEF EditInv
  <2> HIDE DEF Old
  <2>2. Len(Dotted(Old)) <= Size
    <3>1. Len(Old) \in Nat /\ Size \in Nat
      BY <2>1, SizeType, LenProperties DEF Texts
    <3>2. Len(Dotted(Old)) = Len(Old) + (IF FirstByteHidden(Old) THEN 0 ELSE 1)
      BY <2>1, DottedIsHidden
    <3> QED
      BY <2>1, <3>1, <3>2
  <2>3. h = Dotted(Old)
    BY <2>1, <2>2, HiddenNameFact
  <2> QED
    BY <2>1, <2>3, DottedIsHidden
<1> QED
  BY <1>1, EditedPath, PTL

-----------------------------------------------------------------------------
(* Places, and the names on the way to them.                                *)

(* Above a place are the sequences that begin it.                           *)
LEMMA AboveFact ==
    ASSUME NEW S, NEW q \in Seq(S)
    PROVE  /\ \A p \in Seq(S) : p # <<>> /\ Begin(p, q) => p \in Above(q)
           /\ \A p \in Above(q) : p \in Seq(S) /\ p # <<>> /\ Begin(p, q)
<1>1. Len(q) \in Nat
  BY LenProperties
<1>2. ASSUME NEW p \in Seq(S), p # <<>>, Begin(p, q) PROVE p \in Above(q)
  <2>1. Len(p) \in 1..Len(q)
    BY <1>1, <1>2, EmptySeq, LenProperties DEF Begin
  <2> QED
    BY <1>2, <2>1 DEF Begin, Above
<1>3. ASSUME NEW p \in Above(q) PROVE p \in Seq(S) /\ p # <<>> /\ Begin(p, q)
  <2>1. PICK n \in 1..Len(q) : p = SubSeq(q, 1, n)
    BY DEF Above
  <2>2. n \in 0..Len(q) /\ n # 0
    BY <1>1
  <2>3. SubSeq(q, 1, n) \in Seq(S) /\ Len(SubSeq(q, 1, n)) = n
    BY <2>2, Beginning
  <2>4. p # <<>>
    <3>1. Len(p) # 0
      BY <2>1, <2>2, <2>3
    <3> QED
      BY <3>1, EmptyText
  <2> QED
    BY <2>1, <2>2, <2>3, <2>4 DEF Begin
<1> QED
  BY <1>2, <1>3

(* In a text of names the names on the way only become more.                *)
LEMMA EnteredGrows ==
    ASSUME NEW s \in Texts, PlainDirs(s), NEW k \in 0..Len(s)
    PROVE  \A j \in k..Len(s) : Begin(Entered(s)[k], Entered(s)[j])
<1> DEFINE E == Entered(s)
           n == Len(s) - k
           T == {i \in 0..n : Begin(E[k], E[k + i])}
<1>1. Len(s) \in Nat /\ k \in Nat /\ n \in Nat
  BY LenProperties DEF Texts
<1>2. \A i \in 0..Len(s) : E[i] \in Seq(Texts)
  BY NamesType
<1>3. \A i \in 1..Len(s) : /\ s[i] # "/" => E[i] = E[i - 1]
                           /\ s[i] = "/" => E[i] = Into(E[i - 1], PartEnding(s, i))
  BY EnteredStep
<1> HIDE DEF E
<1>4. 0 \in T
  <2>1. k + 0 = k /\ 0 \in 0..n
    BY <1>1
  <2> QED
    BY <1>2, <2>1, BeginFact
<1>5. \A i \in 1..n : i - 1 \in T => i \in T
  <2> SUFFICES ASSUME NEW i \in 1..n, Begin(E[k], E[k + (i - 1)]) PROVE Begin(E[k], E[k + i])
    BY <1>1
  <2> DEFINE j == k + i
  <2>1. j \in 1..Len(s) /\ j - 1 = k + (i - 1) /\ j \in 0..Len(s) /\ j - 1 \in 0..Len(s)
        /\ j \in 1..(Len(s) + 1)
    BY <1>1
  <2> HIDE DEF j
  <2> DEFINE part == PartEnding(s, j)
  <2>2. part \in Texts
    BY <2>1, PartEndingType
  <2>3. CASE s[j] # "/"
    BY <1>3, <2>1, <2>3 DEF j
  <2>4. CASE s[j] = "/"
    <3>1. part \notin Dots
      BY <2>1, <2>4 DEF PlainDirs
    <3>2. E[j] = Into(E[j - 1], part) /\ E[j - 1] \in Seq(Texts) /\ E[k] \in Seq(Texts) /\ E[j] \in Seq(Texts)
      BY <1>2, <1>3, <2>1, <2>4
    <3> HIDE DEF part
    <3>3. E[j] = E[j - 1] \/ E[j] = Append(E[j - 1], part)
      BY <2>2, <3>1, <3>2, IntoLength
    <3>4. Begin(E[j - 1], E[j])
      BY <2>2, <3>2, <3>3, BeginFact
    <3>5. Begin(E[k], E[j - 1])
      BY <2>1
    <3> QED
      BY <3>2, <3>4, <3>5, BeginTransitive DEF j
  <2> QED
    BY <2>3, <2>4
<1> HIDE DEF T
<1>6. \A i \in 0..n : i \in T
  BY <1>1, <1>4, <1>5, Rounds
<1>7. ASSUME NEW j \in k..Len(s) PROVE Begin(E[k], E[j])
  <2>1. j - k \in 0..n /\ k + (j - k) = j
    BY <1>1
  <2> QED
    BY <1>6, <2>1 DEF T
<1> QED
  BY <1>7 DEF E

(* The text up to a slash, and with it, lead to the same place.             *)
LEMMA UpToSlash ==
    ASSUME NEW s \in Texts, NEW i \in Slashes(s)
    PROVE  /\ i \in 1..Len(s) /\ i - 1 \in 0..Len(s) /\ s[i] = "/"
           /\ SubSeq(s, 1, i - 1) \in Texts /\ Len(SubSeq(s, 1, i - 1)) = i - 1
           /\ SubSeq(s, 1, i) \in Texts /\ Len(SubSeq(s, 1, i)) = i
           /\ \A j \in 1..Len(s) : (j <= i => SubSeq(s, 1, i)[j] = s[j])
                                   /\ (j <= i - 1 => SubSeq(s, 1, i - 1)[j] = s[j])
           /\ Names(SubSeq(s, 1, i)) = Entered(s)[i]
           /\ Names(SubSeq(s, 1, i - 1)) = Entered(s)[i]
           /\ SubSeq(s, 1, i) = SubSeq(s, 1, i - 1) \o <<"/">>
<1> DEFINE k == i - 1
           u == SubSeq(s, 1, k)
           v == SubSeq(s, 1, i)
<1>1. i \in 1..Len(s) /\ s[i] = "/" /\ Len(s) \in Nat
  BY LenProperties DEF Slashes, Texts
<1>2. k \in 0..Len(s) /\ i \in 0..Len(s) /\ k + 1 = i
  BY <1>1
<1> HIDE DEF k
<1>3. u \in Texts /\ Len(u) = k /\ \A j \in 1..k : u[j] = s[j]
  BY <1>2, Beginning DEF Texts
<1>4. v \in Texts /\ Len(v) = i /\ \A j \in 1..i : v[j] = s[j]
  BY <1>2, Beginning DEF Texts
<1> HIDE DEF u, v
<1>5. \A j \in 1..Len(s) : (j <= i => v[j] = s[j]) /\ (j <= k => u[j] = s[j])
  BY <1>1, <1>2, <1>3, <1>4
<1>6. Ended(v)
  BY <1>1, <1>4 DEF Ended
<1>7. Names(v) = Entered(s)[i]
  <2>1. Names(v) = Entered(v)[i]
    BY <1>4, <1>6, NamesEnded
  <2>2. i \in Nat /\ i <= Len(v) /\ i <= Len(s) /\ i \in 0..i /\ \A j \in 1..i : v[j] = s[j]
    BY <1>1, <1>4
  <2>3. Entered(v)[i] = Entered(s)[i]
    BY <1>4, <2>2, EnteredPrefix
  <2> QED
    BY <2>1, <2>3
<1>8. v = u \o <<"/">>
  <2> DEFINE sl == <<"/">>
             w == u \o sl
  <2>1. w \in Seq(Characters) /\ Len(w) = k + 1 /\ w[k + 1] = "/" /\ \A j \in 1..k : w[j] = u[j]
    <3>1. "/" \in Characters
      BY DEF Characters
    <3>2. sl \in Seq(Characters) /\ Len(sl) = 1 /\ sl[1] = "/" /\ u \in Seq(Characters)
      BY <1>3, <3>1 DEF Texts
    <3> HIDE DEF sl
    <3>3. /\ u \o sl \in Seq(Characters) /\ Len(u \o sl) = Len(u) + Len(sl)
          /\ \A j \in 1..Len(u) : (u \o sl)[j] = u[j]
          /\ \A j \in 1..Len(sl) : (u \o sl)[Len(u) + j] = sl[j]
      <4>1. u \in Seq(Characters) /\ sl \in Seq(Characters)
        BY <3>2
      <4> QED
        BY <4>1, Joined
    <3>4. 1 \in 1..Len(sl)
      BY <3>2
    <3> QED
      BY <1>3, <3>2, <3>3, <3>4
  <2> HIDE DEF w
  <2>2. Len(w) = Len(v)
    BY <1>2, <1>4, <2>1
  <2>3. \A j \in 1..Len(v) : w[j] = v[j]
    <3> SUFFICES ASSUME NEW j \in 1..i PROVE w[j] = v[j]
      BY <1>4
    <3>1. j \in 1..k \/ j = k + 1
      BY <1>1, <1>2
    <3> QED
      BY <1>1, <1>2, <1>3, <1>4, <2>1, <3>1
  <2>4. w = v
    BY <1>4, <2>1, <2>2, <2>3, SeqEqual DEF Texts
  <2> QED
    BY <2>4 DEF w
<1>9. Names(u) = Names(v)
  BY <1>3, <1>8, NamesSlash
<1> QED
  BY <1>1, <1>2, <1>3, <1>4, <1>5, <1>7, <1>8, <1>9 DEF u, v, k

(* On the way to the end of a text whose last part is a name, too           *)
LEMMA DirOnTheWay ==
    ASSUME NEW s \in Texts, PlainDirs(s), Tail0(s) \notin Dots
    PROVE  \A i \in Slashes(s) : Begin(Entered(s)[i], Names(s))
<1> SUFFICES ASSUME NEW i \in Slashes(s) PROVE Begin(Entered(s)[i], Names(s))
  OBVIOUS
<1> DEFINE E == Entered(s)
           n == Len(s)
<1>1. i \in 0..Len(s) /\ n \in 0..Len(s) /\ n \in i..Len(s) /\ n \in Nat
  <2>1. i \in 1..Len(s) /\ Len(s) \in Nat
    BY UpToSlash, LenProperties DEF Texts
  <2> QED
    BY <2>1
<1> HIDE DEF n
<1>2. E[i] \in Seq(Texts) /\ E[n] \in Seq(Texts) /\ Names(s) \in Seq(Texts)
  BY <1>1, NamesType
<1>3. Begin(E[i], E[n])
  BY <1>1, EnteredGrows
<1>4. Names(s) = Into(E[n], Tail0(s)) /\ Tail0(s) \in Texts
  BY TailFact DEF Names, n
<1> HIDE DEF E
<1>5. Names(s) = E[n] \/ Names(s) = Append(E[n], Tail0(s))
  BY <1>2, <1>4, IntoLength
<1>6. Begin(E[n], Names(s))
  BY <1>2, <1>4, <1>5, BeginFact
<1> QED
  BY <1>2, <1>3, <1>6, BeginTransitive DEF E

(* Trimmed takes the slashes at the end away, and the text leads to the same
   place.                                                                   *)
LEMMA TrimmedFact ==
    ASSUME NEW s \in Texts
    PROVE  LET t == Trimmed(s)
           IN  /\ t \in Texts /\ Len(t) <= Len(s) /\ t = SubSeq(s, 1, Len(t))
               /\ \A i \in 1..Len(t) : t[i] = s[i]
               /\ t = <<>> \/ ~Ended(t)
               /\ Names(t) = Names(s)
               /\ ~Ended(s) => t = s
               /\ \A i \in 1..Len(s) : i > Len(t) => s[i] = "/"
<1> DEFINE S == {i \in DOMAIN s : s[i] # "/"} \cup {0}
           M == Max(S)
           t == SubSeq(s, 1, M)
<1>1. Len(s) \in Nat /\ DOMAIN s = 1..Len(s)
  BY LenProperties DEF Texts
<1>2. S \subseteq 0..Len(s) /\ 0 \in S
  BY <1>1
<1>3. \E m \in S : \A y \in S : m >= y
  <2> DEFINE D == {Len(s) - y : y \in S}
  <2>1. D \subseteq Nat /\ D # {}
    BY <1>1, <1>2
  <2>2. PICK d \in D : \A e \in D : d <= e
    <3> HIDE DEF D
    <3> QED
      BY <2>1, SmallestMember
  <2>3. PICK m \in S : d = Len(s) - m
    BY <2>2
  <2>4. \A y \in S : Len(s) - m <= Len(s) - y
    BY <2>2, <2>3
  <2> QED
    <3> HIDE DEF S
    <3> QED
      BY <1>1, <1>2, <2>3, <2>4
<1>4. M \in S /\ \A y \in S : M >= y
  <2> HIDE DEF S
  <2> QED
    BY <1>3, Zenon DEF Max
<1>5. \A i \in 1..Len(s) : s[i] # "/" => i \in S
  BY <1>1
<1>6. t = Trimmed(s)
  BY DEF Trimmed
<1>7. M \in 0..Len(s) /\ (M # 0 => s[M] # "/")
  <2> HIDE DEF M
  <2> QED
    BY <1>2, <1>4
<1>8. \A i \in 1..Len(s) : i > M => s[i] = "/"
  <2> HIDE DEF M, S
  <2> QED
    BY <1>1, <1>4, <1>5, <1>7
<1> HIDE DEF M, S
<1>9. t \in Texts /\ Len(t) = M /\ \A i \in 1..M : t[i] = s[i]
  BY <1>7, Beginning DEF Texts
<1>10. t = <<>> \/ ~Ended(t)
  <2>1. CASE M = 0
    BY <1>9, <2>1, EmptySeq DEF Texts
  <2>2. CASE M # 0
    <3>1. M \in 1..M
      BY <1>7, <2>2
    <3>2. t[Len(t)] # "/" /\ Len(t) # 0
      BY <1>7, <1>9, <2>2, <3>1
    <3> HIDE DEF t
    <3>3. t # <<>>
      BY <3>2, EmptyText
    <3> QED
      BY <3>2, <3>3 DEF Ended
  <2> QED
    BY <2>1, <2>2
<1>11. Names(t) = Names(s)
  <2> DEFINE n == Len(s) - M
             F(i) == SubSeq(s, 1, M + i)
             T == {i \in 0..n : Names(F(i)) = Names(t)}
  <2>1. n \in Nat /\ M \in Nat
    BY <1>1, <1>7
  <2>2. 0 \in T
    <3>1. M + 0 = M /\ 0 \in 0..n
      BY <2>1
    <3> QED
      BY <3>1
  <2>3. \A i \in 1..n : i - 1 \in T => i \in T
    <3> SUFFICES ASSUME NEW i \in 1..n, Names(F(i - 1)) = Names(t) PROVE Names(F(i)) = Names(t)
      BY <2>1
    <3> DEFINE j == M + i
    <3>1. j \in 1..Len(s) /\ j > M /\ j - 1 = M + (i - 1)
      BY <1>1, <2>1
    <3> HIDE DEF j
    <3>2. j \in Slashes(s)
      BY <1>1, <1>8, <3>1 DEF Slashes
    <3>3. Names(SubSeq(s, 1, j)) = Names(SubSeq(s, 1, j - 1))
      BY <3>2, UpToSlash
    <3>4. F(i) = SubSeq(s, 1, j) /\ F(i - 1) = SubSeq(s, 1, j - 1)
      BY <3>1 DEF j
    <3> QED
      BY <3>3, <3>4
  <2> HIDE DEF T
  <2>4. \A i \in 0..n : i \in T
    BY <2>1, <2>2, <2>3, Rounds
  <2>5. Names(F(n)) = Names(t)
    <3>1. n \in 0..n
      BY <2>1
    <3> QED
      BY <2>4, <3>1 DEF T
  <2>6. F(n) = s
    <3>1. M + n = Len(s) /\ Len(s) \in 0..Len(s)
      BY <1>1, <2>1
    <3>2. Begin(s, s)
      BY BeginFact DEF Texts
    <3> HIDE DEF n
    <3> QED
      BY <3>1, <3>2 DEF Begin
  <2> QED
    BY <2>5, <2>6
<1>12. ASSUME ~Ended(s) PROVE t = s
  <2>1. s # <<>> /\ s[Len(s)] # "/"
    BY <1>12 DEF Ended
  <2>2. Len(s) \in 1..Len(s)
    BY <1>1, <2>1, EmptySeq DEF Texts
  <2>3. ~(Len(s) > M)
    BY <1>8, <2>1, <2>2
  <2>4. M = Len(s)
    <3>1. M \in 0..Len(s) /\ Len(s) \in Nat
      BY <1>1, <1>7
    <3> QED
      BY <2>3, <3>1
  <2>5. Begin(s, s)
    BY BeginFact DEF Texts
  <2> QED
    BY <2>4, <2>5 DEF Begin
<1>13. Len(t) <= Len(s) /\ t = SubSeq(s, 1, Len(t))
  BY <1>1, <1>7, <1>9
<1>14. \A i \in 1..Len(s) : i > Len(t) => s[i] = "/"
  BY <1>8, <1>9
<1> HIDE DEF t
<1> QED
  BY <1>6, <1>9, <1>10, <1>11, <1>12, <1>13, <1>14

(* What mkdir creates is the name behind its directory.                     *)
LEMMA NameOfText ==
    ASSUME NEW s \in Texts
    PROVE  LET d == DirPart(s)
               name == NamePart(s)
           IN  /\ d \in Texts /\ Ended(d) /\ Len(d) <= Len(s) /\ \A i \in 1..Len(d) : d[i] = s[i]
               /\ name \in Texts /\ SlashFree(name)
               /\ ~Ended(s) => name = Tail0(s) /\ Len(d) = LastSlash(s)
               /\ name \notin {<<>>, <<".">>, <<".", ".">>} => Names(s) = Append(Names(d), name)
               /\ d = <<>> \/ Len(d) \in Slashes(d)
<1> DEFINE t == Trimmed(s)
           L == LastSlash(t)
           d == SubSeq(t, 1, L)
<1>1. /\ t \in Texts /\ Len(t) <= Len(s) /\ (\A i \in 1..Len(t) : t[i] = s[i])
      /\ t = <<>> \/ ~Ended(t)
      /\ Names(t) = Names(s) /\ (~Ended(s) => t = s)
  BY TrimmedFact
<1>2. d = DirPart(s) /\ NamePart(s) = Tail0(t)
  BY DEF DirPart, NamePart, Tail0
<1> HIDE DEF t
<1>3. L \in 0..Len(t) /\ (L # 0 => t[L] = "/") /\ Len(t) \in Nat /\ Len(s) \in Nat
  BY <1>1, LastSlashFact, LenProperties DEF Texts
<1>4. Tail0(t) \in Texts /\ SlashFree(Tail0(t))
  BY <1>1, TailFact
<1>5. d \in Texts /\ Len(d) = L /\ \A i \in 1..L : d[i] = t[i]
  BY <1>1, <1>3, Beginning DEF Texts
<1>6. d = <<>> \/ (Len(d) \in Slashes(d) /\ d[Len(d)] = "/")
  <2>1. CASE L = 0
    BY <1>5, <2>1, EmptySeq DEF Texts
  <2>2. CASE L # 0
    <3>1. L \in 1..L
      BY <1>3, <2>2
    <3>2. DOMAIN d = 1..L
      BY <1>5, LenProperties DEF Texts
    <3> HIDE DEF L
    <3> QED
      BY <1>3, <1>5, <2>2, <3>1, <3>2 DEF Slashes
  <2> QED
    BY <2>1, <2>2
<1>7. ASSUME Tail0(t) \notin {<<>>, <<".">>, <<".", ".">>}
      PROVE  Names(s) = Append(Names(d), Tail0(t))
  <2>1. t # <<>>
    <3>1. Tail0(<<>>) = <<>>
      <4>1. SlashFree(<<>>)
        BY EmptyText DEF SlashFree
      <4> QED
        BY <4>1, EmptyText, TailOfPart
    <3> QED
      BY <1>7, <3>1
  <2>2. ~Ended(t) /\ Tail0(t) \notin Dots
    BY <1>1, <1>7, <2>1 DEF Dots
  <2> QED
    BY <1>1, <2>1, <2>2, LastName
<1>8. \A i \in 1..Len(d) : d[i] = s[i]
  <2>1. \A i \in 1..L : i \in 1..Len(t)
    BY <1>3
  <2> QED
    BY <1>1, <1>5, <2>1
<1>9. Len(d) <= Len(s)
  BY <1>1, <1>3, <1>5
<1>10. ~Ended(s) => Tail0(t) = Tail0(s) /\ Len(d) = LastSlash(s)
  BY <1>1, <1>5
<1>11. Ended(d)
  BY <1>6 DEF Ended
<1> HIDE DEF d
<1> QED
  BY <1>2, <1>4, <1>5, <1>6, <1>7, <1>8, <1>9, <1>10, <1>11

-----------------------------------------------------------------------------
(* The file system.                                                         *)

Kinds == {"dir", "file", "socket"}

\* What is there is in a directory.
TreeOK ==
    /\ tree = [q \in DOMAIN tree |-> tree[q]]
    /\ DOMAIN tree \subseteq Places
    /\ \A q \in DOMAIN tree : tree[q] \in Kinds /\ IsDirectory(Parent(q))

(* A place is a sequence of names, none of them empty or a dot or two.      *)
LEMMA PlaceFact ==
    ASSUME NEW q \in Places
    PROVE  /\ q \in Seq(FileName) /\ q \in Seq(Texts) /\ q # <<>> /\ Len(q) \in Nat \ {0}
           /\ Len(q) > 1 => Parent(q) \in Places \ Sockets
           /\ Len(q) = 1 => Parent(q) = <<>>
<1>1. q \in Seq(FileName) /\ q # <<>> /\ \A n \in 1..(Len(q) - 1) : SubSeq(q, 1, n) \in Places \ Sockets
  BY DirectoriesAssumption
<1>2. FileName \subseteq Texts
  <2>1. Characters \ {"/"} \subseteq Characters
    OBVIOUS
  <2>2. Seq(Characters \ {"/"}) \subseteq Seq(Characters)
    BY <2>1, SeqMonotonic
  <2> QED
    BY <2>2 DEF FileName, Texts
<1>3. q \in Seq(Texts)
  BY <1>1, <1>2, SeqMonotonic
<1>4. Len(q) \in Nat \ {0}
  BY <1>1, EmptySeq
<1>5. ASSUME Len(q) > 1 PROVE Parent(q) \in Places \ Sockets
  <2>1. Len(q) - 1 \in 1..(Len(q) - 1)
    BY <1>4, <1>5
  <2> QED
    BY <1>1, <2>1 DEF Parent
<1>6. ASSUME Len(q) = 1 PROVE Parent(q) = <<>>
  <2>1. Len(q) - 1 = 0
    BY <1>6
  <2>2. SubSeq(q, 1, 0) = <<>>
    BY SubSeqEmpty
  <2> QED
    BY <2>1, <2>2, Zenon DEF Parent
<1> QED
  BY <1>1, <1>3, <1>4, <1>5, <1>6

(* Something new in a directory                                             *)
LEMMA TreeGrows ==
    ASSUME TreeOK, NEW q \in Places, q \notin DOMAIN tree, IsDirectory(Parent(q)),
           NEW kind \in {"dir", "file"}, tree' = With(q, kind)
    PROVE  /\ TreeOK' /\ DOMAIN tree' = DOMAIN tree \cup {q} /\ tree'[q] = kind
           /\ \A r \in DOMAIN tree : tree'[r] = tree[r]
           /\ \A r : IsDirectory(r) => IsDirectory(r)'
<1>1. tree' = [r \in DOMAIN tree \cup {q} |-> IF r = q THEN kind ELSE tree[r]]
  BY DEF With
<1>2. DOMAIN tree' = DOMAIN tree \cup {q} /\ tree'[q] = kind /\ tree' = [r \in DOMAIN tree' |-> tree'[r]]
  BY <1>1
<1>3. \A r \in DOMAIN tree : tree'[r] = tree[r]
  BY <1>1
<1>4. \A r : IsDirectory(r) => IsDirectory(r)'
  BY <1>2, <1>3 DEF IsDirectory
<1>5. \A r \in DOMAIN tree' : tree'[r] \in Kinds /\ IsDirectory(Parent(r))'
  <2> SUFFICES ASSUME NEW r \in DOMAIN tree' PROVE tree'[r] \in Kinds /\ IsDirectory(Parent(r))'
    OBVIOUS
  <2>1. IsDirectory(Parent(r))
    BY <1>2 DEF TreeOK
  <2>2. IsDirectory(Parent(r))'
    BY <1>4, <2>1
  <2>3. tree'[r] \in Kinds
    BY <1>2, <1>3 DEF TreeOK, Kinds
  <2> QED
    BY <2>2, <2>3
<1>6. TreeOK'
  BY <1>2, <1>5 DEF TreeOK
<1> QED
  BY <1>2, <1>3, <1>4, <1>6

(* Something less with nothing in it                                        *)
LEMMA TreeShrinks ==
    ASSUME TreeOK, NEW q, \A c \in DOMAIN tree : Parent(c) = q => q = <<>>, tree' = Without(q)
    PROVE  TreeOK' /\ DOMAIN tree' = DOMAIN tree \ {q} /\ \A r \in DOMAIN tree' : tree'[r] = tree[r]
<1>1. tree' = [r \in DOMAIN tree \ {q} |-> tree[r]]
  BY DEF Without
<1>2. DOMAIN tree' = DOMAIN tree \ {q} /\ tree' = [r \in DOMAIN tree' |-> tree'[r]]
      /\ \A r \in DOMAIN tree' : tree'[r] = tree[r]
  BY <1>1
<1>3. ASSUME NEW r \in DOMAIN tree' PROVE tree'[r] \in Kinds /\ IsDirectory(Parent(r))'
  <2>1. IsDirectory(Parent(r)) /\ tree[r] \in Kinds /\ r \in DOMAIN tree
    BY <1>2 DEF TreeOK
  <2>2. Parent(r) = <<>> \/ Parent(r) # q
    BY <2>1
  <2>3. IsDirectory(Parent(r))'
    BY <1>2, <2>1, <2>2 DEF IsDirectory
  <2> QED
    BY <1>2, <2>1, <2>3
<1>4. TreeOK'
  BY <1>2, <1>3 DEF TreeOK
<1> QED
  BY <1>2, <1>4

(* Every directory on the way to something that is there is there.          *)
LEMMA WayIsThere ==
    ASSUME TreeOK, NEW q \in DOMAIN tree
    PROVE  \A p \in Above(q) : p \in DOMAIN tree /\ (p # q => tree[p] = "dir")
<1> DEFINE N == Len(q)
           F(k) == SubSeq(q, 1, N - k)
           T == {k \in 0..(N - 1) : F(k) \in DOMAIN tree /\ (k # 0 => tree[F(k)] = "dir")}
<1>1. q \in Places /\ q \in Seq(Texts) /\ N \in Nat \ {0}
  BY PlaceFact DEF TreeOK
<1>2. N - 1 \in Nat
  BY <1>1
<1>3. 0 \in T
  <2>1. Begin(q, q)
    BY <1>1, BeginFact
  <2>2. N - 0 = N
    BY <1>1
  <2>3. F(0) = q
    BY <2>1, <2>2 DEF Begin
  <2>4. 0 \in 0..(N - 1)
    BY <1>2
  <2> HIDE DEF F, N
  <2> QED
    BY <2>3, <2>4
<1>4. \A k \in 1..(N - 1) : k - 1 \in T => k \in T
  <2> SUFFICES ASSUME NEW k \in 1..(N - 1), F(k - 1) \in DOMAIN tree
               PROVE  F(k) \in DOMAIN tree /\ tree[F(k)] = "dir"
    BY <1>2
  <2> DEFINE n == N - (k - 1)
             m == N - k
             p == SubSeq(q, 1, n)
  <2>1. n \in 0..Len(q) /\ m \in 0..Len(q) /\ m = n - 1 /\ m # 0 /\ m \in 0..n
    BY <1>1, <1>2
  <2>2. p \in DOMAIN tree
    OBVIOUS
  <2> HIDE DEF n, m, N
  <2>3. p \in Seq(Texts) /\ Len(p) = n /\ \A i \in 1..n : p[i] = q[i]
    BY <1>1, <2>1, Beginning
  <2> HIDE DEF p
  <2>4. IsDirectory(Parent(p))
    BY <2>2 DEF TreeOK
  <2>5. Parent(p) = SubSeq(p, 1, m)
    BY <2>1, <2>3 DEF Parent
  <2>6. SubSeq(p, 1, m) \in Seq(Texts) /\ Len(SubSeq(p, 1, m)) = m /\ \A i \in 1..m : SubSeq(p, 1, m)[i] = p[i]
    BY <2>1, <2>3, Beginning
  <2>7. SubSeq(q, 1, m) \in Seq(Texts) /\ Len(SubSeq(q, 1, m)) = m /\ \A i \in 1..m : SubSeq(q, 1, m)[i] = q[i]
    BY <1>1, <2>1, Beginning
  <2>8. SubSeq(p, 1, m) = SubSeq(q, 1, m)
    <3>1. \A i \in 1..m : i \in 1..n
      BY <2>1
    <3> QED
      BY <2>3, <2>6, <2>7, <3>1, SeqEqual
  <2>9. SubSeq(q, 1, m) # <<>>
    BY <2>1, <2>7, EmptyText
  <2>10. SubSeq(q, 1, m) \in DOMAIN tree /\ tree[SubSeq(q, 1, m)] = "dir"
    BY <2>4, <2>5, <2>8, <2>9 DEF IsDirectory
  <2> QED
    BY <2>10 DEF m
<1> HIDE DEF T
<1>5. \A k \in 0..(N - 1) : k \in T
  BY <1>2, <1>3, <1>4, Rounds
<1>6. ASSUME NEW p \in Above(q) PROVE p \in DOMAIN tree /\ (p # q => tree[p] = "dir")
  <2>1. PICK n \in 1..N : p = SubSeq(q, 1, n)
    BY DEF Above
  <2>2. N - n \in 0..(N - 1) /\ N - (N - n) = n /\ (N - n = 0 => n = N)
    BY <1>1
  <2>3. F(N - n) = p
    BY <2>1, <2>2
  <2>4. n = N => p = q
    <3>1. Begin(q, q)
      BY <1>1, BeginFact
    <3> QED
      BY <2>1, <3>1 DEF Begin
  <2> QED
    BY <1>5, <2>2, <2>3, <2>4 DEF T
<1> QED
  BY <1>6
(* A mkdir that succeeds creates a place that was not there, in a directory. *)
LEMMA MkdirMeans ==
    ASSUME NEW s \in Texts, MkdirResult(s) = "OK"
    PROVE  /\ Mkdir(s) = "OK" /\ s # <<>>
           /\ NamePart(s) \notin {<<>>, <<".">>, <<".", ".">>}
           /\ Names(s) = Append(Names(DirPart(s)), NamePart(s))
           /\ Names(s) \in Places /\ Names(s) \notin DOMAIN tree
           /\ IsDirectory(Parent(Names(s)))
<1> DEFINE d == DirPart(s)
           name == NamePart(s)
<1>1. Mkdir(s) = "OK"
  BY Zenon DEF MkdirResult
<1>2. /\ s # <<>> /\ Reachable(DirPart(s)) /\ NamePart(s) \notin {<<>>, <<".">>, <<".", ".">>}
      /\ Names(s) \notin DOMAIN tree /\ Names(s) \in Places
  <2> DEFINE none == s = <<>> \/ ~Reachable(DirPart(s))
             there == NamePart(s) \in {<<>>, <<".">>, <<".", ".">>} \/ Names(s) \in DOMAIN tree
             full == Names(s) \notin Places
  <2>1. Mkdir(s) = IF none THEN "ENOENT" ELSE IF there THEN "EEXIST" ELSE IF full THEN "ENOSPC" ELSE "OK"
    BY Zenon DEF Mkdir
  <2>2. ~none /\ ~there /\ ~full
    <3> HIDE DEF none, there, full
    <3> QED BY <1>1, <2>1
  <2> QED BY Zenon, <2>2
<1>3. /\ d \in Texts /\ name \in Texts /\ Names(s) = Append(Names(d), name)
      /\ d = <<>> \/ Len(d) \in Slashes(d)
  BY Zenon, <1>2, NameOfText
<1>4. IsDirectory(Names(d))
  <2>1. CASE d = <<>>
    BY Zenon, <2>1, EmptyText DEF IsDirectory
  <2>2. CASE Len(d) \in Slashes(d)
    <3>1. IsDirectory(Names(SubSeq(d, 1, Len(d))))
      BY Zenon, <1>2, <2>2 DEF Reachable
    <3>2. SubSeq(d, 1, Len(d)) = d
      BY Zenon, <1>3, SubSeqFull DEF Texts
    <3> QED BY Zenon, <3>1, <3>2
  <2> QED BY Zenon, <1>3, <2>1, <2>2
<1>5. Parent(Append(Names(d), name)) = Names(d)
  <2>1. Names(d) \in Seq(Texts)
    BY Zenon, <1>3, NamesType
  <2> DEFINE a == Names(d)
  <2> HIDE DEF a, name
  <2>2. Len(Append(a, name)) - 1 = Len(a) /\ SubSeq(Append(a, name), 1, Len(a)) = a
    <3>1. a \in Seq(Texts) /\ name \in Texts
      BY Zenon, <1>3, <2>1 DEF a
    <3>2. /\ Len(Append(a, name)) = Len(a) + 1 /\ Len(a) \in Nat /\ SubSeq(a, 1, Len(a)) = a
          /\ \A m \in 0..Len(a) : SubSeq(Append(a, name), 1, m) = SubSeq(a, 1, m)
      BY Zenon, <3>1, FrontOf
    <3>3. Len(a) \in 0..Len(a)
      BY <3>2
    <3>4. Len(Append(a, name)) - 1 = Len(a)
      BY <3>2
    <3> QED BY Zenon, <3>2, <3>3, <3>4
  <2> QED BY Zenon, <2>2 DEF Parent, a
<1> QED BY Zenon, <1>1, <1>2, <1>3, <1>4, <1>5

(* What a mkdir does to the file system: nothing, or a directory more. *)
LEMMA MkdirStep ==
    ASSUME TreeOK, NEW s \in Texts, MkdirEffect(s)
    PROVE  /\ TreeOK' /\ UNCHANGED history
           /\ \A r \in DOMAIN tree : r \in DOMAIN tree' /\ tree'[r] = tree[r]
           /\ \A r : IsDirectory(r) => IsDirectory(r)'
           /\ MkdirResult(s) # "OK" => tree' = tree
           /\ MkdirResult(s) = "OK" =>
                 /\ DOMAIN tree' = DOMAIN tree \cup {Names(s)}
                 /\ tree'[Names(s)] = "dir" /\ IsDirectory(Names(s))'
<1>1. CASE MkdirResult(s) = "OK"
  <2>1. tree' = With(Names(s), "dir") /\ UNCHANGED history
    BY Zenon, <1>1 DEF MkdirEffect
  <2>2. Names(s) \in Places /\ Names(s) \notin DOMAIN tree /\ IsDirectory(Parent(Names(s)))
    BY Zenon, <1>1, MkdirMeans
  <2>3. "dir" \in {"dir", "file"}
    OBVIOUS
  <2>4. /\ TreeOK' /\ DOMAIN tree' = DOMAIN tree \cup {Names(s)} /\ tree'[Names(s)] = "dir"
        /\ \A r \in DOMAIN tree : tree'[r] = tree[r]
        /\ \A r : IsDirectory(r) => IsDirectory(r)'
    BY Zenon, <2>1, <2>2, <2>3, TreeGrows
  <2>5. IsDirectory(Names(s))'
    <3>1. Names(s) \in DOMAIN tree'
      BY <2>4
    <3> QED BY Zenon, <2>4, <3>1 DEF IsDirectory
  <2>6. \A r \in DOMAIN tree : r \in DOMAIN tree'
    BY <2>4
  <2> QED BY Zenon, <1>1, <2>1, <2>4, <2>5, <2>6
<1>2. CASE MkdirResult(s) # "OK"
  <2>1. tree' = tree /\ UNCHANGED history
    BY Zenon, <1>2 DEF MkdirEffect
  <2>2. TreeOK' /\ \A r : IsDirectory(r) => IsDirectory(r)'
    BY Zenon, <2>1 DEF TreeOK, IsDirectory
  <2> QED BY Zenon, <1>2, <2>1, <2>2
<1> QED BY Zenon, <1>1, <1>2

-----------------------------------------------------------------------------
(* The calls of MakeDir and RemoveDir.                                      *)

(* MakeDir: WorkPath is the argument after an append, and the loop is at one
   of its characters.                                                       *)
CallOK ==
    /\ work \in Texts /\ at \in Nat /\ at <= Len(work)
    /\ pc # "mkdirs" => at = 0 /\ work = <<>>
    /\ pc = "mkdirs" => work = Text(AppendArrayToPath(arg, EmptyPath).path)
    /\ pc = "edit" => answer = NoAnswer
    /\ answer.kind = "make" => pc = "idle"

FrameType == [text : Texts, stream : {"none", "open", "closed"}, left : SUBSET (Texts \X Kinds)]

(* RemoveDir: whoever has called itself is listing its directory; the call
   that runs has closed its own before it removes the directory, or never
   opened one and nobody has called it.                                     *)
FramesOK ==
    /\ frames \in Seq(FrameType)
    /\ \A i \in 1..Len(frames) : frames[i].stream = "open" => Len(frames[i].text) <= Size
    /\ \A i \in 1..(Len(frames) - 1) : frames[i].stream = "open"
    /\ pc \in {"remove", "rmdir"} => Len(frames) > 0
    /\ pc = "remove" => frames[Len(frames)].stream # "closed"
    /\ pc = "rmdir" => \/ frames[Len(frames)].stream = "closed"
                       \/ frames[Len(frames)].stream = "none" /\ Len(frames) = 1

CallInv == EditInv /\ TreeOK /\ CallOK /\ FramesOK /\ leaked \in Nat

(* The next slash of WorkPath, and the text before it. *)
LEMMA NextDir ==
    ASSUME CallOK, NextSlash # {}
    PROVE  LET slash == Min(NextSlash)
           IN  /\ slash \in Slashes(work) /\ slash \in 1..Len(work) /\ slash > at
               /\ SubSeq(work, 1, slash - 1) \in Texts
               /\ \A i \in Slashes(work) : i > at => i >= slash
<1> DEFINE slash == Min(NextSlash)
<1>1. NextSlash \subseteq Nat
  BY DEF NextSlash, Slashes, CallOK, Texts
<1>2. slash \in NextSlash /\ \A i \in NextSlash : slash <= i
  <2>1. \E x \in NextSlash : \A y \in NextSlash : x <= y
    BY <1>1, SmallestMember
  <2> QED BY Zenon, <2>1 DEF Min
<1> HIDE DEF slash
<1>3. slash \in Slashes(work) /\ slash > at
  BY <1>2 DEF NextSlash
<1>4. work \in Texts
  BY DEF CallOK
<1>5. slash \in 1..Len(work) /\ SubSeq(work, 1, slash - 1) \in Texts
  BY Zenon, <1>3, <1>4, UpToSlash
<1>6. \A i \in Slashes(work) : i > at => i >= slash
  <2> TAKE i \in Slashes(work)
  <2> HAVE i > at
  <2>1. i \in NextSlash
    BY DEF NextSlash
  <2>2. i \in Nat /\ slash \in Nat
    BY <1>1, <1>2, <2>1
  <2> QED BY <1>2, <2>1, <2>2
<1> QED BY <1>3, <1>5, <1>6 DEF slash

(* What a step does to the file system: nothing; a mkdir; another process; or
   something that is no directory, or is an empty one, is removed.          *)
LEMMA TreeKept ==
    ASSUME EditInv, TreeOK, CallOK, [Next]_vars
    PROVE  TreeOK'
<1>0. /\ \A q \in DOMAIN tree : Children(q) = {} => \A c \in DOMAIN tree : Parent(c) # q
      /\ \A q \in DOMAIN tree : tree[q] # "dir" => \A c \in DOMAIN tree : Parent(c) = q => q = <<>>
  <2>1. \A c \in DOMAIN tree : c # <<>> /\ IsDirectory(Parent(c))
    BY Zenon, PlaceFact DEF TreeOK
  <2>2. ASSUME NEW q \in DOMAIN tree, Children(q) = {}, NEW c \in DOMAIN tree PROVE Parent(c) # q
    BY <2>1, <2>2 DEF Children
  <2>3. ASSUME NEW q \in DOMAIN tree, tree[q] # "dir", NEW c \in DOMAIN tree, Parent(c) = q PROVE q = <<>>
    BY <2>1, <2>3 DEF IsDirectory
  <2> QED BY Zenon, <2>2, <2>3
<1>1. ASSUME NEW q, Children(q) = {}, tree' = Without(q) PROVE TreeOK'
  <2>1. \A c \in DOMAIN tree : Parent(c) = q => q = <<>>
    <3> SUFFICES ASSUME NEW c \in DOMAIN tree, Parent(c) = q PROVE q = <<>>
      OBVIOUS
    <3>1. c # <<>>
      BY Zenon, PlaceFact DEF TreeOK
    <3> QED BY <1>1, <3>1 DEF Children
  <2> QED BY Zenon, <1>1, <2>1, TreeShrinks
<1>2. ASSUME UNCHANGED tree PROVE TreeOK'
  BY Zenon, <1>2 DEF TreeOK, IsDirectory
<1>3. CASE MakeDirFirst
  <2>1. MkdirEffect(arg) /\ arg \in Texts
    BY Zenon, <1>3 DEF MakeDirFirst, EditInv
  <2> QED BY Zenon, <2>1, MkdirStep
<1>4. CASE MakeDirNext
  <2>1. NextSlash # {} /\ MkdirEffect(SubSeq(work, 1, Min(NextSlash) - 1))
    BY Zenon, <1>4 DEF MakeDirNext
  <2>2. SubSeq(work, 1, Min(NextSlash) - 1) \in Texts
    BY Zenon, <2>1, NextDir
  <2> QED BY Zenon, <2>1, <2>2, MkdirStep
<1>5. CASE MakeDirLast
  <2>1. MkdirEffect(arg) \/ UNCHANGED tree
    BY Zenon, <1>5 DEF MakeDirLast, fsvars
  <2>2. arg \in Texts
    BY DEF EditInv
  <2> QED BY Zenon, <1>2, <2>1, <2>2, MkdirStep
<1>6. CASE RemoveEntry
  <2>1. UNCHANGED tree \/ \E q \in DOMAIN tree : tree[q] # "dir" /\ tree' = Without(q)
    BY Zenon, <1>6 DEF RemoveEntry
  <2>2. ASSUME NEW q \in DOMAIN tree, tree[q] # "dir", tree' = Without(q) PROVE TreeOK'
    BY Zenon, <1>0, <2>2, TreeShrinks
  <2> QED BY Zenon, <1>2, <2>1, <2>2
<1>7. CASE Rmdir
  <2>1. UNCHANGED tree \/ \E q : Children(q) = {} /\ tree' = Without(q)
    BY Zenon, <1>7 DEF Rmdir
  <2> QED BY Zenon, <1>1, <1>2, <2>1
<1>8. CASE Others
  <2>1. PICK q \in Places :
          \/ /\ q \notin DOMAIN tree /\ IsDirectory(Parent(q))
             /\ \E kind \in {"dir", "file"} : tree' = With(q, kind)
          \/ Children(q) = {} /\ tree' = Without(q)
    BY Zenon, <1>8 DEF Others
  <2> QED BY Zenon, <1>1, <2>1, TreeGrows
<1>9. CASE MakeDirCall \/ RemoveDirCall(TRUE) \/ RemoveDirCall(FALSE) \/ ListOpen \/ ListEnd
  <2>1. UNCHANGED tree
    BY Zenon, <1>9 DEF MakeDirCall, RemoveDirCall, Call, ListOpen, ListEnd, fsvars
  <2> QED BY <1>2, <2>1
<1>10. CASE AppendToPath \/ AppendCWDToPath \/ MoveUp \/ UsePath \/ UNCHANGED vars
  <2>1. UNCHANGED tree
    BY <1>10 DEF AppendToPath, AppendCWDToPath, MoveUp, Edit, UsePath, fsvars, vars
  <2> QED BY <1>2, <2>1
<1> QED
  BY <1>3, <1>4, <1>5, <1>6, <1>7, <1>8, <1>9, <1>10 DEF Next, MakeDir, RemoveDir

(* The record of MakeDir is right after every step. *)
LEMMA CallKept ==
    ASSUME EditInv, TreeOK, CallOK, [Next]_vars
    PROVE  CallOK'
<1>0. <<>> \in Texts /\ Len(<<>>) = 0 /\ work \in Texts /\ arg \in Texts
  BY Zenon, EmptyText DEF CallOK, EditInv
<1>1. ASSUME UNCHANGED <<work, at, arg>>, pc' # "mkdirs", pc # "mkdirs",
             answer'.kind = "make" => pc' = "idle", pc' = "edit" => answer' = NoAnswer
      PROVE  CallOK'
  BY <1>1 DEF CallOK
<1>2. ASSUME UNCHANGED <<work, at, arg, pc, answer>> PROVE CallOK'
  BY <1>2 DEF CallOK
<1>3. ASSUME NEW kind, NEW ok, Return(kind, ok) PROVE CallOK'
  BY <1>0, <1>3 DEF Return, CallOK
<1>4. ASSUME NEW next \in {"mkdir", "remove", "rmdir"}, Call(next) PROVE CallOK'
  <2>1. /\ UNCHANGED <<work, at, arg>> /\ pc' # "mkdirs" /\ pc # "mkdirs"
        /\ answer' = NoAnswer
    BY <1>4 DEF Call
  <2>2. answer'.kind # "make"
    BY <2>1 DEF NoAnswer
  <2> QED BY <1>1, <2>1, <2>2
<1>5. CASE MakeDirFirst
  <2>1. CASE \E ok : Return("make", ok)
    BY Zenon, <1>3, <2>1
  <2>2. CASE /\ pc' = "mkdirs" /\ pc = "mkdir"
             /\ work' = Text(AppendArrayToPath(arg, EmptyPath).path)
             /\ UNCHANGED <<arg, at, answer>>
    <3>1. Text(AppendArrayToPath(arg, EmptyPath).path) \in Texts
      BY <1>0, EmptyPathOK, AppendOK, TextFact DEF AppendArrayToPath
    <3>2. at = 0 /\ Len(work') \in Nat
      BY <2>2, <3>1 DEF CallOK, Texts
    <3>3. answer.kind # "make"
      BY <2>2 DEF CallOK
    <3> DEFINE w == Text(AppendArrayToPath(arg, EmptyPath).path)
    <3>4. w' = w
      BY <2>2
    <3> QED BY <2>2, <3>1, <3>2, <3>3, <3>4 DEF CallOK
  <2> QED BY <1>5, <2>1, <2>2 DEF MakeDirFirst
<1>6. CASE MakeDirNext
  <2> DEFINE slash == Min(NextSlash)
  <2>1. (\E ok : Return("make", ok)) \/ (at' = slash /\ UNCHANGED <<arg, pc, work, answer>>)
    BY Zenon, <1>6 DEF MakeDirNext
  <2>2. slash \in 1..Len(work) /\ pc = "mkdirs"
    BY Zenon, <1>6, NextDir DEF MakeDirNext
  <2> HIDE DEF slash
  <2>3. CASE at' = slash /\ UNCHANGED <<arg, pc, work, answer>>
    BY <2>2, <2>3 DEF CallOK
  <2> QED BY Zenon, <1>3, <2>1, <2>3
<1>7. CASE MakeDirLast
  BY Zenon, <1>3, <1>7 DEF MakeDirLast
<1>8. CASE MakeDirCall
  BY Zenon, <1>4, <1>8 DEF MakeDirCall
<1>9. CASE RemoveDirCall(TRUE) \/ RemoveDirCall(FALSE)
  BY <1>4, <1>9 DEF RemoveDirCall
<1>10. CASE ListOpen \/ ListEnd
  <2>1. /\ UNCHANGED <<work, at, arg, answer>> /\ pc = "remove"
        /\ pc' \in {"remove", "rmdir", "crashed"}
    BY <1>10 DEF ListOpen, ListEnd
  <2>2. answer.kind # "make"
    BY <2>1 DEF CallOK
  <2> QED BY <1>1, <2>1, <2>2
<1>11. CASE RemoveEntry
  <2>1. UNCHANGED <<work, at, arg, pc, answer>> \/ RemoveFails(Open)
    BY Zenon, <1>11 DEF RemoveEntry
  <2> QED BY Zenon, <1>2, <1>3, <2>1 DEF RemoveFails
<1>12. CASE Rmdir
  <2>1. \/ RemoveFails(Open) \/ Return(Removal, TRUE)
        \/ pc' = "remove" /\ pc = "rmdir" /\ UNCHANGED <<arg, work, at, answer>>
    BY Zenon, <1>12 DEF Rmdir
  <2>2. CASE pc' = "remove" /\ pc = "rmdir" /\ UNCHANGED <<arg, work, at, answer>>
    <3>1. answer.kind # "make"
      BY <2>2 DEF CallOK
    <3> QED BY <1>1, <2>2, <3>1
  <2> QED BY Zenon, <1>3, <2>1, <2>2 DEF RemoveFails
<1>13. CASE UsePath
  <2>1. /\ pc = "edit" /\ pc' = "idle" /\ UNCHANGED <<work, at, answer>>
    BY <1>13 DEF UsePath
  <2> QED BY <2>1 DEF CallOK
<1>14. CASE AppendToPath \/ AppendCWDToPath \/ MoveUp \/ Others \/ UNCHANGED vars
  <2>1. UNCHANGED <<work, at, arg, pc, answer>>
    BY <1>14 DEF AppendToPath, AppendCWDToPath, MoveUp, Edit, Others, vars, call
  <2> QED BY <1>2, <2>1
<1> QED
  BY <1>5, <1>6, <1>7, <1>8, <1>9, <1>10, <1>11, <1>12, <1>13, <1>14 DEF Next, MakeDir, RemoveDir

(* The path of an entry is a text that fits into a path. *)
LEMMA EntryText ==
    ASSUME NEW dir \in Texts, Len(dir) <= Size, NEW name \in Texts
    PROVE  EntryPath(dir, name) \in Texts /\ Len(EntryPath(dir, name)) <= Size
<1> DEFINE P == Put(dir, EmptyPath)
           r == AppendPathToPath(name, P)
<1>1. Fits(dir, EmptyPath)
  BY SizeType DEF Fits, EmptyPath
<1>2. PathOK(P)
  BY <1>1, EmptyPathOK, PutFact
<1> HIDE DEF P
<1>3. PathOK(r.path)
  BY <1>2, AppendOK DEF AppendPathToPath, Failed
<1> QED
  BY <1>3, CStringFact DEF EntryPath, P

(* A new top of the frames. *)
LEMMA NewTop ==
    ASSUME frames \in Seq(FrameType), Len(frames) > 0, NEW f \in FrameType, SetTop(f)
    PROVE  /\ frames' \in Seq(FrameType) /\ Len(frames') = Len(frames)
           /\ frames'[Len(frames)] = f
           /\ \A i \in 1..(Len(frames) - 1) : frames'[i] = frames[i]
  BY DEF SetTop

(* The frames are right after every step. *)
LEMMA FramesKept ==
    ASSUME EditInv, TreeOK, FramesOK, [Next]_vars
    PROVE  FramesOK'
<1> DEFINE n == Len(frames)
<1>0. /\ frames \in Seq(FrameType) /\ n \in Nat
      /\ pc \in {"remove", "rmdir"} => Top \in FrameType /\ n > 0
      /\ Top \in FrameType => Top = [text |-> Top.text, stream |-> Top.stream, left |-> Top.left]
                              /\ Top.text \in Texts /\ Top.left \subseteq Texts \X Kinds
      /\ arg \in Texts
  <2>1. frames \in Seq(FrameType) /\ n \in Nat /\ (pc \in {"remove", "rmdir"} => n > 0)
    BY DEF FramesOK
  <2>2. n > 0 => Top \in FrameType
    BY <2>1 DEF Top
  <2>3. Top \in FrameType => Top = [text |-> Top.text, stream |-> Top.stream, left |-> Top.left]
                              /\ Top.text \in Texts /\ Top.left \subseteq Texts \X Kinds
    <3> DEFINE t == Top
    <3> HIDE DEF t
    <3>1. t \in FrameType => t = [text |-> t.text, stream |-> t.stream, left |-> t.left]
                              /\ t.text \in Texts /\ t.left \subseteq Texts \X Kinds
      BY DEF FrameType
    <3> QED BY <3>1 DEF t
  <2> QED BY <2>1, <2>2, <2>3 DEF EditInv
<1>1. ASSUME UNCHANGED frames, UNCHANGED pc \/ pc' \notin {"remove", "rmdir"} PROVE FramesOK'
  BY <1>1 DEF FramesOK
<1>2. ASSUME NEW kind, NEW ok, Return(kind, ok) PROVE FramesOK'
  BY <1>2 DEF Return, FramesOK
<1>3. ASSUME NEW f \in FrameType, n > 0, SetTop(f), f.stream = "open" => Len(f.text) <= Size,
             \/ pc' = "remove" /\ f.stream # "closed"
             \/ pc' = "rmdir" /\ f.stream = "closed"
             \/ pc' = "rmdir" /\ f.stream = "none" /\ n = 1
      PROVE  FramesOK'
  <2>1. /\ frames' \in Seq(FrameType) /\ Len(frames') = n
        /\ frames'[n] = f
        /\ \A i \in 1..(n - 1) : frames'[i] = frames[i]
    BY <1>0, <1>3, NewTop
  <2> QED BY <1>0, <1>3, <2>1 DEF FramesOK
<1>4. CASE RemoveDirCall(TRUE) \/ RemoveDirCall(FALSE)
  <2> DEFINE f == Frame(arg)
  <2>1. frames' = <<f>> /\ pc' \in {"remove", "rmdir"}
    BY <1>4 DEF RemoveDirCall, Call
  <2>2. f \in FrameType /\ f.stream = "none"
    BY <1>0 DEF Frame, FrameType
  <2> HIDE DEF f
  <2>3. frames' \in Seq(FrameType) /\ Len(frames') = 1 /\ frames'[1] = f
    BY <2>1, <2>2
  <2> QED BY <2>1, <2>2, <2>3 DEF FramesOK
<1>5. CASE ListOpen
  <2> DEFINE list == {<<c[Len(c)], tree[c]>> : c \in Children(Names(Top.text))}
             f == [text |-> Top.text, stream |-> "open", left |-> list]
  <2>1. pc = "remove" /\ \/ Len(Top.text) <= Size /\ SetTop(f) /\ pc' = pc
                         \/ pc' = "crashed" /\ UNCHANGED frames
    BY Zenon, <1>5 DEF ListOpen
  <2>2. list \subseteq Texts \X Kinds
    <3> SUFFICES ASSUME NEW c \in Children(Names(Top.text))
                 PROVE  c[Len(c)] \in Texts /\ tree[c] \in Kinds
      OBVIOUS
    <3>1. c \in DOMAIN tree /\ c \in Places
      BY DEF Children, TreeOK
    <3>2. c \in Seq(Texts) /\ Len(c) \in Nat \ {0}
      BY <3>1, PlaceFact
    <3> QED BY <3>1, <3>2 DEF TreeOK
  <2> HIDE DEF list
  <2>4. f \in FrameType /\ f.stream = "open" /\ f.text = Top.text
    <3>1. Top.text \in Texts
      BY <1>0, <2>1
    <3> QED BY <2>2, <3>1 DEF FrameType
  <2> HIDE DEF f
  <2>5. CASE Len(Top.text) <= Size /\ SetTop(f) /\ pc' = pc
    BY <1>0, <1>3, <2>1, <2>4, <2>5
  <2> QED BY <1>1, <2>1, <2>5
<1>6. CASE ListEnd
  <2> DEFINE f == [Top EXCEPT !.stream = "closed"]
  <2>1. pc = "remove" /\ SetTop(f) /\ pc' = "rmdir"
    BY Zenon, <1>6 DEF ListEnd
  <2>2. f = [text |-> Top.text, stream |-> "closed", left |-> Top.left]
    <3>1. Top = [text |-> Top.text, stream |-> Top.stream, left |-> Top.left]
      BY <1>0, <2>1
    <3> QED BY <3>1
  <2>3. Top.text \in Texts /\ Top.left \subseteq Texts \X Kinds
    BY <1>0, <2>1
  <2> HIDE DEF f
  <2>4. f \in FrameType /\ f.stream = "closed"
    BY <2>2, <2>3 DEF FrameType
  <2> QED BY <1>0, <1>3, <2>1, <2>4
<1>7. CASE RemoveEntry
  <2>0. PICK e \in Top.left : \E scratch \in {EntryPath(Top.text, e[1])} :
          LET f == [Top EXCEPT !.left = @ \ {e}]
          IN  \/ /\ frames' = Append([frames EXCEPT ![Len(frames)] = f], Frame(scratch))
                 /\ UNCHANGED pc
              \/ SetTop(f) /\ UNCHANGED pc
              \/ RemoveFails(Open)
    BY Zenon, <1>7 DEF RemoveEntry
  <2>1. PICK scratch \in {EntryPath(Top.text, e[1])} :
          LET f == [Top EXCEPT !.left = @ \ {e}]
          IN  \/ /\ frames' = Append([frames EXCEPT ![Len(frames)] = f], Frame(scratch))
                 /\ UNCHANGED pc
              \/ SetTop(f) /\ UNCHANGED pc
              \/ RemoveFails(Open)
    BY Zenon, <2>0
  <2>2. pc = "remove" /\ Top.stream = "open"
    BY <1>7 DEF RemoveEntry
  <2> DEFINE f == [Top EXCEPT !.left = @ \ {e}]
             g == Frame(scratch)
             mid == [frames EXCEPT ![Len(frames)] = f]
  <2>3. f = [text |-> Top.text, stream |-> "open", left |-> Top.left \ {e}]
    <3>1. Top = [text |-> Top.text, stream |-> Top.stream, left |-> Top.left]
      BY <1>0, <2>2
    <3> QED BY <2>2, <3>1
  <2>4. Top.text \in Texts /\ Top.left \subseteq Texts \X Kinds /\ Len(Top.text) <= Size
    <3>1. n > 0 /\ Top.text \in Texts /\ Top.left \subseteq Texts \X Kinds
      BY <1>0, <2>2
    <3> QED BY <1>0, <2>2, <3>1 DEF FramesOK, Top
  <2>5. e[1] \in Texts
    BY <2>4
  <2>6. g \in FrameType /\ g.stream = "none"
    <3>1. scratch \in Texts
      BY <2>4, <2>5, EntryText
    <3> QED BY <3>1 DEF Frame, FrameType
  <2>7. (frames' = Append(mid, g) /\ UNCHANGED pc) \/ (SetTop(f) /\ UNCHANGED pc) \/ RemoveFails(Open)
    BY Zenon, <2>1
  <2> HIDE DEF g
  <2>8. f \in FrameType /\ f.stream = "open" /\ Len(f.text) <= Size
    <3> HIDE DEF f
    <3> QED BY <2>3, <2>4 DEF FrameType
  <2> HIDE DEF f
  <2>9. CASE frames' = Append(mid, g) /\ UNCHANGED pc
    <3>1. /\ mid \in Seq(FrameType) /\ Len(mid) = n /\ mid[n] = f
          /\ \A i \in 1..(n - 1) : mid[i] = frames[i]
      BY <1>0, <2>2, <2>8
    <3> HIDE DEF mid
    <3>2. /\ frames' \in Seq(FrameType) /\ Len(frames') = n + 1 /\ frames'[n + 1] = g
          /\ frames'[n] = f /\ \A i \in 1..(n - 1) : frames'[i] = frames[i]
      BY <1>0, <2>2, <2>6, <2>9, <3>1
    <3>3. \A i \in 1..n : frames'[i].stream = "open" /\ Len(frames'[i].text) <= Size
      <4> TAKE i \in 1..n
      <4>1. CASE i = n
        BY <2>8, <3>2, <4>1
      <4>2. CASE i \in 1..(n - 1)
        BY <1>0, <3>2, <4>2 DEF FramesOK
      <4> QED BY <1>0, <4>1, <4>2
    <3> QED BY <1>0, <2>2, <2>6, <2>9, <3>2, <3>3 DEF FramesOK
  <2>10. CASE SetTop(f) /\ UNCHANGED pc
    BY <1>0, <1>3, <2>2, <2>8, <2>10
  <2> QED BY <1>2, <2>7, <2>9, <2>10 DEF RemoveFails
<1>8. CASE Rmdir
  <2>1. \/ RemoveFails(Open) \/ Return(Removal, TRUE)
        \/ pc = "rmdir" /\ pc' = "remove" /\ n # 1 /\ frames' = SubSeq(frames, 1, n - 1)
    BY Zenon, <1>8 DEF Rmdir
  <2>2. CASE pc = "rmdir" /\ pc' = "remove" /\ n # 1 /\ frames' = SubSeq(frames, 1, n - 1)
    <3> DEFINE m == n - 1
    <3>0. n \in Nat /\ n > 0 /\ n # 1 /\ frames' = SubSeq(frames, 1, m)
      BY <1>0, <2>2
    <3>1. m \in 1..n /\ m + 1 = n /\ frames' = SubSeq(frames, 1, m)
      <4> HIDE DEF n
      <4> QED BY <3>0
    <3> HIDE DEF m
    <3>2. frames' \in Seq(FrameType) /\ Len(frames') = m /\ \A i \in 1..m : frames'[i] = frames[i]
      BY <1>0, <3>1
    <3>3. \A i \in 1..m : frames[i].stream = "open" /\ Len(frames[i].text) <= Size
      BY <1>0, <3>1 DEF FramesOK
    <3> QED BY <1>0, <2>2, <3>1, <3>2, <3>3 DEF FramesOK
  <2> QED BY <1>2, <2>1, <2>2 DEF RemoveFails
<1>9. CASE MakeDir
  <2>1. \/ \E ok : Return("make", ok)
        \/ UNCHANGED frames /\ pc' \in {"mkdir", "mkdirs"}
        \/ UNCHANGED frames /\ UNCHANGED pc
    BY Zenon, <1>9 DEF MakeDir, MakeDirCall, MakeDirFirst, MakeDirNext, MakeDirLast, Call
  <2>2. pc' \in {"mkdir", "mkdirs"} => pc' \notin {"remove", "rmdir"}
    OBVIOUS
  <2> QED BY Zenon, <1>1, <1>2, <2>1, <2>2
<1>10. CASE AppendToPath \/ AppendCWDToPath \/ MoveUp \/ UsePath \/ Others \/ UNCHANGED vars
  <2>1. UNCHANGED frames /\ (UNCHANGED pc \/ pc' = "idle")
    BY <1>10 DEF AppendToPath, AppendCWDToPath, MoveUp, Edit, UsePath, Others, vars, call
  <2> QED BY <1>1, <2>1
<1> QED
  BY <1>4, <1>5, <1>6, <1>7, <1>8, <1>9, <1>10 DEF Next, RemoveDir

(* The number of streams that are lost is one. *)
LEMMA LeakedKept ==
    ASSUME FramesOK, leaked \in Nat, [Next]_vars
    PROVE  leaked' \in Nat
<1>1. Open \in Nat
  <2> DEFINE n == Len(frames)
             opened == {i \in DOMAIN frames : frames[i].stream = "open"}
  <2>1. n \in Nat /\ opened \subseteq 1..n
    BY DEF FramesOK
  <2> HIDE DEF n, opened
  <2>2. IsFiniteSet(1..n)
    BY <2>1, FS_Interval
  <2>3. Cardinality(opened) \in Nat
    BY <2>1, <2>2, FS_Subset, FS_CardinalityType
  <2> QED BY <2>3 DEF Open, opened
<1>2. UNCHANGED leaked \/ leaked' = leaked + Open
  <2>1. RemoveEntry \/ Rmdir => UNCHANGED leaked \/ leaked' = leaked + Open
    BY Zenon DEF RemoveEntry, Rmdir, RemoveFails
  <2> QED
    BY <2>1 DEF Next, AppendToPath, AppendCWDToPath, MoveUp, Edit, UsePath, MakeDir, MakeDirCall,
           MakeDirFirst, MakeDirNext, MakeDirLast, Call, RemoveDir, RemoveDirCall, ListOpen,
           ListEnd, Others, call, vars
<1> QED BY <1>1, <1>2

(* The record of the calls is right, and the file system a tree.            *)
THEOREM CallsAreOK == Spec => []CallInv
<1>1. Init => CallInv
  <2> SUFFICES ASSUME Init PROVE CallInv
    OBVIOUS
  <2>1. EditInv
    <3>1. path = EmptyPath /\ edit = NoEdit /\ arg = <<>>
      BY DEF Init
    <3>2. PathDenotes
      BY <3>1 DEF PathDenotes, NoEdit
    <3> QED BY <3>1, <3>2, EmptyPathOK, EmptyText, SizeType DEF EditInv, PathOK
  <2>2. CallOK /\ FramesOK
    BY EmptyText DEF Init, CallOK, FramesOK, NoAnswer
  <2>3. TreeOK
    <3>1. PICK D \in {{}, Places}, S \in SUBSET Sockets :
            tree = [q \in D |-> IF q \in S THEN "socket"
                               ELSE IF \A r \in Places : Parent(r) # q THEN "file" ELSE "dir"]
      BY DEF Init
    <3>2. ASSUME NEW q \in D PROVE tree[q] \in Kinds /\ IsDirectory(Parent(q))
      <4>1. q \in Places /\ D = Places
        BY <3>2
      <4>2. CASE Len(q) = 1
        <5>1. Parent(q) = <<>>
          BY <4>1, <4>2, PlaceFact
        <5> QED BY <3>1, <3>2, <5>1 DEF IsDirectory, Kinds
      <4>3. CASE Len(q) > 1
        <5>1. Parent(q) \in Places \ Sockets
          BY <4>1, <4>3, PlaceFact
        <5>2. Parent(q) \notin S
          BY <3>1, <5>1
        <5> QED BY <3>1, <3>2, <4>1, <5>1, <5>2 DEF IsDirectory, Kinds
      <4>4. Len(q) = 1 \/ Len(q) > 1
        <5> DEFINE k == Len(q)
        <5>1. k \in Nat \ {0}
          BY <4>1, PlaceFact
        <5> HIDE DEF k
        <5>2. k = 1 \/ k > 1
          BY <5>1
        <5> QED BY <5>2 DEF k
      <4> QED BY Zenon, <4>2, <4>3, <4>4
    <3> QED BY <3>1, <3>2 DEF TreeOK
  <2>4. leaked \in Nat
    BY DEF Init
  <2> QED BY <2>1, <2>2, <2>3, <2>4 DEF CallInv
<1>2. CallInv /\ [Next]_vars => CallInv'
  BY EditKept, TreeKept, CallKept, FramesKept, LeakedKept DEF CallInv
<1> QED
  BY <1>1, <1>2, PTL DEF Spec

(* StreamsClosed: directory streams are lost only by a call that removes all
   files and answers false.                                                 *)
THEOREM StreamsAreClosed == Spec => StreamsClosed
<1>1. CallInv /\ [Next]_vars => [leaked' # leaked => answer'.kind = "remove" /\ ~answer'.ok]_vars
  <2> SUFFICES ASSUME CallInv, [Next]_vars, leaked' # leaked
               PROVE  answer'.kind = "remove" /\ ~answer'.ok
    OBVIOUS
  <2>1. RemoveEntry \/ Rmdir
    BY DEF Next, AppendToPath, AppendCWDToPath, MoveUp, Edit, UsePath, MakeDir, MakeDirCall,
           MakeDirFirst, MakeDirNext, MakeDirLast, Call, RemoveDir, RemoveDirCall, ListOpen,
           ListEnd, Others, call, vars
  <2>2. RemoveFails(Open)
    BY Zenon, <2>1 DEF RemoveEntry, Rmdir
  <2>3. leaked' = leaked + Open /\ answer' = [kind |-> Removal, ok |-> FALSE]
    BY <2>2 DEF RemoveFails, Return
  <2>4. Removal = "remove"
    <3>1. CASE Top.stream # "none"
      BY Zenon, <3>1 DEF Removal
    <3>2. CASE Top.stream = "none" /\ pc = "rmdir"
      <4>1. Len(frames) = 1 /\ frames \in Seq(FrameType)
        BY <3>2 DEF CallInv, FramesOK, Top
      <4>2. {i \in DOMAIN frames : frames[i].stream = "open"} = {}
        BY <3>2, <4>1 DEF Top
      <4>3. Open = 0
        BY <4>2, FS_EmptySet DEF Open
      <4>4. leaked' = leaked + 0 /\ leaked \in Nat
        BY <2>3, <4>3 DEF CallInv
      <4> QED BY <4>4
    <3> QED BY <2>1, <3>1, <3>2 DEF RemoveEntry, Rmdir
  <2> QED BY <2>3, <2>4
<1> QED
  BY <1>1, CallsAreOK, PTL DEF Spec, StreamsClosed

(* A text is its directory part and what follows its last slash. *)
LEMMA SplitText ==
    ASSUME NEW s \in Texts
    PROVE  LET u == SubSeq(s, 1, LastSlash(s))
           IN  u \in Texts /\ Len(u) = LastSlash(s) /\ s = u \o Tail0(s)
<1> DEFINE L == LastSlash(s)
<1>1. L \in 0..Len(s) /\ Len(s) \in Nat
  BY LastSlashFact, LenProperties DEF Texts
<1> HIDE DEF L
<1>2. SubSeq(s, 1, L) \in Texts /\ Len(SubSeq(s, 1, L)) = L
  BY <1>1, Beginning DEF Texts
<1>3. 1 \in 1..(Len(s) + 1) /\ L \in (1 - 1)..Len(s) /\ Len(s) \in L..Len(s)
  BY <1>1
<1>4. SubSeq(s, 1, L) \o SubSeq(s, L + 1, Len(s)) = SubSeq(s, 1, Len(s))
  BY <1>3, ConcatAdjacentSubSeq DEF Texts
<1>5. SubSeq(s, 1, Len(s)) = s
  BY SubSeqFull DEF Texts
<1>6. Tail0(s) = SubSeq(s, L + 1, Len(s))
  BY DEF Tail0, L
<1>7. s = SubSeq(s, 1, L) \o Tail0(s)
  BY <1>4, <1>5, <1>6, Zenon
<1> QED BY <1>2, <1>7 DEF L

(* The last slash of a beginning. *)
LEMMA LastSlashGrows ==
    ASSUME NEW s \in Texts, NEW i \in 1..Len(s)
    PROVE  /\ s[i] = "/" => LastSlash(SubSeq(s, 1, i)) = i
           /\ s[i] # "/" => LastSlash(SubSeq(s, 1, i)) = LastSlash(SubSeq(s, 1, i - 1))
<1> DEFINE a == SubSeq(s, 1, i)
           k == i - 1
           b == SubSeq(s, 1, k)
           L == LastSlash(b)
<1>1. Len(s) \in Nat /\ i \in 0..Len(s) /\ k \in 0..Len(s) /\ k + 1 = i
  BY LenProperties DEF Texts
<1> HIDE DEF k
<1>2. a \in Texts /\ Len(a) = i /\ \A j \in 1..i : a[j] = s[j]
  BY <1>1, Beginning DEF Texts
<1>3. b \in Texts /\ Len(b) = k /\ \A j \in 1..k : b[j] = s[j]
  BY <1>1, Beginning DEF Texts
<1> HIDE DEF a, b
<1>4. s[i] = "/" => LastSlash(a) = i
  <2> HAVE s[i] = "/"
  <2>1. i \in 0..Len(a) /\ a[i] = "/" /\ \A j \in 1..Len(a) : j > i => a[j] # "/"
    BY <1>1, <1>2
  <2> QED BY <1>2, <2>1, LastSlashIs
<1>5. L \in 0..k /\ (L # 0 => b[L] = "/") /\ \A j \in 1..k : j > L => b[j] # "/"
  BY <1>3, LastSlashFact
<1> HIDE DEF L
<1>6. s[i] # "/" => LastSlash(a) = L
  <2> HAVE s[i] # "/"
  <2>1. L \in 0..Len(a) /\ (L = 0 \/ a[L] = "/")
    BY <1>1, <1>2, <1>3, <1>5
  <2>2. \A j \in 1..Len(a) : j > L => a[j] # "/"
    <3> TAKE j \in 1..Len(a)
    <3> HAVE j > L
    <3>1. CASE j = i
      BY <1>1, <1>2, <3>1
    <3>2. CASE j # i
      <4>1. j \in 1..k /\ j \in 1..i
        BY <1>1, <1>2, <3>2
      <4> QED BY <1>2, <1>3, <1>5, <4>1
    <3> QED BY <3>1, <3>2
  <2> QED BY <1>2, <2>1, <2>2, LastSlashIs
<1> QED BY <1>4, <1>6 DEF a, b, k, L

(* A text of names that fits is copied as it is. *)
LEMMA PlainCopy ==
    ASSUME NEW s \in Texts, Plain(s), Len(s) <= Size
    PROVE  Text(AppendPath(s, EmptyPath).path) = s
<1> DEFINE E == EmptyPath
           R == Taken(s, E)
           upTo(i) == SubSeq(s, 1, LastSlash(SubSeq(s, 1, i)))
           Copied(i) == /\ R[i] = [ok |-> R[i].ok, path |-> R[i].path]
                        /\ R[i].ok = TRUE /\ PathOK(R[i].path)
                        /\ Text(R[i].path) = upTo(i)
           T == {i \in 0..Len(s) : Copied(i)}
<1>1. Len(s) \in Nat /\ DOMAIN s = 1..Len(s)
  BY LenProperties DEF Texts
<1>2. /\ R[0] = Done(E)
      /\ \A i \in 1..Len(s) :
            R[i] = IF ~R[i - 1].ok \/ s[i] # "/" THEN R[i - 1]
                   ELSE TakePart(PartEnding(s, i), R[i - 1].path)
  BY TakenStep
<1>3. PathOK(E) /\ Text(E) = <<>> /\ E.WriteCur = 0
  BY EmptyPathOK DEF EmptyPath
<1> HIDE DEF R
<1>4. Rest(s, E) = s /\ ~IsOpen(E) /\ LoopEnd(s, E) = R[Len(s)]
  <2>1. Rest(s, E) = s /\ ~IsOpen(E)
    BY <1>3 DEF Rest, IsOpen
  <2>2. LoopStart(E) = E
    BY Zenon, <2>1 DEF LoopStart
  <2> QED BY Zenon, <2>1, <2>2 DEF LoopEnd, R
<1> HIDE DEF E
<1>5. 0 \in T
  <2>1. R[0] = [ok |-> TRUE, path |-> E]
    BY <1>2 DEF Done
  <2>2. R[0].ok = TRUE /\ R[0].path = E
    BY <2>1
  <2>3. upTo(0) = <<>>
    <3>1. SubSeq(s, 1, 0) = <<>>
      BY SubSeqEmpty DEF Texts
    <3>2. LastSlash(<<>>) = 0
      BY EmptyText, LastSlashFact
    <3> QED BY Zenon, <3>1, <3>2
  <2> HIDE DEF upTo
  <2> QED BY <1>1, <1>3, <2>1, <2>2, <2>3
<1>6. \A i \in 1..Len(s) : i - 1 \in T => i \in T
  <2>0. ASSUME NEW i \in 1..Len(s), Copied(i - 1) => Copied(i) PROVE i - 1 \in T => i \in T
    <3> HIDE DEF Copied
    <3> QED BY <1>1, <2>0
  <2> SUFFICES ASSUME NEW i \in 1..Len(s), R[i - 1] = [ok |-> R[i - 1].ok, path |-> R[i - 1].path],
                      R[i - 1].ok = TRUE, PathOK(R[i - 1].path),
                      Text(R[i - 1].path) = upTo(i - 1)
               PROVE  /\ R[i] = [ok |-> R[i].ok, path |-> R[i].path]
                      /\ R[i].ok = TRUE /\ PathOK(R[i].path) /\ Text(R[i].path) = upTo(i)
    BY Zenon, <2>0
  <2>1. CASE s[i] # "/"
    <3>1. R[i] = R[i - 1]
      BY <1>2, <2>1
    <3>2. upTo(i) = upTo(i - 1)
      BY Zenon, <2>1, LastSlashGrows
    <3> HIDE DEF upTo
    <3> QED BY <3>1, <3>2
  <2>2. CASE s[i] = "/"
    <3> DEFINE P == R[i - 1].path
               part == PartEnding(s, i)
               b == SubSeq(s, 1, i - 1)
               r == TakePart(part, P)
    <3>1. R[i] = r
      BY <1>2, <2>2
    <3>2. i \in Slashes(s)
      BY <1>1, <2>2 DEF Slashes
    <3>3. b \in Texts /\ Len(b) = i - 1 /\ SubSeq(s, 1, i) = b \o <<"/">>
      BY <3>2, UpToSlash
    <3>4. part \in Texts /\ part \notin Dots /\ part = Tail0(b)
      <4>1. PlainDirs(s)
        BY PlainMeans
      <4>2. i \in 1..(Len(s) + 1)
        BY <1>1
      <4> QED BY <2>2, <4>1, <4>2, PartEndingType DEF PlainDirs, PartEnding
    <3>5. /\ SubSeq(b, 1, LastSlash(b)) \in Texts /\ b = SubSeq(b, 1, LastSlash(b)) \o part
          /\ Len(SubSeq(b, 1, LastSlash(b))) = LastSlash(b)
      BY Zenon, <3>3, <3>4, SplitText
    <3>6. upTo(i - 1) = SubSeq(b, 1, LastSlash(b))
      <4> DEFINE L == LastSlash(b)
                 c == SubSeq(s, 1, L)
                 e == SubSeq(b, 1, L)
                 k == i - 1
      <4>1. L \in 0..k /\ k \in 0..Len(s)
        <5>1. L \in 0..Len(b) /\ Len(b) = k
          BY Zenon, <3>3, LastSlashFact
        <5>2. k \in 0..Len(s)
          BY <1>1
        <5> HIDE DEF L, k, b
        <5> QED BY <5>1, <5>2
      <4>2. \A j \in 1..k : b[j] = s[j]
        <5> HIDE DEF k
        <5>1. \A j \in 1..k : SubSeq(s, 1, k)[j] = s[j]
          BY <4>1, Beginning DEF Texts
        <5> QED BY <5>1 DEF k
      <4>3. Len(b) = k
        BY <3>3
      <4> HIDE DEF L, k, b
      <4>4. c \in Texts /\ Len(c) = L /\ \A j \in 1..L : c[j] = s[j]
        <5>1. L \in 0..Len(s)
          BY <1>1, <4>1
        <5> QED BY <5>1, Beginning DEF Texts
      <4>5. e \in Texts /\ Len(e) = L /\ \A j \in 1..L : e[j] = b[j]
        <5>1. L \in 0..Len(b)
          BY <4>1, <4>3
        <5> QED BY <3>3, <5>1, Beginning DEF Texts
      <4> HIDE DEF c, e
      <4>6. c = e
        BY <1>1, <4>1, <4>2, <4>4, <4>5, SeqEqual DEF Texts
      <4> QED BY <4>6 DEF c, e, L, b, k
    <3>7. Text(P) = SubSeq(b, 1, LastSlash(b)) /\ PathOK(P) /\ P.WriteCur = LastSlash(b)
      <4>1. Text(P) = SubSeq(b, 1, LastSlash(b)) /\ PathOK(P)
        BY Zenon, <3>6
      <4>2. Len(Text(P)) = P.WriteCur
        BY Zenon, <4>1, TextFact
      <4> QED BY Zenon, <3>5, <4>1, <4>2
    <3>8. (Text(P) \o part) \o <<"/">> = SubSeq(s, 1, i)
      BY Zenon, <3>3, <3>5, <3>7
    <3>9. Len(part) + 1 <= Size - P.WriteCur
      <4>1. Len(part) = (i - 1) - LastSlash(b) /\ LastSlash(b) \in 0..(i - 1)
        BY <3>3, <3>4, TailFact, LastSlashFact
      <4> HIDE DEF P, part, b
      <4> QED BY <1>1, <3>7, <4>1, SizeType
    <3>10. part # <<".", ".">>
      BY <3>4 DEF Dots
    <3> HIDE DEF part, P, b
    <3>11. /\ r = [ok |-> r.ok, path |-> r.path] /\ r.ok \in BOOLEAN /\ PathOK(r.path)
           /\ r.ok => Text(r.path) = (Text(P) \o part) \o <<"/">>
           /\ r.ok
      BY <3>4, <3>7, <3>9, <3>10, TakePartFact
    <3>12. upTo(i) = SubSeq(s, 1, i)
      BY Zenon, <2>2, LastSlashGrows
    <3> HIDE DEF r, upTo
    <3> QED BY <3>1, <3>8, <3>11, <3>12
  <2> QED BY <2>1, <2>2
<1> HIDE DEF T
<1>7. \A i \in 0..Len(s) : i \in T
  BY <1>1, <1>5, <1>6, Rounds
<1>8. Len(s) \in T
  BY <1>1, <1>7
<1>9. /\ R[Len(s)].ok = TRUE /\ PathOK(R[Len(s)].path)
      /\ Text(R[Len(s)].path) = SubSeq(s, 1, LastSlash(s))
  <2>1. SubSeq(s, 1, Len(s)) = s
    BY SubSeqFull DEF Texts
  <2>2. /\ R[Len(s)].ok = TRUE /\ PathOK(R[Len(s)].path)
        /\ Text(R[Len(s)].path) = upTo(Len(s))
    BY <1>8 DEF T
  <2> QED BY Zenon, <2>1, <2>2
<1>10. /\ SubSeq(s, 1, LastSlash(s)) \in Texts /\ s = SubSeq(s, 1, LastSlash(s)) \o Tail0(s)
       /\ Len(SubSeq(s, 1, LastSlash(s))) = LastSlash(s)
  BY Zenon, SplitText
<1>11. Fits(Tail0(s), R[Len(s)].path)
  <2> DEFINE P == R[Len(s)].path
  <2>1. P.WriteCur = LastSlash(s)
    <3>1. Len(Text(P)) = P.WriteCur
      BY Zenon, <1>9, TextFact
    <3> QED BY Zenon, <1>9, <1>10, <3>1
  <2>2. Len(Tail0(s)) = Len(s) - LastSlash(s) /\ LastSlash(s) \in 0..Len(s)
    BY TailFact, LastSlashFact
  <2> HIDE DEF P
  <2>3. Len(Tail0(s)) <= Size - P.WriteCur
    BY <1>1, <2>1, <2>2, SizeType
  <2> QED BY <2>3 DEF Fits, P
<1> DEFINE r == AppendPath(s, E)
<1>12. r.ok
  <2> DEFINE last == LoopEnd(s, E)
             Q == [Put(Tail0(s), last.path) EXCEPT !.mem[Put(Tail0(s), last.path).WriteCur + 1] = NUL]
  <2>1. r = IF IsOpen(E) /\ ~Fits(<<"/">>, E) THEN [ok |-> FALSE, path |-> E]
            ELSE IF ~last.ok \/ ~Fits(Tail0(Rest(s, E)), last.path)
            THEN [ok |-> FALSE, path |-> [last.path EXCEPT !.WriteCur = E.WriteCur]]
            ELSE [ok |-> TRUE, path |->
                    [Put(Tail0(Rest(s, E)), last.path) EXCEPT
                        !.mem[Put(Tail0(Rest(s, E)), last.path).WriteCur + 1] = NUL]]
    BY AppendPathIs
  <2>2. ~IsOpen(E) /\ last.ok = TRUE /\ Fits(Tail0(Rest(s, E)), last.path)
    BY Zenon, <1>4, <1>9, <1>11
  <2>3. r = [ok |-> TRUE, path |->
                    [Put(Tail0(Rest(s, E)), last.path) EXCEPT
                        !.mem[Put(Tail0(Rest(s, E)), last.path).WriteCur + 1] = NUL]]
    BY Zenon, <2>1, <2>2
  <2> HIDE DEF r, last
  <2> QED BY <2>3
<1>13. Text(r.path) = Text(LoopEnd(s, E).path) \o Tail0(Rest(s, E))
  BY <1>3, <1>12, AppendOK
<1>14. Text(r.path) = s
  BY Zenon, <1>4, <1>9, <1>10, <1>13
<1> QED BY <1>14 DEF E

-----------------------------------------------------------------------------
(* MakeDir.                                                                 *)

\* A relative path of names that does not end with a slash
Straight(s) == ~Absolute(s) /\ ~Ended(s) /\ Plain(s)

(* The directories on the way to where a text leads are above it.           *)
LEMMA OnTheWay ==
    ASSUME NEW s \in Texts, PlainDirs(s), Tail0(s) \notin Dots, NEW i \in Slashes(s)
    PROVE  LET q == Names(SubSeq(s, 1, i - 1))
           IN  /\ q \in Seq(Texts) /\ Names(SubSeq(s, 1, i)) = q
               /\ q # <<>> => q \in Above(Names(s))
<1> DEFINE q == Entered(s)[i]
<1>1. /\ Names(SubSeq(s, 1, i)) = q /\ Names(SubSeq(s, 1, i - 1)) = q
      /\ i \in 1..Len(s)
  BY UpToSlash
<1>2. Begin(q, Names(s)) /\ Names(s) \in Seq(Texts)
  BY DirOnTheWay, NamesType
<1>3. q \in Seq(Texts)
  <2>1. i \in 0..Len(s)
    BY <1>1
  <2> QED BY <2>1, NamesType
<1> HIDE DEF q
<1>4. q # <<>> => q \in Above(Names(s))
  BY <1>2, <1>3, AboveFact
<1> QED BY <1>1, <1>3, <1>4

(* The slashes of the directory part of a text are slashes of the text.     *)
LEMMA DirSlashes ==
    ASSUME NEW s \in Texts, NEW i \in Slashes(DirPart(s))
    PROVE  i \in Slashes(s) /\ SubSeq(DirPart(s), 1, i) = SubSeq(s, 1, i)
<1> DEFINE d == DirPart(s)
<1>1. d \in Texts /\ Len(d) <= Len(s) /\ \A j \in 1..Len(d) : d[j] = s[j]
  BY NameOfText
<1> HIDE DEF d
<1>2. Len(d) \in Nat /\ Len(s) \in Nat /\ DOMAIN s = 1..Len(s)
  BY <1>1, LenProperties DEF Texts
<1>3. i \in 1..Len(d) /\ d[i] = "/"
  BY <1>1, UpToSlash DEF d
<1>4. i \in 0..Len(d) /\ i \in 0..Len(s) /\ i \in 1..Len(s)
  BY <1>1, <1>2, <1>3
<1>5. i \in Slashes(s)
  BY <1>1, <1>2, <1>3, <1>4 DEF Slashes
<1> DEFINE a == SubSeq(d, 1, i)
           b == SubSeq(s, 1, i)
<1>6. a \in Texts /\ Len(a) = i /\ \A j \in 1..i : a[j] = d[j]
  BY <1>1, <1>4, Beginning DEF Texts
<1>7. b \in Texts /\ Len(b) = i /\ \A j \in 1..i : b[j] = s[j]
  BY <1>4, Beginning DEF Texts
<1> HIDE DEF a, b
<1>8. \A j \in 1..i : a[j] = b[j]
  <2> TAKE j \in 1..i
  <2>1. j \in 1..Len(d)
    BY <1>3
  <2> QED BY <1>1, <1>6, <1>7, <2>1
<1>9. a = b
  <2>1. a \in Seq(Characters) /\ b \in Seq(Characters) /\ Len(a) = Len(b) /\ \A j \in 1..Len(a) : a[j] = b[j]
    BY <1>6, <1>7, <1>8 DEF Texts
  <2> QED BY <2>1, SeqEqual
<1> QED BY <1>5, <1>9 DEF a, b, d

(* mkdir of what exists: a directory, or a place where something is.        *)
LEMMA MkdirExists ==
    ASSUME TreeOK, NEW s \in Texts, MkdirResult(s) = "EEXIST"
    PROVE  IsDirectory(Names(s)) \/ Names(s) \in DOMAIN tree
<1> DEFINE t == Trimmed(s)
           d == DirPart(s)
           name == NamePart(s)
<1>1. Mkdir(s) = "EEXIST"
  BY Zenon DEF MkdirResult
<1>2. Reachable(d) /\ (name \in {<<>>, <<".">>, <<".", ".">>} \/ Names(s) \in DOMAIN tree)
  <2> DEFINE none == s = <<>> \/ ~Reachable(DirPart(s))
             there == NamePart(s) \in {<<>>, <<".">>, <<".", ".">>} \/ Names(s) \in DOMAIN tree
             full == Names(s) \notin Places
  <2>1. Mkdir(s) = IF none THEN "ENOENT" ELSE IF there THEN "EEXIST" ELSE IF full THEN "ENOSPC" ELSE "OK"
    BY Zenon DEF Mkdir
  <2>2. ~none /\ there
    <3> HIDE DEF none, there, full
    <3> QED BY <1>1, <2>1
  <2> QED BY Zenon, <2>2
<1>3. t \in Texts /\ Names(t) = Names(s)
  BY TrimmedFact
<1>4. d = SubSeq(t, 1, LastSlash(t)) /\ name = Tail0(t)
  BY Zenon DEF DirPart, NamePart, Tail0
<1>5. d \in Texts /\ Ended(d) /\ name \in Texts /\ SlashFree(name) /\ (d = <<>> \/ Len(d) \in Slashes(d))
  BY NameOfText
<1>6. Names(s) = Into(Names(d), name)
  <2>1. t = d \o name
    BY Zenon, <1>3, <1>4, SplitText
  <2>2. Names(d \o name) = Into(Names(d), name)
    BY Zenon, <1>5, NamesPart
  <2> QED BY Zenon, <1>3, <2>1, <2>2
<1>7. IsDirectory(Names(d))
  <2>1. CASE d = <<>>
    BY Zenon, <2>1, EmptyText DEF IsDirectory
  <2>2. CASE Len(d) \in Slashes(d)
    <3>1. IsDirectory(Names(SubSeq(d, 1, Len(d))))
      BY Zenon, <1>2, <2>2 DEF Reachable
    <3>2. SubSeq(d, 1, Len(d)) = d
      BY Zenon, <1>5, SubSeqFull DEF Texts
    <3> QED BY Zenon, <3>1, <3>2
  <2> QED BY Zenon, <1>5, <2>1, <2>2
<1> DEFINE q == Names(d)
<1>8. q \in Seq(Texts)
  BY Zenon, <1>5, NamesType
<1>9. IsDirectory(Front0(q))
  <2> HIDE DEF q
  <2>1. CASE q = <<>>
    <3>1. Front0(q) \in Seq(Texts) /\ Len(Front0(q)) = 0
      BY <1>8, <2>1 DEF Front0
    <3>2. Front0(q) = <<>>
      BY <3>1, EmptySeq
    <3> QED BY Zenon, <3>2 DEF IsDirectory
  <2>2. CASE q \in DOMAIN tree
    BY Zenon, <2>2 DEF TreeOK, Parent, Front0
  <2> QED BY Zenon, <1>7, <2>1, <2>2 DEF IsDirectory, q
<1>10. ASSUME name \in {<<>>, <<".">>, <<".", ".">>} PROVE IsDirectory(Names(s))
  <2> HIDE DEF name, d
  <2>1. Into(q, name) = q \/ Into(q, name) = Front0(q)
    BY <1>10 DEF Into
  <2> QED BY Zenon, <1>6, <1>7, <1>9, <2>1 DEF q
<1> QED BY Zenon, <1>2, <1>10

(* mkdir where every directory on the way is there and where there is space. *)
LEMMA MkdirReaches ==
    ASSUME NEW s \in Texts, s # <<>>, Reachable(DirPart(s)), Names(s) # <<>> => Names(s) \in Places
    PROVE  /\ MkdirResult(s) \in {"OK", "EEXIST"}
           /\ NamePart(s) \notin {<<>>, <<".">>, <<".", ".">>} /\ Names(s) \notin DOMAIN tree
                 => MkdirResult(s) = "OK"
<1> DEFINE none == s = <<>> \/ ~Reachable(DirPart(s))
           plain == NamePart(s) \notin {<<>>, <<".">>, <<".", ".">>}
           there == NamePart(s) \in {<<>>, <<".">>, <<".", ".">>} \/ Names(s) \in DOMAIN tree
           full == Names(s) \notin Places
<1>1. Mkdir(s) = IF none THEN "ENOENT" ELSE IF there THEN "EEXIST" ELSE IF full THEN "ENOSPC" ELSE "OK"
  BY Zenon DEF Mkdir
<1>2. plain => ~full
  <2> HAVE plain
  <2>1. Names(s) = Append(Names(DirPart(s)), NamePart(s)) /\ DirPart(s) \in Texts /\ NamePart(s) \in Texts
    BY Zenon, NameOfText
  <2>2. Names(DirPart(s)) \in Seq(Texts)
    BY Zenon, <2>1, NamesType
  <2>3. Append(Names(DirPart(s)), NamePart(s)) # <<>>
    <3> DEFINE a == Names(DirPart(s))
               y == NamePart(s)
    <3>1. a \in Seq(Texts) /\ y \in Texts
      BY Zenon, <2>1, <2>2
    <3> HIDE DEF a, y
    <3>2. Len(Append(a, y)) = Len(a) + 1 /\ Len(a) \in Nat
      BY <3>1, FrontOf
    <3>3. Len(Append(a, y)) # Len(<<>>)
      BY <3>2, EmptyText
    <3>4. Append(a, y) # <<>>
      BY Zenon, <3>3
    <3> QED BY Zenon, <3>4 DEF a, y
  <2> QED BY Zenon, <2>1, <2>3
<1>3. plain \/ there
  BY Zenon
<1>4. /\ Mkdir(s) \in {"OK", "EEXIST"}
      /\ plain /\ Names(s) \notin DOMAIN tree => Mkdir(s) = "OK"
  <2>1. ~none
    BY Zenon
  <2>2. plain /\ Names(s) \notin DOMAIN tree => ~there
    BY Zenon
  <2> HIDE DEF none, there, full, plain
  <2> QED BY <1>1, <1>2, <1>3, <2>1, <2>2
<1>5. MkdirResult(s) = Mkdir(s)
  <2>1. Mkdir(s) # "ENOENT"
    BY <1>4
  <2> QED BY Zenon, <2>1 DEF MkdirResult
<1> HIDE DEF plain
<1> QED BY Zenon, <1>4, <1>5 DEF plain

(* The first mkdir of a straight path succeeds, or a directory is missing.  *)
LEMMA MkdirStraight ==
    ASSUME NEW s \in Texts, Straight(s), Names(s) \in Places, Names(s) \notin DOMAIN tree,
           \A r \in Above(Names(s)) : r \in DOMAIN tree => tree[r] = "dir",
           DOMAIN tree \subseteq Places
    PROVE  /\ MkdirResult(s) \in {"OK", "ENOENT"}
           /\ Reachable(DirPart(s)) => MkdirResult(s) = "OK"
<1>1. s # <<>> /\ PlainDirs(s) /\ Tail0(s) \notin Dots /\ ~Ended(s)
  BY Zenon, PlainMeans DEF Straight, Ended
<1>2. NamePart(s) \notin {<<>>, <<".">>, <<".", ".">>}
  <2>1. NamePart(s) = Tail0(s)
    BY Zenon, <1>1, NameOfText
  <2>2. Tail0(s) # <<>>
    BY Zenon, <1>1, LastName
  <2> QED BY <1>1, <2>1, <2>2 DEF Dots
<1>3. Reachable(DirPart(s)) => MkdirResult(s) = "OK"
  BY Zenon, <1>1, <1>2, MkdirReaches
<1>4. ASSUME ~Reachable(DirPart(s)) PROVE MkdirResult(s) = "ENOENT"
  <2>1. Mkdir(s) = "ENOENT"
    BY Zenon, <1>4 DEF Mkdir
  <2>2. ASSUME NEW i \in Slashes(DirPart(s)), NEW q, q = Names(SubSeq(s, 1, i)),
               q \in DOMAIN tree, tree[q] # "dir"
        PROVE  FALSE
    <3>1. i \in Slashes(s)
      BY Zenon, <2>2, DirSlashes
    <3>2. q \in Places
      BY <2>2
    <3>3. q # <<>>
      BY Zenon, <3>2, PlaceFact
    <3>4. q \in Above(Names(s))
      BY Zenon, <1>1, <2>2, <3>1, <3>3, OnTheWay
    <3> QED BY Zenon, <2>2, <3>4
  <2>3. ~\E i \in Slashes(DirPart(s)) :
            LET q == Names(SubSeq(s, 1, i)) IN q \in DOMAIN tree /\ tree[q] # "dir"
    BY Zenon, <2>2
  <2>4. MkdirResult(s) = Mkdir(s)
    BY Zenon, <2>3 DEF MkdirResult
  <2> QED BY Zenon, <2>1, <2>4
<1> QED BY Zenon, <1>3, <1>4

MakingDir == pc \in {"mkdir", "mkdirs"}

(* While others have not been in the way: the target is not there yet, and
   what is on the way to it are directories.                                *)
WayFree ==
    MakingDir /\ ~hindered =>
        /\ Straight(arg) => Names(arg) \notin DOMAIN tree
        /\ \A r \in Above(Names(arg)) : r \in DOMAIN tree => tree[r] = "dir"

(* The loop is at a slash, and has made every directory up to there.        *)
Reached ==
    pc = "mkdirs" =>
        /\ at = 0 \/ at \in Slashes(work)
        /\ ~hindered /\ Straight(arg) =>
              \A i \in Slashes(work) : i <= at => IsDirectory(Names(SubSeq(work, 1, i)))

Narrow(s) == StaysBelow(<<>>, s) /\ NoEmptyPart(s) /\ Tail0(s) \notin Dots

\* The call has created nothing but directories on the way to the target.
OnlyWay ==
    MakingDir /\ alone /\ Narrow(arg) =>
        /\ \A q \in DOMAIN before : q \in DOMAIN tree /\ tree[q] = before[q]
        /\ \A q \in DOMAIN tree : q \notin DOMAIN before => q \in Above(Names(arg)) /\ tree[q] = "dir"

MakeInv == CallInv /\ WayFree /\ Reached /\ OnlyWay /\ MakeDirSucceeds

(* WorkPath: a straight path is as it was, and another one that stays below
   where it starts leads to the same place without "." and "..".            *)
LEMMA WorkFact ==
    ASSUME EditInv, CallOK, pc = "mkdirs"
    PROVE  /\ Straight(arg) => work = arg
           /\ Narrow(arg) => /\ PlainDirs(work) /\ Tail0(work) \notin Dots
                             /\ work = <<>> \/ Names(work) = Names(arg)
<1> DEFINE E == EmptyPath
           r == AppendPath(arg, E)
<1>1. arg \in Texts /\ Len(arg) <= Size /\ PathOK(E) /\ Text(E) = <<>> /\ E.WriteCur = 0
  BY EmptyPathOK DEF EditInv, EmptyPath
<1>2. work = Text(r.path)
  BY DEF CallOK, AppendArrayToPath
<1>3. Straight(arg) => work = arg
  BY <1>1, <1>2, PlainCopy DEF Straight
<1>4. Rest(arg, E) = arg
  BY <1>1 DEF Rest
<1> HIDE DEF E
<1>5. /\ r = [ok |-> r.ok, path |-> r.path] /\ r.ok \in BOOLEAN /\ PathOK(r.path)
      /\ ~r.ok => r.path = E \/ r.path.WriteCur = E.WriteCur
  BY <1>1, AppendOK
<1>6. ASSUME Narrow(arg), r.ok
      PROVE  PlainDirs(work) /\ Tail0(work) = Tail0(arg) /\ Names(work) = Names(arg)
  <2>1. StaysBelow(Text(E), arg) /\ Plain(Text(E)) /\ NoEmptyPart(arg)
    BY <1>1, <1>6 DEF Narrow, StaysBelow
  <2>2. NoEmptyPart(Text(E))
    BY <1>1, EmptyText DEF NoEmptyPart
  <2>3. Behind(Text(E), arg) = arg
    BY <1>1 DEF Behind
  <2> HIDE DEF r
  <2>4. /\ PlainDirs(Text(r.path)) /\ Names(Text(r.path)) = Names(Behind(Text(E), arg))
        /\ Tail0(Text(r.path)) = Tail0(Rest(arg, E))
    BY Zenon, <1>1, <1>6, <2>1, <2>2, AppendLeads DEF r
  <2> QED BY <1>2, <1>4, <2>3, <2>4
<1>7. ASSUME ~r.ok PROVE work = <<>>
  <2> HIDE DEF r
  <2>1. r.path.WriteCur = 0
    BY <1>1, <1>5, <1>7
  <2>2. work \in Texts /\ Len(work) = 0
    BY <1>2, <1>5, <2>1, TextFact
  <2> QED BY <2>2, EmptySeq DEF Texts
<1>8. PlainDirs(<<>>) /\ Tail0(<<>>) \notin Dots
  <2>1. Tail0(<<>>) = <<>>
    BY Zenon, EmptyText, NamesEnded
  <2> QED BY <2>1, EmptyText DEF Dots
<1> HIDE DEF r
<1> QED BY <1>3, <1>6, <1>7, <1>8 DEF Narrow

WayThere == \A q \in DOMAIN tree : \A p \in Above(q) : p \in DOMAIN tree /\ (p # q => tree[p] = "dir")

(* What is above something that is there is there, after a step, too.       *)
LEMMA WayIsThereNext == TreeOK' => WayThere'
<1>1. TreeOK => WayThere
  BY Zenon, WayIsThere DEF WayThere
<1> QED BY <1>1, PTL

(* A call that returns with the answer of a mkdir of the path itself.       *)
LEMMA MakeReturns ==
    ASSUME CallInv, OnlyWay, MakingDir, MkdirEffect(arg), Return("make", MkdirResult(arg) = "OK"),
           ~hindered /\ Names(arg) \in Places /\ Straight(arg) => MkdirResult(arg) = "OK"
    PROVE  MakeDirSucceeds'
<1> DEFINE target == Names(arg)
           ok == MkdirResult(arg) = "OK"
<1>1. answer' = [kind |-> "make", ok |-> ok] /\ arg' = arg
      /\ before' = before /\ alone' = alone /\ hindered' = hindered
  BY DEF Return, MkdirEffect, history
<1>2. answer'.ok = ok /\ answer'.kind = "make"
  BY <1>1
<1>3. arg \in Texts /\ TreeOK
  BY DEF CallInv, EditInv
<1>4. /\ TreeOK'
      /\ \A r \in DOMAIN tree : r \in DOMAIN tree' /\ tree'[r] = tree[r]
      /\ ok => /\ DOMAIN tree' = DOMAIN tree \cup {target}
               /\ tree'[target] = "dir"
  BY Zenon, <1>3, MkdirStep
<1>5. target \in Seq(Texts)
  BY Zenon, <1>3, NamesType
<1> HIDE DEF target
<1>6. ASSUME ok, alone, StaysBelow(<<>>, arg), NoEmptyPart(arg)
      PROVE  tree' = [q \in DOMAIN before \cup Above(target) |->
                        IF q \in DOMAIN before THEN before[q] ELSE "dir"]
  <2>1. /\ NamePart(arg) \notin {<<>>, <<".">>, <<".", ".">>} /\ target \in Places
        /\ target \notin DOMAIN tree
    BY Zenon, <1>3, <1>6, MkdirMeans DEF target
  <2>2. Tail0(arg) \notin Dots
    <3>1. CASE Ended(arg)
      <4>1. Tail0(arg) = <<>>
        BY <1>3, <3>1, NamesEnded
      <4> QED BY <4>1 DEF Dots
    <3>2. CASE ~Ended(arg)
      <4>1. Tail0(arg) = NamePart(arg)
        BY <1>3, <3>2, NameOfText
      <4> QED BY <2>1, <4>1 DEF Dots
    <3> QED BY <3>1, <3>2
  <2>3. /\ \A q \in DOMAIN before : q \in DOMAIN tree /\ tree[q] = before[q]
        /\ \A q \in DOMAIN tree : q \notin DOMAIN before => q \in Above(target) /\ tree[q] = "dir"
    BY Zenon, <1>6, <2>2 DEF OnlyWay, Narrow, target
  <2>4. target \in Above(target)
    <3>1. target # <<>>
      BY Zenon, <2>1, PlaceFact
    <3> QED BY <1>5, <3>1, AboveFact, BeginFact
  <2>5. \A p \in Above(target) : p \in DOMAIN tree' /\ (p # target => tree'[p] = "dir")
    <3>1. TreeOK' /\ target \in DOMAIN tree'
      BY <1>4, <1>6
    <3> QED BY Zenon, <3>1, WayIsThereNext DEF WayThere
  <2>6. DOMAIN tree' = DOMAIN before \cup Above(target)
    <3>1. DOMAIN tree' = DOMAIN tree \cup {target}
      BY <1>4, <1>6
    <3> QED BY <2>3, <2>4, <2>5, <3>1
  <2>7. \A q \in DOMAIN tree' : tree'[q] = IF q \in DOMAIN before THEN before[q] ELSE "dir"
    <3>1. DOMAIN tree' = DOMAIN tree \cup {target} /\ tree'[target] = "dir"
      BY <1>4, <1>6
    <3> QED BY <1>4, <2>1, <2>3, <3>1
  <2>8. tree' = [q \in DOMAIN tree' |-> tree'[q]]
    BY <1>4 DEF TreeOK
  <2> QED BY <2>6, <2>7, <2>8
<1>7. ASSUME Above(target) \subseteq Places, target # <<>> PROVE target \in Places
  <2>1. target \in Above(target)
    BY <1>5, <1>7, AboveFact, BeginFact
  <2> QED BY <1>7, <2>1
<1>8. ASSUME ~Absolute(arg), arg[Len(arg)] # "/", target # <<>>, Plain(arg) PROVE Straight(arg)
  <2>1. arg # <<>>
    BY <1>8, EmptyText DEF target
  <2> QED BY <1>8, <2>1 DEF Straight, Ended
<1>9. /\ ok => target \in DOMAIN tree' /\ tree'[target] = "dir"
      /\ ok /\ alone /\ StaysBelow(<<>>, arg) /\ NoEmptyPart(arg) =>
            tree' = [q \in DOMAIN before \cup Above(target) |->
                        IF q \in DOMAIN before THEN before[q] ELSE "dir"]
      /\ ~hindered /\ Above(target) \subseteq Places /\ ~Absolute(arg) /\ arg[Len(arg)] # "/"
            /\ target # <<>> /\ Plain(arg) => ok
  <2>1. ok => target \in DOMAIN tree' /\ tree'[target] = "dir"
    BY <1>4
  <2> QED BY Zenon, <2>1, <1>6, <1>7, <1>8 DEF target
<1>10. ok => IsDirectory(Names(arg))'
  BY Zenon, <1>1, <1>9 DEF IsDirectory, target
<1> QED
  BY Zenon, <1>1, <1>2, <1>9, <1>10 DEF MakeDirSucceeds, target

(* The directories on the way to a path of names are not where it leads.     *)
LEMMA NotTheTarget ==
    ASSUME NEW s \in Texts, s # <<>>, ~Ended(s), Plain(s), NEW i \in Slashes(s)
    PROVE  Names(SubSeq(s, 1, i - 1)) # Names(s)
<1> DEFINE L == LastSlash(s)
           u == SubSeq(s, 1, L)
           a == Entered(s)[i]
           b == Entered(s)[L]
<1>1. i \in 1..Len(s) /\ s[i] = "/" /\ Len(s) \in Nat /\ Names(SubSeq(s, 1, i - 1)) = a
  BY UpToSlash, LenProperties DEF Texts
<1>2. s # <<>> /\ ~Ended(s) /\ PlainDirs(s) /\ Tail0(s) \notin Dots
  BY PlainMeans
<1>3. Names(s) = Append(Names(u), Tail0(s)) /\ Tail0(s) \in Texts
  BY <1>2, LastName, TailFact
<1>4. L \in 0..Len(s) /\ (L # 0 => s[L] = "/") /\ \A j \in 1..Len(s) : j > L => s[j] # "/"
  BY LastSlashFact
<1> HIDE DEF L
<1>5. L \in i..Len(s) /\ L # 0 /\ i \in 0..Len(s) /\ L \in 1..Len(s)
  BY <1>1, <1>4
<1>6. L \in Slashes(s)
  <2>1. DOMAIN s = 1..Len(s)
    BY LenProperties DEF Texts
  <2> QED BY <1>4, <1>5, <2>1 DEF Slashes
<1>7. Names(u) = b
  BY <1>6, UpToSlash
<1>8. a \in Seq(Texts) /\ b \in Seq(Texts)
  BY <1>1, <1>4, <1>5, NamesType
<1>9. Len(a) <= Len(b)
  <2>1. Begin(a, b)
    BY <1>2, <1>5, EnteredGrows
  <2> QED BY <2>1 DEF Begin
<1> HIDE DEF a, b
<1>10. Len(Append(b, Tail0(s))) = Len(b) + 1 /\ Len(b) \in Nat /\ Len(a) \in Nat
  BY <1>3, <1>8, FrontOf, LenProperties
<1>11. Len(Append(b, Tail0(s))) # Len(a)
  BY <1>9, <1>10
<1>12. Append(b, Tail0(s)) # a
  BY Zenon, <1>11
<1> QED BY Zenon, <1>1, <1>3, <1>7, <1>12

(* The next directory of the loop: straight, mkdir makes it or finds it, if
   there is space; and it is on the way to the target.                      *)
LEMMA LoopRound ==
    ASSUME CallInv, WayFree, Reached, pc = "mkdirs", NextSlash # {}
    PROVE  LET slash == Min(NextSlash)
               dir == SubSeq(work, 1, slash - 1)
           IN  /\ dir \in Texts /\ slash \in Slashes(work) /\ slash > at
               /\ \A i \in Slashes(work) : i <= slash => i <= at \/ i = slash
               /\ Names(SubSeq(work, 1, slash)) = Names(dir)
               /\ Straight(arg) \/ Narrow(arg) => (Names(dir) # <<>> => Names(dir) \in Above(Names(arg)))
               /\ Straight(arg) => Names(dir) # Names(arg)
               /\ Straight(arg) /\ ~hindered =>
                     /\ MkdirResult(dir) = "EEXIST" => IsDirectory(Names(dir))
                     /\ Above(Names(arg)) \subseteq Places => MkdirResult(dir) \in {"OK", "EEXIST"}
<1> DEFINE slash == Min(NextSlash)
           dir == SubSeq(work, 1, slash - 1)
<1>1. EditInv /\ TreeOK /\ CallOK /\ work \in Texts /\ arg \in Texts
  BY DEF CallInv, CallOK, EditInv
<1>2. /\ slash \in Slashes(work) /\ slash \in 1..Len(work) /\ slash > at /\ dir \in Texts
      /\ \A i \in Slashes(work) : i > at => i >= slash
  BY Zenon, <1>1, NextDir
<1> HIDE DEF slash
<1>3. /\ Names(SubSeq(work, 1, slash)) = Names(dir)
      /\ dir \in Texts /\ Len(dir) = slash - 1
      /\ \A j \in 1..Len(work) : j <= slash - 1 => dir[j] = work[j]
  <2>1. /\ Names(SubSeq(work, 1, slash)) = Entered(work)[slash] /\ Names(dir) = Entered(work)[slash]
        /\ dir \in Texts /\ Len(dir) = slash - 1
    BY Zenon, <1>1, <1>2, UpToSlash
  <2>2. \A j \in 1..Len(work) : j <= slash - 1 => dir[j] = work[j]
    <3>1. work \in Texts /\ slash \in Slashes(work)
      BY <1>1, <1>2
    <3> QED BY <3>1, UpToSlash
  <2> QED BY Zenon, <2>1, <2>2
<1>4. \A i \in Slashes(work) : i \in 1..Len(work)
  BY Zenon, <1>1, UpToSlash
<1>5. at \in Nat /\ Len(work) \in Nat
  BY <1>1, LenProperties DEF CallOK, Texts
<1>6. \A i \in Slashes(work) : i <= slash => i <= at \/ i = slash
  <2> TAKE i \in Slashes(work)
  <2>1. i \in 1..Len(work) /\ (i > at => i >= slash)
    BY <1>2, <1>4
  <2> QED BY <1>2, <1>5, <2>1
<1>7. /\ Straight(arg) => work = arg /\ PlainDirs(work) /\ Tail0(work) \notin Dots
      /\ Narrow(arg) => PlainDirs(work) /\ Tail0(work) \notin Dots /\ Names(work) = Names(arg)
  <2>1. work # <<>>
    <3>1. Len(work) # Len(<<>>)
      BY <1>2, <1>5, EmptyText
    <3> QED BY Zenon, <3>1
  <2> QED BY Zenon, <1>1, <2>1, WorkFact, PlainMeans DEF Straight
<1>8. ASSUME Straight(arg) \/ Narrow(arg), Names(dir) # <<>> PROVE Names(dir) \in Above(Names(arg))
  <2>1. PlainDirs(work) /\ Tail0(work) \notin Dots /\ Names(work) = Names(arg)
    BY Zenon, <1>7, <1>8
  <2> QED BY Zenon, <1>1, <1>2, <1>8, <2>1, OnTheWay
<1>9. Straight(arg) => Names(dir) # Names(arg)
  <2> HAVE Straight(arg)
  <2>1. arg # <<>> /\ ~Ended(arg) /\ Plain(arg)
    BY DEF Straight, Ended
  <2> QED BY Zenon, <1>1, <1>2, <1>7, <2>1, NotTheTarget
<1>10. ASSUME Straight(arg), ~hindered, MkdirResult(dir) = "EEXIST" PROVE IsDirectory(Names(dir))
  <2>1. IsDirectory(Names(dir)) \/ Names(dir) \in DOMAIN tree
    BY Zenon, <1>1, <1>3, <1>10, MkdirExists
  <2>2. ASSUME Names(dir) \in DOMAIN tree PROVE IsDirectory(Names(dir))
    <3>1. Names(dir) \in Places
      BY <1>1, <2>2 DEF TreeOK
    <3>2. Names(dir) # <<>>
      BY Zenon, <3>1, PlaceFact
    <3>3. Names(dir) \in Above(Names(arg))
      BY Zenon, <1>8, <1>10, <3>2
    <3>4. tree[Names(dir)] = "dir"
      <4>1. MakingDir
        BY DEF MakingDir
      <4> QED BY Zenon, <1>10, <2>2, <3>3, <4>1 DEF WayFree
    <3> QED BY Zenon, <2>2, <3>4 DEF IsDirectory
  <2> QED BY Zenon, <2>1, <2>2
<1>11. ASSUME Straight(arg), ~hindered, Above(Names(arg)) \subseteq Places
       PROVE  MkdirResult(dir) \in {"OK", "EEXIST"}
  <2>1. dir # <<>>
    <3>1. ~Absolute(work)
      BY <1>7, <1>11 DEF Straight
    <3>2. slash # 1
      <4>1. work[slash] = "/"
        BY <1>2 DEF Slashes
      <4>2. work # <<>>
        <5>1. Len(work) # Len(<<>>)
          BY <1>2, <1>5, EmptyText
        <5> QED BY Zenon, <5>1
      <4> QED BY <3>1, <4>1, <4>2 DEF Absolute
    <3>3. Len(dir) # Len(<<>>)
      <4> HIDE DEF dir
      <4> QED BY <1>2, <1>3, <1>5, <3>2, EmptyText
    <3> QED BY Zenon, <3>3
  <2>2. Names(dir) # <<>> => Names(dir) \in Places
    BY <1>8, <1>11
  <2>3. Reachable(DirPart(dir))
    <3> SUFFICES ASSUME NEW i \in Slashes(DirPart(dir))
                 PROVE  IsDirectory(Names(SubSeq(DirPart(dir), 1, i)))
      BY Zenon DEF Reachable
    <3>1. i \in Slashes(dir) /\ SubSeq(DirPart(dir), 1, i) = SubSeq(dir, 1, i)
      BY Zenon, <1>3, DirSlashes
    <3>2. i \in 1..Len(dir) /\ dir[i] = "/"
      BY Zenon, <1>3, <3>1, UpToSlash
    <3> HIDE DEF dir
    <3>3. i \in 1..Len(work) /\ i <= slash - 1 /\ i <= slash /\ i # slash
      BY <1>2, <1>3, <1>5, <3>2
    <3>4. i \in Slashes(work)
      <4>1. DOMAIN work = 1..Len(work)
        BY <1>1, LenProperties DEF Texts
      <4> QED BY <1>3, <3>2, <3>3, <4>1 DEF Slashes
    <3>5. i <= at
      BY <1>6, <3>3, <3>4
    <3>6. IsDirectory(Names(SubSeq(work, 1, i)))
      BY Zenon, <1>11, <3>4, <3>5 DEF Reached
    <3>7. SubSeq(dir, 1, i) = SubSeq(work, 1, i)
      <4> DEFINE a == SubSeq(dir, 1, i)
                 b == SubSeq(work, 1, i)
      <4>1. i \in 0..Len(dir) /\ i \in 0..Len(work)
        BY <1>5, <3>2, <3>3
      <4>2. a \in Texts /\ Len(a) = i /\ \A j \in 1..i : a[j] = dir[j]
        BY <1>3, <4>1, Beginning DEF Texts
      <4>3. b \in Texts /\ Len(b) = i /\ \A j \in 1..i : b[j] = work[j]
        BY <1>1, <4>1, Beginning DEF Texts
      <4> HIDE DEF a, b
      <4>4. \A j \in 1..i : a[j] = b[j]
        <5> TAKE j \in 1..i
        <5>1. j \in 1..Len(work) /\ j <= slash - 1
          BY <1>2, <1>5, <3>3
        <5> QED BY <1>3, <4>2, <4>3, <5>1
      <4>5. a \in Seq(Characters) /\ b \in Seq(Characters) /\ Len(a) = Len(b) /\ \A j \in 1..Len(a) : a[j] = b[j]
        BY <4>2, <4>3, <4>4 DEF Texts
      <4>6. a = b
        BY <4>5, SeqEqual
      <4> QED BY <4>6 DEF a, b
    <3> QED BY Zenon, <3>1, <3>6, <3>7
  <2> QED BY Zenon, <1>3, <2>1, <2>2, <2>3, MkdirReaches
<1> QED
  BY Zenon, <1>2, <1>3, <1>6, <1>8, <1>9, <1>10, <1>11 DEF slash

(* The invariant of MakeDir, without that of the calls, after a step.       *)
MadeRight == WayFree /\ Reached /\ OnlyWay /\ MakeDirSucceeds

(* Where no MakeDir runs there is only its answer.                          *)
LEMMA NotMaking ==
    ASSUME pc' \notin {"mkdir", "mkdirs"}, MakeDirSucceeds'
    PROVE  MadeRight'
<1>1. pc' # "mkdirs" /\ ~MakingDir'
  BY DEF MakingDir
<1>2. WayFree' /\ OnlyWay'
  BY Zenon, <1>1 DEF WayFree, OnlyWay
<1>3. Reached'
  BY Zenon, <1>1 DEF Reached
<1> QED BY Zenon, <1>2, <1>3 DEF MadeRight

(* MakeDir is called.                                                       *)
LEMMA MakeCalled ==
    ASSUME MakeInv, MakeDirCall
    PROVE  MadeRight'
<1>1. /\ pc' = "mkdir" /\ answer' = NoAnswer /\ UNCHANGED <<tree, arg>>
      /\ before' = tree /\ hindered' = InTheWay(Names(arg))
  BY DEF MakeDirCall, Call
<1>2. MakeDirSucceeds'
  <2>1. answer'.kind # "make"
    BY <1>1 DEF NoAnswer
  <2> QED BY Zenon, <2>1 DEF MakeDirSucceeds
<1>3. WayFree'
  <2>1. ASSUME ~InTheWay(Names(arg))
        PROVE  Names(arg) \notin DOMAIN tree /\ \A r \in Above(Names(arg)) : r \in DOMAIN tree => tree[r] = "dir"
    BY Zenon, <2>1 DEF InTheWay
  <2> QED BY Zenon, <1>1, <2>1 DEF WayFree
<1>4. Reached'
  <2>1. pc' # "mkdirs"
    BY <1>1
  <2> QED BY Zenon, <2>1 DEF Reached
<1>5. OnlyWay'
  BY Zenon, <1>1 DEF OnlyWay
<1> QED BY Zenon, <1>2, <1>3, <1>4, <1>5 DEF MadeRight

(* The first mkdir: it settles the matter, or a directory is missing.       *)
LEMMA MakeFirst ==
    ASSUME MakeInv, MakeDirFirst
    PROVE  MadeRight'
<1>1. /\ pc = "mkdir" /\ MkdirEffect(arg) /\ MakingDir
      /\ IF MkdirResult(arg) # "ENOENT" THEN Return("make", MkdirResult(arg) = "OK")
         ELSE pc' = "mkdirs" /\ UNCHANGED <<arg, at, answer>>
  BY DEF MakeDirFirst, MakingDir
<1>2. CallInv /\ OnlyWay /\ WayFree /\ arg \in Texts /\ TreeOK /\ CallOK
  BY DEF MakeInv, CallInv, EditInv
<1>3. CASE MkdirResult(arg) # "ENOENT"
  <2>1. Return("make", MkdirResult(arg) = "OK")
    BY Zenon, <1>1, <1>3
  <2>2. ASSUME ~hindered, Names(arg) \in Places, Straight(arg) PROVE MkdirResult(arg) = "OK"
    <3>1. /\ Names(arg) \notin DOMAIN tree
          /\ \A r \in Above(Names(arg)) : r \in DOMAIN tree => tree[r] = "dir"
      BY Zenon, <1>1, <1>2, <2>2 DEF WayFree
    <3>2. DOMAIN tree \subseteq Places
      BY <1>2 DEF TreeOK
    <3>3. MkdirResult(arg) \in {"OK", "ENOENT"}
      BY Zenon, <1>2, <2>2, <3>1, <3>2, MkdirStraight
    <3> QED BY Zenon, <1>3, <3>3
  <2>3. MakeDirSucceeds'
    BY Zenon, <1>1, <1>2, <2>1, <2>2, MakeReturns
  <2>4. pc' \notin {"mkdir", "mkdirs"}
    BY <2>1 DEF Return
  <2> QED BY Zenon, <2>3, <2>4, NotMaking
<1>4. CASE MkdirResult(arg) = "ENOENT"
  <2>1. pc' = "mkdirs" /\ UNCHANGED <<arg, at, answer>>
    BY Zenon, <1>1, <1>4
  <2>2. UNCHANGED <<tree, before, alone, hindered>>
    <3>1. MkdirResult(arg) # "OK"
      BY <1>4
    <3> QED BY Zenon, <1>1, <3>1 DEF MkdirEffect, history
  <2>3. MakeDirSucceeds'
    <3>1. answer'.kind # "make"
      BY <1>1, <1>2, <2>1 DEF CallOK
    <3> QED BY Zenon, <3>1 DEF MakeDirSucceeds
  <2>4. at = 0 /\ at' = 0
    BY <1>1, <1>2, <2>1 DEF CallOK
  <2>5. MakingDir'
    BY <2>1 DEF MakingDir
  <2>6. WayFree'
    BY Zenon, <1>1, <1>2, <2>1, <2>2, <2>5 DEF WayFree
  <2>7. OnlyWay'
    BY Zenon, <1>1, <1>2, <2>1, <2>2, <2>5 DEF OnlyWay
  <2>8. Reached'
    <3> DEFINE w == work'
    <3>1. MakeDirFirst => w \in Texts
      <4>1. w = Text(AppendArrayToPath(arg, EmptyPath).path)
        BY Zenon, <1>4 DEF MakeDirFirst
      <4> QED BY <1>2, <4>1, EmptyPathOK, AppendOK, TextFact DEF AppendArrayToPath
    <3>2. \A i \in Slashes(w) : ~(i <= 0)
      <4> SUFFICES ASSUME NEW i \in Slashes(w) PROVE ~(i <= 0)
        OBVIOUS
      <4>1. i \in 1..Len(w) /\ Len(w) \in Nat
        BY <3>1, UpToSlash, LenProperties DEF Texts
      <4> HIDE DEF w
      <4> QED BY <4>1
    <3> QED BY Zenon, <2>4, <3>2 DEF Reached
  <2> QED BY Zenon, <2>3, <2>6, <2>7, <2>8 DEF MadeRight
<1> QED BY <1>3, <1>4

(* A round of the loop: the directory is there, or nothing was promised.    *)
LEMMA MakeNext ==
    ASSUME MakeInv, MakeDirNext
    PROVE  MadeRight'
<1> DEFINE slash == Min(NextSlash)
           dir == SubSeq(work, 1, slash - 1)
           target == Names(arg)
<1>1. /\ pc = "mkdirs" /\ NextSlash # {} /\ MkdirEffect(dir)
      /\ \/ GivesUp(MkdirResult(dir)) /\ Return("make", FALSE)
         \/ ~GivesUp(MkdirResult(dir)) /\ at' = slash /\ UNCHANGED <<arg, pc, work, answer>>
  BY Zenon DEF MakeDirNext
<1>2. CallInv /\ OnlyWay /\ WayFree /\ Reached /\ TreeOK /\ CallOK /\ MakingDir
  BY <1>1 DEF MakeInv, CallInv, MakingDir
<1>3. /\ dir \in Texts /\ slash \in Slashes(work) /\ slash > at
      /\ \A i \in Slashes(work) : i <= slash => i <= at \/ i = slash
      /\ Names(SubSeq(work, 1, slash)) = Names(dir)
      /\ Straight(arg) \/ Narrow(arg) => (Names(dir) # <<>> => Names(dir) \in Above(target))
      /\ Straight(arg) => Names(dir) # target
      /\ Straight(arg) /\ ~hindered =>
            /\ MkdirResult(dir) = "EEXIST" => IsDirectory(Names(dir))
            /\ Above(target) \subseteq Places => MkdirResult(dir) \in {"OK", "EEXIST"}
  BY Zenon, <1>1, <1>2, LoopRound
<1> HIDE DEF slash, dir, target
<1>4. UNCHANGED <<before, alone, hindered>>
  BY Zenon, <1>1 DEF MkdirEffect, history
<1>5. CASE GivesUp(MkdirResult(dir)) /\ Return("make", FALSE)
  <2>1. answer' = [kind |-> "make", ok |-> FALSE] /\ arg' = arg /\ pc' = "idle"
    BY <1>5 DEF Return
  <2>2. answer'.ok = FALSE
    BY <2>1
  <2>3. ~(Straight(arg) /\ ~hindered /\ Above(target) \subseteq Places)
    BY Zenon, <1>3, <1>5 DEF GivesUp
  <2>4. target # <<>> /\ ~Absolute(arg) /\ arg[Len(arg)] # "/" /\ Plain(arg) => Straight(arg)
    BY EmptyText DEF Straight, Ended, target
  <2>5. MakeDirSucceeds'
    BY Zenon, <1>4, <2>1, <2>2, <2>3, <2>4 DEF MakeDirSucceeds, target
  <2>6. pc' \notin {"mkdir", "mkdirs"}
    BY <2>1
  <2> QED BY Zenon, <2>5, <2>6, NotMaking
<1>6. CASE ~GivesUp(MkdirResult(dir)) /\ at' = slash /\ UNCHANGED <<arg, pc, work, answer>>
  <2>1. /\ \A r \in DOMAIN tree : r \in DOMAIN tree' /\ tree'[r] = tree[r]
        /\ \A r : IsDirectory(r) => IsDirectory(r)'
        /\ MkdirResult(dir) # "OK" => tree' = tree
        /\ MkdirResult(dir) = "OK" =>
              /\ DOMAIN tree' = DOMAIN tree \cup {Names(dir)}
              /\ tree'[Names(dir)] = "dir"
    BY Zenon, <1>1, <1>2, <1>3, MkdirStep
  <2>2. MkdirResult(dir) = "OK" => Names(dir) # <<>> /\ Names(dir) \notin DOMAIN tree
    BY Zenon, <1>3, MkdirMeans, PlaceFact
  <2>3. MakeDirSucceeds'
    <3>1. answer'.kind # "make"
      BY <1>1, <1>2, <1>6 DEF CallOK
    <3> QED BY Zenon, <3>1 DEF MakeDirSucceeds
  <2>4. \A r \in DOMAIN tree' : r \in DOMAIN tree \/ (r = Names(dir) /\ tree'[r] = "dir" /\ MkdirResult(dir) = "OK")
    BY <2>1
  <2>5. WayFree'
    <3> SUFFICES ASSUME ~hindered
                 PROVE  /\ Straight(arg) => target \notin DOMAIN tree'
                        /\ \A r \in Above(target) : r \in DOMAIN tree' => tree'[r] = "dir"
      BY Zenon, <1>4, <1>6 DEF WayFree, target
    <3>1. /\ Straight(arg) => target \notin DOMAIN tree
          /\ \A r \in Above(target) : r \in DOMAIN tree => tree[r] = "dir"
      BY Zenon, <1>2 DEF WayFree, target
    <3> QED BY Zenon, <1>3, <2>1, <2>4, <3>1
  <2>6. OnlyWay'
    <3> SUFFICES ASSUME alone, Narrow(arg)
                 PROVE  /\ \A q \in DOMAIN before : q \in DOMAIN tree' /\ tree'[q] = before[q]
                        /\ \A q \in DOMAIN tree' : q \notin DOMAIN before =>
                              q \in Above(target) /\ tree'[q] = "dir"
      BY Zenon, <1>4, <1>6 DEF OnlyWay, target
    <3>1. /\ \A q \in DOMAIN before : q \in DOMAIN tree /\ tree[q] = before[q]
          /\ \A q \in DOMAIN tree : q \notin DOMAIN before => q \in Above(target) /\ tree[q] = "dir"
      BY Zenon, <1>2 DEF OnlyWay, target
    <3>2. \A q \in DOMAIN before : q \in DOMAIN tree' /\ tree'[q] = before[q]
      BY Zenon, <2>1, <3>1
    <3>3. \A q \in DOMAIN tree' : q \notin DOMAIN before => q \in Above(target) /\ tree'[q] = "dir"
      BY Zenon, <1>3, <2>1, <2>2, <2>4, <3>1
    <3> QED BY Zenon, <3>2, <3>3
  <2>7. Reached'
    <3>1. at' \in Slashes(work')
      BY <1>3, <1>6
    <3>2. ASSUME ~hindered, Straight(arg), NEW i \in Slashes(work), i <= slash
          PROVE  Names(SubSeq(work, 1, i)) = <<>> \/ (/\ Names(SubSeq(work, 1, i)) \in DOMAIN tree'
                                                      /\ tree'[Names(SubSeq(work, 1, i))] = "dir")
      <4>1. CASE i <= at
        <5>1. IsDirectory(Names(SubSeq(work, 1, i)))
          BY Zenon, <1>1, <1>2, <3>2, <4>1 DEF Reached
        <5> QED BY Zenon, <2>1, <5>1 DEF IsDirectory
      <4>2. CASE i = slash
        <5>1. MkdirResult(dir) = "OK" \/ MkdirResult(dir) = "EEXIST"
          BY <1>6 DEF GivesUp
        <5>2. CASE MkdirResult(dir) = "OK"
          <6>1. Names(dir) \in DOMAIN tree' /\ tree'[Names(dir)] = "dir"
            BY <2>1, <5>2
          <6> QED BY Zenon, <1>3, <4>2, <6>1
        <5>3. CASE MkdirResult(dir) = "EEXIST"
          <6>1. IsDirectory(Names(dir))
            BY Zenon, <1>3, <3>2, <5>3
          <6>2. Names(dir) = <<>> \/ (Names(dir) \in DOMAIN tree' /\ tree'[Names(dir)] = "dir")
            BY Zenon, <2>1, <6>1 DEF IsDirectory
          <6> QED BY Zenon, <1>3, <4>2, <6>2
        <5> QED BY <5>1, <5>2, <5>3
      <4> QED BY Zenon, <1>3, <3>2, <4>1, <4>2
    <3>3. work' = work /\ arg' = arg /\ hindered' = hindered /\ at' = slash
      BY <1>4, <1>6
    <3> QED BY Zenon, <3>1, <3>2, <3>3 DEF Reached, IsDirectory
  <2> QED BY Zenon, <2>3, <2>5, <2>6, <2>7 DEF MadeRight
<1> QED BY Zenon, <1>1, <1>5, <1>6

(* Behind the loop: the path itself, or nothing if it ends with a slash.    *)
LEMMA MakeLast ==
    ASSUME MakeInv, MakeDirLast
    PROVE  MadeRight'
<1> DEFINE target == Names(arg)
<1>1. /\ pc = "mkdirs" /\ NextSlash = {} /\ MakingDir
      /\ IF at < Len(work) THEN MkdirEffect(arg) /\ Return("make", MkdirResult(arg) = "OK")
         ELSE UNCHANGED fsvars /\ Return("make", FALSE)
  BY DEF MakeDirLast, MakingDir
<1>2. CallInv /\ OnlyWay /\ WayFree /\ Reached /\ TreeOK /\ CallOK /\ EditInv /\ arg \in Texts
  BY DEF MakeInv, CallInv, EditInv
<1>3. pc' \notin {"mkdir", "mkdirs"}
  <2>1. pc' = "idle"
    BY Zenon, <1>1 DEF Return
  <2> QED BY <2>1
<1>4. CASE at < Len(work)
  <2>1. MkdirEffect(arg) /\ Return("make", MkdirResult(arg) = "OK")
    BY Zenon, <1>1, <1>4
  <2>2. ASSUME ~hindered, target \in Places, Straight(arg) PROVE MkdirResult(arg) = "OK"
    <3>1. work = arg
      BY Zenon, <1>1, <1>2, <2>2, WorkFact
    <3>2. Reachable(DirPart(arg))
      <4> SUFFICES ASSUME NEW i \in Slashes(DirPart(arg))
                   PROVE  IsDirectory(Names(SubSeq(DirPart(arg), 1, i)))
        BY Zenon DEF Reachable
      <4>1. i \in Slashes(work) /\ SubSeq(DirPart(arg), 1, i) = SubSeq(work, 1, i)
        BY Zenon, <1>2, <3>1, DirSlashes
      <4>2. ~(i > at)
        BY <1>1, <4>1 DEF NextSlash
      <4>3. i \in Nat /\ at \in Nat
        BY <1>2, <4>1, UpToSlash DEF CallOK
      <4>4. i <= at
        BY <4>2, <4>3
      <4> QED BY Zenon, <1>1, <1>2, <2>2, <4>1, <4>4 DEF Reached
    <3>3. /\ target \notin DOMAIN tree
          /\ \A r \in Above(target) : r \in DOMAIN tree => tree[r] = "dir"
      BY Zenon, <1>1, <1>2, <2>2 DEF WayFree
    <3>4. DOMAIN tree \subseteq Places
      BY <1>2 DEF TreeOK
    <3> QED BY Zenon, <1>2, <2>2, <3>2, <3>3, <3>4, MkdirStraight
  <2>3. MakeDirSucceeds'
    BY Zenon, <1>1, <1>2, <2>1, <2>2, MakeReturns
  <2> QED BY Zenon, <1>3, <2>3, NotMaking
<1>5. CASE ~(at < Len(work))
  <2>1. answer' = [kind |-> "make", ok |-> FALSE] /\ arg' = arg /\ UNCHANGED fsvars
    BY <1>1, <1>5 DEF Return
  <2>2. answer'.ok = FALSE /\ hindered' = hindered
    BY <2>1 DEF fsvars, history
  <2>3. ~Straight(arg)
    <3> SUFFICES ASSUME Straight(arg) PROVE FALSE
      OBVIOUS
    <3>1. work = arg
      BY Zenon, <1>1, <1>2, WorkFact
    <3>2. at \in Nat /\ at <= Len(work) /\ (at = 0 \/ at \in Slashes(work)) /\ Len(work) \in Nat
      BY <1>1, <1>2, LenProperties DEF CallOK, Reached, Texts
    <3>3. at = Len(work)
      BY <1>5, <3>2
    <3>4. at # 0
      <4>1. work # <<>>
        BY Zenon, <3>1 DEF Straight, Ended
      <4> QED BY <1>2, <3>3, <4>1, EmptySeq DEF CallOK, Texts
    <3>5. work[Len(work)] = "/"
      BY <3>2, <3>3, <3>4 DEF Slashes
    <3> QED BY Zenon, <3>1, <3>5 DEF Straight, Ended
  <2>4. target # <<>> /\ ~Absolute(arg) /\ arg[Len(arg)] # "/" /\ Plain(arg) => Straight(arg)
    BY EmptyText DEF Straight, Ended
  <2>5. MakeDirSucceeds'
    BY Zenon, <2>1, <2>2, <2>3, <2>4 DEF MakeDirSucceeds
  <2> QED BY Zenon, <1>3, <2>5, NotMaking
<1> QED BY <1>4, <1>5

(* Another process: what it does to the target or on the way hinders.       *)
LEMMA MakeOthers ==
    ASSUME MakeInv, Others
    PROVE  MadeRight'
<1> DEFINE target == Names(arg)
<1>1. /\ before' = <<>> /\ alone' = FALSE /\ UNCHANGED <<arg, pc, work, at, answer>>
      /\ \E q \in Places :
            \/ /\ q \notin DOMAIN tree /\ IsDirectory(Parent(q))
               /\ \E kind \in {"dir", "file"} :
                     tree' = With(q, kind) /\ hindered' = (hindered \/ kind = "file" \/ q = target)
            \/ Children(q) = {} /\ tree' = Without(q) /\ hindered' = TRUE
  BY DEF Others, call
<1>2. WayFree /\ Reached /\ TreeOK /\ MakeDirSucceeds
  BY DEF MakeInv, CallInv
<1>3. ASSUME ~hindered'
      PROVE  /\ ~hindered
             /\ \A r : IsDirectory(r) => r = <<>> \/ (r \in DOMAIN tree' /\ tree'[r] = "dir")
             /\ target \in DOMAIN tree' => target \in DOMAIN tree
             /\ \A r \in DOMAIN tree' : (r \in DOMAIN tree /\ tree'[r] = tree[r]) \/ tree'[r] = "dir"
  <2>1. PICK q \in Places : /\ q \notin DOMAIN tree /\ IsDirectory(Parent(q))
                            /\ \E kind \in {"dir", "file"} :
                                  tree' = With(q, kind) /\ hindered' = (hindered \/ kind = "file" \/ q = target)
    BY <1>1, <1>3
  <2>2. PICK kind \in {"dir", "file"} :
           tree' = With(q, kind) /\ hindered' = (hindered \/ kind = "file" \/ q = target)
    BY <2>1
  <2>3. ~hindered /\ kind # "file" /\ q # target
    BY Zenon, <1>3, <2>2
  <2>4. kind = "dir"
    BY <2>3
  <2>5. /\ DOMAIN tree' = DOMAIN tree \cup {q} /\ tree'[q] = kind
        /\ \A r \in DOMAIN tree : tree'[r] = tree[r]
    BY Zenon, <1>2, <2>1, <2>2, TreeGrows
  <2>6. \A r : IsDirectory(r) => r = <<>> \/ (r \in DOMAIN tree' /\ tree'[r] = "dir")
    <3>1. \A r \in DOMAIN tree : r \in DOMAIN tree' /\ tree'[r] = tree[r]
      BY <2>5
    <3>2. ASSUME NEW r, IsDirectory(r) PROVE r = <<>> \/ (r \in DOMAIN tree' /\ tree'[r] = "dir")
      <4>1. r = <<>> \/ (r \in DOMAIN tree /\ tree[r] = "dir")
        BY Zenon, <3>2 DEF IsDirectory
      <4> QED BY <3>1, <4>1
    <3> QED BY Zenon, <3>2
  <2>7. target \in DOMAIN tree' => target \in DOMAIN tree
    BY <2>3, <2>5
  <2>8. \A r \in DOMAIN tree' : (r \in DOMAIN tree /\ tree'[r] = tree[r]) \/ tree'[r] = "dir"
    BY <2>4, <2>5
  <2> QED BY Zenon, <2>3, <2>6, <2>7, <2>8
<1> HIDE DEF target
<1>4. WayFree'
  <2> SUFFICES ASSUME MakingDir, ~hindered'
               PROVE  /\ Straight(arg) => target \notin DOMAIN tree'
                      /\ \A r \in Above(target) : r \in DOMAIN tree' => tree'[r] = "dir"
    BY Zenon, <1>1 DEF WayFree, MakingDir, target
  <2>1. /\ Straight(arg) => target \notin DOMAIN tree
        /\ \A r \in Above(target) : r \in DOMAIN tree => tree[r] = "dir"
    BY Zenon, <1>2, <1>3 DEF WayFree, target
  <2> QED BY Zenon, <1>3, <2>1
<1>5. Reached'
  <2>1. ASSUME pc = "mkdirs", ~hindered', Straight(arg), NEW i \in Slashes(work), i <= at
        PROVE  Names(SubSeq(work, 1, i)) = <<>> \/ (/\ Names(SubSeq(work, 1, i)) \in DOMAIN tree'
                                                    /\ tree'[Names(SubSeq(work, 1, i))] = "dir")
    <3>1. IsDirectory(Names(SubSeq(work, 1, i)))
      BY Zenon, <1>2, <1>3, <2>1 DEF Reached
    <3> QED BY Zenon, <1>3, <2>1, <3>1
  <2>2. pc = "mkdirs" => at = 0 \/ at \in Slashes(work)
    BY Zenon, <1>2 DEF Reached
  <2> QED BY Zenon, <1>1, <2>1, <2>2 DEF Reached, IsDirectory
<1>6. OnlyWay'
  BY Zenon, <1>1 DEF OnlyWay
<1>7. MakeDirSucceeds'
  <2>1. ~hindered' => ~hindered /\ (IsDirectory(target) => IsDirectory(target)')
    <3> HAVE ~hindered'
    <3>1. IsDirectory(target) => target = <<>> \/ (target \in DOMAIN tree' /\ tree'[target] = "dir")
      BY Zenon, <1>3
    <3>2. target' = target
      BY <1>1 DEF target
    <3> QED BY Zenon, <1>3, <3>1, <3>2 DEF IsDirectory
  <2> QED BY Zenon, <1>1, <1>2, <2>1 DEF MakeDirSucceeds, target
<1> QED BY Zenon, <1>4, <1>5, <1>6, <1>7 DEF MadeRight

(* MakeInv is inductive.                                                    *)
LEMMA MakeKept == MakeInv /\ [Next]_vars => MakeInv'
<1> SUFFICES ASSUME MakeInv, [Next]_vars PROVE MakeInv'
  OBVIOUS
<1>1. CallInv /\ CallOK /\ MakeDirSucceeds
  BY DEF MakeInv, CallInv
<1>2. CallInv'
  BY <1>1, EditKept, TreeKept, CallKept, FramesKept, LeakedKept DEF CallInv
<1>3. ASSUME pc' \notin {"mkdir", "mkdirs"}, answer'.kind # "make" PROVE MadeRight'
  <2>1. MakeDirSucceeds'
    BY Zenon, <1>3 DEF MakeDirSucceeds
  <2> QED BY Zenon, <1>3, <2>1, NotMaking
<1>4. CASE UNCHANGED vars
  <2>1. UNCHANGED <<tree, before, alone, hindered, arg, pc, work, at, answer>>
    BY <1>4 DEF vars, fsvars, history, call
  <2>2. WayFree' /\ OnlyWay' /\ Reached'
    BY Zenon, <2>1 DEF MakeInv, WayFree, Reached, OnlyWay, MakingDir, IsDirectory
  <2>3. MakeDirSucceeds'
    BY Zenon, <1>1, <2>1 DEF MakeDirSucceeds, IsDirectory
  <2> QED BY Zenon, <1>2, <2>2, <2>3 DEF MakeInv
<1>5. CASE AppendToPath \/ AppendCWDToPath \/ MoveUp \/ UsePath
  <2>1. pc = "edit" /\ pc' \in {"edit", "idle"} /\ answer' = answer
    BY <1>5 DEF AppendToPath, AppendCWDToPath, MoveUp, Edit, UsePath, call
  <2>2. answer'.kind # "make"
    BY <1>1, <2>1 DEF CallOK, NoAnswer
  <2>3. pc' \notin {"mkdir", "mkdirs"}
    BY <2>1
  <2> QED BY Zenon, <1>2, <1>3, <2>2, <2>3 DEF MakeInv, MadeRight
<1>6. CASE RemoveDir
  <2>1. /\ pc' \in {"remove", "rmdir", "idle", "crashed"}
        /\ \/ answer' = NoAnswer
           \/ pc \in {"remove", "rmdir"} /\ answer' = answer
           \/ \E ok : answer' = [kind |-> Removal, ok |-> ok]
    <3>1. (\E all \in BOOLEAN : RemoveDirCall(all)) => answer' = NoAnswer /\ pc' \in {"remove", "rmdir"}
      BY DEF RemoveDirCall, Call
    <3>2. ListOpen \/ ListEnd => answer' = answer /\ pc = "remove" /\ pc' \in {"remove", "rmdir", "crashed"}
      BY DEF ListOpen, ListEnd
    <3>3. RemoveEntry => pc = "remove" /\ (UNCHANGED <<pc, answer>> \/ Return(Removal, FALSE))
      BY Zenon DEF RemoveEntry, RemoveFails
    <3>4. Rmdir => pc = "rmdir" /\ (\/ pc' = "remove" /\ UNCHANGED answer
                                    \/ Return(Removal, FALSE) \/ Return(Removal, TRUE))
      BY Zenon DEF Rmdir, RemoveFails
    <3>5. ASSUME NEW ok, Return(Removal, ok)
          PROVE  pc' = "idle" /\ answer' = [kind |-> Removal, ok |-> ok]
      BY Zenon, <3>5 DEF Return
    <3> QED BY <1>6, <3>1, <3>2, <3>3, <3>4, <3>5 DEF RemoveDir
  <2>2. answer'.kind # "make"
    <3>1. CASE answer' = NoAnswer
      BY <3>1 DEF NoAnswer
    <3>2. CASE pc \in {"remove", "rmdir"} /\ answer' = answer
      BY <1>1, <3>2 DEF CallOK
    <3>3. CASE \E ok : answer' = [kind |-> Removal, ok |-> ok]
      BY <3>3 DEF Removal
    <3> QED BY Zenon, <2>1, <3>1, <3>2, <3>3
  <2>3. pc' \notin {"mkdir", "mkdirs"}
    BY <2>1
  <2> QED BY Zenon, <1>2, <1>3, <2>2, <2>3 DEF MakeInv, MadeRight
<1>7. CASE MakeDir \/ Others
  <2>1. MadeRight'
    BY Zenon, <1>7, MakeCalled, MakeFirst, MakeNext, MakeLast, MakeOthers DEF MakeDir
  <2> QED BY Zenon, <1>2, <2>1 DEF MakeInv, MadeRight
<1> QED
  BY <1>4, <1>5, <1>6, <1>7 DEF Next

(* MakeDirSucceeds: MakeDir of a relative path creates the directory and those
   above it, also while others create some of them, unless something was there
   or in the way; and on its own it creates nothing else.                   *)
THEOREM MakeDirSucceedsAlways == Spec => []MakeDirSucceeds
<1>1. Init => WayFree /\ Reached /\ OnlyWay /\ MakeDirSucceeds
  BY DEF Init, WayFree, Reached, OnlyWay, MakeDirSucceeds, MakingDir, NoAnswer
<1>2. CallInv /\ WayFree /\ Reached /\ OnlyWay /\ MakeDirSucceeds => MakeInv
  BY DEF MakeInv
<1>3. MakeInv => MakeDirSucceeds
  BY DEF MakeInv
<1> QED
  BY <1>1, <1>2, <1>3, CallsAreOK, MakeKept, PTL DEF Spec


-----------------------------------------------------------------------------
(* RemoveDir.                                                               *)

(* The names of the places have one letter, as RemoveDirExact counts them.  *)
OneLetterNames == \A q \in Places : \A i \in 1..Len(q) : Len(q[i]) = 1

\* There is no room for the name of an entry behind the text s of its directory.
Long(s) == Len(s) + (IF Ended(s) THEN 1 ELSE 2) > Size

TextAt(k) == frames[k].text
LeadsTo(k) == Names(TextAt(k))
EntryAt(k, e) == Append(LeadsTo(k), e[1])
Target == Names(arg)

NoSuchDir == Target \notin DOMAIN before \/ before[Target] # "dir"

TooMuch ==
    \E q \in DOMAIN before :
        /\ Begin(Target, q)
        /\ \/ before[q] = "socket"
           \/ Len(arg) + 2 * (Len(q) - Len(Target)) > Size
           \/ Len(q) - Len(Target) + leaked >= MaxDirs

\* Only what is below the target has been removed.
Shrunk ==
    /\ DOMAIN before \subseteq Places
    /\ \A q \in DOMAIN tree : q \in DOMAIN before /\ tree[q] = before[q]
    /\ \A q \in DOMAIN before : q \notin DOMAIN tree => Begin(Target, q) /\ q # Target

(* What is still in the directory of a frame: the entries that are to come, and
   the one that the next frame is about.                                    *)
Listed(k) ==
    /\ \A e \in frames[k].left :
          /\ EntryAt(k, e) \in DOMAIN tree /\ tree[EntryAt(k, e)] = e[2]
          /\ k < Len(frames) => LeadsTo(k + 1) # EntryAt(k, e)
    /\ \A c \in DOMAIN tree : Parent(c) = LeadsTo(k) =>
          \/ \E e \in frames[k].left : c = EntryAt(k, e)
          \/ k < Len(frames) /\ c = LeadsTo(k + 1)

\* The text of a frame is that of the frame before and a name.
TextOK(k) ==
    /\ Plain(TextAt(k)) /\ Begin(Target, LeadsTo(k))
    /\ Len(LeadsTo(k)) = Len(Target) + (k - 1)
    /\ Len(TextAt(k)) <= Len(arg) + 2 * (k - 1)
    /\ k < Len(frames) => ~Long(TextAt(k))
    /\ k > 1 => /\ Parent(LeadsTo(k)) = LeadsTo(k - 1)
                /\ LeadsTo(k) \in DOMAIN tree /\ tree[LeadsTo(k)] \in {"dir", "socket"}

ListOK(k) ==
    /\ frames[k].stream # "none" => IsDirectory(LeadsTo(k))
    /\ frames[k].stream = "open" => Listed(k)
    /\ frames[k].stream = "closed" => \A c \in DOMAIN tree : Parent(c) # LeadsTo(k)

Clean ==
    /\ TextAt(1) = arg
    /\ \A k \in 1..Len(frames) : TextOK(k) /\ ListOK(k)
    /\ pc = "rmdir" /\ Top.stream = "none" => tree = before

(* There was no room for a name, and the calls are about the same directory
   again and again.  It is not empty and nothing will be removed any more.  *)
Stuck ==
    /\ Plain(Top.text) /\ Long(Top.text) /\ IsDirectory(Names(Top.text))
    /\ \E c \in DOMAIN tree : Parent(c) = Names(Top.text)
    /\ \A e \in Top.left : e[1] \in FileName /\ Len(e[1]) = 1
    /\ pc = "rmdir" => Top.stream = "closed"
    /\ TooMuch

Removing == pc \in {"remove", "rmdir"} /\ alone /\ Plain(arg)

(* A call of RemoveDir that nobody disturbs: its frames lead one below the
   other and overlook nothing, or it is stuck.                              *)
RemovesBelow == Removing => Shrunk /\ (Clean \/ Stuck)

Answered == answer.kind # "none" => pc = "idle"

RemoveInv == CallInv /\ Answered /\ RemovesBelow /\ RemoveDirExact

(* A name is a text without a slash, and neither empty nor "." nor "..".    *)
LEMMA NameFact ==
    ASSUME NEW name \in FileName
    PROVE  name \in Texts /\ SlashFree(name) /\ name # <<>> /\ name \notin Dots
<1>1. name \in Seq(Characters \ {"/"}) /\ name \notin {<<>>, <<".">>, <<".", ".">>}
  BY DEF FileName
<1>2. Len(name) \in Nat /\ \A i \in 1..Len(name) : name[i] \in Characters \ {"/"}
  BY <1>1, ElementOfSeq, LenProperties
<1>3. name \in Texts
  BY <1>1, SeqMonotonic DEF Texts
<1>4. SlashFree(name)
  BY <1>2 DEF SlashFree
<1> QED BY <1>1, <1>3, <1>4 DEF Dots

(* The path InitIterDir starts with: the text of the directory.             *)
LEMMA DirPath ==
    ASSUME NEW dir \in Texts, Len(dir) <= Size
    PROVE  LET P == Put(dir, EmptyPath)
           IN  /\ PathOK(P) /\ Text(P) = dir /\ P.WriteCur = Len(dir)
               /\ P.mem[Len(dir) + 1] = NUL
               /\ IsOpen(P) <=> ~Ended(dir)
<1> DEFINE P == Put(dir, EmptyPath)
<1>1. Fits(dir, EmptyPath) /\ EmptyPath.WriteCur = 0
  BY SizeType DEF Fits, EmptyPath
<1>2. PathOK(EmptyPath) /\ Text(EmptyPath) = <<>>
  BY EmptyPathOK
<1>3. Len(dir) \in Nat /\ Len(dir) <= Size
  BY LenProperties DEF Texts
<1>4. /\ PathOK(P) /\ P.WriteCur = EmptyPath.WriteCur + Len(dir)
      /\ Text(P) = Text(EmptyPath) \o dir
  BY <1>1, <1>2, PutFact
<1>5. <<>> \o dir = dir
  BY ConcatEmptySeq DEF Texts
<1>6. P.WriteCur = Len(dir) /\ Text(P) = dir
  BY <1>1, <1>2, <1>3, <1>4, <1>5
<1>7. P.mem[Len(dir) + 1] = NUL
  <2> DEFINE rest == SubSeq(EmptyPath.mem, Len(dir) + 1, MAX_PATH_SIZE)
             M == EmptyPath.mem
             n == MAX_PATH_SIZE - Len(dir)
  <2>1. M \in Seq(Characters \cup {NUL}) /\ Len(M) = MAX_PATH_SIZE
    BY <1>2 DEF PathOK
  <2>2. \A i \in 1..MAX_PATH_SIZE : M[i] = NUL
    BY DEF EmptyPath
  <2>3. Len(dir) + 1 \in 1..MAX_PATH_SIZE /\ MAX_PATH_SIZE \in Nat
    BY <1>3, SizeType
  <2> HIDE DEF M
  <2>4. /\ SubSeq(M, Len(dir) + 1, MAX_PATH_SIZE) \in Seq(Characters \cup {NUL})
        /\ Len(SubSeq(M, Len(dir) + 1, MAX_PATH_SIZE)) = MAX_PATH_SIZE - (Len(dir) + 1) + 1
        /\ \A i \in 1..(MAX_PATH_SIZE - (Len(dir) + 1) + 1) :
              SubSeq(M, Len(dir) + 1, MAX_PATH_SIZE)[i] = M[Len(dir) + 1 + i - 1]
    <3>1. Len(dir) + 1 \in Int /\ MAX_PATH_SIZE \in Int /\ 1 <= Len(dir) + 1
          /\ Len(dir) + 1 <= MAX_PATH_SIZE + 1 /\ MAX_PATH_SIZE <= Len(M)
      BY <2>1, <2>3
    <3> QED BY <2>1, <3>1, PartOf
  <2>5. /\ rest \in Seq(Characters \cup {NUL})
        /\ Len(rest) >= 1 /\ rest[1] = NUL
    BY <2>2, <2>3, <2>4 DEF M
  <2>6. P.mem = (Text(EmptyPath) \o dir) \o rest
    <3>1. EmptyPath.WriteCur + Len(dir) = Len(dir)
      BY <1>1, <1>3
    <3>2. P.mem = (Text(EmptyPath) \o dir) \o
                  SubSeq(EmptyPath.mem, (EmptyPath.WriteCur + Len(dir)) + 1, MAX_PATH_SIZE)
      BY DEF Put
    <3> QED BY Zenon, <3>1, <3>2
  <2>7. P.mem = dir \o rest
    BY <1>2, <1>5, <2>6
  <2>8. dir \in Seq(Characters \cup {NUL})
    BY SeqMonotonic DEF Texts
  <2> HIDE DEF rest, P
  <2>9. \A i \in 1..Len(rest) : (dir \o rest)[Len(dir) + i] = rest[i]
    BY <2>5, <2>8, Joined
  <2>10. 1 \in 1..Len(rest)
    BY <2>5, LenProperties
  <2> QED BY <2>5, <2>7, <2>9, <2>10
<1>8. IsOpen(P) <=> ~Ended(dir)
  <2>1. \A i \in 1..P.WriteCur : Text(P)[i] = P.mem[i]
    BY Zenon, <1>4, TextFact
  <2>2. Len(dir) = 0 <=> dir = <<>>
    BY EmptySeq DEF Texts
  <2> HIDE DEF P
  <2> QED BY <1>3, <1>6, <2>1, <2>2 DEF IsOpen, Ended
<1> QED BY Zenon, <1>4, <1>6, <1>7, <1>8

(* The loop over a name has nothing to do.                                  *)
LEMMA NoRound ==
    ASSUME NEW name \in FileName, Len(name) = 1, NEW Dst, PathOK(Dst)
    PROVE  /\ Rest(name, Dst) = name /\ LoopEnd(name, Dst) = Done(LoopStart(Dst))
           /\ Tail0(name) = name
<1>1. name \in Texts /\ SlashFree(name)
  BY NameFact
<1>2. 1 \in 1..Len(name) /\ name[1] # "/"
  BY <1>1 DEF SlashFree
<1>3. Rest(name, Dst) = name
  BY <1>2 DEF Rest
<1>4. Taken(name, LoopStart(Dst))[1] = Taken(name, LoopStart(Dst))[0]
  <2> DEFINE R == Taken(name, LoopStart(Dst))
  <2>1. \A i \in 1..Len(name) :
           R[i] = IF ~R[i - 1].ok \/ name[i] # "/" THEN R[i - 1]
                  ELSE TakePart(PartEnding(name, i), R[i - 1].path)
    BY <1>1, TakenStep
  <2> HIDE DEF R
  <2> QED BY <1>2, <2>1 DEF R
<1>5. Taken(name, LoopStart(Dst))[0] = Done(LoopStart(Dst))
  BY Zenon, <1>1, TakenStep
<1>6. LoopEnd(name, Dst) = Taken(name, LoopStart(Dst))[1]
  BY Zenon, <1>3 DEF LoopEnd
<1> QED BY Zenon, <1>1, <1>3, <1>4, <1>5, <1>6, TailOfPart

(* Two texts, one behind the other.                                         *)
LEMMA JoinedTexts ==
    ASSUME NEW s \in Texts, NEW t \in Texts
    PROVE  /\ s \o t \in Texts
           /\ Len(s \o t) = Len(s) + Len(t)
           /\ \A i \in 1..Len(t) : (s \o t)[Len(s) + i] = t[i]
  BY Joined DEF Texts

(* Where the name of an entry fits, its path leads to the entry.            *)
LEMMA EntryFits ==
    ASSUME NEW dir \in Texts, Len(dir) <= Size, Plain(dir), ~Long(dir),
           NEW name \in FileName, Len(name) = 1
    PROVE  LET t == EntryPath(dir, name)
           IN  /\ t \in Texts /\ Plain(t) /\ ~Ended(t) /\ t # <<>>
               /\ Names(t) = Append(Names(dir), name)
               /\ Len(t) <= Len(dir) + 2
<1> DEFINE P == Put(dir, EmptyPath)
           st == LoopStart(P)
           u == Text(st)
           r == AppendPath(name, P)
           t == EntryPath(dir, name)
<1>1. /\ PathOK(P) /\ Text(P) = dir /\ P.WriteCur = Len(dir)
      /\ IsOpen(P) <=> ~Ended(dir)
  BY DirPath
<1>2. name \in Texts /\ SlashFree(name) /\ name # <<>> /\ name \notin Dots
  BY NameFact
<1>3. Len(dir) \in Nat
  BY LenProperties DEF Texts
<1>4. Len(dir) + (IF Ended(dir) THEN 1 ELSE 2) <= Size
  BY <1>3, SizeType DEF Long
<1>5. t = CString(r.path)
  <2>1. Len(name) <= Size - P.WriteCur
    <3> HIDE DEF P
    <3> QED BY <1>1, <1>3, <1>4, SizeType
  <2> QED BY Zenon, <2>1 DEF EntryPath, AppendPathToPath
<1> HIDE DEF P
<1>6. Rest(name, P) = name /\ LoopEnd(name, P) = Done(st) /\ Tail0(name) = name
  BY Zenon, <1>1, NoRound
<1>7. IsOpen(P) => Fits(<<"/">>, P)
  <2>1. Len(<<"/">>) = 1
    OBVIOUS
  <2> QED BY <1>1, <1>3, <1>4, <2>1, SizeType DEF Fits
<1>8. /\ PathOK(st) /\ Ended(u)
      /\ u = dir \/ u = dir \o <<"/">>
      /\ Names(u) = Names(dir) /\ PlainDirs(u)
  BY <1>1, <1>7, LoopStartFact
<1>9. st.WriteCur = Len(dir) + (IF Ended(dir) THEN 0 ELSE 1)
  <2>1. CASE Ended(dir)
    <3>1. ~IsOpen(P)
      BY <1>1, <2>1
    <3>2. st = P
      BY Zenon, <3>1 DEF LoopStart
    <3> HIDE DEF st
    <3> QED BY <1>1, <1>3, <2>1, <3>2
  <2>2. CASE ~Ended(dir)
    <3>1. IsOpen(P) /\ Fits(<<"/">>, P)
      BY <1>1, <1>7, <2>2
    <3>2. st = Put(<<"/">>, P)
      BY Zenon, <3>1 DEF LoopStart
    <3>3. Put(<<"/">>, P).WriteCur = P.WriteCur + Len(<<"/">>)
      BY <1>1, <3>1, RootText, PutFact
    <3>4. Len(<<"/">>) = 1
      OBVIOUS
    <3> HIDE DEF st
    <3> QED BY <1>1, <1>3, <2>2, <3>2, <3>3, <3>4
  <2> QED BY <2>1, <2>2
<1>10. u \in Texts /\ Len(u) = st.WriteCur
  BY <1>8, TextFact
<1> HIDE DEF st, u
<1>11. Fits(name, st)
  BY <1>3, <1>4, <1>9, SizeType DEF Fits
<1>12. LoopEnd(name, P).ok = TRUE /\ LoopEnd(name, P).path = st
  BY <1>6 DEF Done
<1>13. r.ok
  <2> DEFINE last == LoopEnd(name, P)
             x == Rest(name, P)
             Q == [Put(Tail0(x), last.path) EXCEPT !.mem[Put(Tail0(x), last.path).WriteCur + 1] = NUL]
  <2>1. r = IF IsOpen(P) /\ ~Fits(<<"/">>, P) THEN [ok |-> FALSE, path |-> P]
            ELSE IF ~last.ok \/ ~Fits(Tail0(x), last.path)
            THEN [ok |-> FALSE, path |-> [last.path EXCEPT !.WriteCur = P.WriteCur]]
            ELSE [ok |-> TRUE, path |-> Q]
    BY AppendPathIs
  <2>2. last.ok = TRUE /\ Fits(Tail0(x), last.path)
    BY Zenon, <1>6, <1>11, <1>12
  <2>3. r = [ok |-> TRUE, path |-> Q]
    BY Zenon, <1>7, <2>1, <2>2
  <2> HIDE DEF r, Q
  <2> QED BY <2>3
<1>14. t = u \o name
  <2>1. Text(r.path) = Text(LoopEnd(name, P).path) \o Tail0(Rest(name, P)) /\ CString(r.path) = Text(r.path)
    BY <1>1, <1>2, <1>13, AppendOK
  <2> QED BY Zenon, <1>5, <1>6, <1>12, <2>1 DEF u
<1>15. Names(t) = Append(Names(dir), name) /\ Tail0(t) = name
  <2>1. Names(u \o name) = Into(Names(u), name) /\ Tail0(u \o name) = name
    BY <1>2, <1>8, <1>10, NamesPart
  <2>2. Into(Names(u), name) = Append(Names(u), name)
    BY <1>2, <1>10, NamesType, IntoLength
  <2> QED BY Zenon, <1>8, <1>14, <2>1, <2>2
<1>16. t \in Texts /\ Len(t) = Len(u) + 1 /\ t[Len(u) + 1] = name[1] /\ name[1] # "/"
  <2>1. u \in Texts /\ name \in Texts
    BY <1>2, <1>10
  <2>2. /\ u \o name \in Texts /\ Len(u \o name) = Len(u) + Len(name)
        /\ \A i \in 1..Len(name) : (u \o name)[Len(u) + i] = name[i]
    BY Zenon, <2>1, JoinedTexts
  <2>3. 1 \in 1..Len(name)
    OBVIOUS
  <2> HIDE DEF t
  <2> QED BY <1>2, <1>14, <2>2, <2>3 DEF SlashFree
<1>17. PlainDirs(t) /\ Tail0(t) \notin Dots
  <2>1. PlainDirs(u \o name)
    BY <1>2, <1>8, <1>10, PlainJoined
  <2> QED BY Zenon, <1>2, <1>14, <1>15, <2>1
<1> HIDE DEF t
<1>18. t # <<>>
  <2>1. Len(t) # Len(<<>>)
    BY <1>3, <1>9, <1>10, <1>16, EmptyText
  <2> QED BY Zenon, <2>1
<1>19. ~Ended(t)
  BY <1>16, <1>18 DEF Ended
<1>20. Len(t) <= Len(dir) + 2
  BY <1>3, <1>9, <1>10, <1>16
<1>21. Plain(t)
  BY Zenon, <1>16, <1>17, PlainMeans
<1> QED BY Zenon, <1>15, <1>16, <1>18, <1>19, <1>20, <1>21 DEF t

(* Where the name does not fit, the path of the entry leads to the directory
   itself, and no name will fit behind it either.                           *)
LEMMA EntryLong ==
    ASSUME NEW dir \in Texts, Len(dir) <= Size, Plain(dir), Long(dir),
           NEW name \in FileName, Len(name) = 1
    PROVE  LET t == EntryPath(dir, name)
           IN  t \in Texts /\ Plain(t) /\ Long(t) /\ Names(t) = Names(dir)
<1> DEFINE P == Put(dir, EmptyPath)
           t == EntryPath(dir, name)
<1>1. /\ PathOK(P) /\ Text(P) = dir /\ P.WriteCur = Len(dir) /\ P.mem[Len(dir) + 1] = NUL
      /\ IsOpen(P) <=> ~Ended(dir)
  BY DirPath
<1>2. name \in Texts /\ SlashFree(name) /\ name # <<>> /\ name \notin Dots
  BY NameFact
<1>3. Len(dir) \in Nat
  BY LenProperties DEF Texts
<1>4. Len(dir) = Size \/ (Len(dir) = Size - 1 /\ ~Ended(dir))
  <2>1. CASE Ended(dir)
    <3>1. Len(dir) + 1 > Size
      BY <2>1 DEF Long
    <3> QED BY <1>3, <3>1, SizeType
  <2>2. CASE ~Ended(dir)
    <3>1. Len(dir) + 2 > Size
      BY <2>2 DEF Long
    <3> QED BY <1>3, <2>2, <3>1, SizeType
  <2> QED BY <2>1, <2>2
<1>5. ASSUME Len(dir) = Size PROVE t = dir
  <2>1. ~(Len(name) <= Size - P.WriteCur)
    <3> HIDE DEF P
    <3> QED BY <1>1, <1>5, SizeType
  <2>2. AppendPathToPath(name, P) = Failed(P)
    BY Zenon, <2>1 DEF AppendPathToPath
  <2>3. Failed(P).path = P
    BY DEF Failed
  <2>4. CString(P) = Text(P)
    BY <1>1, CStringFact
  <2> QED BY Zenon, <1>1, <2>2, <2>3, <2>4 DEF EntryPath
<1>6. ASSUME Len(dir) = Size - 1, ~Ended(dir) PROVE t = dir \o <<"/">>
  <2> DEFINE st == Put(<<"/">>, P)
             r == AppendPath(name, P)
  <2> HIDE DEF P
  <2>1. Len(name) <= Size - P.WriteCur
    BY <1>1, <1>6, SizeType
  <2>2. t = CString(r.path)
    BY Zenon, <2>1 DEF EntryPath, AppendPathToPath, P
  <2>3. Len(<<"/">>) = 1
    OBVIOUS
  <2>4. IsOpen(P) /\ Fits(<<"/">>, P)
    BY <1>1, <1>6, <2>3, SizeType DEF Fits
  <2>5. LoopStart(P) = st
    BY Zenon, <2>4 DEF LoopStart
  <2>6. PathOK(st) /\ st.WriteCur = P.WriteCur + Len(<<"/">>) /\ Text(st) = Text(P) \o <<"/">>
    BY <1>1, <2>4, RootText, PutFact
  <2> HIDE DEF st
  <2>7. st.WriteCur = Size /\ Size + 1 = MAX_PATH_SIZE
    BY <1>1, <1>3, <1>6, <2>3, <2>6, SizeType
  <2>8. st.mem[st.WriteCur + 1] = NUL
    BY <2>6, <2>7 DEF PathOK
  <2>9. CString(st) = dir \o <<"/">>
    <3>1. CString(st) = Text(st)
      BY Zenon, <2>6, <2>8, CStringFact
    <3> QED BY Zenon, <1>1, <2>6, <3>1
  <2>10. Rest(name, P) = name /\ LoopEnd(name, P) = Done(st) /\ Tail0(name) = name
    BY Zenon, <1>1, <2>5, NoRound
  <2>11. LoopEnd(name, P).ok = TRUE /\ LoopEnd(name, P).path = st
    BY <2>10 DEF Done
  <2>12. ~Fits(name, st)
    BY <2>7, SizeType DEF Fits
  <2>13. r = [ok |-> FALSE, path |-> [st EXCEPT !.WriteCur = P.WriteCur]]
    <3> DEFINE last == LoopEnd(name, P)
               x == Rest(name, P)
               Q == [Put(Tail0(x), last.path) EXCEPT !.mem[Put(Tail0(x), last.path).WriteCur + 1] = NUL]
    <3>1. r = IF IsOpen(P) /\ ~Fits(<<"/">>, P) THEN [ok |-> FALSE, path |-> P]
              ELSE IF ~last.ok \/ ~Fits(Tail0(x), last.path)
              THEN [ok |-> FALSE, path |-> [last.path EXCEPT !.WriteCur = P.WriteCur]]
              ELSE [ok |-> TRUE, path |-> Q]
      BY AppendPathIs
    <3>2. ~Fits(Tail0(x), last.path)
      BY Zenon, <2>10, <2>11, <2>12
    <3>3. r = [ok |-> FALSE, path |-> [last.path EXCEPT !.WriteCur = P.WriteCur]]
      BY Zenon, <2>4, <3>1, <3>2
    <3> QED BY Zenon, <2>11, <3>3
  <2>14. r.path.mem = st.mem
    <3>1. st = [mem |-> st.mem, WriteCur |-> st.WriteCur]
      BY <2>6 DEF PathOK
    <3> HIDE DEF r
    <3> QED BY <2>13, <3>1
  <2>15. CString(r.path) = CString(st)
    BY Zenon, <2>14 DEF CString
  <2> QED BY Zenon, <2>2, <2>9, <2>15
<1>7. PlainDirs(dir) /\ Tail0(dir) \notin Dots
  BY PlainMeans
<1>8. CASE Len(dir) = Size
  BY Zenon, <1>5, <1>8
<1>9. CASE Len(dir) = Size - 1 /\ ~Ended(dir)
  <2> DEFINE d == dir \o <<"/">>
  <2>1. Names(d) = Names(dir) /\ Ended(d) /\ d \in Texts
    BY NamesSlash
  <2>2. PlainDirs(d)
    BY PlainJoined
  <2>3. Len(d) = Len(dir) + 1
    <3>1. Len(d) = Len(dir) + Len(<<"/">>)
      BY Zenon, RootText, JoinedTexts
    <3>2. Len(<<"/">>) = 1
      OBVIOUS
    <3> QED BY <3>1, <3>2
  <2>4. Tail0(d) = <<>>
    BY Zenon, <2>1, NamesEnded
  <2>5. <<>> \notin Dots
    BY EmptyText DEF Dots
  <2> HIDE DEF d
  <2>6. Plain(d)
    BY Zenon, <2>1, <2>2, <2>4, <2>5, PlainMeans
  <2>7. Long(d)
    BY <1>3, <1>9, <2>1, <2>3, SizeType DEF Long
  <2>8. t = d
    BY Zenon, <1>6, <1>9 DEF d
  <2> QED BY Zenon, <2>1, <2>6, <2>7, <2>8
<1> QED BY <1>4, <1>8, <1>9

(* A path of names to a directory that is there can be opened and removed.  *)
LEMMA DirText ==
    ASSUME TreeOK, NEW s \in Texts, Plain(s), Names(s) \in DOMAIN tree, tree[Names(s)] = "dir"
    PROVE  IsDirText(s) /\ NamePart(s) \notin {<<>>, <<".">>, <<".", ".">>}
<1>1. PlainDirs(s) /\ Tail0(s) \notin Dots
  BY PlainMeans
<1>2. Names(s) # <<>>
  <2>1. Names(s) \in Places
    BY DEF TreeOK
  <2> QED BY Zenon, <2>1, PlaceFact
<1>3. s # <<>>
  BY Zenon, <1>2, EmptyText
<1>4. ASSUME NEW i \in Slashes(s) PROVE IsDirectory(Names(SubSeq(s, 1, i)))
  <2> DEFINE q == Names(SubSeq(s, 1, i - 1))
  <2>1. Names(SubSeq(s, 1, i)) = q /\ (q # <<>> => q \in Above(Names(s)))
    BY Zenon, <1>1, <1>4, OnTheWay
  <2>2. q = <<>> \/ (q \in DOMAIN tree /\ (q # Names(s) => tree[q] = "dir"))
    BY Zenon, <2>1, WayIsThere
  <2>3. q = <<>> \/ (q \in DOMAIN tree /\ tree[q] = "dir")
    BY Zenon, <2>2
  <2> QED BY Zenon, <2>1, <2>3 DEF IsDirectory
<1>5. IsDirText(s)
  BY Zenon, <1>3, <1>4 DEF IsDirText, Reachable, IsDirectory
<1> DEFINE t == Trimmed(s)
<1>6. /\ t \in Texts /\ Len(t) <= Len(s) /\ t = SubSeq(s, 1, Len(t))
      /\ Names(t) = Names(s) /\ (~Ended(s) => t = s)
      /\ \A i \in 1..Len(s) : i > Len(t) => s[i] = "/"
      /\ t = <<>> \/ ~Ended(t)
  BY TrimmedFact
<1>7. NamePart(s) = Tail0(t)
  BY DEF NamePart, Tail0
<1> HIDE DEF t
<1>8. t # <<>> /\ ~Ended(t)
  BY Zenon, <1>2, <1>6, EmptyText
<1>9. Tail0(t) \notin Dots
  <2>1. CASE Len(t) = Len(s)
    <3>1. SubSeq(s, 1, Len(s)) = s
      BY SubSeqFull DEF Texts
    <3>2. t = s
      BY Zenon, <1>6, <2>1, <3>1
    <3> QED BY Zenon, <1>1, <3>2
  <2>2. CASE Len(t) # Len(s)
    <3>1. Len(t) \in Nat /\ Len(s) \in Nat
      BY <1>6, LenProperties DEF Texts
    <3>2. Len(t) + 1 \in 1..Len(s) /\ Len(t) + 1 > Len(t) /\ Len(t) + 1 - 1 = Len(t)
      BY <1>6, <2>2, <3>1
    <3>3. s[Len(t) + 1] = "/"
      BY <1>6, <3>2
    <3>4. PartEnding(s, Len(t) + 1) \notin Dots
      BY <1>1, <3>2, <3>3 DEF PlainDirs
    <3>5. PartEnding(s, Len(t) + 1) = Tail0(SubSeq(s, 1, Len(t)))
      BY <3>2 DEF PartEnding
    <3> QED BY Zenon, <1>6, <3>4, <3>5
  <2> QED BY <2>1, <2>2
<1>10. Tail0(t) # <<>>
  BY Zenon, <1>6, <1>8, <1>9, LastName
<1> QED BY <1>5, <1>7, <1>9, <1>10 DEF Dots

(* The directories on the way to something that is there exist.             *)
LEMMA EntryReached ==
    ASSUME TreeOK, NEW s \in Texts, s # <<>>, ~Ended(s), Plain(s), Names(s) \in DOMAIN tree
    PROVE  Reachable(s)
<1>1. PlainDirs(s) /\ Tail0(s) \notin Dots
  BY PlainMeans
<1>2. ASSUME NEW i \in Slashes(s) PROVE IsDirectory(Names(SubSeq(s, 1, i)))
  <2> DEFINE q == Names(SubSeq(s, 1, i - 1))
  <2>1. Names(SubSeq(s, 1, i)) = q /\ (q # <<>> => q \in Above(Names(s)))
    BY Zenon, <1>1, <1>2, OnTheWay
  <2>2. q # Names(s)
    BY Zenon, <1>2, NotTheTarget
  <2>3. q = <<>> \/ (q \in DOMAIN tree /\ tree[q] = "dir")
    BY Zenon, <2>1, <2>2, WayIsThere
  <2> QED BY Zenon, <2>1, <2>3 DEF IsDirectory
<1> QED BY Zenon, <1>2 DEF Reachable

(* A place is its directory and its name.                                   *)
LEMMA PlaceSplits ==
    ASSUME NEW c \in Places
    PROVE  /\ c = Append(Parent(c), c[Len(c)]) /\ c[Len(c)] \in FileName
           /\ Parent(c) \in Seq(Texts) /\ Len(c) = Len(Parent(c)) + 1
<1>1. c \in Seq(FileName) /\ c \in Seq(Texts) /\ c # <<>> /\ Len(c) \in Nat \ {0}
  BY PlaceFact
<1>2. Len(c) \in 1..Len(c) /\ Len(c) - 1 \in 0..Len(c)
  BY <1>1
<1>3. c[Len(c)] \in FileName
  BY Zenon, <1>1, <1>2, ElementOfSeq
<1>4. /\ Parent(c) \in Seq(FileName) /\ Len(Parent(c)) = Len(c) - 1
      /\ \A i \in 1..(Len(c) - 1) : Parent(c)[i] = c[i]
  BY <1>1, <1>2, Beginning DEF Parent
<1>5. Parent(c) \in Seq(Texts)
  BY <1>1, <1>2, Beginning DEF Parent
<1>6. Append(Parent(c), c[Len(c)]) = c
  <2> DEFINE y == c[Len(c)]
             a == Append(Parent(c), y)
  <2>1. /\ a \in Seq(FileName) /\ Len(a) = Len(Parent(c)) + 1
        /\ \A i \in 1..Len(Parent(c)) : a[i] = Parent(c)[i]
        /\ a[Len(Parent(c)) + 1] = y
    BY <1>3, <1>4, AppendProperties
  <2>2. Len(a) = Len(c)
    BY <1>1, <1>4, <2>1
  <2>3. \A i \in 1..Len(c) : a[i] = c[i]
    <3> TAKE i \in 1..Len(c)
    <3>1. i \in 1..(Len(c) - 1) \/ i = Len(c)
      BY <1>1
    <3>2. Len(Parent(c)) + 1 = Len(c)
      BY <1>1, <1>4
    <3> HIDE DEF a
    <3> QED BY <1>4, <2>1, <3>1, <3>2
  <2> HIDE DEF a
  <2>4. a = c
    BY <1>1, <2>1, <2>2, <2>3, SeqEqual
  <2> QED BY <2>4 DEF a
<1> QED BY <1>1, <1>3, <1>4, <1>5, <1>6

(* What is behind a directory and a name is in the directory.               *)
LEMMA EntrySplits ==
    ASSUME NEW q \in Seq(Texts), NEW name \in Texts
    PROVE  Parent(Append(q, name)) = q /\ Len(Append(q, name)) = Len(q) + 1
<1>1. Len(Append(q, name)) = Len(q) + 1 /\ Len(q) \in Nat /\ SubSeq(q, 1, Len(q)) = q
      /\ \A m \in 0..Len(q) : SubSeq(Append(q, name), 1, m) = SubSeq(q, 1, m)
  BY Zenon, FrontOf
<1>2. Len(Append(q, name)) - 1 = Len(q) /\ Len(q) \in 0..Len(q)
  BY <1>1
<1>3. SubSeq(Append(q, name), 1, Len(q)) = q
  BY Zenon, <1>1, <1>2
<1> QED BY Zenon, <1>1, <1>2, <1>3 DEF Parent

(* Where there is something below a directory, there is something in it.    *)
LEMMA BelowHasChild ==
    ASSUME TreeOK, NEW p \in Seq(Texts), NEW q \in DOMAIN tree, Begin(p, q), q # p
    PROVE  \E c \in DOMAIN tree : Parent(c) = p
<1> DEFINE n == Len(p)
           c == SubSeq(q, 1, n + 1)
<1>1. q \in Seq(Texts) /\ Len(q) \in Nat /\ n \in Nat
  <2>1. q \in Places
    BY DEF TreeOK
  <2> QED BY <2>1, PlaceFact, LenProperties
<1>2. n <= Len(q) /\ p = SubSeq(q, 1, n)
  BY DEF Begin
<1>3. n # Len(q)
  <2>1. SubSeq(q, 1, Len(q)) = q
    BY <1>1, SubSeqFull
  <2> HIDE DEF n
  <2> QED BY Zenon, <1>2, <2>1
<1> HIDE DEF n
<1>4. n + 1 \in 1..Len(q) /\ n + 1 \in 0..Len(q) /\ n \in 0..(n + 1)
  BY <1>1, <1>2, <1>3
<1>5. c \in Above(q)
  BY <1>4 DEF Above
<1>6. c \in DOMAIN tree
  BY <1>5, WayIsThere
<1>7. c \in Seq(Texts) /\ Len(c) = n + 1 /\ \A i \in 1..(n + 1) : c[i] = q[i]
  BY <1>1, <1>4, Beginning
<1>8. p \in Seq(Texts) /\ Len(p) = n /\ \A i \in 1..n : p[i] = q[i]
  <2>1. n \in 0..Len(q)
    BY <1>1, <1>2
  <2> QED BY <1>1, <1>2, <2>1, Beginning
<1> HIDE DEF c
<1>9. Parent(c) = p
  <2> DEFINE d == SubSeq(c, 1, n)
  <2>1. d \in Seq(Texts) /\ Len(d) = n /\ \A i \in 1..n : d[i] = c[i]
    <3>1. n \in 0..Len(c)
      BY <1>4, <1>7
    <3> QED BY <1>7, <3>1, Beginning
  <2> HIDE DEF d
  <2>2. \A i \in 1..n : c[i] = q[i]
    BY <1>1, <1>7
  <2>3. d = p
    BY <1>8, <2>1, <2>2, SeqEqual
  <2>4. Len(c) - 1 = n
    BY <1>1, <1>7
  <2> QED BY Zenon, <2>3, <2>4 DEF Parent, d
<1> QED BY <1>6, <1>9

(* A call of RemoveDir that has not removed its target.                     *)
NotRemoved ==
    /\ arg \in Texts /\ Shrunk
    /\ pc = "crashed" \/ ~answer.ok
    /\ pc = "crashed" => answer.kind = "none"
    /\ answer.kind = "rmdir" => NoSuchDir \/ \E q \in DOMAIN before : Begin(Target, q) /\ q # Target
    /\ pc = "crashed" \/ answer.kind = "remove" => NoSuchDir \/ TooMuch

(* A call of RemoveDir that has.                                            *)
Removed ==
    /\ answer.ok /\ pc = "idle"
    /\ \A q \in DOMAIN tree : q \in DOMAIN before /\ tree[q] = before[q] /\ ~Begin(Target, q)
    /\ \A q \in DOMAIN before : q \notin DOMAIN tree => Begin(Target, q)
    /\ Target \in DOMAIN before

(* What is below the target, as RemoveDirExact has it.                      *)
LEMMA BelowIs ==
    {q \in DOMAIN before : Len(q) >= Len(Target) /\ SubSeq(q, 1, Len(Target)) = Target}
        = {q \in DOMAIN before : Begin(Target, q)}
<1>1. ASSUME NEW q PROVE (Len(q) >= Len(Target) /\ SubSeq(q, 1, Len(Target)) = Target) <=> Begin(Target, q)
  BY DEF Begin
<1> QED BY <1>1

(* RemoveDirExact promises no more than that of a call that has not.        *)
LEMMA NotRemovedIsExact == NotRemoved => RemoveDirExact
<1> SUFFICES ASSUME NotRemoved PROVE RemoveDirExact
  OBVIOUS
<1> DEFINE T == Names(arg)
           B == {q \in DOMAIN before : Len(q) >= Len(T) /\ SubSeq(q, 1, Len(T)) = T}
           much == \E q \in B : \/ before[q] = "socket"
                                \/ Len(arg) + 2 * (Len(q) - Len(T)) > Size
                                \/ Len(q) - Len(T) + leaked >= MaxDirs
           none == T \notin DOMAIN before \/ before[T] # "dir"
<1>1. B = {q \in DOMAIN before : Begin(T, q)} /\ T = Target
  BY BelowIs DEF Target
<1>2. much <=> TooMuch
  BY <1>1 DEF TooMuch
<1>3. none <=> NoSuchDir
  BY DEF NoSuchDir, Target
<1>4. T \in Seq(Texts) /\ Begin(T, T)
  BY NamesType, BeginFact DEF NotRemoved
<1> HIDE DEF B, much, none, T
<1>5. /\ \A q \in DOMAIN before \ B : q \in DOMAIN tree /\ tree[q] = before[q]
      /\ DOMAIN tree \subseteq DOMAIN before
  BY <1>1 DEF NotRemoved, Shrunk
<1>6. ~(T \in DOMAIN before /\ DOMAIN tree \cap B = {})
  BY <1>1, <1>4 DEF NotRemoved, Shrunk
<1>7. answer.kind \in {"remove", "rmdir"} => (answer.ok <=> T \in DOMAIN before /\ DOMAIN tree \cap B = {})
  BY <1>6 DEF NotRemoved
<1>8. answer.kind = "rmdir" /\ ~answer.ok => none \/ B # {T}
  BY <1>1, <1>3 DEF NotRemoved
<1>9. (answer.kind = "remove" /\ ~answer.ok) \/ pc = "crashed" => none \/ much
  BY <1>2, <1>3 DEF NotRemoved
<1> QED BY Zenon, <1>5, <1>7, <1>8, <1>9 DEF RemoveDirExact, B, much, none, T

(* The same of a call that has removed its target.                          *)
LEMMA RemovedIsExact == Removed => RemoveDirExact
<1> SUFFICES ASSUME Removed PROVE RemoveDirExact
  OBVIOUS
<1> DEFINE T == Names(arg)
           B == {q \in DOMAIN before : Len(q) >= Len(T) /\ SubSeq(q, 1, Len(T)) = T}
<1>1. B = {q \in DOMAIN before : Begin(T, q)} /\ T = Target
  BY BelowIs DEF Target
<1> HIDE DEF B, T
<1>2. /\ \A q \in DOMAIN before \ B : q \in DOMAIN tree /\ tree[q] = before[q]
      /\ DOMAIN tree \subseteq DOMAIN before
  BY <1>1 DEF Removed
<1>3. answer.ok /\ T \in DOMAIN before /\ DOMAIN tree \cap B = {}
  BY <1>1 DEF Removed
<1>4. pc # "crashed"
  BY DEF Removed
<1> QED BY Zenon, <1>2, <1>3, <1>4 DEF RemoveDirExact, B, T

(* A state that answers no call of RemoveDir promises nothing.              *)
Quiet == answer.kind \notin {"remove", "rmdir"} /\ pc \notin {"crashed", "remove", "rmdir"}

(* Both properties hold there.                                             *)
LEMMA QuietIsExact == Quiet => RemoveDirExact /\ RemovesBelow
  BY DEF Quiet, RemoveDirExact, RemovesBelow, Removing

(* The same of the state after a step.                                      *)
LEMMA ExactNext ==
    /\ NotRemoved' => RemoveDirExact'
    /\ Removed' => RemoveDirExact'
    /\ Quiet' => RemoveDirExact' /\ RemovesBelow'
<1>1. NotRemoved' => RemoveDirExact'
  BY NotRemovedIsExact, PTL
<1>2. Removed' => RemoveDirExact'
  BY RemovedIsExact, PTL
<1>3. Quiet' => RemoveDirExact' /\ RemovesBelow'
  BY QuietIsExact, PTL
<1> QED BY Zenon, <1>1, <1>2, <1>3

(* Nor does one that others have disturbed, or a path with "." in it.       *)
LEMMA Disturbed ==
    ASSUME ~(alone' /\ Plain(arg'))
    PROVE  RemoveDirExact' /\ RemovesBelow'
  BY DEF RemoveDirExact, RemovesBelow, Removing

(* The frames of a running call.                                            *)
LEMMA FramesFact ==
    ASSUME CallInv, pc \in {"remove", "rmdir"}
    PROVE  /\ frames \in Seq(FrameType) /\ Len(frames) \in Nat \ {0}
           /\ arg \in Texts /\ Target \in Seq(Texts) /\ Len(arg) \in Nat /\ Len(Target) \in Nat
           /\ \A j \in 1..Len(frames) :
                 /\ frames[j] \in FrameType
                 /\ TextAt(j) \in Texts /\ LeadsTo(j) \in Seq(Texts)
                 /\ Len(TextAt(j)) \in Nat /\ Len(LeadsTo(j)) \in Nat
                 /\ \A e \in frames[j].left : e[1] \in Texts /\ e[2] \in Kinds /\ e = <<e[1], e[2]>>
                 /\ j < Len(frames) \/ frames[j].stream = "open" =>
                       frames[j].stream = "open" /\ Len(TextAt(j)) <= Size
<1>1. frames \in Seq(FrameType) /\ Len(frames) > 0 /\ arg \in Texts
  BY DEF CallInv, EditInv, FramesOK
<1>2. Len(frames) \in Nat \ {0}
  BY <1>1, LenProperties
<1>3. Target \in Seq(Texts) /\ Len(arg) \in Nat /\ Len(Target) \in Nat
  BY <1>1, NamesType, LenProperties DEF Target, Texts
<1>4. ASSUME NEW j \in 1..Len(frames)
      PROVE  /\ frames[j] \in FrameType
             /\ TextAt(j) \in Texts /\ LeadsTo(j) \in Seq(Texts)
             /\ Len(TextAt(j)) \in Nat /\ Len(LeadsTo(j)) \in Nat
             /\ \A e \in frames[j].left : e[1] \in Texts /\ e[2] \in Kinds /\ e = <<e[1], e[2]>>
             /\ j < Len(frames) \/ frames[j].stream = "open" =>
                   frames[j].stream = "open" /\ Len(TextAt(j)) <= Size
  <2>1. frames[j] \in FrameType
    BY Zenon, <1>1, <1>4, ElementOfSeq
  <2>2. TextAt(j) \in Texts /\ frames[j].left \in SUBSET (Texts \X Kinds)
    BY <2>1 DEF TextAt, FrameType
  <2>3. LeadsTo(j) \in Seq(Texts)
    BY <2>2, NamesType DEF LeadsTo
  <2>4. Len(TextAt(j)) \in Nat /\ Len(LeadsTo(j)) \in Nat
    BY <2>2, <2>3, LenProperties DEF Texts
  <2>5. \A e \in frames[j].left : e[1] \in Texts /\ e[2] \in Kinds /\ e = <<e[1], e[2]>>
    BY <2>2
  <2>6. j < Len(frames) => j \in 1..(Len(frames) - 1)
    BY <1>2, <1>4
  <2>7. j < Len(frames) \/ frames[j].stream = "open" =>
           frames[j].stream = "open" /\ Len(TextAt(j)) <= Size
    BY <1>4, <2>6 DEF CallInv, FramesOK, TextAt
  <2> QED BY <2>1, <2>2, <2>3, <2>4, <2>5, <2>7
<1> QED BY <1>1, <1>2, <1>3, <1>4

(* Every frame but the last has a stream.                                   *)
LEMMA OpenCount ==
    ASSUME CallInv, pc \in {"remove", "rmdir"}
    PROVE  /\ Top.stream # "open" => Open = Len(frames) - 1
           /\ Open \in Nat
<1> DEFINE S == {i \in DOMAIN frames : frames[i].stream = "open"}
<1>1. /\ Len(frames) \in Nat \ {0} /\ DOMAIN frames = 1..Len(frames)
      /\ \A j \in 1..Len(frames) : j < Len(frames) => frames[j].stream = "open"
  <2>1. frames \in Seq(FrameType) /\ Len(frames) \in Nat \ {0}
    BY FramesFact
  <2>2. \A j \in 1..Len(frames) : j < Len(frames) => frames[j].stream = "open"
    BY FramesFact
  <2> QED BY <2>1, <2>2, LenProperties
<1>2. ASSUME Top.stream # "open" PROVE S = 1..(Len(frames) - 1)
  <2>1. frames[Len(frames)].stream # "open"
    BY <1>2 DEF Top
  <2> QED BY <1>1, <2>1
<1>3. S = 1..(Len(frames) - 1) \/ S = 1..Len(frames)
  <2>1. CASE frames[Len(frames)].stream = "open"
    BY <1>1, <2>1
  <2>2. CASE frames[Len(frames)].stream # "open"
    BY <1>1, <2>2
  <2> QED BY <2>1, <2>2
<1>4. Cardinality(1..(Len(frames) - 1)) = Len(frames) - 1
  <2>1. Len(frames) - 1 \in Int /\ 1 \in Int /\ (1 > Len(frames) - 1 <=> Len(frames) - 1 = 0)
    BY <1>1
  <2>2. Cardinality(1..(Len(frames) - 1)) =
           IF 1 <= Len(frames) - 1 THEN (Len(frames) - 1) - 1 + 1 ELSE 0
    BY <2>1, FS_Interval
  <2> QED BY <1>1, <2>2
<1>5. Cardinality(1..Len(frames)) = Len(frames)
  <2>1. Len(frames) \in Int /\ 1 \in Int
    BY <1>1
  <2>2. Cardinality(1..Len(frames)) = IF 1 <= Len(frames) THEN Len(frames) - 1 + 1 ELSE 0
    BY <2>1, FS_Interval
  <2> QED BY <1>1, <2>2
<1>6. Open = Cardinality(S)
  BY DEF Open
<1> HIDE DEF S
<1>7. Open \in Nat
  <2>1. Len(frames) \in Nat /\ Len(frames) - 1 \in Nat
    BY <1>1
  <2> QED BY Zenon, <1>3, <1>4, <1>5, <1>6, <2>1
<1> QED BY Zenon, <1>2, <1>4, <1>6, <1>7

(* The first n frames keep their texts.                                     *)
LEMMA TextsKept ==
    ASSUME arg' = arg, NEW n \in Nat, n <= Len(frames), Len(frames) \in Nat, Len(frames') \in Nat,
           \A j \in 1..n :
              /\ frames'[j].text = frames[j].text /\ TextOK(j)
              /\ j < Len(frames') => ~Long(TextAt(j))
              /\ j > 1 => LeadsTo(j) \in DOMAIN tree' /\ tree'[LeadsTo(j)] = tree[LeadsTo(j)]
    PROVE  \A j \in 1..n : TextOK(j)'
<1> SUFFICES ASSUME NEW j \in 1..n PROVE TextOK(j)'
  OBVIOUS
<1>1. Target' = Target
  BY DEF Target
<1>2. ASSUME NEW i \in 1..n PROVE TextAt(i)' = TextAt(i) /\ LeadsTo(i)' = LeadsTo(i)
  <2>1. TextAt(i)' = TextAt(i)
    BY <1>2 DEF TextAt
  <2> QED BY Zenon, <2>1 DEF LeadsTo
<1>3. j > 1 => j - 1 \in 1..n
  OBVIOUS
<1>4. TextAt(j)' = TextAt(j) /\ LeadsTo(j)' = LeadsTo(j) /\ (j > 1 => LeadsTo(j - 1)' = LeadsTo(j - 1))
  BY Zenon, <1>2, <1>3
<1>5. TextOK(j) /\ (j < Len(frames') => ~Long(TextAt(j)))
      /\ (j > 1 => LeadsTo(j) \in DOMAIN tree' /\ tree'[LeadsTo(j)] = tree[LeadsTo(j)])
  BY Zenon
<1>6. j < Len(frames)' => ~Long(TextAt(j))'
  BY <1>4, <1>5
<1>7. j > 1 => /\ Parent(LeadsTo(j))' = LeadsTo(j - 1)'
               /\ LeadsTo(j)' \in DOMAIN tree' /\ tree'[LeadsTo(j)'] \in {"dir", "socket"}
  <2>1. j > 1 => /\ Parent(LeadsTo(j)) = LeadsTo(j - 1)
                 /\ LeadsTo(j) \in DOMAIN tree /\ tree[LeadsTo(j)] \in {"dir", "socket"}
    BY Zenon, <1>5 DEF TextOK
  <2> QED BY Zenon, <1>4, <1>5, <2>1
<1>8. /\ Plain(TextAt(j))' /\ Begin(Target, LeadsTo(j))'
      /\ Len(LeadsTo(j))' = Len(Target)' + (j - 1)
      /\ Len(TextAt(j))' <= Len(arg)' + 2 * (j - 1)
  <2>1. /\ Plain(TextAt(j)) /\ Begin(Target, LeadsTo(j))
        /\ Len(LeadsTo(j)) = Len(Target) + (j - 1)
        /\ Len(TextAt(j)) <= Len(arg) + 2 * (j - 1)
    BY Zenon, <1>5 DEF TextOK
  <2>2. arg' = arg
    OBVIOUS
  <2> QED BY Zenon, <1>1, <1>4, <2>1, <2>2
<1> QED BY Zenon, <1>6, <1>7, <1>8 DEF TextOK

(* The first n frames keep what they have listed, when what is removed is
   neither one of their directories nor in it.                              *)
LEMMA ListsKept ==
    ASSUME CallInv, pc \in {"remove", "rmdir"},
           NEW n \in Nat, n < Len(frames), Len(frames') \in Nat, n < Len(frames'), NEW gone,
           DOMAIN tree' = DOMAIN tree \ gone, \A q \in DOMAIN tree' : tree'[q] = tree[q],
           \A j \in 1..n :
              /\ frames'[j] = frames[j] /\ frames'[j + 1].text = frames[j + 1].text /\ ListOK(j)
              /\ \A c \in gone : Parent(c) # LeadsTo(j) /\ c # LeadsTo(j)
    PROVE  \A j \in 1..n : ListOK(j)'
<1> SUFFICES ASSUME NEW j \in 1..n PROVE ListOK(j)'
  OBVIOUS
<1>1. /\ Len(frames) \in Nat /\ j \in 1..Len(frames) /\ j < Len(frames) /\ j < Len(frames')
      /\ LeadsTo(j) \in Seq(Texts) /\ \A e \in frames[j].left : e[1] \in Texts
  <2>1. Len(frames) \in Nat
    BY FramesFact
  <2>2. j \in 1..Len(frames) /\ j < Len(frames) /\ j < Len(frames')
    BY <2>1
  <2>3. LeadsTo(j) \in Seq(Texts) /\ \A e \in frames[j].left : e[1] \in Texts
    BY <2>2, FramesFact
  <2> QED BY <2>1, <2>2, <2>3
<1>2. /\ TextAt(j)' = TextAt(j) /\ TextAt(j + 1)' = TextAt(j + 1)
      /\ frames'[j].left = frames[j].left /\ frames'[j].stream = frames[j].stream
  BY DEF TextAt
<1>3. LeadsTo(j)' = LeadsTo(j) /\ LeadsTo(j + 1)' = LeadsTo(j + 1)
  BY Zenon, <1>2 DEF LeadsTo
<1>4. \A e : EntryAt(j, e)' = EntryAt(j, e)
  BY Zenon, <1>3 DEF EntryAt
<1>5. \A c \in gone : Parent(c) # LeadsTo(j) /\ c # LeadsTo(j)
  OBVIOUS
<1>6. ListOK(j)
  OBVIOUS
<1>7. ASSUME frames[j].stream # "none" PROVE IsDirectory(LeadsTo(j))'
  <2>1. IsDirectory(LeadsTo(j))
    BY Zenon, <1>6, <1>7 DEF ListOK
  <2>2. LeadsTo(j) = <<>> \/ (LeadsTo(j) \in DOMAIN tree /\ tree[LeadsTo(j)] = "dir")
    BY <2>1 DEF IsDirectory
  <2>3. LeadsTo(j) = <<>> \/ (LeadsTo(j) \in DOMAIN tree' /\ tree'[LeadsTo(j)] = "dir")
    BY <1>5, <2>2
  <2> QED BY Zenon, <1>3, <2>3 DEF IsDirectory
<1>8. ASSUME frames[j].stream = "closed" PROVE \A c \in DOMAIN tree' : Parent(c) # LeadsTo(j)
  BY <1>6, <1>8 DEF ListOK
<1>9. ASSUME frames[j].stream = "open" PROVE Listed(j)'
  <2>1. Listed(j)
    BY Zenon, <1>6, <1>9 DEF ListOK
  <2>2. ASSUME NEW e \in frames[j].left
        PROVE  EntryAt(j, e) \in DOMAIN tree' /\ tree'[EntryAt(j, e)] = e[2] /\ LeadsTo(j + 1) # EntryAt(j, e)
    <3>1. EntryAt(j, e) \in DOMAIN tree /\ tree[EntryAt(j, e)] = e[2] /\ LeadsTo(j + 1) # EntryAt(j, e)
      BY Zenon, <1>1, <2>1, <2>2 DEF Listed
    <3>2. Parent(EntryAt(j, e)) = LeadsTo(j)
      BY Zenon, <1>1, <2>2, EntrySplits DEF EntryAt
    <3> QED BY <1>5, <3>1, <3>2
  <2>3. ASSUME NEW c \in DOMAIN tree', Parent(c) = LeadsTo(j)
        PROVE  (\E e \in frames[j].left : c = EntryAt(j, e)) \/ c = LeadsTo(j + 1)
    BY Zenon, <2>1, <2>3 DEF Listed
  <2>4. j < Len(frames)' /\ Len(frames') = Len(frames)'
    BY <1>1
  <2>5. \A e \in frames[j].left : EntryAt(j, e)' \in DOMAIN tree' /\ tree'[EntryAt(j, e)'] = e[2]
                                  /\ LeadsTo(j + 1)' # EntryAt(j, e)'
    BY Zenon, <1>3, <1>4, <2>2
  <2>6. \A c \in DOMAIN tree' : Parent(c) = LeadsTo(j)' =>
           (\E e \in frames[j].left : c = EntryAt(j, e)') \/ c = LeadsTo(j + 1)'
    BY Zenon, <1>3, <1>4, <2>3
  <2> QED BY Zenon, <1>2, <2>4, <2>5, <2>6 DEF Listed
<1> QED BY Zenon, <1>2, <1>3, <1>7, <1>8, <1>9 DEF ListOK

(* What is said of the target and of what is too much for a call stays, as
   the call goes on and leaks streams.                                      *)
LEMMA Carried ==
    ASSUME Shrunk, arg \in Texts, arg' = arg, before' = before, leaked \in Nat,
           leaked' \in Nat, leaked' >= leaked
    PROVE  /\ Target' = Target /\ (NoSuchDir' <=> NoSuchDir)
           /\ TooMuch => TooMuch'
           /\ tree' = tree => Shrunk'
<1>1. Target' = Target
  BY DEF Target
<1>2. NoSuchDir' <=> NoSuchDir
  BY Zenon, <1>1 DEF NoSuchDir
<1>3. ASSUME TooMuch PROVE TooMuch'
  <2>1. PICK q \in DOMAIN before :
             /\ Begin(Target, q)
             /\ \/ before[q] = "socket"
                \/ Len(arg) + 2 * (Len(q) - Len(Target)) > Size
                \/ Len(q) - Len(Target) + leaked >= MaxDirs
    BY Zenon, <1>3 DEF TooMuch
  <2>2. q \in Places
    BY DEF Shrunk
  <2>3. Len(q) \in Nat /\ Len(Target) \in Nat /\ MaxDirs \in Nat
    BY <2>2, PlaceFact, NamesType, LenProperties, DirectoriesAssumption DEF Target
  <2>4. Len(q) - Len(Target) + leaked >= MaxDirs => Len(q) - Len(Target) + leaked' >= MaxDirs
    BY <2>3
  <2>5. /\ Begin(Target', q)
        /\ \/ before'[q] = "socket"
           \/ Len(arg') + 2 * (Len(q) - Len(Target')) > Size
           \/ Len(q) - Len(Target') + leaked' >= MaxDirs
    BY Zenon, <1>1, <2>1, <2>4
  <2>6. q \in DOMAIN before'
    BY <2>1
  <2> QED BY Zenon, <2>5, <2>6 DEF TooMuch
<1>4. ASSUME tree' = tree PROVE Shrunk'
  BY Zenon, <1>1, <1>4 DEF Shrunk
<1> QED BY <1>1, <1>2, <1>3, <1>4

(* The directory of the last frame is below the target, and was there.      *)
LEMMA CleanTop ==
    ASSUME CallInv, pc \in {"remove", "rmdir"}, Shrunk, Clean
    PROVE  LET k == Len(frames)
               q == LeadsTo(k)
           IN  /\ k \in Nat \ {0} /\ Top = frames[k] /\ Top.text = TextAt(k)
               /\ TextOK(k) /\ ListOK(k)
               /\ Begin(Target, q) /\ Len(q) = Len(Target) + (k - 1) /\ Plain(TextAt(k))
               /\ Len(TextAt(k)) <= Len(arg) + 2 * (k - 1)
               /\ k = 1 => q = Target /\ TextAt(k) = arg
               /\ \/ NoSuchDir /\ k = 1
                  \/ /\ q \in DOMAIN tree /\ q \in DOMAIN before /\ before[q] = tree[q]
                     /\ tree[q] \in {"dir", "socket"}
<1> DEFINE k == Len(frames)
           q == LeadsTo(k)
<1>1. k \in Nat \ {0} /\ Len(Target) \in Nat
  BY FramesFact
<1>2. Top = frames[k] /\ Top.text = TextAt(k)
  BY DEF Top, TextAt
<1>3. k \in 1..k
  BY <1>1
<1>4. TextOK(k) /\ ListOK(k)
  BY Zenon, <1>3 DEF Clean
<1>5. Begin(Target, q) /\ Len(q) = Len(Target) + (k - 1) /\ Plain(TextAt(k))
      /\ Len(TextAt(k)) <= Len(arg) + 2 * (k - 1)
  BY Zenon, <1>4 DEF TextOK
<1>6. k = 1 => q = Target /\ TextAt(k) = arg
  BY Zenon DEF Clean, LeadsTo, Target
<1>7. \/ NoSuchDir /\ k = 1
      \/ /\ q \in DOMAIN tree /\ q \in DOMAIN before /\ before[q] = tree[q]
         /\ tree[q] \in {"dir", "socket"}
  <2>1. CASE k = 1
    <3>1. ASSUME ~NoSuchDir
          PROVE  q \in DOMAIN tree /\ q \in DOMAIN before /\ before[q] = tree[q] /\ tree[q] = "dir"
      <4>1. Target \in DOMAIN before /\ before[Target] = "dir"
        BY Zenon, <3>1 DEF NoSuchDir
      <4>2. Target \in DOMAIN tree /\ tree[Target] = before[Target]
        BY Zenon, <4>1 DEF Shrunk
      <4>3. q = Target
        BY Zenon, <1>6, <2>1
      <4> QED BY Zenon, <4>1, <4>2, <4>3
    <3> HIDE DEF q
    <3> QED BY <2>1, <3>1
  <2>2. CASE k > 1
    <3>1. q \in DOMAIN tree /\ tree[q] \in {"dir", "socket"}
      BY Zenon, <1>4, <2>2 DEF TextOK
    <3>2. q \in DOMAIN before /\ tree[q] = before[q]
      BY Zenon, <3>1 DEF Shrunk
    <3> QED BY Zenon, <3>1, <3>2
  <2>3. k = 1 \/ k > 1
    <3> HIDE DEF k
    <3> QED BY <1>1
  <2> QED BY Zenon, <2>1, <2>2, <2>3
<1> QED BY Zenon, <1>1, <1>2, <1>4, <1>5, <1>6, <1>7

(* When a directory cannot be opened, it is not there, is a socket, or it is
   too deep.                                                                *)
LEMMA CannotOpen ==
    ASSUME CallInv, pc = "remove", Shrunk, Clean, Top.stream = "none",
           ~(Len(Top.text) <= Size /\ IsDirText(Top.text) /\ Open + leaked < MaxDirs)
    PROVE  NoSuchDir \/ TooMuch
<1> DEFINE k == Len(frames)
           q == LeadsTo(k)
<1>1. pc \in {"remove", "rmdir"}
  OBVIOUS
<1>2. /\ k \in Nat \ {0} /\ Top.text = TextAt(k)
      /\ Begin(Target, q) /\ Len(q) = Len(Target) + (k - 1) /\ Plain(TextAt(k))
      /\ Len(TextAt(k)) <= Len(arg) + 2 * (k - 1)
      /\ k = 1 => q = Target /\ TextAt(k) = arg
      /\ \/ NoSuchDir /\ k = 1
         \/ /\ q \in DOMAIN tree /\ q \in DOMAIN before /\ before[q] = tree[q]
            /\ tree[q] \in {"dir", "socket"}
  BY Zenon, <1>1, CleanTop
<1>3. /\ Len(arg) \in Nat /\ Len(Target) \in Nat /\ leaked \in Nat /\ MaxDirs \in Nat
      /\ TextAt(k) \in Texts /\ Len(TextAt(k)) \in Nat /\ Size \in Nat
  <2>1. k \in 1..k
    BY <1>2
  <2>2. Len(arg) \in Nat /\ Len(Target) \in Nat /\ TextAt(k) \in Texts /\ Len(TextAt(k)) \in Nat
    BY <1>1, <2>1, FramesFact
  <2> QED BY <2>2, DirectoriesAssumption, SizeType DEF CallInv
<1> SUFFICES ASSUME ~NoSuchDir PROVE TooMuch
  OBVIOUS
<1>4. /\ q \in DOMAIN tree /\ q \in DOMAIN before /\ before[q] = tree[q]
      /\ tree[q] \in {"dir", "socket"}
  BY <1>2
<1>5. Len(q) - Len(Target) = k - 1
  <2> HIDE DEF k, q
  <2> QED BY <1>2, <1>3
<1> HIDE DEF q
<1>6. CASE ~(Len(Top.text) <= Size)
  <2>1. Len(TextAt(k)) > Size
    <3> HIDE DEF k
    <3> QED BY <1>2, <1>3, <1>6
  <2>2. Len(arg) + 2 * (Len(q) - Len(Target)) > Size
    <3>1. 2 * (Len(q) - Len(Target)) = 2 * (k - 1)
      BY <1>5
    <3> HIDE DEF k
    <3> QED BY <1>2, <1>3, <2>1, <3>1
  <2> QED BY Zenon, <1>2, <1>4, <2>2 DEF TooMuch
<1>7. CASE ~IsDirText(Top.text)
  <2>1. TreeOK
    BY DEF CallInv
  <2>2. tree[q] # "dir"
    <3>1. Names(TextAt(k)) = q
      BY DEF q, LeadsTo
    <3> QED BY Zenon, <1>2, <1>3, <1>4, <1>7, <2>1, <3>1, DirText
  <2>3. before[q] = "socket"
    BY <1>4, <2>2
  <2> QED BY Zenon, <1>2, <1>4, <2>3 DEF TooMuch
<1>8. CASE ~(Open + leaked < MaxDirs)
  <2>1. Open = k - 1
    <3>1. Top.stream # "open"
      OBVIOUS
    <3> QED BY Zenon, <1>1, <3>1, OpenCount
  <2>2. Len(q) - Len(Target) + leaked >= MaxDirs
    <3> HIDE DEF k
    <3> QED BY <1>2, <1>3, <1>5, <1>8, <2>1
  <2> QED BY Zenon, <1>2, <1>4, <2>2 DEF TooMuch
<1> QED BY <1>6, <1>7, <1>8

(* The last frame is changed, but not its text.                             *)
LEMMA TopSet ==
    ASSUME CallInv, pc \in {"remove", "rmdir"}, NEW f \in FrameType, SetTop(f), f.text = Top.text
    PROVE  /\ Len(frames') = Len(frames) /\ frames'[Len(frames)] = f /\ Top' = f
           /\ \A i \in 1..Len(frames) : i < Len(frames) => frames'[i] = frames[i]
           /\ \A i \in 1..Len(frames) : /\ frames'[i].text = frames[i].text
                                        /\ TextAt(i)' = TextAt(i) /\ LeadsTo(i)' = LeadsTo(i)
<1>1. frames \in Seq(FrameType) /\ Len(frames) \in Nat \ {0}
  BY FramesFact
<1>2. /\ Len(frames') = Len(frames) /\ frames'[Len(frames)] = f
      /\ \A i \in 1..(Len(frames) - 1) : frames'[i] = frames[i]
  <2>1. Len(frames) > 0
    BY <1>1
  <2> QED BY Zenon, <1>1, <2>1, NewTop
<1>3. ASSUME NEW i \in 1..Len(frames), i < Len(frames) PROVE frames'[i] = frames[i]
  <2>1. i \in 1..(Len(frames) - 1)
    BY <1>1, <1>3
  <2> QED BY Zenon, <1>2, <2>1
<1>4. ASSUME NEW i \in 1..Len(frames) PROVE frames'[i].text = frames[i].text
  <2>1. i = Len(frames) \/ i < Len(frames)
    BY <1>1, <1>4
  <2> QED BY Zenon, <1>2, <1>3, <1>4, <2>1 DEF Top
<1>5. ASSUME NEW i \in 1..Len(frames) PROVE TextAt(i)' = TextAt(i) /\ LeadsTo(i)' = LeadsTo(i)
  <2>1. TextAt(i)' = TextAt(i)
    BY Zenon, <1>4, <1>5 DEF TextAt
  <2> QED BY Zenon, <2>1 DEF LeadsTo
<1>6. Top' = f
  BY Zenon, <1>2 DEF Top
<1> QED BY Zenon, <1>2, <1>3, <1>4, <1>5, <1>6

(* What is in the directory of a frame is not in one of the directories above
   it, nor is it one of them.                                               *)
LEMMA FurtherDown ==
    ASSUME CallInv, pc \in {"remove", "rmdir"}, Clean,
           NEW k \in 1..Len(frames), NEW j \in 1..Len(frames), j < k,
           NEW c \in DOMAIN tree, Parent(c) = LeadsTo(k) \/ (c = LeadsTo(k) /\ j < k - 1)
    PROVE  Parent(c) # LeadsTo(j) /\ c # LeadsTo(j)
<1>1. TextOK(k) /\ TextOK(j)
  BY DEF Clean
<1>2. Len(LeadsTo(k)) = Len(Target) + (k - 1) /\ Len(LeadsTo(j)) = Len(Target) + (j - 1)
  BY Zenon, <1>1 DEF TextOK
<1>3. Len(Target) \in Nat /\ Len(frames) \in Nat
  BY FramesFact
<1>4. c \in Places
  BY DEF CallInv, TreeOK
<1>5. Len(c) = Len(Parent(c)) + 1 /\ Len(c) \in Nat
  BY Zenon, <1>4, PlaceSplits, PlaceFact
<1>6. CASE Parent(c) = LeadsTo(k)
  <2>1. Len(Parent(c)) = Len(Target) + (k - 1)
    BY Zenon, <1>2, <1>6
  <2>2. Len(Parent(c)) # Len(LeadsTo(j)) /\ Len(c) # Len(LeadsTo(j))
    BY <1>2, <1>3, <1>5, <2>1
  <2> QED BY Zenon, <2>2
<1>7. CASE c = LeadsTo(k) /\ j < k - 1
  <2>1. Len(c) = Len(Target) + (k - 1)
    BY Zenon, <1>2, <1>7
  <2>2. Len(Parent(c)) \in Int
    <3>1. Parent(c) \in Seq(Texts)
      BY Zenon, <1>4, PlaceSplits
    <3> QED BY <3>1, LenProperties
  <2>3. Len(Parent(c)) # Len(LeadsTo(j)) /\ Len(c) # Len(LeadsTo(j))
    BY <1>2, <1>3, <1>5, <1>7, <2>1, <2>2
  <2> QED BY Zenon, <2>3
<1> QED BY Zenon, <1>6, <1>7

(* The frames stay clean when the last one has listed what is there, also
   when a file in its directory is removed.                                 *)
LEMMA CleanSet ==
    ASSUME CallInv, pc \in {"remove", "rmdir"}, Shrunk, Clean, arg' = arg,
           NEW f \in FrameType, SetTop(f), f.text = Top.text, f.stream # "none",
           NEW gone, gone \subseteq DOMAIN tree, DOMAIN tree' = DOMAIN tree \ gone,
           \A q \in DOMAIN tree' : tree'[q] = tree[q],
           \A c \in gone : tree[c] = "file" /\ Parent(c) = LeadsTo(Len(frames)),
           IsDirectory(LeadsTo(Len(frames))),
           f.stream = "open" =>
              /\ \A e \in f.left : /\ EntryAt(Len(frames), e) \in DOMAIN tree'
                                   /\ tree'[EntryAt(Len(frames), e)] = e[2]
              /\ \A c \in DOMAIN tree' : Parent(c) = LeadsTo(Len(frames)) =>
                    \E e \in f.left : c = EntryAt(Len(frames), e),
           f.stream = "closed" => \A c \in DOMAIN tree' : Parent(c) # LeadsTo(Len(frames))
    PROVE  Clean'
<1> DEFINE k == Len(frames)
<1>1. /\ Len(frames') = k /\ frames'[k] = f /\ Top' = f
      /\ \A i \in 1..k : i < k => frames'[i] = frames[i]
      /\ \A i \in 1..k : /\ frames'[i].text = frames[i].text
                         /\ TextAt(i)' = TextAt(i) /\ LeadsTo(i)' = LeadsTo(i)
  BY Zenon, TopSet
<1>2. k \in Nat \ {0}
  BY FramesFact
<1>3. 1 \in 1..k /\ k \in 1..k
  BY <1>2
<1>4. TextAt(1)' = arg'
  BY Zenon, <1>1, <1>3 DEF Clean
<1>5. \A j \in 1..k : TextOK(j)'
  <2>1. k \in Nat /\ k <= Len(frames) /\ Len(frames) \in Nat /\ Len(frames') \in Nat
    BY <1>1, <1>2
  <2>2. ASSUME NEW j \in 1..k
        PROVE  /\ frames'[j].text = frames[j].text /\ TextOK(j)
               /\ j < Len(frames') => ~Long(TextAt(j))
               /\ j > 1 => LeadsTo(j) \in DOMAIN tree' /\ tree'[LeadsTo(j)] = tree[LeadsTo(j)]
    <3>1. TextOK(j)
      BY Zenon, <2>2 DEF Clean
    <3>2. j > 1 => LeadsTo(j) \in DOMAIN tree /\ tree[LeadsTo(j)] \in {"dir", "socket"}
      BY Zenon, <3>1 DEF TextOK
    <3>3. j > 1 => LeadsTo(j) \notin gone
      BY <3>2
    <3>4. j < k => ~Long(TextAt(j))
      BY Zenon, <3>1 DEF TextOK
    <3> QED BY Zenon, <1>1, <2>2, <3>1, <3>2, <3>3, <3>4
  <2> HIDE DEF k
  <2> QED BY <2>1, <2>2, TextsKept
<1>6. \A j \in 1..(k - 1) : ListOK(j)'
  <2> DEFINE n == k - 1
  <2>1. n \in Nat /\ n < Len(frames) /\ Len(frames') \in Nat /\ n < Len(frames')
    BY <1>1, <1>2
  <2>2. ASSUME NEW j \in 1..n
        PROVE  /\ frames'[j] = frames[j] /\ frames'[j + 1].text = frames[j + 1].text /\ ListOK(j)
               /\ \A c \in gone : Parent(c) # LeadsTo(j) /\ c # LeadsTo(j)
    <3>1. j \in 1..k /\ j + 1 \in 1..k /\ j < k
      BY <1>2, <2>2
    <3>2. ListOK(j)
      BY Zenon, <3>1 DEF Clean
    <3>3. ASSUME NEW c \in gone PROVE Parent(c) # LeadsTo(j) /\ c # LeadsTo(j)
      <4>1. c \in DOMAIN tree /\ Parent(c) = LeadsTo(k)
        BY <3>3
      <4> QED BY ZenonT(60), <1>3, <3>1, <4>1, FurtherDown
    <3> QED BY Zenon, <1>1, <3>1, <3>2, <3>3
  <2> HIDE DEF n
  <2>3. \A j \in 1..n : ListOK(j)'
    BY <2>1, <2>2, ListsKept
  <2> QED BY <2>3 DEF n
<1>7. ListOK(k)'
  <2>1. \A e : EntryAt(k, e)' = EntryAt(k, e)
    BY Zenon, <1>1, <1>3 DEF EntryAt
  <2>2. LeadsTo(k)' = LeadsTo(k) /\ ~(k < Len(frames)')
    <3>1. ~(k < k)
      BY <1>2
    <3> QED BY Zenon, <1>1, <1>3, <3>1
  <2>3. IsDirectory(LeadsTo(k))'
    <3>1. LeadsTo(k) = <<>> \/ (LeadsTo(k) \in DOMAIN tree /\ tree[LeadsTo(k)] = "dir")
      BY DEF IsDirectory
    <3>2. LeadsTo(k) = <<>> \/ (LeadsTo(k) \in DOMAIN tree' /\ tree'[LeadsTo(k)] = "dir")
      BY <3>1
    <3> QED BY Zenon, <2>2, <3>2 DEF IsDirectory
  <2>4. ASSUME f.stream = "open" PROVE Listed(k)'
    <3>1. /\ \A e \in f.left : EntryAt(k, e)' \in DOMAIN tree' /\ tree'[EntryAt(k, e)'] = e[2]
          /\ \A c \in DOMAIN tree' : Parent(c) = LeadsTo(k)' => \E e \in f.left : c = EntryAt(k, e)'
      BY Zenon, <2>1, <2>2, <2>4
    <3> QED BY Zenon, <1>1, <2>2, <3>1 DEF Listed
  <2>5. f.stream = "closed" => \A c \in DOMAIN tree' : Parent(c) # LeadsTo(k)'
    BY Zenon, <2>2
  <2> QED BY Zenon, <1>1, <2>3, <2>4, <2>5 DEF ListOK
<1>8. \A j \in 1..Len(frames)' : TextOK(j)' /\ ListOK(j)'
  <2>1. \A j \in 1..k : j \in 1..(k - 1) \/ j = k
    BY <1>2
  <2> QED BY Zenon, <1>1, <1>5, <1>6, <1>7, <2>1
<1>9. Top'.stream # "none"
  BY <1>1
<1> QED BY Zenon, <1>4, <1>8, <1>9 DEF Clean

(* The step that opens a directory stream.                                  *)
LEMMA OpenRight ==
    ASSUME OneLetterNames, RemoveInv, ListOpen
    PROVE  RemovesBelow' /\ RemoveDirExact'
<1> DEFINE k == Len(frames)
           list == {<<c[Len(c)], tree[c]>> : c \in Children(Names(Top.text))}
           f == [text |-> Top.text, stream |-> "open", left |-> list]
           fits == Len(Top.text) <= Size /\ IsDirText(Top.text) /\ Open + leaked < MaxDirs
<1>1. /\ pc = "remove" /\ Top.stream = "none"
      /\ arg' = arg /\ tree' = tree /\ before' = before /\ alone' = alone
      /\ leaked' = leaked /\ answer' = answer
      /\ \/ fits /\ SetTop(f) /\ pc' = pc
         \/ ~fits /\ pc' = "crashed" /\ frames' = frames
  BY Zenon DEF ListOpen, fsvars, history
<1>2. CallInv /\ Answered /\ RemovesBelow /\ pc \in {"remove", "rmdir"}
  BY <1>1 DEF RemoveInv
<1>3. CASE ~(alone /\ Plain(arg))
  BY Zenon, <1>1, <1>3, Disturbed
<1>4. CASE alone /\ Plain(arg)
  <2>1. Shrunk /\ (Clean \/ Stuck)
    BY Zenon, <1>2, <1>4 DEF RemovesBelow, Removing
  <2>2. arg \in Texts /\ leaked \in Nat /\ leaked >= leaked
    BY <1>2 DEF CallInv, EditInv
  <2>3. Target' = Target /\ (NoSuchDir' <=> NoSuchDir) /\ (TooMuch => TooMuch') /\ Shrunk'
    BY <1>1, <2>1, <2>2, Carried
  <2>4. answer.kind = "none"
    BY <1>1, <1>2 DEF Answered
  <2>5. CASE ~fits /\ pc' = "crashed" /\ frames' = frames
    <3>1. NoSuchDir \/ TooMuch
      <4>1. Clean => NoSuchDir \/ TooMuch
        BY Zenon, <1>1, <1>2, <2>1, <2>5, CannotOpen
      <4>2. Stuck => TooMuch
        BY Zenon DEF Stuck
      <4> QED BY Zenon, <2>1, <4>1, <4>2
    <3>2. NotRemoved'
      <4>1. answer'.kind # "rmdir" /\ answer'.kind = "none"
        BY <1>1, <2>4
      <4> QED BY Zenon, <1>1, <2>2, <2>3, <2>5, <3>1, <4>1 DEF NotRemoved
    <3>3. RemovesBelow'
      BY <2>5 DEF RemovesBelow, Removing
    <3> QED BY Zenon, <3>2, <3>3, ExactNext
  <2>6. CASE fits /\ SetTop(f) /\ pc' = pc
    <3>1. RemoveDirExact'
      BY <1>1, <2>4, <2>6 DEF RemoveDirExact
    <3>2. /\ k \in Nat \ {0} /\ k \in 1..k /\ TextAt(k) = Top.text /\ LeadsTo(k) = Names(Top.text)
          /\ LeadsTo(k) \in Seq(Texts) /\ Top.text \in Texts
      <4>1. k \in Nat \ {0}
        BY <1>2, FramesFact
      <4>2. k \in 1..k
        BY <4>1
      <4>3. TextAt(k) = Top.text
        BY DEF TextAt, Top
      <4>4. TextAt(k) \in Texts /\ LeadsTo(k) \in Seq(Texts)
        BY <1>2, <4>2, FramesFact
      <4> QED BY Zenon, <4>1, <4>2, <4>3, <4>4 DEF LeadsTo
    <3>3. ASSUME NEW c \in Children(Names(Top.text))
          PROVE  /\ c \in DOMAIN tree /\ c \in Places /\ Parent(c) = LeadsTo(k)
                 /\ c[Len(c)] \in FileName /\ Len(c[Len(c)]) = 1 /\ tree[c] \in Kinds
                 /\ EntryAt(k, <<c[Len(c)], tree[c]>>) = c
      <4>1. c \in DOMAIN tree /\ Parent(c) = LeadsTo(k)
        BY <3>2, <3>3 DEF Children
      <4>2. c \in Places /\ tree[c] \in Kinds
        BY <1>2, <4>1 DEF CallInv, TreeOK
      <4>3. c = Append(Parent(c), c[Len(c)]) /\ c[Len(c)] \in FileName
        BY Zenon, <4>2, PlaceSplits
      <4>4. Len(c[Len(c)]) = 1
        <5>1. Len(c) \in 1..Len(c)
          <6>1. Len(c) \in Nat \ {0}
            BY Zenon, <4>2, PlaceFact
          <6> QED BY <6>1
        <5> QED BY Zenon, <4>2, <5>1 DEF OneLetterNames
      <4>5. <<c[Len(c)], tree[c]>>[1] = c[Len(c)]
        OBVIOUS
      <4> QED BY Zenon, <4>1, <4>2, <4>3, <4>4, <4>5 DEF EntryAt
    <3>4. f \in FrameType /\ f.text = Top.text /\ f.stream = "open" /\ f.left = list
      <4>1. list \subseteq Texts \X Kinds
        BY <3>3, NameFact
      <4> HIDE DEF list
      <4> QED BY <3>2, <4>1 DEF FrameType
    <3>5. /\ \A e \in list : e[1] \in FileName /\ Len(e[1]) = 1
          /\ \A e \in list : EntryAt(k, e) \in DOMAIN tree /\ tree[EntryAt(k, e)] = e[2]
          /\ \A c \in DOMAIN tree : Parent(c) = LeadsTo(k) => \E e \in list : c = EntryAt(k, e)
      <4>1. ASSUME NEW e \in list
            PROVE  /\ e[1] \in FileName /\ Len(e[1]) = 1
                   /\ EntryAt(k, e) \in DOMAIN tree /\ tree[EntryAt(k, e)] = e[2]
        <5>1. PICK c \in Children(Names(Top.text)) : e = <<c[Len(c)], tree[c]>>
          BY Zenon, <4>1
        <5>2. EntryAt(k, e) = c
          BY Zenon, <3>3, <5>1
        <5>3. e[1] = c[Len(c)] /\ e[2] = tree[c]
          BY <5>1
        <5> QED BY Zenon, <3>3, <5>2, <5>3
      <4>2. ASSUME NEW c \in DOMAIN tree, Parent(c) = LeadsTo(k)
            PROVE  \E e \in list : c = EntryAt(k, e)
        <5>1. c # <<>>
          <6>1. c \in Places
            BY <1>2 DEF CallInv, TreeOK
          <6> QED BY Zenon, <6>1, PlaceFact
        <5>2. c \in Children(Names(Top.text))
          BY <3>2, <4>2, <5>1 DEF Children
        <5>3. <<c[Len(c)], tree[c]>> \in list
          BY <5>2
        <5> QED BY Zenon, <3>3, <5>2, <5>3
      <4> QED BY Zenon, <4>1, <4>2
    <3> HIDE DEF f, list, k, fits
    <3>6. IsDirectory(LeadsTo(k))
      BY Zenon, <2>6, <3>2 DEF fits, IsDirText
    <3>7. ASSUME Clean PROVE Clean'
      <4> DEFINE gone == {}
      <4>1. gone \subseteq DOMAIN tree /\ DOMAIN tree' = DOMAIN tree \ gone
        BY <1>1
      <4>2. \A q \in DOMAIN tree' : tree'[q] = tree[q]
        BY <1>1
      <4>3. \A c \in gone : tree[c] = "file" /\ Parent(c) = LeadsTo(Len(frames))
        OBVIOUS
      <4>4. /\ f.stream = "open" =>
                  /\ \A e \in f.left : /\ EntryAt(Len(frames), e) \in DOMAIN tree'
                                       /\ tree'[EntryAt(Len(frames), e)] = e[2]
                  /\ \A c \in DOMAIN tree' : Parent(c) = LeadsTo(Len(frames)) =>
                        \E e \in f.left : c = EntryAt(Len(frames), e)
            /\ IsDirectory(LeadsTo(Len(frames)))
        BY Zenon, <1>1, <3>4, <3>5, <3>6 DEF k
      <4>5. f.stream # "none" /\ (f.stream = "closed" => \A c \in DOMAIN tree' : Parent(c) # LeadsTo(Len(frames)))
        BY <3>4
      <4>6. SetTop(f) /\ f.text = Top.text /\ f \in FrameType
        BY Zenon, <2>6, <3>4
      <4>7. CallInv /\ pc \in {"remove", "rmdir"} /\ Shrunk /\ arg' = arg
        BY Zenon, <1>1, <1>2, <2>1
      <4> HIDE DEF gone
      <4> QED BY Zenon, <3>7, <4>1, <4>2, <4>3, <4>4, <4>5, <4>6, <4>7, CleanSet
    <3>8. ASSUME Stuck PROVE Stuck'
      <4>1. Top' = f
        BY Zenon, <1>2, <2>6, <3>4, TopSet
      <4>2. Top'.text = Top.text /\ Top'.left = list
        BY Zenon, <3>4, <4>1
      <4>3. /\ Plain(Top.text) /\ Long(Top.text) /\ IsDirectory(Names(Top.text))
            /\ \E c \in DOMAIN tree : Parent(c) = Names(Top.text)
            /\ TooMuch
        BY Zenon, <3>8 DEF Stuck
      <4>4. IsDirectory(Names(Top.text))'
        BY Zenon, <1>1, <4>2, <4>3 DEF IsDirectory
      <4>5. pc' # "rmdir"
        BY <1>1, <2>6
      <4> QED BY Zenon, <1>1, <2>3, <3>5, <4>2, <4>3, <4>4, <4>5 DEF Stuck
    <3> QED BY Zenon, <2>1, <2>3, <3>1, <3>7, <3>8 DEF RemovesBelow
  <2> QED BY Zenon, <1>1, <2>5, <2>6
<1> QED BY <1>3, <1>4

(* A call that fails and has removed nothing but what is below the target.  *)
LEMMA Fails ==
    ASSUME CallInv, pc \in {"remove", "rmdir"}, Shrunk, RemoveFails(Open),
           tree' = tree, before' = before,
           Removal = "remove" => NoSuchDir \/ TooMuch,
           Removal = "rmdir" => NoSuchDir \/ \E q \in DOMAIN before : Begin(Target, q) /\ q # Target
    PROVE  RemovesBelow' /\ RemoveDirExact'
<1>1. /\ pc' = "idle" /\ answer' = [kind |-> Removal, ok |-> FALSE] /\ arg' = arg
      /\ leaked' = leaked + Open
  BY Zenon DEF RemoveFails, Return
<1>2. arg \in Texts /\ leaked \in Nat /\ Open \in Nat
  BY Zenon, OpenCount DEF CallInv, EditInv
<1>3. leaked' \in Nat /\ leaked' >= leaked
  BY <1>1, <1>2
<1>4. Target' = Target /\ (NoSuchDir' <=> NoSuchDir) /\ (TooMuch => TooMuch') /\ Shrunk'
  BY Zenon, <1>1, <1>2, <1>3, Carried
<1>5. answer'.kind = Removal /\ answer'.ok = FALSE /\ pc' # "crashed"
  BY <1>1
<1>6. NotRemoved'
  BY Zenon, <1>1, <1>2, <1>4, <1>5 DEF NotRemoved
<1>7. RemovesBelow'
  BY <1>1 DEF RemovesBelow, Removing
<1> QED BY Zenon, <1>6, <1>7, ExactNext

(* The last name behind a directory                                         *)
LEMMA EntryLast ==
    ASSUME NEW q \in Seq(Texts), NEW name \in Texts
    PROVE  Append(q, name)[Len(q) + 1] = name
  BY AppendProperties

(* No two entries of a directory have the same path.                        *)
LEMMA EntryOnce ==
    ASSUME CallInv, pc \in {"remove", "rmdir"}, NEW k \in 1..Len(frames), Listed(k),
           NEW e \in frames[k].left, NEW d \in frames[k].left, EntryAt(k, e) = EntryAt(k, d)
    PROVE  e = d
<1>1. /\ LeadsTo(k) \in Seq(Texts) /\ e[1] \in Texts /\ d[1] \in Texts
      /\ e = <<e[1], e[2]>> /\ d = <<d[1], d[2]>>
  BY FramesFact
<1>2. EntryAt(k, e)[Len(LeadsTo(k)) + 1] = e[1] /\ EntryAt(k, d)[Len(LeadsTo(k)) + 1] = d[1]
  BY Zenon, <1>1, EntryLast DEF EntryAt
<1>3. tree[EntryAt(k, e)] = e[2] /\ tree[EntryAt(k, d)] = d[2]
  BY Zenon DEF Listed
<1>4. e[1] = d[1] /\ e[2] = d[2]
  BY Zenon, <1>2, <1>3
<1> QED BY <1>1, <1>4

(* What RemoveEntry finds of an entry: it is there, in the directory.       *)
LEMMA EntryFact ==
    ASSUME CallInv, OneLetterNames, pc = "remove", Shrunk, Clean, Top.stream = "open", NEW e \in Top.left
    PROVE  LET k == Len(frames)
               q == EntryAt(k, e)
           IN  /\ e[1] \in FileName /\ Len(e[1]) = 1 /\ e[2] = tree[q]
               /\ q \in DOMAIN tree /\ q \in DOMAIN before /\ before[q] = tree[q]
               /\ Parent(q) = LeadsTo(k) /\ Begin(Target, q) /\ q # Target
               /\ Len(q) = Len(Target) + k /\ q = Append(LeadsTo(k), e[1])
               /\ Listed(k) /\ k \in 1..Len(frames)
<1> DEFINE k == Len(frames)
           q == EntryAt(k, e)
<1>1. pc \in {"remove", "rmdir"}
  OBVIOUS
<1>2. /\ k \in Nat \ {0} /\ Top = frames[k] /\ ListOK(k)
      /\ Begin(Target, LeadsTo(k)) /\ Len(LeadsTo(k)) = Len(Target) + (k - 1)
  BY Zenon, <1>1, CleanTop
<1>3. k \in 1..Len(frames)
  BY <1>2
<1>4. Listed(k) /\ e \in frames[k].left
  BY Zenon, <1>2 DEF ListOK
<1>5. q \in DOMAIN tree /\ tree[q] = e[2]
  BY Zenon, <1>4 DEF Listed
<1>6. q \in Places /\ q \in DOMAIN before /\ before[q] = tree[q]
  BY Zenon, <1>5 DEF Shrunk, CallInv, TreeOK
<1>7. /\ LeadsTo(k) \in Seq(Texts) /\ Target \in Seq(Texts) /\ e[1] \in Texts
      /\ Len(Target) \in Nat
  BY <1>1, <1>3, <1>4, FramesFact
<1>8. q = Append(LeadsTo(k), e[1])
  BY DEF EntryAt
<1>9. Parent(q) = LeadsTo(k) /\ Len(q) = Len(LeadsTo(k)) + 1
  BY Zenon, <1>7, <1>8, EntrySplits
<1>10. q[Len(q)] = e[1]
  <2>1. q[Len(LeadsTo(k)) + 1] = e[1]
    BY Zenon, <1>7, <1>8, EntryLast
  <2> QED BY Zenon, <1>9, <2>1
<1>11. q[Len(q)] \in FileName /\ Len(q) \in 1..Len(q)
  <2>1. Len(q) \in Nat \ {0} /\ q[Len(q)] \in FileName
    BY Zenon, <1>6, PlaceFact, PlaceSplits
  <2> QED BY <2>1
<1>12. e[1] \in FileName /\ Len(e[1]) = 1
  BY Zenon, <1>6, <1>10, <1>11 DEF OneLetterNames
<1>13. Begin(LeadsTo(k), q) /\ q \in Seq(Texts)
  BY Zenon, <1>6, <1>7, <1>8, BeginFact, PlaceFact
<1>14. Begin(Target, q)
  BY Zenon, <1>2, <1>7, <1>13, BeginTransitive
<1>15. Len(q) = Len(Target) + k /\ Len(q) # Len(Target)
  <2> HIDE DEF k, q
  <2> QED BY <1>2, <1>7, <1>9
<1> QED BY Zenon, <1>3, <1>4, <1>5, <1>6, <1>8, <1>9, <1>12, <1>14, <1>15

(* The frames after a call of RemoveDir for an entry.                       *)
LEMMA Pushed ==
    ASSUME CallInv, pc \in {"remove", "rmdir"}, NEW f \in FrameType, NEW g \in FrameType, f.text = Top.text,
           frames' = Append([frames EXCEPT ![Len(frames)] = f], g)
    PROVE  /\ Len(frames') = Len(frames) + 1 /\ frames'[Len(frames) + 1] = g
           /\ frames'[Len(frames)] = f /\ Top' = g
           /\ \A i \in 1..Len(frames) : i < Len(frames) => frames'[i] = frames[i]
           /\ \A i \in 1..Len(frames) : /\ frames'[i].text = frames[i].text
                                        /\ TextAt(i)' = TextAt(i) /\ LeadsTo(i)' = LeadsTo(i)
<1> DEFINE mid == [frames EXCEPT ![Len(frames)] = f]
           n == Len(frames)
<1>1. frames \in Seq(FrameType) /\ n \in Nat \ {0}
  BY FramesFact
<1>2. /\ mid \in Seq(FrameType) /\ Len(mid) = n /\ mid[n] = f
      /\ \A i \in 1..n : i < n => mid[i] = frames[i]
  BY <1>1
<1>3. frames' = Append(mid, g)
  OBVIOUS
<1> HIDE DEF mid
<1>4. /\ Len(frames') = n + 1 /\ frames'[n + 1] = g
      /\ \A i \in 1..n : frames'[i] = mid[i]
  BY <1>1, <1>2, <1>3, AppendProperties
<1>5. n \in 1..n
  BY <1>1
<1>6. ASSUME NEW i \in 1..n PROVE frames'[i].text = frames[i].text
  <2>1. i = n \/ i < n
    BY <1>1, <1>6
  <2> QED BY Zenon, <1>2, <1>4, <1>6, <2>1 DEF Top
<1>7. ASSUME NEW i \in 1..n PROVE TextAt(i)' = TextAt(i) /\ LeadsTo(i)' = LeadsTo(i)
  <2>1. TextAt(i)' = TextAt(i)
    BY Zenon, <1>6, <1>7 DEF TextAt
  <2> QED BY Zenon, <2>1 DEF LeadsTo
<1>8. Top' = g
  BY Zenon, <1>4 DEF Top
<1> QED BY Zenon, <1>2, <1>4, <1>5, <1>6, <1>7, <1>8

(* The frames stay clean when one is added for an entry whose name fits.    *)
LEMMA CleanPushed ==
    ASSUME CallInv, OneLetterNames, pc = "remove", pc' = pc, Shrunk, Clean, Top.stream = "open",
           arg' = arg, tree' = tree, NEW e \in Top.left, e[2] \in {"dir", "socket"}, ~Long(Top.text),
           NEW s \in Texts, Plain(s), Names(s) = EntryAt(Len(frames), e), Len(s) <= Len(Top.text) + 2,
           NEW f \in FrameType, f.text = Top.text, f.stream = "open", f.left = Top.left \ {e},
           frames' = Append([frames EXCEPT ![Len(frames)] = f], Frame(s))
    PROVE  Clean'
<1>0. PICK k : k = Len(frames)
  OBVIOUS
<1> DEFINE g == Frame(s)
           q == EntryAt(k, e)
<1>1. pc \in {"remove", "rmdir"}
  OBVIOUS
<1>2. g \in FrameType /\ g.text = s /\ g.stream = "none" /\ g.left = {}
  BY DEF Frame, FrameType
<1> HIDE DEF g
<1>3. /\ Len(frames') = k + 1 /\ frames'[k + 1] = g /\ frames'[k] = f /\ Top' = g
      /\ \A i \in 1..k : i < k => frames'[i] = frames[i]
      /\ \A i \in 1..k : /\ frames'[i].text = frames[i].text
                         /\ TextAt(i)' = TextAt(i) /\ LeadsTo(i)' = LeadsTo(i)
  <2>1. frames' = Append([frames EXCEPT ![Len(frames)] = f], g)
    BY Zenon DEF g
  <2> QED BY Zenon, <1>0, <1>1, <1>2, <2>1, Pushed
<1>4. /\ k \in Nat \ {0} /\ Top = frames[k] /\ Top.text = TextAt(k)
      /\ TextOK(k) /\ ListOK(k) /\ Len(TextAt(k)) <= Len(arg) + 2 * (k - 1)
  BY Zenon, <1>0, <1>1, CleanTop
<1>5. /\ q \in DOMAIN tree /\ tree[q] = e[2] /\ Parent(q) = LeadsTo(k) /\ Begin(Target, q)
      /\ Len(q) = Len(Target) + k /\ Listed(k)
  BY Zenon, <1>0, EntryFact
<1>6. 1 \in 1..k /\ k \in 1..k /\ Len(arg) \in Nat /\ Len(TextAt(k)) \in Nat /\ Len(s) \in Nat
  <2>1. 1 \in 1..k /\ k \in 1..k
    BY <1>4
  <2> QED BY <1>0, <1>1, <2>1, FramesFact, LenProperties DEF Texts
<1>7. TextAt(1)' = arg'
  BY Zenon, <1>3, <1>6 DEF Clean
<1>8. TextAt(k + 1)' = s /\ LeadsTo(k + 1)' = q /\ Target' = Target
  <2>1. TextAt(k + 1)' = s
    BY Zenon, <1>2, <1>3 DEF TextAt
  <2>2. Names(s) = q
    BY Zenon, <1>0
  <2>3. LeadsTo(k + 1)' = Names(TextAt(k + 1)')
    BY DEF LeadsTo
  <2>4. Target' = Target
    BY DEF Target
  <2> QED BY Zenon, <2>1, <2>2, <2>3, <2>4
<1>9. \A j \in 1..k : TextOK(j)'
  <2>1. k \in Nat /\ k <= Len(frames) /\ Len(frames) \in Nat /\ Len(frames') \in Nat
    BY <1>0, <1>3, <1>4
  <2>2. ASSUME NEW j \in 1..k
        PROVE  /\ frames'[j].text = frames[j].text /\ TextOK(j)
               /\ j < Len(frames') => ~Long(TextAt(j))
               /\ j > 1 => LeadsTo(j) \in DOMAIN tree' /\ tree'[LeadsTo(j)] = tree[LeadsTo(j)]
    <3>1. TextOK(j)
      BY Zenon, <1>0, <2>2 DEF Clean
    <3>2. j > 1 => LeadsTo(j) \in DOMAIN tree
      BY Zenon, <3>1 DEF TextOK
    <3>3. ~Long(TextAt(j))
      <4>1. j < k => ~Long(TextAt(j))
        BY Zenon, <1>0, <3>1 DEF TextOK
      <4>2. j = k \/ j < k
        BY <1>4, <2>2
      <4> QED BY Zenon, <1>4, <4>1, <4>2
    <3> QED BY Zenon, <1>3, <2>2, <3>1, <3>2, <3>3
  <2> QED BY <2>1, <2>2, TextsKept
<1>10. TextOK(k + 1)'
  <2>1. (k + 1) - 1 = k /\ ~(k + 1 < Len(frames)')
    BY <1>3, <1>4
  <2>2. Len(s) <= Len(arg) + 2 * ((k + 1) - 1)
    <3>1. Len(s) <= Len(TextAt(k)) + 2
      BY Zenon, <1>4
    <3> QED BY <1>4, <1>6, <3>1
  <2>3. LeadsTo((k + 1) - 1)' = LeadsTo(k)
    BY Zenon, <1>3, <1>6, <2>1
  <2>4. /\ Parent(q) = LeadsTo((k + 1) - 1)'
        /\ q \in DOMAIN tree' /\ tree'[q] \in {"dir", "socket"}
    BY Zenon, <1>5, <2>3
  <2>5. Len(q) = Len(Target) + ((k + 1) - 1)
    BY Zenon, <1>5, <2>1
  <2> HIDE DEF q
  <2> QED BY Zenon, <1>5, <1>8, <2>1, <2>2, <2>4, <2>5 DEF TextOK
<1>11. \A j \in 1..(k - 1) : ListOK(j)'
  <2> DEFINE n == k - 1
             gone == {}
  <2>1. n \in Nat /\ n < Len(frames) /\ Len(frames') \in Nat /\ n < Len(frames')
    BY <1>0, <1>3, <1>4
  <2>2. DOMAIN tree' = DOMAIN tree \ gone /\ \A r \in DOMAIN tree' : tree'[r] = tree[r]
    OBVIOUS
  <2>3. ASSUME NEW j \in 1..n
        PROVE  /\ frames'[j] = frames[j] /\ frames'[j + 1].text = frames[j + 1].text /\ ListOK(j)
               /\ \A c \in gone : Parent(c) # LeadsTo(j) /\ c # LeadsTo(j)
    <3>1. j \in 1..k /\ j + 1 \in 1..k /\ j < k
      BY <1>4, <2>3
    <3>2. ListOK(j)
      BY Zenon, <1>0, <3>1 DEF Clean
    <3>3. \A c \in gone : Parent(c) # LeadsTo(j) /\ c # LeadsTo(j)
      OBVIOUS
    <3> QED BY Zenon, <1>3, <3>1, <3>2, <3>3
  <2> HIDE DEF n, gone
  <2>4. \A j \in 1..n : ListOK(j)'
    BY <1>1, <2>1, <2>2, <2>3, ListsKept
  <2> QED BY <2>4 DEF n
<1>12. ListOK(k)'
  <2>1. \A d : EntryAt(k, d)' = EntryAt(k, d)
    BY Zenon, <1>3, <1>6 DEF EntryAt
  <2>2. LeadsTo(k)' = LeadsTo(k) /\ k < Len(frames)' /\ ~(k < Len(frames))
    <3>1. k < k + 1 /\ ~(k < k)
      BY <1>4
    <3> QED BY Zenon, <1>0, <1>3, <1>6, <3>1
  <2>3. IsDirectory(LeadsTo(k))'
    <3>1. IsDirectory(LeadsTo(k))
      <4>1. frames[k].stream # "none"
        BY <1>4
      <4> QED BY Zenon, <1>4, <4>1 DEF ListOK
    <3> QED BY Zenon, <2>2, <3>1 DEF IsDirectory
  <2>4. ASSUME NEW d \in Top.left \ {e}
        PROVE  /\ EntryAt(k, d) \in DOMAIN tree /\ tree[EntryAt(k, d)] = d[2]
               /\ q # EntryAt(k, d)
    <3>1. d \in frames[k].left /\ e \in frames[k].left /\ d # e
      BY Zenon, <1>4, <2>4
    <3>2. EntryAt(k, d) \in DOMAIN tree /\ tree[EntryAt(k, d)] = d[2]
      BY Zenon, <1>5, <3>1 DEF Listed
    <3>3. q # EntryAt(k, d)
      BY Zenon, <1>0, <1>1, <1>5, <1>6, <3>1, EntryOnce
    <3> QED BY Zenon, <3>2, <3>3
  <2>5. ASSUME NEW c \in DOMAIN tree, Parent(c) = LeadsTo(k)
        PROVE  (\E d \in Top.left \ {e} : c = EntryAt(k, d)) \/ c = q
    <3>1. PICK d \in Top.left : c = EntryAt(k, d)
      BY Zenon, <1>4, <1>5, <2>2, <2>5 DEF Listed
    <3> QED BY <3>1
  <2>6. Listed(k)'
    <3>1. frames'[k].left = Top.left \ {e}
      BY <1>3
    <3>2. \A d \in Top.left \ {e} : /\ EntryAt(k, d)' \in DOMAIN tree' /\ tree'[EntryAt(k, d)'] = d[2]
                                    /\ LeadsTo(k + 1)' # EntryAt(k, d)'
      BY Zenon, <1>8, <2>1, <2>4
    <3>3. \A c \in DOMAIN tree' : Parent(c) = LeadsTo(k)' =>
             (\E d \in Top.left \ {e} : c = EntryAt(k, d)') \/ c = LeadsTo(k + 1)'
      BY Zenon, <1>8, <2>1, <2>2, <2>5
    <3> QED BY Zenon, <2>2, <3>1, <3>2, <3>3 DEF Listed
  <2>7. frames'[k].stream = "open"
    BY <1>3
  <2>8. frames'[k].stream # "closed"
    BY <2>7
  <2> QED BY Zenon, <2>3, <2>6, <2>7, <2>8 DEF ListOK
<1>13. ListOK(k + 1)'
  <2>1. frames'[k + 1].stream = "none" /\ "none" # "open" /\ "none" # "closed"
    BY <1>2, <1>3
  <2> QED BY Zenon, <2>1 DEF ListOK
<1>14. \A j \in 1..Len(frames)' : TextOK(j)' /\ ListOK(j)'
  <2>1. \A j \in 1..(k + 1) : j \in 1..(k - 1) \/ j = k \/ j = k + 1
    BY SMTT(30), <1>4
  <2>2. \A j \in 1..(k + 1) : j \in 1..k \/ j = k + 1
    BY <1>4
  <2> QED BY Zenon, <1>3, <1>9, <1>10, <1>11, <1>12, <1>13, <2>1, <2>2
<1>15. pc' # "rmdir"
  OBVIOUS
<1> QED BY Zenon, <1>7, <1>14, <1>15 DEF Clean

(* The frame of a directory, with an entry less to come.                    *)
LEMMA EntryFrame ==
    ASSUME CallInv, pc = "remove", Top.stream = "open", NEW e \in Top.left
    PROVE  LET f == [Top EXCEPT !.left = @ \ {e}]
           IN  /\ f \in FrameType /\ f.text = Top.text /\ f.stream = "open"
               /\ f.left = Top.left \ {e}
               /\ Top.text \in Texts /\ Len(Top.text) <= Size
               /\ e[1] \in Texts /\ e[2] \in Kinds
<1> DEFINE f == [Top EXCEPT !.left = @ \ {e}]
<1>1. PICK k : k = Len(frames)
  OBVIOUS
<1>2. k \in 1..Len(frames) /\ Top = frames[k] /\ Top.text = TextAt(k)
  <2>1. Len(frames) \in Nat \ {0}
    BY FramesFact
  <2> QED BY <1>1, <2>1 DEF Top, TextAt
<1>3. /\ Top \in FrameType /\ Top.text \in Texts /\ Len(Top.text) <= Size
      /\ e[1] \in Texts /\ e[2] \in Kinds
  <2>1. pc \in {"remove", "rmdir"}
    OBVIOUS
  <2>2. frames[k].stream = "open" /\ e \in frames[k].left
    BY Zenon, <1>2
  <2> QED BY Zenon, <1>2, <2>1, <2>2, FramesFact
<1>4. Top = [text |-> Top.text, stream |-> Top.stream, left |-> Top.left]
      /\ Top.left \subseteq Texts \X Kinds
  <2> DEFINE t == Top
  <2>1. t \in FrameType
    BY <1>3
  <2> HIDE DEF t
  <2>2. t = [text |-> t.text, stream |-> t.stream, left |-> t.left] /\ t.left \subseteq Texts \X Kinds
    BY <2>1 DEF FrameType
  <2> QED BY <2>2 DEF t
<1>5. f = [text |-> Top.text, stream |-> "open", left |-> Top.left \ {e}]
  BY <1>4
<1> HIDE DEF f
<1>6. f \in FrameType /\ f.text = Top.text /\ f.stream = "open" /\ f.left = Top.left \ {e}
  BY <1>3, <1>4, <1>5 DEF FrameType
<1> QED BY Zenon, <1>3, <1>6 DEF f

(* RemoveEntry where the names do not fit: the call is stuck or fails.      *)
LEMMA EntryStuck ==
    ASSUME RemoveInv, pc = "remove", Top.stream = "open", NEW e \in Top.left, alone, Plain(arg), Shrunk,
           Plain(Top.text), Long(Top.text), IsDirectory(Names(Top.text)),
           \E c \in DOMAIN tree : Parent(c) = Names(Top.text),
           e[1] \in FileName, Len(e[1]) = 1, TooMuch,
           arg' = arg, before' = before, NEW s, s = EntryPath(Top.text, e[1]), NEW f,
           \/ /\ frames' = Append([frames EXCEPT ![Len(frames)] = f], Frame(s))
              /\ f = [Top EXCEPT !.left = @ \ {e}]
              /\ tree' = tree /\ pc' = pc /\ leaked' = leaked /\ answer' = answer
           \/ Names(s) \in DOMAIN tree /\ tree[Names(s)] # "dir"
           \/ RemoveFails(Open) /\ tree' = tree
    PROVE  RemovesBelow' /\ RemoveDirExact'
<1>1. CallInv /\ Answered /\ pc \in {"remove", "rmdir"}
  BY DEF RemoveInv
<1>2. Top.text \in Texts /\ Len(Top.text) <= Size
  BY <1>1, EntryFrame
<1>3. s \in Texts /\ Plain(s) /\ Long(s) /\ Names(s) = Names(Top.text)
  BY <1>2, EntryLong
<1>4. ~(Names(s) \in DOMAIN tree /\ tree[Names(s)] # "dir")
  <2>1. Names(s) \in DOMAIN tree => Names(s) # <<>>
    BY <1>1, PlaceFact DEF CallInv, TreeOK
  <2> QED BY <1>3, <2>1 DEF IsDirectory
<1>5. CASE RemoveFails(Open) /\ tree' = tree
  <2>1. Removal = "remove"
    BY DEF Removal
  <2>2. Removal # "rmdir"
    BY <2>1
  <2> QED BY Zenon, <1>1, <1>5, <2>1, <2>2, Fails
<1>6. CASE /\ frames' = Append([frames EXCEPT ![Len(frames)] = f], Frame(s))
           /\ f = [Top EXCEPT !.left = @ \ {e}]
           /\ tree' = tree /\ pc' = pc /\ leaked' = leaked /\ answer' = answer
  <2>1. f \in FrameType /\ f.text = Top.text
    BY <1>1, <1>6, EntryFrame
  <2> DEFINE g == Frame(s)
  <2>2. g \in FrameType /\ g.text = s /\ g.stream = "none" /\ g.left = {}
    BY <1>3 DEF Frame, FrameType
  <2>3. frames' = Append([frames EXCEPT ![Len(frames)] = f], g)
    BY Zenon, <1>6 DEF g
  <2> HIDE DEF g
  <2>4. Top' = g
    BY Zenon, <1>1, <2>1, <2>2, <2>3, Pushed
  <2>5. Top'.text = s /\ Top'.left = {}
    BY Zenon, <2>2, <2>4
  <2>6. arg \in Texts /\ leaked \in Nat /\ leaked' \in Nat /\ leaked' >= leaked
    BY <1>1, <1>6 DEF CallInv, EditInv
  <2>7. TooMuch' /\ Shrunk'
    BY Zenon, <1>6, <2>6, Carried
  <2>8. IsDirectory(Names(Top.text))'
    BY Zenon, <1>3, <1>6, <2>5 DEF IsDirectory
  <2>9. \E c \in DOMAIN tree' : Parent(c) = Names(Top'.text)
    BY Zenon, <1>3, <1>6, <2>5
  <2>10. pc' # "rmdir" /\ \A d \in Top'.left : d[1] \in FileName /\ Len(d[1]) = 1
    BY <1>6, <2>5
  <2>11. Plain(Top.text)' /\ Long(Top.text)'
    BY Zenon, <1>3, <2>5
  <2>12. Stuck'
    BY Zenon, <2>7, <2>8, <2>9, <2>10, <2>11 DEF Stuck
  <2>13. answer.kind = "none"
    BY <1>1 DEF Answered
  <2>14. RemoveDirExact'
    BY <1>6, <2>13 DEF RemoveDirExact
  <2> QED BY Zenon, <2>7, <2>12, <2>14 DEF RemovesBelow
<1> QED BY Zenon, <1>4, <1>5, <1>6

(* RemoveEntry where the names fit: what it removes is a file below the
   target.                                                                  *)
LEMMA EntryClean ==
    ASSUME OneLetterNames, RemoveInv, pc = "remove", Top.stream = "open", NEW e \in Top.left,
           alone, Plain(arg), Shrunk, Clean, ~Long(Top.text),
           arg' = arg, before' = before, NEW s, s = EntryPath(Top.text, e[1]),
           NEW f, f = [Top EXCEPT !.left = @ \ {e}],
           \/ /\ IsDir(e[2])
              /\ frames' = Append([frames EXCEPT ![Len(frames)] = f], Frame(s))
              /\ tree' = tree /\ pc' = pc /\ leaked' = leaked /\ answer' = answer
           \/ /\ ~IsDir(e[2]) /\ tree' = Without(Names(s)) /\ SetTop(f)
              /\ pc' = pc /\ leaked' = leaked /\ answer' = answer
           \/ /\ ~IsDir(e[2])
              /\ ~(Reachable(s) /\ Names(s) \in DOMAIN tree /\ tree[Names(s)] # "dir")
    PROVE  RemovesBelow' /\ RemoveDirExact'
<1>0. PICK k : k = Len(frames)
  OBVIOUS
<1>1. CallInv /\ Answered /\ pc \in {"remove", "rmdir"} /\ TreeOK
  BY DEF RemoveInv, CallInv
<1>2. /\ Top.text \in Texts /\ Len(Top.text) <= Size /\ e[2] \in Kinds
      /\ f \in FrameType /\ f.text = Top.text /\ f.stream = "open" /\ f.left = Top.left \ {e}
  BY Zenon, <1>1, EntryFrame
<1>3. PICK q : q = EntryAt(k, e)
  OBVIOUS
<1>4. /\ e[1] \in FileName /\ Len(e[1]) = 1 /\ e[2] = tree[q]
      /\ q \in DOMAIN tree /\ q \in DOMAIN before /\ before[q] = tree[q]
      /\ Parent(q) = LeadsTo(k) /\ Begin(Target, q) /\ q # Target
      /\ q = Append(LeadsTo(k), e[1]) /\ Listed(k) /\ k \in 1..Len(frames)
  BY Zenon, <1>0, <1>1, <1>3, EntryFact
<1>5. /\ Top = frames[k] /\ Top.text = TextAt(k) /\ Plain(Top.text) /\ ListOK(k)
      /\ Names(Top.text) = LeadsTo(k)
  BY Zenon, <1>0, <1>1, CleanTop DEF LeadsTo
<1>6. /\ s \in Texts /\ Plain(s) /\ ~Ended(s) /\ s # <<>> /\ Names(s) = q
      /\ Len(s) <= Len(Top.text) + 2
  <2>1. LET t == EntryPath(Top.text, e[1])
        IN  /\ t \in Texts /\ Plain(t) /\ ~Ended(t) /\ t # <<>>
            /\ Names(t) = Append(Names(Top.text), e[1])
            /\ Len(t) <= Len(Top.text) + 2
    BY Zenon, <1>2, <1>4, <1>5, EntryFits
  <2> QED BY Zenon, <1>4, <1>5, <2>1
<1>7. answer.kind = "none" /\ leaked \in Nat /\ arg \in Texts /\ leaked >= leaked
  BY <1>1 DEF Answered, CallInv, EditInv
<1>8. CASE /\ IsDir(e[2])
           /\ frames' = Append([frames EXCEPT ![Len(frames)] = f], Frame(s))
           /\ tree' = tree /\ pc' = pc /\ leaked' = leaked /\ answer' = answer
  <2>1. Clean'
    <3>1. e[2] \in {"dir", "socket"}
      BY Zenon, <1>8 DEF IsDir
    <3>2. Names(s) = EntryAt(Len(frames), e)
      BY Zenon, <1>0, <1>3, <1>6
    <3>3. frames' = Append([frames EXCEPT ![Len(frames)] = f], Frame(s)) /\ tree' = tree /\ pc' = pc
      BY Zenon, <1>8
    <3> QED BY Zenon, <1>1, <1>2, <1>6, <3>1, <3>2, <3>3, CleanPushed
  <2>2. Shrunk'
    BY Zenon, <1>7, <1>8, Carried
  <2>3. RemoveDirExact'
    BY <1>7, <1>8 DEF RemoveDirExact
  <2> QED BY Zenon, <2>1, <2>2, <2>3 DEF RemovesBelow
<1>9. ASSUME ~IsDir(e[2]) PROVE tree[q] = "file" /\ Reachable(s)
  <2>1. tree[q] = "file"
    BY <1>2, <1>4, <1>9 DEF IsDir, Kinds
  <2>2. Reachable(s)
    BY Zenon, <1>1, <1>4, <1>6, EntryReached
  <2> QED BY <2>1, <2>2
<1>10. CASE /\ ~IsDir(e[2]) /\ tree' = Without(Names(s)) /\ SetTop(f)
            /\ pc' = pc /\ leaked' = leaked /\ answer' = answer
  <2> DEFINE gone == {q}
  <2>1. tree' = [r \in DOMAIN tree \ {q} |-> tree[r]] /\ tree[q] = "file"
    BY Zenon, <1>6, <1>9, <1>10 DEF Without
  <2>2. DOMAIN tree' = DOMAIN tree \ gone /\ gone \subseteq DOMAIN tree
        /\ \A r \in DOMAIN tree' : tree'[r] = tree[r]
    BY <1>4, <2>1
  <2>3. Shrunk'
    <3>1. Target' = Target
      BY DEF Target
    <3>2. \A r \in DOMAIN tree' : r \in DOMAIN before' /\ tree'[r] = before'[r]
      BY <2>2 DEF Shrunk
    <3>3. ASSUME NEW r \in DOMAIN before', r \notin DOMAIN tree' PROVE Begin(Target, r) /\ r # Target
      <4>1. r \notin DOMAIN tree \/ r = q
        BY <2>2, <3>3
      <4>2. r \notin DOMAIN tree => Begin(Target, r) /\ r # Target
        BY <3>3 DEF Shrunk
      <4> QED BY Zenon, <1>4, <4>1, <4>2
    <3>4. DOMAIN before' \subseteq Places
      BY DEF Shrunk
    <3> QED BY Zenon, <3>1, <3>2, <3>3, <3>4 DEF Shrunk
  <2>4. Clean'
    <3>1. \A c \in gone : tree[c] = "file" /\ Parent(c) = LeadsTo(Len(frames))
      BY <1>0, <1>4, <2>1
    <3>2. IsDirectory(LeadsTo(k))
      <4>1. frames[k].stream # "none"
        BY <1>5
      <4> QED BY Zenon, <1>5, <4>1 DEF ListOK
    <3>3. ASSUME NEW d \in f.left
          PROVE  EntryAt(k, d) \in DOMAIN tree' /\ tree'[EntryAt(k, d)] = d[2]
      <4>1. d \in frames[k].left /\ e \in frames[k].left /\ d # e
        BY <1>2, <1>5, <3>3
      <4>2. EntryAt(k, d) \in DOMAIN tree /\ tree[EntryAt(k, d)] = d[2]
        BY Zenon, <1>4, <4>1 DEF Listed
      <4>3. EntryAt(k, d) # q
        BY Zenon, <1>1, <1>3, <1>4, <4>1, EntryOnce
      <4> QED BY <2>2, <4>2, <4>3
    <3>4. ASSUME NEW c \in DOMAIN tree', Parent(c) = LeadsTo(k)
          PROVE  \E d \in f.left : c = EntryAt(k, d)
      <4>1. c \in DOMAIN tree /\ c # q /\ ~(k < Len(frames))
        <5>1. Len(frames) \in Nat
          BY <1>1, FramesFact
        <5> QED BY <1>0, <2>2, <3>4, <5>1
      <4>2. PICK d \in frames[k].left : c = EntryAt(k, d)
        BY Zenon, <1>4, <3>4, <4>1 DEF Listed
      <4>3. d # e
        BY <1>3, <4>1, <4>2
      <4>4. d \in f.left
        BY <1>2, <1>5, <4>2, <4>3
      <4> QED BY Zenon, <4>2, <4>4
    <3>5. /\ f.stream = "open" =>
                /\ \A d \in f.left : /\ EntryAt(Len(frames), d) \in DOMAIN tree'
                                     /\ tree'[EntryAt(Len(frames), d)] = d[2]
                /\ \A c \in DOMAIN tree' : Parent(c) = LeadsTo(Len(frames)) =>
                      \E d \in f.left : c = EntryAt(Len(frames), d)
          /\ IsDirectory(LeadsTo(Len(frames)))
      BY Zenon, <1>0, <3>2, <3>3, <3>4
    <3>6. f.stream # "none" /\ (f.stream = "closed" => \A c \in DOMAIN tree' : Parent(c) # LeadsTo(Len(frames)))
      BY <1>2
    <3>7. SetTop(f) /\ arg' = arg
      BY Zenon, <1>10
    <3> HIDE DEF gone
    <3> QED BY Zenon, <1>1, <1>2, <2>2, <3>1, <3>5, <3>6, <3>7, CleanSet
  <2>5. RemoveDirExact'
    BY <1>7, <1>10 DEF RemoveDirExact
  <2> QED BY Zenon, <2>3, <2>4, <2>5 DEF RemovesBelow
<1>11. CASE /\ ~IsDir(e[2])
            /\ ~(Reachable(s) /\ Names(s) \in DOMAIN tree /\ tree[Names(s)] # "dir")
  BY <1>4, <1>6, <1>9, <1>11
<1> QED BY Zenon, <1>8, <1>10, <1>11

(* The step for an entry of a directory.                                    *)
LEMMA EntryRight ==
    ASSUME OneLetterNames, RemoveInv, RemoveEntry
    PROVE  RemovesBelow' /\ RemoveDirExact'
<1>1. /\ pc = "remove" /\ Top.stream = "open"
      /\ before' = before /\ alone' = alone
  BY Zenon DEF RemoveEntry, history
<1>2. CallInv /\ Answered /\ RemovesBelow /\ pc \in {"remove", "rmdir"}
  BY <1>1 DEF RemoveInv
<1>3. PICK e \in Top.left : \E scratch \in {EntryPath(Top.text, e[1])} :
        LET g == [Top EXCEPT !.left = @ \ {e}]
            p == Names(scratch)
        IN  /\ UNCHANGED history
            /\ IF IsDir(e[2])
               THEN /\ frames' = Append([frames EXCEPT ![Len(frames)] = g], Frame(scratch))
                    /\ UNCHANGED <<path, edit, tree, arg, pc, work, at, leaked, answer>>
               ELSE IF Reachable(scratch) /\ p \in DOMAIN tree /\ tree[p] # "dir"
               THEN /\ tree' = Without(p)
                    /\ SetTop(g)
                    /\ UNCHANGED <<path, edit, arg, pc, work, at, leaked, answer>>
               ELSE RemoveFails(Open) /\ UNCHANGED tree
  BY Zenon DEF RemoveEntry
<1>4. PICK f : f = [Top EXCEPT !.left = @ \ {e}]
  OBVIOUS
<1>5. PICK s : s = EntryPath(Top.text, e[1])
  OBVIOUS
<1>6. IF IsDir(e[2])
      THEN /\ frames' = Append([frames EXCEPT ![Len(frames)] = f], Frame(s))
           /\ UNCHANGED <<path, edit, tree, arg, pc, work, at, leaked, answer>>
      ELSE IF Reachable(s) /\ Names(s) \in DOMAIN tree /\ tree[Names(s)] # "dir"
      THEN /\ tree' = Without(Names(s))
           /\ SetTop(f)
           /\ UNCHANGED <<path, edit, arg, pc, work, at, leaked, answer>>
      ELSE RemoveFails(Open) /\ UNCHANGED tree
  BY Zenon, <1>3, <1>4, <1>5
<1>7. arg' = arg
  BY Zenon, <1>6 DEF RemoveFails, Return
<1>8. CASE ~(alone /\ Plain(arg))
  BY Zenon, <1>1, <1>7, <1>8, Disturbed
<1>9. CASE alone /\ Plain(arg)
  <2>1. Shrunk /\ (Clean \/ Stuck)
    BY Zenon, <1>2, <1>9 DEF RemovesBelow, Removing
  <2>2. ASSUME Plain(Top.text), Long(Top.text), IsDirectory(Names(Top.text)),
               \E c \in DOMAIN tree : Parent(c) = Names(Top.text),
               e[1] \in FileName, Len(e[1]) = 1, TooMuch
        PROVE  RemovesBelow' /\ RemoveDirExact'
    <3>1. \/ /\ frames' = Append([frames EXCEPT ![Len(frames)] = f], Frame(s))
             /\ f = [Top EXCEPT !.left = @ \ {e}]
             /\ tree' = tree /\ pc' = pc /\ leaked' = leaked /\ answer' = answer
          \/ Names(s) \in DOMAIN tree /\ tree[Names(s)] # "dir"
          \/ RemoveFails(Open) /\ tree' = tree
      BY Zenon, <1>4, <1>6
    <3> QED BY Zenon, <1>1, <1>5, <1>7, <1>9, <2>1, <2>2, <3>1, EntryStuck
  <2>3. CASE Stuck
    BY Zenon, <2>2, <2>3 DEF Stuck
  <2>4. CASE Clean /\ Long(Top.text)
    <3>0. PICK k : k = Len(frames)
      OBVIOUS
    <3>1. PICK q : q = EntryAt(k, e)
      OBVIOUS
    <3>2. /\ e[1] \in FileName /\ Len(e[1]) = 1
          /\ q \in DOMAIN tree /\ q \in DOMAIN before /\ Parent(q) = LeadsTo(k) /\ Begin(Target, q)
          /\ Len(q) = Len(Target) + k /\ k \in 1..Len(frames)
      BY Zenon, <1>1, <1>2, <2>1, <2>4, <3>0, <3>1, EntryFact
    <3>3. /\ Top = frames[k] /\ Top.text = TextAt(k) /\ Plain(Top.text) /\ ListOK(k)
          /\ Names(Top.text) = LeadsTo(k) /\ Len(TextAt(k)) <= Len(arg) + 2 * (k - 1)
      BY Zenon, <1>2, <2>1, <2>4, <3>0, CleanTop DEF LeadsTo
    <3>4. IsDirectory(Names(Top.text))
      <4>1. frames[k].stream # "none"
        BY <1>1, <3>3
      <4> QED BY Zenon, <3>3, <4>1 DEF ListOK
    <3>5. Len(arg) + 2 * (Len(q) - Len(Target)) > Size
      <4>1. Len(arg) \in Nat /\ Len(Target) \in Nat /\ Len(TextAt(k)) \in Nat /\ k \in Nat
        BY <1>2, <3>2, FramesFact
      <4>2. Len(TextAt(k)) + 2 > Size
        <5>1. Len(TextAt(k)) + (IF Ended(TextAt(k)) THEN 1 ELSE 2) > Size
          BY Zenon, <2>4, <3>3 DEF Long
        <5> QED BY <4>1, <5>1, SizeType
      <4>3. Len(q) - Len(Target) = k
        BY <3>2, <4>1
      <4> QED BY SMTT(30), <3>3, <4>1, <4>2, <4>3, SizeType
    <3>6. TooMuch
      BY Zenon, <3>2, <3>5 DEF TooMuch
    <3>7. \E c \in DOMAIN tree : Parent(c) = Names(Top.text)
      BY Zenon, <3>2, <3>3
    <3> QED BY Zenon, <2>2, <2>4, <3>2, <3>3, <3>4, <3>6, <3>7
  <2>5. CASE Clean /\ ~Long(Top.text)
    <3>1. \/ /\ IsDir(e[2])
             /\ frames' = Append([frames EXCEPT ![Len(frames)] = f], Frame(s))
             /\ tree' = tree /\ pc' = pc /\ leaked' = leaked /\ answer' = answer
          \/ /\ ~IsDir(e[2]) /\ tree' = Without(Names(s)) /\ SetTop(f)
             /\ pc' = pc /\ leaked' = leaked /\ answer' = answer
          \/ /\ ~IsDir(e[2])
             /\ ~(Reachable(s) /\ Names(s) \in DOMAIN tree /\ tree[Names(s)] # "dir")
      BY Zenon, <1>6
    <3> QED BY Zenon, <1>1, <1>4, <1>5, <1>7, <1>9, <2>1, <2>5, <3>1, EntryClean
  <2> QED BY Zenon, <2>1, <2>3, <2>4, <2>5
<1> QED BY <1>8, <1>9

(* The end of a directory.                                                  *)
LEMMA EndRight ==
    ASSUME RemoveInv, ListEnd
    PROVE  RemovesBelow' /\ RemoveDirExact'
<1>0. PICK k : k = Len(frames)
  OBVIOUS
<1>1. PICK f : f = [Top EXCEPT !.stream = "closed"]
  OBVIOUS
<1>2. /\ pc = "remove" /\ Top.stream = "open" /\ Top.left = {} /\ SetTop(f) /\ pc' = "rmdir"
      /\ arg' = arg /\ tree' = tree /\ before' = before /\ alone' = alone
      /\ leaked' = leaked /\ answer' = answer
  BY Zenon, <1>1 DEF ListEnd, fsvars, history
<1>3. CallInv /\ Answered /\ RemovesBelow /\ pc \in {"remove", "rmdir"}
  BY <1>2 DEF RemoveInv
<1>4. CASE ~(alone /\ Plain(arg))
  BY Zenon, <1>2, <1>4, Disturbed
<1>5. CASE alone /\ Plain(arg)
  <2>1. Shrunk /\ (Clean \/ Stuck)
    BY Zenon, <1>3, <1>2, <1>5 DEF RemovesBelow, Removing
  <2>2. arg \in Texts /\ leaked \in Nat /\ leaked >= leaked /\ answer.kind = "none"
    BY <1>2, <1>3 DEF CallInv, EditInv, Answered
  <2>3. (TooMuch => TooMuch') /\ Shrunk'
    BY Zenon, <1>2, <2>1, <2>2, Carried
  <2>4. RemoveDirExact'
    BY <1>2, <2>2 DEF RemoveDirExact
  <2>5. /\ f \in FrameType /\ f.text = Top.text /\ f.stream = "closed" /\ f.left = Top.left
    <3> DEFINE t == Top
    <3>1. t \in FrameType
      <4>1. k \in 1..Len(frames)
        <5>1. Len(frames) \in Nat \ {0}
          BY <1>3, FramesFact
        <5> QED BY <1>0, <5>1
      <4>2. frames[k] \in FrameType
        BY <1>3, <4>1, FramesFact
      <4> QED BY Zenon, <1>0, <4>2 DEF Top
    <3>2. f = [t EXCEPT !.stream = "closed"]
      BY <1>1
    <3> HIDE DEF t
    <3>3. f \in FrameType /\ f.text = t.text /\ f.stream = "closed" /\ f.left = t.left
      BY <3>1, <3>2 DEF FrameType
    <3> QED BY <3>3 DEF t
  <2>6. ASSUME Clean PROVE Clean'
    <3>1. /\ Top = frames[k] /\ ListOK(k) /\ k = Len(frames)
      BY Zenon, <1>0, <1>3, <2>1, <2>6, CleanTop
    <3>2. IsDirectory(LeadsTo(k)) /\ Listed(k)
      <4>1. frames[k].stream = "open" /\ frames[k].stream # "none"
        BY <1>2, <3>1
      <4> QED BY Zenon, <3>1, <4>1 DEF ListOK
    <3>3. \A c \in DOMAIN tree : Parent(c) # LeadsTo(k)
      <4>1. ~(k < Len(frames)) /\ frames[k].left = {}
        <5>1. Len(frames) \in Nat
          BY <1>3, FramesFact
        <5> QED BY <1>0, <1>2, <3>1, <5>1
      <4>2. \A c \in DOMAIN tree : Parent(c) = LeadsTo(k) => \E e \in frames[k].left : c = EntryAt(k, e)
        BY Zenon, <3>2, <4>1 DEF Listed
      <4> QED BY <4>1, <4>2
    <3> DEFINE gone == {}
    <3>4. gone \subseteq DOMAIN tree /\ DOMAIN tree' = DOMAIN tree \ gone
          /\ \A q \in DOMAIN tree' : tree'[q] = tree[q]
      BY <1>2
    <3>5. \A c \in gone : tree[c] = "file" /\ Parent(c) = LeadsTo(Len(frames))
      OBVIOUS
    <3>6. f.stream # "none" /\ f.stream # "open"
      BY <2>5
    <3>7. f.stream = "open" =>
             /\ \A e \in f.left : /\ EntryAt(Len(frames), e) \in DOMAIN tree'
                                  /\ tree'[EntryAt(Len(frames), e)] = e[2]
             /\ \A c \in DOMAIN tree' : Parent(c) = LeadsTo(Len(frames)) =>
                   \E e \in f.left : c = EntryAt(Len(frames), e)
      BY Zenon, <3>6
    <3>8. f.stream = "closed" => \A c \in DOMAIN tree' : Parent(c) # LeadsTo(Len(frames))
      BY Zenon, <1>2, <3>1, <3>3
    <3>9. IsDirectory(LeadsTo(Len(frames)))
      BY Zenon, <3>1, <3>2
    <3>10. SetTop(f) /\ arg' = arg
      BY Zenon, <1>2
    <3> HIDE DEF gone
    <3> QED BY Zenon, <1>3, <2>1, <2>5, <2>6, <3>4, <3>5, <3>6, <3>7, <3>8, <3>9, <3>10, CleanSet
  <2>7. ASSUME Stuck PROVE Stuck'
    <3>1. Top' = f
      BY Zenon, <1>2, <1>3, <2>5, TopSet
    <3>2. Top'.text = Top.text /\ Top'.stream = "closed" /\ Top'.left = {}
      BY Zenon, <1>2, <2>5, <3>1
    <3>3. /\ Plain(Top.text) /\ Long(Top.text) /\ IsDirectory(Names(Top.text))
          /\ \E c \in DOMAIN tree : Parent(c) = Names(Top.text)
          /\ TooMuch
      BY Zenon, <2>7 DEF Stuck
    <3>4. IsDirectory(Names(Top.text))'
      BY Zenon, <1>2, <3>2, <3>3 DEF IsDirectory
    <3>5. \A e \in Top'.left : e[1] \in FileName /\ Len(e[1]) = 1
      BY <3>2
    <3>6. Plain(Top.text)' /\ Long(Top.text)' /\ \E c \in DOMAIN tree' : Parent(c) = Names(Top'.text)
      BY Zenon, <1>2, <3>2, <3>3
    <3> QED BY Zenon, <2>3, <3>2, <3>3, <3>4, <3>5, <3>6 DEF Stuck
  <2> QED BY Zenon, <2>1, <2>3, <2>4, <2>6, <2>7 DEF RemovesBelow
<1> QED BY <1>4, <1>5

(* rmdir of a stuck call fails.                                             *)
LEMMA RmdirStuck ==
    ASSUME CallInv, pc = "rmdir", Shrunk, Stuck, RemoveFails(Open), tree' = tree, before' = before
    PROVE  RemovesBelow' /\ RemoveDirExact'
<1>1. Top.stream = "closed" /\ TooMuch
  BY Zenon DEF Stuck
<1>2. Removal = "remove"
  BY <1>1 DEF Removal
<1>3. Removal # "rmdir" /\ pc \in {"remove", "rmdir"}
  BY <1>2
<1> QED BY Zenon, <1>1, <1>2, <1>3, Fails

(* rmdir of a directory that is there fails only when it is not empty, and
   only without RemoveAllFiles.                                             *)
LEMMA RmdirFails ==
    ASSUME CallInv, pc = "rmdir", Shrunk, Clean, RemoveFails(Open), tree' = tree, before' = before,
           ~(/\ IsDirText(Top.text) /\ NamePart(Top.text) \notin {<<>>, <<".">>, <<".", ".">>}
             /\ Children(Names(Top.text)) = {})
    PROVE  RemovesBelow' /\ RemoveDirExact'
<1>0. PICK k : k = Len(frames)
  OBVIOUS
<1>1. pc \in {"remove", "rmdir"} /\ TreeOK
  BY DEF CallInv
<1>2. PICK q : q = LeadsTo(k)
  OBVIOUS
<1>3. /\ k \in Nat \ {0} /\ Top = frames[k] /\ Top.text = TextAt(k) /\ ListOK(k)
      /\ Begin(Target, q) /\ Len(q) = Len(Target) + (k - 1) /\ Plain(TextAt(k))
      /\ k = 1 => q = Target /\ TextAt(k) = arg
      /\ \/ NoSuchDir /\ k = 1
         \/ /\ q \in DOMAIN tree /\ q \in DOMAIN before /\ before[q] = tree[q]
            /\ tree[q] \in {"dir", "socket"}
  BY Zenon, <1>0, <1>1, <1>2, CleanTop
<1>4. CASE NoSuchDir
  BY Zenon, <1>1, <1>4, Fails
<1>5. CASE ~NoSuchDir
  <2>1. q \in DOMAIN tree /\ Names(Top.text) = q /\ Top.text \in Texts /\ Plain(Top.text) /\ Len(Target) \in Nat
    <3>1. k \in 1..Len(frames)
      BY <1>0, <1>3
    <3>2. TextAt(k) \in Texts /\ Len(Target) \in Nat
      BY <1>1, <3>1, FramesFact
    <3>3. LeadsTo(k) = Names(TextAt(k))
      BY DEF LeadsTo
    <3>4. q \in DOMAIN tree
      BY Zenon, <1>3, <1>5
    <3> QED BY Zenon, <1>2, <1>3, <3>2, <3>3, <3>4
  <2>2. ASSUME tree[q] = "dir" PROVE \E c \in DOMAIN tree : Parent(c) = q
    <3>1. Children(q) # {}
      BY Zenon, <1>1, <2>1, <2>2, DirText
    <3> QED BY <3>1 DEF Children
  <2>3. Top.stream = "closed" \/ (Top.stream = "none" /\ k = 1)
    BY <1>0 DEF CallInv, FramesOK, Top
  <2>4. Top.stream # "closed"
    <3> SUFFICES ASSUME Top.stream = "closed" PROVE FALSE
      OBVIOUS
    <3>1. frames[k].stream = "closed" /\ frames[k].stream # "none"
      BY <1>3
    <3>2. IsDirectory(q) /\ \A c \in DOMAIN tree : Parent(c) # q
      BY Zenon, <1>2, <1>3, <3>1 DEF ListOK
    <3>3. q # <<>>
      BY Zenon, <1>1, <2>1, PlaceFact DEF TreeOK
    <3>4. tree[q] = "dir"
      BY Zenon, <3>2, <3>3 DEF IsDirectory
    <3> QED BY Zenon, <2>2, <3>2, <3>4
  <2>5. Top.stream = "none" /\ q = Target /\ Removal = "rmdir" /\ Removal # "remove" /\ tree = before
    <3>1. Top.stream = "none" /\ q = Target /\ tree = before
      BY Zenon, <1>3, <2>3, <2>4 DEF Clean
    <3>2. Removal = "rmdir"
      BY <3>1 DEF Removal
    <3> QED BY <3>1, <3>2
  <2>6. tree[q] = "dir"
    BY Zenon, <1>5, <2>5 DEF NoSuchDir
  <2>7. PICK c \in DOMAIN tree : Parent(c) = q
    BY Zenon, <2>2, <2>6
  <2>8. Begin(q, c) /\ c # q
    <3>1. c \in Places /\ q \in Places
      BY Zenon, <1>1, <2>1 DEF TreeOK
    <3>2. /\ c = Append(Parent(c), c[Len(c)]) /\ c[Len(c)] \in FileName /\ Parent(c) \in Seq(Texts)
          /\ Len(c) = Len(Parent(c)) + 1
      BY Zenon, <3>1, PlaceSplits
    <3>3. c[Len(c)] \in Texts
      BY Zenon, <3>2, NameFact
    <3>4. Begin(q, c)
      BY Zenon, <2>7, <3>2, <3>3, BeginFact
    <3>5. Len(q) \in Nat
      BY <3>1, PlaceFact
    <3>6. Len(c) # Len(q)
      BY <2>7, <3>2, <3>5
    <3> QED BY Zenon, <3>4, <3>6
  <2>9. \E r \in DOMAIN before : Begin(Target, r) /\ r # Target
    BY Zenon, <2>5, <2>7, <2>8
  <2> QED BY Zenon, <1>1, <2>5, <2>9, Fails
<1> QED BY <1>4, <1>5

(* rmdir that succeeds removes something that was there below the target.   *)
LEMMA RmdirFound ==
    ASSUME CallInv, pc = "rmdir", Shrunk, Clean,
           IsDirText(Top.text), NamePart(Top.text) \notin {<<>>, <<".">>, <<".", ".">>}
    PROVE  LET q == Names(Top.text)
           IN  q \in DOMAIN tree /\ q \in DOMAIN before /\ before[q] = tree[q]
<1>0. PICK k : k = Len(frames)
  OBVIOUS
<1>1. pc \in {"remove", "rmdir"}
  OBVIOUS
<1>2. /\ k \in Nat \ {0} /\ Top.text = TextAt(k)
      /\ k = 1 => LeadsTo(k) = Target
      /\ \/ NoSuchDir /\ k = 1
         \/ LeadsTo(k) \in DOMAIN tree /\ LeadsTo(k) \in DOMAIN before /\ before[LeadsTo(k)] = tree[LeadsTo(k)]
  BY Zenon, <1>0, <1>1, CleanTop
<1>3. Names(Top.text) = LeadsTo(k) /\ Top.text \in Texts
  <2>1. k \in 1..Len(frames)
    BY <1>0, <1>2
  <2>2. TextAt(k) \in Texts
    BY <1>1, <2>1, FramesFact
  <2> QED BY Zenon, <1>2, <2>2 DEF LeadsTo
<1>4. Names(Top.text) # <<>>
  <2> DEFINE d == DirPart(Top.text)
             name == NamePart(Top.text)
  <2>1. d \in Texts /\ name \in Texts /\ Names(Top.text) = Append(Names(d), name)
    BY Zenon, <1>3, NameOfText
  <2> HIDE DEF d, name
  <2>2. Names(d) \in Seq(Texts)
    BY Zenon, <2>1, NamesType
  <2>3. Len(Names(Top.text)) = Len(Names(d)) + 1 /\ Len(Names(d)) \in Nat
    BY Zenon, <2>1, <2>2, EntrySplits, LenProperties
  <2>4. Len(Names(Top.text)) # Len(<<>>)
    BY <2>3, EmptyText
  <2> QED BY Zenon, <2>4
<1>5. Names(Top.text) \in DOMAIN tree /\ tree[Names(Top.text)] = "dir"
  BY Zenon, <1>4 DEF IsDirText, IsDirectory
<1>6. ~(NoSuchDir /\ k = 1)
  <2> SUFFICES ASSUME NoSuchDir, k = 1 PROVE FALSE
    OBVIOUS
  <2>1. Target \in DOMAIN tree /\ tree[Target] = "dir"
    BY Zenon, <1>2, <1>3, <1>5
  <2>2. Target \in DOMAIN before /\ before[Target] = "dir"
    BY Zenon, <2>1 DEF Shrunk
  <2> QED BY Zenon, <2>2 DEF NoSuchDir
<1> QED BY Zenon, <1>2, <1>3, <1>6

(* The last frame has removed its directory, and the one before goes on.    *)
LEMMA CleanPopped ==
    ASSUME CallInv, pc = "rmdir", pc' = "remove", Shrunk, Clean, Len(frames) # 1, arg' = arg,
           LeadsTo(Len(frames)) \in DOMAIN tree, before' = before,
           tree' = Without(LeadsTo(Len(frames))),
           frames' = SubSeq(frames, 1, Len(frames) - 1)
    PROVE  Clean' /\ Shrunk'
<1>0. PICK k : k = Len(frames)
  OBVIOUS
<1>1. PICK q : q = LeadsTo(k)
  OBVIOUS
<1>2. PICK m : m = k - 1
  OBVIOUS
<1>3. pc \in {"remove", "rmdir"}
  OBVIOUS
<1>4. /\ frames \in Seq(FrameType) /\ k \in Nat \ {0} /\ Len(Target) \in Nat
      /\ m \in Nat \ {0} /\ m < k /\ m + 1 = k
  <2>1. frames \in Seq(FrameType) /\ k \in Nat \ {0} /\ Len(Target) \in Nat
    BY <1>0, <1>3, FramesFact
  <2> QED BY <1>0, <1>2, <2>1
<1>5. /\ Len(frames') = m /\ \A i \in 1..m : frames'[i] = frames[i]
  <2>1. m \in 0..Len(frames) /\ frames' = SubSeq(frames, 1, m)
    BY <1>0, <1>2, <1>4
  <2> QED BY <1>4, <2>1, Beginning
<1>6. \A i \in 1..m : TextAt(i)' = TextAt(i) /\ LeadsTo(i)' = LeadsTo(i)
  <2> SUFFICES ASSUME NEW i \in 1..m PROVE TextAt(i)' = TextAt(i) /\ LeadsTo(i)' = LeadsTo(i)
    OBVIOUS
  <2>1. TextAt(i)' = TextAt(i)
    BY Zenon, <1>5 DEF TextAt
  <2> QED BY Zenon, <2>1 DEF LeadsTo
<1>7. \A i \in 1..k : TextOK(i) /\ ListOK(i) /\ Len(LeadsTo(i)) = Len(Target) + (i - 1)
  <2> SUFFICES ASSUME NEW i \in 1..k PROVE TextOK(i) /\ ListOK(i) /\ Len(LeadsTo(i)) = Len(Target) + (i - 1)
    OBVIOUS
  <2>1. TextOK(i) /\ ListOK(i)
    BY Zenon, <1>0 DEF Clean
  <2> QED BY Zenon, <2>1 DEF TextOK
<1>8. 1 \in 1..m /\ m \in 1..k /\ k \in 1..k /\ \A i \in 1..m : i \in 1..k /\ i < k
  BY <1>4
<1>9. /\ q \in DOMAIN tree /\ Begin(Target, q) /\ q # Target
      /\ \A i \in 1..m : LeadsTo(i) # q
  <2>1. q \in DOMAIN tree
    BY Zenon, <1>0, <1>1
  <2>2. Begin(Target, q)
    BY Zenon, <1>1, <1>7, <1>8 DEF TextOK
  <2>3. Len(q) = Len(Target) + (k - 1)
    BY Zenon, <1>1, <1>7, <1>8
  <2>4. Len(q) # Len(Target)
    BY <1>4, <2>3
  <2>5. \A i \in 1..m : Len(LeadsTo(i)) # Len(q)
    <3>1. \A i \in 1..m : Len(LeadsTo(i)) = Len(Target) + (i - 1)
      BY Zenon, <1>7, <1>8
    <3> QED BY <1>4, <2>3, <3>1
  <2> QED BY Zenon, <2>1, <2>2, <2>4, <2>5
<1> DEFINE gone == {q}
<1>10. DOMAIN tree' = DOMAIN tree \ gone /\ \A r \in DOMAIN tree' : tree'[r] = tree[r]
  <2>1. tree' = [r \in DOMAIN tree \ {q} |-> tree[r]]
    BY Zenon, <1>0, <1>1 DEF Without
  <2> QED BY <2>1
<1>11. Shrunk'
  <2>1. Target' = Target
    BY DEF Target
  <2>2. \A r \in DOMAIN tree' : r \in DOMAIN before' /\ tree'[r] = before'[r]
    BY <1>10 DEF Shrunk
  <2>3. ASSUME NEW r \in DOMAIN before', r \notin DOMAIN tree' PROVE Begin(Target, r) /\ r # Target
    <3>1. r \notin DOMAIN tree \/ r = q
      BY <1>10, <2>3
    <3>2. r \notin DOMAIN tree => Begin(Target, r) /\ r # Target
      BY <2>3 DEF Shrunk
    <3> QED BY Zenon, <1>9, <3>1, <3>2
  <2>4. DOMAIN before' \subseteq Places
    BY DEF Shrunk
  <2> QED BY Zenon, <2>1, <2>2, <2>3, <2>4 DEF Shrunk
<1>12. TextAt(1)' = arg'
  BY Zenon, <1>6, <1>8 DEF Clean
<1>13. \A j \in 1..m : TextOK(j)'
  <2>1. m \in Nat /\ m <= Len(frames) /\ Len(frames) \in Nat /\ Len(frames') \in Nat
    BY <1>0, <1>4, <1>5
  <2>2. ASSUME NEW j \in 1..m
        PROVE  /\ frames'[j].text = frames[j].text /\ TextOK(j)
               /\ j < Len(frames') => ~Long(TextAt(j))
               /\ j > 1 => LeadsTo(j) \in DOMAIN tree' /\ tree'[LeadsTo(j)] = tree[LeadsTo(j)]
    <3>1. TextOK(j) /\ j < Len(frames)
      BY Zenon, <1>0, <1>7, <1>8, <2>2
    <3>2. j > 1 => LeadsTo(j) \in DOMAIN tree
      BY Zenon, <3>1 DEF TextOK
    <3>3. j > 1 => LeadsTo(j) \in DOMAIN tree'
      BY <1>9, <1>10, <2>2, <3>2
    <3>4. ~Long(TextAt(j))
      BY Zenon, <3>1 DEF TextOK
    <3> QED BY Zenon, <1>5, <1>10, <2>2, <3>1, <3>3, <3>4
  <2> QED BY <2>1, <2>2, TextsKept
<1>14. ASSUME NEW j \in 1..m, j < m PROVE ListOK(j)'
  <2>0. PICK n : n = m - 1
    OBVIOUS
  <2>1. /\ n \in Nat /\ n < Len(frames) /\ Len(frames') \in Nat /\ n < Len(frames')
        /\ j \in 1..n
    BY <1>0, <1>4, <1>5, <1>14, <2>0
  <2>2. ASSUME NEW i \in 1..n
        PROVE  /\ frames'[i] = frames[i] /\ frames'[i + 1].text = frames[i + 1].text /\ ListOK(i)
               /\ \A c \in gone : Parent(c) # LeadsTo(i) /\ c # LeadsTo(i)
    <3>1. i \in 1..m /\ i + 1 \in 1..m /\ i \in 1..k /\ i < k /\ i < k - 1
      BY <1>4, <2>0, <2>2
    <3>2. Parent(q) # LeadsTo(i) /\ q # LeadsTo(i)
      BY Zenon, <1>0, <1>1, <1>3, <1>8, <1>9, <3>1, FurtherDown
    <3>3. \A c \in gone : Parent(c) # LeadsTo(i) /\ c # LeadsTo(i)
      BY <3>2
    <3> QED BY Zenon, <1>5, <1>7, <3>1, <3>3
  <2> HIDE DEF gone
  <2>3. \A i \in 1..n : ListOK(i)'
    BY <1>3, <1>10, <2>1, <2>2, ListsKept
  <2> QED BY Zenon, <2>1, <2>3
<1>15. ListOK(m)'
  <2>1. LeadsTo(m)' = LeadsTo(m) /\ m \in 1..m /\ frames'[m] = frames[m]
    BY <1>4, <1>5, <1>6
  <2>2. frames[m].stream = "open" /\ frames[m].stream # "none" /\ frames[m].stream # "closed"
        /\ LeadsTo(m) \in Seq(Texts) /\ \A e \in frames[m].left : e[1] \in Texts
    <3>1. frames[m].stream = "open" /\ LeadsTo(m) \in Seq(Texts) /\ \A e \in frames[m].left : e[1] \in Texts
      BY <1>0, <1>3, <1>4, <1>8, FramesFact
    <3> QED BY <3>1
  <2>3. IsDirectory(LeadsTo(m)) /\ Listed(m)
    BY Zenon, <1>7, <1>8, <2>2 DEF ListOK
  <2>4. IsDirectory(LeadsTo(m))'
    <3>1. LeadsTo(m) = <<>> \/ (LeadsTo(m) \in DOMAIN tree /\ tree[LeadsTo(m)] = "dir")
      BY <2>3 DEF IsDirectory
    <3>2. LeadsTo(m) = <<>> \/ (LeadsTo(m) \in DOMAIN tree' /\ tree'[LeadsTo(m)] = "dir")
      BY <1>9, <1>10, <2>1, <3>1
    <3> QED BY Zenon, <2>1, <3>2 DEF IsDirectory
  <2>5. \A e : EntryAt(m, e)' = EntryAt(m, e)
    BY Zenon, <2>1 DEF EntryAt
  <2>6. ASSUME NEW e \in frames[m].left PROVE EntryAt(m, e) \in DOMAIN tree' /\ tree'[EntryAt(m, e)] = e[2]
    <3>1. EntryAt(m, e) \in DOMAIN tree /\ tree[EntryAt(m, e)] = e[2] /\ LeadsTo(m + 1) # EntryAt(m, e)
      BY Zenon, <1>0, <1>4, <2>3, <2>6 DEF Listed
    <3>2. EntryAt(m, e) # q
      BY Zenon, <1>1, <1>4, <3>1
    <3> QED BY <1>10, <3>1, <3>2
  <2>7. ASSUME NEW c \in DOMAIN tree', Parent(c) = LeadsTo(m) PROVE \E e \in frames[m].left : c = EntryAt(m, e)
    <3>1. c \in DOMAIN tree /\ c # q
      BY <1>10
    <3>2. (\E e \in frames[m].left : c = EntryAt(m, e)) \/ c = LeadsTo(m + 1)
      BY Zenon, <2>3, <2>7, <3>1 DEF Listed
    <3> QED BY Zenon, <1>1, <1>4, <3>1, <3>2
  <2>8. ~(m < Len(frames)')
    BY <1>4, <1>5
  <2>9. Listed(m)'
    BY Zenon, <2>1, <2>5, <2>6, <2>7, <2>8 DEF Listed
  <2> QED BY Zenon, <2>1, <2>2, <2>4, <2>9 DEF ListOK
<1>16. \A j \in 1..Len(frames)' : TextOK(j)' /\ ListOK(j)'
  <2>1. \A j \in 1..m : j < m \/ j = m
    BY <1>4
  <2> QED BY Zenon, <1>5, <1>13, <1>14, <1>15, <2>1
<1>17. pc' # "rmdir"
  OBVIOUS
<1> QED BY Zenon, <1>11, <1>12, <1>16, <1>17 DEF Clean

(* The first frame has removed the target.                                  *)
LEMMA TargetGone ==
    ASSUME CallInv, pc = "rmdir", Shrunk, Clean, Len(frames) = 1, arg' = arg, before' = before,
           Target \in DOMAIN tree, Children(Target) = {}, tree' = Without(Target),
           Return(Removal, TRUE)
    PROVE  RemovesBelow' /\ RemoveDirExact'
<1>1. pc' = "idle" /\ answer'.ok = TRUE /\ Target' = Target
  BY DEF Return, Target
<1>2. TreeOK /\ Target \in Seq(Texts)
  BY FramesFact DEF CallInv
<1>3. DOMAIN tree' = DOMAIN tree \ {Target} /\ \A r \in DOMAIN tree' : tree'[r] = tree[r]
  BY DEF Without
<1>4. ASSUME NEW r \in DOMAIN tree'
      PROVE  r \in DOMAIN before /\ tree'[r] = before[r] /\ ~Begin(Target, r)
  <2>1. r \in DOMAIN tree /\ r # Target /\ tree'[r] = tree[r]
    BY <1>3
  <2>2. r \in DOMAIN before /\ tree[r] = before[r]
    BY <2>1 DEF Shrunk
  <2>3. ~Begin(Target, r)
    <3> SUFFICES ASSUME Begin(Target, r) PROVE FALSE
      OBVIOUS
    <3>1. PICK c \in DOMAIN tree : Parent(c) = Target
      BY Zenon, <1>2, <2>1, BelowHasChild
    <3>2. c # <<>>
      <4>1. c \in Places
        BY <1>2 DEF TreeOK
      <4> QED BY Zenon, <4>1, PlaceFact
    <3>3. c \in Children(Target)
      BY <3>1, <3>2 DEF Children
    <3> QED BY <3>3
  <2> QED BY Zenon, <2>1, <2>2, <2>3
<1>5. ASSUME NEW r \in DOMAIN before, r \notin DOMAIN tree' PROVE Begin(Target, r)
  <2>1. r \notin DOMAIN tree \/ r = Target
    BY <1>3, <1>5
  <2>2. r \notin DOMAIN tree => Begin(Target, r)
    BY DEF Shrunk
  <2>3. Begin(Target, Target)
    BY Zenon, <1>2, BeginFact
  <2> QED BY Zenon, <2>1, <2>2, <2>3
<1>6. Target \in DOMAIN before
  BY DEF Shrunk
<1>7. Removed'
  BY Zenon, <1>1, <1>4, <1>5, <1>6 DEF Removed
<1>8. RemovesBelow'
  BY <1>1 DEF RemovesBelow, Removing
<1> QED BY Zenon, <1>7, <1>8, ExactNext

(* The step that removes a directory.                                       *)
LEMMA RmdirRight ==
    ASSUME RemoveInv, Rmdir
    PROVE  RemovesBelow' /\ RemoveDirExact'
<1>1. /\ pc = "rmdir" /\ before' = before /\ alone' = alone
      /\ pc \in {"remove", "rmdir"}
  BY Zenon DEF Rmdir, history
<1>2. CallInv /\ Answered /\ RemovesBelow /\ TreeOK
  BY DEF RemoveInv, CallInv
<1>3. PICK q : q = Names(Top.text)
  OBVIOUS
<1> DEFINE can == IsDirText(Top.text) /\ NamePart(Top.text) \notin {<<>>, <<".">>, <<".", ".">>}
                  /\ Children(q) = {}
<1>4. IF can
      THEN /\ tree' = Without(q)
           /\ IF Len(frames) = 1 THEN Return(Removal, TRUE) /\ UNCHANGED leaked
              ELSE /\ frames' = SubSeq(frames, 1, Len(frames) - 1)
                   /\ pc' = "remove"
                   /\ UNCHANGED <<path, edit, arg, work, at, leaked, answer>>
      ELSE RemoveFails(Open) /\ UNCHANGED tree
  BY Zenon, <1>3 DEF Rmdir
<1>5. arg' = arg
  BY Zenon, <1>4 DEF RemoveFails, Return
<1>6. CASE ~(alone /\ Plain(arg))
  BY Zenon, <1>1, <1>5, <1>6, Disturbed
<1>7. CASE alone /\ Plain(arg)
  <2>1. Shrunk /\ (Clean \/ Stuck)
    BY Zenon, <1>1, <1>2, <1>7 DEF RemovesBelow, Removing
  <2>2. CASE Stuck
    <3>1. ~can
      <4>1. PICK c \in DOMAIN tree : Parent(c) = q
        BY Zenon, <1>3, <2>2 DEF Stuck
      <4>2. c # <<>>
        <5>1. c \in Places
          BY <1>2 DEF TreeOK
        <5> QED BY Zenon, <5>1, PlaceFact
      <4>3. c \in Children(q)
        BY <4>1, <4>2 DEF Children
      <4> QED BY <4>3
    <3> QED BY Zenon, <1>1, <1>2, <1>4, <2>1, <2>2, <3>1, RmdirStuck
  <2>3. CASE Clean /\ ~can
    BY Zenon, <1>1, <1>2, <1>3, <1>4, <2>1, <2>3, RmdirFails
  <2>4. CASE Clean /\ can
    <3>1. q \in DOMAIN tree /\ q \in DOMAIN before /\ before[q] = tree[q]
      BY Zenon, <1>1, <1>2, <1>3, <2>1, <2>4, RmdirFound
    <3>2. q = LeadsTo(Len(frames))
      BY Zenon, <1>3 DEF Top, LeadsTo, TextAt
    <3>3. CASE Len(frames) = 1
      <4>1. q = Target
        BY Zenon, <3>2, <3>3, <2>4 DEF Clean, LeadsTo, Target
      <4> QED BY Zenon, <1>1, <1>2, <1>4, <1>5, <2>1, <2>4, <3>1, <3>3, <4>1, TargetGone
    <3>4. CASE Len(frames) # 1
      <4>1. /\ frames' = SubSeq(frames, 1, Len(frames) - 1) /\ pc' = "remove"
            /\ answer' = answer /\ tree' = Without(q)
        BY Zenon, <1>4, <2>4, <3>4
      <4>2. Clean' /\ Shrunk'
        BY Zenon, <1>1, <1>2, <1>5, <2>1, <2>4, <3>1, <3>2, <3>4, <4>1, CleanPopped
      <4>3. RemoveDirExact'
        <5>1. answer.kind = "none"
          BY <1>1, <1>2 DEF Answered
        <5> QED BY <4>1, <5>1 DEF RemoveDirExact
      <4> QED BY Zenon, <4>2, <4>3 DEF RemovesBelow
    <3> QED BY <3>3, <3>4
  <2> QED BY Zenon, <2>1, <2>2, <2>3, <2>4
<1> QED BY <1>6, <1>7

(* The call of RemoveDir: its only frame is about the target.               *)
LEMMA CalledRight ==
    ASSUME CallInv, NEW all \in BOOLEAN, RemoveDirCall(all)
    PROVE  RemovesBelow' /\ RemoveDirExact'
<1> DEFINE f == Frame(arg)
<1>1. /\ pc' \in {"remove", "rmdir"} /\ answer' = NoAnswer /\ arg' = arg
      /\ tree' = tree /\ before' = tree /\ frames' = <<f>>
  BY DEF RemoveDirCall, Call
<1>2. RemoveDirExact'
  BY <1>1 DEF RemoveDirExact, NoAnswer
<1>3. arg \in Texts /\ TreeOK
  BY DEF CallInv, EditInv
<1>4. f.text = arg /\ f.stream = "none" /\ f \in FrameType
  BY <1>3 DEF Frame, FrameType
<1> HIDE DEF f
<1>5. Len(frames') = 1 /\ frames'[1] = f
  BY <1>1, <1>4
<1>6. Shrunk'
  BY <1>1, <1>3 DEF Shrunk, TreeOK
<1>7. ASSUME Plain(arg) PROVE Clean'
  <2>1. TextAt(1)' = arg'
    BY Zenon, <1>1, <1>4, <1>5 DEF TextAt
  <2>2. Target' = LeadsTo(1)' /\ LeadsTo(1)' \in Seq(Texts)
    <3>1. arg' \in Texts
      BY Zenon, <1>1, <1>3
    <3>2. Names(arg') \in Seq(Texts)
      BY Zenon, <3>1, NamesType
    <3>3. Target' = Names(arg')
      BY DEF Target
    <3>4. LeadsTo(1)' = Names(TextAt(1)')
      BY DEF LeadsTo
    <3> QED BY Zenon, <2>1, <3>2, <3>3, <3>4
  <2>3. Begin(Target', LeadsTo(1)')
    BY Zenon, <2>2, BeginFact
  <2>4. Len(LeadsTo(1)') = Len(Target') + (1 - 1) /\ Len(TextAt(1)') <= Len(arg') + 2 * (1 - 1)
    <3>1. Len(Target') \in Nat /\ Len(arg') \in Nat
      BY <1>1, <1>3, <2>2, LenProperties DEF Texts
    <3>2. Len(LeadsTo(1)') = Len(Target') /\ Len(TextAt(1)') = Len(arg')
      BY Zenon, <2>1, <2>2
    <3> QED BY <3>1, <3>2
  <2>5. ~(1 < Len(frames)') /\ ~(1 > 1)
    BY <1>5
  <2>6. Plain(TextAt(1))'
    BY Zenon, <1>1, <1>7, <2>1
  <2>7. TextOK(1)'
    BY Zenon, <2>3, <2>4, <2>5, <2>6 DEF TextOK
  <2>8. ListOK(1)'
    <3>1. frames'[1].stream = "none" /\ "none" # "open" /\ "none" # "closed"
      BY <1>4, <1>5
    <3> QED BY Zenon, <3>1 DEF ListOK
  <2>9. \A j \in 1..Len(frames)' : TextOK(j)' /\ ListOK(j)'
    <3>1. \A j \in 1..Len(frames)' : j = 1
      BY <1>5
    <3> QED BY Zenon, <2>7, <2>8, <3>1
  <2>10. tree' = before'
    BY <1>1
  <2> QED BY Zenon, <2>1, <2>9, <2>10 DEF Clean
<1>8. Removing' => Plain(arg)
  BY <1>1 DEF Removing
<1> QED BY Zenon, <1>2, <1>6, <1>7, <1>8 DEF RemovesBelow

(* The steps that neither remove nor answer a call of RemoveDir.            *)
LEMMA NotRemoving ==
    ASSUME CallInv, Answered, MakeDir \/ AppendToPath \/ AppendCWDToPath \/ MoveUp \/ UsePath
    PROVE  RemovesBelow' /\ RemoveDirExact'
<1>1. CASE MakeDir
  <2>1. \/ answer' = NoAnswer /\ pc' = "mkdir"
        \/ \E ok : Return("make", ok)
        \/ answer' = answer /\ pc \in {"mkdir", "mkdirs"} /\ pc' \in {"mkdirs"}
    <3>1. MakeDirCall => answer' = NoAnswer /\ pc' = "mkdir"
      BY Zenon DEF MakeDirCall, Call
    <3>2. MakeDirFirst => (\E ok : Return("make", ok)) \/ (answer' = answer /\ pc = "mkdir" /\ pc' = "mkdirs")
      BY Zenon DEF MakeDirFirst
    <3>3. MakeDirNext => (\E ok : Return("make", ok)) \/ (answer' = answer /\ pc = "mkdirs" /\ pc' = pc)
      BY Zenon DEF MakeDirNext
    <3>4. MakeDirLast => \E ok : Return("make", ok)
      BY Zenon DEF MakeDirLast
    <3> QED BY <1>1, <3>1, <3>2, <3>3, <3>4 DEF MakeDir
  <2>2. Quiet'
    BY <2>1 DEF Return, NoAnswer, Answered, Quiet
  <2> QED BY Zenon, <2>2, ExactNext
<1>2. CASE AppendToPath \/ AppendCWDToPath \/ MoveUp \/ UsePath
  <2>1. pc = "edit" /\ answer' = answer /\ pc' \in {"edit", "idle"}
    BY <1>2 DEF AppendToPath, AppendCWDToPath, MoveUp, UsePath, Edit, call
  <2>2. answer = NoAnswer
    BY <2>1 DEF CallInv, CallOK
  <2>3. Quiet'
    BY <2>1, <2>2 DEF NoAnswer, Quiet
  <2> QED BY Zenon, <2>3, ExactNext
<1> QED BY <1>1, <1>2

(* A step that changes nothing.                                             *)
LEMMA NothingRemoved ==
    ASSUME RemovesBelow, RemoveDirExact, UNCHANGED vars
    PROVE  RemovesBelow' /\ RemoveDirExact'
<1>1. /\ tree' = tree /\ before' = before /\ alone' = alone /\ arg' = arg /\ pc' = pc
      /\ frames' = frames /\ leaked' = leaked /\ answer' = answer
  BY DEF vars, fsvars, history, call
<1>2. RemoveDirExact'
  BY Zenon, <1>1 DEF RemoveDirExact
<1>3. Target' = Target /\ Top' = Top
  BY Zenon, <1>1 DEF Target, Top
<1>4. \A k : TextAt(k)' = TextAt(k) /\ LeadsTo(k)' = LeadsTo(k)
  <2> SUFFICES ASSUME NEW k PROVE TextAt(k)' = TextAt(k) /\ LeadsTo(k)' = LeadsTo(k)
    OBVIOUS
  <2>1. TextAt(k)' = TextAt(k)
    BY Zenon, <1>1 DEF TextAt
  <2> QED BY Zenon, <2>1 DEF LeadsTo
<1>5. \A k, e : EntryAt(k, e)' = EntryAt(k, e)
  BY Zenon, <1>4 DEF EntryAt
<1>6. Shrunk => Shrunk'
  BY Zenon, <1>1, <1>3 DEF Shrunk
<1>7. TooMuch => TooMuch'
  BY Zenon, <1>1, <1>3 DEF TooMuch
<1>8. \A q : IsDirectory(q)' <=> IsDirectory(q)
  BY Zenon, <1>1 DEF IsDirectory
<1>9. ASSUME NEW k, TextOK(k) PROVE TextOK(k)'
  BY Zenon, <1>1, <1>3, <1>4, <1>9 DEF TextOK
<1>10. ASSUME NEW k, Listed(k) PROVE Listed(k)'
  BY Zenon, <1>1, <1>4, <1>5, <1>10 DEF Listed
<1>11. ASSUME NEW k, ListOK(k) PROVE ListOK(k)'
  BY Zenon, <1>1, <1>4, <1>8, <1>10, <1>11 DEF ListOK
<1>12. ASSUME Clean PROVE Clean'
  <2>1. TextAt(1)' = arg' /\ (pc' = "rmdir" /\ Top'.stream = "none" => tree' = before')
    BY Zenon, <1>1, <1>3, <1>4, <1>12 DEF Clean
  <2>2. \A k \in 1..Len(frames)' : TextOK(k)' /\ ListOK(k)'
    BY Zenon, <1>1, <1>9, <1>11, <1>12 DEF Clean
  <2> QED BY Zenon, <2>1, <2>2 DEF Clean
<1>13. ASSUME Stuck PROVE Stuck'
  BY Zenon, <1>1, <1>3, <1>7, <1>8, <1>13 DEF Stuck
<1>14. Removing' => Removing
  BY Zenon, <1>1 DEF Removing
<1> QED BY Zenon, <1>2, <1>6, <1>12, <1>13, <1>14 DEF RemovesBelow

(* A call that has answered is no longer running.                           *)
LEMMA AnsweredKept ==
    ASSUME CallInv, Answered, [Next]_vars
    PROVE  Answered'
<1>1. ASSUME NEW kind, NEW ok, Return(kind, ok) PROVE Answered'
  BY <1>1 DEF Return, Answered
<1>2. ASSUME answer' = answer, pc' = pc PROVE Answered'
  BY <1>2 DEF Answered
<1>3. ASSUME answer' = answer, pc # "idle" PROVE Answered'
  BY <1>3 DEF Answered
<1>4. ASSUME answer' = NoAnswer PROVE Answered'
  BY <1>4 DEF Answered, NoAnswer
<1>5. CASE MakeDir
  <2>1. MakeDirCall => answer' = NoAnswer
    BY Zenon DEF MakeDirCall, Call
  <2>2. MakeDirFirst => (\E ok : Return("make", ok)) \/ (answer' = answer /\ pc = "mkdir")
    BY Zenon DEF MakeDirFirst
  <2>3. MakeDirNext => (\E ok : Return("make", ok)) \/ (answer' = answer /\ pc' = pc)
    BY Zenon DEF MakeDirNext
  <2>4. MakeDirLast => \E ok : Return("make", ok)
    BY Zenon DEF MakeDirLast
  <2>5. "mkdir" # "idle"
    OBVIOUS
  <2> QED BY Zenon, <1>1, <1>2, <1>3, <1>4, <1>5, <2>1, <2>2, <2>3, <2>4, <2>5 DEF MakeDir
<1>6. CASE RemoveDir
  <2>1. (\E all \in BOOLEAN : RemoveDirCall(all)) => answer' = NoAnswer
    BY Zenon DEF RemoveDirCall, Call
  <2>2. ListOpen \/ ListEnd => answer' = answer /\ pc = "remove"
    BY Zenon DEF ListOpen, ListEnd
  <2>3. RemoveEntry => (answer' = answer /\ pc' = pc) \/ \E kind, ok : Return(kind, ok)
    BY Zenon DEF RemoveEntry, RemoveFails
  <2>4. Rmdir => (answer' = answer /\ pc = "rmdir") \/ \E kind, ok : Return(kind, ok)
    BY Zenon DEF Rmdir, RemoveFails
  <2>5. "remove" # "idle" /\ "rmdir" # "idle"
    OBVIOUS
  <2> QED BY Zenon, <1>1, <1>2, <1>3, <1>4, <1>6, <2>1, <2>2, <2>3, <2>4, <2>5 DEF RemoveDir
<1>7. CASE AppendToPath \/ AppendCWDToPath \/ MoveUp \/ UsePath
  <2>1. answer' = answer /\ pc = "edit"
    BY <1>7 DEF AppendToPath, AppendCWDToPath, MoveUp, UsePath, Edit, call
  <2> QED BY <1>3, <2>1
<1>8. CASE Others \/ UNCHANGED vars
  <2>1. answer' = answer /\ pc' = pc
    BY <1>8 DEF Others, vars, call
  <2> QED BY <1>2, <2>1
<1> QED BY <1>5, <1>6, <1>7, <1>8 DEF Next

(* Every step keeps what is known of a call of RemoveDir.                   *)
LEMMA RemoveKept ==
    ASSUME OneLetterNames, RemoveInv, [Next]_vars
    PROVE  RemoveInv'
<1>1. CallInv /\ Answered /\ RemovesBelow /\ RemoveDirExact
  BY DEF RemoveInv
<1>2. CallInv' /\ Answered'
  BY <1>1, EditKept, TreeKept, CallKept, FramesKept, LeakedKept, AnsweredKept DEF CallInv
<1>3. CASE MakeDir \/ AppendToPath \/ AppendCWDToPath \/ MoveUp \/ UsePath
  BY Zenon, <1>1, <1>2, <1>3, NotRemoving DEF RemoveInv
<1>4. CASE RemoveDir
  <2>1. CASE \E all \in BOOLEAN : RemoveDirCall(all)
    BY Zenon, <1>1, <1>2, <2>1, CalledRight DEF RemoveInv
  <2>2. CASE ListOpen
    BY Zenon, <1>2, <2>2, OpenRight DEF RemoveInv
  <2>3. CASE RemoveEntry
    BY Zenon, <1>2, <2>3, EntryRight DEF RemoveInv
  <2>4. CASE ListEnd
    BY Zenon, <1>2, <2>4, EndRight DEF RemoveInv
  <2>5. CASE Rmdir
    BY Zenon, <1>2, <2>5, RmdirRight DEF RemoveInv
  <2> QED BY Zenon, <1>4, <2>1, <2>2, <2>3, <2>4, <2>5 DEF RemoveDir
<1>5. CASE Others
  <2>1. ~alone'
    BY <1>5 DEF Others
  <2> QED BY Zenon, <1>2, <2>1, Disturbed DEF RemoveInv
<1>6. CASE UNCHANGED vars
  BY Zenon, <1>1, <1>2, <1>6, NothingRemoved DEF RemoveInv
<1> QED BY Zenon, <1>3, <1>4, <1>5, <1>6 DEF Next

(* RemoveDirExact: a call of RemoveDir of a path without "." and ".." that
   nobody disturbs and that answers true has removed the directory and what
   was below it; it answers false, or crashes, only for a reason.           *)
THEOREM RemoveDirExactAlways == OneLetterNames => (Spec => []RemoveDirExact)
<1> SUFFICES ASSUME OneLetterNames PROVE Spec => []RemoveDirExact
  OBVIOUS
<1>1. Init => Answered /\ RemovesBelow /\ RemoveDirExact
  BY DEF Init, NoAnswer, Answered, RemovesBelow, Removing, RemoveDirExact
<1>2. CallInv /\ Answered /\ RemovesBelow /\ RemoveDirExact /\ [Next]_vars
         => Answered' /\ RemovesBelow' /\ RemoveDirExact'
  BY RemoveKept DEF RemoveInv
<1> QED
  BY <1>1, <1>2, CallsAreOK, PTL DEF Spec
=============================================================================
