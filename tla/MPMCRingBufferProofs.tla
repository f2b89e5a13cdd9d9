-------------------------- MODULE MPMCRingBufferProofs --------------------------
(***************************************************************************)
(* Proofs about MPMCRingBuffer.  For any number of producers and consumers *)
(* and a compare-exchange that answers whether it stored: types, bounds    *)
(* and ownership.  For one producer and one consumer: the bounded queue.   *)
(***************************************************************************)
EXTENDS MPMCRingBuffer, Sequences, NumberLemmas, TLAPS

-----------------------------------------------------------------------------
(* Arithmetic of the cursors.                                               *)

(* usz can count: the width of the application's size leaves room for 1.    *)
LEMMA UszRange ==
    /\ 2 ^ UszBits \in Nat
    /\ 2 ^ UszBits >= 2
    /\ UszMax = 2 ^ UszBits - 1
    /\ UszMax \in Nat
<1>1. 2 ^ UszBits \in Int
  BY ConstantsAssumption
<1>2. QED
  BY <1>1, ConstantsAssumption DEF UszMax

(* MaxCur is a usz, whatever size the application gives.                    *)
LEMMA MaxCurIsUsz == InitMaxCur \subseteq 0..UszMax
<1>1. ASSUME NEW R \in RoundDownToPow2(RingSize)
      PROVE  (R \div PtrSize + UszMax) % 2 ^ UszBits \in 0..UszMax
  <2>1. R \in Int
    <3>1. \A k \in 0..(IntBits - 1) : 2 ^ k \in Int
      BY ConstantsAssumption
    <3>2. QED
      BY <3>1, UszRange DEF RoundDownToPow2
  <2>2. R \div PtrSize \in Int
    BY <2>1, ConstantsAssumption
  <2>3. QED
    BY <2>2, UszRange
<1>2. QED
  BY <1>1 DEF InitMaxCur

(* What a cursor is reduced to never lies behind MaxCur.                    *)
LEMMA SlotBound ==
    ASSUME MaxCur \in 0..UszMax, NEW Cur \in Nat
    PROVE  Slot(Cur) \in 0..MaxCur /\ Slot(Cur) \in 0..UszMax
BY UszRange DEF Slot

(* The atomic addition keeps a cursor within usz.                           *)
LEMMA AddFetchBound ==
    ASSUME NEW Cur \in Nat
    PROVE  AddFetch(Cur) \in 0..UszMax
BY UszRange DEF AddFetch

-----------------------------------------------------------------------------
(* Types and the state of a call, for any number of threads.                *)

(* At first nobody is in a call and every item is the application's.        *)
LEMMA InitEstablishes ==
    ASSUME Init
    PROVE  IInv
<1> USE ConstantsAssumption
<1>1. TypeOK
  BY MaxCurIsUsz, UszRange DEF Init, InitMPMCRingBuffer, TypeOK, States
<1>2. CallState
  BY DEF Init, InitMPMCRingBuffer, CallState, CallFits
<1>3. ASSUME NEW i \in Items
      PROVE  Places(i) = {<<"application">>}
  <2>1. /\ i \in free
        /\ {x \in Producers : pc[x] = "pushCAS" /\ Item[x] = i} = {}
        /\ {x \in DOMAIN Ring : Ring[x] = i} = {}
        /\ {x \in Consumers : pc[x] = "popAdd" /\ Item[x] = i} = {}
    BY <1>3 DEF Init, InitMPMCRingBuffer, Threads
  <2>2. QED
    BY <2>1 DEF Places
<1>4. OneOwner
  BY <1>3 DEF OneOwner, AllPlaces
<1>5. QED
  BY <1>1, <1>2, <1>4 DEF IInv

(* Every step keeps the types, and what a thread knows at each place in its
   call.                                                                    *)
LEMMA CallStatePreserved ==
    ASSUME TypeOK, CallState, Next
    PROVE  TypeOK' /\ CallState'
<1> USE ConstantsAssumption
<1>1. /\ Slot(ReadCur) \in 0..MaxCur /\ Slot(ReadCur) \in 0..UszMax
      /\ Slot(WriteCur) \in 0..MaxCur /\ Slot(WriteCur) \in 0..UszMax
      /\ AddFetch(ReadCur) \in 0..UszMax
      /\ AddFetch(WriteCur) \in 0..UszMax
  <2>1. MaxCur \in 0..UszMax /\ ReadCur \in Nat /\ WriteCur \in Nat
    BY UszRange DEF TypeOK
  <2>2. QED
    BY <2>1, SlotBound, AddFetchBound
<1> HIDE DEF Slot, AddFetch
<1>2. ASSUME NEW p \in Producers, NEW i \in Items, PushCall(p, i)
      PROVE  TypeOK' /\ CallState'
  BY <1>1, <1>2 DEF PushCall, TypeOK, CallState, CallFits, Threads, States
<1>3. ASSUME NEW p \in Producers, PushStore(p)
      PROVE  TypeOK' /\ CallState'
  BY <1>1, <1>3 DEF PushStore, CompareExchange, TypeOK, CallState, CallFits, Threads, States
<1>4. ASSUME NEW p \in Producers, PushFull(p)
      PROVE  TypeOK' /\ CallState'
  BY SMTT(30), <1>1, <1>4 DEF PushFull, TypeOK, CallState, CallFits, Threads, States
<1>5. ASSUME NEW p \in Producers, PushAdd(p)
      PROVE  TypeOK' /\ CallState'
  BY <1>1, <1>5 DEF PushAdd, TypeOK, CallState, CallFits, Threads, States
<1>6. ASSUME NEW c \in Consumers, PopCall(c)
      PROVE  TypeOK' /\ CallState'
  BY <1>1, <1>6 DEF PopCall, TypeOK, CallState, CallFits, Threads, States
<1>7. ASSUME NEW c \in Consumers, PopLoad(c)
      PROVE  TypeOK' /\ CallState'
  BY <1>1, <1>7 DEF PopLoad, TypeOK, CallState, CallFits, Threads, States
<1>8. ASSUME NEW c \in Consumers, PopIndex(c)
      PROVE  TypeOK' /\ CallState'
  BY <1>1, <1>8 DEF PopIndex, TypeOK, CallState, CallFits, Threads, States
<1>9. ASSUME NEW c \in Consumers, PopTake(c)
      PROVE  TypeOK' /\ CallState'
  BY <1>1, <1>9 DEF PopTake, CompareExchange, TypeOK, CallState, CallFits, Threads, States
<1>10. ASSUME NEW c \in Consumers, PopLost(c)
       PROVE  TypeOK' /\ CallState'
  BY <1>1, <1>10 DEF PopLost, TypeOK, CallState, CallFits, Threads, States
<1>11. ASSUME NEW c \in Consumers, PopAdd(c)
       PROVE  TypeOK' /\ CallState'
  BY <1>1, <1>11 DEF PopAdd, TypeOK, CallState, CallFits, Threads, States
<1>12. QED
  BY <1>2, <1>3, <1>4, <1>5, <1>6, <1>7, <1>8, <1>9, <1>10, <1>11
  DEF Next, MPMCRingBufferPush, MPMCRingBufferPop

-----------------------------------------------------------------------------
(* Ownership.                                                               *)

(* What is in one place, and leaves it for another, is in that one.         *)
LEMMA MovesTo ==
    ASSUME NEW P, NEW Q, NEW x, NEW y, \E z : P = {z}, x \in P, Q = (P \ {x}) \cup {y}
    PROVE  Q = {y}
OBVIOUS

(* The members of Places, one kind at a time.                               *)
LEMMA PlacesSplit ==
    ASSUME NEW i, NEW x
    PROVE  x \in Places(i) <=>
             \/ x = <<"application">> /\ i \in free
             \/ \E p \in Producers : x = <<"push", p>> /\ pc[p] = "pushCAS" /\ Item[p] = i
             \/ \E s \in DOMAIN Ring : x = <<"slot", s>> /\ Ring[s] = i
             \/ \E c \in Consumers : x = <<"pop", c>> /\ pc[c] = "popAdd" /\ Item[c] = i
BY DEF Places

(* No item is in two places or in none: every step that moves one takes it
   from where it is, whichever thread was faster.                           *)
LEMMA OwnerPreserved ==
    ASSUME TypeOK, CallState, OneOwner, Next, ~AnswersTrue
    PROVE  OneOwner'
<1> USE ConstantsAssumption
<1> DEFINE App == <<"application">>
           Push(p) == <<"push", p>>
           At(s) == <<"slot", s>>
           Pop(c) == <<"pop", c>>
           Moved(i, x, y) == /\ x \in Places(i)
                             /\ Places(i)' = (Places(i) \ {x}) \cup {y}
                             /\ y \in AllPlaces
                             /\ \A j \in Items : j # i => Places(j)' = Places(j)
           Stays == \A j \in Items : Places(j)' = Places(j)
<1>0. DOMAIN Ring' = DOMAIN Ring /\ AllPlaces' = AllPlaces
  BY DEF Next, MPMCRingBufferPush, MPMCRingBufferPop, PushCall, PushStore, PushFull, PushAdd,
         PopCall, PopLoad, PopIndex, PopTake, PopLost, PopAdd, AllPlaces
<1>1. ASSUME Stays
      PROVE  OneOwner'
  BY <1>0, <1>1 DEF OneOwner
<1>2. ASSUME NEW i \in Items, NEW x, NEW y, Moved(i, x, y)
      PROVE  OneOwner'
  <2>1. Places(i)' = {y}
    BY <1>2, MovesTo DEF OneOwner
  <2>2. QED
    BY <1>0, <1>2, <2>1 DEF OneOwner
<1> HIDE DEF Moved, Stays
<1>3. ASSUME NEW p \in Producers, NEW i \in Items, PushCall(p, i)
      PROVE  OneOwner'
  <2>1. Moved(i, App, Push(p))
    BY <1>3, PlacesSplit DEF Moved, Places, AllPlaces, PushCall, TypeOK, CallState, CallFits, Threads
  <2>2. QED
    BY <1>2, <2>1
<1>4. ASSUME NEW p \in Producers, PushStore(p)
      PROVE  OneOwner'
  <2>1. Item[p] \in Items
    BY <1>4 DEF PushStore, TypeOK, CallState, CallFits, Threads
  <2>2. Moved(Item[p], Push(p), At(idx[p]))
    BY <1>4, <2>1 DEF Moved, Places, AllPlaces, PushStore, CompareExchange, TypeOK, CallState, CallFits, Threads
  <2>3. QED
    BY <1>2, <2>1, <2>2
<1>5. ASSUME NEW p \in Producers, PushFull(p)
      PROVE  OneOwner'
  <2>1. Item[p] \in Items
    BY <1>5 DEF PushFull, TypeOK, CallState, CallFits, Threads
  <2>2. Moved(Item[p], Push(p), App)
    BY <1>5, <2>1 DEF Moved, Places, AllPlaces, PushFull, TypeOK, CallState, CallFits, Threads
  <2>3. QED
    BY <1>2, <2>1, <2>2
<1>6. ASSUME NEW c \in Consumers, PopTake(c)
      PROVE  OneOwner'
  <2>1. Item[c] \in Items
    BY <1>6 DEF PopTake, TypeOK, CallState, CallFits, Threads
  <2>2. Moved(Item[c], At(idx[c]), Pop(c))
    BY <1>6, <2>1 DEF Moved, Places, AllPlaces, PopTake, CompareExchange, TypeOK, CallState, CallFits, Threads
  <2>3. QED
    BY <1>2, <2>1, <2>2
<1>7. ASSUME NEW c \in Consumers, PopAdd(c)
      PROVE  OneOwner'
  <2>1. Item[c] \in Items
    BY <1>7 DEF PopAdd, TypeOK, CallState, CallFits, Threads
  <2>2. Moved(Item[c], Pop(c), App)
    BY <1>7, <2>1 DEF Moved, Places, AllPlaces, PopAdd, TypeOK, CallState, CallFits, Threads
  <2>3. QED
    BY <1>2, <2>1, <2>2
<1>8. ASSUME NEW p \in Producers, PushAdd(p)
      PROVE  OneOwner'
  <2>1. Stays
    BY <1>8 DEF Stays, Places, PushAdd, TypeOK, Threads
  <2>2. QED
    BY <1>1, <2>1
<1>9. ASSUME NEW c \in Consumers, PopCall(c) \/ PopLoad(c) \/ PopIndex(c) \/ PopLost(c)
      PROVE  OneOwner'
  <2>1. Stays
    BY <1>9 DEF Stays, Places, PopCall, PopLoad, PopIndex, PopLost, TypeOK, Threads
  <2>2. QED
    BY <1>1, <2>1
<1>10. QED
  BY <1>3, <1>4, <1>5, <1>6, <1>7, <1>8, <1>9 DEF Next, MPMCRingBufferPush, MPMCRingBufferPop

(* What every step preserves, for any number of threads.                    *)
LEMMA StepPreserves ==
    ASSUME IInv, [Next]_vars
    PROVE  IInv'
<1>1. CASE UNCHANGED vars
  BY <1>1 DEF vars, IInv, TypeOK, CallState, CallFits, OneOwner, Places, AllPlaces
<1>2. CASE Next
  BY <1>2, CallStatePreserved, OwnerPreserved DEF IInv, AnswersTrue
<1>3. QED
  BY <1>1, <1>2

(* Types, bounds and ownership hold throughout, for any number of producers
   and consumers.                                                           *)
THEOREM Invariant == Spec => []IInv
<1>1. Init => IInv
  BY InitEstablishes
<1>2. IInv /\ [Next]_vars => IInv'
  BY StepPreserves
<1>3. QED
  BY <1>1, <1>2, PTL DEF Spec

(* Built with a compare-exchange that answers whether it stored, the ring
   never hands an item to two Pops and never loses one that a Push took: this
   needs no order among the threads, only that a slot is claimed atomically. *)
THEOREM Ownership == Compiler = "GCC" => (Spec => []OneOwner)
<1>1. SUFFICES ASSUME Compiler = "GCC"
               PROVE  Spec => []OneOwner
  OBVIOUS
<1>2. IInv => OneOwner
  BY <1>1 DEF IInv, AnswersTrue
<1>3. QED
  BY <1>2, Invariant, PTL

-----------------------------------------------------------------------------
(* Powers of two.                                                           *)

(* The power of a sum is a product.                                          *)
LEMMA PowerOfSum ==
    ASSUME NEW a \in Nat, NEW b \in Nat, a + b <= UszBits
    PROVE  2 ^ (a + b) = 2 ^ a * 2 ^ b
<1> USE ConstantsAssumption
<1> DEFINE Bad == {n \in Nat : a + n <= UszBits /\ 2 ^ (a + n) # 2 ^ a * 2 ^ n}
<1>1. SUFFICES ASSUME Bad # {}
               PROVE  FALSE
  OBVIOUS
<1>2. PICK n \in Bad : \A m \in Bad : n <= m
  BY <1>1, SmallestMember
<1>3. n # 0
  <2>1. 2 ^ 0 = 1
    BY SMT
  <2>2. 2 ^ a \in Nat
    BY PowersOfTwo
  <2>3. 2 ^ (a + 0) = 2 ^ a
    <3>1. a + 0 = a
      OBVIOUS
    <3>2. QED
      BY <3>1, Zenon
  <2>4. 2 ^ a * 2 ^ 0 = 2 ^ a
    BY <2>1, <2>2
  <2>5. SUFFICES ASSUME n = 0
                 PROVE  FALSE
    OBVIOUS
  <2>6. QED
    BY <1>2, <2>3, <2>4, <2>5, Zenon
<1>4. /\ n - 1 \in Nat
      /\ a + (n - 1) \in 0..UszBits
      /\ n - 1 \in 0..UszBits
      /\ a \in 0..UszBits
      /\ (a + (n - 1)) + 1 = a + n
      /\ (n - 1) + 1 = n
  BY <1>2, <1>3
<1>5. 2 ^ (a + (n - 1)) = 2 ^ a * 2 ^ (n - 1)
  BY <1>2, <1>4
<1>6. 2 ^ (a + n) = 2 * 2 ^ (a + (n - 1)) /\ 2 ^ n = 2 * 2 ^ (n - 1)
  BY <1>4, PowersOfTwo
<1>7. 2 ^ a \in Nat /\ 2 ^ (n - 1) \in Nat
  BY <1>4, PowersOfTwo
<1>8. \A x, y \in Nat : 2 * (x * y) = x * (2 * y)
  OBVIOUS
<1>9. 2 ^ (a + n) = 2 ^ a * 2 ^ n
  BY <1>5, <1>6, <1>7, <1>8
<1>10. QED
  BY <1>2, <1>9

(* A larger exponent gives at least twice the power.                        *)
LEMMA PowerGrows ==
    ASSUME NEW a \in 0..UszBits, NEW b \in 0..UszBits, a < b
    PROVE  2 * 2 ^ a <= 2 ^ b
<1> USE ConstantsAssumption
<1>1. /\ a + 1 \in Nat
      /\ b - (a + 1) \in Nat
      /\ (a + 1) + (b - (a + 1)) = b
      /\ b - (a + 1) \in 0..UszBits
  OBVIOUS
<1>2. 2 ^ b = 2 ^ (a + 1) * 2 ^ (b - (a + 1))
  BY <1>1, PowerOfSum
<1>3. 2 ^ (a + 1) = 2 * 2 ^ a /\ 2 ^ a \in Nat
  BY PowersOfTwo
<1>4. 2 ^ (b - (a + 1)) \in Nat \ {0}
  BY <1>1, PowersOfTwo
<1>5. \A x \in Nat, y \in Nat \ {0} : x <= x * y
  OBVIOUS
<1>6. QED
  BY <1>2, <1>3, <1>4, <1>5

-----------------------------------------------------------------------------
(* Slots of a usable ring.                                                  *)

(* RoundDownToPow2 finds the one power of two that a usable size begins with. *)
LEMMA RoundedDown ==
    ASSUME UsableRing
    PROVE  \E j \in 0..(IntBits - 1) : /\ RoundDownToPow2(RingSize) = {2 ^ j}
                                       /\ 2 ^ j <= RingSize
                                       /\ RingSize < 2 * 2 ^ j
<1> USE ConstantsAssumption
<1> DEFINE V == RingSize % 2 ^ IntBits
           Power(k) == IF k = IntBits - 1 THEN 2 ^ UszBits - 2 ^ k ELSE 2 ^ k
           Enough == {j \in 0..(IntBits - 1) : RingSize < 2 * 2 ^ j}
<1>1. \A j \in 0..(IntBits - 1) : 2 ^ j \in Nat \ {0} /\ 2 ^ (j + 1) = 2 * 2 ^ j /\ j \in 0..UszBits
  BY PowersOfTwo
<1>2. RingSize \in Nat \ {0} /\ RingSize < 2 ^ (IntBits - 1)
  BY UszRange DEF UsableRing
<1>3. V = RingSize
  <2>1. 2 ^ IntBits = 2 * 2 ^ (IntBits - 1) /\ 2 ^ (IntBits - 1) \in Nat
    <3>1. IntBits - 1 \in 0..(IntBits - 1) /\ (IntBits - 1) + 1 = IntBits
      OBVIOUS
    <3>2. 2 ^ ((IntBits - 1) + 1) = 2 ^ IntBits
      BY <3>1, Zenon
    <3>3. QED
      BY <1>1, <3>1, <3>2
  <2>2. \A m \in Nat : RingSize < m => RingSize % m = RingSize
    BY <1>2
  <2>3. QED
    BY <1>2, <2>1, <2>2
<1>4. PICK j \in Enough : \A i \in Enough : j <= i
  <2>1. IntBits - 1 \in Enough
    BY <1>1, <1>2
  <2>2. Enough \subseteq Nat
    OBVIOUS
  <2>3. QED
    BY <2>1, <2>2, SmallestMember
<1>5. 2 ^ j <= RingSize
  <2>1. CASE j = 0
    <3>1. 2 ^ 0 = 1
      BY SMT
    <3>2. QED
      BY <1>2, <2>1, <3>1
  <2>2. CASE j # 0
    <3>1. j - 1 \in 0..(IntBits - 1) /\ j - 1 \notin Enough /\ (j - 1) + 1 = j
      BY <1>4, <2>2
    <3>2. 2 ^ ((j - 1) + 1) = 2 ^ j
      BY <3>1, Zenon
    <3>3. QED
      BY <1>1, <1>2, <3>1, <3>2
  <2>3. QED
    BY <2>1, <2>2
<1>6. j \in 0..(IntBits - 1) /\ RingSize < 2 * 2 ^ j
  BY <1>4
<1>7. \A i \in 0..(IntBits - 1) : 2 ^ i <= RingSize /\ RingSize < 2 * 2 ^ i => i = j
  <2>1. \A i, l \in 0..(IntBits - 1) : i < l => 2 * 2 ^ i <= 2 ^ l
    BY <1>1, PowerGrows
  <2>2. QED
    BY <1>1, <1>2, <1>5, <1>6, <2>1
<1>8. \A i \in 0..(IntBits - 1) :
         (V = 0 \/ V \div 2 ^ i = 1) <=> 2 ^ i <= RingSize /\ RingSize < 2 * 2 ^ i
  <2>1. \A m \in Nat \ {0} : RingSize \div m = 1 <=> m <= RingSize /\ RingSize < 2 * m
    BY <1>2
  <2>2. QED
    BY <1>1, <1>2, <1>3, <2>1
<1>9. {i \in 0..(IntBits - 1) : V = 0 \/ V \div 2 ^ i = 1} = {j}
  BY <1>5, <1>6, <1>7, <1>8
<1>10. j # IntBits - 1
  BY <1>1, <1>2, <1>5
<1>11. RoundDownToPow2(RingSize) = {2 ^ j}
  <2>1. RoundDownToPow2(RingSize) = {Power(k) : k \in {i \in 0..(IntBits - 1) : V = 0 \/ V \div 2 ^ i = 1}}
    BY DEF RoundDownToPow2
  <2>2. RoundDownToPow2(RingSize) = {Power(j)}
    BY <1>9, <2>1
  <2>3. QED
    BY <1>10, <2>2
<1>12. QED
  BY <1>5, <1>6, <1>11

(* A usable ring has a power of two of slots, and the array holds them.     *)
LEMMA RingGeometry ==
    ASSUME UsableRing
    PROVE  \E e \in 0..UszBits : /\ InitMaxCur = {2 ^ e - 1}
                                 /\ 2 ^ e <= RingSize \div PtrSize
<1> USE ConstantsAssumption
<1>1. PICK j \in 0..(IntBits - 1) : /\ RoundDownToPow2(RingSize) = {2 ^ j}
                                    /\ 2 ^ j <= RingSize
                                    /\ RingSize < 2 * 2 ^ j
  BY RoundedDown
<1>2. PICK k \in 0..UszBits : PtrSize = 2 ^ k
  BY DEF UsableRing
<1>3. j \in 0..UszBits /\ 2 ^ j \in Nat /\ RingSize \in Nat /\ PtrSize <= RingSize
  BY PowersOfTwo, UszRange DEF UsableRing
<1>4. k <= j
  <2>1. SUFFICES ASSUME j < k
                 PROVE  FALSE
    BY <1>3
  <2>2. 2 * 2 ^ j <= 2 ^ k
    BY <1>3, <2>1, PowerGrows
  <2>3. QED
    BY <1>1, <1>2, <1>3, <2>2
<1> DEFINE e == j - k
<1>5. e \in 0..UszBits /\ e \in Nat /\ k \in Nat /\ e + k = j
  BY <1>3, <1>4
<1> HIDE DEF e
<1>6. 2 ^ j = 2 ^ e * PtrSize
  <2>1. 2 ^ (e + k) = 2 ^ e * 2 ^ k
    BY <1>3, <1>5, PowerOfSum
  <2>2. 2 ^ (e + k) = 2 ^ j
    BY <1>5, Zenon
  <2>3. QED
    BY <1>2, <2>1, <2>2
<1>7. 2 ^ e \in Nat \ {0} /\ 2 ^ e <= 2 ^ UszBits
  <2>1. 2 ^ e \in Nat \ {0} /\ 2 ^ UszBits \in Nat /\ UszBits \in 0..UszBits
    BY <1>5, PowersOfTwo
  <2>2. CASE e = UszBits
    BY <2>1, <2>2
  <2>3. CASE e < UszBits
    BY <1>5, <2>1, <2>3, PowerGrows
  <2>4. QED
    BY <1>5, <2>2, <2>3
<1>8. 2 ^ j \div PtrSize = 2 ^ e
  <2>1. \A x \in Nat, m \in Nat \ {0} : (x * m) \div m = x
    OBVIOUS
  <2>2. QED
    BY <1>6, <1>7, <2>1
<1>9. (2 ^ e + UszMax) % 2 ^ UszBits = 2 ^ e - 1
  <2>1. \A x \in Nat \ {0}, m \in Nat \ {0} : x <= m => (x + (m - 1)) % m = x - 1
    OBVIOUS
  <2>2. QED
    BY <1>7, <2>1, UszRange
<1>10. InitMaxCur = {2 ^ e - 1}
  BY <1>1, <1>8, <1>9 DEF InitMaxCur
<1>11. 2 ^ e <= RingSize \div PtrSize
  <2>1. \A x, y \in Nat, m \in Nat \ {0} : x * m <= y => x <= y \div m
    OBVIOUS
  <2>2. QED
    BY <1>1, <1>3, <1>6, <1>7, <2>1
<1>12. QED
  BY <1>5, <1>10, <1>11

(* No thread ever computes the index of a slot outside the application's
   array, when that holds a pointer and its size fits the int that
   RoundDownToPow2 takes.                                                   *)
THEOREM SlotsInBounds == UsableRing => (Spec => []RingInBounds)
<1>1. SUFFICES ASSUME UsableRing
               PROVE  Spec => []RingInBounds
  OBVIOUS
<1>2. IInv => RingInBounds
  <2>1. SUFFICES ASSUME IInv, NEW t \in Threads, pc[t] # "idle"
                 PROVE  idx[t] \in DOMAIN Ring
    BY DEF RingInBounds
  <2>2. PICK e \in 0..UszBits : InitMaxCur = {2 ^ e - 1} /\ 2 ^ e <= RingSize \div PtrSize
    BY <1>1, RingGeometry
  <2>3. 2 ^ e \in Nat /\ RingSize \div PtrSize \in Nat
    BY <2>2, PowersOfTwo, ConstantsAssumption, UszRange
  <2>4. /\ MaxCur = 2 ^ e - 1
        /\ idx[t] \in 0..UszMax /\ idx[t] <= MaxCur
        /\ DOMAIN Ring = 0..(RingSize \div PtrSize - 1)
    BY <2>1, <2>2 DEF IInv, TypeOK, CallState, CallFits
  <2>5. QED
    BY <2>2, <2>3, <2>4, UszRange
<1>3. QED
  BY <1>2, Invariant, PTL

-----------------------------------------------------------------------------
(* One producer and one consumer on a usable ring.                          *)

\* What the theorems about the queue assume.
Solo(p, c) == Producers = {p} /\ Consumers = {c}

\* The window, with its length.
WindowIs(n) ==
    /\ n \in 0..(MaxCur + 1)
    /\ Filled = {Slot(First + k) : k \in 0..(n - 1)}
    /\ Slot(First + n) = Slot(WriteCur + Cardinality({p \in Producers : pc[p] = "pushAdd"}))

(* The array of a usable ring holds every slot, and no cursor loses its slot
   when it wraps.                                                           *)
LEMMA UsableSlots ==
    ASSUME UsableRing, IInv
    PROVE  /\ MaxCur \in Nat
           /\ MaxCur \in 0..UszMax
           /\ InitMaxCur = {MaxCur}
           /\ 0..MaxCur \subseteq DOMAIN Ring
           /\ \A Cur \in Nat : AddFetch(Cur) \in Nat /\ Slot(AddFetch(Cur)) = Slot(Cur + 1)
<1> USE ConstantsAssumption
<1>1. PICK e \in 0..UszBits : InitMaxCur = {2 ^ e - 1} /\ 2 ^ e <= RingSize \div PtrSize
  BY RingGeometry
<1>2. 2 ^ e \in Nat \ {0} /\ RingSize \div PtrSize \in Nat
  BY <1>1, PowersOfTwo, UszRange
<1>3. /\ MaxCur = 2 ^ e - 1
      /\ MaxCur \in 0..UszMax
      /\ DOMAIN Ring = 0..(RingSize \div PtrSize - 1)
  BY <1>1 DEF IInv, TypeOK, CallState
<1>4. MaxCur + 1 = 2 ^ e
  BY <1>2, <1>3
<1>5. PICK m \in Nat \ {0} : 2 ^ UszBits = 2 ^ e * m
  <2>1. e \in Nat /\ UszBits - e \in Nat /\ UszBits - e \in 0..UszBits /\ e + (UszBits - e) = UszBits
    OBVIOUS
  <2>2. 2 ^ (e + (UszBits - e)) = 2 ^ e * 2 ^ (UszBits - e)
    BY <2>1, PowerOfSum
  <2>3. 2 ^ (e + (UszBits - e)) = 2 ^ UszBits
    BY <2>1, Zenon
  <2>4. 2 ^ (UszBits - e) \in Nat \ {0}
    BY <2>1, PowersOfTwo
  <2>5. QED
    BY <2>2, <2>3, <2>4
<1>6. ASSUME NEW Cur \in Nat
      PROVE  AddFetch(Cur) \in Nat /\ Slot(AddFetch(Cur)) = Slot(Cur + 1)
  <2>1. ((Cur + 1) % (2 ^ e * m)) % 2 ^ e = (Cur + 1) % 2 ^ e
    <3>1. Cur + 1 \in Nat
      OBVIOUS
    <3>2. QED
      BY <1>2, <3>1, RemainderOfRemainder
  <2>2. QED
    BY <1>4, <1>5, <2>1, AddFetchBound, UszRange DEF AddFetch, Slot
<1>7. QED
  BY <1>1, <1>2, <1>3, <1>6

(* The one consumer has emptied a slot in advance of the cursor, or not; and
   the one producer has filled one.                                         *)
LEMMA PendingOfOne ==
    ASSUME NEW p, NEW c, Solo(p, c)
    PROVE  /\ First = ReadCur + (IF pc[c] = "popAdd" THEN 1 ELSE 0)
           /\ First' = ReadCur' + (IF pc'[c] = "popAdd" THEN 1 ELSE 0)
           /\ Cardinality({x \in Producers : pc[x] = "pushAdd"}) = IF pc[p] = "pushAdd" THEN 1 ELSE 0
           /\ Cardinality({x \in Producers : pc'[x] = "pushAdd"}) = IF pc'[p] = "pushAdd" THEN 1 ELSE 0
<1>1. Cardinality({}) = 0 /\ \A x : Cardinality({x}) = 1
  BY FS_EmptySet, FS_Singleton
<1>2. /\ {x \in Consumers : pc[x] = "popAdd"} = IF pc[c] = "popAdd" THEN {c} ELSE {}
      /\ {x \in Consumers : pc'[x] = "popAdd"} = IF pc'[c] = "popAdd" THEN {c} ELSE {}
      /\ {x \in Producers : pc[x] = "pushAdd"} = IF pc[p] = "pushAdd" THEN {p} ELSE {}
      /\ {x \in Producers : pc'[x] = "pushAdd"} = IF pc'[p] = "pushAdd" THEN {p} ELSE {}
  BY DEF Solo
<1>3. QED
  BY <1>1, <1>2 DEF First

(* The queue that a window holds.                                           *)
LEMMA QueueOfWindow ==
    ASSUME NEW ring, NEW M \in Nat, NEW first \in Nat, NEW n \in 0..(M + 1),
           \A s \in DOMAIN ring : ring[s] \in Items \cup {NULL},
           0..M \subseteq DOMAIN ring,
           {s \in DOMAIN ring : ring[s] # NULL} = {(first + k) % (M + 1) : k \in 0..(n - 1)},
           NEW q, q = [k \in 1..n |-> ring[(first + k - 1) % (M + 1)]]
    PROVE  /\ Cardinality({s \in DOMAIN ring : ring[s] # NULL}) = n
           /\ q \in Seq(Items)
           /\ Len(q) = n
<1>1. Cardinality({(first + k) % (M + 1) : k \in 0..(n - 1)}) = n
  <2>1. M + 1 \in Nat \ {0}
    OBVIOUS
  <2>2. QED
    BY <2>1, WindowCount
<1>2. ASSUME NEW k \in 1..n
      PROVE  ring[(first + k - 1) % (M + 1)] \in Items
  <2>1. k - 1 \in 0..(n - 1) /\ first + (k - 1) = first + k - 1
    OBVIOUS
  <2>2. (first + (k - 1)) % (M + 1) \in {s \in DOMAIN ring : ring[s] # NULL}
    BY <2>1
  <2>3. QED
    BY <2>1, <2>2
<1>3. q \in Seq(Items) /\ Len(q) = n
  BY <1>2
<1>4. QED
  BY <1>1, <1>3

(* What is queued, read off the window.                                     *)
LEMMA ContentsOfWindow ==
    ASSUME NEW n, WindowIs(n), TypeOK, First \in Nat, MaxCur \in Nat, 0..MaxCur \subseteq DOMAIN Ring
    PROVE  /\ Contents = [k \in 1..n |-> Ring[Slot(First + k - 1)]]
           /\ Contents \in Seq(Items)
           /\ Len(Contents) = n
<1>1. /\ n \in 0..(MaxCur + 1)
      /\ \A s \in DOMAIN Ring : Ring[s] \in Items \cup {NULL}
      /\ {s \in DOMAIN Ring : Ring[s] # NULL} = {(First + k) % (MaxCur + 1) : k \in 0..(n - 1)}
  BY DEF WindowIs, TypeOK, Filled, Slot
<1> DEFINE q == [k \in 1..n |-> Ring[(First + k - 1) % (MaxCur + 1)]]
<1>2. /\ Cardinality({s \in DOMAIN Ring : Ring[s] # NULL}) = n
      /\ q \in Seq(Items)
      /\ Len(q) = n
  BY <1>1, QueueOfWindow
<1>3. Contents = q
  BY <1>2 DEF Contents, Filled, Slot
<1>4. QED
  BY <1>2, <1>3 DEF Slot

(* The same of the state after a step.                                      *)
LEMMA ContentsOfNextWindow ==
    ASSUME NEW n, WindowIs(n)', TypeOK', First' \in Nat, MaxCur' \in Nat,
           0..MaxCur' \subseteq DOMAIN Ring'
    PROVE  Contents' = [k \in 1..n |-> Ring'[(First' + k - 1) % (MaxCur' + 1)]]
<1>1. /\ n \in 0..(MaxCur' + 1)
      /\ \A s \in DOMAIN Ring' : Ring'[s] \in Items \cup {NULL}
      /\ {s \in DOMAIN Ring' : Ring'[s] # NULL} = {(First' + k) % (MaxCur' + 1) : k \in 0..(n - 1)}
  BY DEF WindowIs, TypeOK, Filled, Slot
<1> DEFINE q == [k \in 1..n |-> Ring'[(First' + k - 1) % (MaxCur' + 1)]]
<1>2. Cardinality({s \in DOMAIN Ring' : Ring'[s] # NULL}) = n
  BY <1>1, QueueOfWindow
<1>3. QED
  BY <1>2 DEF Contents, Filled, Slot

\* The cursor behind the last filled slot.
Last(p) == WriteCur + (IF pc[p] = "pushAdd" THEN 1 ELSE 0)

(* What the steps below share.                                              *)
LEMMA SoloState ==
    ASSUME UsableRing, SPSCInv, NEW p, NEW c, Solo(p, c)
    PROVE  /\ p \in Producers /\ c \in Consumers /\ p # c /\ p \in Threads /\ c \in Threads
           /\ ReadCur \in Nat /\ WriteCur \in Nat /\ First \in Nat /\ Last(p) \in Nat
           /\ MaxCur \in Nat
           /\ 0..MaxCur \subseteq DOMAIN Ring
           /\ \E n : WindowIs(n)
           /\ \A n : WindowIs(n) => Slot(First + n) = Slot(Last(p))
<1>1. ReadCur \in Nat /\ WriteCur \in Nat
  BY UszRange DEF SPSCInv, IInv, TypeOK
<1>2. p \in Producers /\ c \in Consumers /\ p # c /\ p \in Threads /\ c \in Threads
  BY ConstantsAssumption DEF Solo, Threads
<1>3. First \in Nat /\ Last(p) \in Nat
  <2>1. First = ReadCur + (IF pc[c] = "popAdd" THEN 1 ELSE 0)
    BY PendingOfOne
  <2>2. QED
    BY <1>1, <2>1 DEF Last
<1>4. \A n : WindowIs(n) => Slot(First + n) = Slot(Last(p))
  <2>1. WriteCur + Cardinality({x \in Producers : pc[x] = "pushAdd"}) = Last(p)
    BY PendingOfOne DEF Last
  <2>2. QED
    BY <2>1 DEF WindowIs
<1>5. \E n : WindowIs(n)
  BY DEF SPSCInv, Window, WindowIs
<1>6. QED
  BY <1>1, <1>2, <1>3, <1>4, <1>5, UsableSlots DEF SPSCInv

(* The window after a step, in terms of the one producer.                   *)
LEMMA NextWindow ==
    ASSUME NEW p, NEW c, Solo(p, c), NEW n, n \in 0..(MaxCur' + 1),
           Filled' = {Slot(First + k)' : k \in 0..(n - 1)}, Slot(First + n)' = Slot(Last(p))'
    PROVE  WindowIs(n)' /\ Window'
<1>1. WriteCur' + Cardinality({x \in Producers : pc'[x] = "pushAdd"}) = Last(p)'
  BY PendingOfOne DEF Last
<1>2. WindowIs(n)'
  BY <1>1 DEF WindowIs, Slot
<1>3. QED
  BY <1>2 DEF Window, WindowIs

(* Cursors at the same slot stay together as they go on.                    *)
LEMMA SlotOffset ==
    ASSUME MaxCur \in Nat, NEW x \in Nat, NEW y \in Nat, Slot(x) = Slot(y),
           NEW k \in 0..(MaxCur + 1)
    PROVE  Slot(x + k) = Slot(y + k)
<1> DEFINE N == MaxCur + 1
<1>1. N \in Nat \ {0} /\ k \in 0..N
  OBVIOUS
<1> HIDE DEF N
<1>2. /\ (x + k) % N = IF (x % N) + k < N THEN (x % N) + k ELSE (x % N) + k - N
      /\ (y + k) % N = IF (y % N) + k < N THEN (y % N) + k ELSE (y % N) + k - N
  BY <1>1, RemainderOffset
<1>3. x % N = y % N
  BY DEF Slot, N
<1>4. QED
  BY <1>2, <1>3 DEF Slot, N

(* A whole turn leads back to the same slot.                                *)
LEMMA SlotTurn ==
    ASSUME MaxCur \in Nat, NEW x \in Nat
    PROVE  Slot(x + (MaxCur + 1)) = Slot(x)
<1> DEFINE N == MaxCur + 1
<1>1. N \in Nat \ {0} /\ N \in 0..N
  OBVIOUS
<1> HIDE DEF N
<1>2. (x + N) % N = IF (x % N) + N < N THEN (x % N) + N ELSE (x % N) + N - N
  BY <1>1, RemainderOffset
<1>3. x % N \in 0..(N - 1)
  BY <1>1, Division
<1>4. (x + N) % N = x % N
  BY <1>1, <1>2, <1>3
<1>5. QED
  BY <1>4 DEF Slot, N

(* A step that changes no slot, and moves a cursor only past a slot that was
   counted already, changes neither the window nor the queue.               *)
LEMMA QuietStep ==
    ASSUME UsableRing, SPSCInv, IInv', NEW p, NEW c, Solo(p, c), UNCHANGED <<Ring, MaxCur>>,
           First' \in Nat, Last(p)' \in Nat,
           Slot(First') = Slot(First), Slot(Last(p)') = Slot(Last(p))
    PROVE  Window' /\ Contents' = Contents
<1>1. PICK n : WindowIs(n)
  BY SoloState
<1>2. /\ First \in Nat /\ MaxCur \in Nat /\ 0..MaxCur \subseteq DOMAIN Ring
      /\ n \in 0..(MaxCur + 1)
      /\ Slot(First + n) = Slot(Last(p))
  BY <1>1, SoloState DEF WindowIs
<1>3. \A k \in 0..(MaxCur + 1) : Slot(First' + k) = Slot(First + k)
  BY <1>2, SlotOffset
<1>4. WindowIs(n)'
  <2>1. Filled' = Filled
    BY DEF Filled
  <2>2. \A k \in 0..(n - 1) : Slot(First + k)' = Slot(First + k)
    BY <1>2, <1>3 DEF Slot
  <2>3. Filled' = {Slot(First + k)' : k \in 0..(n - 1)}
    BY <1>1, <2>1, <2>2 DEF WindowIs
  <2>4. Slot(First + n)' = Slot(Last(p))'
    BY <1>2, <1>3 DEF Slot
  <2>5. QED
    BY <1>2, <2>3, <2>4, NextWindow
<1>5. Window'
  BY <1>4 DEF Window, WindowIs
<1>6. Contents' = Contents
  <2>1. Contents' = [k \in 1..n |-> Ring'[(First' + k - 1) % (MaxCur' + 1)]]
    BY <1>2, <1>4, ContentsOfNextWindow DEF IInv
  <2>2. Contents = [k \in 1..n |-> Ring[Slot(First + k - 1)]]
    BY <1>1, <1>2, ContentsOfWindow DEF SPSCInv, IInv
  <2>3. \A k \in 1..n : Slot(First' + k - 1) = Slot(First + k - 1)
    <3>1. SUFFICES ASSUME NEW k \in 1..n
                   PROVE  Slot(First' + k - 1) = Slot(First + k - 1)
      OBVIOUS
    <3>2. k - 1 \in 0..(MaxCur + 1) /\ First' + (k - 1) = First' + k - 1 /\ First + (k - 1) = First + k - 1
      BY <1>2
    <3>3. QED
      BY <1>3, <3>2
  <2>4. QED
    BY <2>1, <2>2, <2>3 DEF Slot
<1>7. QED
  BY <1>5, <1>6

(* PushStore fills the slot behind the window: the item is enqueued.        *)
LEMMA PushStoreStep ==
    ASSUME UsableRing, SPSCInv, IInv', NEW p, NEW c, Solo(p, c), PushStore(p)
    PROVE  /\ Window'
           /\ Contents \in Seq(Items)
           /\ Len(Contents) < MaxCur + 1
           /\ Item[p] \in Items
           /\ Contents' = Append(Contents, Item[p])
<1>1. PICK n : WindowIs(n)
  BY SoloState
<1>2. /\ First \in Nat /\ MaxCur \in Nat /\ WriteCur \in Nat /\ 0..MaxCur \subseteq DOMAIN Ring
      /\ p \in Producers /\ p \in Threads /\ c \in Threads /\ p # c
      /\ n \in 0..(MaxCur + 1)
      /\ Slot(First + n) = Slot(Last(p))
      /\ Filled = {Slot(First + k) : k \in 0..(n - 1)}
  BY <1>1, SoloState DEF WindowIs
<1> DEFINE s == Slot(First + n)
<1>3. /\ pc[p] = "pushCAS"
      /\ s = idx[p] /\ s = Slot(WriteCur)
      /\ s \in DOMAIN Ring /\ Ring[s] = NULL
      /\ Item[p] \in Items
      /\ Ring' = [Ring EXCEPT ![s] = Item[p]]
      /\ pc'[p] = "pushAdd" /\ pc'[c] = pc[c]
      /\ UNCHANGED <<MaxCur, ReadCur, WriteCur>>
  <2>1. /\ pc[p] = "pushCAS"
        /\ idx[p] \in DOMAIN Ring /\ Ring[idx[p]] = NULL
        /\ Ring' = [Ring EXCEPT ![idx[p]] = Item[p]]
        /\ pc' = [pc EXCEPT ![p] = "pushAdd"]
        /\ UNCHANGED <<MaxCur, ReadCur, WriteCur>>
    BY DEF PushStore, CompareExchange
  <2>2. s = idx[p] /\ s = Slot(WriteCur)
    <3>1. idx[p] = Slot(WriteCur) /\ Last(p) = WriteCur
      BY <1>2, <2>1 DEF SPSCInv, NotStale, Last
    <3>2. QED
      BY <1>2, <3>1
  <2>3. Item[p] \in Items
    BY <1>2, <2>1 DEF SPSCInv, IInv, TypeOK, CallState, CallFits
  <2>4. pc'[p] = "pushAdd" /\ pc'[c] = pc[c]
    BY <1>2, <2>1 DEF SPSCInv, IInv, TypeOK
  <2> HIDE DEF s
  <2>5. QED
    BY <2>1, <2>2, <2>3, <2>4
<1>4. n < MaxCur + 1
  <2>1. SUFFICES ASSUME n = MaxCur + 1
                 PROVE  FALSE
    BY <1>2
  <2>2. Slot(First + n) = Slot(First)
    BY <1>2, <2>1, SlotTurn
  <2>3. s = Slot(First + 0)
    BY <1>2, <2>2
  <2>4. s \in Filled
    BY <1>2, <2>1, <2>3
  <2>5. QED
    BY <1>3, <2>4 DEF Filled
<1>6. First' = First
  BY <1>3, PendingOfOne
<1> HIDE DEF s
<1>7. Filled' = Filled \cup {s}
  <2>1. DOMAIN Ring' = DOMAIN Ring /\ Item[p] # NULL
    BY <1>3, ConstantsAssumption
  <2>2. QED
    BY <1>3, <2>1 DEF Filled
<1>8. WindowIs(n + 1)'
  <2>1. Filled' = {Slot(First + k)' : k \in 0..((n + 1) - 1)}
    <3>1. 0..((n + 1) - 1) = 0..(n - 1) \cup {n}
      BY <1>2
    <3>2. {Slot(First + k)' : k \in 0..((n + 1) - 1)} = {Slot(First + k) : k \in 0..(n - 1)} \cup {s}
      BY <1>3, <1>6, <3>1 DEF Slot, s
    <3>3. QED
      BY <1>2, <1>7, <3>2
  <2>2. Slot(First + (n + 1))' = Slot(Last(p))'
    <3>1. First + (n + 1) = (First + n) + 1 /\ First + n \in Nat /\ 1 \in 0..(MaxCur + 1)
      BY <1>2
    <3>2. Slot((First + n) + 1) = Slot(WriteCur + 1)
      BY <1>2, <1>3, <3>1, SlotOffset DEF s
    <3>3. QED
      BY <1>3, <1>6, <3>1, <3>2 DEF Slot, Last
  <2>3. n + 1 \in 0..(MaxCur' + 1)
    BY <1>2, <1>3, <1>4
  <2>4. QED
    BY <2>1, <2>2, <2>3, NextWindow
<1>9. Window'
  BY <1>8 DEF Window, WindowIs
<1>10. /\ Contents = [k \in 1..n |-> Ring[Slot(First + k - 1)]]
       /\ Contents \in Seq(Items)
       /\ Len(Contents) = n
  BY <1>1, <1>2, ContentsOfWindow DEF SPSCInv, IInv
<1>11. Contents' = [k \in 1..(n + 1) |-> Ring'[Slot(First + k - 1)]]
  BY <1>2, <1>3, <1>6, <1>8, ContentsOfNextWindow DEF IInv, Slot
<1>12. ASSUME NEW k \in 1..n
       PROVE  Slot(First + k - 1) # s
  <2>1. k - 1 \in 0..(n - 1) /\ First + (k - 1) = First + k - 1
    BY <1>2
  <2>2. Slot(First + (k - 1)) \in Filled
    BY <1>2, <2>1
  <2>3. QED
    BY <1>3, <2>1, <2>2 DEF Filled
<1>13. Slot(First + (n + 1) - 1) = s
  <2>1. First + (n + 1) - 1 = First + n
    BY <1>2
  <2>2. QED
    BY <2>1 DEF s
<1>14. Contents' = Append(Contents, Item[p])
  <2>1. ASSUME NEW k \in 1..(n + 1)
        PROVE  Ring'[Slot(First + k - 1)] = Append(Contents, Item[p])[k]
    <3>1. CASE k \in 1..n
      BY <1>2, <1>3, <1>10, <1>12, <3>1
    <3>2. CASE k = n + 1
      BY <1>2, <1>3, <1>10, <1>13, <3>2
    <3>3. k \in 1..n \/ k = n + 1
      BY <1>2
    <3>4. QED
      BY <3>1, <3>2, <3>3
  <2>2. Append(Contents, Item[p]) = [k \in 1..(n + 1) |-> Append(Contents, Item[p])[k]]
    BY <1>2, <1>3, <1>10
  <2>3. QED
    BY <1>11, <2>1, <2>2
<1>15. QED
  BY <1>3, <1>4, <1>9, <1>10, <1>14

(* PopTake empties the slot at the front of the window: the oldest item is
   dequeued and is the answer.                                              *)
LEMMA PopTakeStep ==
    ASSUME UsableRing, SPSCInv, IInv', NEW p, NEW c, Solo(p, c), PopTake(c)
    PROVE  /\ Window'
           /\ Contents \in Seq(Items)
           /\ Contents # <<>>
           /\ out' = Head(Contents)
           /\ Contents' = Tail(Contents)
<1>1. PICK n : WindowIs(n)
  BY SoloState
<1>2. /\ First \in Nat /\ MaxCur \in Nat /\ ReadCur \in Nat /\ 0..MaxCur \subseteq DOMAIN Ring
      /\ p \in Threads /\ c \in Consumers /\ c \in Threads /\ p # c
      /\ n \in 0..(MaxCur + 1)
      /\ Slot(First + n) = Slot(Last(p))
      /\ Filled = {Slot(First + k) : k \in 0..(n - 1)}
  BY <1>1, SoloState DEF WindowIs
<1> DEFINE s == Slot(First)
<1>3. /\ pc[c] = "popCAS"
      /\ s \in DOMAIN Ring /\ Ring[s] = Item[c]
      /\ Item[c] \in Items
      /\ Ring' = [Ring EXCEPT ![s] = NULL]
      /\ out' = Item[c]
      /\ pc'[c] = "popAdd" /\ pc'[p] = pc[p]
      /\ UNCHANGED <<MaxCur, ReadCur, WriteCur>>
  <2>1. /\ pc[c] = "popCAS"
        /\ idx[c] \in DOMAIN Ring /\ Ring[idx[c]] = Item[c]
        /\ Ring' = [Ring EXCEPT ![idx[c]] = NULL]
        /\ out' = Item[c]
        /\ pc' = [pc EXCEPT ![c] = "popAdd"]
        /\ UNCHANGED <<MaxCur, ReadCur, WriteCur>>
    BY DEF PopTake, CompareExchange
  <2>2. s = idx[c]
    <3>1. First = ReadCur + 0
      BY <2>1, PendingOfOne
    <3>2. First = ReadCur
      BY <1>2, <3>1
    <3>3. QED
      BY <1>2, <2>1, <3>2 DEF SPSCInv, NotStale
  <2>3. Item[c] \in Items
    BY <1>2, <2>1 DEF SPSCInv, IInv, TypeOK, CallState, CallFits
  <2>4. pc'[c] = "popAdd" /\ pc'[p] = pc[p]
    BY <1>2, <2>1 DEF SPSCInv, IInv, TypeOK
  <2> HIDE DEF s
  <2>5. QED
    BY <2>1, <2>2, <2>3, <2>4
<1>4. First' = First + 1
  <2>1. First = ReadCur + 0 /\ First' = ReadCur + 1
    BY <1>3, PendingOfOne
  <2>2. QED
    BY <1>2, <2>1
<1> HIDE DEF s
<1>5. n # 0
  <2>1. s \in Filled
    BY <1>3, ConstantsAssumption DEF Filled
  <2>2. QED
    BY <1>2, <2>1
<1>6. ASSUME NEW k \in 1..(n - 1)
      PROVE  Slot(First + k) # s
  <2>1. MaxCur + 1 \in Nat \ {0} /\ n \in 0..(MaxCur + 1) /\ k \in 0..((MaxCur + 1) - 1)
        /\ 0 \in 0..((MaxCur + 1) - 1)
    BY <1>2
  <2>2. (First + k) % (MaxCur + 1) = (First + 0) % (MaxCur + 1) => k = 0
    BY <1>2, <2>1, WindowCount
  <2>3. First + 0 = First
    BY <1>2
  <2>4. QED
    BY <2>2, <2>3 DEF Slot, s
<1>7. Filled' = Filled \ {s}
  BY <1>3 DEF Filled
<1>8. WindowIs(n - 1)' /\ Window'
  <2>1. Filled' = {Slot(First + k)' : k \in 0..((n - 1) - 1)}
    <3>1. Filled = {s} \cup {Slot(First + k) : k \in 1..(n - 1)}
      <4>1. 0..(n - 1) = {0} \cup 1..(n - 1) /\ First + 0 = First
        BY <1>2, <1>5
      <4>2. QED
        BY <1>2, <4>1 DEF s
    <3>2. Filled' = {Slot(First + k) : k \in 1..(n - 1)}
      BY <1>6, <1>7, <3>1
    <3>3. {Slot(First + k)' : k \in 0..((n - 1) - 1)} = {Slot(First + k) : k \in 1..(n - 1)}
      <4>1. \A k \in 0..((n - 1) - 1) : k + 1 \in 1..(n - 1) /\ Slot(First + k)' = Slot(First + (k + 1))
        <5>1. \A k \in Nat : (First + 1) + k = First + (k + 1)
          BY <1>2
        <5>2. QED
          BY <1>2, <1>3, <1>4, <5>1 DEF Slot
      <4>2. \A k \in 1..(n - 1) : k - 1 \in 0..((n - 1) - 1) /\ Slot(First + (k - 1))' = Slot(First + k)
        <5>1. \A k \in 1..(n - 1) : (First + 1) + (k - 1) = First + k
          BY <1>2
        <5>2. QED
          BY <1>2, <1>3, <1>4, <5>1 DEF Slot
      <4>3. QED
        BY <4>1, <4>2
    <3>4. QED
      BY <3>2, <3>3
  <2>2. Slot(First + (n - 1))' = Slot(Last(p))'
    <3>1. (First + 1) + (n - 1) = First + n
      BY <1>2
    <3>2. Slot(First' + (n - 1)) = Slot(First + n)
      BY <1>4, <3>1
    <3>3. Last(p)' = Last(p)
      BY <1>3 DEF Last
    <3>4. QED
      BY <1>2, <1>3, <3>2, <3>3 DEF Slot
  <2>3. n - 1 \in 0..(MaxCur' + 1)
    BY <1>2, <1>3, <1>5
  <2>4. QED
    BY <2>1, <2>2, <2>3, NextWindow
<1>9. /\ Contents = [k \in 1..n |-> Ring[Slot(First + k - 1)]]
      /\ Contents \in Seq(Items)
      /\ Len(Contents) = n
  BY <1>1, <1>2, ContentsOfWindow DEF SPSCInv, IInv
<1>10. Contents' = [k \in 1..(n - 1) |-> Ring'[Slot(First' + k - 1)]]
  <2>1. First' \in Nat /\ MaxCur' \in Nat /\ 0..MaxCur' \subseteq DOMAIN Ring' /\ TypeOK'
    BY <1>2, <1>3, <1>4 DEF IInv
  <2>2. Contents' = [k \in 1..(n - 1) |-> Ring'[(First' + k - 1) % (MaxCur' + 1)]]
    BY <1>8, <2>1, ContentsOfNextWindow
  <2>3. QED
    BY <1>3, <2>2 DEF Slot
<1>11. Contents # <<>> /\ out' = Head(Contents)
  <2>1. First + 1 - 1 = First /\ 1 \in 1..n
    BY <1>2, <1>5
  <2>2. Contents[1] = Ring[s]
    BY <1>9, <2>1 DEF s
  <2>3. QED
    BY <1>2, <1>3, <1>5, <1>9, <2>2
<1>12. Contents' = Tail(Contents)
  <2>1. ASSUME NEW k \in 1..(n - 1)
        PROVE  Ring'[Slot(First' + k - 1)] = Contents[k + 1]
    <3>1. First' + k - 1 = First + k /\ First + (k + 1) - 1 = First + k /\ k + 1 \in 1..n
          /\ k \in 0..(n - 1)
      BY <1>2, <1>4
    <3>2. Slot(First + k) \in Filled
      BY <1>2, <3>1
    <3>3. Ring'[Slot(First + k)] = Ring[Slot(First + k)]
      BY <1>3, <1>6, <3>2 DEF Filled
    <3>4. QED
      BY <1>9, <3>1, <3>3
  <2>2. Tail(Contents) = [k \in 1..(n - 1) |-> Contents[k + 1]]
    BY <1>2, <1>5, <1>9
  <2>3. QED
    BY <1>10, <2>1, <2>2
<1>13. QED
  BY <1>8, <1>9, <1>11, <1>12

(* Neither cursor, and no slot that a Pop has read, changes under the one
   thread that goes by it.                                                  *)
LEMMA NotStalePreserved ==
    ASSUME UsableRing, SPSCInv, NEW p, NEW c, Solo(p, c), Next
    PROVE  NotStale'
<1>1. /\ p \in Threads /\ c \in Threads /\ p # c
      /\ pc \in [Threads -> States] /\ idx \in [Threads -> 0..UszMax]
      /\ Item \in [Threads -> Items \cup {NULL}]
      /\ pc[p] \in {"idle", "pushCAS", "pushAdd"}
      /\ pc[c] \in {"idle", "popLoad", "popIndex", "popCAS", "popAdd"}
  BY SoloState DEF SPSCInv, IInv, TypeOK, CallState, CallFits, Solo
<1>2. /\ pc[p] = "pushCAS" => idx[p] = Slot(WriteCur)
      /\ pc[c] \in {"popLoad", "popIndex", "popCAS"} => idx[c] = Slot(ReadCur)
      /\ pc[c] \in {"popIndex", "popCAS"} => Ring[idx[c]] = Item[c] /\ Item[c] # NULL
  BY <1>1, SoloState DEF SPSCInv, IInv, CallState, CallFits, NotStale
<1>3. SUFFICES /\ pc'[p] = "pushCAS" => idx'[p] = Slot(WriteCur)'
               /\ pc'[c] \in {"popLoad", "popIndex", "popCAS"} => idx'[c] = Slot(ReadCur)'
               /\ pc'[c] \in {"popIndex", "popCAS"} => Ring'[idx'[c]] = Item'[c]
  BY DEF NotStale, Solo
<1>4. ASSUME NEW i \in Items, PushCall(p, i)
      PROVE  /\ pc'[p] = "pushCAS" => idx'[p] = Slot(WriteCur)'
             /\ pc'[c] \in {"popLoad", "popIndex", "popCAS"} => idx'[c] = Slot(ReadCur)'
             /\ pc'[c] \in {"popIndex", "popCAS"} => Ring'[idx'[c]] = Item'[c]
  BY <1>1, <1>2, <1>4 DEF PushCall, Slot
<1>5. CASE PushStore(p)
  BY <1>1, <1>2, <1>5 DEF PushStore, CompareExchange, Slot
<1>6. CASE PushFull(p) \/ PushAdd(p)
  BY <1>1, <1>2, <1>6 DEF PushFull, PushAdd, Slot
<1>7. CASE PopCall(c) \/ PopLoad(c) \/ PopIndex(c)
  BY <1>1, <1>2, <1>7 DEF PopCall, PopLoad, PopIndex, Slot
<1>8. CASE PopTake(c) \/ PopLost(c) \/ PopAdd(c)
  BY <1>1, <1>2, <1>8 DEF PopTake, PopLost, PopAdd, Slot
<1>9. QED
  BY <1>4, <1>5, <1>6, <1>7, <1>8 DEF Next, MPMCRingBufferPush, MPMCRingBufferPop, Solo

(* Every step keeps the window, and is a step of the bounded queue or changes
   nothing that its users see.                                              *)
LEMMA QueueStep ==
    ASSUME UsableRing, ~AnswersTrue, SPSCInv, IInv', Next, NEW p, NEW c, Solo(p, c)
    PROVE  Window' /\ [FIFO!Next]_<<Contents, out>>
<1>1. /\ p \in Threads /\ c \in Threads /\ p # c /\ p \in Producers /\ c \in Consumers
      /\ pc \in [Threads -> States]
      /\ MaxCur \in Nat /\ ReadCur \in Nat /\ WriteCur \in Nat /\ First \in Nat /\ Last(p) \in Nat
  BY SoloState DEF SPSCInv, IInv, TypeOK
<1>2. /\ First = ReadCur + (IF pc[c] = "popAdd" THEN 1 ELSE 0)
      /\ First' = ReadCur' + (IF pc'[c] = "popAdd" THEN 1 ELSE 0)
  BY PendingOfOne
<1>3. \A Cur \in Nat : AddFetch(Cur) \in Nat /\ Slot(AddFetch(Cur)) = Slot(Cur + 1)
  BY UsableSlots DEF SPSCInv
<1>4. ASSUME UNCHANGED <<Ring, MaxCur, out>>, First' \in Nat, Last(p)' \in Nat,
             Slot(First') = Slot(First), Slot(Last(p)') = Slot(Last(p))
      PROVE  Window' /\ [FIFO!Next]_<<Contents, out>>
  BY <1>4, QuietStep
<1>5. ASSUME NEW i \in Items, PushCall(p, i)
      PROVE  Window' /\ [FIFO!Next]_<<Contents, out>>
  <2>1. UNCHANGED <<Ring, MaxCur, ReadCur, WriteCur, out>> /\ pc'[p] # "pushAdd" /\ pc[p] # "pushAdd"
        /\ pc'[c] = pc[c]
    BY <1>1, <1>5 DEF PushCall
  <2>2. First' = First /\ Last(p)' = Last(p)
    BY <1>2, <2>1 DEF Last
  <2>3. QED
    BY <1>1, <1>4, <2>1, <2>2
<1>6. CASE PushStore(p)
  <2>1. /\ Window'
        /\ Len(Contents) < MaxCur + 1
        /\ Item[p] \in Items
        /\ Contents' = Append(Contents, Item[p])
    BY <1>6, PushStoreStep
  <2>2. 1 + (CHOOSE m \in InitMaxCur : TRUE) = MaxCur + 1
    <3>1. InitMaxCur = {MaxCur}
      BY UsableSlots DEF SPSCInv
    <3>2. (CHOOSE m \in {MaxCur} : TRUE) = MaxCur
      OBVIOUS
    <3>3. QED
      BY <1>1, <3>1, <3>2
  <2>3. FIFO!Enqueue(Item[p])
    BY <1>6, <2>1, <2>2 DEF FIFO!Enqueue, PushStore
  <2>4. QED
    BY <2>1, <2>3 DEF FIFO!Next
<1>7. CASE PushFull(p)
  <2>1. UNCHANGED <<Ring, MaxCur, ReadCur, WriteCur, out>> /\ pc'[p] # "pushAdd" /\ pc[p] # "pushAdd"
        /\ pc'[c] = pc[c]
    BY <1>1, <1>7 DEF PushFull
  <2>2. First' = First /\ Last(p)' = Last(p)
    BY <1>2, <2>1 DEF Last
  <2>3. QED
    BY <1>1, <1>4, <2>1, <2>2
<1>8. CASE PushAdd(p)
  <2>1. UNCHANGED <<Ring, MaxCur, ReadCur, out>> /\ pc'[p] # "pushAdd" /\ pc[p] = "pushAdd"
        /\ pc'[c] = pc[c] /\ WriteCur' = AddFetch(WriteCur)
    BY <1>1, <1>8 DEF PushAdd
  <2>2. First' = First
    BY <1>2, <2>1
  <2>3. Last(p) = WriteCur + 1 /\ Last(p)' = AddFetch(WriteCur) + 0
    BY <2>1 DEF Last
  <2>4. Last(p)' = AddFetch(WriteCur) /\ Last(p)' \in Nat
    BY <1>1, <1>3, <2>3
  <2>5. Slot(Last(p)') = Slot(Last(p))
    BY <1>1, <1>3, <2>3, <2>4
  <2>6. QED
    BY <1>1, <1>4, <2>1, <2>2, <2>4, <2>5
<1>9. CASE PopCall(c) \/ PopIndex(c)
  <2>1. UNCHANGED <<Ring, MaxCur, ReadCur, WriteCur, out>> /\ pc'[p] = pc[p]
        /\ pc'[c] # "popAdd" /\ pc[c] # "popAdd"
    BY <1>1, <1>9 DEF PopCall, PopIndex
  <2>2. First' = First /\ Last(p)' = Last(p)
    BY <1>2, <2>1 DEF Last
  <2>3. QED
    BY <1>1, <1>4, <2>1, <2>2
<1>10. CASE PopLoad(c)
  <2>1. UNCHANGED <<Ring, MaxCur, ReadCur, WriteCur>> /\ pc'[p] = pc[p]
        /\ pc'[c] # "popAdd" /\ pc[c] = "popLoad"
    BY <1>1, <1>10 DEF PopLoad
  <2>2. First' = First /\ Last(p)' = Last(p)
    BY <1>2, <2>1 DEF Last
  <2>3. Window' /\ Contents' = Contents
    BY <1>1, <2>1, <2>2, QuietStep
  <2>4. CASE out' = out
    BY <2>3, <2>4
  <2>5. CASE out' # out
    <3>1. Ring[idx[c]] = NULL /\ out' = NULL
      BY <1>10, <2>5 DEF PopLoad
    <3>2. idx[c] = Slot(First)
      <4>1. First = ReadCur + 0
        BY <1>2, <2>1
      <4>2. idx[c] = Slot(ReadCur)
        BY <1>1, <2>1 DEF SPSCInv, NotStale
      <4>3. QED
        BY <1>1, <4>1, <4>2
    <3>3. PICK n : WindowIs(n)
      BY SoloState
    <3>4. n = 0
      <4>1. n \in 0..(MaxCur + 1) /\ Filled = {Slot(First + k) : k \in 0..(n - 1)}
        BY <3>3 DEF WindowIs
      <4>2. Slot(First + 0) \notin Filled
        BY <1>1, <3>1, <3>2 DEF Filled
      <4>3. QED
        BY <1>1, <4>1, <4>2
    <3>5. Len(Contents) = 0 /\ Contents \in Seq(Items)
      BY <1>1, <3>3, <3>4, ContentsOfWindow, SoloState DEF SPSCInv, IInv
    <3>6. FIFO!Miss
      BY <2>3, <3>1, <3>5 DEF FIFO!Miss
    <3>7. QED
      BY <2>3, <3>6 DEF FIFO!Next
  <2>6. QED
    BY <2>4, <2>5
<1>11. CASE PopTake(c)
  <2>1. Window' /\ Contents # <<>> /\ out' = Head(Contents) /\ Contents' = Tail(Contents)
    BY <1>11, PopTakeStep
  <2>2. FIFO!Dequeue
    BY <2>1 DEF FIFO!Dequeue
  <2>3. QED
    BY <2>1, <2>2 DEF FIFO!Next
<1>12. ~PopLost(c)
  BY <1>1 DEF PopLost, CompareDiffers, SPSCInv, NotStale
<1>13. CASE PopAdd(c)
  <2>1. UNCHANGED <<Ring, MaxCur, WriteCur, out>> /\ pc'[p] = pc[p]
        /\ pc'[c] # "popAdd" /\ pc[c] = "popAdd" /\ ReadCur' = AddFetch(ReadCur)
    BY <1>1, <1>13 DEF PopAdd
  <2>2. Last(p)' = Last(p)
    BY <2>1 DEF Last
  <2>3. First = ReadCur + 1 /\ First' = AddFetch(ReadCur) + 0
    BY <1>2, <2>1
  <2>4. First' = AddFetch(ReadCur) /\ First' \in Nat
    BY <1>1, <1>3, <2>3
  <2>5. Slot(First') = Slot(First)
    BY <1>1, <1>3, <2>3, <2>4
  <2>6. QED
    BY <1>1, <1>4, <2>1, <2>2, <2>4, <2>5
<1>14. QED
  BY <1>5, <1>6, <1>7, <1>8, <1>9, <1>10, <1>11, <1>12, <1>13
  DEF Next, MPMCRingBufferPush, MPMCRingBufferPop, Solo

-----------------------------------------------------------------------------
(* The theorems about one producer and one consumer.                        *)

\* One producer and one consumer share a usable ring, and the compare-exchange
\* answers whether it stored.
OneEach == UsableRing /\ Compiler = "GCC" /\ \E p, c : Solo(p, c)

(* The filled slots are always a window between the cursors, through every
   wrap of either.                                                          *)
THEOREM WindowInvariant == OneEach => (Spec => []SPSCInv)
<1>1. SUFFICES ASSUME OneEach
               PROVE  Spec => []SPSCInv
  OBVIOUS
<1>2. PICK p, c : Solo(p, c)
  BY <1>1 DEF OneEach
<1>3. UsableRing /\ ~AnswersTrue
  BY <1>1 DEF OneEach, AnswersTrue
<1>4. ASSUME Init
      PROVE  SPSCInv
  <2>1. IInv
    BY <1>4, InitEstablishes
  <2>2. NotStale
    BY <1>4 DEF Init, NotStale, Threads
  <2>3. Window
    <3>1. Filled = {}
      BY <1>4 DEF Init, InitMPMCRingBuffer, Filled
    <3>2. First = 0 + 0 /\ Cardinality({x \in Producers : pc[x] = "pushAdd"}) = 0 /\ WriteCur = 0
      <4>1. pc[p] = "idle" /\ pc[c] = "idle" /\ ReadCur = 0 /\ WriteCur = 0
        BY <1>2, <1>4 DEF Init, InitMPMCRingBuffer, Solo, Threads
      <4>2. QED
        BY <1>2, <4>1, PendingOfOne
    <3>3. 0 \in 0..(MaxCur + 1) /\ 0..(0 - 1) = {}
      BY <1>3, <2>1, UsableSlots
    <3>4. {Slot(First + k) : k \in 0..(0 - 1)} = {}
      BY <3>3
    <3>5. First + 0 = WriteCur + Cardinality({x \in Producers : pc[x] = "pushAdd"})
      BY <3>2
    <3>6. \E n \in 0..(MaxCur + 1) :
             /\ Filled = {Slot(First + k) : k \in 0..(n - 1)}
             /\ Slot(First + n) = Slot(WriteCur + Cardinality({x \in Producers : pc[x] = "pushAdd"}))
      <4>1. Slot(First + 0) = Slot(WriteCur + Cardinality({x \in Producers : pc[x] = "pushAdd"}))
        BY <3>5, Zenon
      <4>2. QED
        BY <3>1, <3>3, <3>4, <4>1, Zenon
    <3>7. QED
      BY <3>6 DEF Window
  <2>4. QED
    BY <2>1, <2>2, <2>3 DEF SPSCInv
<1>5. ASSUME SPSCInv, [Next]_vars
      PROVE  SPSCInv'
  <2>1. IInv'
    BY <1>5, StepPreserves DEF SPSCInv
  <2>2. CASE Next
    BY <1>2, <1>3, <1>5, <2>1, <2>2, NotStalePreserved, QueueStep DEF SPSCInv
  <2>3. CASE UNCHANGED vars
    BY ZenonT(60), <1>5, <2>1, <2>3 DEF vars, SPSCInv, Window, NotStale, Filled, First, Slot
  <2>4. QED
    BY <1>5, <2>2, <2>3
<1>6. QED
  BY <1>4, <1>5, PTL DEF Spec

(* While nobody is in a call and an item is stored, the next Pop finds one. *)
THEOREM FrontIsFilled == OneEach => (Spec => []FrontFilled)
<1>1. SUFFICES ASSUME OneEach
               PROVE  Spec => []FrontFilled
  OBVIOUS
<1>2. PICK p, c : Solo(p, c)
  BY <1>1 DEF OneEach
<1>3. ASSUME SPSCInv
      PROVE  FrontFilled
  <2>1. SUFFICES ASSUME Quiescent, NEW s \in DOMAIN Ring, Ring[s] # NULL
                 PROVE  Ring[Slot(ReadCur)] # NULL
    BY DEF FrontFilled
  <2>2. UsableRing
    BY <1>1 DEF OneEach
  <2>3. PICK n : WindowIs(n)
    BY <1>2, <1>3, <2>2, SoloState
  <2>4. First \in Nat /\ ReadCur \in Nat /\ MaxCur \in Nat /\ pc[c] = "idle"
    BY <1>2, <1>3, <2>1, <2>2, SoloState DEF Quiescent
  <2>5. n \in 0..(MaxCur + 1) /\ Filled = {Slot(First + k) : k \in 0..(n - 1)} /\ s \in Filled
    BY <2>1, <2>3 DEF WindowIs, Filled
  <2>6. n # 0
    BY <2>5
  <2>7. Slot(First + 0) \in Filled
    BY <2>4, <2>5, <2>6
  <2>8. First + 0 = ReadCur
    <3>1. First = ReadCur + 0
      BY <1>2, <2>4, PendingOfOne
    <3>2. QED
      BY <2>4, <3>1
  <2>9. QED
    BY <2>7, <2>8 DEF Filled
<1>4. QED
  BY <1>1, <1>3, WindowInvariant, PTL

(* A Push answers false only when every slot is taken.                      *)
THEOREM PushFalseOnlyWhenFull == OneEach => (Spec => PushFalseMeansFull)
<1> DEFINE Full == \A p \in Producers :
                     pc[p] = "pushCAS" /\ pc'[p] = "idle" => \A s \in 0..MaxCur : Ring[s] # NULL
<1>0. PushFalseMeansFull <=> [][Full]_vars
  BY PTL DEF PushFalseMeansFull
<1>1. SUFFICES ASSUME OneEach
               PROVE  Spec => PushFalseMeansFull
  OBVIOUS
<1>2. PICK p, c : Solo(p, c)
  BY <1>1 DEF OneEach
<1>3. UsableRing
  BY <1>1 DEF OneEach
<1>4. ASSUME SPSCInv, Next, pc[p] = "pushCAS", pc'[p] = "idle"
      PROVE  \A s \in 0..MaxCur : Ring[s] # NULL
  <2>1. /\ p \in Threads /\ c \in Threads /\ p # c /\ p \in Producers
        /\ First \in Nat /\ WriteCur \in Nat /\ MaxCur \in Nat
        /\ pc \in [Threads -> States]
    BY <1>2, <1>3, <1>4, SoloState DEF SPSCInv, IInv, TypeOK
  <2>2. PushFull(p)
    <3>1. ASSUME NEW i \in Items
          PROVE  ~PushCall(p, i)
      BY <1>4 DEF PushCall
    <3>2. ~PushStore(p) /\ ~PushAdd(p)
      BY <1>4, <2>1 DEF PushStore, PushAdd
    <3>3. ~MPMCRingBufferPop(c)
      BY <1>4, <2>1 DEF MPMCRingBufferPop, PopCall, PopLoad, PopIndex, PopTake, PopLost, PopAdd
    <3>4. QED
      BY <1>2, <1>4, <3>1, <3>2, <3>3 DEF Next, MPMCRingBufferPush, Solo
  <2>3. PICK n : WindowIs(n)
    BY <1>2, <1>3, <1>4, SoloState
  <2>4. n \in 0..(MaxCur + 1) /\ Filled = {Slot(First + k) : k \in 0..(n - 1)}
    BY <2>3 DEF WindowIs
  <2>5. Slot(First + n) \in Filled
    <3>1. idx[p] \in Filled
      BY <2>2 DEF PushFull, CompareDiffers, Filled
    <3>2. idx[p] = Slot(WriteCur) /\ Last(p) = WriteCur + 0
      BY <1>4, <2>1 DEF SPSCInv, NotStale, Last
    <3>3. Slot(First + n) = Slot(Last(p))
      BY <1>2, <1>3, <1>4, <2>3, SoloState
    <3>4. QED
      BY <2>1, <3>1, <3>2, <3>3
  <2> DEFINE N == MaxCur + 1
  <2>6. N \in Nat \ {0}
    BY <2>1
  <2>7. n = N
    <3>1. SUFFICES ASSUME n # N
                   PROVE  FALSE
      OBVIOUS
    <3>2. PICK k \in 0..(n - 1) : Slot(First + n) = Slot(First + k)
      BY <2>4, <2>5
    <3>3. n \in 0..(N - 1) /\ k \in 0..(N - 1) /\ k # n
      BY <2>1, <2>4, <3>1
    <3>4. (First + n) % N = (First + k) % N
      BY <3>2 DEF Slot
    <3> HIDE DEF N
    <3>5. \A j, l \in 0..(N - 1) : (First + j) % N = (First + l) % N => j = l
      <4>1. 0 \in 0..N
        BY <2>6
      <4>2. QED
        BY <2>1, <2>6, <4>1, WindowCount
    <3>6. QED
      BY <3>3, <3>4, <3>5
  <2>8. Cardinality(Filled) = N /\ Filled \subseteq 0..MaxCur
    <3>1. Filled = {(First + k) % N : k \in 0..(N - 1)}
      BY <2>4, <2>7 DEF Slot
    <3>2. N \in 0..N
      BY <2>6
    <3>3. Cardinality({(First + k) % N : k \in 0..(N - 1)}) = N
      <4> HIDE DEF N
      <4>1. QED
        BY <2>1, <2>6, <3>2, WindowCount
    <3>4. \A k \in 0..(N - 1) : (First + k) % N \in 0..MaxCur
      BY <2>1
    <3>5. QED
      BY <3>1, <3>3, <3>4
  <2>9. IsFiniteSet(0..MaxCur) /\ Cardinality(0..MaxCur) = N
    <3>1. 0 \in Int /\ MaxCur \in Int /\ ~(0 > MaxCur) /\ MaxCur - 0 + 1 = N
      BY <2>1
    <3>2. QED
      BY <3>1, FS_Interval
  <2>10. Filled = 0..MaxCur
    BY <2>8, <2>9, FS_Subset
  <2>11. QED
    BY <2>10 DEF Filled
<1>5. SPSCInv /\ [Next]_vars => [Full]_vars
  BY <1>2, <1>4 DEF Solo
<1> HIDE DEF Full
<1>6. QED
  BY <1>0, <1>1, <1>5, WindowInvariant, PTL DEF Spec

(* Push and Pop implement the bounded queue: for every size of the ring, every
   number of items and every wrap of the cursors.                           *)
THEOREM Refinement == OneEach => (Spec => ImplementsBoundedFIFO)
<1>1. SUFFICES ASSUME OneEach
               PROVE  Spec => ImplementsBoundedFIFO
  OBVIOUS
<1>2. PICK p, c : Solo(p, c)
  BY <1>1 DEF OneEach
<1>3. UsableRing /\ ~AnswersTrue
  BY <1>1 DEF OneEach, AnswersTrue
<1>4. ASSUME Init
      PROVE  FIFO!Init
  <2>1. Filled = {} /\ out = NULL
    BY <1>4 DEF Init, InitMPMCRingBuffer, Filled
  <2>2. Cardinality(Filled) = 0
    BY <2>1, FS_EmptySet
  <2>3. Contents = <<>>
    BY <2>2 DEF Contents
  <2>4. QED
    BY <2>1, <2>3 DEF FIFO!Init
<1>5. ASSUME SPSCInv, SPSCInv', [Next]_vars
      PROVE  [FIFO!Next]_<<Contents, out>>
  <2>1. CASE Next
    BY <1>2, <1>3, <1>5, <2>1, QueueStep DEF SPSCInv
  <2>2. CASE UNCHANGED vars
    BY <2>2 DEF vars, Contents, Filled, First, Slot
  <2>3. QED
    BY <1>5, <2>1, <2>2
<1>6. QED
  BY <1>1, <1>4, <1>5, WindowInvariant, PTL DEF Spec, ImplementsBoundedFIFO, FIFO!Spec
=============================================================================
