----------------------------- MODULE ArenaProofs -----------------------------
(***************************************************************************)
(* Proofs about Arena, for every width of usz and every size of the arena. *)
(***************************************************************************)
EXTENDS Arena, TLAPS

(* A request that cannot wrap advances WriteCur past every region.          *)
LEMMA PushPreserves ==
    ASSUME NoWrap, IInv, NEW s \in Sizes, PushIntoArena(s)
    PROVE  IInv'
<1> USE ArenaAssumption
<1>1. WriteCur \in Nat /\ s \in Nat /\ WriteCur + s < UszMod /\ ArenaSize \in Nat
  BY DEF IInv, TypeOK, NoWrap
<1>2. (WriteCur + s) % UszMod = WriteCur + s
  BY <1>1
<1>3. CASE PushFits(s)
  <2>1. WriteCur + s <= ArenaSize /\ WriteCur' = WriteCur + s
    BY <1>2, <1>3 DEF PushFits, Fits
  <2>2. regions' = regions \cup {[start |-> WriteCur, len |-> s]}
    BY <1>3 DEF PushFits
  <2>3. TypeOK'
    <3>1. WriteCur' \in 0..(UszMod - 1) /\ s \in 0..(UszMod - 1)
      BY <1>1, <2>1
    <3>2. QED
      BY <1>3, <2>2, <3>1 DEF IInv, TypeOK, PushFits
  <2>4. \A r \in regions : End(r) <= WriteCur /\ End(r) \in Nat
    BY DEF IInv, TypeOK, End
  <2>5. \A r \in regions' : End(r) <= WriteCur'
    BY <1>1, <2>1, <2>2, <2>4 DEF End
  <2>6. RegionsDisjoint'
    BY <2>2, <2>4 DEF IInv, RegionsDisjoint, End
  <2>7. QED
    BY <2>1, <2>3, <2>5, <2>6 DEF IInv
<1>4. CASE PushFails(s)
  BY <1>4 DEF PushFails, IInv, TypeOK, RegionsDisjoint
<1>5. QED
  BY <1>3, <1>4 DEF PushIntoArena

(* As long as no request wraps, what has been handed out stays below WriteCur,
   which never passes the end of the arena.                                 *)
THEOREM Invariant == NoWrap => (Spec => []IInv)
<1> SUFFICES ASSUME NoWrap
             PROVE  Spec => []IInv
  OBVIOUS
<1> USE ArenaAssumption
<1>1. Init => IInv
  BY DEF Init, IInv, TypeOK, RegionsDisjoint
<1>2. IInv /\ [Next]_vars => IInv'
  <2>1. SUFFICES ASSUME IInv, [Next]_vars
                 PROVE  IInv'
    OBVIOUS
  <2>2. CASE \E s \in Sizes : PushIntoArena(s)
    BY <2>1, <2>2, PushPreserves
  <2>3. CASE ClearBuffer
    BY <2>1, <2>3 DEF ClearBuffer, IInv, TypeOK, RegionsDisjoint
  <2>4. CASE UNCHANGED vars
    BY <2>1, <2>4 DEF vars, IInv, TypeOK, RegionsDisjoint
  <2>5. QED
    BY <2>1, <2>2, <2>3, <2>4 DEF Next
<1>3. QED
  BY <1>1, <1>2, PTL DEF Spec

(* Two regions handed out by PushIntoArena never overlap.                   *)
THEOREM NoOverlap == NoWrap => (Spec => []RegionsDisjoint)
<1>1. IInv => RegionsDisjoint
  BY DEF IInv
<1>2. QED
  BY <1>1, Invariant, PTL

(* No region handed out by PushIntoArena leaves the arena.                  *)
THEOREM NoEscape == NoWrap => (Spec => []RegionsInside)
<1> USE ArenaAssumption
<1>1. IInv => RegionsInside
  <2>1. SUFFICES ASSUME IInv, NEW r \in regions
                 PROVE  End(r) <= ArenaSize
    BY DEF RegionsInside
  <2>2. End(r) \in Nat /\ WriteCur \in Nat /\ ArenaSize \in Nat
    BY <2>1 DEF IInv, TypeOK, End
  <2>3. QED
    BY <2>1, <2>2 DEF IInv
<1>2. QED
  BY <1>1, Invariant, PTL
=============================================================================
