--------------------------- MODULE MPMCRingBuffer ---------------------------
(***************************************************************************)
(* The ring buffer of tinybase-queues.c: InitMPMCRingBuffer,               *)
(* MPMCRingBufferPush and MPMCRingBufferPop, run by any number of          *)
(* producers and consumers.                                                *)
(*                                                                         *)
(* One step makes one access to memory that other threads write: a cursor  *)
(* or a slot.  The cursors are plain fields, so a compiler may read        *)
(* ReadCur once or twice in Pop: both outcomes are steps of the model.     *)
(* Sizes are scaled down: usz has UszBits bits, int has IntBits bits.      *)
(***************************************************************************)
EXTENDS Naturals, FiniteSets

CONSTANTS
    Producers, Consumers,
    Items,            \* the pointers that are queued
    NULL,
    RingSize,         \* bytes the application gives to InitMPMCRingBuffer
    PtrSize,          \* sizeof(void*)
    UszBits, IntBits, \* the widths of usz and of int
    Compiler          \* "GCC" or "MSVC": which branch of tinybase-atomic.c is built

Threads == Producers \cup Consumers
UszMax == 2 ^ UszBits - 1

ASSUME ConstantsAssumption ==
    /\ Producers \cap Consumers = {}
    /\ NULL \notin Items
    /\ PtrSize \in Nat \ {0}
    /\ IntBits \in Nat \ {0}
    /\ UszBits \in Nat
    /\ IntBits <= UszBits
    /\ RingSize \in 1..UszMax
    /\ Compiler \in {"GCC", "MSVC"}

\* Arithmetic that the provers have to be told.
ASSUME PowersOfTwo ==
    \A n \in 0..UszBits : 2 ^ n \in Nat \ {0} /\ 2 ^ (n + 1) = 2 * 2 ^ n

VARIABLES
    Ring,             \* the slots of the application's array
    MaxCur, ReadCur, WriteCur,
    pc,               \* where each thread is in Push or Pop
    idx,              \* the slot each thread has computed from a cursor
    Item,             \* the Item of each thread's Push or Pop
    free,             \* the items the application owns and may push
    out               \* history: the last answer of a Pop, when it is decided

vars == <<Ring, MaxCur, ReadCur, WriteCur, pc, idx, Item, free, out>>

-----------------------------------------------------------------------------
\* Mutant: one power of two too many, 1 << TrailingZero.
RoundUpToPow2(Value) == {2 ^ (j + 1) : j \in {k \in 0..(IntBits - 1) : Value \div 2 ^ k = 1}}

(* RoundDownToPow2 takes an int: the size loses its upper bits, 1 << 31 is
   negative and is sign-extended on its way to usz, and the leading zeros of
   0 are undefined.                                                         *)
RoundDownToPow2(Value) ==
    LET V == Value % 2 ^ IntBits
        Power(k) == IF k = IntBits - 1 THEN 2 ^ UszBits - 2 ^ k ELSE 2 ^ k
    IN {Power(k) : k \in {j \in 0..(IntBits - 1) : V = 0 \/ V \div 2 ^ j = 1}}

\* The values MaxCur may get, computed in usz.
InitMaxCur == {(R \div PtrSize + UszMax) % 2 ^ UszBits : R \in RoundDownToPow2(RingSize)}

InitMPMCRingBuffer ==
    /\ Ring = [s \in 0..(RingSize \div PtrSize - 1) |-> NULL]
    /\ MaxCur \in InitMaxCur
    /\ ReadCur = 0
    /\ WriteCur = 0

Init ==
    /\ InitMPMCRingBuffer
    /\ pc = [t \in Threads |-> "idle"]
    /\ idx = [t \in Threads |-> 0]
    /\ Item = [t \in Threads |-> NULL]
    /\ free = Items
    /\ out = NULL

\* Cur & Queue->MaxCur, for a MaxCur that is one less than a power of two.
Slot(Cur) == Cur % (MaxCur + 1)

\* AtomicAddFetchIsz(&Cur, 1)
AddFetch(Cur) == (Cur + 1) % 2 ^ UszBits

(* Mutant: the exchange is made without the comparison.                     *)
CompareExchangeBlind(s, Compare) == s \in DOMAIN Ring

(* AtomicCompareExchangePtr(&Ring[s], Compare, ...) stores.  A slot outside
   the array is nobody's to access.                                         *)
CompareExchange(s, Compare) == s \in DOMAIN Ring /\ Ring[s] = Compare

\* ... or leaves the slot alone, and whether it then answers true anyway.
CompareDiffers(s, Compare) == s \in DOMAIN Ring /\ Ring[s] # Compare
AnswersTrue == Compiler = "MSVC"

-----------------------------------------------------------------------------
(* MPMCRingBufferPush.                                                      *)

\* The call, up to the read of WriteCur.
PushCall(p, i) ==
    /\ pc[p] = "idle"
    /\ i \in free
    /\ free' = free \ {i}
    /\ Item' = [Item EXCEPT ![p] = i]
    /\ idx' = [idx EXCEPT ![p] = Slot(WriteCur)]
    /\ pc' = [pc EXCEPT ![p] = "pushCAS"]
    /\ UNCHANGED <<Ring, MaxCur, ReadCur, WriteCur, out>>

PushStore(p) ==
    /\ pc[p] = "pushCAS"
    /\ CompareExchange(idx[p], NULL)
    /\ Ring' = [Ring EXCEPT ![idx[p]] = Item[p]]
    /\ pc' = [pc EXCEPT ![p] = "pushAdd"]
    /\ UNCHANGED <<MaxCur, ReadCur, WriteCur, idx, Item, free, out>>

\* The slot is taken: return false, or go on as if the item had been stored.
PushFull(p) ==
    /\ pc[p] = "pushCAS"
    /\ CompareDiffers(idx[p], NULL)
    /\ IF AnswersTrue
       THEN /\ pc' = [pc EXCEPT ![p] = "pushAdd"]
            /\ UNCHANGED free
       ELSE /\ pc' = [pc EXCEPT ![p] = "idle"]
            /\ free' = free \cup {Item[p]}
    /\ UNCHANGED <<Ring, MaxCur, ReadCur, WriteCur, idx, Item, out>>

\* Mutant: the cursor is not advanced.
PushAddMissing(p) ==
    /\ pc[p] = "pushAdd"
    /\ pc' = [pc EXCEPT ![p] = "idle"]
    /\ UNCHANGED <<Ring, MaxCur, ReadCur, WriteCur, idx, Item, free, out>>

\* AtomicAddFetchIsz(&Queue->WriteCur, 1); return true
PushAdd(p) ==
    /\ pc[p] = "pushAdd"
    /\ WriteCur' = AddFetch(WriteCur)
    /\ pc' = [pc EXCEPT ![p] = "idle"]
    /\ UNCHANGED <<Ring, MaxCur, ReadCur, idx, Item, free, out>>

MPMCRingBufferPush(p) == PushStore(p) \/ PushFull(p) \/ PushAdd(p)

-----------------------------------------------------------------------------
(* MPMCRingBufferPop.                                                       *)

\* The call, up to the first read of ReadCur.
PopCall(c) ==
    /\ pc[c] = "idle"
    /\ idx' = [idx EXCEPT ![c] = Slot(ReadCur)]
    /\ pc' = [pc EXCEPT ![c] = "popLoad"]
    /\ UNCHANGED <<Ring, MaxCur, ReadCur, WriteCur, Item, free, out>>

\* Item = Queue->Ring[...]; a NULL Item ends the call.
PopLoad(c) ==
    /\ pc[c] = "popLoad"
    /\ idx[c] \in DOMAIN Ring
    /\ Item' = [Item EXCEPT ![c] = Ring[idx[c]]]
    /\ IF Ring[idx[c]] = NULL
       THEN pc' = [pc EXCEPT ![c] = "idle"] /\ out' = NULL
       ELSE pc' = [pc EXCEPT ![c] = "popIndex"] /\ UNCHANGED out
    /\ UNCHANGED <<Ring, MaxCur, ReadCur, WriteCur, idx, free>>

\* The index of the exchange: from the value already read, or read again.
PopIndex(c) ==
    /\ pc[c] = "popIndex"
    /\ \E s \in {idx[c], Slot(ReadCur)} : idx' = [idx EXCEPT ![c] = s]
    /\ pc' = [pc EXCEPT ![c] = "popCAS"]
    /\ UNCHANGED <<Ring, MaxCur, ReadCur, WriteCur, Item, free, out>>

PopTake(c) ==
    /\ pc[c] = "popCAS"
    /\ CompareExchange(idx[c], Item[c])
    /\ Ring' = [Ring EXCEPT ![idx[c]] = NULL]
    /\ out' = Item[c]
    /\ pc' = [pc EXCEPT ![c] = "popAdd"]
    /\ UNCHANGED <<MaxCur, ReadCur, WriteCur, idx, Item, free>>

\* Another consumer was faster: return 0, or go on as if the item were taken.
PopLost(c) ==
    /\ pc[c] = "popCAS"
    /\ CompareDiffers(idx[c], Item[c])
    /\ IF AnswersTrue
       THEN pc' = [pc EXCEPT ![c] = "popAdd"] /\ out' = Item[c]
       ELSE pc' = [pc EXCEPT ![c] = "idle"] /\ out' = NULL
    /\ UNCHANGED <<Ring, MaxCur, ReadCur, WriteCur, idx, Item, free>>

\* Mutant: the cursor is not advanced.
PopAddMissing(c) ==
    /\ pc[c] = "popAdd"
    /\ free' = free \cup {Item[c]}
    /\ pc' = [pc EXCEPT ![c] = "idle"]
    /\ UNCHANGED <<Ring, MaxCur, ReadCur, WriteCur, idx, Item, out>>

\* AtomicAddFetchIsz(&Queue->ReadCur, 1); return Item
PopAdd(c) ==
    /\ pc[c] = "popAdd"
    /\ ReadCur' = AddFetch(ReadCur)
    /\ free' = free \cup {Item[c]}
    /\ pc' = [pc EXCEPT ![c] = "idle"]
    /\ UNCHANGED <<Ring, MaxCur, WriteCur, idx, Item, out>>

MPMCRingBufferPop(c) ==
    PopCall(c) \/ PopLoad(c) \/ PopIndex(c) \/ PopTake(c) \/ PopLost(c) \/ PopAdd(c)

-----------------------------------------------------------------------------
Next ==
    \/ \E p \in Producers : (\E i \in Items : PushCall(p, i)) \/ MPMCRingBufferPush(p)
    \/ \E c \in Consumers : MPMCRingBufferPop(c)

Spec == Init /\ [][Next]_vars

(* A push that has begun is finished, and every consumer keeps polling; that
   a producer calls Push again is not assumed.                              *)
FairSpec ==
    /\ Spec
    /\ \A p \in Producers : WF_vars(MPMCRingBufferPush(p))
    /\ \A c \in Consumers : WF_vars(MPMCRingBufferPop(c))

-----------------------------------------------------------------------------
(* Properties.                                                              *)

States == {"idle", "pushCAS", "pushAdd", "popLoad", "popIndex", "popCAS", "popAdd"}

\* Cursors stay within usz, slots hold items or nothing.
TypeOK ==
    /\ Ring \in [0..(RingSize \div PtrSize - 1) -> Items \cup {NULL}]
    /\ MaxCur \in 0..UszMax /\ ReadCur \in 0..UszMax /\ WriteCur \in 0..UszMax
    /\ pc \in [Threads -> States]
    /\ idx \in [Threads -> 0..UszMax]
    /\ Item \in [Threads -> Items \cup {NULL}]
    /\ free \subseteq Items
    /\ out \in Items \cup {NULL}

\* No thread ever computes the index of a slot outside the application's array.
RingInBounds == \A t \in Threads : pc[t] # "idle" => idx[t] \in DOMAIN Ring

\* The places where item i is: the application, a push, a slot, a pop.
Places(i) ==
    (IF i \in free THEN {<<"application">>} ELSE {})
    \cup {<<"push", p>> : p \in {x \in Producers : pc[x] = "pushCAS" /\ Item[x] = i}}
    \cup {<<"slot", s>> : s \in {x \in DOMAIN Ring : Ring[x] = i}}
    \cup {<<"pop", c>> : c \in {x \in Consumers : pc[x] = "popAdd" /\ Item[x] = i}}

AllPlaces ==
    {<<"application">>} \cup ({"push"} \X Producers) \cup ({"slot"} \X DOMAIN Ring)
    \cup ({"pop"} \X Consumers)

(* Whatever the threads do, an item is in one place at a time: no two Pops
   return it for one Push, and no Push that returns true has lost it.       *)
OneOwner == \A i \in Items : \E x \in AllPlaces : Places(i) = {x}

Quiescent == \A t \in Threads : pc[t] = "idle"

(* tinybase-queues.h: Pop returns NULL "if there are no more items to pop".
   While nobody is in a call and an item is stored, the slot that the next
   Pop will look at holds one.                                              *)
FrontFilled ==
    Quiescent /\ (\E s \in DOMAIN Ring : Ring[s] # NULL) => Ring[Slot(ReadCur)] # NULL

(* With one producer and one consumer, a Push returns false only when every
   slot that the queue uses is taken.                                       *)
PushFalseMeansFull ==
    [][\A p \in Producers :
         pc[p] = "pushCAS" /\ pc'[p] = "idle" => \A s \in 0..MaxCur : Ring[s] # NULL]_vars

\* With one producer and one consumer, every stored item is eventually popped.
EveryItemPopped ==
    \A i \in Items : (\E s \in DOMAIN Ring : Ring[s] = i) ~> out = i

-----------------------------------------------------------------------------
(* The queue that one producer and one consumer see.  Nothing is recorded for
   it: the contents are read off the slots, starting after the slot that a
   Pop has emptied without having advanced the cursor yet.                  *)
First == ReadCur + Cardinality({c \in Consumers : pc[c] = "popAdd"})

Filled == {s \in DOMAIN Ring : Ring[s] # NULL}

Contents == [k \in 1..Cardinality(Filled) |-> Ring[Slot(First + k - 1)]]

FIFO == INSTANCE BoundedFIFOQueue
            WITH q <- Contents, Capacity <- 1 + CHOOSE m \in InitMaxCur : TRUE

(* With one producer and one consumer, Push and Pop implement a queue of
   MaxCur + 1 items in which Push stores, Pop returns the oldest item and
   Pop returns NULL only when the queue is empty.                           *)
ImplementsBoundedFIFO == FIFO!Spec

-----------------------------------------------------------------------------
(* The inductive invariants.                                                *)

\* Where a thread is in its call, and what it has in hand there.
CallFits(t) ==
    /\ pc[t] \in IF t \in Producers THEN {"idle", "pushCAS", "pushAdd"}
                ELSE {"idle", "popLoad", "popIndex", "popCAS", "popAdd"}
    /\ pc[t] \in {"pushCAS", "pushAdd", "popIndex", "popCAS", "popAdd"} => Item[t] # NULL
    /\ pc[t] # "idle" => idx[t] <= MaxCur

CallState == MaxCur \in InitMaxCur /\ \A t \in Threads : CallFits(t)

(* For any number of threads: a thread in a call holds an index below the size
   of the ring and an item, and every item is in one place.                 *)
IInv == TypeOK /\ CallState /\ (~AnswersTrue => OneOwner)

\* The filled slots are a window that starts at First and ends at WriteCur, or
\* one slot on when a Push has still to advance it.
Window ==
    \E n \in 0..(MaxCur + 1) :
       /\ Filled = {Slot(First + k) : k \in 0..(n - 1)}
       /\ Slot(First + n) = Slot(WriteCur + Cardinality({p \in Producers : pc[p] = "pushAdd"}))

\* A cursor and a slot do not change under the one thread that moves them.
NotStale ==
    /\ \A p \in Producers : pc[p] = "pushCAS" => idx[p] = Slot(WriteCur)
    /\ \A c \in Consumers :
          /\ pc[c] \in {"popLoad", "popIndex", "popCAS"} => idx[c] = Slot(ReadCur)
          /\ pc[c] \in {"popIndex", "popCAS"} => Ring[idx[c]] = Item[c]

(* For one producer and one consumer: between the compare-and-exchange of a
   slot and the add to its cursor, and across every wrap of the cursors, the
   filled slots stay one window between ReadCur and WriteCur, and no index or
   item that a running Push or Pop has read is stale.                       *)
SPSCInv == IInv /\ Window /\ NotStale

\* A ring that holds a pointer, and whose size RoundDownToPow2 takes as it is.
UsableRing ==
    /\ \E k \in 0..UszBits : PtrSize = 2 ^ k
    /\ PtrSize <= RingSize
    /\ RingSize < 2 ^ (IntBits - 1)
=============================================================================
