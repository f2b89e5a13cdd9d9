-------------------------------- MODULE Arena --------------------------------
(***************************************************************************)
(* The arena of tinybase-memory.c: a buffer out of which PushIntoArena     *)
(* hands regions, until ClearBuffer takes them all back.  Offsets are      *)
(* counted from Arena->Base; usz has UszBits bits and wraps.               *)
(***************************************************************************)
EXTENDS Naturals

CONSTANTS
    UszBits,
    ArenaSize,      \* Arena->Size
    Sizes,          \* the sizes that callers ask for
    NULL

UszMod == 2 ^ UszBits

ASSUME ArenaAssumption ==
    /\ UszBits \in Nat
    /\ UszMod \in Nat \ {0}
    /\ ArenaSize \in 0..(UszMod - 1)
    /\ Sizes \subseteq 0..(UszMod - 1)
    /\ NULL \notin 0..(UszMod - 1)

\* No caller asks for so much that WriteCur + Size wraps.
NoWrap == \A s \in Sizes : ArenaSize + s < UszMod

VARIABLES
    WriteCur,       \* Arena->WriteCur
    ret,            \* the offset PushIntoArena last returned, or NULL
    regions         \* history: the regions handed out and not taken back

vars == <<WriteCur, ret, regions>>

Init == WriteCur = 0 /\ ret = NULL /\ regions = {}

\* Mutant: the room left is tested without the bytes already handed out.
FitsEmptyArena(Size) == Size <= ArenaSize

\* if (Arena->WriteCur + Size <= Arena->Size)
Fits(Size) == (WriteCur + Size) % UszMod <= ArenaSize

\* Result = Arena->Base + Arena->WriteCur; Arena->WriteCur += Size
PushFits(Size) ==
    /\ Fits(Size)
    /\ ret' = WriteCur
    /\ WriteCur' = (WriteCur + Size) % UszMod
    /\ regions' = regions \cup {[start |-> WriteCur, len |-> Size]}

PushFails(Size) ==
    /\ ~Fits(Size)
    /\ ret' = NULL
    /\ UNCHANGED <<WriteCur, regions>>

PushIntoArena(Size) == PushFits(Size) \/ PushFails(Size)

\* The whole arena is given up at once.
ClearBuffer ==
    /\ WriteCur' = 0
    /\ regions' = {}
    /\ UNCHANGED ret

Next == (\E s \in Sizes : PushIntoArena(s)) \/ ClearBuffer

Spec == Init /\ [][Next]_vars

-----------------------------------------------------------------------------
\* The cursor, the answer and the regions stay within usz.
TypeOK ==
    /\ WriteCur \in 0..(UszMod - 1)
    /\ ret \in 0..(UszMod - 1) \cup {NULL}
    /\ regions \subseteq [start : 0..(UszMod - 1), len : 0..(UszMod - 1)]

End(r) == r.start + r.len

\* Every region lies within the arena.
RegionsInside == \A r \in regions : End(r) <= ArenaSize

(* Two regions that PushIntoArena has handed out never share a byte: writing
   through one pointer does not change what is behind another.              *)
RegionsDisjoint ==
    \A r, s \in regions : r = s \/ End(r) <= s.start \/ End(s) <= r.start

\* The inductive invariant: everything handed out ends below WriteCur.
IInv ==
    /\ TypeOK
    /\ WriteCur <= ArenaSize
    /\ \A r \in regions : End(r) <= WriteCur
    /\ RegionsDisjoint
=============================================================================
