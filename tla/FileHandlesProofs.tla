--------------------------- MODULE FileHandlesProofs ---------------------------
(***************************************************************************)
(* Proofs about FileHandles, for every set of threads and every finite set *)
(* of paths, whatever they open, copy, move and remove.                    *)
(***************************************************************************)
EXTENDS FileHandles, NumberLemmas, TLAPS

-----------------------------------------------------------------------------
(* The kernel.                                                              *)

\* The part of the type invariant that is about the kernel.
KernelOK ==
    /\ dir \in [Paths -> Files \cup {NONE}]
    /\ data \in [Files -> Seq(Byte)]
    /\ table \in [Fds -> Files \cup {NONE}]
    /\ pos \in [Fds -> Nat]
    /\ mode \in [Fds -> Mode]

(* What open was asked for is among the modes.                              *)
LEMMA OpenOptsIsMode == \A Flags \in Mode : OpenOpts(Flags) \in Mode
BY DEF OpenOpts, Mode

(* open takes an entry of the table that is free.                           *)
LEMMA LowestFreeIsFree ==
    ASSUME FreeFds # {}
    PROVE  LowestFree \in Fds /\ table[LowestFree] = NONE
<1>1. FreeFds \subseteq Nat
  BY FileHandlesAssumption DEF FreeFds, Fds
<1>2. \E fd \in FreeFds : \A other \in FreeFds : fd <= other
  BY <1>1, SmallestMember
<1>3. LowestFree \in FreeFds
  BY <1>2 DEF LowestFree
<1>4. QED
  BY <1>3 DEF FreeFds

(* There is an inode for a file that open creates: there are enough for every
   path and every descriptor.                                               *)
LEMMA FreshFileIsFresh ==
    ASSUME KernelOK, NEW p \in Paths, dir[p] = NONE, FreeFds # {}
    PROVE  FreshFile \in Files /\ Fresh(FreshFile)
<1> USE FileHandlesAssumption
<1> DEFINE low == LowestFree
           D == {dir[q] : q \in Paths \ {p}}
           T == {table[fd] : fd \in Fds \ {low}}
<1>1. low \in Fds /\ table[low] = NONE
  BY LowestFreeIsFree
<1>2. IsFiniteSet(Paths \ {p}) /\ Cardinality(Paths \ {p}) = Cardinality(Paths) - 1
      /\ Cardinality(Paths) \in Nat
  BY FS_RemoveElement, FS_CardinalityType
<1>3. IsFiniteSet(Fds) /\ Cardinality(Fds) = MaxFd
  BY FS_Interval DEF Fds
<1>4. IsFiniteSet(Fds \ {low}) /\ Cardinality(Fds \ {low}) = MaxFd - 1
  BY <1>1, <1>3, FS_RemoveElement
<1>5. IsFiniteSet(D) /\ Cardinality(D) <= Cardinality(Paths) - 1 /\ Cardinality(D) \in Nat
  BY <1>2, ImageBound
<1>6. IsFiniteSet(T) /\ Cardinality(T) <= MaxFd - 1 /\ Cardinality(T) \in Nat
  BY <1>4, ImageBound
<1>7. IsFiniteSet(D \cup T) /\ Cardinality(D \cup T) <= Cardinality(D) + Cardinality(T)
  <2>1. IsFiniteSet(D \cap T) /\ Cardinality(D \cap T) \in Nat
    BY <1>5, FS_Intersection, FS_CardinalityType
  <2>2. /\ IsFiniteSet(D \cup T)
        /\ Cardinality(D \cup T) = Cardinality(D) + Cardinality(T) - Cardinality(D \cap T)
    BY <1>5, <1>6, FS_Union
  <2>3. QED
    BY <1>5, <1>6, <2>1, <2>2
<1>8. IsFiniteSet(Files) /\ Cardinality(Files) = MaxFile
  BY FS_Interval DEF Files
<1>9. ~(Files \subseteq D \cup T)
  <2>1. SUFFICES ASSUME Files \subseteq D \cup T
                 PROVE  FALSE
    OBVIOUS
  <2>2. MaxFile <= Cardinality(D \cup T)
    BY <1>7, <1>8, <2>1, FS_Subset
  <2>3. Cardinality(D \cup T) \in Nat
    BY <1>7, FS_CardinalityType
  <2>4. QED
    BY <1>2, <1>5, <1>6, <1>7, <2>2, <2>3
<1>10. PICK f \in Files : f \notin D \cup T
  BY <1>9
<1>11. Fresh(f)
  BY <1>1, <1>10 DEF Fresh, Files, NONE
<1>12. \E g \in {h \in Files : Fresh(h)} : \A h \in {k \in Files : Fresh(k)} : g <= h
  <2>1. {h \in Files : Fresh(h)} \subseteq Nat
    BY DEF Files
  <2>2. QED
    BY <1>10, <1>11, <2>1, SmallestMember
<1>13. \E g \in Files : Fresh(g) /\ \A h \in Files : Fresh(h) => g <= h
  BY <1>12
<1>14. QED
  BY <1>13 DEF FreshFile

(* What an open of an existing file does to the kernel.                     *)
LEMMA OpenExistingKernel ==
    ASSUME KernelOK, NEW p \in Paths, NEW Flags \in Mode, CanOpen(p), OpenExisting(p, Flags)
    PROVE  /\ KernelOK'
           /\ LowestFree \in Fds
           /\ table[LowestFree] = NONE
           /\ table' = [table EXCEPT ![LowestFree] = dir[p]]
           /\ pos'[LowestFree] = 0
           /\ mode'[LowestFree] = OpenOpts(Flags)
           /\ dir' = dir
           /\ data' = data
<1>1. LowestFree \in Fds /\ table[LowestFree] = NONE
  BY LowestFreeIsFree DEF CanOpen
<1>2. dir[p] \in Files
  BY DEF KernelOK, CanOpen
<1>3. QED
  BY <1>1, <1>2, OpenOptsIsMode DEF KernelOK, OpenExisting

(* What an open that may create a file does: path p has a file f, the one it
   had or else one that nobody has; f is empty and the only file that changed. *)
LEMMA OpenCreatingKernel ==
    ASSUME KernelOK, NEW p \in Paths, NEW Flags \in Mode, NEW force, CanCreate(p, force),
           OpenCreating(p, Flags)
    PROVE  /\ KernelOK'
           /\ LowestFree \in Fds
           /\ table[LowestFree] = NONE
           /\ \A fd \in Fds : fd # LowestFree =>
                 table'[fd] = table[fd] /\ pos'[fd] = pos[fd] /\ mode'[fd] = mode[fd]
           /\ pos'[LowestFree] = 0
           /\ mode'[LowestFree] = OpenOpts(Flags)
           /\ dir'[p] \in Files
           /\ table'[LowestFree] = dir'[p]
           /\ data'[dir'[p]] = <<>>
           /\ \A q \in Paths : q # p => dir'[q] = dir[q]
           /\ \A g \in Files : g # dir'[p] => data'[g] = data[g]
           /\ dir[p] # NONE => dir'[p] = dir[p]
           /\ dir[p] = NONE => Fresh(dir'[p])
<1> DEFINE f == IF dir[p] # NONE THEN dir[p] ELSE FreshFile
<1>1. LowestFree \in Fds /\ table[LowestFree] = NONE
  BY LowestFreeIsFree DEF CanCreate
<1>2. f \in Files /\ (dir[p] = NONE => Fresh(f))
  BY FreshFileIsFresh DEF KernelOK, CanCreate
<1>3. <<>> \in Seq(Byte)
  OBVIOUS
<1>4. /\ dir' = [dir EXCEPT ![p] = f]
      /\ data' = [data EXCEPT ![f] = <<>>]
      /\ table' = [table EXCEPT ![LowestFree] = f]
      /\ pos' = [pos EXCEPT ![LowestFree] = 0]
      /\ mode' = [mode EXCEPT ![LowestFree] = OpenOpts(Flags)]
      /\ OpenOpts(Flags) \in Mode
  BY OpenOptsIsMode DEF OpenCreating
<1> HIDE DEF f
<1>5. dir'[p] = f
  BY <1>4 DEF KernelOK
<1>6. KernelOK'
  BY <1>1, <1>2, <1>3, <1>4 DEF KernelOK
<1>7. dir[p] # NONE => f = dir[p]
  BY DEF f
<1>8. QED
  BY <1>1, <1>2, <1>4, <1>5, <1>6, <1>7 DEF KernelOK

(* A file that has a path keeps its bytes when unreachable files are freed. *)
LEMMA FreeUnreachableKeeps ==
    ASSUME KernelOK, dir' \in [Paths -> Files \cup {NONE}], FreeUnreachable
    PROVE  /\ data' \in [Files -> Seq(Byte)]
           /\ \A p \in Paths : dir'[p] # NONE => data'[dir'[p]] = data[dir'[p]]
<1>1. <<>> \in Seq(Byte)
  OBVIOUS
<1>2. \A f \in Files : data[f] \in Seq(Byte)
  BY DEF KernelOK
<1>3. data' \in [Files -> Seq(Byte)]
  BY <1>1, <1>2 DEF FreeUnreachable
<1>4. ASSUME NEW p \in Paths, dir'[p] # NONE
      PROVE  data'[dir'[p]] = data[dir'[p]]
  <2>1. dir'[p] \in Files
    BY <1>4
  <2>2. QED
    BY <2>1 DEF FreeUnreachable
<1>5. QED
  BY <1>3, <1>4

(* close frees one entry of the table at most, and no path loses its file.  *)
LEMMA CloseKernel ==
    ASSUME KernelOK, NEW fd, Close(fd)
    PROVE  /\ KernelOK'
           /\ dir' = dir
           /\ table' = [table EXCEPT ![fd] = NONE]
           /\ \A p \in Paths : dir[p] # NONE => data'[dir[p]] = data[dir[p]]
<1>1. dir' \in [Paths -> Files \cup {NONE}] /\ dir' = dir
  BY DEF KernelOK, Close
<1>2. /\ data' \in [Files -> Seq(Byte)]
      /\ \A p \in Paths : dir'[p] # NONE => data'[dir'[p]] = data[dir'[p]]
  BY <1>1, FreeUnreachableKeeps DEF Close
<1>3. mode' \in [Fds -> Mode]
  BY DEF KernelOK, Close, Mode
<1>4. QED
  BY <1>1, <1>2, <1>3 DEF KernelOK, Close

-----------------------------------------------------------------------------
(* The initial state and the shape of a step.                               *)

(* At first every path has an inode, and no descriptor is open.             *)
LEMMA InitEstablishes ==
    ASSUME Init
    PROVE  IInv
<1> USE FileHandlesAssumption
<1>1. Len(StartPath) <= MaxFile /\ Len(StartPath) \in Nat
  <2>0. /\ Len(StartPath) \in Nat
        /\ DOMAIN StartPath = 1..Len(StartPath)
        /\ StartPath \in [1..Len(StartPath) -> Paths]
    OBVIOUS
  <2>1. StartPath \in Injection(1..Len(StartPath), Paths)
    BY <2>0 DEF Injection, IsInjective
  <2>2. Cardinality(1..Len(StartPath)) <= Cardinality(Paths)
    BY <2>1, FS_Injection
  <2>3. Cardinality(1..Len(StartPath)) = Len(StartPath)
    <3>1. ASSUME NEW n \in Nat
          PROVE  Cardinality(1..n) = n
      BY <3>1, FS_Interval
    <3>2. QED
      BY <2>0, <3>1
  <2>4. Cardinality(Paths) \in Nat
    BY FS_CardinalityType
  <2>5. QED
    BY <2>0, <2>2, <2>3, <2>4
<1>2. DOMAIN StartPath \subseteq Files
  BY <1>1 DEF Files
<1>3. KernelOK
  <2>1. dir \in [Paths -> Files \cup {NONE}]
    BY <1>2 DEF Init
  <2>2. \A f \in DOMAIN Start : Start[f] \in Seq(Byte)
    OBVIOUS
  <2>3. <<>> \in Seq(Byte)
    OBVIOUS
  <2>4. data \in [Files -> Seq(Byte)]
    BY <2>2, <2>3 DEF Init
  <2>5. QED
    BY <2>1, <2>4 DEF Init, KernelOK, Mode
<1>4. TypeOK
  BY <1>3 DEF Init, TypeOK, KernelOK, NoLocal, NoArg, Handle
<1>5. \A t \in Threads : pc[t] = "idle" /\ local[t] = NoLocal /\ moving[t] = <<>> /\ ~alone[t]
  BY DEF Init
<1>6. CallState
  BY <1>5 DEF CallState, CallFits, InDup, HasDst
<1>7. NoLeak
  BY DEF NoLeak, Init
<1>8. AloneProgress
  BY <1>5 DEF AloneProgress
<1>9. QED
  BY <1>4, <1>6, <1>7, <1>8 DEF IInv

\* A step of thread t ends the solitude of all others, and leaves their locals
\* alone.
Turn(t) == alone' = [u \in Threads |-> u = t /\ (pc[t] = "idle" \/ alone[t])]

StepOf(t) ==
    /\ \A u \in Threads : u # t => /\ pc'[u] = pc[u]
                                   /\ arg'[u] = arg[u]
                                   /\ local'[u] = local[u]
                                   /\ moving'[u] = moving[u]
                                   /\ held'[u] = held[u]
    /\ Turn(t)

\* What is open after the step is owned by t, or was and is owned by others.
KeepsOwners(t) ==
    \A fd \in Fds : table'[fd] # NONE =>
        \/ Owns(t, fd)'
        \/ table[fd] # NONE /\ ~Owns(t, fd)

(* A step of thread t preserves the invariant when it does so for t.        *)
LEMMA PreservedByThread ==
    ASSUME IInv, NEW t \in Threads, TypeOK', StepOf(t), KeepsOwners(t), CallFits(t)',
           alone'[t] /\ pc'[t] \in InDup => DupProgress(t)',
           alone'[t] /\ moving'[t] # <<>> => MoveProgress(t)'
    PROVE  IInv'
<1>1. CallState'
  BY DEF IInv, CallState, CallFits, StepOf
<1>2. NoLeak'
  <2>1. \A u \in Threads : u # t => \A fd \in Fds : Owns(u, fd) => Owns(u, fd)'
    BY DEF StepOf, Owns, OpenedByDup
  <2>2. QED
    BY <2>1 DEF IInv, NoLeak, KeepsOwners
<1>3. AloneProgress'
  <2>1. \A u \in Threads : alone'[u] => u = t
    BY DEF StepOf, Turn
  <2>2. QED
    BY <2>1 DEF AloneProgress
<1>4. QED
  BY <1>1, <1>2, <1>3 DEF IInv

(* A thread that is not inside DuplicateFile after its step has no progress
   to keep.                                                                 *)
LEMMA PreservedOutsideDup ==
    ASSUME IInv, NEW t \in Threads, TypeOK', StepOf(t), KeepsOwners(t), CallFits(t)',
           pc'[t] \notin InDup \cup {"moveRemove"}
    PROVE  IInv'
<1>1. moving'[t] = <<>>
  BY DEF CallFits
<1>2. QED
  BY <1>1, PreservedByThread

-----------------------------------------------------------------------------
(* The calls that take and give back handles, one lemma per call.           *)

(* The kernel is part of the types.                                         *)
LEMMA KernelOfTypeOK ==
    ASSUME IInv
    PROVE  KernelOK
BY DEF IInv, TypeOK, KernelOK

(* CreateNewFile gives the caller the descriptor that open has taken.       *)
LEMMA CreateNewFilePreserves ==
    ASSUME IInv, NEW t \in Threads, NEW p \in Paths, NEW Flags \in Mode,
           NEW force \in BOOLEAN, CreateNewFile(t, p, Flags, force), UNCHANGED moving, Turn(t)
    PROVE  IInv'
<1>1. pc[t] = "idle" /\ UNCHANGED <<pc, arg, local, moving>>
  BY DEF CreateNewFile
<1>2. CASE CanCreate(p, force)
  <2>1. OpenCreating(p, Flags) /\ TakeHandle(t)
    BY <1>2 DEF CreateNewFile
  <2>2. /\ KernelOK'
        /\ LowestFree \in Fds
        /\ \A fd \in Fds : fd # LowestFree => table'[fd] = table[fd]
    BY <1>2, <2>1, KernelOfTypeOK, OpenCreatingKernel
  <2>3. held' \in [Threads -> SUBSET Fds] /\ held'[t] = held[t] \cup {LowestFree}
    BY <2>1, <2>2 DEF TakeHandle, IInv, TypeOK
  <2>4. TypeOK'
    BY <1>1, <2>2, <2>3 DEF KernelOK, IInv, TypeOK, Turn
  <2>5. StepOf(t)
    BY <1>1, <2>1 DEF StepOf, TakeHandle, IInv, TypeOK
  <2>6. KeepsOwners(t)
    BY <1>1, <2>2, <2>3 DEF KeepsOwners, Owns, OpenedByDup
  <2>7. CallFits(t)'
    BY <1>1 DEF IInv, CallState, CallFits
  <2>8. QED
    BY <1>1, <2>4, <2>5, <2>6, <2>7, PreservedOutsideDup DEF InDup
<1>3. CASE ~CanCreate(p, force)
  <2>1. UNCHANGED <<kernel, held>>
    BY <1>3 DEF CreateNewFile
  <2>2. TypeOK'
    BY <1>1, <2>1 DEF kernel, IInv, TypeOK, Turn
  <2>3. StepOf(t) /\ KeepsOwners(t)
    BY <1>1, <2>1 DEF kernel, StepOf, KeepsOwners, Owns, OpenedByDup
  <2>4. CallFits(t)'
    BY <1>1 DEF IInv, CallState, CallFits
  <2>5. QED
    BY <1>1, <2>2, <2>3, <2>4, PreservedOutsideDup DEF InDup
<1>4. QED
  BY <1>2, <1>3

(* OpenFileHandle gives the caller a descriptor, or goes on to create the
   file.                                                                    *)
LEMMA OpenFileHandlePreserves ==
    ASSUME IInv, NEW t \in Threads, NEW p \in Paths, NEW Flags \in Mode,
           NEW force \in BOOLEAN, OpenFileHandle(t, p, Flags, force), UNCHANGED moving, Turn(t)
    PROVE  IInv'
<1>1. /\ pc[t] = "idle"
      /\ UNCHANGED <<local, moving>>
  BY DEF OpenFileHandle
<1>2. CASE CanOpen(p)
  <2>1. OpenExisting(p, Flags) /\ TakeHandle(t) /\ UNCHANGED <<pc, arg>>
    BY <1>2 DEF OpenFileHandle
  <2>2. /\ KernelOK'
        /\ LowestFree \in Fds
        /\ table' = [table EXCEPT ![LowestFree] = dir[p]]
    BY <1>2, <2>1, KernelOfTypeOK, OpenExistingKernel
  <2>3. held' \in [Threads -> SUBSET Fds] /\ held'[t] = held[t] \cup {LowestFree}
    BY <2>1, <2>2 DEF TakeHandle, IInv, TypeOK
  <2>4. TypeOK'
    BY <1>1, <2>1, <2>2, <2>3 DEF KernelOK, IInv, TypeOK, Turn
  <2>5. StepOf(t)
    BY <1>1, <2>1 DEF StepOf, TakeHandle, IInv, TypeOK
  <2>6. KeepsOwners(t)
    BY <1>1, <2>1, <2>2, <2>3 DEF KeepsOwners, Owns, OpenedByDup, IInv, TypeOK
  <2>7. CallFits(t)'
    BY <1>1, <2>1 DEF IInv, CallState, CallFits
  <2>8. QED
    BY <1>1, <2>1, <2>4, <2>5, <2>6, <2>7, PreservedOutsideDup DEF InDup
<1>3. CASE ~CanOpen(p)
  <2>1. /\ UNCHANGED <<kernel, held>>
        /\ \/ UNCHANGED <<pc, arg>>
           \/ /\ pc' = [pc EXCEPT ![t] = "forceOpen"]
              /\ arg' = [arg EXCEPT ![t] = <<p, Flags>>]
    BY <1>3 DEF OpenFileHandle
  <2>2. TypeOK'
    <3>1. <<p, Flags>> \in Paths \X Mode
      OBVIOUS
    <3>2. arg' \in [Threads -> {NoArg} \cup (Paths \X Mode) \cup (Paths \X Paths \X BOOLEAN)]
      BY <2>1, <3>1 DEF IInv, TypeOK
    <3>3. QED
      BY <1>1, <2>1, <3>2 DEF kernel, IInv, TypeOK, Turn
  <2>3. StepOf(t)
    BY <1>1, <2>1 DEF kernel, StepOf, IInv, TypeOK
  <2>4. KeepsOwners(t)
    BY <1>1, <2>1 DEF kernel, KeepsOwners, Owns, OpenedByDup, IInv, TypeOK
  <2>5. CallFits(t)'
    <3>1. CASE UNCHANGED <<pc, arg>>
      BY <1>1, <3>1 DEF IInv, CallState, CallFits
    <3>2. CASE pc'[t] = "forceOpen" /\ arg'[t] = <<p, Flags>>
      <4>1. <<p, Flags>> \in Paths \X Mode
        OBVIOUS
      <4>2. local'[t] = NoLocal /\ moving'[t] = <<>>
        BY <1>1 DEF IInv, CallState, CallFits, InDup
      <4>3. QED
        BY <3>2, <4>1, <4>2 DEF CallFits, InDup, HasDst
    <3>3. QED
      BY <2>1, <3>1, <3>2 DEF IInv, TypeOK
  <2>6. pc'[t] \notin InDup \cup {"moveRemove"}
    BY <1>1, <2>1 DEF IInv, TypeOK, InDup
  <2>7. QED
    BY <2>2, <2>3, <2>4, <2>5, <2>6, PreservedOutsideDup
<1>4. QED
  BY <1>2, <1>3

(* The second open of FORCE_OPEN gives the caller a descriptor or none.     *)
LEMMA ForceOpenPreserves ==
    ASSUME IInv, NEW t \in Threads, ForceOpen(t), UNCHANGED moving, Turn(t)
    PROVE  IInv'
<1> DEFINE p == arg[t][1]
           Flags == arg[t][2]
<1>1. /\ pc[t] = "forceOpen"
      /\ pc' = [pc EXCEPT ![t] = "idle"]
      /\ arg' = [arg EXCEPT ![t] = NoArg]
      /\ UNCHANGED <<local, moving>>
  BY DEF ForceOpen
<1>0. p \in Paths /\ Flags \in Mode
  BY <1>1 DEF IInv, CallState, CallFits
<1>2. pc'[t] = "idle"
  BY <1>1 DEF IInv, TypeOK
<1>3. CallFits(t)'
  BY <1>1, <1>2 DEF IInv, CallState, CallFits, InDup, HasDst
<1>4. CASE CanCreate(p, FALSE)
  <2>1. OpenCreating(p, Flags) /\ TakeHandle(t)
    BY <1>4 DEF ForceOpen
  <2>2. /\ KernelOK'
        /\ LowestFree \in Fds
        /\ \A fd \in Fds : fd # LowestFree => table'[fd] = table[fd]
    BY <1>0, <1>4, <2>1, KernelOfTypeOK, OpenCreatingKernel
  <2>3. held' \in [Threads -> SUBSET Fds] /\ held'[t] = held[t] \cup {LowestFree}
    BY <2>1, <2>2 DEF TakeHandle, IInv, TypeOK
  <2>4. TypeOK'
    BY <1>1, <2>2, <2>3 DEF KernelOK, IInv, TypeOK, Turn
  <2>5. StepOf(t)
    BY <1>1, <2>1 DEF StepOf, TakeHandle, IInv, TypeOK
  <2>6. KeepsOwners(t)
    BY <1>1, <2>2, <2>3 DEF KeepsOwners, Owns, OpenedByDup
  <2>7. QED
    BY <1>2, <1>3, <2>4, <2>5, <2>6, PreservedOutsideDup DEF InDup
<1>5. CASE ~CanCreate(p, FALSE)
  <2>1. UNCHANGED <<kernel, held>>
    BY <1>5 DEF ForceOpen
  <2>2. TypeOK'
    BY <1>1, <2>1 DEF kernel, IInv, TypeOK, Turn
  <2>3. StepOf(t)
    BY <1>1, <2>1 DEF kernel, StepOf, IInv, TypeOK
  <2>4. KeepsOwners(t)
    BY <1>1, <1>2, <2>1 DEF kernel, KeepsOwners, Owns, OpenedByDup
  <2>5. QED
    BY <1>2, <1>3, <2>2, <2>3, <2>4, PreservedOutsideDup DEF InDup
<1>6. QED
  BY <1>4, <1>5

(* CloseFileHandle closes a descriptor that its caller holds.               *)
LEMMA CloseFileHandlePreserves ==
    ASSUME IInv, NEW t \in Threads, NEW fd \in Fds, CloseFileHandle(t, fd),
           UNCHANGED moving, Turn(t)
    PROVE  IInv'
<1>1. /\ pc[t] = "idle"
      /\ Close(fd)
      /\ held' = [held EXCEPT ![t] = @ \ {fd}]
      /\ UNCHANGED <<pc, arg, local, moving>>
  BY DEF CloseFileHandle
<1>2. KernelOK' /\ table' = [table EXCEPT ![fd] = NONE]
  BY <1>1, KernelOfTypeOK, CloseKernel
<1>3. held' \in [Threads -> SUBSET Fds] /\ held'[t] = held[t] \ {fd}
  BY <1>1 DEF IInv, TypeOK
<1>4. TypeOK'
  BY <1>1, <1>2, <1>3 DEF KernelOK, IInv, TypeOK, Turn
<1>5. StepOf(t)
  BY <1>1 DEF StepOf, IInv, TypeOK
<1>6. KeepsOwners(t)
  BY <1>1, <1>2, <1>3 DEF KeepsOwners, Owns, OpenedByDup, IInv, TypeOK
<1>7. CallFits(t)'
  BY <1>1 DEF IInv, CallState, CallFits
<1>8. QED
  BY <1>1, <1>4, <1>5, <1>6, <1>7, PreservedOutsideDup DEF InDup

(* RemoveFile takes a name away and no descriptor; a copy that it
   disturbs is not alone any more.                                          *)
LEMMA RemoveFilePreserves ==
    ASSUME IInv, NEW t \in Threads, NEW p \in Paths, RemoveFile(t, p),
           UNCHANGED moving, Turn(t)
    PROVE  IInv'
<1>1. /\ pc[t] = "idle"
      /\ dir' = [dir EXCEPT ![p] = NONE]
      /\ FreeUnreachable
      /\ UNCHANGED <<table, pos, mode, pc, arg, local, held, moving>>
  BY DEF RemoveFile
<1>2. dir' \in [Paths -> Files \cup {NONE}]
  BY <1>1 DEF IInv, TypeOK
<1>3. data' \in [Files -> Seq(Byte)]
  BY <1>1, <1>2, KernelOfTypeOK, FreeUnreachableKeeps
<1>4. TypeOK'
  BY <1>1, <1>2, <1>3 DEF IInv, TypeOK, Turn
<1>5. StepOf(t) /\ KeepsOwners(t)
  BY <1>1 DEF StepOf, KeepsOwners, Owns, OpenedByDup
<1>6. CallFits(t)'
  BY <1>1 DEF IInv, CallState, CallFits
<1>7. QED
  BY <1>1, <1>4, <1>5, <1>6, PreservedOutsideDup DEF InDup

-----------------------------------------------------------------------------
(* DuplicateFile, one lemma per step.                                       *)

\* The locals of DuplicateFile.
Locals == [SrcFile : Handle, DstFile : Handle, Size : Nat \cup {USZ_MAX}, Result : BOOLEAN]

(* An assignment to one of the locals leaves the others alone.              *)
LEMMA LocalAssigned ==
    ASSUME NEW old \in [Threads -> Locals], NEW t \in Threads
    PROVE  /\ \A h \in Handle :
                 LET new == [old EXCEPT ![t].SrcFile = h]
                 IN  /\ new \in [Threads -> Locals]
                     /\ new[t].SrcFile = h
                     /\ new[t].DstFile = old[t].DstFile
                     /\ new[t].Size = old[t].Size
                     /\ new[t].Result = old[t].Result
           /\ \A h \in Handle :
                 LET new == [old EXCEPT ![t].DstFile = h]
                 IN  /\ new \in [Threads -> Locals]
                     /\ new[t].SrcFile = old[t].SrcFile
                     /\ new[t].DstFile = h
                     /\ new[t].Size = old[t].Size
                     /\ new[t].Result = old[t].Result
           /\ \A n \in Nat \cup {USZ_MAX} :
                 LET new == [old EXCEPT ![t].Size = n]
                 IN  /\ new \in [Threads -> Locals]
                     /\ new[t].SrcFile = old[t].SrcFile
                     /\ new[t].DstFile = old[t].DstFile
                     /\ new[t].Size = n
                     /\ new[t].Result = old[t].Result
           /\ \A r \in BOOLEAN :
                 LET new == [old EXCEPT ![t].Result = r]
                 IN  /\ new \in [Threads -> Locals]
                     /\ new[t].SrcFile = old[t].SrcFile
                     /\ new[t].DstFile = old[t].DstFile
                     /\ new[t].Size = old[t].Size
                     /\ new[t].Result = r
BY DEF Locals

\* A move is forgotten when its call returns.
MovingEnds(t) == moving' = [moving EXCEPT ![t] = IF pc'[t] = "idle" THEN <<>> ELSE @]

(* The first step, of DuplicateFile or of a move across devices.            *)
LEMMA DupOpenPreserves ==
    ASSUME IInv, NEW t \in Threads, NEW src \in Paths, NEW dst \in Paths, NEW over \in BOOLEAN,
           pc[t] = "idle", DupOpen(t, src, dst, over), Turn(t),
           UNCHANGED moving \/ (over = FALSE /\ Moving(t, src, dst))
    PROVE  IInv'
<1>1. local[t] = NoLocal /\ moving[t] = <<>>
  BY DEF IInv, CallState, CallFits, InDup
<1>2. CASE CanOpen(src)
  <2>1. /\ OpenExisting(src, {"READ"})
        /\ local' = [local EXCEPT ![t].SrcFile = LowestFree]
        /\ arg' = [arg EXCEPT ![t] = <<src, dst, over>>]
        /\ pc' = [pc EXCEPT ![t] = "dupCreate"]
        /\ held' = held
    BY <1>2 DEF DupOpen
  <2>2. /\ KernelOK'
        /\ LowestFree \in Fds
        /\ table[LowestFree] = NONE
        /\ table' = [table EXCEPT ![LowestFree] = dir[src]]
        /\ pos'[LowestFree] = 0
        /\ mode'[LowestFree] = {"READ"}
        /\ dir' = dir
        /\ data' = data
    <3>1. {"READ"} \in Mode /\ OpenOpts({"READ"}) = {"READ"}
      BY DEF Mode, OpenOpts
    <3>2. QED
      BY <1>2, <2>1, <3>1, KernelOfTypeOK, OpenExistingKernel
  <2>3. /\ pc'[t] = "dupCreate"
        /\ arg'[t] = <<src, dst, over>>
        /\ local'[t].SrcFile = LowestFree
        /\ local'[t].Result = FALSE
        /\ local' \in [Threads -> Locals]
    <3>1. local \in [Threads -> Locals] /\ ~local[t].Result
      BY <1>1 DEF IInv, TypeOK, Locals, NoLocal
    <3>2. /\ local' \in [Threads -> Locals]
          /\ local'[t].SrcFile = LowestFree
          /\ local'[t].Result = local[t].Result
      BY <2>1, <2>2, <3>1, LocalAssigned DEF Handle
    <3>3. pc'[t] = "dupCreate" /\ arg'[t] = <<src, dst, over>>
      BY <2>1 DEF IInv, TypeOK
    <3>4. QED
      BY <3>1, <3>2, <3>3
  <2>4. dir[src] \in Files /\ dir[src] # NONE /\ data[dir[src]] \in Seq(Byte)
    BY <1>2 DEF CanOpen, IInv, TypeOK
  <2>5. /\ moving' \in [Threads -> {<<>>} \cup (Paths \X Paths \X Seq(Byte))]
        /\ \A u \in Threads : u # t => moving'[u] = moving[u]
        /\ moving'[t] # <<>> => over = FALSE /\ moving'[t] = <<src, dst, data[dir[src]]>>
    <3>1. CASE moving' = moving
      BY <1>1, <3>1 DEF IInv, TypeOK
    <3>2. CASE over = FALSE /\ moving' = [moving EXCEPT ![t] = <<src, dst, data[dir[src]]>>]
      <4>1. <<src, dst, data[dir[src]]>> \in Paths \X Paths \X Seq(Byte)
        BY <2>4
      <4>2. QED
        BY <3>2, <4>1 DEF IInv, TypeOK
    <3>3. QED
      BY <2>3, <3>1, <3>2 DEF Moving
  <2>6. TypeOK'
    <3>1. arg' \in [Threads -> {NoArg} \cup (Paths \X Mode) \cup (Paths \X Paths \X BOOLEAN)]
      BY <2>1 DEF IInv, TypeOK
    <3>2. pc' \in [Threads -> {"idle", "forceOpen", "moveRemove"} \cup InDup]
      BY <2>1 DEF IInv, TypeOK, InDup
    <3>3. QED
      BY <2>1, <2>2, <2>3, <2>5, <3>1, <3>2 DEF KernelOK, IInv, TypeOK, Turn, Locals
  <2>7. StepOf(t)
    BY <2>1, <2>5 DEF StepOf, IInv, TypeOK
  <2>8. KeepsOwners(t)
    BY <2>1, <2>2, <2>3 DEF KeepsOwners, Owns, OpenedByDup, IInv, TypeOK
  <2>9. CallFits(t)'
    <3>1. arg'[t] \in Paths \X Paths \X BOOLEAN
      BY <2>3
    <3>2. moving'[t] # <<>> => arg'[t] = <<moving'[t][1], moving'[t][2], FALSE>>
      <4>1. SUFFICES ASSUME moving'[t] # <<>>
                     PROVE  arg'[t] = <<moving'[t][1], moving'[t][2], FALSE>>
        OBVIOUS
      <4>2. moving'[t] = <<src, dst, data[dir[src]]>> /\ over = FALSE
        BY <2>5, <4>1
      <4>3. moving'[t][1] = src /\ moving'[t][2] = dst
        BY <4>2
      <4>4. QED
        BY <2>3, <4>2, <4>3
    <3>3. QED
      BY <2>2, <2>3, <3>1, <3>2 DEF CallFits, InDup, HasDst
  <2>10. DupProgress(t)'
    BY <2>2, <2>3, <2>4 DEF DupProgress, IInv, TypeOK
  <2>11. moving'[t] # <<>> => MoveProgress(t)'
    BY <2>2, <2>3, <2>4, <2>5 DEF MoveProgress, HasDst
  <2>12. QED
    BY <2>6, <2>7, <2>8, <2>9, <2>10, <2>11, PreservedByThread
<1>3. CASE ~CanOpen(src)
  <2>1. /\ UNCHANGED <<kernel, arg, local, held>>
        /\ pc' = [pc EXCEPT ![t] = "idle"]
    BY <1>3 DEF DupOpen
  <2>2. pc' = pc
    BY <2>1 DEF IInv, TypeOK
  <2>3. moving' = moving
    BY <1>1, <2>2 DEF IInv, TypeOK, Moving
  <2>4. TypeOK'
    BY <2>1, <2>2, <2>3 DEF kernel, IInv, TypeOK, Turn
  <2>5. StepOf(t) /\ KeepsOwners(t)
    BY <2>1, <2>2, <2>3 DEF kernel, StepOf, KeepsOwners, Owns, OpenedByDup
  <2>6. CallFits(t)'
    BY <2>1, <2>2, <2>3 DEF IInv, CallState, CallFits
  <2>7. QED
    BY <2>2, <2>4, <2>5, <2>6, PreservedOutsideDup DEF InDup
<1>4. QED
  BY <1>2, <1>3

(* In the middle of a call the thread goes on alone if it was alone.        *)
LEMMA StillAlone ==
    ASSUME IInv, NEW t \in Threads, Turn(t), pc[t] # "idle", alone'[t]
    PROVE  /\ pc[t] \in InDup => DupProgress(t)
           /\ moving[t] # <<>> => MoveProgress(t)
BY DEF Turn, IInv, AloneProgress

(* DuplicateFile has its source and opens its destination, or gives up
   and keeps the source for the last close.                                 *)
LEMMA DupCreatePreserves ==
    ASSUME IInv, NEW t \in Threads, DupCreate(t), MovingEnds(t), Turn(t)
    PROVE  IInv'
<1> DEFINE src == arg[t][1]
           dst == arg[t][2]
           over == arg[t][3]
<1>1. /\ pc[t] = "dupCreate"
      /\ arg[t] \in Paths \X Paths \X BOOLEAN
      /\ src \in Paths
      /\ dst \in Paths
      /\ over \in BOOLEAN
      /\ local[t].SrcFile \in Fds
      /\ ~local[t].Result
      /\ moving[t] # <<>> => arg[t] = <<moving[t][1], moving[t][2], FALSE>>
      /\ arg' = arg
      /\ held' = held
  <2>1. pc[t] = "dupCreate" /\ arg' = arg /\ held' = held
    BY DEF DupCreate, DupNotCreated
  <2>2. QED
    BY <2>1 DEF IInv, CallState, CallFits, InDup
<1>2. CASE CanCreate(dst, over)
  <2>1. /\ OpenCreating(dst, {"WRITE"})
        /\ local' = [local EXCEPT ![t].DstFile = LowestFree]
        /\ pc' = [pc EXCEPT ![t] = "dupSize"]
    BY <1>2 DEF DupCreate
  <2>2. /\ KernelOK'
        /\ LowestFree \in Fds
        /\ table[LowestFree] = NONE
        /\ \A fd \in Fds : fd # LowestFree =>
              table'[fd] = table[fd] /\ pos'[fd] = pos[fd] /\ mode'[fd] = mode[fd]
        /\ pos'[LowestFree] = 0
        /\ mode'[LowestFree] = {"WRITE"}
        /\ dir'[dst] \in Files
        /\ table'[LowestFree] = dir'[dst]
        /\ data'[dir'[dst]] = <<>>
        /\ \A q \in Paths : q # dst => dir'[q] = dir[q]
        /\ \A g \in Files : g # dir'[dst] => data'[g] = data[g]
        /\ dir[dst] # NONE => dir'[dst] = dir[dst]
        /\ dir[dst] = NONE => Fresh(dir'[dst])
    <3>1. {"WRITE"} \in Mode /\ OpenOpts({"WRITE"}) = {"WRITE"}
      BY DEF Mode, OpenOpts
    <3>2. QED
      BY <1>1, <1>2, <2>1, <3>1, KernelOfTypeOK, OpenCreatingKernel
  <2>3. /\ pc'[t] = "dupSize"
        /\ local'[t].SrcFile = local[t].SrcFile
        /\ local'[t].DstFile = LowestFree
        /\ local'[t].Result = FALSE
        /\ local' \in [Threads -> Locals]
    <3>1. local \in [Threads -> Locals] /\ local[t].Result = FALSE
      BY <1>1 DEF IInv, TypeOK, Locals
    <3>2. pc'[t] = "dupSize"
      BY <2>1 DEF IInv, TypeOK
    <3>3. QED
      BY <2>1, <2>2, <3>1, <3>2, LocalAssigned DEF Handle
  <2>4. moving' = moving
    BY <2>3 DEF MovingEnds, IInv, TypeOK
  <2>5. TypeOK'
    <3>1. pc' \in [Threads -> {"idle", "forceOpen", "moveRemove"} \cup InDup]
      BY <2>1 DEF IInv, TypeOK, InDup
    <3>2. QED
      BY <1>1, <2>2, <2>3, <2>4, <3>1 DEF KernelOK, IInv, TypeOK, Turn, Locals
  <2>6. StepOf(t)
    BY <1>1, <2>1, <2>4 DEF StepOf, IInv, TypeOK
  <2>7. KeepsOwners(t)
    BY <1>1, <2>2, <2>3 DEF KeepsOwners, Owns, OpenedByDup
  <2>8. CallFits(t)'
    BY <1>1, <2>2, <2>3, <2>4 DEF CallFits, InDup, HasDst
  <2>9. ASSUME alone'[t]
        PROVE  DupProgress(t)'
    <3>1. /\ dir[src] # NONE
          /\ table[local[t].SrcFile] = dir[src]
          /\ pos[local[t].SrcFile] = 0
          /\ mode[local[t].SrcFile] = {"READ"}
      BY <1>1, <2>9, StillAlone DEF DupProgress, InDup
    <3>2. dir'[src] = dir[src] /\ dir'[src] # NONE /\ dir'[dst] # NONE
      BY <1>1, <2>2, <3>1 DEF Files, NONE
    <3>3. local[t].SrcFile # LowestFree
      BY <2>2, <3>1
    <3>4. /\ table'[local[t].SrcFile] = dir[src]
          /\ pos'[local[t].SrcFile] = 0
          /\ mode'[local[t].SrcFile] = {"READ"}
      BY <1>1, <2>2, <3>1, <3>3
    <3>5. QED
      BY <1>1, <2>2, <2>3, <3>2, <3>3, <3>4 DEF DupProgress
  <2>10. ASSUME alone'[t], moving'[t] # <<>>
         PROVE  MoveProgress(t)'
    <3>1. /\ moving[t][1] = src /\ moving[t][2] = dst /\ over = FALSE
          /\ dir[src] # NONE
          /\ data[dir[src]] = moving[t][3]
      <4>1. moving[t] # <<>> /\ arg[t] = <<moving[t][1], moving[t][2], FALSE>>
        BY <1>1, <2>4, <2>10
      <4>2. MoveProgress(t)
        BY <1>1, <2>10, <4>1, StillAlone
      <4>3. moving[t][1] = src /\ moving[t][2] = dst /\ over = FALSE
        BY <4>1
      <4>4. QED
        BY <4>2, <4>3 DEF MoveProgress
    <3>2. dir[dst] = NONE
      BY <1>2, <3>1 DEF CanCreate
    <3>3. src # dst /\ dir'[src] = dir[src] /\ dir'[dst] # dir[src]
      BY <1>1, <2>2, <3>1, <3>2 DEF Fresh
    <3>4. data'[dir'[src]] = moving[t][3]
      BY <1>1, <2>2, <3>1, <3>3 DEF IInv, TypeOK
    <3>5. QED
      BY <2>3, <2>4, <3>1, <3>3, <3>4 DEF MoveProgress
  <2>11. QED
    BY <2>5, <2>6, <2>7, <2>8, <2>9, <2>10, PreservedByThread
<1>3. CASE ~CanCreate(dst, over)
  <2>1. /\ pc' = [pc EXCEPT ![t] = "dupClose"]
        /\ UNCHANGED <<kernel, local>>
    BY <1>3 DEF DupCreate, DupNotCreated
  <2>2. pc'[t] = "dupClose"
    BY <2>1 DEF IInv, TypeOK
  <2>3. moving' = moving
    BY <2>2 DEF MovingEnds, IInv, TypeOK
  <2>4. TypeOK'
    BY <1>1, <2>1, <2>3 DEF kernel, IInv, TypeOK, Turn, InDup
  <2>5. StepOf(t)
    BY <1>1, <2>1, <2>3 DEF StepOf, IInv, TypeOK
  <2>6. KeepsOwners(t)
    BY <1>1, <2>1, <2>2 DEF kernel, KeepsOwners, Owns, OpenedByDup
  <2>7. CallFits(t)'
    BY <1>1, <2>1, <2>2, <2>3 DEF CallFits, InDup, HasDst
  <2>8. alone'[t] => DupProgress(t)'
    BY <1>1, <2>1, <2>2, StillAlone DEF kernel, DupProgress, InDup
  <2>9. alone'[t] /\ moving'[t] # <<>> => MoveProgress(t)'
    BY <1>1, <2>1, <2>2, <2>3, StillAlone DEF kernel, MoveProgress, HasDst
  <2>10. QED
    BY <2>4, <2>5, <2>6, <2>7, <2>8, <2>9, PreservedByThread
<1>4. QED
  BY <1>2, <1>3

(* DuplicateFile takes the size of its source.                              *)
LEMMA DupSizePreserves ==
    ASSUME IInv, NEW t \in Threads, DupSize(t), MovingEnds(t), Turn(t)
    PROVE  IInv'
<1> DEFINE f == table[local[t].SrcFile]
           size == IF f = NONE THEN USZ_MAX ELSE Len(data[f])
<1>1. /\ pc[t] = "dupSize"
      /\ local' = [local EXCEPT ![t].Size = size]
      /\ pc' = [pc EXCEPT ![t] = "dupCopy"]
      /\ UNCHANGED <<dir, data, table, pos, mode, arg, held>>
  BY DEF DupSize, kernel
<1>2. local[t].SrcFile \in Fds /\ f \in Files \cup {NONE}
  BY <1>1 DEF IInv, CallState, CallFits, TypeOK, InDup
<1>3. size \in Nat \cup {USZ_MAX}
  <2>1. f \in Files => Len(data[f]) \in Nat
    BY DEF IInv, TypeOK
  <2>2. QED
    BY <1>2, <2>1
<1> HIDE DEF size
<1>4. /\ pc'[t] = "dupCopy"
      /\ local'[t].SrcFile = local[t].SrcFile
      /\ local'[t].DstFile = local[t].DstFile
      /\ local'[t].Size = size
      /\ local'[t].Result = local[t].Result
      /\ local' \in [Threads -> Locals]
  <2>1. local \in [Threads -> Locals]
    BY DEF IInv, TypeOK, Locals
  <2>2. pc'[t] = "dupCopy"
    BY <1>1 DEF IInv, TypeOK
  <2>3. \A n \in Nat \cup {USZ_MAX} : local' = [local EXCEPT ![t].Size = n] =>
            /\ local' \in [Threads -> Locals]
            /\ local'[t].SrcFile = local[t].SrcFile
            /\ local'[t].DstFile = local[t].DstFile
            /\ local'[t].Size = n
            /\ local'[t].Result = local[t].Result
    BY <2>1, LocalAssigned
  <2>4. QED
    BY <1>1, <1>3, <2>2, <2>3, Zenon
<1>5. moving' = moving
  BY <1>4 DEF MovingEnds, IInv, TypeOK
<1>6. TypeOK'
  BY <1>1, <1>4, <1>5 DEF IInv, TypeOK, Turn, InDup, Locals
<1>7. StepOf(t)
  BY <1>1, <1>5 DEF StepOf, IInv, TypeOK
<1>8. KeepsOwners(t)
  BY <1>1, <1>4 DEF KeepsOwners, Owns, OpenedByDup
<1>9. CallFits(t)'
  BY <1>1, <1>4, <1>5 DEF IInv, CallState, CallFits, InDup, HasDst
<1>10. ASSUME alone'[t]
       PROVE  DupProgress(t)'
  <2>1. DupProgress(t)
    BY <1>1, <1>10, StillAlone DEF InDup
  <2>2. size = Len(data[dir[arg[t][1]]])
    BY <1>1, <2>1 DEF DupProgress, size
  <2>3. QED
    BY <1>1, <1>4, <2>1, <2>2 DEF DupProgress, IsCopy
<1>11. alone'[t] /\ moving'[t] # <<>> => MoveProgress(t)'
  BY <1>1, <1>4, <1>5, StillAlone DEF MoveProgress, HasDst
<1>12. QED
  BY <1>6, <1>7, <1>8, <1>9, <1>10, <1>11, PreservedByThread

(* The bytes that copy_file_range leaves in the destination; a copy of the
   whole source over an empty destination makes them equal.                 *)
LEMMA CopiedBytes ==
    ASSUME data \in [Files -> Seq(Byte)], NEW f \in Files, NEW g \in Files,
           NEW from \in Nat, NEW to \in Nat, NEW n \in Nat, from + n <= Len(data[f])
    PROVE  /\ Copied(f, from, g, to, n) \in Seq(Byte)
           /\ from = 0 /\ to = 0 /\ n = Len(data[f]) /\ data[g] = <<>> =>
                 Copied(f, from, g, to, n) = data[f]
<1> USE FileHandlesAssumption
<1> DEFINE L == Len(data[g])
           M == IF to + n > L THEN to + n ELSE L
           e(k) == IF k \in (to + 1)..(to + n) THEN data[f][from + k - to]
                   ELSE IF k <= L THEN data[g][k] ELSE ZERO
<1>1. data[f] \in Seq(Byte) /\ data[g] \in Seq(Byte) /\ L \in Nat /\ M \in Nat
  OBVIOUS
<1>2. Copied(f, from, g, to, n) = [k \in 1..M |-> e(k)]
  BY DEF Copied
<1>3. ASSUME NEW k \in 1..M
      PROVE  e(k) \in Byte
  <2>1. CASE k \in (to + 1)..(to + n)
    <3>1. from + k - to \in 1..Len(data[f])
      BY <1>1, <2>1
    <3>2. QED
      BY <1>1, <2>1, <3>1
  <2>2. CASE k \notin (to + 1)..(to + n) /\ k <= L
    <3>1. k \in 1..L
      BY <1>1, <2>2
    <3>2. QED
      BY <1>1, <2>2, <3>1
  <2>3. CASE k \notin (to + 1)..(to + n) /\ ~(k <= L)
    BY <2>3
  <2>4. QED
    BY <2>1, <2>2, <2>3
<1>4. Copied(f, from, g, to, n) \in Seq(Byte)
  BY <1>1, <1>2, <1>3
<1>5. ASSUME from = 0, to = 0, n = Len(data[f]), data[g] = <<>>
      PROVE  Copied(f, from, g, to, n) = data[f]
  <2>1. L = 0 /\ M = n
    BY <1>5
  <2>2. \A k \in 1..n : e(k) = data[f][k]
    BY <1>5
  <2>3. data[f] = [k \in 1..n |-> data[f][k]]
    BY <1>1, <1>5
  <2>4. QED
    BY <1>2, <2>1, <2>2, <2>3
<1>6. QED
  BY <1>4, <1>5

(* DuplicateFile copies; a Result that is true means that every byte of
   an undisturbed source arrived.                                           *)
LEMMA DupCopyPreserves ==
    ASSUME IInv, NEW t \in Threads, DupCopy(t), MovingEnds(t), Turn(t)
    PROVE  IInv'
<1> DEFINE in == local[t].SrcFile
           out == local[t].DstFile
           f == table[in]
           g == table[out]
           size == local[t].Size
           left == IF pos[in] < Len(data[f]) THEN Len(data[f]) - pos[in] ELSE 0
           Limit == IF size < left THEN size ELSE left
           Overlaps == f = g /\ pos[out] + Limit > pos[in] /\ pos[out] < pos[in] + Limit
           Fails == \/ f = NONE \/ "READ" \notin mode[in]
                    \/ g = NONE \/ "WRITE" \notin mode[out] \/ "APPEND_FILE" \in mode[out]
                    \/ Overlaps
           src == arg[t][1]
           dst == arg[t][2]
<1>1. /\ pc[t] = "dupCopy"
      /\ pc' = [pc EXCEPT ![t] = "dupCloseSrc"]
      /\ UNCHANGED <<arg, held>>
  BY DEF DupCopy
<1>2. /\ in \in Fds
      /\ out \in Fds
      /\ src \in Paths
      /\ dst \in Paths
      /\ arg[t] \in Paths \X Paths \X BOOLEAN
      /\ moving[t] # <<>> => arg[t] = <<moving[t][1], moving[t][2], FALSE>>
  BY <1>1 DEF IInv, CallState, CallFits, InDup, HasDst
<1>3. \E r \in BOOLEAN, n \in Int :
        /\ local' = [local EXCEPT ![t].Result = r]
        /\ UNCHANGED <<dir, table, mode>>
        /\ \/ Fails /\ UNCHANGED <<data, pos>>
           \/ /\ ~Fails
              /\ n \in 0..Limit
              /\ r = (n = size)
              /\ data' = IF n = 0 THEN data ELSE [data EXCEPT ![g] = Copied(f, pos[in], g, pos[out], n)]
              /\ pos' = IF n = 0 THEN pos ELSE [pos EXCEPT ![in] = @ + n, ![out] = @ + n]
  <2>1. CASE Fails
    <3>1. local' = [local EXCEPT ![t].Result = (USZ_MAX = size)] /\ UNCHANGED kernel
      BY <2>1 DEF DupCopy, CopyResult
    <3>2. (USZ_MAX = size) \in BOOLEAN /\ 0 \in Int
      OBVIOUS
    <3>3. UNCHANGED <<dir, data, table, pos, mode>>
      BY <3>1 DEF kernel
    <3>4. QED
      BY <2>1, <3>1, <3>2, <3>3, Zenon
  <2>2. CASE ~Fails
    <3>1. PICK n \in 0..Limit :
            /\ local' = [local EXCEPT ![t].Result = (n = size)]
            /\ UNCHANGED <<dir, table, mode>>
            /\ data' = IF n = 0 THEN data ELSE [data EXCEPT ![g] = Copied(f, pos[in], g, pos[out], n)]
            /\ pos' = IF n = 0 THEN pos ELSE [pos EXCEPT ![in] = @ + n, ![out] = @ + n]
      BY <2>2 DEF DupCopy, CopyResult
    <3>2. (n = size) \in BOOLEAN /\ n \in Int
      OBVIOUS
    <3>3. QED
      BY <2>2, <3>1, <3>2
  <2>3. QED
    BY <2>1, <2>2
<1>4. PICK r \in BOOLEAN, n \in Int :
        /\ local' = [local EXCEPT ![t].Result = r]
        /\ UNCHANGED <<dir, table, mode>>
        /\ \/ Fails /\ UNCHANGED <<data, pos>>
           \/ /\ ~Fails
              /\ n \in 0..Limit
              /\ r = (n = size)
              /\ data' = IF n = 0 THEN data ELSE [data EXCEPT ![g] = Copied(f, pos[in], g, pos[out], n)]
              /\ pos' = IF n = 0 THEN pos ELSE [pos EXCEPT ![in] = @ + n, ![out] = @ + n]
  BY <1>3
<1>5. f \in Files \cup {NONE} /\ g \in Files \cup {NONE} /\ pos[in] \in Nat /\ pos[out] \in Nat
      /\ size \in Int
  <2>1. USZ_MAX \in Int
    BY FileHandlesAssumption DEF USZ_MAX
  <2>2. size \in Nat \cup {USZ_MAX}
    BY DEF IInv, TypeOK
  <2>3. QED
    BY <1>2, <2>1, <2>2 DEF IInv, TypeOK
<1>6. ASSUME ~Fails, n \in 0..Limit, n # 0
      PROVE  /\ f \in Files
             /\ g \in Files
             /\ n \in Nat
             /\ pos[in] + n <= Len(data[f])
  <2>1. f \in Files /\ g \in Files
    BY <1>5, <1>6
  <2>2. Len(data[f]) \in Nat
    BY <2>1 DEF IInv, TypeOK
  <2>3. left \in Nat /\ n <= left /\ n <= size /\ n \in Nat
    BY <1>5, <1>6, <2>2
  <2>4. pos[in] + n <= Len(data[f])
    BY <1>5, <1>6, <2>2, <2>3
  <2>5. QED
    BY <2>1, <2>3, <2>4
<1> HIDE DEF in, out, f, g, size, left, Limit, Overlaps, Fails, src, dst
<1>7. /\ data' \in [Files -> Seq(Byte)]
      /\ pos' \in [Fds -> Nat]
  <2>1. data \in [Files -> Seq(Byte)] /\ pos \in [Fds -> Nat]
    BY DEF IInv, TypeOK
  <2>2. CASE UNCHANGED <<data, pos>>
    BY <2>1, <2>2
  <2>3. CASE /\ ~Fails
             /\ n \in 0..Limit
             /\ n # 0
             /\ data' = [data EXCEPT ![g] = Copied(f, pos[in], g, pos[out], n)]
             /\ pos' = [pos EXCEPT ![in] = @ + n, ![out] = @ + n]
    <3>1. Copied(f, pos[in], g, pos[out], n) \in Seq(Byte) /\ n \in Nat
      BY <1>5, <1>6, <2>1, <2>3, CopiedBytes
    <3>2. data' \in [Files -> Seq(Byte)]
      BY <2>1, <2>3, <3>1
    <3>3. \A m \in Nat : m + n \in Nat
      BY <3>1
    <3>4. pos' \in [Fds -> Nat]
      BY <2>1, <2>3, <3>3
    <3>5. QED
      BY <3>2, <3>4
  <2>4. QED
    BY <1>4, <2>2, <2>3
<1>8. /\ pc'[t] = "dupCloseSrc"
      /\ local' \in [Threads -> Locals]
      /\ local'[t].SrcFile = local[t].SrcFile
      /\ local'[t].DstFile = local[t].DstFile
      /\ local'[t].Result = r
  <2>1. local \in [Threads -> Locals]
    BY DEF IInv, TypeOK, Locals
  <2>2. pc'[t] = "dupCloseSrc"
    BY <1>1 DEF IInv, TypeOK
  <2>3. \A b \in BOOLEAN : local' = [local EXCEPT ![t].Result = b] =>
            /\ local' \in [Threads -> Locals]
            /\ local'[t].SrcFile = local[t].SrcFile
            /\ local'[t].DstFile = local[t].DstFile
            /\ local'[t].Result = b
    BY <2>1, LocalAssigned
  <2>4. QED
    BY <1>4, <2>2, <2>3, Zenon
<1>9. moving' = moving
  BY <1>8 DEF MovingEnds, IInv, TypeOK
<1>10. TypeOK'
  BY <1>1, <1>4, <1>7, <1>8, <1>9 DEF IInv, TypeOK, Turn, InDup, Locals
<1>11. StepOf(t)
  BY <1>1, <1>4, <1>9 DEF StepOf, IInv, TypeOK
<1>12. KeepsOwners(t)
  BY <1>1, <1>4, <1>8 DEF KeepsOwners, Owns, OpenedByDup
<1>13. CallFits(t)'
  BY <1>1, <1>2, <1>8, <1>9 DEF CallFits, InDup, HasDst, in, out
\* Nobody touched the two files since they were opened.
<1>14. ASSUME alone'[t]
       PROVE  /\ ~Fails
              /\ dir[src] # NONE /\ dir[dst] # NONE /\ dir[src] \in Files /\ dir[dst] \in Files
              /\ f = dir[src] /\ g = dir[dst]
              /\ data[g] = <<>>
              /\ pos[in] = 0 /\ pos[out] = 0
              /\ size = Len(data[f])
              /\ Limit = size
  <2>1. DupProgress(t)
    BY <1>1, <1>14, StillAlone DEF InDup
  <2>2. /\ dir[src] # NONE /\ dir[dst] # NONE
        /\ f = dir[src] /\ g = dir[dst]
        /\ data[g] = <<>>
        /\ pos[in] = 0 /\ pos[out] = 0
        /\ mode[in] = {"READ"} /\ mode[out] = {"WRITE"}
        /\ size = Len(data[f])
    BY <1>1, <2>1 DEF DupProgress, src, dst, f, g, in, out, size
  <2>3. dir[src] \in Files /\ dir[dst] \in Files /\ size \in Nat
    BY <1>2, <2>2 DEF IInv, TypeOK
  <2>4. ~Fails
    <3>1. f = g => Limit = 0
      BY <2>2, <2>3 DEF Limit, left
    <3>2. QED
      BY <2>2, <3>1 DEF Fails, Overlaps
  <2>5. Limit = size
    BY <2>2, <2>3 DEF Limit, left
  <2>6. QED
    BY <2>2, <2>3, <2>4, <2>5
<1>15. ASSUME alone'[t]
       PROVE  data'[f] = data[f] /\ (r => data'[g] = data'[f])
  <2>1. data \in [Files -> Seq(Byte)] /\ data[f] \in Seq(Byte)
    BY <1>14, <1>15 DEF IInv, TypeOK
  <2>2. CASE n = 0
    <3>1. data' = data /\ (r => Len(data[f]) = 0)
      BY <1>4, <1>14, <1>15, <2>2
    <3>2. QED
      BY <1>14, <1>15, <2>1, <3>1
  <2>3. CASE n # 0
    <3>1. /\ n \in 0..Limit
          /\ r = (n = size)
          /\ data' = [data EXCEPT ![g] = Copied(f, 0, g, 0, n)]
      BY <1>4, <1>14, <1>15, <2>3
    <3>2. f \in Files /\ g \in Files /\ f # g /\ n \in Nat /\ 0 + n <= Len(data[f])
      <4>1. f \in Files /\ g \in Files /\ n \in Nat /\ 0 + n <= Len(data[f])
        BY <1>6, <1>14, <1>15, <2>3, <3>1
      <4>2. Len(data[f]) # 0 /\ data[g] = <<>>
        BY <1>14, <1>15, <2>3, <4>1
      <4>3. QED
        BY <4>1, <4>2
    <3>3. n = Len(data[f]) => Copied(f, 0, g, 0, n) = data[f]
      BY <1>14, <1>15, <2>1, <3>2, CopiedBytes
    <3>4. QED
      BY <1>14, <1>15, <2>1, <3>1, <3>2, <3>3
  <2>4. QED
    BY <2>2, <2>3
<1>16. ASSUME alone'[t]
       PROVE  DupProgress(t)'
  BY <1>1, <1>4, <1>8, <1>14, <1>15, <1>16 DEF DupProgress, IsCopy, src, dst
<1>17. ASSUME alone'[t], moving'[t] # <<>>
       PROVE  MoveProgress(t)'
  <2>0. arg[t] = <<moving[t][1], moving[t][2], FALSE>>
    BY <1>2, <1>9, <1>17
  <2>1. MoveProgress(t) /\ moving[t][1] = src
    <3>1. MoveProgress(t)
      BY <1>1, <1>9, <1>17, StillAlone
    <3>2. QED
      BY <2>0, <3>1 DEF src
  <2>2. data'[dir[src]] = data[dir[src]]
    BY <1>14, <1>15, <1>17
  <2>3. QED
    BY <1>1, <1>4, <1>8, <1>9, <2>1, <2>2 DEF MoveProgress, HasDst
<1>18. QED
  BY <1>10, <1>11, <1>12, <1>13, <1>16, <1>17, PreservedByThread

(* The first close of DuplicateFile closes its source.                      *)
LEMMA DupCloseSrcPreserves ==
    ASSUME IInv, NEW t \in Threads, DupCloseSrc(t), MovingEnds(t), Turn(t)
    PROVE  IInv'
<1>1. /\ pc[t] = "dupCloseSrc"
      /\ Close(local[t].SrcFile)
      /\ pc' = [pc EXCEPT ![t] = "dupCloseDst"]
      /\ UNCHANGED <<arg, local, held>>
  BY DEF DupCloseSrc
<1>2. /\ KernelOK'
      /\ dir' = dir
      /\ table' = [table EXCEPT ![local[t].SrcFile] = NONE]
      /\ \A p \in Paths : dir[p] # NONE => data'[dir[p]] = data[dir[p]]
  BY <1>1, KernelOfTypeOK, CloseKernel
<1>3. pc'[t] = "dupCloseDst"
  BY <1>1 DEF IInv, TypeOK
<1>4. moving' = moving
  BY <1>3 DEF MovingEnds, IInv, TypeOK
<1>5. TypeOK'
  BY <1>1, <1>2, <1>4 DEF KernelOK, IInv, TypeOK, Turn, InDup
<1>6. StepOf(t)
  BY <1>1, <1>4 DEF StepOf, IInv, TypeOK
<1>7. KeepsOwners(t)
  BY <1>1, <1>2, <1>3 DEF KeepsOwners, Owns, OpenedByDup, IInv, TypeOK
<1>8. CallFits(t)'
  BY <1>1, <1>3, <1>4 DEF IInv, CallState, CallFits, InDup, HasDst
<1>9. arg[t][1] \in Paths /\ arg[t][2] \in Paths
  BY <1>1 DEF IInv, CallState, CallFits, InDup
<1>10. alone'[t] => DupProgress(t)'
  BY <1>1, <1>2, <1>3, <1>9, StillAlone DEF DupProgress, IsCopy, InDup
<1>11. ASSUME alone'[t], moving'[t] # <<>>
       PROVE  MoveProgress(t)'
  <2>1. MoveProgress(t)
    BY <1>1, <1>4, <1>11, StillAlone
  <2>2. moving[t][1] \in Paths
    BY <1>4, <1>11 DEF IInv, TypeOK
  <2>3. QED
    BY <1>1, <1>2, <1>3, <1>4, <2>1, <2>2 DEF MoveProgress, HasDst
<1>12. QED
  BY <1>5, <1>6, <1>7, <1>8, <1>10, <1>11, PreservedByThread

(* The second close of DuplicateFile closes its destination.                *)
LEMMA DupCloseDstPreserves ==
    ASSUME IInv, NEW t \in Threads, DupCloseDst(t), MovingEnds(t), Turn(t)
    PROVE  IInv'
<1>1. /\ pc[t] = "dupCloseDst"
      /\ Close(local[t].DstFile)
      /\ pc' = [pc EXCEPT ![t] = "dupClose"]
      /\ UNCHANGED <<arg, local, held>>
  BY DEF DupCloseDst
<1>2. /\ KernelOK'
      /\ dir' = dir
      /\ table' = [table EXCEPT ![local[t].DstFile] = NONE]
      /\ \A p \in Paths : dir[p] # NONE => data'[dir[p]] = data[dir[p]]
  BY <1>1, KernelOfTypeOK, CloseKernel
<1>3. pc'[t] = "dupClose"
  BY <1>1 DEF IInv, TypeOK
<1>4. moving' = moving
  BY <1>3 DEF MovingEnds, IInv, TypeOK
<1>5. TypeOK'
  BY <1>1, <1>2, <1>4 DEF KernelOK, IInv, TypeOK, Turn, InDup
<1>6. StepOf(t)
  BY <1>1, <1>4 DEF StepOf, IInv, TypeOK
<1>7. KeepsOwners(t)
  BY <1>1, <1>2, <1>3 DEF KeepsOwners, Owns, OpenedByDup, IInv, TypeOK
<1>8. CallFits(t)'
  BY <1>1, <1>3, <1>4 DEF IInv, CallState, CallFits, InDup, HasDst
<1>9. arg[t][1] \in Paths /\ arg[t][2] \in Paths
  BY <1>1 DEF IInv, CallState, CallFits, InDup
<1>10. alone'[t] => DupProgress(t)'
  BY <1>1, <1>2, <1>3, <1>9, StillAlone DEF DupProgress, IsCopy, InDup
<1>11. ASSUME alone'[t], moving'[t] # <<>>
       PROVE  MoveProgress(t)'
  <2>1. MoveProgress(t)
    BY <1>1, <1>4, <1>11, StillAlone
  <2>2. moving[t][1] \in Paths
    BY <1>4, <1>11 DEF IInv, TypeOK
  <2>3. QED
    BY <1>1, <1>2, <1>3, <1>4, <2>1, <2>2 DEF MoveProgress, HasDst
<1>12. QED
  BY <1>5, <1>6, <1>7, <1>8, <1>10, <1>11, PreservedByThread

(* The close that ends the copy: a move goes on to remove its source only when
   the copy succeeded.                                                      *)
LEMMA DupClosePreserves ==
    ASSUME IInv, NEW t \in Threads, DupClose(t), MovingEnds(t), Turn(t)
    PROVE  IInv'
<1>1. /\ pc[t] = "dupClose"
      /\ Close(local[t].SrcFile)
      /\ local' = [local EXCEPT ![t] = NoLocal]
      /\ held' = held
      /\ \/ /\ moving[t] # <<>> /\ local[t].Result
            /\ pc' = [pc EXCEPT ![t] = "moveRemove"]
            /\ arg' = arg
         \/ /\ pc' = [pc EXCEPT ![t] = "idle"]
            /\ arg' = [arg EXCEPT ![t] = NoArg]
  BY DEF DupClose, Duplicated
<1>2. /\ KernelOK'
      /\ dir' = dir
      /\ table' = [table EXCEPT ![local[t].SrcFile] = NONE]
      /\ \A p \in Paths : dir[p] # NONE => data'[dir[p]] = data[dir[p]]
  BY <1>1, KernelOfTypeOK, CloseKernel
<1>3. \/ pc'[t] = "moveRemove" /\ moving[t] # <<>> /\ local[t].Result /\ arg' = arg
      \/ pc'[t] = "idle"
  BY <1>1 DEF IInv, TypeOK
<1>4. /\ moving'[t] = IF pc'[t] = "idle" THEN <<>> ELSE moving[t]
      /\ \A u \in Threads : u # t => moving'[u] = moving[u]
      /\ moving' \in [Threads -> {<<>>} \cup (Paths \X Paths \X Seq(Byte))]
  BY DEF MovingEnds, IInv, TypeOK
<1>5. TypeOK'
  <2>1. local' \in [Threads -> Locals] /\ NoLocal \in Locals
    BY <1>1 DEF IInv, TypeOK, Locals, NoLocal, Handle
  <2>2. pc' \in [Threads -> {"idle", "forceOpen", "moveRemove"} \cup InDup]
    BY <1>1 DEF IInv, TypeOK
  <2>3. arg' \in [Threads -> {NoArg} \cup (Paths \X Mode) \cup (Paths \X Paths \X BOOLEAN)]
    BY <1>1 DEF IInv, TypeOK
  <2>4. QED
    BY <1>1, <1>2, <1>4, <2>1, <2>2, <2>3 DEF KernelOK, IInv, TypeOK, Turn, Locals
<1>6. StepOf(t)
  BY <1>1, <1>4 DEF StepOf, IInv, TypeOK
<1>7. KeepsOwners(t)
  BY <1>1, <1>2, <1>3 DEF KeepsOwners, Owns, OpenedByDup, IInv, TypeOK
<1>8. CallFits(t)'
  <2>1. local'[t] = NoLocal
    BY <1>1 DEF IInv, TypeOK
  <2>2. CASE pc'[t] = "idle"
    BY <1>4, <2>1, <2>2 DEF CallFits, InDup, HasDst
  <2>3. CASE pc'[t] = "moveRemove" /\ arg' = arg
    BY <1>1, <1>4, <2>1, <2>3 DEF IInv, CallState, CallFits, InDup, HasDst
  <2>4. QED
    BY <1>3, <2>2, <2>3
<1>9. pc'[t] \notin InDup
  BY <1>3 DEF InDup
<1>10. ASSUME alone'[t], moving'[t] # <<>>
       PROVE  MoveProgress(t)'
  <2>1. pc'[t] = "moveRemove" /\ moving'[t] = moving[t] /\ moving[t] # <<>> /\ local[t].Result
    BY <1>3, <1>4, <1>10
  <2>2. /\ MoveProgress(t)
        /\ DupProgress(t)
    BY <1>1, <1>10, <2>1, StillAlone DEF InDup
  <2>3. arg[t] = <<moving[t][1], moving[t][2], FALSE>>
    BY <2>1 DEF IInv, CallState, CallFits
  <2>4. IsCopy(moving[t][1], moving[t][2])
    BY <2>1, <2>2, <2>3 DEF DupProgress
  <2>5. moving[t][1] \in Paths /\ moving[t][2] \in Paths
    BY <2>1 DEF IInv, TypeOK
  <2>6. IsCopy(moving[t][1], moving[t][2])'
    BY <1>2, <2>1, <2>4, <2>5 DEF IsCopy
  <2>7. QED
    BY <1>2, <2>1, <2>2, <2>5, <2>6 DEF MoveProgress
<1>11. QED
  BY <1>5, <1>6, <1>7, <1>8, <1>9, <1>10, PreservedByThread

-----------------------------------------------------------------------------
(* Moves.                                                                   *)

(* The last step of a move removes the source, whose bytes are at the
   destination.                                                             *)
LEMMA MoveRemovePreserves ==
    ASSUME IInv, NEW t \in Threads, MoveRemove(t), MovingEnds(t), Turn(t)
    PROVE  IInv'
<1>1. /\ pc[t] = "moveRemove"
      /\ dir' = [dir EXCEPT ![arg[t][1]] = NONE]
      /\ FreeUnreachable
      /\ pc' = [pc EXCEPT ![t] = "idle"]
      /\ arg' = [arg EXCEPT ![t] = NoArg]
      /\ UNCHANGED <<table, pos, mode, local, held>>
  BY DEF MoveRemove
<1>2. dir' \in [Paths -> Files \cup {NONE}]
  BY <1>1 DEF IInv, TypeOK
<1>3. data' \in [Files -> Seq(Byte)]
  BY <1>1, <1>2, KernelOfTypeOK, FreeUnreachableKeeps
<1>4. pc'[t] = "idle" /\ local[t] = NoLocal
  BY <1>1 DEF IInv, TypeOK, CallState, CallFits, InDup
<1>5. moving' = [moving EXCEPT ![t] = <<>>]
  BY <1>4 DEF MovingEnds
<1>6. TypeOK'
  BY <1>1, <1>2, <1>3, <1>5 DEF IInv, TypeOK, Turn
<1>7. StepOf(t)
  BY <1>1, <1>5 DEF StepOf, IInv, TypeOK
<1>8. KeepsOwners(t)
  BY <1>1, <1>4 DEF KeepsOwners, Owns, OpenedByDup
<1>9. CallFits(t)'
  BY <1>1, <1>4, <1>5 DEF IInv, TypeOK, CallFits, InDup, HasDst
<1>10. QED
  BY <1>4, <1>6, <1>7, <1>8, <1>9, PreservedOutsideDup DEF InDup

(* A move within a device, or one whose source is missing, is one step.     *)
LEMMA ChangeFileLocationPreserves ==
    ASSUME IInv, NEW t \in Threads, NEW src \in Paths, NEW dst \in Paths,
           ChangeFileLocation(t, src, dst), Moving(t, src, dst), Turn(t)
    PROVE  IInv'
<1>1. pc[t] = "idle" /\ moving[t] = <<>>
  BY DEF ChangeFileLocation, IInv, CallState, CallFits, InDup
<1>2. CASE dir[src] # NONE /\ <<src, dst>> \in Apart
  BY <1>1, <1>2, DupOpenPreserves DEF ChangeFileLocation
<1>3. CASE ~(dir[src] # NONE /\ <<src, dst>> \in Apart)
  <2>1. /\ IF dir[src] # NONE THEN Rename(src, dst) ELSE UNCHANGED kernel
        /\ UNCHANGED <<pc, arg, local, held>>
    BY <1>3 DEF ChangeFileLocation
  <2>2. moving' = moving
    BY <1>1, <2>1 DEF Moving, IInv, TypeOK
  <2>3. KernelOK' /\ table' = table
    <3>1. CASE Rename(src, dst)
      <4>1. dir' \in [Paths -> Files \cup {NONE}] /\ FreeUnreachable /\ UNCHANGED <<table, pos, mode>>
        BY <3>1, KernelOfTypeOK DEF Rename, KernelOK
      <4>2. data' \in [Files -> Seq(Byte)]
        BY <4>1, KernelOfTypeOK, FreeUnreachableKeeps
      <4>3. QED
        BY <4>1, <4>2, KernelOfTypeOK DEF KernelOK
    <3>2. CASE UNCHANGED kernel
      BY <3>2, KernelOfTypeOK DEF kernel, KernelOK
    <3>3. QED
      BY <2>1, <3>1, <3>2
  <2>4. TypeOK'
    BY <2>1, <2>2, <2>3 DEF KernelOK, IInv, TypeOK, Turn
  <2>5. StepOf(t) /\ KeepsOwners(t)
    BY <2>1, <2>2, <2>3 DEF StepOf, KeepsOwners, Owns, OpenedByDup
  <2>6. CallFits(t)'
    BY <2>1, <2>2 DEF IInv, CallState, CallFits
  <2>7. QED
    BY <1>1, <2>1, <2>4, <2>5, <2>6, PreservedOutsideDup DEF InDup
<1>4. QED
  BY <1>2, <1>3

-----------------------------------------------------------------------------
(* The theorems.                                                            *)

(* Every step of every call preserves the invariant.                        *)
LEMMA StepPreserves ==
    ASSUME IInv, [Next]_vars
    PROVE  IInv'
<1>1. CASE UNCHANGED vars
  BY ZenonT(60), <1>1 DEF vars, IInv, TypeOK, CallState, CallFits, NoLeak, Owns, OpenedByDup, AloneProgress,
             DupProgress, MoveProgress, IsCopy
<1>2. ASSUME NEW t \in Threads, Step(t), Turn(t)
      PROVE  IInv'
  <2>1. /\ PathsOf[t] \subseteq Paths /\ FlagSets \subseteq Mode
        /\ \A job \in Jobs[t] \cup Moves[t] : job[1] \in Paths /\ job[2] \in Paths
    BY FileHandlesAssumption
  <2>2. CASE /\ \/ \E p \in PathsOf[t], Flags \in FlagSets, force \in BOOLEAN :
                      CreateNewFile(t, p, Flags, force) \/ OpenFileHandle(t, p, Flags, force)
                \/ \E p \in PathsOf[t] : RemoveFile(t, p)
                \/ ForceOpen(t)
                \/ \E fd \in Fds : CloseFileHandle(t, fd)
                \/ \E job \in Jobs[t], over \in BOOLEAN : DuplicateFile(t, job[1], job[2], over)
             /\ UNCHANGED moving
    <3>1. CASE \E p \in PathsOf[t], Flags \in FlagSets, force \in BOOLEAN :
                  CreateNewFile(t, p, Flags, force)
      BY <1>2, <2>1, <2>2, <3>1, CreateNewFilePreserves
    <3>2. CASE \E p \in PathsOf[t], Flags \in FlagSets, force \in BOOLEAN :
                  OpenFileHandle(t, p, Flags, force)
      BY <1>2, <2>1, <2>2, <3>2, OpenFileHandlePreserves
    <3>3. CASE \E p \in PathsOf[t] : RemoveFile(t, p)
      BY <1>2, <2>1, <2>2, <3>3, RemoveFilePreserves
    <3>4. CASE ForceOpen(t)
      BY <1>2, <2>2, <3>4, ForceOpenPreserves
    <3>5. CASE \E fd \in Fds : CloseFileHandle(t, fd)
      BY <1>2, <2>2, <3>5, CloseFileHandlePreserves
    <3>6. CASE \E job \in Jobs[t], over \in BOOLEAN : DuplicateFile(t, job[1], job[2], over)
      <4>1. PICK job \in Jobs[t], over \in BOOLEAN : DuplicateFile(t, job[1], job[2], over)
        BY <3>6
      <4>2. pc[t] = "idle" /\ DupOpen(t, job[1], job[2], over)
        BY <4>1 DEF DuplicateFile
      <4>3. job[1] \in Paths /\ job[2] \in Paths
        BY <2>1
      <4>4. QED
        BY <1>2, <2>2, <4>2, <4>3, DupOpenPreserves
    <3>7. QED
      BY <2>2, <3>1, <3>2, <3>3, <3>4, <3>5, <3>6
  <2>3. CASE \E job \in Moves[t] : ChangeFileLocation(t, job[1], job[2]) /\ Moving(t, job[1], job[2])
    BY <1>2, <2>1, <2>3, ChangeFileLocationPreserves
  <2>4. CASE (DupStep(t) \/ MoveRemove(t)) /\ MovingEnds(t)
    BY <1>2, <2>4, DupCreatePreserves, DupSizePreserves, DupCopyPreserves, DupCloseSrcPreserves,
       DupCloseDstPreserves, DupClosePreserves, MoveRemovePreserves DEF DupStep
  <2>5. QED
    BY <1>2, <2>2, <2>3, <2>4 DEF Step, MovingEnds
<1>3. QED
  BY <1>1, <1>2 DEF Next, Turn

(* The invariant of the file handles holds throughout, whatever the threads
   call and however their system calls interleave.                          *)
THEOREM Invariant == Spec => []IInv
<1>1. Init => IInv
  BY InitEstablishes
<1>2. IInv /\ [Next]_vars => IInv'
  BY StepPreserves
<1>3. QED
  BY <1>1, <1>2, PTL DEF Spec

(* No handle is lost: every path through CreateNewFile, OpenFileHandle and
   DuplicateFile hands each descriptor it opens to the caller or closes it. *)
THEOREM HandlesNeverLost == Spec => []NoLeak
<1>1. IInv => NoLeak
  BY DEF IInv
<1>2. QED
  BY <1>1, Invariant, PTL

(* A DuplicateFile that nobody disturbs and that answers true has made DstPath
   a copy of SrcPath.                                                       *)
THEOREM CopyIsComplete == Spec => DuplicateCopiesAlone
<1>1. ASSUME IInv, NEW t \in Threads, DuplicateSucceeds(t), alone[t]
      PROVE  IsCopy(arg[t][1], arg[t][2])
  <2>1. pc[t] \in InDup /\ local[t].Result
    BY <1>1 DEF DuplicateSucceeds, InDup
  <2>2. DupProgress(t)
    BY <1>1, <2>1 DEF IInv, AloneProgress
  <2>3. QED
    BY <2>1, <2>2 DEF DupProgress
<1>2. IInv /\ [Next]_vars =>
        [\A t \in Threads : DuplicateSucceeds(t) /\ alone[t] => IsCopy(arg[t][1], arg[t][2])]_vars
  BY <1>1
<1>3. QED
  BY <1>2, Invariant, PTL DEF Spec, DuplicateCopiesAlone

(* A ChangeFileLocation across devices that nobody disturbs has its bytes at
   one of the two paths after each of its steps: it removes the source only
   after a complete copy, and a move onto itself never removes anything.    *)
LEMMA MoveStep ==
    ASSUME IInv, IInv', Next, NEW t \in Threads, moving[t] # <<>>, alone[t], alone'[t],
           NEW m1, NEW m2, NEW bytes, m1 = moving[t][1], m2 = moving[t][2], bytes = moving[t][3]
    PROVE  /\ \/ dir'[m1] # NONE /\ data'[dir'[m1]] = bytes
              \/ dir'[m2] # NONE /\ data'[dir'[m2]] = bytes
           /\ MoveSucceeds(t) => /\ dir'[m2] # NONE /\ data'[dir'[m2]] = bytes
                                 /\ dir'[m1] = NONE
<1>1. /\ pc[t] \in InDup \cup {"moveRemove"}
      /\ arg[t] = <<m1, m2, FALSE>>
      /\ m1 \in Paths /\ m2 \in Paths
  BY DEF IInv, TypeOK, CallState, CallFits
<1>2. /\ dir[m1] # NONE
      /\ data[dir[m1]] = bytes
      /\ pc[t] = "moveRemove" => m1 # m2 /\ IsCopy(m1, m2)
  BY DEF IInv, AloneProgress, MoveProgress
<1>3. pc[t] # "idle" /\ pc[t] # "forceOpen"
  BY <1>1 DEF InDup
<1>4. Step(t) /\ Turn(t)
  BY DEF Next, Turn
<1>5. (DupStep(t) \/ MoveRemove(t)) /\ MovingEnds(t)
  BY <1>3, <1>4 DEF Step, MovingEnds, CreateNewFile, OpenFileHandle, RemoveFile, ForceOpen,
                    CloseFileHandle, DuplicateFile, ChangeFileLocation
<1>6. CASE pc'[t] # "idle"
  <2>1. moving'[t] = moving[t]
    BY <1>5, <1>6 DEF MovingEnds, IInv, TypeOK
  <2>2. MoveProgress(t)'
    BY <2>1 DEF IInv, AloneProgress
  <2>3. QED
    BY <1>6, <2>1, <2>2 DEF MoveProgress, MoveSucceeds
<1>7. CASE pc'[t] = "idle"
  <2>1. DupClose(t) \/ MoveRemove(t)
    BY <1>5, <1>7 DEF DupStep, DupCreate, DupNotCreated, DupSize, DupCopy, DupCloseSrc,
                      DupCloseDst, IInv, TypeOK
  <2>2. CASE DupClose(t)
    <3>1. pc[t] = "dupClose" /\ Close(local[t].SrcFile)
      BY <2>2 DEF DupClose
    <3>2. dir' = dir /\ data'[dir[m1]] = data[dir[m1]]
      BY <1>1, <1>2, <3>1, KernelOfTypeOK, CloseKernel
    <3>3. QED
      BY <1>2, <3>1, <3>2 DEF MoveSucceeds
  <2>3. CASE MoveRemove(t)
    <3>1. /\ pc[t] = "moveRemove"
          /\ dir' = [dir EXCEPT ![m1] = NONE]
          /\ FreeUnreachable
      BY <1>1, <2>3 DEF MoveRemove
    <3>2. /\ dir' \in [Paths -> Files \cup {NONE}]
          /\ dir'[m1] = NONE
          /\ dir'[m2] = dir[m2]
      BY <1>1, <1>2, <3>1 DEF IInv, TypeOK
    <3>3. dir[m2] # NONE /\ data[dir[m2]] = bytes
      BY <1>2, <3>1 DEF IsCopy
    <3>4. data'[dir'[m2]] = data[dir'[m2]]
      BY <1>1, <3>1, <3>2, <3>3, KernelOfTypeOK, FreeUnreachableKeeps
    <3>5. QED
      BY <3>2, <3>3, <3>4
  <2>4. QED
    BY <2>1, <2>2, <2>3
<1>8. QED
  BY <1>6, <1>7

(* A move across devices that nobody disturbs never loses what it moves.    *)
THEOREM MoveIsSafe == Spec => MoveLosesNothing
<1> DEFINE At(p, t) == dir'[p] # NONE /\ data'[dir'[p]] = moving[t][3]
           Safe(t) == moving[t] # <<>> /\ alone[t] /\ alone'[t] =>
                        /\ At(moving[t][1], t) \/ At(moving[t][2], t)
                        /\ MoveSucceeds(t) => At(moving[t][2], t) /\ dir'[moving[t][1]] = NONE
<1>1. IInv /\ IInv' /\ Next => \A t \in Threads : Safe(t)
  BY MoveStep
<1>2. IInv /\ IInv' /\ [Next]_vars => [\A t \in Threads : Safe(t)]_vars
  BY <1>1
<1>3. MoveLosesNothing <=> [][\A t \in Threads : Safe(t)]_vars
  BY DEF MoveLosesNothing
<1> HIDE DEF Safe
<1>4. QED
  BY <1>2, <1>3, Invariant, PTL DEF Spec
=============================================================================
