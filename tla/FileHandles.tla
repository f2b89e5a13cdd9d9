---------------------------- MODULE FileHandles ----------------------------
(***************************************************************************)
(* File handles of tinybase-platform-linux.c: CreateNewFile,               *)
(* OpenFileHandle, CloseFileHandle, RemoveFile, DuplicateFile and          *)
(* ChangeFileLocation, called by the threads of one process.               *)
(*                                                                         *)
(* One step is one system call.  External: the directory, the files and    *)
(* the table of file descriptors that the threads share, of which open     *)
(* takes the lowest free entry.  Paths are those that open is given: see   *)
(* Paths for the renaming of HIDDEN_FILE.  Errors other than a missing or  *)
(* existing path, a full table, a descriptor that is closed or was opened  *)
(* for something else, and a short copy are left out.                      *)
(***************************************************************************)
EXTENDS Naturals, Sequences, FiniteSets

CONSTANTS
    Threads,
    Paths,
    PathsOf,    \* the paths each thread opens, creates and removes
    FlagSets,   \* the flags it opens and creates them with
    Jobs,       \* the <<SrcPath, DstPath>> each thread gives DuplicateFile
    Moves,      \* the <<SrcPath, DstPath>> each thread gives ChangeFileLocation
    Apart,      \* the pairs of paths that are on different devices
    MaxFile,    \* bound: inodes are 1..MaxFile, enough for every path and descriptor
    UszBits,    \* the width of usz
    MaxFd,      \* bound: descriptors are 1..MaxFd
    Start,      \* the contents of file k at first
    StartPath,  \* the path of file k at first
    Byte,       \* what a byte may be
    ZERO        \* the byte in a hole

Mode == SUBSET {"READ", "WRITE", "APPEND_FILE"}

ASSUME FileHandlesAssumption ==
    /\ IsFiniteSet(Paths)
    /\ PathsOf \in [Threads -> SUBSET Paths]
    /\ FlagSets \subseteq Mode
    /\ Jobs \in [Threads -> SUBSET (Paths \X Paths)]
    /\ Moves \in [Threads -> SUBSET (Paths \X Paths)]
    /\ Apart \subseteq Paths \X Paths
    /\ UszBits \in Nat
    /\ MaxFd \in Nat
    /\ MaxFile \in Nat
    /\ MaxFile >= Cardinality(Paths) + MaxFd
    /\ StartPath \in Seq(Paths)
    /\ \A i, j \in DOMAIN StartPath : StartPath[i] = StartPath[j] => i = j
    /\ ZERO \in Byte
    /\ Start \in Seq(Seq(Byte))
    /\ Len(Start) = Len(StartPath)

Fds == 1..MaxFd
Files == 1..MaxFile
NONE == 0               \* no file
INVALID_FILE == 0
USZ_MAX == 2 ^ UszBits - 1    \* also what -1 is, compared with a usz

VARIABLES
    dir,        \* path -> file or NONE
    data,       \* file -> its bytes
    table,      \* descriptor -> open file or NONE
    pos,        \* descriptor -> file offset
    mode,       \* descriptor -> what it was opened for
    pc,         \* thread -> next system call of the function it is in
    arg,        \* thread -> arguments of that function
    local,      \* thread -> SrcFile, DstFile, Size, Result of DuplicateFile
    held,       \* thread -> handles its calls returned and it has not closed
    moving,     \* history: <<SrcPath, DstPath, bytes>> of a ChangeFileLocation, or <<>>
    alone       \* history: threads in a call during which nobody else did anything

vars == <<dir, data, table, pos, mode, pc, arg, local, held, moving, alone>>

kernel == <<dir, data, table, pos, mode>>

NoArg == <<>>
NoLocal == [SrcFile |-> INVALID_FILE, DstFile |-> INVALID_FILE, Size |-> 0, Result |-> FALSE]

Init ==
    /\ dir = [p \in Paths |-> IF \E f \in DOMAIN StartPath : StartPath[f] = p
                              THEN CHOOSE f \in DOMAIN StartPath : StartPath[f] = p
                              ELSE NONE]
    /\ data = [f \in Files |-> IF f \in DOMAIN Start THEN Start[f] ELSE <<>>]
    /\ table = [fd \in Fds |-> NONE]
    /\ pos = [fd \in Fds |-> 0]
    /\ mode = [fd \in Fds |-> {}]
    /\ pc = [t \in Threads |-> "idle"]
    /\ arg = [t \in Threads |-> NoArg]
    /\ local = [t \in Threads |-> NoLocal]
    /\ held = [t \in Threads |-> {}]
    /\ moving = [t \in Threads |-> <<>>]
    /\ alone = [t \in Threads |-> FALSE]

-----------------------------------------------------------------------------
(* The kernel.                                                              *)

FreeFds == {fd \in Fds : table[fd] = NONE}
LowestFree == CHOOSE fd \in FreeFds : \A other \in FreeFds : fd <= other

\* O_RDONLY is what is left when the flags ask for neither.
OpenOpts(Flags) == IF "WRITE" \in Flags THEN Flags ELSE Flags \cup {"READ"}

\* open of an existing file without O_CREAT.
CanOpen(p) == dir[p] # NONE /\ FreeFds # {}
OpenExisting(p, Flags) ==
    /\ table' = [table EXCEPT ![LowestFree] = dir[p]]
    /\ pos' = [pos EXCEPT ![LowestFree] = 0]
    /\ mode' = [mode EXCEPT ![LowestFree] = OpenOpts(Flags)]
    /\ UNCHANGED <<dir, data>>

\* open with O_CREAT, and O_TRUNC for FORCE_CREATE or else O_EXCL.
CanCreate(p, force) == (force \/ dir[p] = NONE) /\ FreeFds # {}
Fresh(f) == /\ \A p \in Paths : dir[p] # f
            /\ \A fd \in Fds : table[fd] # f
FreshFile == CHOOSE f \in Files : Fresh(f) /\ \A g \in Files : Fresh(g) => f <= g

OpenCreating(p, Flags) ==
    LET f == IF dir[p] # NONE THEN dir[p] ELSE FreshFile
    IN /\ dir' = [dir EXCEPT ![p] = f]
       /\ data' = [data EXCEPT ![f] = <<>>]
       /\ table' = [table EXCEPT ![LowestFree] = f]
       /\ pos' = [pos EXCEPT ![LowestFree] = 0]
       /\ mode' = [mode EXCEPT ![LowestFree] = OpenOpts(Flags)]

\* A file that has lost its last path and descriptor is gone.
FreeUnreachable ==
    data' = [f \in Files |-> IF \/ \E p \in Paths : dir'[p] = f
                               \/ \E fd \in Fds : table'[fd] = f
                            THEN data[f] ELSE <<>>]

\* close: EBADF on a free descriptor changes nothing.
Close(fd) ==
    /\ table' = [table EXCEPT ![fd] = NONE]
    /\ pos' = [pos EXCEPT ![fd] = 0]
    /\ mode' = [mode EXCEPT ![fd] = {}]
    /\ UNCHANGED dir
    /\ FreeUnreachable

\* n bytes of file f, from offset "from" on, written over file g at "to".
Copied(f, from, g, to, n) ==
    [k \in 1..(IF to + n > Len(data[g]) THEN to + n ELSE Len(data[g])) |->
        IF k \in (to + 1)..(to + n) THEN data[f][from + k - to]
        ELSE IF k <= Len(data[g]) THEN data[g][k] ELSE ZERO]

-----------------------------------------------------------------------------
\* Thread t is given the handle that the next open takes.
TakeHandle(t) ==
    held' = [held EXCEPT ![t] = @ \cup {LowestFree}]

\* CreateNewFile(Filename, Flags), force for FORCE_CREATE.
CreateNewFile(t, p, Flags, force) ==
    /\ pc[t] = "idle"
    /\ IF CanCreate(p, force)
       THEN OpenCreating(p, Flags) /\ TakeHandle(t)
       ELSE UNCHANGED <<kernel, held>>
    /\ UNCHANGED <<pc, arg, local>>

\* OpenFileHandle(Filename, Flags), force for FORCE_OPEN.
OpenFileHandle(t, p, Flags, force) ==
    /\ pc[t] = "idle"
    /\ IF CanOpen(p)
       THEN OpenExisting(p, Flags) /\ TakeHandle(t)
       ELSE UNCHANGED <<kernel, held>>
    /\ IF ~CanOpen(p) /\ force
       THEN /\ pc' = [pc EXCEPT ![t] = "forceOpen"]
            /\ arg' = [arg EXCEPT ![t] = <<p, Flags>>]
       ELSE UNCHANGED <<pc, arg>>
    /\ UNCHANGED local

\* The second _NewFile of OpenFileHandle, without FORCE_CREATE.
ForceOpen(t) ==
    /\ pc[t] = "forceOpen"
    /\ LET p == arg[t][1]
       IN /\ IF CanCreate(p, FALSE)
             THEN OpenCreating(p, arg[t][2]) /\ TakeHandle(t)
             ELSE UNCHANGED <<kernel, held>>
    /\ pc' = [pc EXCEPT ![t] = "idle"]
    /\ arg' = [arg EXCEPT ![t] = NoArg]
    /\ UNCHANGED local

\* CloseFileHandle(File)
CloseFileHandle(t, fd) ==
    /\ pc[t] = "idle"
    /\ fd \in held[t]
    /\ Close(fd)
    /\ held' = [held EXCEPT ![t] = @ \ {fd}]
    /\ UNCHANGED <<pc, arg, local>>

\* RemoveFile(Filename)
RemoveFile(t, p) ==
    /\ pc[t] = "idle"
    /\ dir' = [dir EXCEPT ![p] = NONE]
    /\ UNCHANGED table
    /\ FreeUnreachable
    /\ UNCHANGED <<pos, mode, pc, arg, local, held>>

-----------------------------------------------------------------------------
(* DuplicateFile(SrcPath, DstPath, OverwriteIfExists).                      *)

\* The first step: SrcFile is opened, or the function returns.
DupOpen(t, src, dst, over) ==
    /\ IF CanOpen(src)
       THEN /\ OpenExisting(src, {"READ"})
            /\ local' = [local EXCEPT ![t].SrcFile = LowestFree]
            /\ arg' = [arg EXCEPT ![t] = <<src, dst, over>>]
            /\ pc' = [pc EXCEPT ![t] = "dupCreate"]
       ELSE /\ pc' = [pc EXCEPT ![t] = "idle"]
            /\ UNCHANGED <<kernel, arg, local>>
    /\ UNCHANGED held

DuplicateFile(t, src, dst, over) ==
    /\ pc[t] = "idle"
    /\ DupOpen(t, src, dst, over)

\* Mutant: without a destination the function returns at once.
DupNotCreatedLeaks(t) ==
    /\ pc' = [pc EXCEPT ![t] = "idle"]
    /\ arg' = [arg EXCEPT ![t] = NoArg]
    /\ local' = [local EXCEPT ![t] = NoLocal]
    /\ UNCHANGED <<kernel, held>>

\* Without a destination only the last close is left.
DupNotCreated(t) ==
    /\ pc' = [pc EXCEPT ![t] = "dupClose"]
    /\ UNCHANGED <<kernel, arg, local, held>>

DupCreate(t) ==
    LET dst == arg[t][2]
        over == arg[t][3]
    IN /\ pc[t] = "dupCreate"
       /\ IF CanCreate(dst, over)
          THEN /\ OpenCreating(dst, {"WRITE"})
               /\ local' = [local EXCEPT ![t].DstFile = LowestFree]
               /\ pc' = [pc EXCEPT ![t] = "dupSize"]
               /\ UNCHANGED <<arg, held>>
          ELSE DupNotCreated(t)

\* FileSizeOf(SrcFile)
DupSize(t) ==
    LET f == table[local[t].SrcFile]
    IN /\ pc[t] = "dupSize"
       /\ local' = [local EXCEPT ![t].Size = IF f = NONE THEN USZ_MAX ELSE Len(data[f])]
       /\ pc' = [pc EXCEPT ![t] = "dupCopy"]
       /\ UNCHANGED <<kernel, arg, held>>

\* Mutant: any number of bytes copied is a success.
CopyResultAny(written, size) == TRUE

\* Result = (BytesWritten == Size)
CopyResult(written, size) == written = size

(* copy_file_range(SrcFile, 0, DstFile, 0, Size, 0): moves up to Size bytes
   that the source still has, and fails on a descriptor that is closed or not
   opened for it, and on a range that overlaps itself.                      *)
DupCopy(t) ==
    LET in == local[t].SrcFile
        out == local[t].DstFile
        f == table[in]
        g == table[out]
        size == local[t].Size
        Limit == LET left == IF pos[in] < Len(data[f]) THEN Len(data[f]) - pos[in] ELSE 0
                 IN IF size < left THEN size ELSE left
        Overlaps == f = g /\ pos[out] + Limit > pos[in] /\ pos[out] < pos[in] + Limit
        Fails == \/ f = NONE \/ "READ" \notin mode[in]
                 \/ g = NONE \/ "WRITE" \notin mode[out] \/ "APPEND_FILE" \in mode[out]
                 \/ Overlaps
    IN /\ pc[t] = "dupCopy"
       /\ IF Fails
          THEN /\ local' = [local EXCEPT ![t].Result = CopyResult(USZ_MAX, size)]
               /\ UNCHANGED kernel
          ELSE \E n \in 0..Limit :
                 /\ data' = IF n = 0 THEN data
                            ELSE [data EXCEPT ![g] = Copied(f, pos[in], g, pos[out], n)]
                 /\ pos' = IF n = 0 THEN pos ELSE [pos EXCEPT ![in] = @ + n, ![out] = @ + n]
                 /\ local' = [local EXCEPT ![t].Result = CopyResult(n, size)]
                 /\ UNCHANGED <<dir, table, mode>>
       /\ pc' = [pc EXCEPT ![t] = "dupCloseSrc"]
       /\ UNCHANGED <<arg, held>>

DupCloseSrc(t) ==
    /\ pc[t] = "dupCloseSrc"
    /\ Close(local[t].SrcFile)
    /\ pc' = [pc EXCEPT ![t] = "dupCloseDst"]
    /\ UNCHANGED <<arg, local, held>>

DupCloseDst(t) ==
    /\ pc[t] = "dupCloseDst"
    /\ Close(local[t].DstFile)
    /\ pc' = [pc EXCEPT ![t] = "dupClose"]
    /\ UNCHANGED <<arg, local, held>>

\* Mutant: the source is removed whatever became of the copy.
DuplicatedAlways(Result) == TRUE

\* if (DuplicateFile(...)), in ChangeFileLocation
Duplicated(Result) == Result

(* The CloseFileHandle(SrcFile) after the inner block: the only one when the
   destination was not created, and the second one when it was.             *)
DupClose(t) ==
    /\ pc[t] = "dupClose"
    /\ Close(local[t].SrcFile)
    /\ local' = [local EXCEPT ![t] = NoLocal]
    /\ IF moving[t] # <<>> /\ Duplicated(local[t].Result)
       THEN pc' = [pc EXCEPT ![t] = "moveRemove"] /\ UNCHANGED arg
       ELSE /\ pc' = [pc EXCEPT ![t] = "idle"]
            /\ arg' = [arg EXCEPT ![t] = NoArg]
    /\ UNCHANGED held

DupStep(t) ==
    DupCreate(t) \/ DupSize(t) \/ DupCopy(t) \/ DupCloseSrc(t) \/ DupCloseDst(t) \/ DupClose(t)

-----------------------------------------------------------------------------
(* ChangeFileLocation(SrcPath, DstPath): rename, or across devices a
   DuplicateFile and then the removal of the source.                        *)

\* rename: what was at dst is gone; a path renamed to itself stays.
Rename(src, dst) ==
    /\ dir' = [p \in Paths |-> IF p = dst THEN dir[src] ELSE IF p = src THEN NONE ELSE dir[p]]
    /\ UNCHANGED <<table, pos, mode>>
    /\ FreeUnreachable

ChangeFileLocation(t, src, dst) ==
    /\ pc[t] = "idle"
    /\ IF dir[src] # NONE /\ <<src, dst>> \in Apart
       THEN DupOpen(t, src, dst, FALSE)
       ELSE /\ IF dir[src] # NONE THEN Rename(src, dst) ELSE UNCHANGED kernel
            /\ UNCHANGED <<pc, arg, local, held>>

\* return RemoveFile(SrcPath)
MoveRemove(t) ==
    /\ pc[t] = "moveRemove"
    /\ dir' = [dir EXCEPT ![arg[t][1]] = NONE]
    /\ UNCHANGED <<table, pos, mode>>
    /\ FreeUnreachable
    /\ pc' = [pc EXCEPT ![t] = "idle"]
    /\ arg' = [arg EXCEPT ![t] = NoArg]
    /\ UNCHANGED <<local, held>>

\* A move is recorded for as long as it runs.
Moving(t, src, dst) ==
    moving' = [moving EXCEPT ![t] = IF pc'[t] # "idle" THEN <<src, dst, data[dir[src]]>> ELSE <<>>]

Step(t) ==
    \/ /\ \/ \E p \in PathsOf[t], Flags \in FlagSets, force \in BOOLEAN :
                CreateNewFile(t, p, Flags, force) \/ OpenFileHandle(t, p, Flags, force)
          \/ \E p \in PathsOf[t] : RemoveFile(t, p)
          \/ ForceOpen(t)
          \/ \E fd \in Fds : CloseFileHandle(t, fd)
          \/ \E job \in Jobs[t], over \in BOOLEAN : DuplicateFile(t, job[1], job[2], over)
       /\ UNCHANGED moving
    \/ \E job \in Moves[t] : ChangeFileLocation(t, job[1], job[2]) /\ Moving(t, job[1], job[2])
    \/ /\ DupStep(t) \/ MoveRemove(t)
       /\ moving' = [moving EXCEPT ![t] = IF pc'[t] = "idle" THEN <<>> ELSE @]

\* A step of thread t ends the solitude of all others.
Next ==
    \E t \in Threads :
       /\ Step(t)
       /\ alone' = [u \in Threads |-> u = t /\ (pc[t] = "idle" \/ alone[t])]

Spec == Init /\ [][Next]_vars

-----------------------------------------------------------------------------
(* Properties.                                                              *)

\* The descriptors that a running DuplicateFile has opened.
OpenedByDup(t) ==
    (IF pc[t] \in {"dupCreate", "dupSize", "dupCopy", "dupCloseSrc"}
     THEN {local[t].SrcFile} ELSE {})
    \cup (IF pc[t] \in {"dupSize", "dupCopy", "dupCloseSrc", "dupCloseDst"}
          THEN {local[t].DstFile} ELSE {})

\* Thread t, or the call it is in, is to close descriptor fd.
Owns(t, fd) ==
    \/ fd \in held[t] \cup OpenedByDup(t)
    \/ pc[t] = "dupClose" /\ fd = local[t].SrcFile

(* No handle is lost: a descriptor that is open is held by a caller that was
   given it or by a DuplicateFile that will still close it, whichever way
   each of its steps went.                                                  *)
NoLeak == \A fd \in Fds : table[fd] # NONE => \E t \in Threads : Owns(t, fd)

InDup == {"dupCreate", "dupSize", "dupCopy", "dupCloseSrc", "dupCloseDst", "dupClose"}
HasDst == {"dupSize", "dupCopy", "dupCloseSrc", "dupCloseDst"}
Handle == Fds \cup {INVALID_FILE}

TypeOK ==
    /\ dir \in [Paths -> Files \cup {NONE}]
    /\ data \in [Files -> Seq(Byte)]
    /\ table \in [Fds -> Files \cup {NONE}]
    /\ pos \in [Fds -> Nat]
    /\ mode \in [Fds -> Mode]
    /\ pc \in [Threads -> {"idle", "forceOpen", "moveRemove"} \cup InDup]
    /\ arg \in [Threads -> {NoArg} \cup (Paths \X Mode) \cup (Paths \X Paths \X BOOLEAN)]
    /\ local \in [Threads -> [SrcFile : Handle, DstFile : Handle,
                             Size : Nat \cup {USZ_MAX}, Result : BOOLEAN]]
    /\ held \in [Threads -> SUBSET Fds]
    /\ moving \in [Threads -> {<<>>} \cup (Paths \X Paths \X Seq(Byte))]
    /\ alone \in [Threads -> BOOLEAN]

\* What a thread remembers of its call fits the place it has reached in it.
CallFits(t) ==
    /\ pc[t] = "forceOpen" => arg[t] \in Paths \X Mode
    /\ pc[t] \in InDup \cup {"moveRemove"} => arg[t] \in Paths \X Paths \X BOOLEAN
    /\ pc[t] \notin InDup => local[t] = NoLocal
    /\ pc[t] \in InDup => local[t].SrcFile \in Fds
    /\ pc[t] \in HasDst => local[t].DstFile \in Fds
    /\ pc[t] \in {"dupCreate", "dupSize", "dupCopy"} => ~local[t].Result
    /\ moving[t] # <<>> =>
          /\ pc[t] \in InDup \cup {"moveRemove"}
          /\ arg[t] = <<moving[t][1], moving[t][2], FALSE>>

CallState == \A t \in Threads : CallFits(t)

\* DstPath is a copy of SrcPath.
IsCopy(src, dst) == /\ dir[src] # NONE
                    /\ dir[dst] # NONE
                    /\ data[dir[dst]] = data[dir[src]]

(* What an undisturbed DuplicateFile has achieved at each step: its two
   descriptors are open on the two paths, each for its use, the destination is empty until the
   copy, and a Result that is true means a complete one.                    *)
DupProgress(t) ==
    LET src == arg[t][1]
        dst == arg[t][2]
        in == local[t].SrcFile
        out == local[t].DstFile
    IN  /\ dir[src] # NONE
        /\ pc[t] \in {"dupCreate", "dupSize", "dupCopy"} =>
              /\ table[in] = dir[src]
              /\ pos[in] = 0
              /\ mode[in] = {"READ"}
        /\ pc[t] \in {"dupSize", "dupCopy"} =>
              /\ dir[dst] # NONE
              /\ table[out] = dir[dst]
              /\ pos[out] = 0
              /\ mode[out] = {"WRITE"}
              /\ in # out
              /\ data[dir[dst]] = <<>>
        /\ pc[t] = "dupCopy" => local[t].Size = Len(data[dir[src]])
        /\ local[t].Result => IsCopy(src, dst)

(* An undisturbed move still has its bytes at the source, and when it is about
   to remove that, at another path too.                                     *)
MoveProgress(t) ==
    LET src == moving[t][1]
        dst == moving[t][2]
    IN  /\ dir[src] # NONE
        /\ data[dir[src]] = moving[t][3]
        /\ pc[t] \in HasDst \/ local[t].Result \/ pc[t] = "moveRemove" => src # dst
        /\ pc[t] = "moveRemove" => IsCopy(src, dst)

AloneProgress ==
    \A t \in Threads : alone[t] =>
        /\ pc[t] \in InDup => DupProgress(t)
        /\ moving[t] # <<>> => MoveProgress(t)

(* The inductive invariant: what every step preserves.  A descriptor that is
   open has an owner at every step of every call (NoLeak), which needs that a
   call that is running has the descriptors its place says (CallState); and a
   DuplicateFile or a move that nobody disturbs has got as far as its place
   says (AloneProgress), so that a source is removed only behind a copy.    *)
IInv == TypeOK /\ CallState /\ NoLeak /\ AloneProgress

\* A DuplicateFile of thread t returns true.
DuplicateSucceeds(t) == pc[t] = "dupClose" /\ pc'[t] # "dupClose" /\ local[t].Result

(* A DuplicateFile that returns true has made DstPath a copy of SrcPath, when
   no other thread does anything while it runs: short and failed copies, a
   full table and an existing destination are never taken for success.      *)
DuplicateCopiesAlone ==
    [][\A t \in Threads : DuplicateSucceeds(t) /\ alone[t] => IsCopy(arg[t][1], arg[t][2])]_vars

(* tinybase-platform.h of DuplicateFile: "Copies file in [Src] to new file in
   [Dst]", "true if successful": also while other threads work on other
   paths.                                                                   *)
DuplicateCopies ==
    [][\A t \in Threads : DuplicateSucceeds(t) => IsCopy(arg[t][1], arg[t][2])]_vars

\* A ChangeFileLocation across devices returns true.
MoveSucceeds(t) == pc[t] = "moveRemove" /\ pc'[t] = "idle" /\ dir[arg[t][1]] # NONE

(* A ChangeFileLocation across devices that nobody disturbs never loses the
   bytes it moves: from its first step to its return they are at the one path
   or at the other, and if it answers true at DstPath alone.                *)
MoveLosesNothing ==
    [][\A t \in Threads : moving[t] # <<>> /\ alone[t] /\ alone'[t] =>
          LET At(p) == dir'[p] # NONE /\ data'[dir'[p]] = moving[t][3]
          IN  /\ At(moving[t][1]) \/ At(moving[t][2])
              /\ MoveSucceeds(t) => At(moving[t][2]) /\ dir'[moving[t][1]] = NONE]_vars
=============================================================================
