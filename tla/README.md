# TinyBase: TLA+ models, checks and proofs

TinyBase is a C library of building blocks: queues for threads, buffers and
arenas, strings and their encodings, and a platform layer (files, directories,
memory, threads) over Linux and Windows. It has no main loop: its state is in
structures and handles that the application passes in. The models therefore run
the library's functions in every order, and, where the structure is meant to be
shared, with every interleaving of threads.

Paths below are relative to the repository; `src/` is its source directory.

## Inventory

| Component | State | Operations | What is hard | Correct means |
|---|---|---|---|---|
| MPSC free list (`tinybase-queues`) | `Head`, `Tail`, `Stub`, the `Next` of every node | `InitMPSCFreeList`, `MPSCFreeListPush`, `MPSCFreeListPop` | lock-free, a push is an exchange and a later link; the stub leaves and re-enters the list | FIFO, no item lost or returned twice, no write to a node the application has back, every item comes out |
| MPMC ring buffer (`tinybase-queues`) | slots, `MaxCur`, `ReadCur`, `WriteCur` | `InitMPMCRingBuffer`, `...Push`, `...Pop` | slot and cursor change in two steps; index computed from a stale cursor; cursors wrap; size arithmetic in `i32` | bounded FIFO, no access outside the array, false only when full, NULL only when empty |
| Atomics (`tinybase-atomic`) | the cell | exchange, compare-exchange, add-fetch in several widths | differs per compiler | what the queues rely on |
| Buffers, editing (`tinybase-memory`) | `Base`, `WriteCur`, `Size`, memory | `Buffer`, `ClearBuffer`, `AdvanceBuffer`, `CopyData`, the appends, `ReplaceByteInBuffer` | unsigned arithmetic, ignored results, sequences of calls | writes stay in bounds, content is what was appended, loops end |
| Buffers, query (`tinybase-memory`) | none, but for the choice of CPU version | comparisons and searches, scalar, SSE2, SSE3 and AVX2 | boundaries of the vector loops | same answer as the scalar definition |
| Arena (`tinybase-memory`) | `WriteCur` | `PushIntoArena`, `ClearBuffer` | wrap-around | regions inside and disjoint |
| File I/O (`tinybase-platform-linux`) | file, offset of the handle | size, seek, read, append, write, async | several system calls per function, short transfers, other threads | true means that all bytes went to or came from where they should |
| File handles (`tinybase-platform-linux`) | directory, descriptor table | create, open, close, remove, duplicate, move | descriptors are reused at once; partial failure; a move across devices is a copy and a removal | handles are neither lost nor closed by others; a copy is a copy; a move never loses the file |
| Paths, directories (`tinybase-platform-linux`) | path strings, directory tree | path editing, `MakeDir`, `RemoveDir`, listing | one system call per step among other processes, streams left open, recursion, boundary cases of separators, `.` and `..` | the tree the caller asked for |
| Threads and synchronisation (`tinybase-platform-linux`) | thread, mutex, semaphore | wrappers | results translated to bool | the documented answer |
| Windows platform (`tinybase-platform-win32`) | as Linux | as Linux | as Linux | as Linux |
| Strings, encodings (`tinybase-strings`, `tinybase-encoding`) | string buffers | append, replace, search, numbers, transcoding | variable-width characters, byte order, surrogates, room in bytes, partial failure | the bytes the Unicode standard gives, whole or not at all; what is written reads back |
| Types and utilities (`tinybase-types.h`) | none | alignment, powers of two, bit counts | width of arguments | the arithmetic definition |

The queues call the atomics; the ring is sized by `RoundDownToPow2`; strings are
buffers with an encoding; file functions read into buffers and use strings for
paths; `ReadEntireFile` and `FilesAreEqual` allocate memory; `DuplicateFile` is
built from the handle functions. There are no callbacks; threads meet in the two
queues, in the file descriptor table and in the files.

## Modules

| Module | Models | State and steps |
|---|---|---|
| `FIFOQueue`, `BoundedFIFOQueue` | abstract queues | a sequence and the last answer |
| `MPSCFreeList` | the free list | fields as in the C structures; `pc`, `Node`, `Prev` are the locals of each call; one step per access to shared memory |
| `MPMCRingBuffer` | the ring buffer, the atomics it uses, `RoundDownToPow2` | one step per access to a slot or cursor |
| `Arena` | `PushIntoArena` | one step per call |
| `BufferQuery` | comparison and search, scalar and in vector registers | pure operators over `[mem, Base, WriteCur]`; a mask register is the set of the positions that match |
| `Buffers` | editing of buffers, `InitBuffersArch`; its invariants apply `BufferQuery` to every reachable buffer | one step per call, one per iteration of a loop |
| `Encoding` | characters of the six encodings: size, next, encode, decode, lengths, transcoding | pure operators over `[bytes, Size, Enc]`; an `mb_char` is its four bytes |
| `Strings` | a string that is appended to, replaced in, advanced and read; numbers | one step per call; extends `BufferQuery` (search) and `Encoding` |
| `Paths` | path editing and the name that HIDDEN_FILE gives a file | pure operators over the memory of a path and its `WriteCur` |
| `Directories` | a program that edits a path and calls `MakeDir` and `RemoveDir` with it, among other processes | one step per system call; `frames` is the recursion of `RemoveDir` |
| `FileIO` | reading and writing | one step per system call |
| `FileHandles` | descriptor table, `DuplicateFile` and `ChangeFileLocation` | one step per system call |
| `MPSCFreeListProofs`, `MPMCRingBufferProofs`, `ArenaProofs`, `FileIOProofs`, `FileHandlesProofs` | theorems on the module of that name | |
| `BuffersProofs` | theorems on `BufferQuery`, `Buffers` and `Encoding` | |
| `DirectoriesProofs` | theorems on `Paths` and `Directories` | |
| `NumberLemmas` | what the proofs need of division, powers of two, least members, loops, and parts of sequences | |
| `MC...` | constants for TLC | |

Histories that are not in the code are marked as such at the VARIABLES: `chain`
and `disturbed` in `MPSCFreeList` (the order of the exchanges, whether a push was
half done during this Pop), `out`, `ret` and `answer` (last answers), `regions`,
`content` (what calls have put in a buffer or string), `offered`, `number` and `cut`
(the text last refused, the number that is all of a string, whether a call
answered true with a part of its text), `wild`, `held`,
`alone` and `moving` (handles and moves), and in `Directories` `edit`, `before`,
`alone`, `hindered`, `leaked` and `answer` (the last edit of a path, the tree when
a call began, whether others have left it alone since, whether they were in the
call's way, streams nobody will close, the call that has returned).
Operators introduced by a comment "Mutant:" are plausible bugs. Nothing uses
them; they are there to be put in place of the definition that follows them, to
see that the property notices.

### Abstractions

* Integers keep a width: `UszBits` scales `usz` down, `IntBits` scales `int`, so
  that wrap-around is inside the bound. 4 bits give 16 values, against
  buffers of 6 and 7 bytes and rings of 2 slots; strings have 8 bits.
* Memory model: the lock-prefixed exchange, compare-and-exchange and add of x86
  are sequentially consistent; plain loads and stores are single steps. On x86 a
  store may be delayed in the store buffer; the only plain stores that other
  threads read are `Node->Next = NULL`, which the exchange after it flushes, and
  `Prev->Next = Node`, whose delay is the same as a later link step. Weaker
  processors are out of the models.
* In `MPMCRingBufferPop` the cursor is a plain field read twice in the source; a
  compiler may read it once. Both are steps (`PopIndex`).
* The application of the free list owns its items: it pushes only an item that
  is not in the list, and only one consumer calls Pop. The consumer may push.
* The kernel (files, offsets, descriptor table) is external and is modelled by
  what the calls use: lowest free descriptor, O_APPEND, O_EXCL, O_TRUNC, holes
  read as zeros, short reads, writes and copies. `FileIO` uses one regular file
  (block devices, for which `FileSizeOf` asks the device, are left out) whose size
  the kernel may fail to tell. In `FileHandles` a descriptor has the access it was
  opened for, and a copy from one that cannot be read, or to one that cannot be
  written or is for appending, fails. A thread there that is given the number of a
  handle somebody else closed for it holds that number once.
* Vector registers have `XMM128_SIZE` and `XMM256_SIZE` bytes, scaled down. A load
  from outside the memory of the model yields `GARBAGE`. `Base` is an address, so
  that `AdvanceBuffer` moves the buffer through every alignment.
* In `Strings` a text is a sequence of code points and every property compares
  the bytes with a definition of UTF-8, UTF-16 and UTF-32 that is independent of
  the code's. A float is a number of thousandths that binary and decimal both
  represent; the rounding of `f64` is not modelled.
* A path is the sequence of its characters, of which `/`, `.` and letters are
  told apart. Memory behind `WriteCur` is part of the model, because
  `_AppendPathToPath` writes there before it fails.
* In `Directories` other processes create and remove files and directories
  between any two system calls. A directory stream delivers the entries that were
  there when it was opened, in any order; an entry that is gone fails to be
  removed. A directory that cannot be opened crashes the program (`readdir` of
  NULL), which is the state "crashed". What is neither a file nor a directory is
  called a socket; the test `d_type & DT_DIR` takes it for a directory, and a
  block device likewise.
* `ChangeFileLocation` is a rename, or across devices (`Apart`) the steps of
  `DuplicateFile` and then of `RemoveFile`.
* Two threads that share a handle share its offset, and seek plus read is not
  atomic: the headers promise nothing for that use and nothing is claimed.

## Runs

Passing runs:

| Run | Shows |
|---|---|
| `mpsc` | 2 producers, a consumer that pushes too, 3 items, the stub zeroed: the inductive invariant `IInv`, `LinkTargetQueued`, `OneOwner`, the FIFO order (`PopOldest`), when NULL is possible (`PopNullJustified`), the refinement of `FIFOQueue`, and `EveryItemPopped` |
| `ring_spsc` | 1 producer, 1 consumer, 3 items, 2 slots in a buffer of 3 (so that rounding matters), cursors that wrap at 16: the inductive invariant `SPSCInv`, `RingInBounds`, `FrontFilled`, `PushFalseMeansFull`, the refinement of `BoundedFIFOQueue`, and `EveryItemPopped` |
| `ring_mpmc` | 2 producers, 2 consumers: `OneOwner`, the property that survives |
| `arena` | 6 bytes, every request that does not wrap: `RegionsInside`, `RegionsDisjoint` |
| `buffers` | all sequences of edits on 7 bytes: `ContentIntact`, `WritesInBounds`, `CallsReturn`; and, for every first part of every buffer so reached, at every alignment and with every version of the query functions, `ByteSearchExact`, `BufferSearchExact` (scalar and SSE3) and `CompareExact` |
| `file_io` | two threads, two handles (one APPEND_FILE), somebody who truncates the file at any time, short transfers, calls that move nothing: `ReadDeliversRequested`, `WriteLandsAtStartPos` |
| `handles` | one thread duplicates and moves files, another opens, creates, removes and moves one of them back, on 3 descriptors: the inductive invariant `IInv`, `NoLeak`, and for calls nobody disturbs `DuplicateCopiesAlone` and `MoveLosesNothing` |
| `strings` | six encodings, characters on both sides of every change of length, rooms that end within a character: `TextIntact` (the bytes are those of the standard, all of them for a call that answered true and none for another, but for the two kinds of call that `cut` sets apart and that leave a beginning), `RefusedOnlyIfFull`, `ReadingYieldsText`, `PrintLenRight`, `SearchRight`, `NumbersReadBack` |
| `directories` | paths of up to 7 characters and a tree of depth 3 that others change: `PathDenotes`, `HiddenIsHidden` (of the name built in a second memory of that size), `MakeDirSucceeds`, `RemoveDirExact`, `StreamsClosed` (streams are lost only by a call that answers false) |

Runs that end in a violation state what a header says and show that the code
does otherwise. Each has an entry under "findings" in `PROJECT.json`:

| Run | Disagreement |
|---|---|
| `ring_two_producers` | the cursors drift from the slots and items become unreachable: the ring is a FIFO for one producer and one consumer only |
| `handles_two_copies` | `DuplicateFile` closes its source twice; the second close may hit the source of another thread's `DuplicateFile`. There `FileSizeOf` then answers `USZ_MAX` and the copy -1, which compare equal: the call returns true and its destination is empty |
| `buffers_avx2` | the AVX2 search for a buffer never looks at the last position, nor for a needle as long as the haystack. `LoadCPUArch` finds the features on MSVC only: elsewhere the scalar version runs |

Disagreements met on the way that no run shows. The properties follow the code
here, and the tests where there are any:

* Pop of the free list may answer NULL while items whose push has returned are
  queued, namely behind one that is half done (`tinybase-queues.h:62` says NULL
  means empty).
* `AdvanceBuffer` leaves `Size` alone (`tinybase-memory.h:59` says it shrinks), so
  that `WritesInBounds` is about a buffer that was not advanced.
* A search with RETURN_PTR_AFTER that finds nothing answers NULL, which
  `test-memory.c:268` and `:293` ask for; `tinybase-memory.h:103` says INVALID_IDX.
  `ByteSearchExact` and `BufferSearchExact` have NULL.
* The RETURN_..._AFTER flags answer the offset k of the needle plus its length, in
  agreement with `test-memory.c:288`; the example in `tinybase-memory.h:118-120`
  (35 bytes at 400 give 436) counts one more.
* `CompareBuffers` with RETURN_PTR_DIFF answers the pointer behind the data
  compared when there is no difference; `tinybase-memory.h:104` and `:131-132` say
  the length. `CompareExact` claims nothing of that flag without a difference.
* `CompareBuffers` does not stop at the smaller `WriteCur` (`tinybase-memory.c:96-132`
  never reads it), as `tinybase-memory.h:130-131` says: it compares what lies behind the
  data. `CompareExact` asks for no more bytes than both buffers have.
* `AppendStringToStringNTimes` across encodings ignores the answers of `Transcode`
  and returns true however many copies fitted (`tinybase-strings.c:588-592`);
  `tinybase-strings.h:285-287` says that [Src] must fit entirely, and true if successful.
* `AppendFloatToString` in scientific notation with no decimal places writes the
  place ".0" all the same, but counts no room for it: the last digit of the
  exponent is cut, 0.5 becomes `5.0e-00` (`tinybase-strings.c:756-760`; the comment at
  `:708` has `5.0e+000`). `cut` marks both calls, after which the program of `Strings` ends.
* On MSVC the compare-and-exchange answers true whether or not it stored, and the
  instance of `MPMCRingBuffer` with `Compiler` = "MSVC" violates `OneOwner`.

Bounds. Three items on two slots make the ring full, empty and wrapped. Three
items and two producers allow a second push during the gap of a first one, with
an item already queued. Three descriptors let both a shortage and a reuse
happen. A buffer of 7 bytes with vectors of 2 and 4 has chunks before, inside and
after the data at every alignment, and a rest. Strings end at three characters: a
call that appends may pass that, none begins beyond it. Paths of 7 characters
hold a path of depth 3 and refuse the next part; four streams are enough for the
depth of the tree unless a call has left some open. Names are of one letter, so
that an append that fails in `RemoveDir` leaves the same text behind whatever the
entry before was. `p` and `q` are on different devices one way only, so that
both branches of a move are taken. `MaxLen` bounds the file; the write that would pass it transfers less,
which the code has to handle anyway. Symmetry is used in `ring_mpmc` only, over
producers, consumers and items, of which no definition singles one out; `handles`
has a VIEW that numbers files by where they are first seen in the directory and
the table: the number of an inode decides nothing but which free number comes
next.

Fairness. `mpsc` and `ring_spsc` assume that a push that has begun finishes
(threads are scheduled; the code has no waiting in it) and that the consumer
keeps polling. That a producer calls Push again is not assumed. `buffers`
assumes that a running loop keeps running. Nothing is claimed to terminate in
`directories`: others may go on making entries.

### What the passing runs take for granted

The inputs of the passing runs respect these conditions, which the code does not
check and its headers state only in part:

* the memory of an `mpsc_freelist` is zero before `InitMPSCFreeList`, which does
  not set `Stub.Next` (`ZeroedStub`);
* the buffer of a ring is smaller than 2 GiB: `RoundDownToPow2` takes an `i32`
  (with `RingSize` = 2 ^ (`IntBits` - 1), `RingInBounds` fails);
* `WriteCur + Size` of `PushIntoArena`, `Src.WriteCur * Count` of
  `AppendBufferToBufferNTimes` and `StartPos + AmountToRead` of `ReadFromFile`
  do not wrap;
* nobody calls `AdvanceBuffer` for more bytes than the buffer has, nor
  `AdvanceString` for more characters (`WriteCur` would wrap, `tinybase-memory.c:23-28`);
* `CompareBuffers` is asked for no more bytes than both buffers have;
* nobody appends to a buffer whose `Size` is zero and that has data:
  `Size - WriteCur` wraps and the append succeeds;
* a byte is not replaced by itself (`CallsReturn` leaves that case out: it does
  not return);
* `AppendToFile` is for a handle whose offset is at the end, `SeekFile` accepts
  any position, and each thread uses a handle of its own;
* `DuplicateFile` with source and destination the same and OverwriteIfExists
  empties the file and returns true; FORCE_OPEN may fail when another thread
  creates the file at the same time. Both are behaviours of `FileHandles`.
* needles have at least one byte (the code reads `Needle.Base[0]` and
  `Needle.Base[WriteCur - 1]`);
* only ASCII is transcoded into an ASCII string: other code points are written as
  raw bytes;
* numbers are between -`ISZ_MAX` and `ISZ_MAX` (`ISZ_MIN` has no absolute value,
  and an unsigned number above `ISZ_MAX` is counted as negative by
  `NumberOfDigits`); the zero and exact powers of ten are not written in
  scientific notation (the loop that normalises zero does not end; `10` there is
  printed as the character after `9`). Either there are at least as many decimal
  places there as the exponent needs, or none, and then the text is `cut`. The digits
  of a float fit the array `Digits[128]`, which in UTF-32 has 32 characters;
* nothing is claimed of a string after a call that was `cut`;
* what `StringToFloat` reads back has no `+` in its exponent, which it refuses
  although `AppendFloatToString` writes it; hexadecimal digits are upper-case
  (lower-case ones are taken for larger values);
* characters are searched for and replaced in ASCII and UTF-8 only: in the other
  encodings the byte order and the alignment of a match are not looked at;
* controls from U+0080 to U+009F, which count as printable, are left out of
  `PrintLenRight`, and so are bytes from 0x80 on in UTF-16, where `char` is signed;
* a path is not climbed above where it starts (`StaysBelow`) and not empty when
  `MoveUpPath` is called: it would read `Base[-1]`. `MoveUpPath` of `/a` leaves
  the empty path, the root is lost;
* an append to a path that fails after a `..` may have overwritten the text
  before `WriteCur`; `PathDenotes` claims the text is left alone only without one;
* no two slashes meet in a path (`NoEmptyPart`), where `PathDenotes` says where it
  leads: `MoveUpPath` of `a//` takes back the empty part only, and `.//b` or
  `a/..//b` becomes the absolute `/b`;
* a text that is appended to a path is not longer than MAX_PATH_SIZE (`PathCString`
  would cut it), and the characters of names, `Letters`, do not include NUL;
* the names in the tree are of one letter (`OneLetterNames`), for what is said of
  `RemoveDir`: its calls for what they list take two characters each;
* a path opened with HIDDEN_FILE has a slash (without one the code reads
  `Old.Base[-1]`), and there is room in MAX_PATH_SIZE for the dot and a NUL: of a path of
  MAX_PATH_SIZE - 1 characters that is given a dot, `NewBuf` holds no NUL, and
  `open` would read on behind it. Both are in `HiddenIsHidden`;
* `MakeDirSucceeds` claims success for relative paths that do not end with a
  slash. Otherwise, when a directory above is missing, `MakeDir` tries to make the
  directory "" and fails, or makes the directories and answers false;
* `RemoveDir` of a directory that is not there, or of more directories than
  there are descriptors for, crashes; a socket or block device is taken for a
  directory. These are in the model, and `RemoveDirExact` says when they happen.

## Proofs

The theorems below hold for every value of the constants; what is assumed of
them is in the ASSUME of the module, and in a hypothesis that the theorem names.
`2 ^ UszBits` being a natural number is part of the ASSUMEs (`UszMod \in Nat`),
and so is `PowersOfTwo` in `MPMCRingBuffer`, the arithmetic of powers of two
that the ring needs: both are true of every `UszBits` in Nat, but the provers do
no arithmetic with exponents. TLC evaluates both on the instances.

### Queues

`MPSCFreeListProofs` proves, for any sets of producers and items,
`ZeroedStub => (Spec => []IInv)` and from it `LinkTargetQueued`,
`OneOwner`, `PopOldest`, `PopNullJustified` and `ImplementsFIFO`. The hypothesis
`ZeroedStub` says that the memory of the stub was zero, which
`InitMPSCFreeList` does not see to. The other constants need only be distinct.

That Pop returns the oldest item cannot be shown from the fields
alone: between an exchange and its link nothing in memory tells that the node
belongs behind its predecessor. `chain` records the order of the exchanges, and
`IInv` ties memory to it: Tail is its first node and Head its last
(`ChainEnds`); the Next of every node in it is its successor, or NULL while that
successor's push is about to link (`ChainLinked`); whoever is about to link will
write to a node that is still in the chain (`LinkTargetQueued`); items are in
one place (`OneOwner`); the locals of a running Pop agree with the chain
(`CallsInOrder`); and in a Pop that no push has disturbed the last node is Head
(`QuietPop`, needed for NULL). One lemma per action shows that the invariant is
preserved. The refinement maps the abstract queue to the items of the chain: the
exchange of an item enqueues it, the step that moves Tail over it dequeues it,
and every other step, the stub's journeys included, leaves the queue alone.

`MPMCRingBufferProofs` has two invariants. `IInv` is for any number of threads:
a thread in a call has an item in hand and an index within `MaxCur`, and, unless
the compare-and-exchange answers true always (MSVC), every item is in one place.
From it come `OneOwner` (hypothesis `Compiler = "GCC"`) and, for a ring that
holds a pointer and is smaller than `RoundDownToPow2` can take (`UsableRing`),
`RingInBounds`. `SPSCInv` is for one producer and one consumer (`OneEach`, which takes in
`UsableRing` and GCC): the filled slots are a window of n slots from where the consumer is to where the
producer is (`Window`, which counts the slot emptied or stored whose cursor has
still to advance), and what a running call has read is not stale (`NotStale`).
The window is stated in slots and not in cursors, so that it survives the wrap of
`usz`; that it does is where `PowersOfTwo` is needed: the number of slots divides
2 ^ `UszBits`. `FrontFilled`, `PushFalseMeansFull` and the refinement of
`BoundedFIFOQueue` follow. `OneEach` is needed: `ring_two_producers` shows
the window broken.

### Buffers

`ArenaProofs` proves, for every size and all requests that do not wrap
(`NoWrap`), that regions lie below `WriteCur` and `WriteCur` within the arena,
and from it that regions are inside and disjoint. The hypothesis is needed: a
request that wraps is granted and moves `WriteCur` back over regions in use.

The first part of `BuffersProofs` is about what the query functions compute, for
buffers of every length, at every address, in registers of every width. The loops of the
code are recursive functions on the integers in `BufferQuery`; a recursive
function is a CHOOSE, so that nothing is known of it before it is shown to exist.
`NumberLemmas` does so once for all loops with a rank that falls
(`LoopDefined`), and proves once that what every iteration passes on holds at the
end (`LoopInduction`), both from the least counterexample. On these rest: the
scalar search for a byte answers the first occurrence, the reverse one the
last; the vector search answers the same, although it reads whole aligned chunks
before and behind the data and masks what is not in it (`VectorFindsFirst`);
the scalar and SSE3 searches for a buffer answer its first occurrence, the
reverse one its last; `CompareBuffers` the first difference; and the public
functions, for every flag and version, answer the pointer, index or bool for it.
The AVX2 search for a buffer is left out because it is wrong (`buffers_avx2`).

The second part proves `NoTotalWraps => (Spec => []IInv)`: as long as nothing
wild was written, the buffer holds `content`; within
`AppendBufferToBufferNTimes` what is left to copy has room, so that the single
test at its start is enough; within `ReplaceByteInBuffer` what has been passed is
replaced and what is ahead is as it was. `ContentIntact` follows, and
`WritesInBounds` for a buffer created over all of its allocation or without data
(`Writable`); a buffer created over less, such as a literal, has its data but
`Size` 0, and an append to it writes outside. With the results on the
queries, `ByteSearchExact`, `BufferSearchExact` and `CompareExact` follow: in
every reachable buffer, at every alignment, every version answers for what
`content` holds. `NoTotalWraps` is needed: a product that wraps is accepted.

### Characters and texts

The third part of `BuffersProofs` is about the operators of `Encoding`, for every
code point that is not a surrogate (and, in ASCII, is below 128: `Encodable`) and
for texts of any length. `ReadsBack`: what is written for a code point, in any of
the six encodings, is read by `GetNextChar` and `GetNextCharSize` as that code
point and as many bytes, whatever follows it in the string; so sizes may be
taken from lead bytes. One lemma per encoding does the arithmetic (a code point in groups of six bits, or of
ten), and one for the byte orders. `SpellsOut` says that the bytes of a string
are those of a text, each character at a known offset. With it: walking a string
goes from one character to the next (`TextReadsBack`); `StringLen` counts code
points right, in UTF-8 by counting what are not continuation bytes and in UTF-16
by walking (`CodePointsCounted`); what `Transcode` writes spells the same text in
the other encoding (`TranscodedSpells`), and it writes all of it, or, only if it
does not fit, nothing (`TranscodeWhole`). The loops are recursive functions, shown
to exist by `GatheringDefined` as those of the searches are by `LoopDefined`; that
they gather the right thing goes by the least counterexample, from the end of the
text. The hypotheses are needed: half a surrogate pair, or a code point
that ASCII has not, is written as bytes that read as something else.

### Paths and directories

`DirectoriesProofs` has an invariant for each kind of call, one above the other.

* `EditInv`: what is in the memory of the path, its text and its last edit belong
  together. The loop of `_AppendPathToPath` is a recursive function over the
  characters of its argument; that after each slash the path leads to where the
  argument leads so far goes by the least counterexample. `PathDenotes` is a part
  of it. `HiddenIsHidden` follows from the text up to the first NUL: what `NewBuf`
  holds up to its own first NUL is known, because there is room for one.
* `CallInv`: the tree stays a tree, whatever others do (what a place is in is a
  directory); every running call is at a step that fits what it remembers; the
  frames of `RemoveDir` above the innermost one have their stream open.
  `StreamsClosed` follows: a stream is lost only by a call that answers false.
* `MakeInv`: as far as the loop of `MakeDir` has come the directories are there
  (`Reached`), nothing is in the way of those to come unless others have put it
  there (`WayFree`), and what the call has added is on the way to its target
  (`OnlyWay`). `MakeDirSucceeds` follows.
* `RemoveInv`: as long as others leave the tree alone, only things below the target
  are gone (`Shrunk`), and the frames are in one of two conditions. `Clean`: each
  leads one below the frame around it, has still to look at everything that is left in
  its directory, and its text is at most two characters longer. `Stuck`: there
  was no room for a name, `EntryPath` was the directory itself, and the call is
  about that directory again and again until it fails or runs out of streams;
  then the tree was too deep for it (`TooMuch`). `RemoveDirExact` follows.

`RemoveDirExactAlways` has the hypothesis `OneLetterNames`: the property counts
two characters for every name below the target, and what an append without room
leaves in memory depends on the lengths of the name and of the one before it
(`EntryPath`). The other theorems hold for every value of the constants. That others
leave the tree alone is no hypothesis of the theorem but a part of the properties
that need it.

### Files

`FileHandlesProofs` proves `Spec => []IInv` for any set of threads and finite set
of paths. `NoLeak` is not inductive: that a step leaves no descriptor without an
owner depends on where every running call is and what it remembers
(`CallState`). For `DuplicateCopiesAlone` and `MoveLosesNothing` the invariant
says how far an undisturbed copy has come (`AloneProgress`): its
descriptors are open on its paths at position 0, the destination is a file of its
own and empty, the recorded size is the file's, and a Result of true means equal
bytes. One counting lemma is needed for the kernel: there are inodes enough that
`open` finds a fresh one.

`FileIOProofs` proves, for threads that share no handle (`OwnHandles`) and
positions that `lseek` accepts (`PositionsAccepted`), that a handle stays where a
call's seek has put it until its read or write, whatever other threads and
processes do to the file; and so that a read that answers true has delivered the
bytes at StartPos as they are when it reads, and a write that answers true has
put all of Content there. Both hypotheses are needed: the code seeks and
reads in two calls and does not look at the result of the seek.

### Only model-checked

* Liveness (`EveryItemPopped` of both queues, `CallsReturn`): out of the reach of
  the proof system used.
* The six properties of `Strings`. They are about sequences of calls, and compare
  with a definition of the encodings and of decimal digits that uses powers of 64,
  256 and 10, of which the provers know nothing; for all constants they would
  also need bounds on the digits of numbers and floats. What the calls rest on,
  characters and transcoding, is proved (see above); the byte searches under
  `SearchRight` are too.
* The three runs that end in a violation.

## Not modelled

* Asynchronous I/O: the requests and their order are in the kernel; the functions
  post and poll. `ReadFileAsync` advances `WriteCur` when the read is posted,
  reads to `Base` instead of `Base + WriteCur`, and `WaitOnIoCompletion` answers 0
  both for a timeout and for a read of nothing.
* `FilesAreEqual`: it compares two results of `ReadEntireFile`; for two empty
  files it answers false, and if only one can be read its memory is not freed.
* Threads, mutex and semaphore: one call of pthreads or `sem_t` each. The answer
  of `WaitOnSemaphore` is the opposite of what its header says.
* The Windows layer: the same interface over other system calls.
* `EatNextChar`, which does not advance the pointer it is given;
  `IsExistingDir`, which does not look at whether `stat` succeeded;
  `AppendStringToPath` across encodings; `ChangeDirLocation`; the second, unused
  AVX2 search in `tinybase-memory.c:617`.
* Dynamic loading and external processes, time and system information, and the
  remaining memory functions: each is one system call with no state of its own.

## Plan

1. `TextIntact`, `RefusedOnlyIfFull` and `ReadingYieldsText` of `Strings`, for
   strings without numbers, from `WrittenBytes` and `TranscodeWhole`; then numbers,
   with the arithmetic of powers of ten as an assumption.
2. Asynchronous I/O (post, complete, wait) and `FilesAreEqual`, on `FileIO`.
3. The Windows layer where it differs: `DuplicateFile` and `MakeDir` there.
