----------------------------- MODULE Directories -----------------------------
(***************************************************************************)
(* Building a path, and MakeDir, RemoveDir and the iteration over a        *)
(* directory, from tinybase-platform-linux.c, on a file system that other  *)
(* processes change at any time.                                           *)
(*                                                                         *)
(* A program edits a path and then calls MakeDir and RemoveDir with it,    *)
(* again and again.  One system call is one step.  The root is also the    *)
(* working directory; a place of the file system is the sequence of names  *)
(* that leads to it.                                                       *)
(***************************************************************************)
EXTENDS Paths

CONSTANTS
    Parts,      \* the texts that are appended to the path
    Places,     \* bound: where something can be; elsewhere there is no space
    Sockets,    \* the places where a socket (or a block device) can be
    MaxDirs     \* how many directory streams the process can have open

FileName == Seq(Characters \ {"/"}) \ {<<>>, <<".">>, <<".", ".">>}

\* PathCString does not cut the texts; nothing is below a socket.
ASSUME DirectoriesAssumption ==
    /\ \A s \in Parts : s \in Seq(Characters) /\ Len(s) <= MAX_PATH_SIZE
    /\ \A q \in Places :
          /\ q \in Seq(FileName) \ {<<>>}
          /\ \A n \in 1..(Len(q) - 1) : SubSeq(q, 1, n) \in Places \ Sockets
    /\ Sockets \subseteq Places
    /\ MaxDirs \in Nat

VARIABLES
    path,       \* the path the program edits
    edit,       \* history: the last edit: its kind, text before, argument, answer
    tree,       \* the file system: a function from places to kinds
    arg,        \* the argument of the calls, or <<>> while the path is edited
    pc,         \* "edit", "idle", "crashed", or the step the running call is at
    work, at,   \* MakeDir: WorkPath, and how far the loop has come
    frames,     \* RemoveDir: the calls that are running, the innermost last
    leaked,     \* history: directory streams nobody will close
    answer,     \* history: the call that has returned and its answer
    before,     \* history: tree when the call began, while others leave it alone
    alone,      \* history: they have since the call began
    hindered    \* history: the target was there or something in its way, or others
                \* created the target or a file, or removed something

history == <<before, alone, hindered>>
fsvars == <<tree, history>>
call == <<arg, pc, work, at, frames, leaked, answer>>
vars == <<path, edit, fsvars, call>>

NoEdit == [kind |-> "none"]
NoAnswer == [kind |-> "none"]

-----------------------------------------------------------------------------
(* The file system (external).                                              *)

Parent(q) == SubSeq(q, 1, Len(q) - 1)
IsDirectory(q) == q = <<>> \/ (q \in DOMAIN tree /\ tree[q] = "dir")
Children(q) == {c \in DOMAIN tree : c # <<>> /\ Parent(c) = q}
With(q, kind) == [r \in DOMAIN tree \cup {q} |-> IF r = q THEN kind ELSE tree[r]]
Without(q) == [r \in DOMAIN tree \ {q} |-> tree[r]]
Above(q) == {SubSeq(q, 1, n) : n \in 1..Len(q)}
InTheWay(q) ==
    q \in DOMAIN tree \/ \E r \in Above(q) : r \in DOMAIN tree /\ tree[r] # "dir"

\* The texts before and after the last slash that does not end the text
Trimmed(s) == SubSeq(s, 1, Max({i \in DOMAIN s : s[i] # "/"} \cup {0}))
DirPart(s) == SubSeq(Trimmed(s), 1, LastSlash(Trimmed(s)))
NamePart(s) == SubSeq(Trimmed(s), LastSlash(Trimmed(s)) + 1, Len(Trimmed(s)))

\* Every directory on the way exists, also those that ".." leaves again.
Reachable(s) == \A i \in Slashes(s) : IsDirectory(Names(SubSeq(s, 1, i)))
IsDirText(s) == s # <<>> /\ Reachable(s) /\ IsDirectory(Names(s))

\* mkdir: 0 or the error
Mkdir(s) ==
    IF s = <<>> \/ ~Reachable(DirPart(s)) THEN "ENOENT"
    ELSE IF NamePart(s) \in {<<>>, <<".">>, <<".", ".">>} \/ Names(s) \in DOMAIN tree THEN "EEXIST"
    ELSE IF Names(s) \notin Places THEN "ENOSPC"
    ELSE "OK"
\* A file where a directory is needed is ENOTDIR; the code tells it from ENOENT.
MkdirResult(s) ==
    IF Mkdir(s) = "ENOENT" /\ \E i \in Slashes(DirPart(s)) :
            LET q == Names(SubSeq(s, 1, i)) IN q \in DOMAIN tree /\ tree[q] # "dir"
    THEN "ENOTDIR" ELSE Mkdir(s)

MkdirEffect(s) ==
    /\ tree' = IF MkdirResult(s) = "OK" THEN With(Names(s), "dir") ELSE tree
    /\ UNCHANGED history

-----------------------------------------------------------------------------
Init ==
    /\ path = EmptyPath
    /\ edit = NoEdit
    /\ \E D \in {{}, Places}, S \in SUBSET Sockets :
          tree = [q \in D |-> IF q \in S THEN "socket"
                             ELSE IF \A r \in Places : Parent(r) # q THEN "file" ELSE "dir"]
    /\ arg = <<>> /\ pc = "edit"
    /\ work = <<>> /\ at = 0 /\ frames = <<>> /\ leaked = 0 /\ answer = NoAnswer
    /\ before = <<>> /\ alone = FALSE /\ hindered = FALSE

(* Editing.  The program does not climb above where its path starts, and does
   not move up from an empty path: the code would read before its memory.   *)

Edit(kind, s, n, result) ==
    /\ pc = "edit"
    /\ path' = result.path
    /\ edit' = [kind |-> kind, was |-> Text(path), arg |-> s, up |-> n, ok |-> result.ok]
    /\ UNCHANGED <<fsvars, call>>

AppendToPath ==
    \E s \in Parts :
        /\ StaysBelow(Text(path), s)
        /\ \/ Edit("append", s, 0, AppendPathToPath(s, path))
           \/ Edit("append", s, 0, AppendArrayToPath(s, path))

\* getcwd is the root.
AppendCWDToPath == Edit("append", <<"/">>, 0, AppendPath(<<"/">>, path))

MoveUp ==
    \E n \in {1, 2} :
        /\ path.WriteCur > 0
        /\ LET up == MoveUpPath(path, n)
               start == path.WriteCur - (IF path.mem[path.WriteCur] = "/" THEN 1 ELSE 0)
           IN  Edit("up", <<>>, n, [ok |-> up.WriteCur # start, path |-> up])

\* The program is done with editing: it hands over path.Base.
UsePath ==
    /\ pc = "edit"
    /\ CString(path) # <<>>
    /\ pc' = "idle"
    /\ arg' = CString(path)
    /\ path' = EmptyPath /\ edit' = NoEdit
    /\ UNCHANGED <<fsvars, work, at, frames, leaked, answer>>

-----------------------------------------------------------------------------
(* MakeDir.                                                                 *)

Call(next) ==
    /\ pc = "idle"
    /\ pc' = next
    /\ answer' = NoAnswer
    /\ before' = tree /\ alone' = TRUE /\ hindered' = InTheWay(Names(arg))
    /\ UNCHANGED <<path, edit, tree, arg, work, at, leaked>>

Return(kind, ok) ==
    /\ pc' = "idle"
    /\ answer' = [kind |-> kind, ok |-> ok]
    /\ work' = <<>> /\ at' = 0 /\ frames' = <<>>
    /\ UNCHANGED <<path, edit, arg>>

MakeDirCall == Call("mkdir") /\ UNCHANGED frames

MakeDirFirst ==
    /\ pc = "mkdir"
    /\ MkdirEffect(arg)
    /\ UNCHANGED leaked
    /\ IF MkdirResult(arg) # "ENOENT" THEN Return("make", MkdirResult(arg) = "OK")
       ELSE /\ pc' = "mkdirs"
            /\ work' = Text(AppendArrayToPath(arg, EmptyPath).path)
            /\ UNCHANGED <<path, edit, arg, at, frames, answer>>

NextSlash == {i \in Slashes(work) : i > at}

\* Mutant: a directory that exists already ends the call.
GivesUpOnAny(result) == result # "OK"

\* mkdir failed and errno != EEXIST
GivesUp(result) == result \notin {"OK", "EEXIST"}

MakeDirNext ==
    /\ pc = "mkdirs"
    /\ NextSlash # {}
    /\ LET slash == Min(NextSlash)
           dir == SubSeq(work, 1, slash - 1)
       IN  /\ MkdirEffect(dir)
           /\ UNCHANGED leaked
           /\ IF GivesUp(MkdirResult(dir)) THEN Return("make", FALSE)
              ELSE at' = slash /\ UNCHANGED <<path, edit, arg, pc, work, frames, answer>>

\* A path that ends with a slash is done, and answers what the first mkdir did.
MakeDirLast ==
    /\ pc = "mkdirs"
    /\ NextSlash = {}
    /\ UNCHANGED leaked
    /\ IF at < Len(work) THEN MkdirEffect(arg) /\ Return("make", MkdirResult(arg) = "OK")
       ELSE UNCHANGED fsvars /\ Return("make", FALSE)

-----------------------------------------------------------------------------
(* RemoveDir.  A frame is a call of it: the text it was given, its directory
   stream and the entries that are still to come.                           *)

Frame(s) == [text |-> s, stream |-> "none", left |-> {}]
Top == frames[Len(frames)]
SetTop(f) == frames' = [frames EXCEPT ![Len(frames)] = f]
Open == Cardinality({i \in DOMAIN frames : frames[i].stream = "open"})

RemoveDirCall(RemoveAllFiles) ==
    /\ Call(IF RemoveAllFiles THEN "remove" ELSE "rmdir")
    /\ frames' = <<Frame(arg)>>

\* Which call it is that returns: with RemoveAllFiles every frame has a stream.
Removal == IF Top.stream = "none" THEN "rmdir" ELSE "remove"

\* The callers return false as they are: their streams stay open.
RemoveFails(open) ==
    /\ Return(Removal, FALSE)
    /\ leaked' = leaked + open

\* InitIterDir, and opendir in the first ListFiles: readdir of NULL crashes.
ListOpen ==
    /\ pc = "remove"
    /\ Top.stream = "none"
    /\ IF Len(Top.text) <= Size /\ IsDirText(Top.text) /\ Open + leaked < MaxDirs
       THEN /\ SetTop([text |-> Top.text, stream |-> "open", left |->
                          {<<c[Len(c)], tree[c]>> : c \in Children(Names(Top.text))}])
            /\ pc' = pc
       ELSE pc' = "crashed" /\ UNCHANGED frames
    /\ UNCHANGED <<path, edit, fsvars, arg, work, at, leaked, answer>>

\* Mutant: a directory is removed like a file.
IsDirNever(kind) == FALSE

\* d_type & DT_DIR, a bit that sockets and block devices have, too
IsDir(kind) == kind \in {"dir", "socket"}

\* ScratchPath.Base, which is Iter.AllFilesBuf.  Names have one length, so that
\* an append that fails leaves there what the entry before left.
EntryPath(dir, name) == CString(AppendPathToPath(name, Put(dir, EmptyPath)).path)

\* An entry: its path is put together, and what it names is removed.
RemoveEntry ==
    /\ pc = "remove"
    /\ Top.stream = "open"
    /\ \E e \in Top.left : \E scratch \in {EntryPath(Top.text, e[1])} :
         LET f == [Top EXCEPT !.left = @ \ {e}]
             q == Names(scratch)
         IN  /\ UNCHANGED history
             /\ IF IsDir(e[2])
                THEN /\ frames' = Append([frames EXCEPT ![Len(frames)] = f], Frame(scratch))
                     /\ UNCHANGED <<path, edit, tree, arg, pc, work, at, leaked, answer>>
                ELSE IF Reachable(scratch) /\ q \in DOMAIN tree /\ tree[q] # "dir"
                THEN /\ tree' = Without(q)
                     /\ SetTop(f)
                     /\ UNCHANGED <<path, edit, arg, pc, work, at, leaked, answer>>
                ELSE RemoveFails(Open) /\ UNCHANGED tree

\* Mutant: the stream is not closed at the end of the directory.
ListEndOpen ==
    /\ pc = "remove"
    /\ Top.stream = "open" /\ Top.left = {}
    /\ SetTop([Top EXCEPT !.stream = "closed"])
    /\ pc' = "rmdir" /\ leaked' = leaked + 1
    /\ UNCHANGED <<path, edit, fsvars, arg, work, at, answer>>

\* closedir, and ListFiles answers false
ListEnd ==
    /\ pc = "remove"
    /\ Top.stream = "open" /\ Top.left = {}
    /\ SetTop([Top EXCEPT !.stream = "closed"])
    /\ pc' = "rmdir"
    /\ UNCHANGED <<path, edit, fsvars, arg, work, at, leaked, answer>>

Rmdir ==
    /\ pc = "rmdir"
    /\ UNCHANGED history
    /\ LET q == Names(Top.text)
       IN  IF /\ IsDirText(Top.text) /\ NamePart(Top.text) \notin {<<>>, <<".">>, <<".", ".">>}
              /\ Children(q) = {}
           THEN /\ tree' = Without(q)
                /\ IF Len(frames) = 1 THEN Return(Removal, TRUE) /\ UNCHANGED leaked
                   ELSE /\ frames' = SubSeq(frames, 1, Len(frames) - 1)
                        /\ pc' = "remove"
                        /\ UNCHANGED <<path, edit, arg, work, at, leaked, answer>>
           ELSE RemoveFails(Open) /\ UNCHANGED tree

-----------------------------------------------------------------------------
\* Another process creates a directory or a file, or removes one.
Others ==
    /\ pc \notin {"edit", "crashed"}
    /\ before' = <<>> /\ alone' = FALSE
    /\ \E q \in Places :
          \/ /\ q \notin DOMAIN tree /\ IsDirectory(Parent(q))
             /\ \E kind \in {"dir", "file"} :
                   /\ tree' = With(q, kind)
                   /\ hindered' = (hindered \/ kind = "file" \/ q = Names(arg))
          \/ /\ q \in DOMAIN tree /\ Children(q) = {}
             /\ tree' = Without(q)
             /\ hindered' = TRUE
    /\ UNCHANGED <<path, edit, call>>

MakeDir == MakeDirCall \/ MakeDirFirst \/ MakeDirNext \/ MakeDirLast
RemoveDir ==
    (\E all \in BOOLEAN : RemoveDirCall(all)) \/ ListOpen \/ RemoveEntry \/ ListEnd \/ Rmdir

Next == AppendToPath \/ AppendCWDToPath \/ MoveUp \/ UsePath \/ MakeDir \/ RemoveDir \/ Others

Spec == Init /\ [][Next]_vars

-----------------------------------------------------------------------------
(* Properties.                                                              *)

(* An append that answers true leaves a path to where its argument leads from
   where the path led, absolute if it was, with every directory "." and ".."
   taken out of the text, and terminated; one that answers false leaves the
   text alone, unless it had moved up before it ran out of room.  MoveUpPath
   leaves a path to the directories above.  With an empty part it takes back
   that one, and "./" before one leaves an absolute path: none is promised
   where two slashes meet.                                                  *)
PathDenotes ==
    /\ edit.kind = "append" /\ edit.ok =>
          /\ NoEmptyPart(edit.was) /\ NoEmptyPart(edit.arg) =>
                /\ Names(Text(path)) = Names(Behind(edit.was, edit.arg))
                /\ Absolute(Text(path)) <=> Absolute(Behind(edit.was, edit.arg))
          /\ Plain(edit.was) => \A i \in Slashes(Text(path)) :
                PartEnding(Text(path), i) \notin {<<".">>, <<".", ".">>}
          /\ CString(path) = Text(path)
    /\ edit.kind = "append" /\ ~edit.ok
          /\ (\A i \in Slashes(edit.arg) : PartEnding(edit.arg, i) # <<".", ".">>) =>
          Text(path) = edit.was
    /\ edit.kind = "up" /\ Plain(edit.was) /\ NoEmptyPart(edit.was)
          /\ Len(Names(edit.was)) > edit.up + (IF Absolute(edit.was) THEN 0 ELSE -1) =>
          Names(Text(path)) = SubSeq(Names(edit.was), 1, Len(Names(edit.was)) - edit.up)

(* A file created with HIDDEN_FILE is one that IsFileHidden calls hidden, in
   the directory of its path and under its name but for the dot, whatever path
   was built.  The path has a slash, and if it is given a dot there is room for
   it: a path of MAX_PATH_SIZE - 1 characters leaves none for the NUL.      *)
HiddenIsHidden ==
    LET Old == CString(path)
        h == CString(HiddenName(Old))
    IN  /\ Slashes(Old) # {} /\ Tail0(Old) \notin {<<".">>, <<".", ".">>}
        /\ Len(Old) < Size \/ FirstByteHidden(Old)
        => /\ FirstByteHidden(h)
           /\ SubSeq(h, 1, LastSlash(h)) = SubSeq(Old, 1, LastSlash(Old))
           /\ Tail0(h) \in {Tail0(Old), <<".">> \o Tail0(Old)}

(* MakeDir of a relative path creates the directory and those above it, also
   while others create some of them, unless something was there or in the way. *)
MakeDirSucceeds ==
    LET target == Names(arg)
    IN  answer.kind = "make" =>
            /\ answer.ok /\ ~hindered => IsDirectory(target)
            /\ answer.ok /\ alone /\ StaysBelow(<<>>, arg) /\ NoEmptyPart(arg) =>
                  tree = [q \in DOMAIN before \cup Above(target) |->
                             IF q \in DOMAIN before THEN before[q] ELSE "dir"]
            /\ ~hindered /\ Above(target) \subseteq Places
                  /\ ~Absolute(arg) /\ arg[Len(arg)] # "/" /\ target # <<>>
                  /\ Plain(arg) => answer.ok

(* RemoveDir of a path without "." and ".." that others do not disturb and
   that answers true has removed the directory and what was below it, and
   nothing else.  With RemoveAllFiles it answers false, or crashes, only if
   there was no such directory, it held a socket or block device, or it is
   deeper than paths or streams allow; without, only if it was not there or not
   empty.                                                                   *)
RemoveDirExact ==
    LET target == Names(arg)
        Below == {q \in DOMAIN before : Len(q) >= Len(target) /\ SubSeq(q, 1, Len(target)) = target}
        NoSuchDir == target \notin DOMAIN before \/ before[target] # "dir"
        TooMuch == \E q \in Below : \/ before[q] = "socket"
                                   \/ Len(arg) + 2 * (Len(q) - Len(target)) > Size
                                   \/ Len(q) - Len(target) + leaked >= MaxDirs
    IN  alone /\ Plain(arg) =>
            /\ answer.kind \in {"remove", "rmdir"} \/ pc = "crashed" =>
                  /\ \A q \in DOMAIN before \ Below : q \in DOMAIN tree /\ tree[q] = before[q]
                  /\ DOMAIN tree \subseteq DOMAIN before
            /\ answer.kind \in {"remove", "rmdir"} =>
                  (answer.ok <=> target \in DOMAIN before /\ DOMAIN tree \cap Below = {})
            /\ answer.kind = "rmdir" /\ ~answer.ok => NoSuchDir \/ Below # {target}
            /\ (answer.kind = "remove" /\ ~answer.ok) \/ pc = "crashed" => NoSuchDir \/ TooMuch

(* Directory streams are lost only by a call that answers false.            *)
StreamsClosed ==
    [][leaked' # leaked => answer'.kind = "remove" /\ ~answer'.ok]_vars
=============================================================================
