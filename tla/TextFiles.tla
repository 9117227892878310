----------------------------- MODULE TextFiles ------------------------------
(***************************************************************************)
(* The whole-file calls of src/src/avm.io/file.c over the file streams of  *)
(* file-stream.c: tasks (threads or processes) that read, write, append,   *)
(* move and delete files at the same time. Each call is a sequence of      *)
(* system calls with the others' in between: stat, open and reads; or      *)
(* open, writes and close.                                                 *)
(*                                                                         *)
(* A byte is one that a task wrote as text, Spare (what lies behind the    *)
(* text of the string it wrote), Hole (what the system fills a hole in a   *)
(* file with) or Junk (memory the reader never filled).                    *)
(***************************************************************************)
EXTENDS Naturals, Sequences, FiniteSets, SequencesExt

CONSTANTS Writers, Readers,
          Paths, Inodes, None,
          WriteTexts,   \* what the writers write
          AppendTexts,  \* and what they append
          Spare, Hole, Junk,
          M,            \* the range of uint
          MaxCapacity,  \* bound on the capacity of a string that is passed
          MaxSize,      \* bound on the size of a file
          OldText,      \* lengths of the text a reader's string holds before
          DiskFails     \* may a read, a write or a close fail?

ASSUME TextFilesAssumption ==
    /\ Writers \cap Readers = {}
    /\ None \notin Inodes
    /\ DiskFails \in BOOLEAN

VARIABLES dir,   \* dir[path]: the file at that path
          data,  \* data[i]: the bytes of file i
          task   \* task[p]: the call that p is in

vars == <<dir, data, task>>

Tasks == Writers \cup Readers

Appended == UNION {ToSet(text) : text \in AppendTexts}
Byte == Appended \cup UNION {ToSet(text) : text \in WriteTexts}

ASSUME TextsAssumption ==
    /\ WriteTexts \subseteq Seq(Byte)
    /\ AppendTexts \subseteq Seq(Appended)
    /\ Junk \notin Byte \cup {Spare, Hole}
    /\ {M, MaxCapacity, MaxSize} \subseteq Nat /\ M > 0
    /\ OldText \subseteq Nat

Growth == INSTANCE Storage WITH
    ItemSize <- 1, Limit <- MaxSize,
    capacity <- 0, length <- 0, allocated <- 0, fault <- "none"

(* old is the length of the string before the call, moved the number of    *)
(* bytes that went from or to the file so far, and result what the call    *)
(* returned last. History: whether the system failed the call, and whether *)
(* the file was truncated between two reads of it.                         *)
Idle == [pc |-> "idle", path |-> None, access |-> "none", handle |-> None, old |-> 0,
         moved |-> 0, torn |-> FALSE,
         string |-> [capacity |-> 0, length |-> 0, buffer |-> <<>>],
         result |-> "none", failed |-> FALSE]

Init ==
    /\ dir = [p \in Paths |-> None]
    /\ data = [i \in Inodes |-> <<>>]
    /\ task = [t \in Tasks |-> Idle]

(* The call of t ends: AvmFilePerform returns result.                      *)
Return(t, result, failed) ==
    task' = [task EXCEPT ![t] = [Idle EXCEPT !.result = result, !.failed = failed]]

(* The files that a path or an open handle refers to; the system frees the *)
(* others, and data' follows from dir', task' and what was written.        *)
InUse == {dir[p] : p \in Paths} \cup {task[t].handle : t \in Tasks}

Keeps(bytes) ==
    \E used \in {InUse'} : data' = [i \in Inodes |-> IF i \in used THEN bytes[i] ELSE <<>>]

-----------------------------------------------------------------------------
(***************************************************************************)
(* AvmFileWriteAllText and AvmFileAppendAllText: the whole capacity of the *)
(* string is written, not its length. A string without a buffer fails the  *)
(* assertion of AvmFilePerform.                                            *)
(***************************************************************************)
PutAllText(t, path, text, capacity, access) ==
    /\ task[t].pc = "idle"
    /\ Len(text) <= capacity
    /\ task' = [task EXCEPT ![t] =
            [Idle EXCEPT !.pc = IF capacity = 0 THEN "aborted" ELSE "open",
                         !.path = path, !.access = access,
                         !.string = [capacity |-> capacity, length |-> Len(text),
                                     buffer |-> text \o [i \in 1..(capacity - Len(text)) |-> Spare]]]]
    /\ UNCHANGED <<dir, data>>

WriteAllText(t, path, text, capacity) == PutAllText(t, path, text, capacity, "w")
AppendAllText(t, path, text, capacity) == PutAllText(t, path, text, capacity, "a")

(* Mutant: the capacity grows, the buffer does not.                        *)
RoomForUnallocated(s, n) ==
    [s EXCEPT !.capacity = Growth!NewCapacity(s.capacity, s.length, n), !.length = @ + n]

(* AvmStringEnsureCapacity(s, n) and AvmStringUnsafeSetLength.             *)
RoomFor(s, n) ==
    LET c == Growth!NewCapacity(s.capacity, s.length, n)
    IN  [capacity |-> c, length |-> s.length + n,
         buffer |-> [i \in 1..c |-> IF i <= Len(s.buffer) THEN s.buffer[i] ELSE Junk]]

(***************************************************************************)
(* AvmFileReadAllText until it opens the file: stat, and room for as many  *)
(* bytes as the file has now, which already count as text.                 *)
(***************************************************************************)
ReadAllText(t, path, capacity, old) ==
    LET s == [capacity |-> capacity, length |-> old, buffer |-> [i \in 1..capacity |-> Junk]]
        grown == RoomFor(s, Len(data[dir[path]]))
    IN  /\ task[t].pc = "idle"
        /\ old <= capacity
        /\ IF dir[path] = None THEN Return(t, "error", TRUE)
           ELSE task' = [task EXCEPT ![t] =
                    [Idle EXCEPT !.pc = IF grown.buffer = <<>> THEN "aborted" ELSE "open",
                                 !.path = path, !.access = "r", !.old = old, !.string = grown]]
        /\ UNCHANGED <<dir, data>>

(* Mutant: mode r+ in place of w, which does not truncate the file.        *)
FileOpenUntruncated(t) ==
    /\ task[t].pc = "open"
    /\ \/ Return(t, "error", TRUE) /\ UNCHANGED <<dir, data>>
       \/ \E i \in Inodes :
            /\ \/ i = dir[task[t].path] /\ UNCHANGED dir
               \/ /\ dir[task[t].path] = None /\ task[t].access # "r"
                  /\ i \notin InUse
                  /\ dir' = [dir EXCEPT ![task[t].path] = i]
            /\ task' = [task EXCEPT ![t].pc = "transfer", ![t].handle = i]
            /\ UNCHANGED data

(* History: whoever has read a part of file i reads the rest of another.   *)
Torn(i) ==
    [u \in Tasks |-> [task[u] EXCEPT !.torn = @ \/ (task[u].handle = i /\ task[u].moved > 0)]]

(* AvmFileOpen: mode r needs the file, w truncates it or creates it, and a *)
(* creates it. Opening may fail for other reasons (EACCES, EMFILE).        *)
FileOpen(t) ==
    /\ task[t].pc = "open"
    /\ \/ Return(t, "error", TRUE) /\ UNCHANGED <<dir, data>>
       \/ \E i \in Inodes :
            /\ \/ i = dir[task[t].path] /\ UNCHANGED dir
               \/ /\ dir[task[t].path] = None /\ task[t].access # "r"
                  /\ i \notin InUse
                  /\ dir' = [dir EXCEPT ![task[t].path] = i]
            /\ data' = IF task[t].access = "w" THEN [data EXCEPT ![i] = <<>>] ELSE data
            /\ task' = [IF task[t].access = "w" THEN Torn(i) ELSE task
                         EXCEPT ![t].pc = "transfer", ![t].handle = i]

(* What c has when the bytes up to the n-th were copied behind its old     *)
(* text: more to read, all of it, or more than the buffer has room for.    *)
ReadUpTo(c, bytes, n) ==
    LET read == [c EXCEPT !.moved = n,
                    !.string.buffer = [i \in DOMAIN @ |->
                        IF i \in (c.old + c.moved + 1)..(c.old + n) THEN bytes[i - c.old]
                        ELSE @[i]]]
    IN  IF c.old + n > Len(c.string.buffer) THEN [read EXCEPT !.pc = "overrun"]
        ELSE IF n < c.string.capacity THEN read
        ELSE [read EXCEPT !.pc = "idle", !.path = None, !.handle = None, !.moved = 0]

(***************************************************************************)
(* AvmFileStreamRead of as many bytes as the string has capacity for: what *)
(* one read(2) of fread brings. fread goes on until it has them all, then  *)
(* AvmFileStreamDestroy closes the file.                                   *)
(***************************************************************************)
FileRead(t) ==
    /\ task[t].pc = "transfer" /\ task[t].access = "r"
    /\ \E n \in (task[t].moved + 1)..task[t].string.capacity :
            /\ n <= Len(data[task[t].handle])
            /\ task' = [task EXCEPT ![t] = ReadUpTo(task[t], data[task[t].handle], n)]
    /\ UNCHANGED dir
    /\ Keeps(data)

(* Mutant: a short read is not an error.                                   *)
FileReadShort(t) ==
    /\ task[t].pc = "transfer" /\ task[t].access = "r"
    /\ Len(data[task[t].handle]) <= task[t].moved
    /\ task' = [task EXCEPT ![t].pc = "idle", ![t].path = None, ![t].handle = None, ![t].moved = 0]
    /\ UNCHANGED dir
    /\ Keeps(data)

(* fread stops before, at the end of the file or because a read(2) fails:  *)
(* fewer bytes are an error.                                               *)
FileReadEnds(t) ==
    /\ task[t].pc = "transfer" /\ task[t].access = "r"
    /\ \/ Len(data[task[t].handle]) <= task[t].moved /\ Return(t, "error", FALSE)
       \/ DiskFails /\ Return(t, "error", TRUE)
    /\ UNCHANGED dir
    /\ Keeps(data)

(* File c.handle after the bytes of c's buffer up to the k-th reached it:  *)
(* at its end, or where the one before them was put.                       *)
Stored(c, k) ==
    LET bytes == data[c.handle]
        piece == SubSeq(c.string.buffer, c.moved + 1, k)
    IN  IF c.access = "a" THEN bytes \o piece
        ELSE [i \in 1..c.moved |-> IF i <= Len(bytes) THEN bytes[i] ELSE Hole]
                \o piece \o SubSeq(bytes, k + 1, Len(bytes))

Stores(t, k) ==
    LET bytes == IF k = task[t].moved THEN data[task[t].handle] ELSE Stored(task[t], k)
    IN  /\ Len(bytes) <= MaxSize
        /\ UNCHANGED dir
        /\ Keeps([data EXCEPT ![task[t].handle] = bytes])

(***************************************************************************)
(* AvmFileStreamWrite: a write(2) puts more of the bytes on the disk, the  *)
(* buffer of the FILE has room for the rest, or the disk has no room for   *)
(* all of them, nor for all that AvmFileStreamDestroy tries again.         *)
(***************************************************************************)
FileWrite(t) ==
    /\ task[t].pc = "transfer" /\ task[t].access # "r"
    /\ \/ \E k \in (task[t].moved + 1)..task[t].string.capacity :
            task' = [task EXCEPT ![t].moved = k] /\ Stores(t, k)
       \/ task' = [task EXCEPT ![t].pc = "close"] /\ UNCHANGED <<dir, data>>
       \/ /\ DiskFails
          /\ Return(t, "error", TRUE)
          /\ \E k \in task[t].moved..(task[t].string.capacity - 1) : Stores(t, k)

(* AvmFileStreamDestroy: fclose writes the buffer to the disk; whether it  *)
(* could is not looked at.                                                 *)
FileClose(t) ==
    /\ task[t].pc = "close"
    /\ \/ Return(t, "none", FALSE) /\ Stores(t, task[t].string.capacity)
       \/ /\ DiskFails
          /\ Return(t, "none", TRUE)
          /\ \E k \in task[t].moved..(task[t].string.capacity - 1) : Stores(t, k)

FileDelete(t, path) ==
    /\ task[t].pc = "idle"
    /\ \/ Return(t, "error", TRUE) /\ UNCHANGED dir
       \/ /\ dir[path] # None
          /\ Return(t, "none", FALSE)
          /\ dir' = [dir EXCEPT ![path] = None]
    /\ Keeps(data)

FileMove(t, source, destination) ==
    /\ task[t].pc = "idle"
    /\ \/ Return(t, "error", TRUE) /\ UNCHANGED dir
       \/ /\ dir[source] # None
          /\ Return(t, "none", FALSE)
          /\ dir' = [p \in Paths |-> IF p = destination THEN dir[source]
                                     ELSE IF p = source THEN None ELSE dir[p]]
    /\ Keeps(data)

WriterStep(t) ==
    \/ \E path \in Paths, capacity \in 0..MaxCapacity :
            \/ \E text \in WriteTexts : WriteAllText(t, path, text, capacity)
            \/ \E text \in AppendTexts : AppendAllText(t, path, text, capacity)
    \/ \E path \in Paths : FileDelete(t, path)
    \/ \E source, destination \in Paths : FileMove(t, source, destination)
    \/ FileWrite(t)
    \/ FileClose(t)

Next ==
    \/ \E t \in Writers : WriterStep(t)
    \/ \E t \in Readers :
            \/ \E path \in Paths, capacity \in 0..MaxCapacity, old \in OldText :
                    ReadAllText(t, path, capacity, old)
            \/ FileRead(t)
            \/ FileReadEnds(t)
    \/ \E t \in Tasks : FileOpen(t)

Spec == Init /\ [][Next]_vars
-----------------------------------------------------------------------------
TypeOK ==
    /\ dir \in [Paths -> Inodes \cup {None}]
    /\ data \in [Inodes -> BoundedSeq(Byte \cup {Spare, Hole}, MaxSize)]
    /\ \A t \in Tasks :
        /\ task[t].pc \in {"idle", "open", "transfer", "close", "aborted", "overrun"}
        /\ task[t].handle \in Inodes \cup {None}
        /\ task[t].string.capacity = Len(task[t].string.buffer)

(* A reader whose last call reported success, and the bytes it gained.     *)
ReadWell(t) == task[t].pc = "idle" /\ task[t].access = "r" /\ task[t].result = "none"

Gained(t) == SubSeq(task[t].string.buffer, task[t].old + 1, task[t].string.length)

(***************************************************************************)
(* Between the stat that sizes the string and the read, writers truncate,  *)
(* extend, replace or delete the file. A read that reports success never   *)
(* counts memory as text that the file did not fill.                       *)
(***************************************************************************)
ReadsAreHonest ==
    \A t \in Readers : ReadWell(t) =>
        /\ task[t].string.length <= Len(task[t].string.buffer)
        /\ \A i \in DOMAIN Gained(t) : Gained(t)[i] # Junk

(***************************************************************************)
(* With one writer, what a successful reader gets is of one call of        *)
(* AvmFileWriteAllText: it begins as its text did, and goes on with what   *)
(* AvmFileAppendAllText added. Only if the writer opens the file to write  *)
(* it anew after the reader read a part of it may the rest be of another.  *)
(***************************************************************************)
ReadsAreOfOneWrite ==
    \A t \in Readers : ReadWell(t) /\ ~ task[t].torn =>
        \E text \in WriteTexts \cup {<<>>}, n \in 0..MaxCapacity, k \in 0..Len(Gained(t)) :
            /\ IsPrefix(SubSeq(Gained(t), 1, k), text \o [i \in 1..n |-> Spare])
            /\ \A i \in (k + 1)..Len(Gained(t)) : Gained(t)[i] \in Appended \cup {Spare}

-----------------------------------------------------------------------------
(* file.h:91 "@return Any error that occurred.": no failure of the system  *)
(* goes unreported.                                                        *)
ErrorsAreReported ==
    \A t \in Tasks : task[t].pc = "idle" /\ task[t].failed => task[t].result = "error"
=============================================================================
