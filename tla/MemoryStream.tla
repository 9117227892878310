---------------------------- MODULE MemoryStream ----------------------------
(***************************************************************************)
(* AvmMemoryStream (src/src/avm.io/memory-stream.c) behind the calls of    *)
(* io.c: an AvmArrayList of bytes, whose growth is that of Storage, and a  *)
(* position of type size_t. A write appends to the list, wherever the      *)
(* position is; a read takes what lies at the position, whether or not     *)
(* that was written or is inside the memory at all.                        *)
(***************************************************************************)
EXTENDS Naturals, Sequences, SequencesExt

CONSTANTS Bytes, Newline,
          Junk,          \* memory nobody wrote
          M,             \* the range of uint
          P,             \* the range of size_t
          Limit,         \* the most bytes the program ever wants in the stream
          MaxChunk       \* the longest byte array it passes

ASSUME MemoryStreamAssumption ==
    /\ {M, P, Limit, MaxChunk} \subseteq Nat
    /\ Newline \notin Bytes
    /\ 2 * Limit < M     \* so that no assertion of the growth code fails
    /\ P >= M

VARIABLES list,      \* _list: its capacity, length and the memory at _items
          position,  \* _position
          fault,     \* "none", or what stopped the program
          call,      \* history: the last call, with its arguments
          answer     \* the bytes it returned

vars == <<list, position, fault, call, answer>>

Memory == INSTANCE Storage WITH
    ItemSize  <- 1,
    capacity  <- list.capacity,
    length    <- list.length,
    allocated <- Len(list.items),
    fault     <- "none"

Wrap(x) == x % P

(* AvmStreamFromMemory.                                                    *)
Init ==
    /\ \E c \in 0..Limit : list = [capacity |-> c, length |-> 0, items |-> [i \in 1..c |-> Junk]]
    /\ position = 0
    /\ fault = "none" /\ call = <<"New">> /\ answer = <<>>

(* Mutant: the capacity grows, the memory does not.                        *)
PushedUnallocated(l, b) ==
    LET c == Memory!NewCapacity(l.capacity, l.length, 1)
    IN  [capacity |-> c, length |-> l.length + 1,
         items |-> [i \in 1..(l.length + 1) |->
            IF i = l.length + 1 THEN b ELSE IF i <= Len(l.items) THEN l.items[i] ELSE Junk]]

(* AvmListPush of one byte, which grows the list when it is full.          *)
Pushed(l, b) ==
    LET c == Memory!NewCapacity(l.capacity, l.length, 1)
    IN  [capacity |-> c, length |-> l.length + 1,
         items |-> [i \in 1..c |->
            IF i = l.length + 1 THEN b ELSE IF i <= Len(l.items) THEN l.items[i] ELSE Junk]]

(* Several, one after the other.                                           *)
PushedAll(l, bs) ==
    LET after[n \in 0..Len(bs)] == IF n = 0 THEN l ELSE Pushed(after[n - 1], bs[n])
    IN  after[Len(bs)]

Returns(name, args, result) == call' = <<name>> \o args /\ answer' = result

(* Mutant: the position stays where it was.                                *)
WriteBytesInPlace(bs) ==
    /\ fault = "none"
    /\ list.length + Len(bs) <= Limit
    /\ list' = PushedAll(list, bs)
    /\ UNCHANGED position

(***************************************************************************)
(* AvmMemoryStreamWrite pushes the bytes one by one, so a long write may   *)
(* grow the list more than once.                                           *)
(***************************************************************************)
WriteBytes(bs) ==
    /\ fault = "none"
    /\ list.length + Len(bs) <= Limit
    /\ list' = PushedAll(list, bs)
    /\ position' = Wrap(position + Len(bs))

Write(bs) ==
    /\ WriteBytes(bs)
    /\ Returns("Write", <<bs>>, <<>>)
    /\ UNCHANGED fault

(* AvmStreamWriteLine. An empty string without a buffer is a NULL that     *)
(* AvmStreamWrite asserts not to get.                                      *)
WriteLine(bs, allocated) ==
    /\ allocated \/ bs = <<>>
    /\ IF allocated
       THEN WriteBytes(Append(bs, Newline)) /\ UNCHANGED fault
       ELSE fault = "none" /\ fault' = "assert_buffer" /\ UNCHANGED <<list, position>>
    /\ Returns("WriteLine", <<bs>>, <<>>)

(* Mutant: one byte more than there are.                                   *)
GetLengthPlusOne == list.capacity + 1

(* AvmMemoryStreamGetLength: the capacity of the list.                     *)
GetLength == list.capacity

(* The n bytes from the position on; what lies behind the memory is Junk.  *)
BytesAt(n) ==
    [k \in 1..n |-> IF position + k <= Len(list.items) THEN list.items[position + k] ELSE Junk]

(* A read of n bytes: the position follows, inside the memory or not.      *)
ReadBytes(n) ==
    /\ fault' = IF position + n <= Len(list.items) THEN "none" ELSE "overread"
    /\ position' = Wrap(position + n)

(* AvmStreamRead, by a program that reads as far as it is told it may.     *)
Read(n) ==
    /\ fault = "none"
    /\ position + n <= GetLength
    /\ ReadBytes(n)
    /\ Returns("Read", <<n>>, BytesAt(n))
    /\ UNCHANGED list

(***************************************************************************)
(* AvmStreamReadLine with an error variable: reads bytes until one is a    *)
(* newline, and does not keep that one. The program knows of the newline.  *)
(***************************************************************************)
ReadLine ==
    /\ fault = "none"
    /\ \E n \in 1..(list.length - position) :
        /\ list.items[position + n] = Newline
        /\ \A k \in 1..(n - 1) : list.items[position + k] # Newline
        /\ ReadBytes(n)
        /\ Returns("ReadLine", <<>>, BytesAt(n - 1))
    /\ UNCHANGED list

(* Mutant: a signed position that does not wrap around.                    *)
SeeksUnwrapped(name, offset, where) ==
    /\ fault = "none"
    /\ position' = where
    /\ Returns(name, <<offset>>, <<>>)
    /\ UNCHANGED <<list, fault>>

Seeks(name, offset, where) ==
    /\ fault = "none"
    /\ position' = Wrap(where)
    /\ Returns(name, <<offset>>, <<>>)
    /\ UNCHANGED <<list, fault>>

(* AvmMemoryStreamSeek from the beginning, by -offset from the current     *)
(* position, and by -offset from the end. Nothing checks where it leads.   *)
SeekBegin(offset) == Seeks("SeekBegin", offset, offset)
SeekBack(offset) == Seeks("SeekBack", offset, position + P - offset)
SeekEnd(offset) == Seeks("SeekEnd", offset, GetLength + P - offset)

Next ==
    \/ \E bs \in BoundedSeq(Bytes \cup {Newline}, MaxChunk) : Write(bs)
    \/ \E bs \in BoundedSeq(Bytes, MaxChunk), allocated \in BOOLEAN : WriteLine(bs, allocated)
    \/ \E n \in 0..Limit : Read(n) \/ SeekBegin(n) \/ SeekBack(n) \/ SeekEnd(n)
    \/ ReadLine

Spec == Init /\ [][Next]_vars
-----------------------------------------------------------------------------
TypeOK ==
    /\ list.capacity \in 0..(M - 1) /\ list.length \in 0..(M - 1)
    /\ list.items \in BoundedSeq(Bytes \cup {Newline, Junk}, 2 * Limit)
    /\ position \in 0..(P - 1)
    /\ fault \in {"none", "assert_buffer", "overread"}

(***************************************************************************)
(* A program that keeps its position plus what it reads within             *)
(* AvmStreamGetLength never reads behind the memory, however it seeks and  *)
(* writes: the capacity it is told is always allocated.                    *)
(***************************************************************************)
ReadsStayInside == fault # "overread"

(***************************************************************************)
(* The promised stream, call by call. The code keeps no promise to a       *)
(* program that writes in front of the end, reads behind what was written, *)
(* seeks from the end or below 0, or writes a line without a buffer; what  *)
(* such a call does is the promised stream again for the calls after it.   *)
(***************************************************************************)
Promise == INSTANCE ByteStream WITH bytes <- SubSeq(list.items, 1, list.length)

Unpromised ==
    \/ call'[1] \in {"Write", "WriteLine"} /\ (position # list.length \/ fault' # "none")
    \/ call'[1] = "Read" /\ position' > list.length
    \/ call'[1] = "SeekBack" /\ call'[2] > position
    \/ call'[1] = "SeekEnd"

ImplementsByteStream == Promise!Init /\ [][Unpromised \/ Promise!Next]_vars

(* The list of the stream keeps what StringPartsProof proves of single     *)
(* pushes, write after write.                                              *)
GrowsSafely == Memory!StorageSafe
=============================================================================
