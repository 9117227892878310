--------------------------- MODULE TextFilesProof ---------------------------
(***************************************************************************)
(* The whole-file calls, for any tasks, paths, texts and sizes: what a     *)
(* read that reports success has read.                                     *)
(***************************************************************************)
EXTENDS TextFiles, SequenceTheorems, TLAPS

(* No string and no file comes near half the range of uint, so that the    *)
(* growth of the string that a file is read into does not wrap around.     *)
SizesFit == 2 * (MaxCapacity + MaxSize) < M

FileByte == Byte \cup {Spare, Hole}
Contents == BoundedSeq(FileByte, MaxSize)

String == [capacity : Nat, length : Nat, buffer : Seq(FileByte \cup {Junk})]

Call == [pc : {"idle", "open", "transfer", "close", "aborted", "overrun"},
         path : Paths \cup {None}, access : {"none", "r", "w", "a"},
         handle : Inodes \cup {None}, old : Nat, moved : Nat, torn : BOOLEAN, string : String,
         result : {"none", "error"}, failed : BOOLEAN]

(* The string a call passes holds what its point in the call says: while   *)
(* the file is read, what came from it so far lies behind the old text.    *)
Fits(s) == s.length <= Len(s.buffer)
Filled(s) == s.buffer \in Seq(FileByte)

Well(c) == c.pc = "idle" /\ c.access = "r" /\ c.result = "none"

Busy(c) == c.pc \in {"open", "transfer", "close"}

Shape(c) ==
    /\ c.string.capacity = Len(c.string.buffer)
    /\ c.pc = "open" => c.path \in Paths /\ c.moved = 0
    /\ c.pc \in {"transfer", "close"} => c.handle \in Inodes
    /\ c.pc = "close" => c.access # "r"
    /\ Busy(c) => c.access # "none"
    /\ Busy(c) /\ c.access # "r" => Filled(c.string) /\ c.moved <= c.string.capacity
    /\ c.pc \in {"open", "transfer"} /\ c.access = "r" =>
            /\ Fits(c.string)
            /\ c.old + c.moved <= c.string.capacity \/ c.moved = 0
            /\ \A i \in 1..c.moved : c.string.buffer[c.old + i] \in FileByte
    /\ Well(c) => c.old = 0 /\ Fits(c.string) /\ Filled(c.string)

Sound(c) == c \in Call /\ Shape(c)

FilesInv ==
    /\ dir \in [Paths -> Inodes \cup {None}]
    /\ data \in [Inodes -> Contents]
    /\ DOMAIN task = Tasks
    /\ \A t \in Tasks : Sound(task[t])

-----------------------------------------------------------------------------
LEMMA ContentsAre ==
    ASSUME NEW b
    PROVE  b \in Contents <=> b \in Seq(FileByte) /\ Len(b) <= MaxSize
<1>1. MaxSize \in Nat
  BY TextsAssumption
<1>2. ASSUME b \in Contents PROVE b \in Seq(FileByte) /\ Len(b) <= MaxSize
  <2>1. PICK m \in 0..MaxSize : b \in [1..m -> FileByte]
    BY <1>2 DEF Contents, BoundedSeq, SeqOf
  <2>2. QED
    BY <1>1, <2>1
<1>3. ASSUME b \in Seq(FileByte), Len(b) <= MaxSize PROVE b \in Contents
  <2>1. b \in [1..Len(b) -> FileByte] /\ Len(b) \in 0..MaxSize
    BY <1>1, <1>3, LenProperties
  <2>2. QED
    BY <2>1 DEF Contents, BoundedSeq, SeqOf
<1>4. QED
  BY <1>2, <1>3

(* The first k elements of a sequence.                                     *)
LEMMA Cut ==
    ASSUME NEW S, NEW s \in Seq(S), NEW k \in 0..Len(s)
    PROVE  /\ SubSeq(s, 1, k) \in Seq(S)
           /\ Len(SubSeq(s, 1, k)) = k
           /\ \A i \in 1..k : SubSeq(s, 1, k)[i] = s[i]
<1>1. k \in Int /\ \A i \in 1..k : s[i] \in S
  BY ElementOfSeq, LenProperties
<1>2. QED
  BY <1>1, SubSeqProperties

LEMMA EmptyContents == <<>> \in Contents
<1>1. <<>> \in Seq(FileByte) /\ Len(<<>>) = 0 /\ 0 <= MaxSize
  BY EmptySeq, TextsAssumption
<1>2. QED
  BY <1>1, ContentsAre

LEMMA FunctionIsSeq ==
    ASSUME NEW S, NEW n \in Nat, NEW f \in [1..n -> S]
    PROVE  f \in Seq(S) /\ Len(f) = n
OBVIOUS

(* EnsureCapacity makes room for the whole file behind the old text.       *)
LEMMA RoomIsMade ==
    ASSUME SizesFit, NEW c \in 0..MaxCapacity, NEW old \in 0..c, NEW n \in 0..MaxSize
    PROVE  /\ Growth!NewCapacity(c, old, n) \in Nat
           /\ old + n <= Growth!NewCapacity(c, old, n)
<1>1. /\ M \in Nat /\ MaxCapacity \in Nat /\ MaxSize \in Nat
  BY TextsAssumption
<1>2. /\ c \in Nat /\ old \in Nat /\ n \in Nat /\ old <= c
      /\ old + n \in Nat /\ old + n < M /\ 2 * c \in Nat /\ 2 * c < M
      /\ 2 * c + n \in Nat /\ 2 * c + n < M
  BY <1>1 DEF SizesFit
<1>3. /\ (old + n) % M = old + n /\ (2 * c) % M = 2 * c /\ (2 * c + n) % M = 2 * c + n
  BY <1>1, <1>2
<1>4. QED
  BY <1>2, <1>3 DEF Growth!NewCapacity, Growth!MustGrow, Growth!Wrap

LEMMA RoomForFits ==
    ASSUME SizesFit, NEW s \in String, s.capacity = Len(s.buffer),
           s.capacity <= MaxCapacity, s.length <= s.capacity, NEW n \in 0..MaxSize
    PROVE  /\ RoomFor(s, n) \in String
           /\ RoomFor(s, n).capacity = Len(RoomFor(s, n).buffer)
           /\ Fits(RoomFor(s, n))
<1> DEFINE c == Growth!NewCapacity(s.capacity, s.length, n)
           b == [i \in 1..c |-> IF i <= Len(s.buffer) THEN s.buffer[i] ELSE Junk]
<1>1. /\ s.capacity \in 0..MaxCapacity /\ s.length \in 0..s.capacity
      /\ n \in Nat /\ s.length \in Nat /\ s.buffer \in Seq(FileByte \cup {Junk})
  BY TextsAssumption DEF String
<1>2. c \in Nat /\ s.length + n <= c
  BY <1>1, RoomIsMade
<1> HIDE DEF c
<1>3. \A i \in 1..c : (IF i <= Len(s.buffer) THEN s.buffer[i] ELSE Junk) \in FileByte \cup {Junk}
  BY <1>1, <1>2, ElementOfSeq, LenProperties
<1>4. b \in Seq(FileByte \cup {Junk}) /\ Len(b) = c
  BY <1>2, <1>3
<1>5. RoomFor(s, n) = [capacity |-> c, length |-> s.length + n, buffer |-> b]
  BY DEF RoomFor, c
<1> HIDE DEF b
<1>6. QED
  BY <1>1, <1>2, <1>4, <1>5 DEF String, Fits

(* The calls that begin, and the one that ends.                            *)
LEMMA IdleSound ==
    ASSUME NEW result \in {"none", "error"}, NEW failed \in BOOLEAN
    PROVE  Sound([Idle EXCEPT !.result = result, !.failed = failed])
<1>1. <<>> \in Seq(FileByte \cup {Junk}) /\ Len(<<>>) = 0
  BY EmptySeq
<1>2. QED
  BY <1>1 DEF Sound, Shape, Idle, Call, String, Well, Busy

(* A step that gives t the call c and keeps the rest in order.             *)
LEMMA StepKeeps ==
    ASSUME FilesInv, NEW t \in Tasks, NEW c, Sound(c), task' = [task EXCEPT ![t] = c],
           dir' \in [Paths -> Inodes \cup {None}], data' \in [Inodes -> Contents]
    PROVE  FilesInv'
BY DEF FilesInv

LEMMA KeepsContents ==
    ASSUME NEW bytes \in [Inodes -> Contents], Keeps(bytes)
    PROVE  /\ data' \in [Inodes -> Contents]
           /\ \A i \in Inodes : data'[i] \in {bytes[i], <<>>}
<1>1. PICK used : data' = [i \in Inodes |-> IF i \in used THEN bytes[i] ELSE <<>>]
  BY DEF Keeps
<1>2. QED
  BY <1>1, EmptyContents

(* The system keeps a file that a call has open.                           *)
LEMMA KeepsUsed ==
    ASSUME NEW bytes, Keeps(bytes), NEW u \in Tasks, task'[u].handle \in Inodes
    PROVE  data'[task'[u].handle] = bytes[task'[u].handle]
<1>1. task'[u].handle \in InUse'
  BY DEF InUse
<1>2. QED
  BY <1>1 DEF Keeps

LEMMA PutKeeps ==
    ASSUME FilesInv, NEW t \in Tasks, NEW path \in Paths, NEW capacity \in 0..MaxCapacity,
           NEW text \in WriteTexts \cup AppendTexts, NEW access \in {"w", "a"},
           PutAllText(t, path, text, capacity, access)
    PROVE  FilesInv'
<1> DEFINE n == capacity - Len(text)
           pad == [i \in 1..n |-> Spare]
           b == text \o pad
           s == [capacity |-> capacity, length |-> Len(text), buffer |-> b]
           c == [Idle EXCEPT !.pc = IF capacity = 0 THEN "aborted" ELSE "open",
                             !.path = path, !.access = access, !.string = s]
<1>1. text \in Seq(Byte) /\ Len(text) \in Nat /\ Len(text) <= capacity /\ capacity \in Nat
      /\ Len(text) + n = capacity /\ n \in Nat
  <2>1. \A x \in AppendTexts : x \in Seq(Byte)
    <3>1. Appended \subseteq Byte
      BY DEF Byte
    <3>2. QED
      BY <3>1, TextsAssumption
  <2>2. text \in Seq(Byte) /\ Len(text) <= capacity
    BY <2>1, TextsAssumption DEF PutAllText
  <2>3. QED
    BY <2>2, LenProperties, TextsAssumption
<1>2. pad \in Seq(FileByte) /\ Len(pad) = n
  BY <1>1 DEF FileByte
<1>3. b \in Seq(FileByte) /\ Len(b) = capacity
  <2>1. text \in Seq(FileByte)
    BY <1>1 DEF FileByte
  <2> HIDE DEF pad
  <2>2. QED
    BY <1>1, <1>2, <2>1, ConcatProperties
<1>4. task' = [task EXCEPT ![t] = c] /\ UNCHANGED <<dir, data>>
  BY DEF PutAllText
<1> HIDE DEF b
<1>5. s \in String /\ Filled(s)
  BY <1>1, <1>3 DEF String, Filled
<1>6. Sound(c)
  <2>1. /\ c \in Call /\ c.pc \in {"aborted", "open"} /\ c.path \in Paths /\ c.access = access
        /\ c.string = s /\ c.moved = 0
    BY <1>5 DEF Call, Idle
  <2> HIDE DEF c
  <2>2. Shape(c)
    BY <1>1, <1>3, <1>5, <2>1 DEF Shape, Well, Busy
  <2>3. QED
    BY <2>1, <2>2 DEF Sound
<1> HIDE DEF c
<1>7. QED
  BY <1>4, <1>6, StepKeeps DEF FilesInv

LEMMA ReadAllKeeps ==
    ASSUME SizesFit, FilesInv, NEW t \in Tasks, NEW path \in Paths,
           NEW capacity \in 0..MaxCapacity, NEW old \in OldText,
           ReadAllText(t, path, capacity, old)
    PROVE  FilesInv'
<1> DEFINE b == [i \in 1..capacity |-> Junk]
           s == [capacity |-> capacity, length |-> old, buffer |-> b]
           g == RoomFor(s, Len(data[dir[path]]))
           c == [Idle EXCEPT !.pc = IF g.buffer = <<>> THEN "aborted" ELSE "open",
                             !.path = path, !.access = "r", !.old = old, !.string = g]
<1>1. old \in Nat /\ old <= capacity /\ capacity \in Nat /\ capacity <= MaxCapacity
  BY TextsAssumption DEF ReadAllText
<1>2. UNCHANGED <<dir, data>>
  BY DEF ReadAllText
<1>3. CASE dir[path] = None
  <2>1. task' = [task EXCEPT ![t] = [Idle EXCEPT !.result = "error", !.failed = TRUE]]
    BY <1>3 DEF ReadAllText, Return
  <2>2. QED
    BY <1>2, <2>1, IdleSound, StepKeeps DEF FilesInv
<1>4. CASE dir[path] # None
  <2>1. Len(data[dir[path]]) \in 0..MaxSize
    <3>1. data[dir[path]] \in Contents
      BY <1>4 DEF FilesInv
    <3>2. QED
      BY <3>1, ContentsAre, LenProperties, TextsAssumption
  <2>2. b \in Seq(FileByte \cup {Junk}) /\ Len(b) = capacity
    BY <1>1
  <2>3. s \in String /\ s.capacity = Len(s.buffer) /\ s.capacity <= MaxCapacity
        /\ s.length <= s.capacity
    BY <1>1, <2>2 DEF String
  <2>4. task' = [task EXCEPT ![t] = c]
    BY <1>4 DEF ReadAllText
  <2> HIDE DEF s
  <2>5. g \in String /\ g.capacity = Len(g.buffer) /\ Fits(g)
    BY <2>1, <2>3, RoomForFits
  <2> HIDE DEF g
  <2>6. Sound(c)
    <3>1. /\ c \in Call /\ c.pc \in {"aborted", "open"} /\ c.path \in Paths /\ c.access = "r"
          /\ c.string = g /\ c.moved = 0
      BY <1>1, <2>5 DEF Call, Idle
    <3> HIDE DEF c
    <3>2. Shape(c)
      BY <2>5, <3>1 DEF Shape, Well, Busy
    <3>3. QED
      BY <3>1, <3>2 DEF Sound
  <2> HIDE DEF c
  <2>7. QED
    BY <1>2, <2>4, <2>6, StepKeeps DEF FilesInv
<1>5. QED
  BY <1>3, <1>4

(* A step of t that tells others of a file that is written anew.           *)
LEMMA TornSound ==
    ASSUME NEW c, Sound(c), NEW torn \in BOOLEAN
    PROVE  /\ Sound([c EXCEPT !.torn = torn])
           /\ LET d == [c EXCEPT !.torn = torn]
              IN  /\ d.pc = c.pc /\ d.access = c.access /\ d.handle = c.handle
                  /\ d.old = c.old /\ d.moved = c.moved /\ d.string = c.string
                  /\ d.result = c.result /\ d.torn = torn /\ d.path = c.path
<1> DEFINE d == [c EXCEPT !.torn = torn]
<1>1. /\ d \in Call /\ d.pc = c.pc /\ d.access = c.access /\ d.handle = c.handle
      /\ d.old = c.old /\ d.moved = c.moved /\ d.string = c.string
      /\ d.result = c.result /\ d.torn = torn /\ d.path = c.path
  BY DEF Sound, Call
<1> HIDE DEF d
<1>2. Shape(d)
  BY <1>1 DEF Sound, Shape, Well, Busy
<1>3. QED
  BY <1>1, <1>2 DEF Sound, d

(* FileOpen fails, or t has the file i open, and the task that has read a  *)
(* part of a file that is truncated knows it.                              *)
Opens(t, i) ==
    /\ DOMAIN task' = Tasks
    /\ task'[t] = [task[t] EXCEPT !.pc = "transfer", !.handle = i]
    /\ \A u \in Tasks \ {t} : \E torn \in BOOLEAN :
            /\ task'[u] = [task[u] EXCEPT !.torn = torn]
            /\ task[u].torn => torn
            /\ task[t].access = "w" /\ task[u].handle = i /\ task[u].moved > 0 => torn
    /\ dir' \in [Paths -> Inodes \cup {None}]
    /\ data' = IF task[t].access = "w" THEN [data EXCEPT ![i] = <<>>] ELSE data

LEMMA OpenStep ==
    ASSUME FilesInv, NEW t \in Tasks, FileOpen(t)
    PROVE  /\ task[t].pc = "open"
           /\ \/ Return(t, "error", TRUE) /\ UNCHANGED <<dir, data>>
              \/ \E i \in Inodes : Opens(t, i)
<1>1. Sound(task[t]) /\ task[t].pc = "open" /\ task[t].path \in Paths /\ task[t].moved = 0
      /\ task[t] \in Call
  BY DEF FilesInv, FileOpen, Sound, Shape
<1>2. ASSUME NEW i \in Inodes,
             UNCHANGED dir \/ dir' = [dir EXCEPT ![task[t].path] = i],
             data' = IF task[t].access = "w" THEN [data EXCEPT ![i] = <<>>] ELSE data,
             task' = [IF task[t].access = "w" THEN Torn(i) ELSE task
                      EXCEPT ![t].pc = "transfer", ![t].handle = i]
      PROVE  Opens(t, i)
  <2> DEFINE before == IF task[t].access = "w" THEN Torn(i) ELSE task
  <2>1. ASSUME NEW u \in Tasks
        PROVE  \E torn \in BOOLEAN :
                  /\ before[u] = [task[u] EXCEPT !.torn = torn]
                  /\ task[u].torn => torn
                  /\ task[t].access = "w" /\ task[u].handle = i /\ task[u].moved > 0 => torn
                  /\ u = t => torn = task[u].torn
    <3>1. task[u] \in Call /\ task[u].torn \in BOOLEAN
      BY DEF FilesInv, Sound, Call
    <3>2. CASE task[t].access = "w"
      <4> DEFINE now == task[u].torn \/ (task[u].handle = i /\ task[u].moved > 0)
      <4>1. before[u] = [task[u] EXCEPT !.torn = now] /\ now \in BOOLEAN
        BY <3>2 DEF Torn
      <4>2. u = t => now = task[u].torn
        BY <1>1, <3>1
      <4>3. (task[u].torn => now) /\ (task[u].handle = i /\ task[u].moved > 0 => now)
        OBVIOUS
      <4> HIDE DEF now, before
      <4>4. QED
        BY <4>1, <4>2, <4>3
    <3>3. CASE task[t].access # "w"
      <4>1. before[u] = task[u]
        BY <3>3
      <4>2. task[u] = [task[u] EXCEPT !.torn = task[u].torn]
        BY <3>1 DEF Call
      <4> HIDE DEF before
      <4>3. QED
        BY <3>1, <3>3, <4>1, <4>2
    <3>4. QED
      BY <3>2, <3>3
  <2>2. DOMAIN before = Tasks
    BY DEF Torn, FilesInv
  <2>3. task' = [before EXCEPT ![t].pc = "transfer", ![t].handle = i]
    BY <1>2
  <2> HIDE DEF before
  <2>4. before[t] = task[t]
    <3>1. before[t] = [task[t] EXCEPT !.torn = task[t].torn]
      BY <2>1
    <3>2. QED
      BY <1>1, <3>1 DEF Call
  <2>5. DOMAIN task' = Tasks /\ task'[t] = [task[t] EXCEPT !.pc = "transfer", !.handle = i]
    BY <2>2, <2>3, <2>4
  <2>6. \A u \in Tasks \ {t} : task'[u] = before[u]
    BY <2>2, <2>3
  <2>7. dir' \in [Paths -> Inodes \cup {None}]
    BY <1>1, <1>2 DEF FilesInv
  <2>8. ASSUME NEW u \in Tasks \ {t}
        PROVE  \E torn \in BOOLEAN :
                  /\ task'[u] = [task[u] EXCEPT !.torn = torn]
                  /\ task[u].torn => torn
                  /\ task[t].access = "w" /\ task[u].handle = i /\ task[u].moved > 0 => torn
    BY <2>1, <2>6
  <2>9. QED
    BY <1>2, <2>5, <2>7, <2>8 DEF Opens
<1>3. QED
  BY <1>1, <1>2 DEF FileOpen

LEMMA OpenKeeps ==
    ASSUME FilesInv, NEW t \in Tasks, FileOpen(t)
    PROVE  FilesInv'
<1>1. Sound(task[t]) /\ task[t].pc = "open"
  BY OpenStep DEF FilesInv
<1>2. CASE Return(t, "error", TRUE) /\ UNCHANGED <<dir, data>>
  BY <1>2, IdleSound, StepKeeps DEF FilesInv, Return
<1>3. ASSUME NEW i \in Inodes, Opens(t, i) PROVE FilesInv'
  <2> DEFINE c == [task[t] EXCEPT !.pc = "transfer", !.handle = i]
  <2>1. c \in Call /\ c.pc = "transfer" /\ c.handle = i /\ c.access = task[t].access
        /\ c.string = task[t].string /\ c.old = task[t].old /\ c.moved = task[t].moved
    BY <1>1 DEF Sound, Call
  <2>2. Sound(c)
    <3> HIDE DEF c
    <3>1. Shape(c)
      BY <1>1, <2>1 DEF Sound, Shape, Well, Busy
    <3>2. QED
      BY <2>1, <3>1 DEF Sound
  <2> HIDE DEF c
  <2>3. task'[t] = c
    BY <1>3 DEF Opens, c
  <2>4. ASSUME NEW u \in Tasks PROVE Sound(task'[u])
    <3>1. CASE u = t
      BY <2>2, <2>3, <3>1
    <3>2. CASE u # t
      <4>1. PICK torn \in BOOLEAN : task'[u] = [task[u] EXCEPT !.torn = torn]
        BY <1>3, <3>2 DEF Opens
      <4>2. QED
        BY <4>1, TornSound DEF FilesInv
    <3>3. QED
      BY <3>1, <3>2
  <2>5. data' \in [Inodes -> Contents]
    BY <1>3, EmptyContents DEF FilesInv, Opens
  <2>6. QED
    BY <1>3, <2>4, <2>5 DEF FilesInv, Opens
<1>4. QED
  BY <1>2, <1>3, OpenStep

(***************************************************************************)
(* A read that reports success started at the beginning of the string, and *)
(* the file filled all of it: with old text in front of it, the same read  *)
(* runs out of the buffer.                                                 *)
(***************************************************************************)
LEMMA ReadUpToSound ==
    ASSUME NEW c, Sound(c), c.pc = "transfer", c.access = "r", NEW bytes \in Contents,
           NEW n \in (c.moved + 1)..c.string.capacity, n <= Len(bytes)
    PROVE  LET r == ReadUpTo(c, bytes, n)
           IN  /\ Sound(r)
               /\ r.access = "r" /\ r.torn = c.torn /\ r.old = c.old
               /\ r.string.length = c.string.length /\ r.string.capacity = c.string.capacity
               /\ r.pc = "transfer" => r.moved = n /\ r.handle = c.handle
               /\ Well(r) => c.old = 0 /\ n = c.string.capacity
               /\ r.pc # "overrun" =>
                    \A i \in 1..n : r.string.buffer[c.old + i] =
                        IF i <= c.moved THEN c.string.buffer[c.old + i] ELSE bytes[i]
<1> DEFINE cap == c.string.capacity
           buf == c.string.buffer
           b == [i \in DOMAIN buf |->
                    IF i \in (c.old + c.moved + 1)..(c.old + n) THEN bytes[i - c.old] ELSE buf[i]]
           s == [c.string EXCEPT !.buffer = b]
           read == [c EXCEPT !.moved = n, !.string = s]
           r == IF c.old + n > Len(buf) THEN [read EXCEPT !.pc = "overrun"]
                ELSE IF n < cap THEN read
                ELSE [read EXCEPT !.pc = "idle", !.path = None, !.handle = None, !.moved = 0]
<1>1. /\ c \in Call /\ cap \in Nat /\ c.old \in Nat /\ cap = Len(buf) /\ c.moved \in Nat
      /\ buf \in Seq(FileByte \cup {Junk}) /\ c.string \in String /\ Fits(c.string)
      /\ c.string.length \in Nat /\ n \in Nat /\ c.moved < n /\ n <= cap
      /\ \A i \in 1..c.moved : buf[c.old + i] \in FileByte
      /\ c.handle \in Inodes
  BY DEF Sound, Shape, Call, String
<1>2. /\ bytes \in Seq(FileByte) /\ Len(bytes) \in Nat
      /\ \A i \in 1..Len(bytes) : bytes[i] \in FileByte
      /\ \A i \in 1..cap : buf[i] \in FileByte \cup {Junk}
      /\ DOMAIN buf = 1..cap
  BY <1>1, ContentsAre, LenProperties, ElementOfSeq
<1>3. b \in [1..cap -> FileByte \cup {Junk}]
  <2> SUFFICES ASSUME NEW i \in 1..cap PROVE b[i] \in FileByte \cup {Junk}
    BY <1>2
  <2>1. b[i] = IF i \in (c.old + c.moved + 1)..(c.old + n) THEN bytes[i - c.old] ELSE buf[i]
    BY <1>2
  <2>2. i \in (c.old + c.moved + 1)..(c.old + n) => i - c.old \in 1..Len(bytes)
    <3>1. /\ c.old \in Nat /\ c.moved \in Nat /\ n \in Nat /\ Len(bytes) \in Nat
          /\ n <= Len(bytes) /\ i \in Nat
      BY <1>1, <1>2
    <3> HIDE DEF cap, buf, b, s, read, r
    <3>2. QED
      BY <3>1
  <2> HIDE DEF b, buf, cap
  <2>3. QED
    BY <1>2, <2>1, <2>2
<1>4. ASSUME c.old + n <= cap, NEW i \in 1..n
      PROVE  /\ b[c.old + i] = IF i <= c.moved THEN buf[c.old + i] ELSE bytes[i]
             /\ b[c.old + i] \in FileByte
  <2>1. c.old + i \in 1..cap /\ (c.old + i) - c.old = i
    <3>1. c.old + i \in Nat /\ c.old + i >= 1 /\ c.old + i <= c.old + n
      BY <1>1, <1>4
    <3>2. c.old + n <= cap /\ cap \in Nat /\ c.old \in Nat
      BY <1>1, <1>4
    <3> HIDE DEF cap
    <3>3. c.old + i <= cap /\ (c.old + i) - c.old = i
      BY <1>1, <3>1, <3>2
    <3>4. QED
      BY <3>1, <3>2, <3>3
  <2>2. i > c.moved <=> c.old + i \in (c.old + c.moved + 1)..(c.old + n)
    <3>1. c.old \in Nat /\ c.moved \in Nat /\ n \in Nat /\ i \in Nat /\ i <= n
      BY <1>1
    <3> HIDE DEF cap, buf, b, s, read, r
    <3>2. QED
      BY <3>1
  <2>3. b[c.old + i] = IF i <= c.moved THEN buf[c.old + i] ELSE bytes[i]
    <3> DEFINE j == c.old + i
    <3>1. j \in DOMAIN buf /\ j - c.old = i
      BY <1>2, <2>1
    <3>2. i > c.moved <=> j \in (c.old + c.moved + 1)..(c.old + n)
      BY <2>2
    <3>3. i \in Nat /\ c.moved \in Nat
      BY <1>1
    <3> HIDE DEF j, buf, cap
    <3>4. b[j] = IF j \in (c.old + c.moved + 1)..(c.old + n) THEN bytes[j - c.old] ELSE buf[j]
      BY <3>1
    <3> HIDE DEF b
    <3>5. QED
      BY <3>1, <3>2, <3>3, <3>4 DEF j
  <2> HIDE DEF b
  <2>4. QED
    BY <1>1, <1>2, <2>3
<1> HIDE DEF b
<1>5. b \in Seq(FileByte \cup {Junk}) /\ Len(b) = cap
  <2>1. cap \in Nat
    BY <1>1
  <2> HIDE DEF s, read, r, cap, buf
  <2>2. QED
    BY <2>1, <1>3, FunctionIsSeq
<1>6. s \in String /\ s.capacity = cap /\ s.length = c.string.length /\ s.buffer = b
  BY <1>1, <1>5 DEF String
<1> HIDE DEF s
<1>7. /\ read \in Call /\ read.pc = "transfer" /\ read.handle = c.handle /\ read.moved = n
      /\ read.string = s /\ read.access = "r" /\ read.old = c.old /\ read.torn = c.torn
      /\ read.path = c.path
  BY <1>1, <1>6 DEF Call
<1>8. read = [c EXCEPT !.moved = n, !.string.buffer = b]
  BY <1>1 DEF s, Call, String
<1>9. ReadUpTo(c, bytes, n) = r
  BY <1>8 DEF ReadUpTo, b
<1> HIDE DEF read
<1>10. /\ r \in Call /\ r.string = s /\ r.access = "r" /\ r.old = c.old /\ r.torn = c.torn
       /\ r.pc \in {"transfer", "overrun", "idle"}
       /\ r.pc = "transfer" => r = read
       /\ r.pc # "overrun" => c.old + n <= cap
       /\ r.pc = "idle" => ~ (n < cap)
  <2>1. CASE c.old + n > Len(buf)
    <3>1. r = [read EXCEPT !.pc = "overrun"]
      BY <2>1
    <3> HIDE DEF r
    <3>2. QED
      BY <1>7, <3>1 DEF Call
  <2>2. CASE ~ (c.old + n > Len(buf)) /\ n < cap
    <3>1. r = read /\ c.old + n <= cap
      BY <1>1, <2>2
    <3> HIDE DEF r
    <3>2. QED
      BY <1>7, <3>1
  <2>3. CASE ~ (c.old + n > Len(buf)) /\ ~ (n < cap)
    <3>1. /\ r = [read EXCEPT !.pc = "idle", !.path = None, !.handle = None, !.moved = 0]
          /\ c.old + n <= cap
      BY <1>1, <2>3
    <3> HIDE DEF r
    <3>2. QED
      BY <1>7, <2>3, <3>1 DEF Call
  <2>4. QED
    BY <2>1, <2>2, <2>3
<1> HIDE DEF r
<1>11. r.pc = "idle" => c.old = 0 /\ n = cap
  BY <1>1, <1>10
<1>12. Fits(s)
  BY <1>1, <1>5, <1>6 DEF Fits
<1>13. r.pc = "idle" => Filled(s)
  <2> SUFFICES ASSUME r.pc = "idle" PROVE b \in Seq(FileByte)
    BY <1>6 DEF Filled
  <2>1. ASSUME NEW i \in 1..cap PROVE b[i] \in FileByte
    <3>1. i \in 1..n /\ c.old + n <= cap /\ c.old + i = i
      BY <1>1, <1>10, <1>11
    <3>2. b[c.old + i] \in FileByte
      BY <1>4, <3>1
    <3>3. QED
      BY <3>1, <3>2
  <2>2. b \in [1..cap -> FileByte]
    BY <1>3, <2>1
  <2>3. QED
    BY <1>1, <2>2, FunctionIsSeq
<1>14. Shape(r)
  <2>1. CASE r.pc = "transfer"
    <3>1. \A i \in 1..n : s.buffer[c.old + i] \in FileByte
      BY <1>4, <1>6, <1>10, <2>1
    <3>2. QED
      BY <1>1, <1>5, <1>6, <1>7, <1>10, <1>12, <2>1, <3>1 DEF Shape, Well, Busy
  <2>2. CASE r.pc = "overrun"
    BY <1>5, <1>6, <1>10, <2>2 DEF Shape, Well, Busy
  <2>3. CASE r.pc = "idle"
    BY <1>5, <1>6, <1>10, <1>11, <1>12, <1>13, <2>3 DEF Shape, Well, Busy
  <2>4. QED
    BY <1>10, <2>1, <2>2, <2>3
<1>15. r.pc # "overrun" =>
          \A i \in 1..n : r.string.buffer[c.old + i] = IF i <= c.moved THEN buf[c.old + i] ELSE bytes[i]
  BY <1>4, <1>6, <1>10
<1>16. Well(r) => r.pc = "idle"
  BY DEF Well
<1>17. QED
  BY <1>6, <1>7, <1>9, <1>10, <1>11, <1>14, <1>15, <1>16 DEF Sound

(* FileRead brings more of the file; FileReadEnds ends the call.           *)
LEMMA ReadStep ==
    ASSUME FilesInv, NEW t \in Tasks, FileRead(t)
    PROVE  /\ task[t].handle \in Inodes /\ data[task[t].handle] \in Contents
           /\ task[t].pc = "transfer" /\ task[t].access = "r"
           /\ \E n \in (task[t].moved + 1)..task[t].string.capacity :
                /\ n <= Len(data[task[t].handle])
                /\ task' = [task EXCEPT ![t] = ReadUpTo(task[t], data[task[t].handle], n)]
           /\ dir' = dir /\ Keeps(data)
BY DEF FilesInv, FileRead, Sound, Shape, Call

LEMMA ReadKeeps ==
    ASSUME FilesInv, NEW t \in Tasks, FileRead(t)
    PROVE  FilesInv'
<1>1. PICK n \in (task[t].moved + 1)..task[t].string.capacity :
          /\ n <= Len(data[task[t].handle])
          /\ task' = [task EXCEPT ![t] = ReadUpTo(task[t], data[task[t].handle], n)]
  BY ReadStep
<1>2. Sound(ReadUpTo(task[t], data[task[t].handle], n))
  BY <1>1, ReadStep, ReadUpToSound DEF FilesInv
<1>3. data' \in [Inodes -> Contents] /\ dir' \in [Paths -> Inodes \cup {None}]
  BY ReadStep, KeepsContents DEF FilesInv
<1>4. QED
  BY <1>1, <1>2, <1>3, StepKeeps

(* The file of a call after more of its bytes reached it.                  *)
LEMMA StoredBytes ==
    ASSUME NEW c, data[c.handle] \in Seq(FileByte), c.string.buffer \in Seq(FileByte),
           c.moved \in Nat, NEW k \in Nat, c.moved <= k, k <= Len(c.string.buffer)
    PROVE  Stored(c, k) \in Seq(FileByte)
<1> DEFINE bytes == data[c.handle]
           b == c.string.buffer
           front == [i \in 1..c.moved |-> IF i <= Len(bytes) THEN bytes[i] ELSE Hole]
           rest == SubSeq(bytes, k + 1, Len(bytes))
           piece == SubSeq(b, c.moved + 1, k)
<1>1. Len(bytes) \in Nat /\ Len(b) \in Nat
      /\ (\A i \in 1..Len(bytes) : bytes[i] \in FileByte) /\ \A i \in 1..Len(b) : b[i] \in FileByte
  BY LenProperties, ElementOfSeq
<1>2. front \in Seq(FileByte)
  <2>1. front \in [1..c.moved -> FileByte]
    BY <1>1 DEF FileByte
  <2> HIDE DEF front
  <2>2. QED
    BY <2>1, FunctionIsSeq
<1>3. rest \in Seq(FileByte)
  <2>1. k + 1 \in Int /\ Len(bytes) \in Int /\ \A j \in (k + 1)..Len(bytes) : bytes[j] \in FileByte
    BY <1>1
  <2>2. QED
    BY <2>1, SubSeqProperties
<1>4. piece \in Seq(FileByte)
  <2>1. c.moved + 1 \in Int /\ k \in Int /\ \A j \in (c.moved + 1)..k : b[j] \in FileByte
    BY <1>1
  <2>2. QED
    BY <2>1, SubSeqProperties
<1>5. Stored(c, k) = IF c.access = "a" THEN bytes \o piece ELSE front \o piece \o rest
  BY DEF Stored
<1> HIDE DEF front, rest, piece
<1>6. QED
  BY <1>2, <1>3, <1>4, <1>5, ConcatProperties

(* What the file of a call holds once k bytes are on the disk.             *)
After(c, k) == IF k = c.moved THEN data[c.handle] ELSE Stored(c, k)

LEMMA StoresContents ==
    ASSUME FilesInv, NEW t \in Tasks, task[t].pc \in {"transfer", "close"}, task[t].access # "r",
           NEW k \in task[t].moved..task[t].string.capacity, Stores(t, k)
    PROVE  LET h == task[t].handle
               b == task[t].string.buffer
           IN  /\ h \in Inodes /\ b \in Seq(FileByte) /\ task[t].moved \in Nat
               /\ k \in Nat /\ task[t].moved <= k /\ k <= Len(b)
               /\ dir' = dir
               /\ [data EXCEPT ![h] = After(task[t], k)] \in [Inodes -> Contents]
               /\ Keeps([data EXCEPT ![h] = After(task[t], k)])
<1> DEFINE h == task[t].handle
           b == task[t].string.buffer
           bytes == After(task[t], k)
<1>1. h \in Inodes /\ b \in Seq(FileByte) /\ task[t].moved \in Nat
      /\ task[t].string.capacity = Len(b) /\ Len(b) \in Nat
  BY LenProperties DEF FilesInv, Sound, Shape, Filled, Busy, Call
<1>2. k \in Nat /\ task[t].moved <= k /\ k <= Len(b)
  BY <1>1
<1>3. data[h] \in Seq(FileByte)
  BY <1>1, ContentsAre DEF FilesInv
<1>4. bytes \in Seq(FileByte) /\ Len(bytes) <= MaxSize
  BY <1>1, <1>2, <1>3, StoredBytes DEF Stores, After
<1>5. dir' = dir /\ Keeps([data EXCEPT ![h] = bytes])
  BY DEF Stores, After
<1> HIDE DEF bytes
<1>6. [data EXCEPT ![h] = bytes] \in [Inodes -> Contents]
  BY <1>1, <1>4, ContentsAre DEF FilesInv
<1>7. QED
  BY <1>1, <1>2, <1>5, <1>6 DEF bytes

(* FileWrite and FileClose: more of the bytes are on the disk, the rest    *)
(* waits for the end, or t's call ends with some or all of them there.     *)
Ends(t) ==
    \E result \in {"none", "error"}, failed \in BOOLEAN : Return(t, result, failed)

LEMMA WriteStep ==
    ASSUME FilesInv, NEW t \in Tasks, FileWrite(t) \/ FileClose(t)
    PROVE  LET c == task[t]
           IN  /\ c.pc \in {"transfer", "close"} /\ c.access # "r"
               /\ \/ /\ task' = [task EXCEPT ![t].pc = "close"]
                     /\ UNCHANGED <<dir, data>>
                  \/ /\ c.pc = "transfer"
                     /\ \E k \in c.moved..c.string.capacity :
                            task' = [task EXCEPT ![t].moved = k] /\ Stores(t, k)
                  \/ Ends(t) /\ \E k \in c.moved..c.string.capacity : Stores(t, k)
<1> DEFINE c == task[t]
           cap == c.string.capacity
<1>1. Sound(c) /\ cap \in Nat /\ c.moved \in Nat /\ (Busy(c) /\ c.access # "r" => c.moved <= cap)
  BY DEF FilesInv, Sound, Shape, Call, String
<1>2. ASSUME NEW result \in {"none", "error"}, NEW failed \in BOOLEAN,
             Return(t, result, failed)
      PROVE  Ends(t)
  BY <1>2 DEF Ends
<1> HIDE DEF cap
<1>3. CASE FileWrite(t)
  <2>1. c.pc = "transfer" /\ c.access # "r"
    BY <1>3 DEF FileWrite
  <2>2. CASE \E k \in (c.moved + 1)..cap : task' = [task EXCEPT ![t].moved = k] /\ Stores(t, k)
    <3>1. (c.moved + 1)..cap \subseteq c.moved..cap
      BY <1>1
    <3>2. QED
      BY <2>1, <2>2, <3>1 DEF cap
  <2>3. CASE task' = [task EXCEPT ![t].pc = "close"] /\ UNCHANGED <<dir, data>>
    BY <2>1, <2>3
  <2>4. CASE Return(t, "error", TRUE) /\ \E k \in c.moved..(cap - 1) : Stores(t, k)
    <3>1. c.moved..(cap - 1) \subseteq c.moved..cap
      BY <1>1
    <3>2. QED
      BY <1>2, <2>1, <2>4, <3>1 DEF cap
  <2>5. QED
    BY <1>3, <2>2, <2>3, <2>4 DEF FileWrite, cap
<1>4. CASE FileClose(t)
  <2>1. c.pc = "close" /\ c.access # "r"
    BY <1>1, <1>4 DEF FileClose, Sound, Shape
  <2>2. CASE Return(t, "none", FALSE) /\ Stores(t, cap)
    <3>1. cap \in c.moved..cap
      BY <1>1, <2>1 DEF Busy
    <3>2. QED
      BY <1>2, <2>1, <2>2, <3>1 DEF cap
  <2>3. CASE Return(t, "none", TRUE) /\ \E k \in c.moved..(cap - 1) : Stores(t, k)
    <3>1. c.moved..(cap - 1) \subseteq c.moved..cap
      BY <1>1
    <3>2. QED
      BY <1>2, <2>1, <2>3, <3>1 DEF cap
  <2>4. QED
    BY <1>4, <2>2, <2>3 DEF FileClose, cap
<1>5. QED
  BY <1>3, <1>4

LEMMA WriteKeeps ==
    ASSUME FilesInv, NEW t \in Tasks, FileWrite(t) \/ FileClose(t)
    PROVE  FilesInv'
<1> DEFINE c == task[t]
<1>1. Sound(c) /\ c.pc \in {"transfer", "close"} /\ c.access # "r" /\ c.string.capacity \in Nat
      /\ c.moved \in Nat
  BY WriteStep DEF FilesInv, Sound, Call, String
<1>2. CASE task' = [task EXCEPT ![t].pc = "close"] /\ UNCHANGED <<dir, data>>
  <2> DEFINE d == [c EXCEPT !.pc = "close"]
  <2>1. Sound(d)
    BY <1>1 DEF Sound, Shape, Call, Well, Busy
  <2>2. task' = [task EXCEPT ![t] = d]
    BY <1>2 DEF FilesInv
  <2> HIDE DEF d
  <2>3. QED
    BY <1>2, <2>1, <2>2, StepKeeps DEF FilesInv
<1>3. ASSUME NEW k \in c.moved..c.string.capacity, Stores(t, k)
      PROVE  data' \in [Inodes -> Contents] /\ dir' \in [Paths -> Inodes \cup {None}]
  BY <1>1, <1>3, StoresContents, KeepsContents DEF FilesInv
<1>4. ASSUME c.pc = "transfer", NEW k \in c.moved..c.string.capacity,
             task' = [task EXCEPT ![t].moved = k], Stores(t, k)
      PROVE  FilesInv'
  <2> DEFINE d == [c EXCEPT !.moved = k]
  <2>1. k \in Nat /\ k <= c.string.capacity
    BY <1>1, <1>4
  <2>2. Sound(d)
    BY <1>1, <1>4, <2>1 DEF Sound, Shape, Call, Well, Busy
  <2>3. task' = [task EXCEPT ![t] = d]
    BY <1>4 DEF FilesInv
  <2> HIDE DEF d
  <2>4. QED
    BY <1>3, <1>4, <2>2, <2>3, StepKeeps
<1>5. CASE Ends(t) /\ \E k \in c.moved..c.string.capacity : Stores(t, k)
  BY <1>3, <1>5, IdleSound, StepKeeps DEF Ends, Return
<1>6. QED
  BY <1>2, <1>4, <1>5, WriteStep

LEMMA DirectoryStep ==
    ASSUME FilesInv, NEW t \in Tasks,
           \/ \E path \in Paths : FileDelete(t, path)
           \/ \E source, destination \in Paths : FileMove(t, source, destination)
           \/ FileReadEnds(t)
    PROVE  Ends(t) /\ dir' \in [Paths -> Inodes \cup {None}] /\ Keeps(data)
BY DEF FilesInv, FileDelete, FileMove, FileReadEnds, Ends

LEMMA DirectoryKeeps ==
    ASSUME FilesInv, NEW t \in Tasks, Ends(t), dir' \in [Paths -> Inodes \cup {None}],
           Keeps(data)
    PROVE  FilesInv'
<1>1. data' \in [Inodes -> Contents]
  BY KeepsContents DEF FilesInv
<1>2. QED
  BY <1>1, IdleSound, StepKeeps DEF Ends, Return

LEMMA FilesInvInit == Init => FilesInv
<1> SUFFICES ASSUME Init PROVE FilesInv
  OBVIOUS
<1>1. Sound(Idle)
  <2>1. <<>> \in Seq(FileByte \cup {Junk}) /\ Len(<<>>) = 0
    BY EmptySeq
  <2>2. QED
    BY <2>1 DEF Sound, Shape, Idle, Call, String, Well, Busy
<1>2. QED
  BY <1>1, EmptyContents DEF Init, FilesInv

LEMMA FilesInvNext == SizesFit /\ FilesInv /\ [Next]_vars => FilesInv'
<1> SUFFICES ASSUME SizesFit, FilesInv, [Next]_vars PROVE FilesInv'
  OBVIOUS
<1> USE DEF Tasks
<1>1. ASSUME NEW t \in Writers, WriterStep(t) PROVE FilesInv'
  <2>1. ASSUME NEW path \in Paths, NEW capacity \in 0..MaxCapacity, NEW text \in WriteTexts,
               WriteAllText(t, path, text, capacity)
        PROVE  FilesInv'
    BY <2>1, PutKeeps DEF WriteAllText
  <2>2. ASSUME NEW path \in Paths, NEW capacity \in 0..MaxCapacity, NEW text \in AppendTexts,
               AppendAllText(t, path, text, capacity)
        PROVE  FilesInv'
    BY <2>2, PutKeeps DEF AppendAllText
  <2>3. CASE \/ \E path \in Paths : FileDelete(t, path)
             \/ \E source, destination \in Paths : FileMove(t, source, destination)
    BY <2>3, DirectoryStep, DirectoryKeeps
  <2>4. CASE FileWrite(t) \/ FileClose(t)
    BY <2>4, WriteKeeps
  <2>5. QED
    BY <1>1, <2>1, <2>2, <2>3, <2>4 DEF WriterStep
<1>2. ASSUME NEW t \in Readers, NEW path \in Paths, NEW capacity \in 0..MaxCapacity,
             NEW old \in OldText, ReadAllText(t, path, capacity, old)
      PROVE  FilesInv'
  BY <1>2, ReadAllKeeps
<1>3. ASSUME NEW t \in Readers, FileRead(t) \/ FileReadEnds(t) PROVE FilesInv'
  BY <1>3, ReadKeeps, DirectoryStep, DirectoryKeeps
<1>4. ASSUME NEW t \in Tasks, FileOpen(t) PROVE FilesInv'
  BY <1>4, OpenKeeps
<1>5. CASE UNCHANGED vars
  BY <1>5 DEF vars, FilesInv
<1>6. QED
  BY <1>1, <1>2, <1>3, <1>4, <1>5 DEF Next

(***************************************************************************)
(* Files, paths and calls stay what they are, and the capacity of a string *)
(* in a call is the length of its buffer at every step of every call.      *)
(***************************************************************************)
THEOREM FilesTypeCorrect == SizesFit => (Spec => []TypeOK)
<1> SUFFICES ASSUME SizesFit PROVE Spec => []TypeOK
  OBVIOUS
<1>1. FilesInv => TypeOK
  <2> SUFFICES ASSUME FilesInv PROVE TypeOK
    OBVIOUS
  <2>1. ASSUME NEW t \in Tasks
        PROVE  /\ task[t].pc \in {"idle", "open", "transfer", "close", "aborted", "overrun"}
               /\ task[t].handle \in Inodes \cup {None}
               /\ task[t].string.capacity = Len(task[t].string.buffer)
    BY DEF FilesInv, Sound, Shape, Call
  <2>2. QED
    BY <2>1 DEF TypeOK, FilesInv, Contents, FileByte
<1>2. Init => FilesInv
  BY FilesInvInit
<1>3. FilesInv /\ [Next]_vars => FilesInv'
  BY FilesInvNext
<1>4. QED
  BY <1>1, <1>2, <1>3, PTL DEF Spec

(* What a reader has gained is what its whole buffer was filled with.      *)
LEMMA GainedIs ==
    ASSUME FilesInv, NEW t \in Tasks, ReadWell(t)
    PROVE  LET s == task[t].string
           IN  /\ s.buffer \in Seq(FileByte) /\ s.length \in 0..Len(s.buffer)
               /\ Gained(t) = SubSeq(s.buffer, 1, s.length)
               /\ Gained(t) \in Seq(FileByte) /\ Len(Gained(t)) = s.length
<1> DEFINE s == task[t].string
<1>1. /\ task[t].old = 0 /\ s.length <= Len(s.buffer) /\ s.buffer \in Seq(FileByte)
      /\ s.length \in Nat
  BY DEF FilesInv, Sound, Shape, Well, ReadWell, Fits, Filled, Call, String
<1>2. s.length \in 0..Len(s.buffer) /\ Gained(t) = SubSeq(s.buffer, 1, s.length)
  BY <1>1, LenProperties DEF Gained
<1>3. QED
  BY <1>1, <1>2, Cut

(***************************************************************************)
(* Whatever other tasks do to the file between the stat, the open and the  *)
(* read of AvmFileReadAllText, a call that reports success has filled      *)
(* every byte it counts as text from the file, and none lies behind the    *)
(* buffer. The old text must have been empty for that; with old text the   *)
(* call never succeeds without running out of the buffer.                  *)
(***************************************************************************)
THEOREM ReadsAreHonestAlways == SizesFit => (Spec => []ReadsAreHonest)
<1> SUFFICES ASSUME SizesFit PROVE Spec => []ReadsAreHonest
  OBVIOUS
<1>1. FilesInv => ReadsAreHonest
  <2> SUFFICES ASSUME FilesInv, NEW t \in Readers, ReadWell(t)
               PROVE  /\ task[t].string.length <= Len(task[t].string.buffer)
                      /\ \A i \in DOMAIN Gained(t) : Gained(t)[i] # Junk
    BY DEF ReadsAreHonest
  <2>1. t \in Tasks
    BY DEF Tasks
  <2>2. Gained(t) \in Seq(FileByte) /\ task[t].string.length <= Len(task[t].string.buffer)
    BY <2>1, GainedIs
  <2>3. \A i \in DOMAIN Gained(t) : Gained(t)[i] \in FileByte
    BY <2>2, ElementOfSeq, LenProperties
  <2>4. QED
    BY <2>2, <2>3, TextsAssumption DEF FileByte
<1>2. Init => FilesInv
  BY FilesInvInit
<1>3. FilesInv /\ [Next]_vars => FilesInv'
  BY FilesInvNext
<1>4. QED
  BY <1>1, <1>2, <1>3, PTL DEF Spec

-----------------------------------------------------------------------------
(***************************************************************************)
(* One writer. What a file holds began as one AvmFileWriteAllText (or as   *)
(* nothing) and went on with what was appended. While the writer has the   *)
(* file open to write it, the file holds what it moved there; and what a   *)
(* reader has of a file that was not written anew is the front of it.      *)
(***************************************************************************)
OneWriter == \A u, v \in Writers : u = v

Padded(text, n) == text \o [i \in 1..n |-> Spare]

BeginsAs(b, p, k) ==
    /\ k \in 0..Len(b) /\ k <= Len(p)
    /\ \A i \in 1..k : b[i] = p[i]
    /\ \A i \in (k + 1)..Len(b) : b[i] \in Appended \cup {Spare}

Written == {Padded(text, n) : text \in WriteTexts \cup {<<>>}, n \in 0..MaxCapacity}

OfOneWrite(b) == \E p \in Written, k \in Nat : BeginsAs(b, p, k)

AnAppend(b) == b \in Seq(Appended \cup {Spare})

Origin(c) ==
    /\ Busy(c) /\ c.access = "w" => c.string.buffer \in Written
    /\ Busy(c) /\ c.access = "a" => AnAppend(c.string.buffer)
    /\ Well(c) /\ ~ c.torn => OfOneWrite(SubSeq(c.string.buffer, 1, c.string.length))

HasWritten(c, d) ==
    c.pc \in {"transfer", "close"} /\ c.access = "w" =>
        d[c.handle] = SubSeq(c.string.buffer, 1, c.moved)

HasRead(c, d) ==
    c.pc = "transfer" /\ c.access = "r" /\ ~ c.torn =>
        /\ c.moved <= Len(d[c.handle])
        /\ \A i \in 1..c.moved : c.string.buffer[c.old + i] = d[c.handle][i]

Progress(c, d) == HasWritten(c, d) /\ HasRead(c, d)

OriginInv ==
    /\ \A i \in Inodes : OfOneWrite(data[i])
    /\ \A t \in Tasks : Origin(task[t]) /\ Progress(task[t], data)
    /\ \A t \in Tasks : task[t].access \in {"w", "a"} => t \in Writers

LEMMA PaddedIs ==
    ASSUME NEW text \in Seq(FileByte), NEW n \in Nat
    PROVE  /\ Padded(text, n) \in Seq(FileByte)
           /\ Len(text) \in Nat /\ Len(Padded(text, n)) = Len(text) + n
           /\ \A i \in 1..Len(text) : Padded(text, n)[i] = text[i]
           /\ \A i \in (Len(text) + 1)..(Len(text) + n) : Padded(text, n)[i] = Spare
<1> DEFINE pad == [i \in 1..n |-> Spare]
           p == text \o pad
<1>1. pad \in [1..n -> FileByte] /\ \A i \in 1..n : pad[i] = Spare
  BY DEF FileByte
<1> HIDE DEF pad
<1>2. pad \in Seq(FileByte) /\ Len(pad) = n
  BY <1>1, FunctionIsSeq
<1>3. /\ p \in Seq(FileByte) /\ Len(p) = Len(text) + Len(pad)
      /\ \A i \in 1..(Len(text) + Len(pad)) :
            p[i] = IF i <= Len(text) THEN text[i] ELSE pad[i - Len(text)]
  BY <1>2, ConcatProperties
<1> HIDE DEF p
<1>4. Len(text) \in Nat
  BY LenProperties
<1>5. \A i \in (Len(text) + 1)..(Len(text) + n) : p[i] = Spare
  BY <1>1, <1>2, <1>3, <1>4
<1>6. \A i \in 1..Len(text) : p[i] = text[i]
  BY <1>2, <1>3, <1>4
<1>7. QED
  BY <1>2, <1>3, <1>4, <1>5, <1>6 DEF Padded, pad, p

LEMMA TextIsSeq ==
    ASSUME NEW text \in WriteTexts \cup {<<>>}
    PROVE  text \in Seq(FileByte)
<1>1. text \in Seq(Byte)
  BY TextsAssumption, EmptySeq
<1>2. QED
  BY <1>1 DEF FileByte

LEMMA WrittenAre ==
    ASSUME NEW p \in Written
    PROVE  p \in Seq(FileByte) /\ Len(p) \in Nat
<1>1. PICK text \in WriteTexts \cup {<<>>}, n \in 0..MaxCapacity : p = Padded(text, n)
  BY DEF Written
<1>2. n \in Nat
  BY TextsAssumption
<1>3. QED
  BY <1>1, <1>2, PaddedIs, TextIsSeq, LenProperties

LEMMA EmptyIsOfOneWrite == OfOneWrite(<<>>)
<1>1. Padded(<<>>, 0) \in Written /\ Len(<<>>) = 0
  <2>1. 0 \in 0..MaxCapacity /\ <<>> \in WriteTexts \cup {<<>>} /\ Len(<<>>) = 0
    BY TextsAssumption, EmptySeq
  <2> DEFINE none == <<>>
  <2>2. none \in WriteTexts \cup {<<>>}
    OBVIOUS
  <2> HIDE DEF none
  <2>3. Padded(none, 0) \in Written
    BY <2>1, <2>2 DEF Written
  <2>4. QED
    BY <2>1, <2>3 DEF none
<1>2. BeginsAs(<<>>, Padded(<<>>, 0), 0)
  BY <1>1, WrittenAre DEF BeginsAs
<1>3. QED
  BY <1>1, <1>2 DEF OfOneWrite

(* What is cut off a file at its end leaves the start as it was.           *)
LEMMA PrefixIsOfOneWrite ==
    ASSUME NEW b \in Seq(FileByte), OfOneWrite(b), NEW c, NEW m \in 0..Len(b), Len(c) = m,
           \A i \in 1..m : c[i] = b[i]
    PROVE  OfOneWrite(c)
<1>1. PICK p \in Written, k \in Nat : BeginsAs(b, p, k)
  BY DEF OfOneWrite
<1>2. m \in Nat /\ Len(b) \in Nat /\ Len(p) \in Nat
  BY <1>1, LenProperties, WrittenAre
<1>3. CASE m <= k
  <2>1. BeginsAs(c, p, m)
    BY <1>1, <1>2, <1>3 DEF BeginsAs
  <2>2. QED
    BY <1>1, <1>2, <2>1 DEF OfOneWrite
<1>4. CASE k <= m
  <2>1. BeginsAs(c, p, k)
    BY <1>1, <1>2, <1>4 DEF BeginsAs
  <2>2. QED
    BY <1>1, <2>1 DEF OfOneWrite
<1>5. QED
  BY <1>2, <1>3, <1>4

LEMMA WrittenIsOfOneWrite ==
    ASSUME NEW p \in Written
    PROVE  OfOneWrite(p)
<1>1. Len(p) \in Nat
  BY WrittenAre
<1>2. BeginsAs(p, p, Len(p))
  BY <1>1 DEF BeginsAs
<1>3. QED
  BY <1>1, <1>2 DEF OfOneWrite

LEMMA AppendedIsOfOneWrite ==
    ASSUME NEW b \in Seq(FileByte), OfOneWrite(b), NEW a, AnAppend(a)
    PROVE  OfOneWrite(b \o a)
<1>1. PICK p \in Written, k \in Nat : BeginsAs(b, p, k)
  BY DEF OfOneWrite
<1> DEFINE A == Appended \cup {Spare}
<1>2. a \in Seq(A) /\ Len(a) \in Nat /\ Len(b) \in Nat /\ Len(p) \in Nat
      /\ \A i \in 1..Len(a) : a[i] \in A
  BY LenProperties, ElementOfSeq, WrittenAre DEF AnAppend
<1>3. a \in Seq(FileByte \cup A) /\ b \in Seq(FileByte \cup A)
  BY <1>2
<1>4. /\ Len(b \o a) = Len(b) + Len(a)
      /\ \A i \in 1..(Len(b) + Len(a)) :
            (b \o a)[i] = IF i <= Len(b) THEN b[i] ELSE a[i - Len(b)]
  BY <1>3, ConcatProperties
<1>5. \A i \in 1..k : (b \o a)[i] = p[i]
  BY <1>1, <1>2, <1>4 DEF BeginsAs
<1>6. ASSUME NEW i \in (k + 1)..(Len(b) + Len(a)) PROVE (b \o a)[i] \in A
  <2>1. CASE i <= Len(b)
    BY <1>1, <1>2, <1>4, <2>1 DEF BeginsAs
  <2>2. CASE i > Len(b)
    <3>1. i - Len(b) \in 1..Len(a) /\ (b \o a)[i] = a[i - Len(b)]
      BY <1>2, <1>4, <2>2
    <3>2. QED
      BY <1>2, <3>1
  <2>3. QED
    BY <1>2, <2>1, <2>2
<1>7. BeginsAs(b \o a, p, k)
  BY <1>1, <1>2, <1>4, <1>5, <1>6 DEF BeginsAs
<1>8. QED
  BY <1>1, <1>7 DEF OfOneWrite

(* A step that writes nothing, whatever files the system frees.            *)
LEMMA QuietStep ==
    ASSUME FilesInv, OriginInv, NEW t \in Tasks, NEW c, task' = [task EXCEPT ![t] = c],
           data' = data \/ Keeps(data),
           Origin(c), Progress(c, data'), c.access \in {"w", "a"} => t \in Writers
    PROVE  OriginInv'
<1>1. \A i \in Inodes : data'[i] \in {data[i], <<>>}
  BY KeepsContents DEF FilesInv
<1>2. \A i \in Inodes : OfOneWrite(data'[i])
  BY <1>1, EmptyIsOfOneWrite DEF OriginInv
<1>3. ASSUME NEW u \in Tasks
      PROVE  /\ Origin(task'[u]) /\ Progress(task'[u], data')
             /\ task'[u].access \in {"w", "a"} => u \in Writers
  <2>1. CASE u = t
    <3>1. task'[u] = c
      BY <2>1 DEF FilesInv
    <3>2. QED
      BY <2>1, <3>1
  <2>2. CASE u # t
    <3>1. task'[u] = task[u] /\ Sound(task[u]) /\ Progress(task[u], data)
      BY <2>2 DEF FilesInv, OriginInv
    <3>2. task[u].handle \in Inodes => data'[task[u].handle] = data[task[u].handle]
      BY <3>1, KeepsUsed
    <3>3. task[u].pc \in {"transfer", "close"} => task[u].handle \in Inodes
      BY <3>1 DEF Sound, Shape
    <3>4. Progress(task[u], data')
      BY <3>1, <3>2, <3>3 DEF Progress, HasWritten, HasRead
    <3>5. QED
      BY <3>1, <3>4 DEF OriginInv
  <2>3. QED
    BY <2>1, <2>2
<1>4. QED
  BY <1>2, <1>3 DEF OriginInv

LEMMA IdleOrigin ==
    ASSUME NEW result, NEW failed, NEW d
    PROVE  /\ Origin([Idle EXCEPT !.result = result, !.failed = failed])
           /\ Progress([Idle EXCEPT !.result = result, !.failed = failed], d)
           /\ [Idle EXCEPT !.result = result, !.failed = failed].access = "none"
BY DEF Idle, Origin, Progress, HasWritten, HasRead, Busy, Well

LEMMA PutOrigin ==
    ASSUME FilesInv, OriginInv, NEW t \in Writers, NEW path \in Paths,
           NEW capacity \in 0..MaxCapacity, NEW text, NEW access \in {"w", "a"},
           access = "w" => text \in WriteTexts, access = "a" => text \in AppendTexts,
           PutAllText(t, path, text, capacity, access)
    PROVE  OriginInv'
<1> DEFINE n == capacity - Len(text)
           b == Padded(text, n)
           s == [capacity |-> capacity, length |-> Len(text), buffer |-> b]
           c == [Idle EXCEPT !.pc = IF capacity = 0 THEN "aborted" ELSE "open",
                             !.path = path, !.access = access, !.string = s]
<1>1. /\ Len(text) \in Nat /\ Len(text) <= capacity
  <2>1. CASE access = "w"
    BY <2>1, TextIsSeq, LenProperties DEF PutAllText
  <2>2. CASE access = "a"
    BY <2>2, TextsAssumption, LenProperties DEF PutAllText
  <2>3. QED
    BY <2>1, <2>2
<1>2. n \in 0..MaxCapacity /\ n \in Nat
  BY <1>1, TextsAssumption
<1>3. task' = [task EXCEPT ![t] = c] /\ UNCHANGED <<dir, data>> /\ t \in Tasks
  BY DEF PutAllText, Padded, Tasks
<1>4. access = "w" => b \in Written
  <2> HIDE DEF n
  <2>1. QED
    BY <1>2 DEF Written
<1>5. access = "a" => AnAppend(b)
  <2> SUFFICES ASSUME access = "a" PROVE AnAppend(b)
    OBVIOUS
  <2> DEFINE A == Appended \cup {Spare}
             pad == [i \in 1..n |-> Spare]
  <2>1. text \in Seq(Appended)
    BY TextsAssumption
  <2>2. text \in Seq(A)
    BY <2>1
  <2>3. pad \in [1..n -> A]
    OBVIOUS
  <2> HIDE DEF n, pad
  <2>4. pad \in Seq(A)
    BY <1>2, <2>3, FunctionIsSeq
  <2> HIDE DEF A
  <2>5. text \o pad \in Seq(A)
    BY <2>2, <2>4, ConcatProperties
  <2>6. QED
    BY <2>5 DEF AnAppend, A, Padded, pad
<1> HIDE DEF b
<1>6. Origin(c) /\ Progress(c, data') /\ c.access = access
  BY <1>4, <1>5 DEF Origin, Progress, HasWritten, HasRead, Busy, Well, Idle
<1> HIDE DEF c
<1>7. QED
  BY <1>3, <1>6, QuietStep

LEMMA ReadAllOrigin ==
    ASSUME FilesInv, OriginInv, NEW t \in Readers, NEW path \in Paths,
           NEW capacity \in 0..MaxCapacity, NEW old \in OldText,
           ReadAllText(t, path, capacity, old)
    PROVE  OriginInv'
<1> DEFINE s == [capacity |-> capacity, length |-> old, buffer |-> [i \in 1..capacity |-> Junk]]
           g == RoomFor(s, Len(data[dir[path]]))
           c == [Idle EXCEPT !.pc = IF g.buffer = <<>> THEN "aborted" ELSE "open",
                             !.path = path, !.access = "r", !.old = old, !.string = g]
<1>1. UNCHANGED <<dir, data>> /\ t \in Tasks
  BY DEF ReadAllText, Tasks
<1>2. CASE dir[path] = None
  <2>1. task' = [task EXCEPT ![t] = [Idle EXCEPT !.result = "error", !.failed = TRUE]]
    BY <1>2 DEF ReadAllText, Return
  <2>2. QED
    BY <1>1, <2>1, IdleOrigin, QuietStep
<1>3. CASE dir[path] # None
  <2>1. task' = [task EXCEPT ![t] = c]
    BY <1>3 DEF ReadAllText
  <2> HIDE DEF g
  <2>2. Origin(c) /\ Progress(c, data') /\ c.access = "r"
    BY DEF Origin, Progress, HasWritten, HasRead, Busy, Well, Idle
  <2> HIDE DEF c
  <2>3. QED
    BY <1>1, <2>1, <2>2, QuietStep
<1>4. QED
  BY <1>2, <1>3

LEMMA OpenOrigin ==
    ASSUME OneWriter, FilesInv, OriginInv, NEW t \in Tasks, FileOpen(t)
    PROVE  OriginInv'
<1>1. /\ Sound(task[t]) /\ task[t].pc = "open" /\ Origin(task[t]) /\ task[t].moved = 0
      /\ task[t].access \in {"w", "a"} => t \in Writers
  BY OpenStep DEF FilesInv, OriginInv, Sound, Shape
<1>2. CASE Return(t, "error", TRUE) /\ UNCHANGED <<dir, data>>
  BY <1>2, IdleOrigin, QuietStep DEF Return
<1>3. ASSUME NEW i \in Inodes, Opens(t, i) PROVE OriginInv'
  <2> DEFINE c == [task[t] EXCEPT !.pc = "transfer", !.handle = i]
             fresh == task[t].access = "w"
  <2>1. task'[t] = c /\ DOMAIN task' = Tasks
    BY <1>3 DEF Opens
  <2>2. /\ c.pc = "transfer" /\ c.handle = i /\ c.access = task[t].access
        /\ c.string = task[t].string /\ c.moved = 0
    BY <1>1 DEF Sound, Call
  <2>3. fresh => data'[i] = <<>>
    BY <1>3 DEF Opens, FilesInv
  <2>4. \A j \in Inodes : data'[j] = data[j] \/ (j = i /\ fresh)
    BY <1>3 DEF Opens, FilesInv
  <2>5. \A j \in Inodes : OfOneWrite(data'[j])
    BY <2>3, <2>4, EmptyIsOfOneWrite DEF OriginInv
  <2> HIDE DEF c, fresh
  <2>6. Origin(c)
    <3>1. Busy(task[t]) /\ ~ Well(c)
      BY <1>1, <2>2 DEF Busy, Well
    <3>2. QED
      BY <1>1, <2>2, <3>1 DEF Origin
  <2>7. Progress(c, data')
    <3>1. HasWritten(c, data')
      <4> SUFFICES ASSUME c.access = "w" PROVE data'[i] = SubSeq(c.string.buffer, 1, 0)
        BY <2>2 DEF HasWritten
      <4>1. data'[i] = <<>>
        BY <2>2, <2>3 DEF fresh
      <4>2. SubSeq(c.string.buffer, 1, 0) = <<>>
        BY SubSeqEmpty
      <4>3. QED
        BY <4>1, <4>2
    <3>2. HasRead(c, data')
      <4>1. data'[i] \in Contents
        <5>1. data'[i] \in {data[i], <<>>}
          BY <2>3, <2>4
        <5>2. QED
          BY <5>1, EmptyContents DEF FilesInv
      <4>2. Len(data'[i]) \in Nat
        BY <4>1, ContentsAre, LenProperties
      <4>3. QED
        BY <2>2, <4>2 DEF HasRead
    <3>3. QED
      BY <3>1, <3>2 DEF Progress
  <2>8. ASSUME NEW u \in Tasks
        PROVE  /\ Origin(task'[u]) /\ Progress(task'[u], data')
               /\ task'[u].access \in {"w", "a"} => u \in Writers
    <3>1. CASE u = t
      BY <1>1, <2>1, <2>2, <2>6, <2>7, <3>1
    <3>2. CASE u # t
      <4> DEFINE b == task[u]
      <4>1. PICK torn \in BOOLEAN :
              /\ task'[u] = [b EXCEPT !.torn = torn]
              /\ b.torn => torn
              /\ fresh /\ b.handle = i /\ b.moved > 0 => torn
        BY <1>3, <3>2 DEF Opens, fresh
      <4> DEFINE d == [b EXCEPT !.torn = torn]
      <4>2. /\ Sound(b) /\ Origin(b) /\ Progress(b, data)
            /\ b.access \in {"w", "a"} => u \in Writers
        BY DEF FilesInv, OriginInv
      <4>3. /\ d.pc = b.pc /\ d.access = b.access /\ d.handle = b.handle /\ d.old = b.old
            /\ d.moved = b.moved /\ d.string = b.string /\ d.result = b.result /\ d.torn = torn
        BY <4>2, TornSound
      <4>4. b.moved \in Nat /\ (b.pc \in {"transfer", "close"} => b.handle \in Inodes)
        BY <4>2 DEF Sound, Shape, Call
      <4> HIDE DEF b, d
      <4>5. Origin(d)
        BY <4>1, <4>2, <4>3 DEF Origin, Busy, Well
      <4>6. HasWritten(d, data')
        <5>1. ASSUME fresh, b.access = "w" PROVE FALSE
          BY <1>1, <3>2, <4>2, <5>1 DEF OneWriter, fresh
        <5>2. QED
          BY <2>4, <4>2, <4>3, <4>4, <5>1 DEF HasWritten, Progress
      <4>7. HasRead(d, data')
        <5> SUFFICES ASSUME b.pc = "transfer", b.access = "r", ~ torn
                     PROVE  /\ b.moved <= Len(data'[b.handle])
                            /\ \A j \in 1..b.moved : b.string.buffer[b.old + j] = data'[b.handle][j]
          BY <4>3 DEF HasRead
        <5>1. /\ b.moved <= Len(data[b.handle]) /\ b.handle \in Inodes
              /\ \A j \in 1..b.moved : b.string.buffer[b.old + j] = data[b.handle][j]
          BY <4>1, <4>2, <4>4 DEF HasRead, Progress
        <5>2. CASE data'[b.handle] = data[b.handle]
          BY <5>1, <5>2
        <5>3. CASE b.handle = i /\ fresh
          <6>1. b.moved = 0
            BY <4>1, <4>4, <5>3
          <6>2. Len(data'[i]) = 0
            BY <2>3, <5>3, EmptySeq
          <6>3. QED
            BY <5>3, <6>1, <6>2
        <5>4. QED
          BY <2>4, <5>1, <5>2, <5>3
      <4>8. task'[u] = d
        BY <4>1 DEF b, d
      <4>9. QED
        BY <4>2, <4>3, <4>5, <4>6, <4>7, <4>8 DEF Progress
    <3>3. QED
      BY <3>1, <3>2
  <2>9. QED
    BY <2>5, <2>8 DEF OriginInv
<1>4. QED
  BY <1>2, <1>3, OpenStep

LEMMA ReadOrigin ==
    ASSUME FilesInv, OriginInv, NEW t \in Tasks, FileRead(t)
    PROVE  OriginInv'
<1> DEFINE c == task[t]
           h == c.handle
<1>1. /\ Sound(c) /\ h \in Inodes /\ data[h] \in Contents /\ c.pc = "transfer" /\ c.access = "r"
      /\ Keeps(data) /\ HasRead(c, data)
  BY ReadStep DEF FilesInv, OriginInv, Progress
<1>2. PICK n \in (c.moved + 1)..c.string.capacity :
          n <= Len(data[h]) /\ task' = [task EXCEPT ![t] = ReadUpTo(c, data[h], n)]
  BY ReadStep
<1> HIDE DEF c
<1> DEFINE r == ReadUpTo(c, data[h], n)
           bytes == data[h]
<1>3. /\ Sound(r)
      /\ r.access = "r" /\ r.torn = c.torn /\ r.old = c.old
      /\ r.string.length = c.string.length /\ r.string.capacity = c.string.capacity
      /\ r.pc = "transfer" => r.moved = n /\ r.handle = h
      /\ Well(r) => c.old = 0 /\ n = c.string.capacity
      /\ r.pc # "overrun" =>
           \A i \in 1..n : r.string.buffer[c.old + i] =
               IF i <= c.moved THEN c.string.buffer[c.old + i] ELSE data[h][i]
  <2>1. bytes \in Contents /\ n <= Len(bytes)
    BY <1>1, <1>2
  <2>2. c.handle = h
    OBVIOUS
  <2> HIDE DEF bytes, h
  <2>3. LET q == ReadUpTo(c, bytes, n)
        IN  /\ Sound(q)
            /\ q.access = "r" /\ q.torn = c.torn /\ q.old = c.old
            /\ q.string.length = c.string.length /\ q.string.capacity = c.string.capacity
            /\ q.pc = "transfer" => q.moved = n /\ q.handle = c.handle
            /\ Well(q) => c.old = 0 /\ n = c.string.capacity
            /\ q.pc # "overrun" =>
                 \A i \in 1..n : q.string.buffer[c.old + i] =
                     IF i <= c.moved THEN c.string.buffer[c.old + i] ELSE bytes[i]
    BY <1>1, <1>2, <2>1, ReadUpToSound
  <2>4. QED
    BY <2>2, <2>3 DEF bytes
<1>4. c.moved \in Nat /\ n \in Nat /\ c.moved < n /\ n <= c.string.capacity /\ n <= Len(data[h])
      /\ task' = [task EXCEPT ![t] = r] /\ c.old \in Nat
  <2>1. c.moved \in Nat /\ c.string.capacity \in Nat /\ c.old \in Nat
    BY <1>1 DEF Sound, Call, String
  <2>2. QED
    BY <1>2, <2>1
<1> HIDE DEF r, h
<1>5. ASSUME r.pc # "overrun", ~ r.torn, NEW i \in 1..n
      PROVE  r.string.buffer[c.old + i] = data[h][i]
  BY <1>1, <1>3, <1>4, <1>5 DEF HasRead, h
<1>6. HasRead(r, data)
  BY <1>3, <1>4, <1>5 DEF HasRead
<1>7. Progress(r, data')
  <2>1. r.pc = "transfer" => data'[h] = data[h] /\ r.handle = h
    <3>1. task'[t] = r
      BY <1>4 DEF FilesInv
    <3>2. QED
      BY <1>1, <1>3, <3>1, KeepsUsed
  <2>2. QED
    BY <1>3, <1>6, <2>1 DEF Progress, HasWritten, HasRead
<1>8. ASSUME Well(r), ~ r.torn PROVE OfOneWrite(SubSeq(r.string.buffer, 1, r.string.length))
  <2> DEFINE m == r.string.length
             b == r.string.buffer
  <2>1. /\ c.old = 0 /\ n = c.string.capacity /\ r.pc # "overrun"
    BY <1>3, <1>8 DEF Well
  <2>2. m \in 0..Len(b) /\ b \in Seq(FileByte) /\ Len(b) = n
    BY <1>3, <1>8, <2>1, LenProperties DEF Sound, Shape, Fits, Filled, Call, String
  <2> HIDE DEF m, b
  <2>3. /\ Len(SubSeq(b, 1, m)) = m /\ \A i \in 1..m : SubSeq(b, 1, m)[i] = b[i]
    BY <2>2, Cut
  <2>4. data[h] \in Seq(FileByte) /\ OfOneWrite(data[h])
    BY <1>1, ContentsAre DEF OriginInv
  <2>5. m \in 0..Len(data[h]) /\ \A i \in 1..m : SubSeq(b, 1, m)[i] = data[h][i]
    <3>1. m \in 0..Len(data[h])
      BY <1>4, <2>2, <2>4, LenProperties
    <3>2. ASSUME NEW i \in 1..m PROVE b[i] = data[h][i]
      <4>1. i \in 1..n /\ c.old + i = i
        BY <1>4, <2>1, <2>2
      <4>2. QED
        BY <1>5, <1>8, <2>1, <4>1 DEF b
    <3>3. QED
      BY <2>3, <3>1, <3>2
  <2>6. OfOneWrite(SubSeq(b, 1, m))
    BY <2>3, <2>4, <2>5, PrefixIsOfOneWrite
  <2>7. QED
    BY <2>6 DEF m, b
<1>9. Origin(r)
  BY <1>3, <1>8 DEF Origin
<1>10. QED
  BY <1>1, <1>3, <1>4, <1>7, <1>9, QuietStep

LEMMA ConcatIs ==
    ASSUME NEW S, NEW s \in Seq(S), NEW t \in Seq(S), NEW m, NEW n, m = Len(s), n = Len(t)
    PROVE  /\ s \o t \in Seq(S) /\ Len(s \o t) = m + n
           /\ \A i \in 1..(m + n) : (s \o t)[i] = IF i <= m THEN s[i] ELSE t[i - m]
BY ConcatProperties

(* A stretch of a sequence, and what it makes with the stretch before it.  *)
LEMMA Piece ==
    ASSUME NEW S, NEW s \in Seq(S), NEW n \in Nat, NEW k \in Nat, n <= k, k <= Len(s)
    PROVE  /\ SubSeq(s, n + 1, k) \in Seq(S)
           /\ Len(SubSeq(s, n + 1, k)) = k - n
           /\ \A i \in 1..(k - n) : SubSeq(s, n + 1, k)[i] = s[n + i]
<1> DEFINE m == n + 1
           piece == SubSeq(s, m, k)
<1>1. m \in Int /\ k \in Int /\ k - m + 1 = k - n /\ (m <= k \/ k = n)
      /\ \A i \in 1..(k - n) : m + i - 1 = n + i
  OBVIOUS
<1>2. \A i \in m..k : s[i] \in S
  BY ElementOfSeq, LenProperties
<1> HIDE DEF m
<1>3. /\ piece \in Seq(S) /\ Len(piece) = IF m <= k THEN k - m + 1 ELSE 0
      /\ \A i \in 1..(k - m + 1) : piece[i] = s[m + i - 1]
  BY <1>1, <1>2, SubSeqProperties
<1> HIDE DEF piece
<1>4. Len(piece) = k - n
  BY <1>1, <1>3 DEF m
<1>5. ASSUME NEW i \in 1..(k - n) PROVE piece[i] = s[n + i]
  BY <1>1, <1>3
<1>6. QED
  BY <1>3, <1>4, <1>5 DEF piece, m

LEMMA Joined ==
    ASSUME NEW S, NEW s \in Seq(S), NEW n \in Nat, NEW k \in Nat, n <= k, k <= Len(s)
    PROVE  SubSeq(s, 1, n) \o SubSeq(s, n + 1, k) = SubSeq(s, 1, k)
<1> DEFINE front == SubSeq(s, 1, n)
           piece == SubSeq(s, n + 1, k)
           whole == SubSeq(s, 1, k)
<1>1. n \in 0..Len(s) /\ k \in 0..Len(s)
  BY LenProperties
<1>2. front \in Seq(S) /\ Len(front) = n /\ \A i \in 1..n : front[i] = s[i]
  BY <1>1, Cut
<1>3. whole \in Seq(S) /\ Len(whole) = k /\ \A i \in 1..k : whole[i] = s[i]
  BY <1>1, Cut
<1>4. piece \in Seq(S) /\ Len(piece) = k - n /\ \A i \in 1..(k - n) : piece[i] = s[n + i]
  BY Piece
<1> HIDE DEF front, piece, whole
<1> DEFINE joined == front \o piece
<1>5. /\ joined \in Seq(S) /\ Len(joined) = n + (k - n)
      /\ \A i \in 1..(n + (k - n)) : joined[i] = IF i <= n THEN front[i] ELSE piece[i - n]
  <2> DEFINE rest == k - n
  <2>1. n = Len(front) /\ rest = Len(piece)
    BY <1>2, <1>4
  <2> HIDE DEF rest
  <2>2. /\ joined \in Seq(S) /\ Len(joined) = n + rest
        /\ \A i \in 1..(n + rest) : joined[i] = IF i <= n THEN front[i] ELSE piece[i - n]
    <3>1. front \in Seq(S) /\ piece \in Seq(S)
      BY <1>2, <1>4
    <3>2. QED
      BY <2>1, <3>1, ConcatIs
  <2>3. QED
    BY <2>2 DEF rest
<1> HIDE DEF joined
<1>6. n + (k - n) = k
  OBVIOUS
<1>7. ASSUME NEW i \in 1..k PROVE joined[i] = whole[i]
  <2>1. CASE i <= n
    <3>1. i \in 1..n
      BY <2>1
    <3>2. QED
      BY <1>2, <1>3, <1>5, <1>6, <2>1, <3>1
  <2>2. CASE ~ (i <= n)
    <3>1. i - n \in 1..(k - n) /\ n + (i - n) = i
      BY <2>2
    <3>2. joined[i] = piece[i - n] /\ whole[i] = s[i]
      BY <1>3, <1>5, <1>6, <2>2
    <3>3. piece[i - n] = s[n + (i - n)]
      BY <1>4, <3>1
    <3>4. QED
      BY <3>1, <3>2, <3>3
  <2>3. QED
    BY <2>1, <2>2
<1>8. joined = whole
  BY <1>3, <1>5, <1>6, <1>7, SeqEqual
<1>9. QED
  BY <1>8 DEF joined, front, piece, whole

(* What the writer adds to a file leaves what was in it, and is of the     *)
(* same write.                                                             *)
LEMMA StoredIsOfOneWrite ==
    ASSUME NEW c, data[c.handle] \in Seq(FileByte), c.string.buffer \in Seq(FileByte),
           c.moved \in Nat, NEW k \in Nat, c.moved <= k, k <= Len(c.string.buffer),
           c.access \in {"w", "a"}, Busy(c), Origin(c), OfOneWrite(data[c.handle]),
           c.access = "w" => data[c.handle] = SubSeq(c.string.buffer, 1, c.moved)
    PROVE  /\ OfOneWrite(Stored(c, k))
           /\ c.access = "w" => Stored(c, k) = SubSeq(c.string.buffer, 1, k)
           /\ Len(data[c.handle]) <= Len(Stored(c, k))
           /\ \A i \in 1..Len(data[c.handle]) : Stored(c, k)[i] = data[c.handle][i]
<1> DEFINE bytes == data[c.handle]
           b == c.string.buffer
           n == c.moved
           piece == SubSeq(b, n + 1, k)
<1>1. /\ Len(b) \in Nat /\ Len(bytes) \in Nat /\ n \in 0..Len(b) /\ k \in 0..Len(b)
      /\ n + 1 \in Int /\ k \in Int /\ \A i \in 1..Len(b) : b[i] \in FileByte
  BY LenProperties, ElementOfSeq
<1>2. /\ piece \in Seq(FileByte) /\ Len(piece) = k - n
      /\ \A i \in 1..(k - n) : piece[i] = b[n + i]
  <2>1. b \in Seq(FileByte) /\ n \in Nat /\ n <= k /\ k <= Len(b)
    OBVIOUS
  <2> HIDE DEF b, n
  <2>2. QED
    BY <2>1, Piece
<1>3. /\ bytes \o piece \in Seq(FileByte) /\ Len(bytes \o piece) = Len(bytes) + (k - n)
      /\ \A i \in 1..(Len(bytes) + (k - n)) :
            (bytes \o piece)[i] = IF i <= Len(bytes) THEN bytes[i] ELSE piece[i - Len(bytes)]
  <2> DEFINE m == Len(bytes)
             rest == k - n
  <2>1. bytes \in Seq(FileByte) /\ m = Len(bytes)
    OBVIOUS
  <2>2. piece \in Seq(FileByte) /\ rest = Len(piece)
    BY <1>2
  <2> HIDE DEF bytes, piece, m, rest
  <2>3. /\ bytes \o piece \in Seq(FileByte) /\ Len(bytes \o piece) = m + rest
        /\ \A i \in 1..(m + rest) :
             (bytes \o piece)[i] = IF i <= m THEN bytes[i] ELSE piece[i - m]
    BY <2>1, <2>2, ConcatIs
  <2>4. QED
    BY <2>3 DEF m, rest
<1> HIDE DEF piece
<1>4. /\ Len(bytes) <= Len(bytes \o piece)
      /\ \A i \in 1..Len(bytes) : (bytes \o piece)[i] = bytes[i]
  BY <1>1, <1>3
<1>5. CASE c.access = "a"
  <2>1. AnAppend(b)
    BY <1>5 DEF Origin
  <2>2. AnAppend(piece)
    <3>1. \A i \in (n + 1)..k : b[i] \in Appended \cup {Spare}
      BY <1>1, <2>1, ElementOfSeq DEF AnAppend
    <3>2. QED
      BY <1>1, <2>1, <3>1, SubSeqProperties DEF AnAppend, piece
  <2>3. Stored(c, k) = bytes \o piece
    BY <1>5 DEF Stored, piece
  <2>4. QED
    BY <1>4, <1>5, <2>2, <2>3, AppendedIsOfOneWrite
<1>6. CASE c.access = "w"
  <2> DEFINE front == [i \in 1..n |-> IF i <= Len(bytes) THEN bytes[i] ELSE Hole]
             now == SubSeq(b, 1, k)
  <2>1. bytes = SubSeq(b, 1, n) /\ Len(bytes) = n /\ \A i \in 1..n : bytes[i] = b[i]
    BY <1>1, <1>6, Cut
  <2>2. front = bytes
    <3>1. bytes = [i \in 1..Len(bytes) |-> bytes[i]]
      OBVIOUS
    <3>2. \A i \in 1..n : (IF i <= Len(bytes) THEN bytes[i] ELSE Hole) = bytes[i]
      BY <2>1
    <3> HIDE DEF bytes
    <3>3. QED
      BY <2>1, <3>1, <3>2
  <2>3. SubSeq(bytes, k + 1, Len(bytes)) = <<>>
    <3>1. k + 1 \in Int /\ Len(bytes) \in Int /\ Len(bytes) < k + 1
      BY <1>1, <2>1
    <3>2. QED
      BY <3>1, SubSeqEmpty
  <2>4. Stored(c, k) = front \o piece \o SubSeq(bytes, k + 1, Len(bytes))
    BY <1>6 DEF Stored, piece
  <2> HIDE DEF front
  <2>5. Stored(c, k) = bytes \o piece
    BY <1>3, <2>2, <2>3, <2>4, ConcatEmptySeq
  <2>6. now \in Seq(FileByte) /\ Len(now) = k /\ \A i \in 1..k : now[i] = b[i]
    BY <1>1, Cut
  <2>7. bytes \o piece = now
    <3>1. b \in Seq(FileByte) /\ n \in Nat /\ n <= k /\ k <= Len(b)
      BY <1>1
    <3>2. bytes = SubSeq(b, 1, n)
      BY <2>1
    <3> HIDE DEF b, n, bytes, front
    <3>3. SubSeq(b, 1, n) \o SubSeq(b, n + 1, k) = SubSeq(b, 1, k)
      BY <3>1, Joined
    <3>4. QED
      BY <3>2, <3>3 DEF piece, now
  <2> HIDE DEF now, bytes, b, n
  <2>8. OfOneWrite(b)
    BY <1>6, WrittenIsOfOneWrite DEF Origin, b
  <2>9. OfOneWrite(now)
    BY <1>1, <2>6, <2>8, PrefixIsOfOneWrite DEF b
  <2>10. QED
    BY <1>4, <1>6, <2>5, <2>7, <2>9 DEF now, bytes, b
<1>7. QED
  BY <1>5, <1>6

LEMMA WriteOrigin ==
    ASSUME OneWriter, FilesInv, OriginInv, NEW t \in Tasks, FileWrite(t) \/ FileClose(t)
    PROVE  OriginInv'
<1> DEFINE c == task[t]
           h == c.handle
           b == c.string.buffer
<1>1. /\ Sound(c) /\ c.pc \in {"transfer", "close"} /\ c.access # "r"
      /\ Origin(c) /\ Progress(c, data)
      /\ c.access \in {"w", "a"} => t \in Writers
  BY WriteStep DEF FilesInv, OriginInv
<1>2. c.access \in {"w", "a"} /\ t \in Writers /\ Busy(c)
  BY <1>1 DEF Sound, Shape, Call, Busy
<1>3. CASE task' = [task EXCEPT ![t].pc = "close"] /\ UNCHANGED <<dir, data>>
  <2> DEFINE r == [c EXCEPT !.pc = "close"]
  <2>1. task' = [task EXCEPT ![t] = r]
    BY <1>3 DEF FilesInv
  <2>2. /\ r.pc = "close" /\ r.handle = c.handle /\ r.access = c.access
        /\ r.string = c.string /\ r.moved = c.moved
    BY <1>1 DEF Sound, Call
  <2> HIDE DEF r
  <2>3. Origin(r) /\ Progress(r, data')
    BY <1>1, <1>2, <1>3, <2>2 DEF Origin, Progress, HasWritten, HasRead, Busy, Well
  <2>4. QED
    BY <1>2, <1>3, <2>1, <2>2, <2>3, QuietStep
<1>4. ASSUME NEW k \in c.moved..c.string.capacity, Stores(t, k), NEW r,
             task' = [task EXCEPT ![t] = r],
             \/ \E result, failed : r = [Idle EXCEPT !.result = result, !.failed = failed]
             \/ c.pc = "transfer" /\ r = [c EXCEPT !.moved = k]
      PROVE  OriginInv'
  <2> DEFINE bytes == After(c, k)
  <2>1. /\ h \in Inodes /\ b \in Seq(FileByte) /\ c.moved \in Nat /\ k \in Nat /\ c.moved <= k
        /\ k <= Len(b) /\ [data EXCEPT ![h] = bytes] \in [Inodes -> Contents]
        /\ Keeps([data EXCEPT ![h] = bytes])
    BY <1>1, <1>4, StoresContents
  <2>2. OfOneWrite(data[h]) /\ data[h] \in Seq(FileByte) /\ Len(data[h]) \in Nat
    BY <2>1, ContentsAre, LenProperties DEF OriginInv, FilesInv
  <2>3. c.access = "w" => data[h] = SubSeq(b, 1, c.moved)
    BY <1>1 DEF Progress, HasWritten
  <2>4. /\ OfOneWrite(bytes)
        /\ c.access = "w" => bytes = SubSeq(b, 1, k)
        /\ Len(data[h]) <= Len(bytes)
        /\ \A i \in 1..Len(data[h]) : bytes[i] = data[h][i]
    <3>1. CASE k = c.moved
      BY <2>2, <2>3, <3>1 DEF After
    <3>2. CASE k # c.moved
      <4>1. bytes = Stored(c, k)
        BY <3>2 DEF After
      <4> HIDE DEF c, bytes
      <4>2. /\ OfOneWrite(Stored(c, k))
            /\ c.access = "w" => Stored(c, k) = SubSeq(c.string.buffer, 1, k)
            /\ Len(data[c.handle]) <= Len(Stored(c, k))
            /\ \A i \in 1..Len(data[c.handle]) : Stored(c, k)[i] = data[c.handle][i]
        BY <1>1, <1>2, <2>1, <2>2, <2>3, StoredIsOfOneWrite
      <4>3. QED
        BY <4>1, <4>2
    <3>3. QED
      BY <3>1, <3>2
  <2> HIDE DEF bytes
  <2>5. \A i \in Inodes : data'[i] \in {[data EXCEPT ![h] = bytes][i], <<>>}
    BY <2>1, KeepsContents
  <2>6. \A i \in Inodes : OfOneWrite(data'[i])
    BY <2>1, <2>4, <2>5, EmptyIsOfOneWrite DEF OriginInv, FilesInv
  <2>7. Origin(r) /\ Progress(r, data') /\ (r.access \in {"w", "a"} => t \in Writers)
    <3>1. CASE \E result, failed : r = [Idle EXCEPT !.result = result, !.failed = failed]
      <4>1. PICK result, failed : r = [Idle EXCEPT !.result = result, !.failed = failed]
        BY <3>1
      <4>2. /\ Origin([Idle EXCEPT !.result = result, !.failed = failed])
            /\ Progress([Idle EXCEPT !.result = result, !.failed = failed], data')
            /\ [Idle EXCEPT !.result = result, !.failed = failed].access = "none"
        BY IdleOrigin
      <4>3. QED
        BY <4>1, <4>2
    <3>2. CASE c.pc = "transfer" /\ r = [c EXCEPT !.moved = k]
      <4>1. /\ r.pc = "transfer" /\ r.handle = h /\ r.access = c.access
            /\ r.string = c.string /\ r.moved = k
        BY <1>1, <3>2 DEF Sound, Call
      <4>2. task'[t] = r
        BY <1>4 DEF FilesInv
      <4>3. data'[h] = bytes
        <5>1. data'[h] = [data EXCEPT ![h] = bytes][h]
          BY <2>1, <4>1, <4>2, KeepsUsed
        <5>2. QED
          BY <2>1, <5>1 DEF FilesInv
      <4>4. Progress(r, data')
        BY <1>1, <2>4, <4>1, <4>3 DEF Progress, HasWritten, HasRead
      <4>5. Origin(r)
        BY <1>1, <1>2, <4>1 DEF Origin, Busy, Well
      <4>6. QED
        BY <1>2, <4>4, <4>5
    <3>3. QED
      BY <1>4, <3>1, <3>2
  <2>8. ASSUME NEW u \in Tasks
        PROVE  /\ Origin(task'[u]) /\ Progress(task'[u], data')
               /\ task'[u].access \in {"w", "a"} => u \in Writers
    <3>1. CASE u = t
      <4>1. task'[u] = r
        BY <1>4, <3>1 DEF FilesInv
      <4>2. QED
        BY <2>7, <3>1, <4>1
    <3>2. CASE u # t
      <4>1. task'[u] = task[u] /\ Sound(task[u])
        BY <1>4, <3>2 DEF FilesInv
      <4>2. u \notin Writers
        BY <1>2, <3>2 DEF OneWriter
      <4>3. Origin(task[u]) /\ Progress(task[u], data) /\ task[u].access \notin {"w", "a"}
        BY <4>2 DEF OriginInv
      <4> DEFINE g == task[u].handle
      <4>4. HasRead(task[u], data')
        <5> SUFFICES ASSUME task[u].pc = "transfer", task[u].access = "r", ~ task[u].torn
                     PROVE  /\ task[u].moved <= Len(data'[g])
                            /\ \A i \in 1..task[u].moved :
                                    task[u].string.buffer[task[u].old + i] = data'[g][i]
          BY DEF HasRead
        <5>1. /\ g \in Inodes /\ task[u].moved <= Len(data[g]) /\ task[u].moved \in Nat
              /\ \A i \in 1..task[u].moved : task[u].string.buffer[task[u].old + i] = data[g][i]
          BY <4>1, <4>3 DEF HasRead, Progress, Sound, Shape, Call
        <5>2. data'[g] = [data EXCEPT ![h] = bytes][g]
          <6> DEFINE all == [data EXCEPT ![h] = bytes]
          <6>1. Keeps(all)
            BY <2>1
          <6>2. task'[u].handle = g /\ task'[u].handle \in Inodes
            BY <4>1, <5>1
          <6> HIDE DEF all, g
          <6>3. QED
            BY <6>1, <6>2, KeepsUsed DEF all
        <5> HIDE DEF g, h
        <5>3. CASE g = h
          <6>1. data'[g] = bytes
            BY <2>1, <5>2, <5>3 DEF FilesInv
          <6>2. data[g] \in Contents /\ bytes \in Contents
            BY <2>1, <5>1, <5>3 DEF FilesInv
          <6>3. Len(bytes) \in Nat /\ Len(data[h]) \in Nat
            BY <2>2, <6>2, ContentsAre, LenProperties
          <6>4. QED
            BY <2>4, <5>1, <5>3, <6>1, <6>3
        <5>4. CASE g # h
          BY <5>1, <5>2, <5>4 DEF FilesInv
        <5>5. QED
          BY <5>3, <5>4
      <4>5. QED
        BY <4>1, <4>3, <4>4 DEF Progress, HasWritten
    <3>3. QED
      BY <3>1, <3>2
  <2>9. QED
    BY <2>6, <2>8 DEF OriginInv
<1>5. CASE Ends(t) /\ \E k \in c.moved..c.string.capacity : Stores(t, k)
  BY <1>4, <1>5 DEF Ends, Return
<1>6. CASE \E k \in c.moved..c.string.capacity :
             c.pc = "transfer" /\ task' = [task EXCEPT ![t].moved = k] /\ Stores(t, k)
  <2>1. PICK k \in c.moved..c.string.capacity :
             c.pc = "transfer" /\ task' = [task EXCEPT ![t].moved = k] /\ Stores(t, k)
    BY <1>6
  <2>2. task' = [task EXCEPT ![t] = [c EXCEPT !.moved = k]]
    BY <2>1 DEF FilesInv
  <2>3. QED
    BY <1>4, <2>1, <2>2
<1>7. QED
  BY <1>3, <1>5, <1>6, WriteStep

(* A call that ends without having written anything.                       *)
LEMMA EndOrigin ==
    ASSUME FilesInv, OriginInv, NEW t \in Tasks, Ends(t), Keeps(data)
    PROVE  OriginInv'
<1>1. PICK result, failed :
          task' = [task EXCEPT ![t] = [Idle EXCEPT !.result = result, !.failed = failed]]
  BY DEF Ends, Return
<1> DEFINE c == [Idle EXCEPT !.result = result, !.failed = failed]
<1>2. task' = [task EXCEPT ![t] = c] /\ Origin(c) /\ Progress(c, data') /\ c.access = "none"
  BY <1>1, IdleOrigin
<1> HIDE DEF c
<1>3. QED
  BY <1>2, QuietStep

LEMMA OriginInit == Init => OriginInv
<1> SUFFICES ASSUME Init PROVE OriginInv
  OBVIOUS
<1>1. Origin(Idle) /\ Progress(Idle, data) /\ Idle.access = "none"
  BY DEF Idle, Origin, Progress, HasWritten, HasRead, Busy, Well
<1>2. QED
  BY <1>1, EmptyIsOfOneWrite DEF Init, OriginInv

LEMMA OriginNext == OneWriter /\ FilesInv /\ OriginInv /\ [Next]_vars => OriginInv'
<1> SUFFICES ASSUME OneWriter, FilesInv, OriginInv, [Next]_vars PROVE OriginInv'
  OBVIOUS
<1>1. ASSUME NEW t \in Writers, WriterStep(t) PROVE OriginInv'
  <2>1. t \in Tasks
    BY DEF Tasks
  <2>2. ASSUME NEW path \in Paths, NEW capacity \in 0..MaxCapacity, NEW text \in WriteTexts,
               WriteAllText(t, path, text, capacity)
        PROVE  OriginInv'
    BY <2>2, PutOrigin DEF WriteAllText
  <2>3. ASSUME NEW path \in Paths, NEW capacity \in 0..MaxCapacity, NEW text \in AppendTexts,
               AppendAllText(t, path, text, capacity)
        PROVE  OriginInv'
    BY <2>3, PutOrigin DEF AppendAllText
  <2>4. CASE \/ \E path \in Paths : FileDelete(t, path)
             \/ \E source, destination \in Paths : FileMove(t, source, destination)
    BY <2>1, <2>4, DirectoryStep, EndOrigin
  <2>5. CASE FileWrite(t) \/ FileClose(t)
    BY <2>1, <2>5, WriteOrigin
  <2>6. QED
    BY <1>1, <2>2, <2>3, <2>4, <2>5 DEF WriterStep
<1>2. ASSUME NEW t \in Readers, NEW path \in Paths, NEW capacity \in 0..MaxCapacity,
             NEW old \in OldText, ReadAllText(t, path, capacity, old)
      PROVE  OriginInv'
  BY <1>2, ReadAllOrigin
<1>3. ASSUME NEW t \in Readers, FileRead(t) \/ FileReadEnds(t) PROVE OriginInv'
  <2>1. t \in Tasks
    BY DEF Tasks
  <2>2. QED
    BY <1>3, <2>1, ReadOrigin, DirectoryStep, EndOrigin
<1>4. ASSUME NEW t \in Tasks, FileOpen(t) PROVE OriginInv'
  BY <1>4, OpenOrigin
<1>5. CASE UNCHANGED vars
  BY <1>5 DEF vars, OriginInv
<1>6. QED
  BY <1>1, <1>2, <1>3, <1>4, <1>5 DEF Next

(* What OfOneWrite says, in the words of ReadsAreOfOneWrite.               *)
LEMMA OneWriteIsRead ==
    ASSUME NEW b \in Seq(FileByte), OfOneWrite(b)
    PROVE  \E text \in WriteTexts \cup {<<>>}, n \in 0..MaxCapacity, k \in 0..Len(b) :
                /\ IsPrefix(SubSeq(b, 1, k), text \o [i \in 1..n |-> Spare])
                /\ \A i \in (k + 1)..Len(b) : b[i] \in Appended \cup {Spare}
<1>1. PICK p \in Written, k \in Nat : BeginsAs(b, p, k)
  BY DEF OfOneWrite
<1>2. PICK text \in WriteTexts \cup {<<>>}, n \in 0..MaxCapacity : p = Padded(text, n)
  BY DEF Written
<1>3. /\ k \in 0..Len(b) /\ k <= Len(p) /\ p \in Seq(FileByte)
      /\ Len(b) \in Nat /\ Len(p) \in Nat
      /\ \A i \in 1..k : b[i] = p[i]
      /\ \A i \in (k + 1)..Len(b) : b[i] \in Appended \cup {Spare}
  BY <1>1, WrittenAre, LenProperties DEF BeginsAs
<1>4. /\ SubSeq(b, 1, k) \in Seq(FileByte) /\ Len(SubSeq(b, 1, k)) = k
      /\ \A i \in 1..k : SubSeq(b, 1, k)[i] = b[i]
  BY <1>3, Cut
<1>5. /\ SubSeq(p, 1, k) \in Seq(FileByte) /\ Len(SubSeq(p, 1, k)) = k
      /\ \A i \in 1..k : SubSeq(p, 1, k)[i] = p[i]
  <2>1. k \in 0..Len(p)
    BY <1>3
  <2>2. QED
    BY <1>3, <2>1, Cut
<1>6. SubSeq(b, 1, k) = SubSeq(p, 1, k)
  BY <1>3, <1>4, <1>5, SeqEqual
<1>7. IsPrefix(SubSeq(b, 1, k), p)
  BY <1>3, <1>4, <1>6 DEF IsPrefix
<1>8. QED
  BY <1>2, <1>3, <1>7 DEF Padded

(***************************************************************************)
(* With one writer, what a read that reports success has read is one       *)
(* AvmFileWriteAllText and what was appended behind it, whatever the       *)
(* writer does to the file between the stat, the open and the reads, in    *)
(* however many pieces it comes and goes, and however much of it reaches   *)
(* the disk; unless the file was written anew between two of the reads.    *)
(***************************************************************************)
THEOREM ReadsAreOfOneWriteAlways ==
    SizesFit /\ OneWriter => (Spec => []ReadsAreOfOneWrite)
<1> SUFFICES ASSUME SizesFit, OneWriter PROVE Spec => []ReadsAreOfOneWrite
  OBVIOUS
<1>1. FilesInv /\ OriginInv => ReadsAreOfOneWrite
  <2> SUFFICES ASSUME FilesInv, OriginInv, NEW t \in Readers, ReadWell(t), ~ task[t].torn
               PROVE  \E text \in WriteTexts \cup {<<>>}, n \in 0..MaxCapacity,
                         k \in 0..Len(Gained(t)) :
                           /\ IsPrefix(SubSeq(Gained(t), 1, k), text \o [i \in 1..n |-> Spare])
                           /\ \A i \in (k + 1)..Len(Gained(t)) :
                                    Gained(t)[i] \in Appended \cup {Spare}
    BY DEF ReadsAreOfOneWrite
  <2>1. t \in Tasks /\ Well(task[t])
    BY DEF Tasks, ReadWell, Well
  <2>2. Gained(t) \in Seq(FileByte) /\ task[t].old = 0
    BY <2>1, GainedIs DEF FilesInv, Sound, Shape
  <2>3. Gained(t) = SubSeq(task[t].string.buffer, 1, task[t].string.length)
    BY <2>2 DEF Gained
  <2>4. OfOneWrite(Gained(t))
    BY <2>1, <2>3 DEF OriginInv, Origin
  <2>5. QED
    BY <2>2, <2>4, OneWriteIsRead
<1>2. Init => FilesInv /\ OriginInv
  BY FilesInvInit, OriginInit
<1>3. FilesInv /\ OriginInv /\ [Next]_vars => FilesInv' /\ OriginInv'
  BY FilesInvNext, OriginNext
<1>4. QED
  BY <1>1, <1>2, <1>3, PTL DEF Spec
=============================================================================
