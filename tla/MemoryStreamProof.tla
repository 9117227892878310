-------------------------- MODULE MemoryStreamProof -------------------------
(***************************************************************************)
(* The memory stream, for any bytes and any sizes that stay below half the *)
(* range of uint: its list grows safely, no read leaves the memory, and    *)
(* the calls that are promised anything do what ByteStream promises.       *)
(***************************************************************************)
EXTENDS MemoryStream, SequenceTheorems, FiniteSetTheorems, WellFoundedInduction, TLAPS

Content == Bytes \cup {Newline, Junk}

List == [capacity : Nat, length : Nat, items : Seq(Content)]

(* The capacity is what is allocated, has room for the length, and never   *)
(* grew to more than twice what the program wants.                         *)
Grown(l) ==
    /\ l \in List
    /\ Len(l.items) = l.capacity
    /\ l.length <= l.capacity
    /\ l.length <= Limit
    /\ l.capacity <= 2 * Limit

StreamInv ==
    /\ Grown(list)
    /\ position \in 0..(P - 1)
    /\ fault \in {"none", "assert_buffer"}

-----------------------------------------------------------------------------
LEMMA Sizes ==
    /\ M \in Nat /\ P \in Nat /\ Limit \in Nat /\ MaxChunk \in Nat
    /\ M > 0 /\ P > 0 /\ 2 * Limit < M /\ M <= P
BY MemoryStreamAssumption

LEMMA FunctionIsSeq ==
    ASSUME NEW S, NEW n \in Nat, NEW f \in [1..n -> S]
    PROVE  f \in Seq(S) /\ Len(f) = n
OBVIOUS

(* One byte more: what was in the list stays, the byte comes behind it.    *)
LEMMA PushedGrows ==
    ASSUME NEW l, Grown(l), l.length + 1 <= Limit, NEW b \in Content
    PROVE  /\ Grown(Pushed(l, b))
           /\ Pushed(l, b).length = l.length + 1
           /\ Pushed(l, b).items[l.length + 1] = b
           /\ \A i \in 1..l.length : Pushed(l, b).items[i] = l.items[i]
<1> DEFINE c == Memory!NewCapacity(l.capacity, l.length, 1)
           items == [i \in 1..c |-> IF i = l.length + 1 THEN b
                                    ELSE IF i <= Len(l.items) THEN l.items[i] ELSE Junk]
<1>1. /\ l.capacity \in Nat /\ l.length \in Nat /\ l.items \in Seq(Content)
      /\ Len(l.items) = l.capacity /\ l.length <= l.capacity /\ l.length + 1 <= Limit
      /\ l.capacity <= 2 * Limit
  BY DEF Grown, List
<1>2. /\ l.length + 1 \in Nat /\ l.length + 1 < M /\ l.capacity < M
      /\ (l.length + 1) % M = l.length + 1
  <2> DEFINE x == l.length + 1
  <2>1. x \in Nat /\ x < M /\ l.capacity < M
    BY <1>1, Sizes
  <2> HIDE DEF x
  <2>2. x % M = x
    BY <2>1, Sizes
  <2>3. QED
    BY <2>1, <2>2 DEF x
<1>3. c \in Nat /\ l.length + 1 <= c /\ l.capacity <= c /\ c <= 2 * Limit
  <2>1. CASE l.length + 1 > l.capacity
    <3>1. l.capacity = l.length /\ 2 * l.capacity \in Nat /\ 2 * l.capacity < M
      BY <1>1, <2>1, Sizes
    <3>2. (2 * l.capacity) % M = 2 * l.capacity
      BY <3>1, Sizes
    <3>3. CASE l.capacity = 0
      <4>1. 2 * l.capacity + 1 = 1 /\ 1 % M = 1
        BY <1>1, <3>3, Sizes
      <4>2. c = 1
        BY <1>1, <1>2, <2>1, <3>2, <3>3, <4>1
        DEF Memory!NewCapacity, Memory!MustGrow, Memory!Wrap
      <4>3. QED
        BY <1>1, <3>1, <3>3, <4>2, Sizes
    <3>4. CASE l.capacity # 0
      <4>1. ~ (2 * l.capacity < l.length + 1)
        BY <1>1, <3>1, <3>4
      <4>2. c = 2 * l.capacity
        BY <1>2, <2>1, <3>2, <4>1
        DEF Memory!NewCapacity, Memory!MustGrow, Memory!Wrap
      <4>3. QED
        BY <1>1, <3>1, <3>4, <4>2, Sizes
    <3>5. QED
      BY <3>3, <3>4
  <2>2. CASE ~ (l.length + 1 > l.capacity)
    <3>1. c = l.capacity
      BY <1>2, <2>2 DEF Memory!NewCapacity, Memory!MustGrow, Memory!Wrap
    <3>2. QED
      BY <1>1, <2>2, <3>1
  <2>3. QED
    BY <2>1, <2>2
<1>4. Pushed(l, b) = [capacity |-> c, length |-> l.length + 1, items |-> items]
  BY DEF Pushed
<1> HIDE DEF c
<1>5. \A i \in 1..c : items[i] \in Content
  BY <1>1, <1>3, ElementOfSeq DEF Content
<1>6. items \in [1..c -> Content]
  BY <1>5
<1>7. items \in Seq(Content) /\ Len(items) = c
  BY <1>3, <1>6, FunctionIsSeq
<1>8. items[l.length + 1] = b /\ \A i \in 1..l.length : items[i] = l.items[i]
  BY <1>1, <1>3
<1> HIDE DEF items
<1>9. Grown(Pushed(l, b))
  BY <1>1, <1>3, <1>4, <1>7 DEF Grown, List
<1>10. QED
  BY <1>4, <1>8, <1>9

-----------------------------------------------------------------------------
(***************************************************************************)
(* The loop that pushes byte after byte. First, induction: numbers that    *)
(* hold 0 and with each number the next one up to n are all up to n.       *)
(***************************************************************************)
LEMMA LeastOf ==
    ASSUME NEW S \in SUBSET Nat, S # {}
    PROVE  \E m \in S : \A k \in S : m <= k
<1> DEFINE Below == {0..m : m \in S}
           R == StrictSubsetOrdering(Nat)
<1>1. Below \subseteq FiniteSubsetsOf(Nat)
  <2>1. ASSUME NEW m \in S PROVE 0..m \in FiniteSubsetsOf(Nat)
    <3>1. IsFiniteSet(0..m)
      BY FS_Interval
    <3>2. 0..m \in SUBSET Nat
      OBVIOUS
    <3>3. QED
      BY <3>1, <3>2 DEF FiniteSubsetsOf
  <2>2. QED
    BY <2>1
<1>2. Below # {}
  OBVIOUS
<1>3. IsWellFoundedOn(R, FiniteSubsetsOf(Nat))
  BY FS_StrictSubsetOrderingWellFounded
<1> HIDE DEF R
<1>4. PICK x \in Below : \A y \in Below : ~ (<<y, x>> \in R)
  BY <1>1, <1>2, <1>3, WFMin
<1>5. PICK m \in S : x = 0..m
  BY <1>4
<1>6. ASSUME NEW k \in S PROVE m <= k
  <2> SUFFICES ASSUME k < m PROVE FALSE
    BY <1>5
  <2>1. m \in 0..m /\ m \notin 0..k
    OBVIOUS
  <2>2. 0..k \in SUBSET Nat /\ 0..m \in SUBSET Nat /\ 0..k \subseteq 0..m /\ 0..k # 0..m
    BY <2>1
  <2>3. <<0..k, 0..m>> \in R /\ 0..k \in Below
    BY <2>2 DEF R, StrictSubsetOrdering
  <2>4. QED
    BY <1>4, <1>5, <2>3
<1>7. QED
  BY <1>5, <1>6

LEMMA UpTo ==
    ASSUME NEW n \in Nat, NEW S, 0 \in S, \A k \in 0..(n - 1) : k \in S => k + 1 \in S
    PROVE  0..n \subseteq S
<1> SUFFICES ASSUME ~ (0..n \subseteq S) PROVE FALSE
  OBVIOUS
<1> DEFINE Missing == (0..n) \ S
<1>1. Missing \in SUBSET Nat /\ Missing # {}
  OBVIOUS
<1>2. PICK m \in Missing : \A k \in Missing : m <= k
  BY <1>1, LeastOf
<1>3. m \in 0..n /\ m \notin S /\ m # 0
  BY <1>2
<1>4. m - 1 \in 0..(n - 1) /\ m - 1 \notin Missing /\ (m - 1) + 1 = m
  BY <1>2, <1>3
<1>5. m - 1 \in S
  BY <1>4
<1>6. QED
  BY <1>3, <1>4, <1>5

(* f is what the loop makes of l after each of its first n steps.          *)
IsRun(f, l, bs, n) ==
    f = [k \in 0..n |-> IF k = 0 THEN l ELSE Pushed(f[k - 1], bs[k])]

LEMMA RunsExist ==
    ASSUME NEW l, NEW bs, NEW n \in Nat
    PROVE  \E f : IsRun(f, l, bs, n)
<1> DEFINE S == {k \in 0..n : \E f : IsRun(f, l, bs, k)}
<1>1. 0 \in S
  <2>1. IsRun([k \in 0..0 |-> l], l, bs, 0)
    BY DEF IsRun
  <2>2. QED
    BY <2>1
<1>2. ASSUME NEW k \in 0..(n - 1), k \in S PROVE k + 1 \in S
  <2>1. PICK f : IsRun(f, l, bs, k)
    BY <1>2
  <2> DEFINE g == [i \in 0..(k + 1) |-> IF i <= k THEN f[i] ELSE Pushed(f[k], bs[k + 1])]
  <2>2. ASSUME NEW i \in 0..(k + 1)
        PROVE  g[i] = IF i = 0 THEN l ELSE Pushed(g[i - 1], bs[i])
    <3>1. CASE i <= k
      <4>1. i \in 0..k /\ (i # 0 => i - 1 \in 0..k /\ i - 1 \in 0..(k + 1) /\ i - 1 <= k)
        BY <3>1
      <4>2. f[i] = IF i = 0 THEN l ELSE Pushed(f[i - 1], bs[i])
        BY <2>1, <4>1 DEF IsRun
      <4>3. g[i] = f[i] /\ (i # 0 => g[i - 1] = f[i - 1])
        BY <3>1, <4>1
      <4> HIDE DEF g
      <4>4. QED
        BY <4>2, <4>3
    <3>2. CASE i = k + 1
      <4>1. g[k + 1] = Pushed(f[k], bs[k + 1]) /\ g[k] = f[k]
        BY <1>2
      <4>2. (k + 1) - 1 = k /\ k + 1 # 0
        BY <1>2
      <4> HIDE DEF g
      <4>3. QED
        BY <3>2, <4>1, <4>2
    <3>3. QED
      BY <3>1, <3>2
  <2>3. g = [i \in 0..(k + 1) |-> g[i]]
    OBVIOUS
  <2> HIDE DEF g
  <2>4. g = [i \in 0..(k + 1) |-> IF i = 0 THEN l ELSE Pushed(g[i - 1], bs[i])]
    BY <2>2, <2>3
  <2>5. IsRun(g, l, bs, k + 1)
    BY <2>4 DEF IsRun
  <2>6. QED
    BY <2>5
<1> HIDE DEF S
<1>3. 0..n \subseteq S
  BY <1>1, <1>2, UpTo
<1>4. QED
  BY <1>3 DEF S

(* What k steps of the loop have done to the list l.                       *)
Holds(r, l, bs, k) ==
    /\ Grown(r)
    /\ r.length = l.length + k
    /\ \A i \in 1..l.length : r.items[i] = l.items[i]
    /\ \A i \in 1..k : r.items[l.length + i] = bs[i]

LEMMA HoldsNext ==
    ASSUME NEW l, Grown(l), NEW bs \in Seq(Content), l.length + Len(bs) <= Limit,
           NEW k \in 0..(Len(bs) - 1), NEW r, Holds(r, l, bs, k)
    PROVE  Holds(Pushed(r, bs[k + 1]), l, bs, k + 1)
<1> DEFINE q == Pushed(r, bs[k + 1])
<1>1. Len(bs) \in Nat /\ l.length \in Nat /\ k \in Nat /\ k + 1 \in 1..Len(bs)
  BY LenProperties DEF Grown, List
<1>2. bs[k + 1] \in Content
  BY <1>1, ElementOfSeq
<1>3. Grown(r) /\ r.length = l.length + k /\ r.length + 1 <= Limit
  BY <1>1, Sizes DEF Holds
<1>4. /\ Grown(q) /\ q.length = r.length + 1
      /\ q.items[r.length + 1] = bs[k + 1]
      /\ \A i \in 1..r.length : q.items[i] = r.items[i]
  BY <1>2, <1>3, PushedGrows
<1> HIDE DEF q
<1>5. \A i \in 1..l.length : q.items[i] = l.items[i]
  BY <1>1, <1>3, <1>4 DEF Holds
<1>6. ASSUME NEW i \in 1..(k + 1) PROVE q.items[l.length + i] = bs[i]
  <2>1. CASE i = k + 1
    <3>1. l.length + i = r.length + 1
      BY <1>1, <1>3, <2>1
    <3>2. QED
      BY <1>4, <2>1, <3>1
  <2>2. CASE i # k + 1
    <3>1. i \in 1..k /\ l.length + i \in 1..r.length
      BY <1>1, <1>3, <2>2
    <3>2. QED
      BY <1>4, <3>1 DEF Holds
  <2>3. QED
    BY <2>1, <2>2
<1>7. q.length = l.length + (k + 1)
  <2>1. q.length = (l.length + k) + 1
    BY <1>3, <1>4
  <2>2. QED
    BY <1>1, <2>1
<1>8. QED
  BY <1>4, <1>5, <1>6, <1>7 DEF Holds, q

LEMMA PushedAllHolds ==
    ASSUME NEW l, Grown(l), NEW bs \in Seq(Content), l.length + Len(bs) <= Limit
    PROVE  Holds(PushedAll(l, bs), l, bs, Len(bs))
<1> DEFINE n == Len(bs)
           f == CHOOSE f : IsRun(f, l, bs, n)
<1>1. n \in Nat
  BY LenProperties
<1>2. PushedAll(l, bs) = f[n]
  BY DEF PushedAll, IsRun
<1>3. IsRun(f, l, bs, n)
  BY <1>1, RunsExist
<1> HIDE DEF f
<1> DEFINE S == {k \in 0..n : Holds(f[k], l, bs, k)}
<1>4. 0 \in S
  <2>1. f[0] = l
    BY <1>1, <1>3 DEF IsRun
  <2>2. Holds(l, l, bs, 0)
    BY DEF Holds, Grown, List
  <2>3. QED
    BY <1>1, <2>1, <2>2
<1>5. ASSUME NEW k \in 0..(n - 1), k \in S PROVE k + 1 \in S
  <2>1. k + 1 \in 0..n /\ k + 1 # 0 /\ (k + 1) - 1 = k
    BY <1>1
  <2>2. f[k + 1] = Pushed(f[k], bs[k + 1])
    BY <1>3, <2>1 DEF IsRun
  <2>3. Holds(Pushed(f[k], bs[k + 1]), l, bs, k + 1)
    BY <1>5, HoldsNext
  <2>4. QED
    BY <2>1, <2>2, <2>3
<1> HIDE DEF S
<1>6. 0..n \subseteq S
  BY <1>1, <1>4, <1>5, UpTo
<1>7. Holds(f[n], l, bs, n)
  BY <1>1, <1>6 DEF S
<1>8. QED
  BY <1>2, <1>7

-----------------------------------------------------------------------------
(* What the stream holds, as ByteStream sees it.                           *)
Held(l) == SubSeq(l.items, 1, l.length)

LEMMA HeldIs ==
    ASSUME NEW l, Grown(l)
    PROVE  /\ Held(l) \in Seq(Content)
           /\ Len(Held(l)) = l.length
           /\ \A i \in 1..l.length : Held(l)[i] = l.items[i]
<1>1. l.length \in Int /\ l.length \in 0..Len(l.items) /\ l.items \in Seq(Content)
  BY LenProperties DEF Grown, List
<1>2. \A i \in 1..l.length : l.items[i] \in Content
  BY <1>1, ElementOfSeq
<1>3. QED
  BY <1>1, <1>2, SubSeqProperties DEF Held

LEMMA ChunksAre ==
    ASSUME NEW S, S \subseteq Content, NEW bs \in BoundedSeq(S, MaxChunk)
    PROVE  bs \in Seq(S) /\ bs \in Seq(Content)
<1>1. PICK n \in 0..MaxChunk : bs \in [1..n -> S]
  BY DEF BoundedSeq, SeqOf
<1>2. n \in Nat
  BY Sizes
<1>3. bs \in Seq(S)
  BY <1>1, <1>2, FunctionIsSeq
<1>4. QED
  BY <1>3

LEMMA PushedAllHeld ==
    ASSUME NEW l, Grown(l), NEW bs \in Seq(Content), l.length + Len(bs) <= Limit
    PROVE  Grown(PushedAll(l, bs)) /\ Held(PushedAll(l, bs)) = Held(l) \o bs
<1> DEFINE r == PushedAll(l, bs)
<1>1. /\ Grown(r) /\ r.length = l.length + Len(bs)
      /\ \A i \in 1..l.length : r.items[i] = l.items[i]
      /\ \A i \in 1..Len(bs) : r.items[l.length + i] = bs[i]
  BY PushedAllHolds DEF Holds
<1> HIDE DEF r
<1>2. Len(bs) \in Nat /\ l.length \in Nat
  BY LenProperties DEF Grown, List
<1>3. /\ Held(l) \o bs \in Seq(Content)
      /\ Len(Held(l) \o bs) = l.length + Len(bs)
      /\ \A i \in 1..(l.length + Len(bs)) :
            (Held(l) \o bs)[i] = IF i <= l.length THEN Held(l)[i] ELSE bs[i - l.length]
  BY HeldIs, ConcatProperties
<1>4. /\ Held(r) \in Seq(Content) /\ Len(Held(r)) = l.length + Len(bs)
      /\ \A i \in 1..(l.length + Len(bs)) : Held(r)[i] = r.items[i]
  BY <1>1, HeldIs
<1>5. ASSUME NEW i \in 1..(l.length + Len(bs)) PROVE Held(r)[i] = (Held(l) \o bs)[i]
  <2>1. CASE i <= l.length
    <3>1. i \in 1..l.length
      BY <1>2, <2>1
    <3>2. QED
      BY <1>1, <1>3, <1>4, <2>1, <3>1, HeldIs
  <2>2. CASE ~ (i <= l.length)
    <3>1. i - l.length \in 1..Len(bs) /\ l.length + (i - l.length) = i
      BY <1>2, <2>2
    <3>2. r.items[i] = bs[i - l.length]
      BY <1>1, <3>1
    <3>3. QED
      BY <1>3, <1>4, <2>2, <3>2
  <2>3. QED
    BY <2>1, <2>2
<1>6. QED
  BY <1>1, <1>2, <1>3, <1>4, <1>5, SeqEqual DEF r

LEMMA WrapIn ==
    ASSUME NEW x \in Nat
    PROVE  Wrap(x) \in 0..(P - 1) /\ (x < P => Wrap(x) = x)
BY Sizes DEF Wrap

LEMMA WriteBytesKeeps ==
    ASSUME StreamInv, NEW bs \in Seq(Content), WriteBytes(bs)
    PROVE  /\ Grown(list') /\ position' \in 0..(P - 1)
           /\ Held(list') = Held(list) \o bs
           /\ position = list.length => position' = position + Len(bs)
<1>1. /\ list' = PushedAll(list, bs) /\ list.length + Len(bs) <= Limit
      /\ position' = Wrap(position + Len(bs))
      /\ Grown(list) /\ position \in Nat /\ Len(bs) \in Nat /\ list.length \in Nat
  BY LenProperties, Sizes DEF WriteBytes, StreamInv, Grown, List
<1>2. position + Len(bs) \in Nat
  BY <1>1
<1>3. position = list.length => position + Len(bs) < P
  BY <1>1, Sizes
<1>4. QED
  BY <1>1, <1>2, <1>3, PushedAllHeld, WrapIn

(* Reads that begin and end inside the memory.                             *)
LEMMA ReadBytesKeeps ==
    ASSUME StreamInv, NEW n \in Nat, position + n <= list.capacity, ReadBytes(n)
    PROVE  fault' = "none" /\ position' = position + n /\ position' \in 0..(P - 1)
<1>1. /\ Len(list.items) = list.capacity /\ list.capacity \in Nat /\ list.capacity <= 2 * Limit
      /\ position \in Nat
  BY Sizes DEF StreamInv, Grown, List
<1>2. position + n \in Nat /\ position + n < P
  BY <1>1, Sizes
<1>3. QED
  BY <1>1, <1>2, WrapIn DEF ReadBytes

LEMMA BytesAtIs ==
    ASSUME StreamInv, NEW n \in Nat, position + n <= list.length
    PROVE  BytesAt(n) = SubSeq(Held(list), position + 1, position + n)
<1>1. /\ list.length \in Nat /\ position \in Nat /\ list.length <= Len(list.items)
      /\ Len(list.items) \in Nat
      /\ Grown(list)
  BY Sizes DEF StreamInv, Grown, List
<1>2. /\ Held(list) \in Seq(Content) /\ Len(Held(list)) = list.length
      /\ \A i \in 1..list.length : Held(list)[i] = list.items[i]
  BY <1>1, HeldIs
<1>3. \A k \in 1..n : /\ position + k \in 1..list.length
                      /\ (position + 1) + k - 1 = position + k
  BY <1>1
<1>4. \A k \in 1..n : BytesAt(n)[k] = Held(list)[position + k] /\ Held(list)[position + k] \in Content
  BY <1>1, <1>2, <1>3, ElementOfSeq DEF BytesAt
<1>5. BytesAt(n) \in Seq(Content) /\ Len(BytesAt(n)) = n
  <2>1. BytesAt(n) \in [1..n -> Content]
    BY <1>4 DEF BytesAt
  <2>2. QED
    BY <2>1, FunctionIsSeq
<1> DEFINE s == SubSeq(Held(list), position + 1, position + n)
<1>6. s \in Seq(Content) /\ Len(s) = n /\ \A k \in 1..n : s[k] = Held(list)[position + k]
  <2>1. position + 1 \in Int /\ position + n \in Int
    BY <1>1
  <2>2. \A i \in (position + 1)..(position + n) : Held(list)[i] \in Content
    <3> SUFFICES ASSUME NEW i \in (position + 1)..(position + n) PROVE Held(list)[i] \in Content
      OBVIOUS
    <3>1. i \in 1..Len(Held(list))
      BY <1>1, <1>2
    <3>2. QED
      BY <1>2, <3>1, ElementOfSeq
  <2>3. CASE n = 0
    <3>1. s = <<>>
      BY <1>1, <2>1, <2>3, SubSeqEmpty
    <3>2. s \in Seq(Content) /\ Len(s) = 0
      BY <3>1, EmptySeq
    <3>3. QED
      BY <2>3, <3>2
  <2>4. CASE n # 0
    <3>1. /\ s \in Seq(Content)
          /\ Len(s) = IF position + 1 <= position + n THEN (position + n) - (position + 1) + 1 ELSE 0
          /\ \A k \in 1..((position + n) - (position + 1) + 1) : s[k] = Held(list)[(position + 1) + k - 1]
      BY <2>1, <2>2, SubSeqProperties
    <3>2. (position + n) - (position + 1) + 1 = n /\ position + 1 <= position + n
      BY <1>1, <2>4
    <3>3. QED
      BY <1>3, <3>1, <3>2
  <2>5. QED
    BY <2>3, <2>4
<1> HIDE DEF s
<1>7. BytesAt(n) = s
  BY <1>4, <1>5, <1>6, SeqEqual
<1>8. QED
  BY <1>7 DEF s

LEMMA SeeksKeeps ==
    ASSUME StreamInv, NEW name, NEW offset, NEW where \in Nat, Seeks(name, offset, where)
    PROVE  StreamInv' /\ (where < P => position' = where)
BY WrapIn DEF StreamInv, Seeks, Grown, List

(* AppendProperties and the newline.                                       *)
LEMMA LineIs ==
    ASSUME NEW bs \in Seq(Content)
    PROVE  Append(bs, Newline) \in Seq(Content) /\ Len(Append(bs, Newline)) = Len(bs) + 1
BY AppendProperties DEF Content

-----------------------------------------------------------------------------
LEMMA StreamInvInit == Init => StreamInv
<1> SUFFICES ASSUME Init PROVE StreamInv
  OBVIOUS
<1>1. PICK c \in 0..Limit :
        list = [capacity |-> c, length |-> 0, items |-> [i \in 1..c |-> Junk]]
  BY DEF Init
<1> DEFINE items == [i \in 1..c |-> Junk]
<1>2. c \in Nat /\ items \in [1..c -> Content]
  BY Sizes DEF Content
<1> HIDE DEF items
<1>3. items \in Seq(Content) /\ Len(items) = c
  BY <1>2, FunctionIsSeq
<1>4. list = [capacity |-> c, length |-> 0, items |-> items]
  BY <1>1 DEF items
<1>5. Grown(list)
  BY <1>2, <1>3, <1>4, Sizes DEF Grown, List
<1>6. QED
  BY <1>5, Sizes DEF Init, StreamInv

(* Every step keeps the invariant, and is a step of the promised stream    *)
(* or one of those that are promised nothing.                              *)
LEMMA WriteStep ==
    ASSUME StreamInv, NEW bs \in BoundedSeq(Bytes \cup {Newline}, MaxChunk), Write(bs)
    PROVE  StreamInv' /\ (Unpromised \/ Promise!Next)
<1>1. bs \in Seq(Content)
  BY ChunksAre DEF Content
<1>2. /\ Grown(list') /\ position' \in 0..(P - 1)
      /\ Held(list') = Held(list) \o bs
      /\ position = list.length => position' = position + Len(bs)
  BY <1>1, WriteBytesKeeps DEF Write
<1>3. call' = <<"Write">> \o <<bs>> /\ answer' = <<>> /\ fault' = fault
  BY DEF Write, Returns
<1>4. StreamInv'
  BY <1>2, <1>3 DEF StreamInv, Grown, List
<1>5. CASE position = list.length
  <2>1. Promise!Write("Write", bs, bs)
    BY <1>2, <1>3, <1>5 DEF Promise!Write, Promise!Does, Held
  <2>2. bs \in Promise!BoundedSeq(Bytes \cup {Newline}, MaxChunk)
    BY DEF BoundedSeq, SeqOf, Promise!BoundedSeq, Promise!SeqOf
  <2>3. QED
    BY <1>4, <2>1, <2>2 DEF Promise!Next
<1>6. CASE position # list.length
  <2>1. call'[1] = "Write"
    BY <1>3
  <2>2. QED
    BY <1>4, <1>6, <2>1 DEF Unpromised
<1>7. QED
  BY <1>5, <1>6

LEMMA WriteLineStep ==
    ASSUME StreamInv, NEW bs \in BoundedSeq(Bytes, MaxChunk), NEW allocated \in BOOLEAN,
           WriteLine(bs, allocated)
    PROVE  StreamInv' /\ (Unpromised \/ Promise!Next)
<1>1. bs \in Seq(Content) /\ Append(bs, Newline) \in Seq(Content)
  BY ChunksAre, LineIs DEF Content
<1>2. call' = <<"WriteLine">> \o <<bs>> /\ answer' = <<>> /\ call'[1] = "WriteLine"
  BY DEF WriteLine, Returns
<1>3. CASE allocated
  <2>1. WriteBytes(Append(bs, Newline)) /\ fault' = fault
    BY <1>3 DEF WriteLine
  <2>2. /\ Grown(list') /\ position' \in 0..(P - 1)
        /\ Held(list') = Held(list) \o Append(bs, Newline)
        /\ position = list.length => position' = position + Len(Append(bs, Newline))
    BY <1>1, <2>1, WriteBytesKeeps
  <2>3. StreamInv'
    BY <2>1, <2>2 DEF StreamInv, Grown, List
  <2>4. CASE position = list.length
    <3>1. Promise!Write("WriteLine", bs, Append(bs, Newline))
      BY <1>2, <2>2, <2>4 DEF Promise!Write, Promise!Does, Held
    <3>2. bs \in Promise!BoundedSeq(Bytes, MaxChunk)
      BY DEF BoundedSeq, SeqOf, Promise!BoundedSeq, Promise!SeqOf
    <3>3. QED
      BY <2>3, <3>1, <3>2 DEF Promise!Next
  <2>5. CASE position # list.length
    BY <1>2, <2>3, <2>5 DEF Unpromised
  <2>6. QED
    BY <2>4, <2>5
<1>4. CASE ~ allocated
  <2>1. fault' = "assert_buffer" /\ UNCHANGED <<list, position>>
    BY <1>4 DEF WriteLine
  <2>2. StreamInv'
    BY <2>1 DEF StreamInv, Grown, List
  <2>3. QED
    BY <1>2, <2>1, <2>2 DEF Unpromised
<1>5. QED
  BY <1>3, <1>4

LEMMA ReadStep ==
    ASSUME StreamInv, NEW n \in 0..Limit, Read(n)
    PROVE  StreamInv' /\ (Unpromised \/ Promise!Next)
<1>1. n \in Nat /\ position + n <= list.capacity /\ ReadBytes(n) /\ UNCHANGED list
  BY Sizes DEF Read, GetLength
<1>2. fault' = "none" /\ position' = position + n /\ position' \in 0..(P - 1)
  BY <1>1, ReadBytesKeeps
<1>3. StreamInv'
  BY <1>1, <1>2 DEF StreamInv, Grown, List
<1>4. call' = <<"Read">> \o <<n>> /\ answer' = BytesAt(n) /\ call'[1] = "Read"
  BY DEF Read, Returns
<1>5. CASE position + n <= list.length
  <2>1. answer' = SubSeq(Held(list), position + 1, position + n)
    BY <1>1, <1>4, <1>5, BytesAtIs
  <2>2. Len(Held(list)) = list.length
    BY HeldIs DEF StreamInv
  <2>3. Promise!Read(n)
    BY <1>1, <1>2, <1>4, <1>5, <2>1, <2>2 DEF Promise!Read, Promise!Does, Held
  <2>4. QED
    BY <1>3, <2>3 DEF Promise!Next
<1>6. CASE ~ (position + n <= list.length)
  <2>1. position' > list.length
    BY <1>1, <1>2, <1>6, Sizes DEF StreamInv, Grown, List
  <2>2. QED
    BY <1>3, <1>4, <2>1 DEF Unpromised
<1>7. QED
  BY <1>5, <1>6

LEMMA ReadLineStep ==
    ASSUME StreamInv, ReadLine
    PROVE  StreamInv' /\ (Unpromised \/ Promise!Next)
<1>1. PICK n \in 1..(list.length - position) :
        /\ list.items[position + n] = Newline
        /\ \A k \in 1..(n - 1) : list.items[position + k] # Newline
        /\ ReadBytes(n)
        /\ Returns("ReadLine", <<>>, BytesAt(n - 1))
  BY DEF ReadLine
<1>2. /\ list.length \in Nat /\ position \in Nat /\ Grown(list)
      /\ list.length <= list.capacity /\ list.capacity \in Nat
  BY Sizes DEF StreamInv, Grown, List
<1>3. /\ n \in Nat /\ n - 1 \in Nat /\ position + n <= list.length
      /\ position + n <= list.capacity /\ position + (n - 1) <= list.length
      /\ UNCHANGED list
  BY <1>2 DEF ReadLine
<1>4. fault' = "none" /\ position' = position + n /\ position' \in 0..(P - 1)
  BY <1>1, <1>3, ReadBytesKeeps
<1>5. StreamInv'
  BY <1>3, <1>4 DEF StreamInv, Grown, List
<1>6. /\ Len(Held(list)) = list.length
      /\ \A i \in 1..list.length : Held(list)[i] = list.items[i]
  BY <1>2, HeldIs
<1>7. BytesAt(n - 1) = SubSeq(Held(list), position + 1, position + (n - 1))
  BY <1>3, BytesAtIs
<1> DEFINE m == n - 1
<1>8. /\ m \in 0..(Len(Held(list)) - position - 1)
      /\ position + m + 1 = position + n
  BY <1>2, <1>3, <1>6
<1>9. Held(list)[position + m + 1] = Newline
  <2>1. position + n \in 1..list.length
    BY <1>2, <1>3
  <2>2. QED
    BY <1>1, <1>6, <1>8, <2>1
<1>10. \A k \in 1..m : Held(list)[position + k] # Newline
  <2>1. \A k \in 1..m : position + k \in 1..list.length
    BY <1>2, <1>3
  <2>2. QED
    BY <1>1, <1>6, <2>1
<1>11. /\ call' = <<"ReadLine">> \o <<>>
       /\ answer' = SubSeq(Held(list), position + 1, position + m)
       /\ position' = position + m + 1
       /\ Held(list') = Held(list)
  BY <1>1, <1>3, <1>4, <1>7, <1>8 DEF Returns
<1> HIDE DEF m
<1>12. Promise!ReadLine
  BY <1>8, <1>9, <1>10, <1>11 DEF Promise!ReadLine, Promise!Does, Held
<1>13. QED
  BY <1>5, <1>12 DEF Promise!Next

LEMMA SeekStep ==
    ASSUME StreamInv, NEW offset \in 0..Limit,
           SeekBegin(offset) \/ SeekBack(offset) \/ SeekEnd(offset)
    PROVE  StreamInv' /\ (Unpromised \/ Promise!Next)
<1>1. /\ offset \in Nat /\ offset < P /\ list.capacity \in Nat /\ position \in Nat
      /\ position < P
  BY Sizes DEF StreamInv, Grown, List
<1>2. CASE SeekBegin(offset)
  <2>1. StreamInv' /\ position' = offset
    BY <1>1, <1>2, SeeksKeeps DEF SeekBegin
  <2>2. Promise!SeekBegin(offset)
    BY <1>2, <2>1 DEF SeekBegin, Seeks, Returns, Promise!SeekBegin, Promise!Does
  <2>3. QED
    BY <2>1, <2>2 DEF Promise!Next
<1>3. CASE SeekBack(offset)
  <2>1. position + P - offset \in Nat
    BY <1>1, Sizes
  <2>2. StreamInv'
    BY <1>3, <2>1, SeeksKeeps DEF SeekBack
  <2>3. call' = <<"SeekBack">> \o <<offset>> /\ call'[1] = "SeekBack" /\ call'[2] = offset
    BY <1>3 DEF SeekBack, Seeks, Returns
  <2>4. CASE offset <= position
    <3>1. position + P - offset = (position - offset) + P /\ position - offset \in 0..(P - 1)
      BY <1>1, <2>4, Sizes
    <3>2. Wrap(position + P - offset) = position - offset
      <4> DEFINE x == position - offset
      <4>1. x \in 0..(P - 1) /\ position + P - offset = x + P
        BY <3>1
      <4> HIDE DEF x
      <4>2. (x + P) % P = x
        BY <4>1, Sizes
      <4>3. QED
        BY <4>1, <4>2 DEF Wrap, x
    <3>3. Promise!SeekBack(offset)
      BY <1>3, <2>4, <3>2 DEF SeekBack, Seeks, Returns, Promise!SeekBack, Promise!Does
    <3>4. QED
      BY <2>2, <3>3 DEF Promise!Next
  <2>5. CASE offset > position
    BY <2>2, <2>3, <2>5 DEF Unpromised
  <2>6. QED
    BY <1>1, <2>4, <2>5
<1>4. CASE SeekEnd(offset)
  <2>1. GetLength + P - offset \in Nat
    BY <1>1, Sizes DEF GetLength
  <2>2. StreamInv'
    BY <1>4, <2>1, SeeksKeeps DEF SeekEnd
  <2>3. call'[1] = "SeekEnd"
    BY <1>4 DEF SeekEnd, Seeks, Returns
  <2>4. QED
    BY <2>2, <2>3 DEF Unpromised
<1>5. QED
  BY <1>2, <1>3, <1>4

LEMMA StreamStep ==
    ASSUME StreamInv, Next
    PROVE  StreamInv' /\ (Unpromised \/ Promise!Next)
BY WriteStep, WriteLineStep, ReadStep, ReadLineStep, SeekStep DEF Next

LEMMA StreamInvNext == StreamInv /\ [Next]_vars => StreamInv'
<1>1. StreamInv /\ UNCHANGED vars => StreamInv'
  BY DEF vars, StreamInv, Grown, List
<1>2. QED
  BY <1>1, StreamStep

-----------------------------------------------------------------------------
(* What the variables are, at any length of a chunk and of the stream.     *)
THEOREM StreamTypeCorrect == Spec => []TypeOK
<1>1. StreamInv => TypeOK
  <2> SUFFICES ASSUME StreamInv PROVE TypeOK
    OBVIOUS
  <2>1. /\ list.capacity \in 0..(M - 1) /\ list.length \in 0..(M - 1)
        /\ list.items \in [1..list.capacity -> Content] /\ list.capacity \in 0..(2 * Limit)
    BY Sizes, LenProperties DEF StreamInv, Grown, List
  <2>2. list.items \in BoundedSeq(Content, 2 * Limit)
    BY <2>1 DEF BoundedSeq, SeqOf
  <2>3. QED
    BY <2>1, <2>2 DEF TypeOK, StreamInv, Content
<1>2. QED
  BY <1>1, StreamInvInit, StreamInvNext, PTL DEF Spec

(* AvmStreamGetLength is the capacity, and the capacity is allocated: a    *)
(* program that reads no further never reads behind the memory.            *)
THEOREM ReadsStayInsideAlways == Spec => []ReadsStayInside
<1>1. StreamInv => ReadsStayInside
  BY DEF StreamInv, ReadsStayInside
<1>2. QED
  BY <1>1, StreamInvInit, StreamInvNext, PTL DEF Spec

(* A write of any number of bytes pushes each of them on a list that was   *)
(* safe before: the loop keeps the capacity allocated, and below M.        *)
THEOREM GrowsSafelyAlways == Spec => []GrowsSafely
<1>1. StreamInv => GrowsSafely
  BY DEF StreamInv, Grown, List, GrowsSafely, Memory!StorageSafe
<1>2. QED
  BY <1>1, StreamInvInit, StreamInvNext, PTL DEF Spec

(***************************************************************************)
(* The memory stream implements ByteStream, except for the calls that the  *)
(* code promises nothing, after which it does again.                       *)
(***************************************************************************)
THEOREM ImplementsByteStreamAlways == Spec => ImplementsByteStream
<1>1. Init => Promise!Init
  <2> SUFFICES ASSUME Init PROVE Promise!Init
    OBVIOUS
  <2>1. Grown(list) /\ list.length = 0
    BY StreamInvInit DEF Init, StreamInv
  <2>2. SubSeq(list.items, 1, list.length) = <<>>
    BY <2>1, SubSeqEmpty
  <2>3. QED
    BY <2>2 DEF Init, Promise!Init
<1>2. StreamInv /\ [Next]_vars => [Unpromised \/ Promise!Next]_vars
  BY StreamStep
<1>3. QED
  BY <1>1, <1>2, StreamInvInit, StreamInvNext, PTL DEF Spec, ImplementsByteStream
=============================================================================
