--------------------------- MODULE ArrayListProof ---------------------------
(***************************************************************************)
(* The array list, for any objects and any number of them below half the   *)
(* range of uint: who owns an object at every moment, that the list grows  *)
(* as Storage says, and that a program which inserts at the last two       *)
(* positions only gets the list that List promises.                        *)
(***************************************************************************)
EXTENDS ArrayList, SequenceTheorems, FiniteSetTheorems, WellFoundedInduction, TLAPS

(* What the promises hold for.                                             *)
HalfTheRange == 2 * Limit < M
Ordinary == ~ InsertsInside

Slot == Objects \cup {Junk}

ListRecord == [capacity : Nat, length : Nat, items : Seq(Slot)]

(* The shape of a list l: the capacity is what is allocated, and has room  *)
(* for the items.                                                          *)
Grown(l) ==
    /\ l \in ListRecord
    /\ Len(l.items) = l.capacity
    /\ l.length <= l.capacity
    /\ l.length <= Limit
    /\ l.capacity <= 2 * Limit

(* Every item is an object.                                                *)
Filled(l) == \A i \in 1..l.length : l.items[i] \in Objects

(* x is in no slot of l, or in one only.                                   *)
Nowhere(l, x) == \A i \in 1..l.length : l.items[i] # x

Once(l, x) == \E i \in 1..l.length : l.items[i] = x /\ \A j \in 1..l.length : l.items[j] = x => j = i

(* Who owns x when a list l, the objects u still with the program and the  *)
(* finalised ones f are all there is.                                      *)
Placed(l, u, f, x) ==
    /\ x \notin u \cap f
    /\ x \in u \cup f => Nowhere(l, x)
    /\ x \notin u \cup f => Once(l, x)

AllPlaced(l, u, f) == \A x \in Objects \ Throwing : Placed(l, u, f, x)

Owned(l, u, f) ==
    /\ Grown(l)
    /\ u \subseteq Objects /\ f \subseteq Objects
    /\ Ordinary => Filled(l) /\ AllPlaced(l, u, f)

ListInv ==
    /\ Owned(list, unused, finalised)
    /\ fault \in {"none", "dead_object"}
    /\ Ordinary /\ fault = "dead_object" => finalised \cap Throwing # {}

-----------------------------------------------------------------------------
LEMMA Sizes ==
    /\ M \in Nat /\ M > 0 /\ Limit \in Nat /\ Throwing \subseteq Objects /\ Junk \notin Objects
BY ArrayListAssumption

LEMMA FunctionIsSeq ==
    ASSUME NEW S, NEW n \in Nat, NEW f \in [1..n -> S]
    PROVE  f \in Seq(S) /\ Len(f) = n
OBVIOUS

(* EnsureCapacity makes room for one more item and keeps those there are.  *)
LEMMA GrowthMakesRoom ==
    ASSUME HalfTheRange, NEW l, Grown(l), l.length < Limit
    PROVE  LET c == Memory!NewCapacity(l.capacity, l.length, 1)
           IN  /\ c \in Nat /\ l.length + 1 <= c /\ l.capacity <= c /\ c <= 2 * Limit
               /\ ~ Memory!MustGrow(l.capacity, l.length, 1) => c = l.capacity
<1> DEFINE c == Memory!NewCapacity(l.capacity, l.length, 1)
<1>1. /\ l.capacity \in Nat /\ l.length \in Nat /\ l.length <= l.capacity
      /\ l.length + 1 <= Limit /\ l.capacity <= 2 * Limit
      /\ M \in Nat /\ M > 0 /\ 2 * Limit < M /\ Limit \in Nat
  BY Sizes DEF Grown, ListRecord, HalfTheRange
<1>2. (l.length + 1) % M = l.length + 1
  <2> DEFINE x == l.length + 1
  <2>1. x \in Nat /\ x < M
    BY <1>1
  <2> HIDE DEF x
  <2>2. x % M = x
    BY <1>1, <2>1
  <2>3. QED
    BY <2>2 DEF x
<1>3. CASE l.length + 1 > l.capacity
  <2>1. l.capacity = l.length /\ 2 * l.capacity \in Nat /\ 2 * l.capacity < M
    BY <1>1, <1>3
  <2>2. (2 * l.capacity) % M = 2 * l.capacity
    BY <1>1, <2>1
  <2>3. CASE l.capacity = 0
    <3>1. 2 * l.capacity + 1 = 1 /\ 1 % M = 1
      BY <1>1, <2>3
    <3>2. c = 1
      BY <1>1, <1>2, <1>3, <2>2, <2>3, <3>1
      DEF Memory!NewCapacity, Memory!MustGrow, Memory!Wrap
    <3>3. QED
      BY <1>1, <1>2, <1>3, <2>1, <2>3, <3>2 DEF Memory!MustGrow, Memory!Wrap
  <2>4. CASE l.capacity # 0
    <3>1. ~ (2 * l.capacity < l.length + 1)
      BY <1>1, <2>1, <2>4
    <3>2. c = 2 * l.capacity
      BY <1>2, <1>3, <2>2, <3>1
      DEF Memory!NewCapacity, Memory!MustGrow, Memory!Wrap
    <3>3. QED
      BY <1>1, <1>2, <1>3, <2>1, <2>4, <3>2 DEF Memory!MustGrow, Memory!Wrap
  <2>5. QED
    BY <2>3, <2>4
<1>4. CASE ~ (l.length + 1 > l.capacity)
  <2>1. c = l.capacity
    BY <1>2, <1>4 DEF Memory!NewCapacity, Memory!MustGrow, Memory!Wrap
  <2>2. QED
    BY <1>1, <1>4, <2>1
<1>5. QED
  BY <1>3, <1>4

LEMMA RoomIsMade ==
    ASSUME HalfTheRange, NEW l, Grown(l), l.length < Limit
    PROVE  LET r == EnsureCapacity(l)
           IN  /\ Grown(r)
               /\ r.length = l.length /\ l.length + 1 <= r.capacity
               /\ \A i \in 1..l.length : r.items[i] = l.items[i]
<1> DEFINE c == Memory!NewCapacity(l.capacity, l.length, 1)
           grown == [i \in 1..c |-> IF i <= Len(l.items) THEN l.items[i] ELSE Junk]
           items == IF Memory!MustGrow(l.capacity, l.length, 1) THEN grown ELSE l.items
           r == EnsureCapacity(l)
<1>1. /\ c \in Nat /\ l.length + 1 <= c /\ l.capacity <= c /\ c <= 2 * Limit
      /\ ~ Memory!MustGrow(l.capacity, l.length, 1) => c = l.capacity
  BY GrowthMakesRoom
<1>2. /\ l.capacity \in Nat /\ l.length \in Nat /\ l.items \in Seq(Slot)
      /\ Len(l.items) = l.capacity /\ l.length <= l.capacity /\ l.length <= Limit
      /\ l = [capacity |-> l.capacity, length |-> l.length, items |-> l.items]
  BY DEF Grown, ListRecord
<1>3. r = [capacity |-> c, length |-> l.length, items |-> items]
  BY <1>2 DEF EnsureCapacity
<1> HIDE DEF c
<1>4. grown \in Seq(Slot) /\ Len(grown) = c /\ \A i \in 1..l.length : grown[i] = l.items[i]
  <2>1. \A i \in 1..c : grown[i] \in Slot
    BY <1>1, <1>2, ElementOfSeq DEF Slot
  <2>2. grown \in [1..c -> Slot]
    BY <2>1
  <2>3. \A i \in 1..l.length : grown[i] = l.items[i]
    BY <1>1, <1>2
  <2> HIDE DEF grown
  <2>4. QED
    BY <1>1, <2>2, <2>3, FunctionIsSeq
<1> HIDE DEF grown
<1>5. items \in Seq(Slot) /\ Len(items) = c /\ \A i \in 1..l.length : items[i] = l.items[i]
  BY <1>1, <1>2, <1>4
<1> HIDE DEF items, r
<1>6. Grown(r)
  BY <1>1, <1>2, <1>3, <1>5 DEF Grown, ListRecord
<1>7. QED
  BY <1>1, <1>3, <1>5, <1>6 DEF r

-----------------------------------------------------------------------------
(* Insertion. x goes to the end of the list or before the last item.       *)
LEMMA InsertedPlaced ==
    ASSUME NEW l, NEW u, NEW f, Owned(l, u, f), NEW x \in u,
           NEW r, Grown(r), r.length = l.length, l.length + 1 <= r.capacity,
           \A i \in 1..l.length : r.items[i] = l.items[i],
           l.length < Limit,
           NEW index \in 0..l.length, Ordinary => index + 1 >= l.length
    PROVE  Owned([capacity |-> r.capacity, length |-> r.length + 1, items |-> ShiftedOut(r, index, x)],
                 u \ {x}, f)
<1> DEFINE items == ShiftedOut(r, index, x)
           q == [capacity |-> r.capacity, length |-> r.length + 1, items |-> items]
<1>1. /\ r.length \in Nat /\ r.capacity \in Nat /\ r.items \in Seq(Slot)
      /\ Len(r.items) = r.capacity /\ r.capacity <= 2 * Limit
      /\ l.length \in Nat /\ DOMAIN r.items = 1..r.capacity
      /\ l.length <= r.capacity
      /\ r = [capacity |-> r.capacity, length |-> r.length, items |-> r.items]
  BY LenProperties DEF Grown, ListRecord, Owned
<1>2. /\ x \in Objects /\ u \subseteq Objects /\ f \subseteq Objects
      /\ Ordinary => Filled(l) /\ \A y \in Objects \ Throwing : Placed(l, u, f, y)
  BY DEF Owned, AllPlaced
<1>3. q = [capacity |-> r.capacity, length |-> l.length + 1, items |-> items]
  OBVIOUS
<1>4. \A i \in 1..r.capacity :
        items[i] = IF i = index + 1 THEN x
                   ELSE IF i = index + 2 /\ index < l.length THEN r.items[index + 1]
                   ELSE r.items[i]
  BY <1>1 DEF ShiftedOut
<1>5. items \in Seq(Slot) /\ Len(items) = r.capacity
  <2>1. \A i \in 1..r.capacity : items[i] \in Slot
    <3>1. \A i \in 1..r.capacity : r.items[i] \in Slot
      BY <1>1, ElementOfSeq
    <3>2. index < l.length => index + 1 \in 1..r.capacity
      BY <1>1
    <3>3. QED
      BY <1>2, <1>4, <3>1, <3>2 DEF Slot
  <2>2. items \in [1..r.capacity -> Slot]
    BY <1>1, <2>1 DEF ShiftedOut
  <2>3. QED
    BY <1>1, <2>2, FunctionIsSeq
(* Where the items of l are now.                                           *)
<1> DEFINE At(i) == IF i = index + 1 THEN l.length + 1 ELSE i
<1> HIDE DEF items
<1>6. ASSUME Ordinary
      PROVE  /\ index + 1 \in 1..(l.length + 1) /\ items[index + 1] = x
             /\ \A i \in 1..l.length : At(i) \in 1..(l.length + 1) /\ items[At(i)] = l.items[i]
  <2>1. index + 1 \in 1..(l.length + 1) /\ index + 1 \in 1..r.capacity /\ items[index + 1] = x
    BY <1>1, <1>4
  <2>2. ASSUME NEW i \in 1..l.length
        PROVE  At(i) \in 1..(l.length + 1) /\ items[At(i)] = l.items[i]
    <3>1. CASE i = index + 1
      <4>1. index + 2 = l.length + 1 /\ index < l.length /\ index + 2 \in 1..r.capacity
            /\ index + 2 # index + 1
        BY <1>1, <1>6, <3>1
      <4>2. items[index + 2] = r.items[index + 1]
        BY <1>4, <4>1
      <4>3. QED
        BY <1>1, <3>1, <4>1, <4>2
    <3>2. CASE i # index + 1
      <4>1. i \in 1..r.capacity /\ ~ (i = index + 2 /\ index < l.length)
        BY <1>1, <1>6, <3>2
      <4>2. QED
        BY <1>1, <1>4, <3>2, <4>1
    <3>3. QED
      BY <3>1, <3>2
  <2>3. QED
    BY <2>1, <2>2
<1>7. ASSUME Ordinary
      PROVE  \A i \in 1..(l.length + 1) : i = index + 1 \/ \E j \in 1..l.length : i = At(j)
  <2> SUFFICES ASSUME NEW i \in 1..(l.length + 1), i # index + 1
               PROVE  \E j \in 1..l.length : i = At(j)
    OBVIOUS
  <2>1. CASE i = l.length + 1
    <3>1. index + 1 \in 1..l.length /\ At(index + 1) = i
      BY <1>1, <1>7, <2>1
    <3>2. QED
      BY <3>1
  <2>2. CASE i # l.length + 1
    <3>1. i \in 1..l.length /\ At(i) = i
      BY <1>1, <2>2
    <3>2. QED
      BY <3>1
  <2>3. QED
    BY <2>1, <2>2
<1> HIDE DEF At
<1>8. Ordinary => Filled(q)
  BY <1>2, <1>3, <1>6, <1>7 DEF Filled
<1>9. ASSUME Ordinary, NEW y \in Objects \ Throwing PROVE Placed(q, u \ {x}, f, y)
  <2>1. Placed(l, u, f, y)
    BY <1>2, <1>9
  <2>2. CASE y = x
    <3>1. y \notin f /\ \A i \in 1..l.length : l.items[i] # x
      BY <2>1, <2>2 DEF Placed, Nowhere
    <3>2. \A i \in 1..(l.length + 1) : items[i] = x => i = index + 1
      BY <1>6, <1>7, <1>9, <3>1
    <3>3. Once(q, x)
      BY <1>3, <1>6, <1>9, <3>2 DEF Once
    <3>4. QED
      BY <2>2, <3>1, <3>3 DEF Placed
  <2>3. CASE y # x
    <3>1. Nowhere(l, y) => Nowhere(q, y)
      BY <1>3, <1>6, <1>7, <1>9, <2>3 DEF Nowhere
    <3>2. ASSUME Once(l, y) PROVE Once(q, y)
      <4>1. PICK i \in 1..l.length :
                l.items[i] = y /\ \A j \in 1..l.length : l.items[j] = y => j = i
        BY <3>2 DEF Once
      <4>2. \A k \in 1..(l.length + 1) : items[k] = y => k = At(i)
        BY <1>6, <1>7, <1>9, <2>3, <4>1
      <4>3. QED
        BY <1>3, <1>6, <1>9, <4>1, <4>2 DEF Once
    <3>3. QED
      BY <2>1, <2>3, <3>1, <3>2 DEF Placed
  <2>4. QED
    BY <2>2, <2>3
<1>10. Grown(q)
  BY <1>1, <1>3, <1>5, Sizes DEF Grown, ListRecord
<1> HIDE DEF q
<1>11. Owned(q, u \ {x}, f)
  BY <1>2, <1>8, <1>9, <1>10 DEF Owned, AllPlaced
<1>12. QED
  BY <1>11 DEF q, items

-----------------------------------------------------------------------------
(* Removal. What is behind the removed item moves one slot forward.        *)
LEMMA TakenPlaced ==
    ASSUME NEW l, NEW u, NEW f, Owned(l, u, f),
           NEW index \in 0..(l.length - 1),
           l.items[index + 1] \in Objects \ (Throwing \cup f)
    PROVE  Owned(Taken(l, index), u, f \cup {l.items[index + 1]})
<1> DEFINE x == l.items[index + 1]
           n == l.length - 1
           items == ShiftedIn(l, index)
           q == Taken(l, index)
           From(i) == IF i > index THEN i + 1 ELSE i
<1>1. /\ l.length \in Nat /\ l.capacity \in Nat /\ l.items \in Seq(Slot)
      /\ Len(l.items) = l.capacity /\ l.capacity <= 2 * Limit
      /\ DOMAIN l.items = 1..l.capacity
      /\ l.length <= l.capacity /\ l.length <= Limit
      /\ Limit \in Nat /\ index \in Nat /\ index < l.length /\ n \in Nat /\ n + 1 = l.length
  BY LenProperties, Sizes DEF Grown, ListRecord, Owned
<1>2. /\ u \subseteq Objects /\ f \subseteq Objects
      /\ Ordinary => Filled(l) /\ \A y \in Objects \ Throwing : Placed(l, u, f, y)
  BY DEF Owned, AllPlaced
<1>3. q = [capacity |-> l.capacity, length |-> n, items |-> items]
  BY DEF Taken
<1>4. \A i \in 1..l.capacity :
        items[i] = IF index < i /\ i < l.length THEN l.items[i + 1] ELSE l.items[i]
  BY <1>1 DEF ShiftedIn
<1>5. items \in Seq(Slot) /\ Len(items) = l.capacity
  <2>1. \A i \in 1..l.capacity : items[i] \in Slot
    <3>1. \A i \in 1..l.capacity : l.items[i] \in Slot
      BY <1>1, ElementOfSeq
    <3>2. ASSUME NEW i \in 1..l.capacity, i < l.length PROVE i + 1 \in 1..l.capacity
      <4>1. l.capacity \in Nat /\ l.length \in Nat /\ l.length <= l.capacity
        BY <1>1
      <4> HIDE DEF x, n, items, q
      <4>2. QED
        BY <3>2, <4>1
    <3>3. QED
      BY <1>4, <3>1, <3>2
  <2>2. items \in [1..l.capacity -> Slot]
    BY <1>1, <2>1 DEF ShiftedIn
  <2>3. QED
    BY <1>1, <2>2, FunctionIsSeq
<1>6. x \in Objects \ Throwing /\ x \notin f /\ index + 1 \in 1..l.length
  BY <1>1
<1> HIDE DEF items, x, n
<1>7. \A i \in 1..n : From(i) \in 1..l.length /\ From(i) # index + 1 /\ items[i] = l.items[From(i)]
  <2> SUFFICES ASSUME NEW i \in 1..n
               PROVE  From(i) \in 1..l.length /\ From(i) # index + 1 /\ items[i] = l.items[From(i)]
    OBVIOUS
  <2>1. i \in 1..l.capacity /\ i < l.length
    BY <1>1
  <2>2. QED
    BY <1>1, <1>4, <2>1
<1>8. \A j \in 1..l.length : j # index + 1 =>
        \E k \in 1..n : From(k) = j /\ \A i \in 1..n : From(i) = j => i = k
  <2> SUFFICES ASSUME NEW j \in 1..l.length, j # index + 1
               PROVE  \E k \in 1..n : From(k) = j /\ \A i \in 1..n : From(i) = j => i = k
    OBVIOUS
  <2>1. CASE j > index
    <3>1. j - 1 \in 1..n /\ From(j - 1) = j
      BY <1>1, <2>1
    <3>2. \A i \in 1..n : From(i) = j => i = j - 1
      BY <1>1, <2>1
    <3>3. QED
      BY <3>1, <3>2
  <2>2. CASE ~ (j > index)
    <3>1. j \in 1..n /\ From(j) = j
      BY <1>1, <2>2
    <3>2. \A i \in 1..n : From(i) = j => i = j
      BY <1>1, <2>2
    <3>3. QED
      BY <3>1, <3>2
  <2>3. QED
    BY <2>1, <2>2
<1> HIDE DEF From
<1>9. Ordinary => Filled(q)
  BY <1>2, <1>3, <1>7 DEF Filled
<1>10. ASSUME Ordinary, NEW y \in Objects \ Throwing PROVE Placed(q, u, f \cup {x}, y)
  <2>1. Placed(l, u, f, y)
    BY <1>2, <1>10
  <2>2. CASE y = x
    <3>1. l.items[index + 1] = y /\ ~ Nowhere(l, y)
      BY <1>6, <2>2 DEF x, Nowhere
    <3>2. y \notin u \cup f /\ Once(l, y)
      BY <2>1, <3>1 DEF Placed
    <3>3. \A j \in 1..l.length : l.items[j] = y => j = index + 1
      BY <1>6, <3>1, <3>2 DEF Once
    <3>4. Nowhere(q, y)
      BY <1>3, <1>7, <3>3 DEF Nowhere
    <3>5. QED
      BY <2>2, <3>2, <3>4 DEF Placed
  <2>3. CASE y # x
    <3>1. Nowhere(l, y) => Nowhere(q, y)
      BY <1>3, <1>7 DEF Nowhere
    <3>2. ASSUME Once(l, y) PROVE Once(q, y)
      <4>1. PICK j \in 1..l.length :
                l.items[j] = y /\ \A i \in 1..l.length : l.items[i] = y => i = j
        BY <3>2 DEF Once
      <4>2. j # index + 1
        BY <2>3, <4>1 DEF x
      <4>3. PICK k \in 1..n : From(k) = j /\ \A i \in 1..n : From(i) = j => i = k
        BY <1>8, <4>2
      <4>4. items[k] = y /\ \A i \in 1..n : items[i] = y => i = k
        BY <1>7, <4>1, <4>3
      <4>5. QED
        BY <1>3, <4>4 DEF Once
    <3>3. QED
      BY <2>1, <2>3, <3>1, <3>2 DEF Placed
  <2>4. QED
    BY <2>2, <2>3
<1>11. Grown(q)
  <2>1. n <= l.capacity /\ n <= Limit
    BY <1>1
  <2>2. QED
    BY <1>1, <1>3, <1>5, <2>1 DEF Grown, ListRecord
<1> HIDE DEF q
<1>12. Owned(q, u, f \cup {x})
  BY <1>2, <1>6, <1>9, <1>10, <1>11 DEF Owned, AllPlaced
<1>13. QED
  BY <1>12 DEF q, x

(* Where the removals of one call have led, when the objects in u are      *)
(* still with the program.                                                 *)
Sound(s, u) ==
    /\ s.end \in {"none", "thrown", "dead_object"}
    /\ Owned(s.list, u, s.finalised)
    /\ Ordinary /\ s.end = "dead_object" => s.finalised \cap Throwing # {}

(* One removal takes the item out, unless its destructor ends the call.    *)
LEMMA RemovedSound ==
    ASSUME NEW s, NEW u, Sound(s, u), s.end = "none", NEW index \in 0..(s.list.length - 1)
    PROVE  LET r == Removed(s, index)
           IN  /\ Sound(r, u)
               /\ r.end = "none" => /\ r.list = Taken(s.list, index)
                                    /\ r.finalised = s.finalised \cup {s.list.items[index + 1]}
               /\ r.end # "none" => r.list = s.list
<1> DEFINE r == Removed(s, index)
           l == s.list
           f == s.finalised
           x == l.items[index + 1]
<1>1. /\ Owned(l, u, f) /\ l.length \in Nat
      /\ u \subseteq Objects /\ f \subseteq Objects
      /\ Ordinary => Filled(l) /\ \A y \in Objects \ Throwing : Placed(l, u, f, y)
  BY DEF Sound, Owned, AllPlaced, Grown, ListRecord
<1>2. index + 1 \in 1..l.length /\ (Ordinary => x \in Objects)
  BY <1>1 DEF Filled
<1>3. CASE x \notin Objects \/ x \in f
  <2>1. r = [list |-> l, finalised |-> f, end |-> "dead_object"]
    BY <1>3 DEF Removed
  <2>2. Ordinary => x \in Throwing
    <3> SUFFICES ASSUME Ordinary, x \notin Throwing PROVE FALSE
      OBVIOUS
    <3>1. Placed(l, u, f, x)
      BY <1>1, <1>2
    <3>2. QED
      BY <1>2, <1>3, <3>1 DEF Placed, Nowhere
  <2> HIDE DEF r, x
  <2>3. Sound(r, u)
    BY <1>1, <1>2, <1>3, <2>1, <2>2 DEF Sound
  <2>4. QED
    BY <2>1, <2>3 DEF r
<1>4. CASE x \in Objects /\ x \notin f /\ x \in Throwing
  <2>1. r = [list |-> l, finalised |-> f \cup {x}, end |-> "thrown"]
    BY <1>2, <1>4 DEF Removed
  <2>2. ASSUME Ordinary, NEW y \in Objects \ Throwing PROVE Placed(l, u, f \cup {x}, y)
    <3>1. Placed(l, u, f, y) /\ y # x
      BY <1>1, <1>4, <2>2
    <3>2. QED
      BY <3>1 DEF Placed
  <2> HIDE DEF r, x
  <2>3. Owned(l, u, f \cup {x})
    BY <1>1, <1>4, <2>2 DEF Owned, AllPlaced
  <2>4. Sound(r, u)
    BY <2>1, <2>3 DEF Sound
  <2>5. QED
    BY <2>1, <2>4 DEF r
<1>5. CASE x \in Objects /\ x \notin f /\ x \notin Throwing
  <2>1. r = [list |-> Taken(l, index), finalised |-> f \cup {x}, end |-> "none"]
    BY <1>2, <1>5 DEF Removed
  <2>2. Owned(Taken(l, index), u, f \cup {x})
    BY <1>1, <1>5, TakenPlaced
  <2> HIDE DEF r, x
  <2>3. Sound(r, u)
    BY <2>1, <2>2 DEF Sound
  <2>4. QED
    BY <2>1, <2>3 DEF r, x
<1>6. QED
  BY <1>3, <1>4, <1>5

-----------------------------------------------------------------------------
(* Clearing: the loop, by induction over its turns.                        *)
LEMMA LeastOf ==
    ASSUME NEW S \in SUBSET Nat, S # {}
    PROVE  \E m \in S : \A k \in S : m <= k
<1> DEFINE Below == {0..m : m \in S}
           R == StrictSubsetOrdering(Nat)
<1>1. Below \subseteq FiniteSubsetsOf(Nat)
  <2>1. ASSUME NEW m \in S PROVE 0..m \in FiniteSubsetsOf(Nat)
    <3>1. IsFiniteSet(0..m)
      BY FS_Interval
    <3>2. 0..m \in SUBSET Nat
      OBVIOUS
    <3>3. QED
      BY <3>1, <3>2 DEF FiniteSubsetsOf
  <2>2. QED
    BY <2>1
<1>2. Below # {}
  OBVIOUS
<1>3. IsWellFoundedOn(R, FiniteSubsetsOf(Nat))
  BY FS_StrictSubsetOrderingWellFounded
<1> HIDE DEF R
<1>4. PICK x \in Below : \A y \in Below : ~ (<<y, x>> \in R)
  BY <1>1, <1>2, <1>3, WFMin
<1>5. PICK m \in S : x = 0..m
  BY <1>4
<1>6. ASSUME NEW k \in S PROVE m <= k
  <2> SUFFICES ASSUME k < m PROVE FALSE
    BY <1>5
  <2>1. m \in 0..m /\ m \notin 0..k
    OBVIOUS
  <2>2. 0..k \in SUBSET Nat /\ 0..m \in SUBSET Nat /\ 0..k \subseteq 0..m /\ 0..k # 0..m
    BY <2>1
  <2>3. <<0..k, 0..m>> \in R /\ 0..k \in Below
    BY <2>2 DEF R, StrictSubsetOrdering
  <2>4. QED
    BY <1>4, <1>5, <2>3
<1>7. QED
  BY <1>5, <1>6

LEMMA UpTo ==
    ASSUME NEW n \in Nat, NEW S, 0 \in S, \A k \in 0..(n - 1) : k \in S => k + 1 \in S
    PROVE  0..n \subseteq S
<1> SUFFICES ASSUME ~ (0..n \subseteq S) PROVE FALSE
  OBVIOUS
<1> DEFINE Missing == (0..n) \ S
<1>1. Missing \in SUBSET Nat /\ Missing # {}
  OBVIOUS
<1>2. PICK m \in Missing : \A k \in Missing : m <= k
  BY <1>1, LeastOf
<1>3. m \in 0..n /\ m \notin S /\ m # 0
  BY <1>2
<1>4. m - 1 \in 0..(n - 1) /\ m - 1 \notin Missing /\ (m - 1) + 1 = m
  BY <1>2, <1>3
<1>5. m - 1 \in S
  BY <1>4
<1>6. QED
  BY <1>3, <1>4, <1>5

(* g is what the loop that removes from the back makes of s.               *)
IsRun(g, s, n) ==
    g = [k \in 0..n |-> IF k = 0 THEN s ELSE Removed(g[k - 1], s.list.length - k)]

LEMMA RunsExist ==
    ASSUME NEW s, NEW n \in Nat
    PROVE  \E g : IsRun(g, s, n)
<1> DEFINE S == {k \in 0..n : \E g : IsRun(g, s, k)}
<1>1. 0 \in S
  <2>1. IsRun([k \in 0..0 |-> s], s, 0)
    BY DEF IsRun
  <2>2. QED
    BY <2>1
<1>2. ASSUME NEW k \in 0..(n - 1), k \in S PROVE k + 1 \in S
  <2>1. PICK g : IsRun(g, s, k)
    BY <1>2
  <2> DEFINE Turn == Removed(g[k], s.list.length - (k + 1))
             h == [i \in 0..(k + 1) |-> IF i <= k THEN g[i] ELSE Turn]
  <2>2. ASSUME NEW i \in 0..(k + 1)
        PROVE  h[i] = IF i = 0 THEN s ELSE Removed(h[i - 1], s.list.length - i)
    <3>1. CASE i <= k
      <4>1. i \in 0..k /\ (i # 0 => i - 1 \in 0..k /\ i - 1 \in 0..(k + 1) /\ i - 1 <= k)
        BY <3>1
      <4>2. g[i] = IF i = 0 THEN s ELSE Removed(g[i - 1], s.list.length - i)
        BY <2>1, <4>1 DEF IsRun
      <4>3. h[i] = g[i] /\ (i # 0 => h[i - 1] = g[i - 1])
        BY <3>1, <4>1
      <4> HIDE DEF h
      <4>4. QED
        BY <4>2, <4>3
    <3>2. CASE i = k + 1
      <4>1. h[k + 1] = Turn /\ h[k] = g[k]
        BY <1>2
      <4>2. (k + 1) - 1 = k /\ k + 1 # 0
        BY <1>2
      <4> HIDE DEF h
      <4>3. QED
        BY <3>2, <4>1, <4>2
    <3>3. QED
      BY <1>2, <3>1, <3>2
  <2>3. h = [i \in 0..(k + 1) |-> h[i]]
    OBVIOUS
  <2> HIDE DEF h
  <2>4. h = [i \in 0..(k + 1) |-> IF i = 0 THEN s ELSE Removed(h[i - 1], s.list.length - i)]
    BY <2>2, <2>3
  <2>5. IsRun(h, s, k + 1)
    BY <2>4 DEF IsRun
  <2>6. k + 1 \in 0..n
    OBVIOUS
  <2>7. QED
    BY <2>5, <2>6
<1> HIDE DEF S
<1>3. 0..n \subseteq S
  BY <1>1, <1>2, UpTo
<1>4. QED
  BY <1>3 DEF S

(* What k turns have made of s: the memory is where it was, and unless a   *)
(* destructor has ended the call the list is k items shorter.              *)
After(r, s, u, k) ==
    /\ Sound(r, u)
    /\ r.list.capacity = s.list.capacity
    /\ r.list.length \in (s.list.length - k)..s.list.length
    /\ r.end = "none" => r.list.length = s.list.length - k

LEMMA AfterNext ==
    ASSUME NEW s, NEW u, s.list.length \in Nat, NEW r, NEW k \in Nat, k < s.list.length,
           After(r, s, u, k)
    PROVE  After(Removed(r, s.list.length - (k + 1)), s, u, k + 1)
<1> DEFINE index == s.list.length - (k + 1)
           q == Removed(r, index)
<1>1. CASE r.end # "none"
  <2>1. q = r
    BY <1>1 DEF Removed
  <2> HIDE DEF q
  <2>2. After(q, s, u, k + 1)
    BY <1>1, <2>1 DEF After
  <2>3. QED
    BY <2>2 DEF q
<1>2. CASE r.end = "none"
  <2>1. r.list.length = s.list.length - k /\ index \in 0..(r.list.length - 1) /\ Sound(r, u)
    BY <1>2 DEF After
  <2>2. /\ Sound(q, u)
        /\ q.end = "none" => q.list = Taken(r.list, index)
        /\ q.end # "none" => q.list = r.list
    BY <1>2, <2>1, RemovedSound
  <2>3. /\ q.end = "none" => /\ q.list.length = r.list.length - 1
                             /\ q.list.capacity = r.list.capacity
    BY <2>2 DEF Taken
  <2> HIDE DEF q
  <2>4. After(q, s, u, k + 1)
    BY <2>1, <2>2, <2>3 DEF After
  <2>5. QED
    BY <2>4 DEF q
<1>3. QED
  BY <1>1, <1>2

LEMMA RemovedBackAfter ==
    ASSUME NEW s, NEW u, Sound(s, u), s.end = "none", NEW n \in 0..s.list.length
    PROVE  After(RemovedBack(s, n), s, u, n)
<1> DEFINE g == CHOOSE g : IsRun(g, s, n)
<1>1. s.list.length \in Nat /\ n \in Nat
  BY DEF Sound, Owned, Grown, ListRecord
<1>2. RemovedBack(s, n) = g[n]
  BY DEF RemovedBack, IsRun
<1>3. IsRun(g, s, n)
  BY <1>1, RunsExist
<1> HIDE DEF g
<1> DEFINE S == {k \in 0..n : After(g[k], s, u, k)}
<1>4. 0 \in S
  <2>1. g[0] = s
    BY <1>1, <1>3 DEF IsRun
  <2>2. After(s, s, u, 0)
    BY <1>1 DEF After
  <2>3. QED
    BY <1>1, <2>1, <2>2
<1>5. ASSUME NEW k \in 0..(n - 1), k \in S PROVE k + 1 \in S
  <2>1. k + 1 \in 0..n /\ k + 1 # 0 /\ (k + 1) - 1 = k /\ k \in Nat /\ k < s.list.length
    BY <1>1
  <2>2. g[k + 1] = Removed(g[k], s.list.length - (k + 1))
    BY <1>3, <2>1 DEF IsRun
  <2>3. After(Removed(g[k], s.list.length - (k + 1)), s, u, k + 1)
    BY <1>1, <1>5, <2>1, AfterNext
  <2>4. QED
    BY <2>1, <2>2, <2>3
<1> HIDE DEF S
<1>6. 0..n \subseteq S
  BY <1>1, <1>4, <1>5, UpTo
<1>7. After(g[n], s, u, n)
  BY <1>1, <1>6 DEF S
<1>8. QED
  BY <1>2, <1>7

-----------------------------------------------------------------------------
(* The invariant, call by call.                                            *)
LEMMA ListInvInit == Init => ListInv
<1> SUFFICES ASSUME Init PROVE ListInv
  OBVIOUS
<1>1. PICK c \in 0..Limit : list = NewList(c)
  BY DEF Init
<1> DEFINE junk == [i \in 1..c |-> Junk]
<1>2. junk \in Seq(Slot) /\ Len(junk) = c
  <2>1. c \in Nat /\ junk \in [1..c -> Slot]
    BY Sizes DEF Slot
  <2> HIDE DEF junk
  <2>2. QED
    BY <2>1, FunctionIsSeq
<1>3. list = [capacity |-> c, length |-> 0, items |-> junk]
  BY <1>1 DEF NewList
<1> HIDE DEF junk
<1>4. Grown(list)
  BY <1>2, <1>3, Sizes DEF Grown, ListRecord
<1>5. Filled(list) /\ \A x \in Objects : Nowhere(list, x)
  BY <1>3 DEF Filled, Nowhere
<1>6. AllPlaced(list, unused, finalised)
  BY <1>5 DEF Init, AllPlaced, Placed
<1>7. QED
  BY <1>4, <1>5, <1>6 DEF Init, ListInv, Owned

Lengthened(l, index, x) ==
    [capacity |-> l.capacity, length |-> l.length + 1, items |-> ShiftedOut(l, index, x)]

(* What an insertion does, in or out of range: no assertion fails.         *)
LEMMA InsertStep ==
    ASSUME HalfTheRange, ListInv,
           NEW name, NEW args, NEW index \in Nat, NEW x \in Objects,
           Ordinary => index + 1 >= list.length,
           InsertNamed(name, args, index, x)
    PROVE  /\ ListInv'
           /\ fault = "none" /\ fault' = "none" /\ finalised' = finalised
           /\ call' = <<name>> \o args /\ list.length < Limit
           /\ \/ /\ index > list.length
                 /\ list' = list /\ answer' = "RangeError"
              \/ /\ index <= list.length
                 /\ list' = Lengthened(EnsureCapacity(list), index, x) /\ answer' = "none"
<1>1. /\ fault = "none" /\ x \in unused /\ list.length < Limit
      /\ Owned(list, unused, finalised) /\ Grown(list)
      /\ list.length \in Nat
  BY DEF InsertNamed, ListInv, Owned, Grown, ListRecord
<1>2. CASE index > list.length
  <2>1. Refuses(name, args)
    BY <1>1, <1>2 DEF InsertNamed
  <2>2. QED
    BY <1>1, <1>2, <2>1 DEF Refuses, Returns, ListInv
<1>3. CASE index <= list.length
  <2> DEFINE r == EnsureCapacity(list)
  <2>1. /\ Grown(r) /\ r.length = list.length /\ list.length + 1 <= r.capacity
        /\ \A i \in 1..list.length : r.items[i] = list.items[i]
    BY <1>1, RoomIsMade
  <2> HIDE DEF r
  <2>2. Owned(Lengthened(r, index, x), unused \ {x}, finalised)
    BY <1>1, <1>3, <2>1, InsertedPlaced DEF Lengthened
  <2>3. Memory!PostHolds(r.capacity, r.length, 1) /\ ~ (r.length + 1 > Len(r.items))
    BY <1>1, <2>1 DEF Memory!PostHolds, Grown, ListRecord
  <2>4. /\ list' = Lengthened(r, index, x) /\ unused' = unused \ {x} /\ fault' = fault
        /\ Returns(name, args, "none") /\ finalised' = finalised
    BY <1>1, <1>3, <2>3 DEF InsertNamed, Lengthened, r
  <2>5. ListInv'
    BY <1>1, <2>2, <2>4 DEF ListInv
  <2>6. QED
    BY <1>1, <1>3, <2>4, <2>5 DEF Returns, r
<1>4. QED
  BY <1>1, <1>2, <1>3

LEMMA StandingSound ==
    ASSUME ListInv, fault = "none"
    PROVE  Sound(Standing, unused) /\ Standing.end = "none" /\ Standing.list = list
           /\ Standing.finalised = finalised /\ list.length \in Nat
BY DEF ListInv, Standing, Sound, Owned, Grown, ListRecord

LEMMA LeadsStep ==
    ASSUME NEW s, Sound(s, unused), NEW name, NEW args, NEW result, Leads(s, name, args, result)
    PROVE  ListInv'
BY DEF Leads, Sound, ListInv

LEMMA WrappedBack ==
    ASSUME NEW n \in Nat, n < M
    PROVE  Memory!Wrap(n + M - 1) = IF n = 0 THEN M - 1 ELSE n - 1
<1>1. CASE n = 0
  <2> DEFINE x == M - 1
  <2>1. n + M - 1 = x /\ x \in Nat /\ x < M
    BY <1>1, Sizes
  <2> HIDE DEF x
  <2>2. x % M = x
    BY <2>1, Sizes
  <2>3. QED
    BY <1>1, <2>1, <2>2 DEF Memory!Wrap, x
<1>2. CASE n # 0
  <2> DEFINE x == n - 1
  <2>1. n + M - 1 = x + M /\ x \in Nat /\ x < M
    BY <1>2, Sizes
  <2> HIDE DEF x
  <2>2. (x + M) % M = x
    BY <2>1, Sizes
  <2>3. QED
    BY <1>2, <2>1, <2>2 DEF Memory!Wrap, x
<1>3. QED
  BY <1>1, <1>2

(* The item that AvmListPop takes, if there is one.                        *)
LEMMA LastIndex ==
    ASSUME HalfTheRange, ListInv
    PROVE  LET index == Memory!Wrap(list.length + M - 1)
           IN  index >= list.length <=> list.length = 0
<1>1. list.length \in Nat /\ list.length < M
  BY Sizes DEF ListInv, Owned, Grown, ListRecord, HalfTheRange
<1> DEFINE index == Memory!Wrap(list.length + M - 1)
<1>2. index = IF list.length = 0 THEN M - 1 ELSE list.length - 1
  BY <1>1, WrappedBack
<1> HIDE DEF index
<1>3. QED
  BY <1>1, <1>2, Sizes DEF index

LEMMA PopIndex ==
    ASSUME HalfTheRange, ListInv, ~ (Memory!Wrap(list.length + M - 1) >= list.length)
    PROVE  /\ Memory!Wrap(list.length + M - 1) = list.length - 1
           /\ Memory!Wrap(list.length + M - 1) \in 0..(list.length - 1)
<1> DEFINE index == Memory!Wrap(list.length + M - 1)
<1>1. list.length \in Nat /\ list.length < M /\ list.length # 0
  BY LastIndex, Sizes DEF HalfTheRange, ListInv, Owned, Grown, ListRecord
<1>2. index = list.length - 1
  BY <1>1, WrappedBack
<1> HIDE DEF index
<1>3. index \in 0..(list.length - 1)
  BY <1>1, <1>2
<1>4. QED
  BY <1>2, <1>3 DEF index

LEMMA ListInvNext == HalfTheRange /\ ListInv /\ [Next]_vars => ListInv'
<1> SUFFICES ASSUME HalfTheRange, ListInv, [Next]_vars PROVE ListInv'
  OBVIOUS
<1>1. Limit \in Nat /\ list.length \in Nat
  BY Sizes DEF ListInv, Owned, Grown, ListRecord
<1>2. ASSUME NEW index \in 0..(Limit + 1), NEW x \in Objects, Insert(index, x) PROVE ListInv'
  <2>1. index \in Nat /\ (Ordinary => index + 1 >= list.length)
        /\ InsertNamed("Insert", <<index, x>>, index, x)
    BY <1>1, <1>2 DEF Insert, Ordinary
  <2>2. QED
    BY <2>1, InsertStep
<1>3. ASSUME NEW x \in Objects, Push(x) PROVE ListInv'
  <2>1. list.length + 1 >= list.length
    BY <1>1
  <2>2. QED
    BY <1>1, <1>3, <2>1, InsertStep DEF Push
<1>4. ASSUME NEW index \in 0..(Limit + 1), RemoveItem(index) PROVE ListInv'
  <2>1. CASE index >= list.length
    BY <1>4, <2>1 DEF RemoveItem, Refuses, ListInv
  <2>2. CASE ~ (index >= list.length)
    <3>1. index \in 0..(list.length - 1) /\ fault = "none"
      BY <1>1, <1>4, <2>2 DEF RemoveItem
    <3>2. Sound(Removed(Standing, index), unused)
      BY <3>1, StandingSound, RemovedSound
    <3>3. QED
      BY <1>4, <2>2, <3>2, LeadsStep DEF RemoveItem
  <2>3. QED
    BY <2>1, <2>2
<1>5. ASSUME Pop PROVE ListInv'
  <2> DEFINE index == Memory!Wrap(list.length + M - 1)
  <2>1. CASE index >= list.length
    BY <1>5, <2>1 DEF Pop, Refuses, ListInv
  <2>2. CASE ~ (index >= list.length)
    <3>1. index \in 0..(list.length - 1) /\ fault = "none"
      BY <1>5, <2>2, PopIndex DEF Pop
    <3>2. Sound(Removed(Standing, index), unused)
      BY <3>1, StandingSound, RemovedSound
    <3>3. QED
      BY <1>5, <2>2, <3>2, LeadsStep DEF Pop
  <2>3. QED
    BY <2>1, <2>2
<1>6. ASSUME Clear PROVE ListInv'
  <2> DEFINE n == IF list.length = 0 THEN 0 ELSE list.length - 1
  <2>1. n \in 0..list.length /\ fault = "none"
    BY <1>1, <1>6 DEF Clear
  <2>2. Leads(RemovedBack(Standing, n), "Clear", <<>>, "none")
    BY <1>6 DEF Clear
  <2> HIDE DEF n
  <2>3. Sound(RemovedBack(Standing, n), unused)
    BY <2>1, StandingSound, RemovedBackAfter DEF After
  <2>4. QED
    BY <2>2, <2>3, LeadsStep
<1>7. ASSUME NEW index \in 0..(Limit + 1), ItemAt(index) PROVE ListInv'
  BY <1>7 DEF ItemAt, Refuses, ListInv
<1>8. ASSUME NEW x \in Objects, IndexOf(x) PROVE ListInv'
  BY <1>8 DEF IndexOf, ListInv
<1>9. CASE UNCHANGED vars
  BY <1>9 DEF vars, ListInv
<1>10. QED
  BY <1>2, <1>3, <1>4, <1>5, <1>6, <1>7, <1>8, <1>9 DEF Next

-----------------------------------------------------------------------------
(* What the variables are. Wherever the program inserts, the memory holds  *)
(* objects and Junk only, and no more than twice the limit of them.        *)
THEOREM ListTypeCorrect ==
    ASSUME HalfTheRange
    PROVE  Spec => []TypeOK
<1>1. ListInv => TypeOK
  <2> SUFFICES ASSUME ListInv PROVE TypeOK
    OBVIOUS
  <2>1. /\ list.capacity \in 0..(M - 1) /\ list.length \in 0..(M - 1)
        /\ list.items \in [1..list.capacity -> Slot] /\ list.capacity \in 0..(2 * Limit)
    BY Sizes, LenProperties DEF ListInv, Owned, Grown, ListRecord, HalfTheRange
  <2>2. list.items \in BoundedSeq(Slot, 2 * Limit)
    BY <2>1 DEF BoundedSeq, SeqOf
  <2>3. QED
    BY <2>1, <2>2 DEF TypeOK, ListInv, Owned, Slot, GrowthFaults
<1>2. QED
  BY <1>1, ListInvInit, ListInvNext, PTL DEF Spec

(***************************************************************************)
(* Who owns what, for a program that inserts at the last two positions     *)
(* only. An object whose destructor does not throw is with the program, or *)
(* in exactly one slot, or finalised, and never two of these: it is        *)
(* finalised once. Objects whose destructor throws disturb no other.       *)
(***************************************************************************)
THEOREM OwnedOnceAlways ==
    ASSUME HalfTheRange, Ordinary
    PROVE  Spec => []OwnedOnce
<1>1. ListInv => OwnedOnce
  <2> SUFFICES ASSUME ListInv PROVE OwnedOnce
    OBVIOUS
  <2>1. Filled(list) /\ (fault = "dead_object" => finalised \cap Throwing # {})
    BY DEF ListInv, Owned
  <2>2. ASSUME NEW x \in Objects \ Throwing
        PROVE  /\ Cardinality(LiveSlots(x)) = IF x \in unused \cup finalised THEN 0 ELSE 1
               /\ x \notin unused \cap finalised
    <3>1. Placed(list, unused, finalised, x)
      BY DEF ListInv, Owned, AllPlaced
    <3>2. CASE x \in unused \cup finalised
      <4>1. LiveSlots(x) = {}
        BY <3>1, <3>2 DEF Placed, Nowhere, LiveSlots
      <4>2. QED
        BY <3>1, <3>2, <4>1, FS_EmptySet DEF Placed
    <3>3. CASE x \notin unused \cup finalised
      <4>1. PICK i \in 1..list.length :
                list.items[i] = x /\ \A j \in 1..list.length : list.items[j] = x => j = i
        BY <3>1, <3>3 DEF Placed, Once
      <4>2. LiveSlots(x) = {i}
        BY <4>1 DEF LiveSlots
      <4>3. QED
        BY <3>1, <3>3, <4>2, FS_Singleton DEF Placed
    <3>4. QED
      BY <3>2, <3>3
  <2>3. QED
    BY <2>1, <2>2 DEF OwnedOnce, Filled
<1>2. QED
  BY <1>1, ListInvInit, ListInvNext, PTL DEF Spec

-----------------------------------------------------------------------------
(* The growth of the list, step by step.                                   *)
LEMMA WrapIsIdentity ==
    ASSUME HalfTheRange, NEW n \in Nat, n <= 2 * Limit
    PROVE  Memory!Wrap(n) = n
BY Sizes DEF HalfTheRange, Memory!Wrap

LEMMA Shrinks ==
    ASSUME HalfTheRange, ListInv, ListInv', fault = "none",
           list'.capacity = list.capacity, list'.length \in 0..list.length
    PROVE  [Memory!Next]_(Memory!vars)
<1> DEFINE k == list.length - list'.length
<1>1. /\ list.length \in Nat /\ list.length <= Limit /\ list'.length \in Nat
      /\ Len(list'.items) = Len(list.items)
      /\ fault \notin GrowthFaults /\ fault' \notin GrowthFaults
  BY DEF ListInv, Owned, Grown, ListRecord, GrowthFaults
<1>2. CASE k = 0
  <2>1. list'.length = list.length
    BY <1>1, <1>2
  <2>2. QED
    BY <1>1, <2>1 DEF Memory!vars
<1>3. CASE k # 0
  <2>1. k \in 1..Limit /\ k <= list.length /\ list'.length = list.length - k
    BY <1>1, <1>3, Sizes
  <2> HIDE DEF k
  <2>2. Memory!Shrink(k)
    BY <1>1, <2>1 DEF Memory!Shrink
  <2>3. QED
    BY <2>1, <2>2 DEF Memory!Next
<1>4. QED
  BY <1>2, <1>3

LEMMA Adds ==
    ASSUME HalfTheRange, ListInv, ListInv', fault = "none", fault' = "none",
           list.length < Limit,
           NEW index, NEW x, list' = Lengthened(EnsureCapacity(list), index, x)
    PROVE  Memory!Add(1)
<1> DEFINE c == Memory!NewCapacity(list.capacity, list.length, 1)
<1>1. /\ list.length \in Nat /\ list.capacity \in Nat /\ Grown(list) /\ Grown(list')
      /\ Len(list.items) = list.capacity /\ Len(list'.items) = list'.capacity
  BY DEF ListInv, Owned, Grown, ListRecord
<1>2. /\ c \in Nat /\ list.length + 1 <= c /\ c <= 2 * Limit
      /\ ~ Memory!MustGrow(list.capacity, list.length, 1) => c = list.capacity
  BY <1>1, GrowthMakesRoom
<1>3. list'.capacity = c /\ list'.length = list.length + 1
  BY DEF Lengthened, EnsureCapacity
<1> HIDE DEF c
<1>4. Memory!Wrap(list'.capacity * 1) = list'.capacity
  BY <1>2, <1>3, WrapIsIdentity
<1>5. Memory!Wrap(list.length + 1) = list.length + 1
  BY <1>1, <1>2, WrapIsIdentity, Sizes
<1>6. Memory!Ensure(1)
  BY <1>1, <1>2, <1>3, <1>4 DEF Memory!Ensure, c
<1>7. Memory!PostHolds(list'.capacity, list.length, 1)
  BY <1>1, <1>2, <1>3 DEF Memory!PostHolds
<1>8. ~ ((list.length + 1) * 1 > Len(list'.items))
  BY <1>1, <1>2, <1>3
<1>9. list.length + 1 <= Limit
  BY <1>1, Sizes
<1>10. fault \notin GrowthFaults /\ fault' \notin GrowthFaults
  BY DEF GrowthFaults
<1>11. QED
  BY <1>3, <1>5, <1>6, <1>7, <1>8, <1>9, <1>10 DEF Memory!Add

LEMMA LeadsShrinks ==
    ASSUME HalfTheRange, ListInv, ListInv', fault = "none",
           NEW s, NEW name, NEW args, NEW result, Leads(s, name, args, result),
           s.list.capacity = list.capacity, s.list.length \in 0..list.length
    PROVE  [Memory!Next]_(Memory!vars)
<1>1. list'.capacity = list.capacity /\ list'.length \in 0..list.length
  BY DEF Leads
<1>2. QED
  BY <1>1, Shrinks

LEMMA RemovedShrinks ==
    ASSUME ListInv, fault = "none", NEW index \in 0..(list.length - 1)
    PROVE  LET s == Removed(Standing, index)
           IN  s.list.capacity = list.capacity /\ s.list.length \in 0..list.length
<1> DEFINE s == Removed(Standing, index)
<1>1. /\ s.end = "none" => s.list = Taken(list, index)
      /\ s.end # "none" => s.list = list
      /\ list.length \in Nat
  BY StandingSound, RemovedSound
<1> HIDE DEF s
<1>2. QED
  BY <1>1 DEF Taken, s

LEMMA MemoryStep ==
    ASSUME HalfTheRange, ListInv, ListInv', [Next]_vars
    PROVE  [Memory!Next]_(Memory!vars)
<1>1. Limit \in Nat /\ list.length \in Nat
  BY Sizes DEF ListInv, Owned, Grown, ListRecord
<1>2. ASSUME NEW name, NEW args, NEW index \in Nat, NEW x \in Objects,
             Ordinary => index + 1 >= list.length, InsertNamed(name, args, index, x)
      PROVE  [Memory!Next]_(Memory!vars)
  <2>1. /\ fault = "none" /\ fault' = "none" /\ list.length < Limit
        /\ list' = list \/ list' = Lengthened(EnsureCapacity(list), index, x)
    BY <1>2, InsertStep
  <2>2. CASE list' = list
    BY <2>1, <2>2 DEF Memory!vars
  <2>3. CASE list' = Lengthened(EnsureCapacity(list), index, x)
    <3>1. Memory!Add(1) /\ 1 \in 0..Limit
      BY <1>1, <2>1, <2>3, Adds
    <3>2. QED
      BY <3>1 DEF Memory!Next
  <2>4. QED
    BY <2>1, <2>2, <2>3
<1>3. ASSUME NEW index \in 0..(Limit + 1), NEW x \in Objects, Insert(index, x)
      PROVE  [Memory!Next]_(Memory!vars)
  <2>1. index \in Nat /\ (Ordinary => index + 1 >= list.length)
        /\ InsertNamed("Insert", <<index, x>>, index, x)
    BY <1>1, <1>3 DEF Insert, Ordinary
  <2>2. QED
    BY <1>2, <2>1
<1>4. ASSUME NEW x \in Objects, Push(x) PROVE [Memory!Next]_(Memory!vars)
  <2>1. list.length + 1 >= list.length
    BY <1>1
  <2>2. QED
    BY <1>1, <1>2, <1>4, <2>1 DEF Push
<1>5. ASSUME NEW index \in 0..(Limit + 1), RemoveItem(index)
      PROVE  [Memory!Next]_(Memory!vars)
  <2>1. CASE index >= list.length
    BY <1>5, <2>1 DEF RemoveItem, Refuses, Memory!vars
  <2>2. CASE ~ (index >= list.length)
    <3>1. index \in 0..(list.length - 1) /\ fault = "none"
      BY <1>1, <1>5, <2>2 DEF RemoveItem
    <3>2. QED
      BY <1>5, <2>2, <3>1, RemovedShrinks, LeadsShrinks DEF RemoveItem
  <2>3. QED
    BY <2>1, <2>2
<1>6. ASSUME Pop PROVE [Memory!Next]_(Memory!vars)
  <2> DEFINE index == Memory!Wrap(list.length + M - 1)
  <2>1. CASE index >= list.length
    BY <1>6, <2>1 DEF Pop, Refuses, Memory!vars
  <2>2. CASE ~ (index >= list.length)
    <3>1. index \in 0..(list.length - 1) /\ fault = "none"
      BY <1>6, <2>2, PopIndex DEF Pop
    <3>2. QED
      BY <1>6, <2>2, <3>1, RemovedShrinks, LeadsShrinks DEF Pop
  <2>3. QED
    BY <2>1, <2>2
<1>7. ASSUME Clear PROVE [Memory!Next]_(Memory!vars)
  <2> DEFINE n == IF list.length = 0 THEN 0 ELSE list.length - 1
             s == RemovedBack(Standing, n)
  <2>1. n \in 0..list.length /\ fault = "none"
    BY <1>1, <1>7 DEF Clear
  <2>2. Leads(s, "Clear", <<>>, "none")
    BY <1>7 DEF Clear
  <2> HIDE DEF n
  <2>3. s.list.capacity = list.capacity /\ s.list.length \in (list.length - n)..list.length
    BY <2>1, StandingSound, RemovedBackAfter DEF After
  <2> HIDE DEF s
  <2>4. s.list.length \in 0..list.length
    BY <1>1, <2>1, <2>3
  <2>5. QED
    BY <2>1, <2>2, <2>3, <2>4, LeadsShrinks
<1>8. ASSUME NEW index \in 0..(Limit + 1), ItemAt(index) PROVE [Memory!Next]_(Memory!vars)
  BY <1>8 DEF ItemAt, Refuses, Memory!vars
<1>9. ASSUME NEW x \in Objects, IndexOf(x) PROVE [Memory!Next]_(Memory!vars)
  BY <1>9 DEF IndexOf, Memory!vars
<1>10. ASSUME UNCHANGED vars PROVE [Memory!Next]_(Memory!vars)
  BY <1>10 DEF vars, Memory!vars
<1>11. QED
  BY <1>3, <1>4, <1>5, <1>6, <1>7, <1>8, <1>9, <1>10 DEF Next

(***************************************************************************)
(* Wherever the program inserts, every call of the list is one of Storage: *)
(* it adds one item, removes some or leaves the memory alone. What         *)
(* StringPartsProof proves of the capacity so holds of the list.           *)
(***************************************************************************)
THEOREM ListGrowsAlways ==
    ASSUME HalfTheRange
    PROVE  Spec => ImplementsStorage
<1>1. Init => Memory!Init
  <2> SUFFICES ASSUME Init PROVE Memory!Init
    OBVIOUS
  <2>1. PICK c \in 0..Limit : list = NewList(c)
    BY DEF Init
  <2>2. list.capacity = c /\ list.length = 0 /\ Len(list.items) = list.capacity
    BY <2>1, ListInvInit DEF NewList, ListInv, Owned, Grown
  <2>3. c \in Nat /\ c <= 2 * Limit /\ c * 1 = c
    BY Sizes
  <2>4. Memory!Wrap(c * 1) = c
    BY <2>3, WrapIsIdentity
  <2>5. QED
    BY <2>2, <2>4 DEF Init, Memory!Init, Memory!Created, GrowthFaults
<1>2. ListInv /\ ListInv' /\ [Next]_vars => [Memory!Next]_(Memory!vars)
  BY MemoryStep
<1>3. QED
  BY <1>1, <1>2, ListInvInit, ListInvNext, PTL DEF Spec, ImplementsStorage, Memory!Spec

-----------------------------------------------------------------------------
(* The list as List sees it.                                               *)
Held(l) == SubSeq(l.items, 1, l.length)

LEMMA HeldIs ==
    ASSUME NEW l, Grown(l)
    PROVE  /\ Held(l) \in Seq(Slot)
           /\ Len(Held(l)) = l.length /\ DOMAIN Held(l) = 1..l.length
           /\ \A i \in 1..l.length : Held(l)[i] = l.items[i]
<1>1. l.length \in Nat /\ l.length \in 0..Len(l.items) /\ l.items \in Seq(Slot)
  BY LenProperties DEF Grown, ListRecord
<1>2. \A i \in 1..l.length : l.items[i] \in Slot
  BY <1>1, ElementOfSeq
<1>3. /\ Held(l) \in Seq(Slot) /\ Len(Held(l)) = l.length
      /\ \A i \in 1..l.length : Held(l)[i] = l.items[i]
  BY <1>1, <1>2, SubSeqProperties DEF Held
<1>4. QED
  BY <1>3, LenProperties

LEMMA InsertAtIs ==
    ASSUME NEW S, NEW s \in Seq(S), NEW e \in S, NEW i \in 1..(Len(s) + 1)
    PROVE  /\ InsertAt(s, i, e) \in Seq(S) /\ Len(InsertAt(s, i, e)) = Len(s) + 1
           /\ \A j \in 1..(Len(s) + 1) :
                InsertAt(s, i, e)[j] = IF j < i THEN s[j] ELSE IF j = i THEN e ELSE s[j - 1]
<1> DEFINE a == SubSeq(s, 1, i - 1)
           b == a \o <<e>>
           c == SubSeq(s, i, Len(s))
<1>1. Len(s) \in Nat /\ i \in Nat /\ \A j \in 1..Len(s) : s[j] \in S
  BY LenProperties, ElementOfSeq
<1>2. a \in Seq(S) /\ Len(a) = i - 1 /\ \A j \in 1..(i - 1) : a[j] = s[j]
  <2>1. 1 \in Int /\ i - 1 \in Int /\ \A j \in 1..(i - 1) : s[j] \in S
    BY <1>1
  <2>2. QED
    BY <1>1, <2>1, SubSeqProperties
<1>3. c \in Seq(S) /\ Len(c) = Len(s) + 1 - i
      /\ \A j \in 1..(Len(s) + 1 - i) : c[j] = s[i + j - 1]
  <2>1. i \in Int /\ Len(s) \in Int /\ \A j \in i..Len(s) : s[j] \in S
    BY <1>1
  <2>2. QED
    BY <1>1, <2>1, SubSeqProperties
<1> HIDE DEF a, c
<1>4. b \in Seq(S) /\ Len(b) = i /\ \A j \in 1..i : b[j] = IF j < i THEN s[j] ELSE e
  <2>1. <<e>> \in Seq(S) /\ Len(<<e>>) = 1 /\ <<e>>[1] = e
    OBVIOUS
  <2>2. b \in Seq(S) /\ Len(b) = i
        /\ \A j \in 1..i : b[j] = IF j <= i - 1 THEN a[j] ELSE <<e>>[j - (i - 1)]
    BY <1>1, <1>2, <2>1, ConcatProperties
  <2> HIDE DEF b
  <2>3. ASSUME NEW j \in 1..i PROVE b[j] = IF j < i THEN s[j] ELSE e
    <3>1. CASE j < i
      <4>1. j \in 1..(i - 1) /\ j <= i - 1
        BY <1>1, <3>1
      <4>2. QED
        BY <1>2, <2>2, <3>1, <4>1
    <3>2. CASE j = i
      <4>1. ~ (j <= i - 1) /\ j - (i - 1) = 1
        BY <1>1, <3>2
      <4>2. QED
        BY <1>1, <2>1, <2>2, <3>2, <4>1
    <3>3. QED
      BY <1>1, <3>1, <3>2
  <2>4. QED
    BY <2>2, <2>3
<1> HIDE DEF b
<1>5. /\ b \o c \in Seq(S) /\ Len(b \o c) = Len(s) + 1
      /\ \A j \in 1..(Len(s) + 1) : (b \o c)[j] = IF j <= i THEN b[j] ELSE c[j - i]
  <2>1. /\ b \o c \in Seq(S) /\ Len(b \o c) = i + Len(c)
        /\ \A j \in 1..(i + Len(c)) : (b \o c)[j] = IF j <= i THEN b[j] ELSE c[j - i]
    BY <1>3, <1>4, ConcatProperties
  <2>2. i + Len(c) = Len(s) + 1
    BY <1>1, <1>3
  <2>3. QED
    BY <2>1, <2>2
<1>6. ASSUME NEW j \in 1..(Len(s) + 1)
      PROVE  (b \o c)[j] = IF j < i THEN s[j] ELSE IF j = i THEN e ELSE s[j - 1]
  <2>1. CASE j <= i
    BY <1>1, <1>4, <1>5, <2>1
  <2>2. CASE ~ (j <= i)
    <3>1. j - i \in 1..(Len(s) + 1 - i) /\ i + (j - i) - 1 = j - 1
      BY <1>1, <2>2
    <3>2. QED
      BY <1>1, <1>3, <1>5, <2>2, <3>1
  <2>3. QED
    BY <2>1, <2>2
<1>7. InsertAt(s, i, e) = b \o c
  BY DEF InsertAt, a, b, c
<1>8. QED
  BY <1>5, <1>6, <1>7

LEMMA RemoveAtIs ==
    ASSUME NEW S, NEW s \in Seq(S), NEW i \in 1..Len(s)
    PROVE  /\ RemoveAt(s, i) \in Seq(S) /\ Len(RemoveAt(s, i)) = Len(s) - 1
           /\ \A j \in 1..(Len(s) - 1) : RemoveAt(s, i)[j] = IF j < i THEN s[j] ELSE s[j + 1]
<1> DEFINE a == SubSeq(s, 1, i - 1)
           c == SubSeq(s, i + 1, Len(s))
<1>1. Len(s) \in Nat /\ i \in Nat /\ \A j \in 1..Len(s) : s[j] \in S
  BY LenProperties, ElementOfSeq
<1>2. a \in Seq(S) /\ Len(a) = i - 1 /\ \A j \in 1..(i - 1) : a[j] = s[j]
  <2>1. 1 \in Int /\ i - 1 \in Int /\ \A j \in 1..(i - 1) : s[j] \in S
    BY <1>1
  <2>2. QED
    BY <1>1, <2>1, SubSeqProperties
<1>3. c \in Seq(S) /\ Len(c) = Len(s) - i
      /\ \A j \in 1..(Len(s) - i) : c[j] = s[i + j]
  <2>1. i + 1 \in Int /\ Len(s) \in Int /\ \A j \in (i + 1)..Len(s) : s[j] \in S
    BY <1>1
  <2>2. /\ c \in Seq(S)
        /\ Len(c) = IF i + 1 <= Len(s) THEN Len(s) - (i + 1) + 1 ELSE 0
        /\ \A j \in 1..(Len(s) - (i + 1) + 1) : c[j] = s[(i + 1) + j - 1]
    BY <2>1, SubSeqProperties
  <2> HIDE DEF c
  <2>3. Len(c) = Len(s) - i /\ Len(s) - (i + 1) + 1 = Len(s) - i
    BY <1>1, <2>2
  <2>4. ASSUME NEW j \in 1..(Len(s) - i) PROVE c[j] = s[i + j]
    <3>1. (i + 1) + j - 1 = i + j
      BY <1>1
    <3>2. QED
      BY <2>2, <2>3, <3>1
  <2>5. QED
    BY <2>2, <2>3, <2>4
<1> HIDE DEF a, c
<1>4. /\ a \o c \in Seq(S) /\ Len(a \o c) = Len(s) - 1
      /\ \A j \in 1..(Len(s) - 1) : (a \o c)[j] = IF j <= i - 1 THEN a[j] ELSE c[j - (i - 1)]
  <2>1. /\ a \o c \in Seq(S) /\ Len(a \o c) = Len(a) + Len(c)
        /\ \A j \in 1..(Len(a) + Len(c)) :
              (a \o c)[j] = IF j <= Len(a) THEN a[j] ELSE c[j - Len(a)]
    BY <1>2, <1>3, ConcatProperties
  <2>2. Len(a) = i - 1 /\ Len(a) + Len(c) = Len(s) - 1
    BY <1>1, <1>2, <1>3
  <2>3. QED
    BY <2>1, <2>2
<1>5. ASSUME NEW j \in 1..(Len(s) - 1)
      PROVE  (a \o c)[j] = IF j < i THEN s[j] ELSE s[j + 1]
  <2>1. CASE j < i
    <3>1. j \in 1..(i - 1) /\ j <= i - 1
      BY <1>1, <2>1
    <3>2. QED
      BY <1>2, <1>4, <2>1, <3>1
  <2>2. CASE ~ (j < i)
    <3>1. ~ (j <= i - 1) /\ j - (i - 1) \in 1..(Len(s) - i) /\ i + (j - (i - 1)) = j + 1
      BY <1>1, <2>2
    <3>2. QED
      BY <1>3, <1>4, <2>2, <3>1
  <2>3. QED
    BY <2>1, <2>2
<1>6. RemoveAt(s, i) = a \o c
  BY DEF RemoveAt, a, c
<1>7. QED
  BY <1>4, <1>5, <1>6

LEMMA HeldLengthened ==
    ASSUME HalfTheRange, NEW l, Grown(l), l.length < Limit,
           NEW x \in Slot, NEW index \in 0..l.length, index + 1 >= l.length,
           Grown(Lengthened(EnsureCapacity(l), index, x))
    PROVE  Held(Lengthened(EnsureCapacity(l), index, x)) = InsertAt(Held(l), index + 1, x)
<1> DEFINE r == EnsureCapacity(l)
           q == Lengthened(r, index, x)
           n == l.length + 1
           s == Held(l)
           t == InsertAt(s, index + 1, x)
<1>1. /\ Grown(r) /\ r.length = l.length /\ n <= r.capacity
      /\ \A i \in 1..l.length : r.items[i] = l.items[i]
  BY RoomIsMade
<1> HIDE DEF r
<1>2. DOMAIN r.items = 1..r.capacity /\ r.capacity \in Nat /\ l.length \in Nat /\ n \in Nat
  BY <1>1, LenProperties DEF Grown, ListRecord
<1>3. q.length = n /\ q.items = ShiftedOut(r, index, x)
  BY <1>1 DEF Lengthened
<1>4. \A i \in 1..n : q.items[i] =
        IF i = index + 1 THEN x
        ELSE IF i = index + 2 /\ index < r.length THEN r.items[index + 1] ELSE r.items[i]
  BY <1>1, <1>2, <1>3 DEF ShiftedOut
<1>5. Grown(q)
  BY DEF r
<1> HIDE DEF q
<1>6. Held(q) \in Seq(Slot) /\ Len(Held(q)) = n /\ \A i \in 1..n : Held(q)[i] = q.items[i]
  BY <1>3, <1>5, HeldIs
<1>7. s \in Seq(Slot) /\ Len(s) = l.length /\ \A i \in 1..l.length : s[i] = l.items[i]
  BY HeldIs
<1> HIDE DEF s
<1>8. index + 1 \in 1..(Len(s) + 1)
  BY <1>2, <1>7
<1>9. /\ t \in Seq(Slot) /\ Len(t) = n
      /\ \A i \in 1..n : t[i] = IF i < index + 1 THEN s[i] ELSE IF i = index + 1 THEN x ELSE s[i - 1]
  <2>1. /\ t \in Seq(Slot) /\ Len(t) = Len(s) + 1
        /\ \A i \in 1..(Len(s) + 1) :
              t[i] = IF i < index + 1 THEN s[i] ELSE IF i = index + 1 THEN x ELSE s[i - 1]
    BY <1>7, <1>8, InsertAtIs
  <2>2. Len(s) + 1 = n
    BY <1>7
  <2> HIDE DEF t, n
  <2>3. QED
    BY <2>1, <2>2
<1> HIDE DEF t
<1>10. ASSUME NEW i \in 1..n PROVE Held(q)[i] = t[i]
  <2>1. CASE i = index + 1
    BY <1>2, <1>4, <1>6, <1>9, <2>1
  <2>2. CASE i < index + 1
    <3>1. i \in 1..l.length /\ i # index + 1 /\ i # index + 2
      BY <1>2, <2>2
    <3>2. t[i] = s[i] /\ s[i] = l.items[i]
      BY <1>7, <1>9, <2>2, <3>1
    <3>3. q.items[i] = r.items[i]
      BY <1>4, <3>1
    <3>4. QED
      BY <1>1, <1>6, <3>1, <3>2, <3>3
  <2>3. CASE i > index + 1
    <3>1. i = index + 2 /\ index < r.length /\ i # index + 1 /\ ~ (i < index + 1)
          /\ i - 1 = index + 1 /\ index + 1 \in 1..l.length
      BY <1>1, <1>2, <2>3
    <3>2. t[i] = s[index + 1]
      BY <1>9, <3>1
    <3>3. s[index + 1] = r.items[index + 1]
      BY <1>1, <1>7, <3>1
    <3>4. q.items[i] = r.items[index + 1]
      BY <1>4, <3>1
    <3>5. QED
      BY <1>6, <3>2, <3>3, <3>4
  <2>4. QED
    BY <1>2, <2>1, <2>2, <2>3
<1>11. Held(q) = t
  BY <1>6, <1>9, <1>10, SeqEqual
<1>12. QED
  BY <1>11 DEF q, r, t, s

LEMMA InsertAtTheEnd ==
    ASSUME NEW S, NEW s \in Seq(S), NEW e \in S
    PROVE  InsertAt(s, Len(s) + 1, e) = Append(s, e)
<1>1. Len(s) \in Nat /\ Len(s) + 1 \in 1..(Len(s) + 1)
  BY LenProperties
<1> DEFINE t == InsertAt(s, Len(s) + 1, e)
<1>2. /\ t \in Seq(S) /\ Len(t) = Len(s) + 1
      /\ \A j \in 1..(Len(s) + 1) :
            t[j] = IF j < Len(s) + 1 THEN s[j] ELSE IF j = Len(s) + 1 THEN e ELSE s[j - 1]
  <2> DEFINE i == Len(s) + 1
  <2>1. i \in 1..(Len(s) + 1)
    BY <1>1
  <2> HIDE DEF i
  <2>2. /\ InsertAt(s, i, e) \in Seq(S) /\ Len(InsertAt(s, i, e)) = Len(s) + 1
        /\ \A j \in 1..(Len(s) + 1) : InsertAt(s, i, e)[j] =
              IF j < i THEN s[j] ELSE IF j = i THEN e ELSE s[j - 1]
    BY <2>1, InsertAtIs
  <2>3. QED
    BY <2>2 DEF i
<1> HIDE DEF t
<1>3. /\ Append(s, e) \in Seq(S) /\ Len(Append(s, e)) = Len(s) + 1
      /\ \A j \in 1..Len(s) : Append(s, e)[j] = s[j]
      /\ Append(s, e)[Len(s) + 1] = e
  BY AppendProperties
<1>4. \A j \in 1..(Len(s) + 1) : t[j] = Append(s, e)[j]
  BY <1>1, <1>2, <1>3
<1>5. t = Append(s, e)
  BY <1>2, <1>3, <1>4, SeqEqual
<1>6. QED
  BY <1>5 DEF t

LEMMA HeldTaken ==
    ASSUME NEW l, Grown(l), NEW index \in 0..(l.length - 1), Grown(Taken(l, index))
    PROVE  Held(Taken(l, index)) = RemoveAt(Held(l), index + 1)
<1> DEFINE q == Taken(l, index)
           n == l.length - 1
           s == Held(l)
           t == RemoveAt(s, index + 1)
<1>1. /\ DOMAIN l.items = 1..l.capacity /\ l.capacity \in Nat /\ l.length \in Nat /\ n \in Nat
      /\ l.length <= l.capacity
  BY LenProperties DEF Grown, ListRecord
<1>2. q.length = n /\ q.items = ShiftedIn(l, index)
  BY DEF Taken
<1>3. \A i \in 1..n : q.items[i] = IF index < i /\ i < l.length THEN l.items[i + 1] ELSE l.items[i]
  BY <1>1, <1>2 DEF ShiftedIn
<1> HIDE DEF q
<1>4. Held(q) \in Seq(Slot) /\ Len(Held(q)) = n /\ \A i \in 1..n : Held(q)[i] = q.items[i]
  BY <1>2, HeldIs DEF q
<1>5. s \in Seq(Slot) /\ Len(s) = l.length /\ \A i \in 1..l.length : s[i] = l.items[i]
  BY HeldIs
<1> HIDE DEF s
<1>6. index + 1 \in 1..Len(s)
  BY <1>1, <1>5
<1>7. /\ t \in Seq(Slot) /\ Len(t) = n
      /\ \A i \in 1..n : t[i] = IF i < index + 1 THEN s[i] ELSE s[i + 1]
  BY <1>5, <1>6, RemoveAtIs
<1> HIDE DEF t
<1>8. ASSUME NEW i \in 1..n PROVE Held(q)[i] = t[i]
  <2>1. i < l.length /\ i \in 1..l.length /\ i + 1 \in 1..l.length /\ (index < i <=> ~ (i < index + 1))
    BY <1>1
  <2>2. QED
    BY <1>3, <1>4, <1>5, <1>7, <2>1
<1>9. Held(q) = t
  BY <1>4, <1>7, <1>8, SeqEqual
<1>10. QED
  BY <1>9 DEF q, t, s

LEMMA RemoveTheLast ==
    ASSUME NEW S, NEW s \in Seq(S), Len(s) # 0
    PROVE  RemoveAt(s, Len(s)) = Front(s)
<1>1. Len(s) \in Nat /\ Len(s) - 1 \in Nat /\ Len(s) \in 1..Len(s)
  BY LenProperties
<1> DEFINE t == RemoveAt(s, Len(s))
           n == Len(s) - 1
<1>2. /\ t \in Seq(S) /\ Len(t) = n
      /\ \A j \in 1..n : t[j] = IF j < Len(s) THEN s[j] ELSE s[j + 1]
  BY <1>1, RemoveAtIs
<1> HIDE DEF t
<1>3. Front(s) \in Seq(S) /\ Len(Front(s)) = n /\ \A j \in 1..n : Front(s)[j] = s[j]
  <2>1. 1 \in Int /\ n \in Int /\ \A j \in 1..n : s[j] \in S
    BY <1>1, ElementOfSeq
  <2> DEFINE f == SubSeq(s, 1, n)
  <2>2. /\ f \in Seq(S) /\ Len(f) = IF 1 <= n THEN n - 1 + 1 ELSE 0
        /\ \A j \in 1..(n - 1 + 1) : f[j] = s[1 + j - 1]
    BY <2>1, SubSeqProperties
  <2>3. Front(s) = f
    BY DEF Front
  <2> HIDE DEF f
  <2>4. n - 1 + 1 = n /\ Len(f) = n
    <3>1. n \in Nat /\ Len(f) = IF 1 <= n THEN n - 1 + 1 ELSE 0
      BY <1>1, <2>2
    <3> HIDE DEF n
    <3>2. QED
      BY <3>1
  <2>5. ASSUME NEW j \in 1..n PROVE f[j] = s[j]
    <3>1. 1 + j - 1 = j
      OBVIOUS
    <3>2. QED
      BY <2>2, <2>4, <3>1
  <2>6. QED
    BY <2>2, <2>3, <2>4, <2>5
<1>4. \A j \in 1..n : t[j] = Front(s)[j]
  BY <1>1, <1>2, <1>3
<1>5. t = Front(s)
  BY <1>2, <1>3, <1>4, SeqEqual
<1>6. QED
  BY <1>5 DEF t

-----------------------------------------------------------------------------
(* Each call of the list is the call that List promises.                   *)
LEMMA CallNamed ==
    ASSUME NEW name \in STRING, NEW args, args = <<>> \/ \E a : args = <<a>>
    PROVE  (<<name>> \o args)[1] = name
OBVIOUS

LEMMA ListFacts ==
    ASSUME ListInv, Ordinary
    PROVE  /\ Grown(list) /\ list.length \in Nat /\ Limit \in Nat
           /\ Held(list) \in Seq(Slot) /\ Len(Held(list)) = list.length
           /\ DOMAIN Held(list) = 1..list.length
           /\ \A i \in 1..list.length : Held(list)[i] = list.items[i] /\ Held(list)[i] \in Objects
<1>1. Grown(list) /\ Filled(list)
  BY DEF ListInv, Owned
<1>2. list.length \in Nat /\ Limit \in Nat
  BY <1>1, Sizes DEF Grown, ListRecord
<1>3. QED
  BY <1>1, <1>2, HeldIs DEF Filled

(* A call that changes nothing and answers r.                              *)
LEMMA Answers ==
    ASSUME NEW name, NEW args, NEW r,
           list' = list, finalised' = finalised, call' = <<name>> \o args, answer' = r
    PROVE  Promise!Does(name, args, Held(list), {}, r)
BY DEF Promise!Does, Held

LEMMA InsertKept ==
    ASSUME HalfTheRange, Ordinary, ListInv,
           NEW name, NEW args, NEW index \in Nat, NEW x \in Objects,
           index + 1 >= list.length, InsertNamed(name, args, index, x)
    PROVE  \/ index > list.length /\ Promise!Refuses(name, args)
           \/ /\ index <= list.length
              /\ Promise!Does(name, args, InsertAt(Held(list), index + 1, x), {}, "none")
<1>1. /\ ListInv' /\ finalised' = finalised /\ call' = <<name>> \o args /\ list.length < Limit
      /\ \/ /\ index > list.length
            /\ list' = list /\ answer' = "RangeError"
         \/ /\ index <= list.length
            /\ list' = Lengthened(EnsureCapacity(list), index, x) /\ answer' = "none"
  BY InsertStep
<1>2. CASE index > list.length
  <2>1. list' = list /\ answer' = "RangeError"
    BY <1>1, <1>2, ListFacts
  <2>2. Promise!Refuses(name, args)
    BY <1>1, <2>1, Answers DEF Promise!Refuses, Held
  <2>3. QED
    BY <1>2, <2>2
<1>3. CASE index <= list.length
  <2>1. list' = Lengthened(EnsureCapacity(list), index, x) /\ answer' = "none"
    BY <1>1, <1>3, ListFacts
  <2>2. Grown(list) /\ Grown(list') /\ index \in 0..list.length /\ x \in Slot
    BY <1>1, <1>3, ListFacts DEF ListInv, Owned, Slot
  <2>3. Held(list') = InsertAt(Held(list), index + 1, x)
    BY <1>1, <2>1, <2>2, HeldLengthened
  <2>4. Promise!Does(name, args, InsertAt(Held(list), index + 1, x), {}, "none")
    BY <1>1, <2>1, <2>3 DEF Promise!Does, Held
  <2>5. QED
    BY <1>3, <2>4
<1>4. QED
  BY <1>2, <1>3, ListFacts

(* A removal that no destructor ends.                                      *)
LEMMA RemovalKept ==
    ASSUME Ordinary, ListInv, fault = "none", NEW index \in 0..(list.length - 1),
           NEW name, NEW args, NEW result,
           Leads(Removed(Standing, index), name, args, result)
    PROVE  \/ answer' \in {"thrown", "dead_object"} /\ call' = <<name>> \o args
           \/ Promise!Does(name, args, RemoveAt(Held(list), index + 1),
                           {Held(list)[index + 1]}, result)
<1> DEFINE s == Removed(Standing, index)
<1>1. /\ Sound(s, unused)
      /\ s.end = "none" => /\ s.list = Taken(list, index)
                           /\ s.finalised = finalised \cup {list.items[index + 1]}
  BY StandingSound, RemovedSound
<1>2. /\ list' = s.list /\ finalised' = s.finalised /\ call' = <<name>> \o args
      /\ answer' = IF s.end = "none" THEN result ELSE s.end
  BY DEF Leads, Returns
<1> HIDE DEF s
<1>3. CASE s.end # "none"
  BY <1>1, <1>2, <1>3 DEF Sound
<1>4. CASE s.end = "none"
  <2>1. Grown(Taken(list, index)) /\ Grown(list)
    BY <1>1, <1>4, ListFacts DEF Sound, Owned
  <2>2. Held(list') = RemoveAt(Held(list), index + 1)
    BY <1>1, <1>2, <1>4, <2>1, HeldTaken
  <2>3. Held(list)[index + 1] = list.items[index + 1]
    BY ListFacts
  <2>4. Promise!Does(name, args, RemoveAt(Held(list), index + 1),
                     {Held(list)[index + 1]}, result)
    BY <1>1, <1>2, <1>4, <2>2, <2>3 DEF Promise!Does, Held
  <2>5. QED
    BY <2>4
<1>5. QED
  BY <1>3, <1>4

(* The least index at which an equal object is.                            *)
LEMMA IndexOfKept ==
    ASSUME Ordinary, ListInv, NEW x \in Objects, IndexOf(x)
    PROVE  Promise!IndexOf(x)
<1> DEFINE H == Held(list)
           n == list.length
           least == CHOOSE i \in Matches(x) : \A j \in Matches(x) : i <= j
           result == IF Matches(x) = {} THEN Invalid ELSE least - 1
<1>1. /\ DOMAIN H = 1..n /\ n \in Nat
      /\ \A i \in 1..n : H[i] = list.items[i] /\ H[i] \in Objects
  BY ListFacts
<1>2. \A i : i \in Matches(x) <=> i \in 1..n /\ x \in EqualTo[H[i]]
  BY <1>1 DEF Matches
<1>3. list' = list /\ finalised' = finalised /\ call' = <<"IndexOf">> \o <<x>> /\ answer' = result
  BY DEF IndexOf, Returns
<1> HIDE DEF result
<1>4. Promise!Does("IndexOf", <<x>>, H, {}, result)
  BY <1>3, Answers
<1>5. CASE Matches(x) = {}
  <2>1. \A i \in DOMAIN H : x \notin EqualTo[H[i]]
    BY <1>1, <1>2, <1>5
  <2>2. result = Invalid
    BY <1>5 DEF result
  <2>3. QED
    BY <1>4, <2>1, <2>2 DEF Promise!IndexOf, Held
<1>6. CASE Matches(x) # {}
  <2>1. Matches(x) \in SUBSET Nat
    BY <1>1, <1>2
  <2>2. \E i \in Matches(x) : \A j \in Matches(x) : i <= j
    BY <1>6, <2>1, LeastOf
  <2>3. least \in Matches(x) /\ \A j \in Matches(x) : least <= j
    BY <2>2
  <2>4. result = least - 1
    BY <1>6 DEF result
  <2> HIDE DEF least
  <2>5. least \in DOMAIN H /\ x \in EqualTo[H[least]] /\ least \in Nat
    BY <1>1, <1>2, <2>1, <2>3
  <2>6. \A j \in 1..(least - 1) : x \notin EqualTo[H[j]]
    <3> SUFFICES ASSUME NEW j \in 1..(least - 1), x \in EqualTo[H[j]] PROVE FALSE
      OBVIOUS
    <3>1. j \in 1..n /\ ~ (least <= j)
      BY <1>1, <2>5
    <3>2. QED
      BY <1>2, <2>3, <3>1
  <2>7. QED
    BY <1>4, <2>4, <2>5, <2>6 DEF Promise!IndexOf, Held
<1>7. QED
  BY <1>5, <1>6

LEMMA ListStep ==
    ASSUME HalfTheRange, Ordinary, ListInv, Next
    PROVE  Unpromised \/ Promise!Next
<1>1. ASSUME NEW index \in 0..(Limit + 1), NEW x \in Objects, Insert(index, x)
      PROVE  Promise!Next
  <2>1. index \in Nat /\ index + 1 >= list.length
        /\ InsertNamed("Insert", <<index, x>>, index, x)
    BY <1>1, ListFacts DEF Insert, Ordinary
  <2> DEFINE t == InsertAt(Held(list), index + 1, x)
  <2>2. \/ index > list.length /\ Promise!Refuses("Insert", <<index, x>>)
        \/ index <= list.length /\ Promise!Does("Insert", <<index, x>>, t, {}, "none")
    BY <2>1, InsertKept
  <2>3. t = Promise!InsertAt(Held(list), index + 1, x)
    BY DEF InsertAt, Promise!InsertAt
  <2> HIDE DEF t
  <2>4. Promise!Insert(index, x)
    <3>1. CASE index > list.length
      BY <2>1, <2>2, <3>1, ListFacts DEF Promise!Insert, Held
    <3>2. CASE ~ (index > list.length)
      BY <2>1, <2>2, <2>3, <3>2, ListFacts DEF Promise!Insert, Held
    <3>3. QED
      BY <3>1, <3>2
  <2>5. QED
    BY <2>4 DEF Promise!Next
<1>2. ASSUME NEW x \in Objects, Push(x) PROVE Promise!Next
  <2>1. InsertNamed("Push", <<x>>, list.length, x) /\ list.length \in Nat
        /\ list.length + 1 >= list.length /\ ~ (list.length > list.length)
    BY <1>2, ListFacts DEF Push
  <2>2. Promise!Does("Push", <<x>>, InsertAt(Held(list), list.length + 1, x), {}, "none")
    BY <2>1, InsertKept
  <2>3. InsertAt(Held(list), list.length + 1, x) = Append(Held(list), x)
    <3>1. Held(list) \in Seq(Slot) /\ Len(Held(list)) = list.length /\ x \in Slot
      BY ListFacts DEF Slot
    <3>2. InsertAt(Held(list), Len(Held(list)) + 1, x) = Append(Held(list), x)
      BY <3>1, InsertAtTheEnd
    <3>3. QED
      BY <3>1, <3>2
  <2>4. Promise!Push(x)
    BY <2>2, <2>3 DEF Promise!Push, Held
  <2>5. QED
    BY <2>4 DEF Promise!Next
<1>3. ASSUME NEW index \in 0..(Limit + 1), RemoveItem(index)
      PROVE  Unpromised \/ Promise!Next
  <2>1. CASE index >= list.length
    <3>1. list' = list /\ finalised' = finalised /\ call' = <<"Remove">> \o <<index>>
          /\ answer' = "RangeError"
      BY <1>3, <2>1 DEF RemoveItem, Refuses, Returns
    <3>2. Promise!RemoveItem(index)
      BY <2>1, <3>1, Answers, ListFacts DEF Promise!RemoveItem, Promise!Refuses, Held
    <3>3. QED
      BY <3>2 DEF Promise!Next
  <2>2. CASE ~ (index >= list.length)
    <3>1. index \in 0..(list.length - 1) /\ fault = "none"
          /\ Leads(Removed(Standing, index), "Remove", <<index>>, "none")
      BY <1>3, <2>2, ListFacts DEF RemoveItem
    <3>2. \/ answer' \in {"thrown", "dead_object"} /\ call' = <<"Remove">> \o <<index>>
          \/ Promise!Does("Remove", <<index>>, RemoveAt(Held(list), index + 1),
                          {Held(list)[index + 1]}, "none")
      BY <3>1, RemovalKept
    <3>3. CASE answer' \in {"thrown", "dead_object"} /\ call' = <<"Remove">> \o <<index>>
      BY <3>3, CallNamed DEF Unpromised
    <3>4. CASE Promise!Does("Remove", <<index>>, RemoveAt(Held(list), index + 1),
                            {Held(list)[index + 1]}, "none")
      <4>1. Promise!RemoveItem(index)
        BY <2>2, <3>4, ListFacts DEF Promise!RemoveItem, Held, RemoveAt, Promise!RemoveAt
      <4>2. QED
        BY <4>1 DEF Promise!Next
    <3>5. QED
      BY <3>2, <3>3, <3>4
  <2>3. QED
    BY <2>1, <2>2
<1>4. ASSUME Pop PROVE Unpromised \/ Promise!Next
  <2> DEFINE index == Memory!Wrap(list.length + M - 1)
             H == Held(list)
  <2>1. CASE index >= list.length
    <3>1. list' = list /\ finalised' = finalised /\ call' = <<"Pop">> \o <<>>
          /\ answer' = "RangeError" /\ list.length = 0
      BY <1>4, <2>1, LastIndex DEF Pop, Refuses, Returns
    <3>2. H = <<>>
      BY <3>1, ListFacts, EmptySeq
    <3>3. Promise!Does("Pop", <<>>, H, {}, "RangeError")
      BY <3>1, Answers
    <3>4. Promise!Pop
      BY <3>2, <3>3 DEF Promise!Pop, Promise!Refuses, Held
    <3>5. QED
      BY <3>4 DEF Promise!Next
  <2>2. CASE ~ (index >= list.length)
    <3>1. /\ index \in 0..(list.length - 1) /\ index = list.length - 1
          /\ fault = "none"
          /\ Leads(Removed(Standing, index), "Pop", <<>>, list.items[index + 1])
      BY <1>4, <2>2, PopIndex DEF Pop
    <3> HIDE DEF index
    <3>2. /\ index + 1 = list.length /\ list.length # 0 /\ list.length \in 1..list.length
          /\ H[list.length] = list.items[list.length] /\ H[list.length] \in Objects
      BY <3>1, ListFacts
    <3>3. \/ answer' \in {"thrown", "dead_object"} /\ call' = <<"Pop">> \o <<>>
          \/ Promise!Does("Pop", <<>>, RemoveAt(H, list.length), {H[list.length]}, H[list.length])
      BY <3>1, <3>2, RemovalKept
    <3>4. CASE answer' \in {"thrown", "dead_object"} /\ call' = <<"Pop">> \o <<>>
      BY <3>4, CallNamed DEF Unpromised
    <3>5. CASE Promise!Does("Pop", <<>>, RemoveAt(H, list.length), {H[list.length]}, H[list.length])
      <4>1. RemoveAt(H, list.length) = Front(H) /\ Len(H) = list.length /\ H # <<>>
        BY <3>2, ListFacts, RemoveTheLast, EmptySeq
      <4>2. Promise!Pop
        BY <3>5, <4>1 DEF Promise!Pop, Held, Front, Promise!Front, Promise!Last
      <4>3. QED
        BY <4>2 DEF Promise!Next
    <3>6. QED
      BY <3>3, <3>4, <3>5
  <2>3. QED
    BY <2>1, <2>2
<1>5. ASSUME Clear PROVE Unpromised
  <2>1. call' = <<"Clear">> \o <<>>
    BY <1>5 DEF Clear, Leads, Returns
  <2>2. QED
    BY <2>1, CallNamed DEF Unpromised
<1>6. ASSUME NEW index \in 0..(Limit + 1), ItemAt(index) PROVE Promise!Next
  <2> DEFINE r == IF index >= list.length THEN "RangeError" ELSE list.items[index + 1]
  <2>1. list' = list /\ finalised' = finalised /\ call' = <<"ItemAt">> \o <<index>> /\ answer' = r
    BY <1>6 DEF ItemAt, Refuses, Returns
  <2>2. index \in Nat /\ (~ (index >= list.length) => index + 1 \in 1..list.length)
    BY ListFacts
  <2>3. ~ (index >= list.length) => Held(list)[index + 1] = list.items[index + 1]
    BY <2>2, ListFacts
  <2> HIDE DEF r
  <2>4. Promise!Does("ItemAt", <<index>>, Held(list), {}, r)
    BY <2>1, Answers
  <2>5. Promise!ItemAt(index)
    BY <2>3, <2>4, ListFacts DEF Promise!ItemAt, Promise!Refuses, Held, r
  <2>6. QED
    BY <2>5 DEF Promise!Next
<1>7. ASSUME NEW x \in Objects, IndexOf(x) PROVE Promise!Next
  BY <1>7, IndexOfKept DEF Promise!Next
<1>8. QED
  BY <1>1, <1>2, <1>3, <1>4, <1>5, <1>6, <1>7 DEF Next

(***************************************************************************)
(* For a program that inserts at the last two positions only, every call   *)
(* of the array list is the call that List promises, but for AvmListClear  *)
(* and for a call that a destructor leaves by an exception; after these,   *)
(* the calls keep the promise again.                                       *)
(***************************************************************************)
THEOREM ImplementsListAlways ==
    ASSUME HalfTheRange, Ordinary
    PROVE  Spec => ImplementsList
<1>1. Init => Promise!Init
  <2> SUFFICES ASSUME Init PROVE Promise!Init
    OBVIOUS
  <2>1. Grown(list) /\ list.length = 0
    BY ListInvInit DEF Init, NewList, ListInv, Owned
  <2>2. SubSeq(list.items, 1, list.length) = <<>>
    BY <2>1, SubSeqEmpty
  <2>3. QED
    BY <2>2 DEF Init, Promise!Init
<1>2. ListInv /\ [Next]_vars => [Unpromised \/ Promise!Next]_vars
  BY ListStep
<1>3. QED
  BY <1>1, <1>2, ListInvInit, ListInvNext, PTL DEF Spec, ImplementsList
=============================================================================
