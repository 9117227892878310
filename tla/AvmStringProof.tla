--------------------------- MODULE AvmStringProof ---------------------------
(***************************************************************************)
(* AvmString, for any characters and any texts below half the range of     *)
(* uint: the text is always inside the memory and always written, so that  *)
(* whatever scans the raw memory sees it, up to its first zero byte; the   *)
(* queries agree; the buffer grows as Storage says; and the calls do to    *)
(* the text what Text says.                                                *)
(***************************************************************************)
EXTENDS AvmString, SequenceTheorems, FiniteSetTheorems, WellFoundedInduction, TLAPS

(* What the promises hold for.                                             *)
HalfTheRange == 2 * Limit < M

StringRecord == [capacity : Nat, length : Nat, buffer : Seq(Cell)]

(* The shape of a string s: the capacity is what is allocated, and has     *)
(* room for the text, which consists of characters.                        *)
Fit(s) ==
    /\ s \in StringRecord
    /\ Len(s.buffer) = s.capacity
    /\ s.length <= s.capacity
    /\ s.length <= Limit
    /\ s.capacity <= 2 * Limit
    /\ \A i \in 1..s.length : s.buffer[i] \in Chars

StringInv ==
    /\ Fit(string)
    /\ fault \in {"none", "null", "pushstr", "stale"}

-----------------------------------------------------------------------------
LEMMA Sizes ==
    /\ M \in Nat /\ Limit \in Nat /\ MaxChunk \in Nat
    /\ Junk \notin Chars /\ Junk # Nul
    /\ Mappings \subseteq [Chars -> Chars]
    /\ HalfTheRange => M > 0 /\ Limit < M
BY AvmStringAssumption DEF HalfTheRange

LEMMA FunctionIsSeq ==
    ASSUME NEW S, NEW n \in Nat, NEW f \in [1..n -> S]
    PROVE  f \in Seq(S) /\ Len(f) = n
OBVIOUS

LEMMA FitFacts ==
    ASSUME NEW s, Fit(s)
    PROVE  /\ s.capacity \in Nat /\ s.length \in Nat /\ s.buffer \in Seq(Cell)
           /\ Len(s.buffer) = s.capacity /\ DOMAIN s.buffer = 1..s.capacity
           /\ s.length <= s.capacity /\ s.length <= Limit /\ s.capacity <= 2 * Limit
           /\ \A i \in 1..s.capacity : s.buffer[i] \in Cell
           /\ \A i \in 1..s.length : s.buffer[i] \in Chars
           /\ s = [capacity |-> s.capacity, length |-> s.length, buffer |-> s.buffer]
BY LenProperties, ElementOfSeq DEF Fit, StringRecord

(* The other way around.                                                   *)
LEMMA FitFrom ==
    ASSUME NEW c \in Nat, NEW n \in Nat, NEW b \in Seq(Cell), Len(b) = c,
           n <= c, n <= Limit, c <= 2 * Limit, \A i \in 1..n : b[i] \in Chars
    PROVE  Fit([capacity |-> c, length |-> n, buffer |-> b])
BY DEF Fit, StringRecord

LEMMA WrapIsIdentity ==
    ASSUME HalfTheRange, NEW n \in Nat, n <= 2 * Limit
    PROVE  Memory!Wrap(n) = n
BY Sizes DEF HalfTheRange, Memory!Wrap

LEMMA ChunksAre ==
    ASSUME NEW cs \in Chunks
    PROVE  cs \in Seq(Chars) /\ Len(cs) \in Nat
<1>1. PICK n \in 0..MaxChunk : cs \in [1..n -> Chars]
  BY DEF Chunks, BoundedSeq, SeqOf
<1>2. n \in Nat
  BY Sizes
<1>3. QED
  BY <1>1, <1>2, FunctionIsSeq

(* EnsureCapacity makes room for n more characters.                        *)
LEMMA GrowthMakesRoom ==
    ASSUME HalfTheRange, NEW cap \in Nat, NEW len \in Nat, NEW n \in Nat,
           len <= cap, cap <= 2 * Limit, len + n <= Limit
    PROVE  LET c == Memory!NewCapacity(cap, len, n)
           IN  /\ c \in Nat /\ len + n <= c /\ cap <= c /\ c <= 2 * Limit
               /\ ~ Memory!MustGrow(cap, len, n) => c = cap
               /\ len + n <= cap => ~ Memory!MustGrow(cap, len, n)
               /\ Memory!PostHolds(c, len, n)
<1> DEFINE c == Memory!NewCapacity(cap, len, n)
<1>1. Limit \in Nat /\ M \in Nat
  BY Sizes
<1>2. Memory!Wrap(len + n) = len + n
  BY <1>1, WrapIsIdentity
<1>3. CASE n # 0 /\ len + n > cap
  <2>1. 2 * cap \in Nat /\ 2 * cap <= 2 * Limit /\ cap <= Limit
    BY <1>1, <1>3
  <2>2. Memory!Wrap(2 * cap) = 2 * cap
    BY <2>1, WrapIsIdentity
  <2>3. Memory!MustGrow(cap, len, n)
    BY <1>2, <1>3 DEF Memory!MustGrow
  <2>4. CASE 2 * cap < len + n
    <3>1. 2 * cap + n \in Nat /\ 2 * cap + n <= 2 * Limit
      BY <1>1, <2>4
    <3>2. Memory!Wrap(2 * cap + n) = 2 * cap + n
      BY <3>1, WrapIsIdentity
    <3>3. c = 2 * cap + n
      BY <1>2, <2>2, <2>3, <2>4, <3>2 DEF Memory!NewCapacity
    <3> HIDE DEF c
    <3>4. c \in Nat /\ len + n <= c /\ cap <= c /\ c <= 2 * Limit /\ c >= len /\ c >= n
      BY <1>1, <1>3, <2>4, <3>1, <3>3
    <3>5. QED
      BY <1>3, <2>3, <3>4 DEF c, Memory!PostHolds
  <2>5. CASE ~ (2 * cap < len + n)
    <3>1. c = 2 * cap
      BY <1>2, <2>2, <2>3, <2>5 DEF Memory!NewCapacity
    <3> HIDE DEF c
    <3>2. c \in Nat /\ len + n <= c /\ cap <= c /\ c <= 2 * Limit /\ c >= len /\ c >= n
      BY <1>1, <1>3, <2>1, <2>5, <3>1
    <3>3. QED
      BY <1>3, <2>3, <3>2 DEF c, Memory!PostHolds
  <2>6. QED
    BY <2>4, <2>5
<1>4. CASE ~ (n # 0 /\ len + n > cap)
  <2>1. ~ Memory!MustGrow(cap, len, n)
    BY <1>2, <1>4 DEF Memory!MustGrow
  <2>2. c = cap
    BY <2>1 DEF Memory!NewCapacity
  <2> HIDE DEF c
  <2>3. len + n <= cap /\ (n # 0 => cap >= len /\ cap >= n)
    BY <1>1, <1>4
  <2>4. QED
    BY <2>1, <2>2, <2>3 DEF c, Memory!PostHolds
<1>5. QED
  BY <1>3, <1>4

(* Ensured moves the text, if at all, with the memory around it.           *)
LEMMA EnsuredFits ==
    ASSUME HalfTheRange, NEW s, Fit(s), NEW n \in Nat, s.length + n <= Limit
    PROVE  LET e == Ensured(s, n)
           IN  /\ Fit(e)
               /\ e.length = s.length /\ s.length + n <= e.capacity
               /\ e.capacity = Memory!NewCapacity(s.capacity, s.length, n)
               /\ s.length + n <= s.capacity => e.capacity = s.capacity
               /\ \A i \in 1..s.length : e.buffer[i] = s.buffer[i]
               /\ Memory!PostHolds(e.capacity, s.length, n)
               /\ ~ Memory!MustGrow(s.capacity, s.length, n) => e.capacity = s.capacity
<1> DEFINE c == Memory!NewCapacity(s.capacity, s.length, n)
           moved == Realloc(s.buffer, c)
           buffer == IF Memory!MustGrow(s.capacity, s.length, n) THEN moved ELSE s.buffer
           e == Ensured(s, n)
<1>1. /\ s.capacity \in Nat /\ s.length \in Nat /\ s.buffer \in Seq(Cell)
      /\ Len(s.buffer) = s.capacity
      /\ s.length <= s.capacity /\ s.length <= Limit /\ s.capacity <= 2 * Limit
      /\ \A i \in 1..s.capacity : s.buffer[i] \in Cell
      /\ \A i \in 1..s.length : s.buffer[i] \in Chars
  BY FitFacts
<1>2. /\ c \in Nat /\ s.length + n <= c /\ s.capacity <= c /\ c <= 2 * Limit
      /\ ~ Memory!MustGrow(s.capacity, s.length, n) => c = s.capacity
      /\ s.length + n <= s.capacity => ~ Memory!MustGrow(s.capacity, s.length, n)
      /\ Memory!PostHolds(c, s.length, n)
  BY <1>1, GrowthMakesRoom
<1>3. e = [capacity |-> c, length |-> s.length, buffer |-> buffer]
  BY DEF Ensured
<1> HIDE DEF c
<1>4. moved \in Seq(Cell) /\ Len(moved) = c /\ \A i \in 1..s.length : moved[i] = s.buffer[i]
  <2>1. \A i \in 1..c : moved[i] \in Cell
    BY <1>1, <1>2 DEF Cell, Realloc
  <2>2. moved \in [1..c -> Cell]
    BY <2>1 DEF Realloc
  <2>3. \A i \in 1..s.length : moved[i] = s.buffer[i]
    BY <1>1, <1>2 DEF Realloc
  <2> HIDE DEF moved
  <2>4. QED
    BY <1>2, <2>2, <2>3, FunctionIsSeq
<1> HIDE DEF moved
<1>5. buffer \in Seq(Cell) /\ Len(buffer) = c /\ \A i \in 1..s.length : buffer[i] = s.buffer[i]
  BY <1>1, <1>2, <1>4
<1> HIDE DEF buffer, e
<1>6. Fit(e)
  <2>1. s.length <= c
    BY <1>1, <1>2
  <2>2. \A i \in 1..s.length : buffer[i] \in Chars
    BY <1>1, <1>5
  <2>3. QED
    BY <1>1, <1>2, <1>3, <1>5, <2>1, <2>2, FitFrom
<1>7. QED
  BY <1>2, <1>3, <1>5, <1>6 DEF c, e

-----------------------------------------------------------------------------
(* The text of a string, and what pushing does to it.                      *)
LEMMA TextIs ==
    ASSUME NEW s, Fit(s)
    PROVE  /\ TextOf(s) \in Seq(Chars)
           /\ Len(TextOf(s)) = s.length /\ DOMAIN TextOf(s) = 1..s.length
           /\ \A i \in 1..s.length : TextOf(s)[i] = s.buffer[i]
<1>1. /\ s.length \in Nat /\ s.buffer \in Seq(Cell) /\ s.length <= Len(s.buffer)
      /\ \A i \in 1..s.length : s.buffer[i] \in Chars
  BY FitFacts
<1>2. \A i \in 1..s.length : s.buffer[i] \in Cell
  BY <1>1 DEF Cell
<1>3. /\ TextOf(s) \in Seq(Cell) /\ Len(TextOf(s)) = s.length
      /\ \A i \in 1..s.length : TextOf(s)[i] = s.buffer[i]
  BY <1>1, <1>2, SubSeqProperties DEF TextOf
<1>4. DOMAIN TextOf(s) = 1..s.length /\ TextOf(s) = [i \in 1..s.length |-> TextOf(s)[i]]
  BY <1>3, LenProperties
<1>5. TextOf(s) \in [1..s.length -> Chars]
  BY <1>1, <1>3, <1>4
<1>6. QED
  BY <1>1, <1>3, <1>4, <1>5, FunctionIsSeq

(* A string whose cells up to the length are those of the text t.          *)
LEMMA TextEquals ==
    ASSUME NEW s, Fit(s), NEW S, NEW t \in Seq(S), Len(t) = s.length,
           \A i \in 1..s.length : s.buffer[i] = t[i]
    PROVE  TextOf(s) = t
<1>1. /\ TextOf(s) \in Seq(Chars) /\ Len(TextOf(s)) = s.length
      /\ \A i \in 1..s.length : TextOf(s)[i] = t[i]
  BY TextIs
<1>2. QED
  BY <1>1, SeqEqual

LEMMA ConcatIs ==
    ASSUME NEW S, NEW a \in Seq(S), NEW b \in Seq(S)
    PROVE  /\ a \o b \in Seq(S) /\ Len(a \o b) = Len(a) + Len(b)
           /\ Len(a) \in Nat /\ Len(b) \in Nat
           /\ \A i \in 1..(Len(a) + Len(b)) :
                (a \o b)[i] = IF i <= Len(a) THEN a[i] ELSE b[i - Len(a)]
BY LenProperties, ConcatProperties

LEMMA PushedFits ==
    ASSUME HalfTheRange, NEW s, Fit(s), NEW cs \in Seq(Chars), s.length + Len(cs) <= Limit
    PROVE  LET r == Pushed(s, cs)
           IN  /\ PushEnds(s, cs) = "none" /\ Fit(r)
               /\ r.length = s.length + Len(cs)
               /\ r.capacity = Ensured(s, Len(cs)).capacity
               /\ TextOf(r) = TextOf(s) \o cs
<1> DEFINE k == Len(cs)
           e == Ensured(s, k)
           n == s.length + k
           buffer == [i \in DOMAIN e.buffer |->
                        IF i \in (s.length + 1)..n THEN cs[i - s.length] ELSE e.buffer[i]]
           r == [capacity |-> e.capacity, length |-> n, buffer |-> buffer]
<1>1. s.length \in Nat /\ k \in Nat /\ n \in Nat /\ Limit \in Nat /\ n <= 2 * Limit
  BY FitFacts, LenProperties, Sizes
<1>2. /\ Fit(e) /\ n <= e.capacity /\ e.length = s.length
      /\ \A i \in 1..s.length : e.buffer[i] = s.buffer[i]
      /\ Memory!PostHolds(e.capacity, s.length, k)
  BY <1>1, EnsuredFits
<1>3. Memory!Wrap(n) = n
  BY <1>1, WrapIsIdentity
<1> HIDE DEF e
<1>4. /\ e.capacity \in Nat /\ Len(e.buffer) = e.capacity /\ DOMAIN e.buffer = 1..e.capacity
      /\ e.capacity <= 2 * Limit
      /\ \A i \in 1..e.capacity : e.buffer[i] \in Cell
      /\ \A i \in 1..s.length : s.buffer[i] \in Chars
  BY <1>2, FitFacts
<1>5. PushEnds(s, cs) = "none"
  BY <1>1, <1>2, <1>4 DEF PushEnds, e
<1>6. Pushed(s, cs) = r
  BY <1>3, <1>5 DEF Pushed, e
<1>7. \A i \in 1..e.capacity :
        buffer[i] = IF i \in (s.length + 1)..n THEN cs[i - s.length] ELSE e.buffer[i]
  BY <1>4
<1>8. \A i \in 1..k : cs[i] \in Chars
  BY ElementOfSeq
<1>9. buffer \in Seq(Cell) /\ Len(buffer) = e.capacity
  <2>1. \A i \in 1..e.capacity : buffer[i] \in Cell
    <3> SUFFICES ASSUME NEW i \in 1..e.capacity PROVE buffer[i] \in Cell
      OBVIOUS
    <3>1. i \in (s.length + 1)..n => i - s.length \in 1..k
      BY <1>1
    <3>2. QED
      BY <1>4, <1>7, <1>8, <3>1 DEF Cell
  <2>2. buffer \in [1..e.capacity -> Cell]
    BY <1>4, <2>1
  <2> HIDE DEF buffer
  <2>3. QED
    BY <1>4, <2>2, FunctionIsSeq
<1> HIDE DEF buffer
<1> DEFINE t == TextOf(s) \o cs
<1>10. /\ TextOf(s) \in Seq(Chars) /\ Len(TextOf(s)) = s.length
       /\ \A i \in 1..s.length : TextOf(s)[i] = s.buffer[i]
  BY TextIs
<1>11. /\ t \in Seq(Chars) /\ Len(t) = n
       /\ \A i \in 1..n : t[i] = IF i <= s.length THEN TextOf(s)[i] ELSE cs[i - s.length]
  <2> DEFINE a == TextOf(s)
  <2>1. /\ t \in Seq(Chars) /\ Len(t) = Len(a) + k
        /\ \A i \in 1..(Len(a) + k) : t[i] = IF i <= Len(a) THEN a[i] ELSE cs[i - Len(a)]
    BY <1>10, ConcatIs
  <2>2. Len(a) = s.length
    BY <1>10
  <2> HIDE DEF a, t
  <2>3. QED
    BY <2>1, <2>2 DEF a
<1> HIDE DEF t
<1>12. \A i \in 1..n : buffer[i] = t[i]
  <2> SUFFICES ASSUME NEW i \in 1..n PROVE buffer[i] = t[i]
    OBVIOUS
  <2>1. i \in 1..e.capacity
    BY <1>1, <1>2, <1>4
  <2>2. CASE i <= s.length
    <3>1. i \in 1..s.length /\ i \notin (s.length + 1)..n
      BY <1>1, <2>2
    <3>2. QED
      BY <1>2, <1>7, <1>10, <1>11, <2>1, <2>2, <3>1
  <2>3. CASE ~ (i <= s.length)
    <3>1. i \in (s.length + 1)..n
      BY <1>1, <2>3
    <3>2. QED
      BY <1>7, <1>11, <2>1, <2>3, <3>1
  <2>4. QED
    BY <2>2, <2>3
<1>13. \A i \in 1..n : t[i] \in Chars
  BY <1>11, ElementOfSeq
<1>14. Fit(r)
  BY <1>1, <1>2, <1>4, <1>9, <1>12, <1>13, FitFrom
<1>15. r.length = n /\ r.buffer = buffer /\ r.capacity = e.capacity
  OBVIOUS
<1> HIDE DEF r
<1>16. TextOf(r) = t
  BY <1>11, <1>12, <1>14, <1>15, TextEquals
<1>17. QED
  BY <1>5, <1>6, <1>14, <1>15, <1>16 DEF e, t

-----------------------------------------------------------------------------
(* Repetition: the loop of pushes, by induction over its turns.            *)
LEMMA LeastOf ==
    ASSUME NEW S \in SUBSET Nat, S # {}
    PROVE  \E m \in S : \A k \in S : m <= k
<1> DEFINE Below == {0..m : m \in S}
           R == StrictSubsetOrdering(Nat)
<1>1. Below \subseteq FiniteSubsetsOf(Nat)
  <2>1. ASSUME NEW m \in S PROVE 0..m \in FiniteSubsetsOf(Nat)
    <3>1. IsFiniteSet(0..m)
      BY FS_Interval
    <3>2. 0..m \in SUBSET Nat
      OBVIOUS
    <3>3. QED
      BY <3>1, <3>2 DEF FiniteSubsetsOf
  <2>2. QED
    BY <2>1
<1>2. Below # {}
  OBVIOUS
<1>3. IsWellFoundedOn(R, FiniteSubsetsOf(Nat))
  BY FS_StrictSubsetOrderingWellFounded
<1> HIDE DEF R
<1>4. PICK x \in Below : \A y \in Below : ~ (<<y, x>> \in R)
  BY <1>1, <1>2, <1>3, WFMin
<1>5. PICK m \in S : x = 0..m
  BY <1>4
<1>6. ASSUME NEW k \in S PROVE m <= k
  <2> SUFFICES ASSUME k < m PROVE FALSE
    BY <1>5
  <2>1. m \in 0..m /\ m \notin 0..k
    OBVIOUS
  <2>2. 0..k \in SUBSET Nat /\ 0..m \in SUBSET Nat /\ 0..k \subseteq 0..m /\ 0..k # 0..m
    BY <2>1
  <2>3. <<0..k, 0..m>> \in R /\ 0..k \in Below
    BY <2>2 DEF R, StrictSubsetOrdering
  <2>4. QED
    BY <1>4, <1>5, <2>3
<1>7. QED
  BY <1>5, <1>6

LEMMA UpTo ==
    ASSUME NEW n \in Nat, NEW S, 0 \in S, \A k \in 0..(n - 1) : k \in S => k + 1 \in S
    PROVE  0..n \subseteq S
<1> SUFFICES ASSUME ~ (0..n \subseteq S) PROVE FALSE
  OBVIOUS
<1> DEFINE Missing == (0..n) \ S
<1>1. Missing \in SUBSET Nat /\ Missing # {}
  OBVIOUS
<1>2. PICK m \in Missing : \A k \in Missing : m <= k
  BY <1>1, LeastOf
<1>3. m \in 0..n /\ m \notin S /\ m # 0
  BY <1>2
<1>4. m - 1 \in 0..(n - 1) /\ m - 1 \notin Missing /\ (m - 1) + 1 = m
  BY <1>2, <1>3
<1>5. m - 1 \in S
  BY <1>4
<1>6. QED
  BY <1>3, <1>4, <1>5

LEMMA NewStringFits ==
    ASSUME NEW c \in Nat, c <= 2 * Limit
    PROVE  /\ Fit(NewString(c)) /\ TextOf(NewString(c)) = <<>>
           /\ NewString(c).capacity = c /\ NewString(c).length = 0
<1> DEFINE b == [i \in 1..c |-> Junk]
           s == NewString(c)
<1>1. b \in [1..c -> Cell]
  BY DEF Cell
<1> HIDE DEF b
<1>2. b \in Seq(Cell) /\ Len(b) = c
  BY <1>1, FunctionIsSeq
<1>3. s = [capacity |-> c, length |-> 0, buffer |-> b]
  BY DEF NewString, b
<1> HIDE DEF s
<1>4. Fit(s)
  BY <1>2, <1>3, Sizes, FitFrom
<1>5. TextOf(s) = <<>>
  BY <1>3, <1>4, TextIs, EmptySeq
<1>6. QED
  BY <1>3, <1>4, <1>5 DEF s

(* g is what k pushes of cs make of s, push by push.                       *)
IsRun(g, s, cs, k) ==
    g = [j \in 0..k |-> IF j = 0 THEN s ELSE Pushed(g[j - 1], cs)]

LEMMA RunsExist ==
    ASSUME NEW s, NEW cs, NEW n \in Nat
    PROVE  \E g : IsRun(g, s, cs, n)
<1> DEFINE S == {k \in 0..n : \E g : IsRun(g, s, cs, k)}
<1>1. 0 \in S
  <2>1. IsRun([k \in 0..0 |-> s], s, cs, 0)
    BY DEF IsRun
  <2>2. QED
    BY <2>1
<1>2. ASSUME NEW k \in 0..(n - 1), k \in S PROVE k + 1 \in S
  <2>1. PICK g : IsRun(g, s, cs, k)
    BY <1>2
  <2> DEFINE h == [i \in 0..(k + 1) |-> IF i <= k THEN g[i] ELSE Pushed(g[k], cs)]
  <2>2. ASSUME NEW i \in 0..(k + 1)
        PROVE  h[i] = IF i = 0 THEN s ELSE Pushed(h[i - 1], cs)
    <3>1. CASE i <= k
      <4>1. i \in 0..k /\ (i # 0 => i - 1 \in 0..k /\ i - 1 \in 0..(k + 1) /\ i - 1 <= k)
        BY <3>1
      <4>2. g[i] = IF i = 0 THEN s ELSE Pushed(g[i - 1], cs)
        BY <2>1, <4>1 DEF IsRun
      <4>3. h[i] = g[i] /\ (i # 0 => h[i - 1] = g[i - 1])
        BY <3>1, <4>1
      <4> HIDE DEF h
      <4>4. QED
        BY <4>2, <4>3
    <3>2. CASE i = k + 1
      <4>1. h[k + 1] = Pushed(g[k], cs) /\ h[k] = g[k]
        BY <1>2
      <4>2. (k + 1) - 1 = k /\ k + 1 # 0
        BY <1>2
      <4> HIDE DEF h
      <4>3. QED
        BY <3>2, <4>1, <4>2
    <3>3. QED
      BY <1>2, <3>1, <3>2
  <2>3. h = [i \in 0..(k + 1) |-> h[i]]
    OBVIOUS
  <2> HIDE DEF h
  <2>4. h = [i \in 0..(k + 1) |-> IF i = 0 THEN s ELSE Pushed(h[i - 1], cs)]
    BY <2>2, <2>3
  <2>5. IsRun(h, s, cs, k + 1)
    BY <2>4 DEF IsRun
  <2>6. k + 1 \in 0..n
    OBVIOUS
  <2>7. QED
    BY <2>5, <2>6
<1> HIDE DEF S
<1>3. 0..n \subseteq S
  BY <1>1, <1>2, UpTo
<1>4. QED
  BY <1>3 DEF S

LEMMA TimesGrow ==
    ASSUME NEW a \in Nat, NEW j \in Nat, NEW k \in Nat, j <= k
    PROVE  a * j \in Nat /\ a * j <= a * k
<1>1. k - j \in Nat /\ a * j \in Nat /\ a * (k - j) \in Nat
  OBVIOUS
<1>2. a * k = a * j + a * (k - j)
  OBVIOUS
<1>3. QED
  BY <1>1, <1>2

(* The run of a repetition never leaves the memory it was given.           *)
LEMMA RepeatedFits ==
    ASSUME HalfTheRange, NEW cs \in Seq(Chars), NEW k \in Nat, Len(cs) * k <= Limit,
           NEW g, IsRun(g, NewString(2 * (Len(cs) * k)), cs, k)
    PROVE  \A j \in 0..k : /\ Fit(g[j]) /\ g[j].length = Len(cs) * j
                           /\ g[j].capacity = 2 * (Len(cs) * k)
                           /\ j # 0 => TextOf(g[j]) = TextOf(g[j - 1]) \o cs
<1> DEFINE a == Len(cs)
           c == 2 * (a * k)
           Good(j) == /\ Fit(g[j]) /\ g[j].length = a * j /\ g[j].capacity = c
                      /\ j # 0 => TextOf(g[j]) = TextOf(g[j - 1]) \o cs
           S == {j \in 0..k : Good(j)}
<1>1. a \in Nat /\ Limit \in Nat
  BY LenProperties, Sizes
<1>2. a * k \in Nat /\ c \in Nat /\ c <= 2 * Limit
  BY <1>1
<1>3. 0 \in S
  <2>1. g[0] = NewString(c)
    BY DEF IsRun
  <2>2. a * 0 = 0 /\ 0 \in 0..k
    BY <1>1
  <2>3. Fit(g[0]) /\ g[0].length = 0 /\ g[0].capacity = c
    BY <1>2, <2>1, NewStringFits
  <2>4. QED
    BY <2>2, <2>3
<1>4. ASSUME NEW j \in 0..(k - 1), j \in S PROVE j + 1 \in S
  <2>1. j \in Nat /\ j + 1 \in 0..k /\ j + 1 <= k /\ j + 1 # 0 /\ (j + 1) - 1 = j
    OBVIOUS
  <2>2. g[j + 1] = Pushed(g[j], cs)
    BY <2>1 DEF IsRun
  <2>3. Fit(g[j]) /\ g[j].length = a * j /\ g[j].capacity = c
    BY <1>4
  <2>4. a * (j + 1) = a * j + a
    BY <1>1, <2>1
  <2>5. a * j \in Nat /\ a * (j + 1) <= a * k
    BY <1>1, <2>1, TimesGrow
  <2>6. g[j].length + a <= Limit /\ g[j].length + a <= g[j].capacity
    BY <1>1, <1>2, <2>3, <2>4, <2>5
  <2>7. /\ Fit(g[j + 1]) /\ g[j + 1].length = g[j].length + a
        /\ g[j + 1].capacity = Ensured(g[j], a).capacity
        /\ TextOf(g[j + 1]) = TextOf(g[j]) \o cs
    BY <2>2, <2>3, <2>6, PushedFits
  <2>8. Ensured(g[j], a).capacity = g[j].capacity
    BY <1>1, <2>3, <2>6, EnsuredFits
  <2>9. QED
    BY <2>1, <2>3, <2>4, <2>7, <2>8
<1> HIDE DEF S
<1>5. 0..k \subseteq S
  BY <1>3, <1>4, UpTo
<1>6. QED
  BY <1>5 DEF S

LEMMA PushedTimesFits ==
    ASSUME HalfTheRange, NEW cs \in Seq(Chars), NEW k \in Nat, Len(cs) * k <= Limit
    PROVE  \E g : /\ IsRun(g, NewString(2 * (Len(cs) * k)), cs, k)
                  /\ PushedTimes(NewString(2 * (Len(cs) * k)), cs, k) = g[k]
<1> DEFINE s == NewString(2 * (Len(cs) * k))
           g == CHOOSE g : IsRun(g, s, cs, k)
<1>1. PushedTimes(s, cs, k) = g[k]
  BY DEF PushedTimes, IsRun
<1>2. IsRun(g, s, cs, k)
  BY RunsExist
<1>3. QED
  BY <1>1, <1>2

-----------------------------------------------------------------------------
(* Replacement: the loop that visits the positions of the text in an order *)
(* and overwrites x.old by x.new, x.n times at most.                       *)
Unswept(s) == [buffer |-> s.buffer, count |-> 0]

IsSweep(g, s, order, x, k) ==
    g = [j \in 0..k |-> IF j = 0 THEN Unswept(s)
                        ELSE Replaced(g[j - 1], order[j], x.n, x.old, x.new)]

LEMMA SweepsExist ==
    ASSUME NEW s, NEW order, NEW x, NEW n \in Nat
    PROVE  \E g : IsSweep(g, s, order, x, n)
<1> DEFINE S == {k \in 0..n : \E g : IsSweep(g, s, order, x, k)}
<1>1. 0 \in S
  <2>1. IsSweep([k \in 0..0 |-> Unswept(s)], s, order, x, 0)
    BY DEF IsSweep
  <2>2. QED
    BY <2>1
<1>2. ASSUME NEW k \in 0..(n - 1), k \in S PROVE k + 1 \in S
  <2>1. PICK g : IsSweep(g, s, order, x, k)
    BY <1>2
  <2> DEFINE h == [i \in 0..(k + 1) |-> IF i <= k THEN g[i] ELSE Replaced(g[k], order[k + 1], x.n, x.old, x.new)]
  <2>2. ASSUME NEW i \in 0..(k + 1)
        PROVE  h[i] = IF i = 0 THEN Unswept(s) ELSE Replaced(h[i - 1], order[i], x.n, x.old, x.new)
    <3>1. CASE i <= k
      <4>1. i \in 0..k /\ (i # 0 => i - 1 \in 0..k /\ i - 1 \in 0..(k + 1) /\ i - 1 <= k)
        BY <3>1
      <4>2. g[i] = IF i = 0 THEN Unswept(s) ELSE Replaced(g[i - 1], order[i], x.n, x.old, x.new)
        BY <2>1, <4>1 DEF IsSweep
      <4>3. h[i] = g[i] /\ (i # 0 => h[i - 1] = g[i - 1])
        BY <3>1, <4>1
      <4> HIDE DEF h
      <4>4. QED
        BY <4>2, <4>3
    <3>2. CASE i = k + 1
      <4>1. h[k + 1] = Replaced(g[k], order[k + 1], x.n, x.old, x.new) /\ h[k] = g[k]
        BY <1>2
      <4>2. (k + 1) - 1 = k /\ k + 1 # 0
        BY <1>2
      <4> HIDE DEF h
      <4>3. QED
        BY <3>2, <4>1, <4>2
    <3>3. QED
      BY <1>2, <3>1, <3>2
  <2>3. h = [i \in 0..(k + 1) |-> h[i]]
    OBVIOUS
  <2> HIDE DEF h
  <2>4. h = [i \in 0..(k + 1) |-> IF i = 0 THEN Unswept(s) ELSE Replaced(h[i - 1], order[i], x.n, x.old, x.new)]
    BY <2>2, <2>3
  <2>5. IsSweep(h, s, order, x, k + 1)
    BY <2>4 DEF IsSweep
  <2>6. k + 1 \in 0..n
    OBVIOUS
  <2>7. QED
    BY <2>5, <2>6
<1> HIDE DEF S
<1>3. 0..n \subseteq S
  BY <1>1, <1>2, UpTo
<1>4. QED
  BY <1>3 DEF S

(* The places that hold old among the first k of the order, and what       *)
(* becomes of the k-th place.                                              *)
Hits(s, order, old, k) == {i \in 1..s.length : s.buffer[i] = old /\ \E j \in 1..k : order[j] = i}

Swept(s, order, x, k) ==
    IF s.buffer[order[k]] = x.old /\ Cardinality(Hits(s, order, x.old, k)) <= x.n
    THEN x.new ELSE s.buffer[order[k]]

IsOrder(s, order) ==
    /\ \A i \in 1..s.length : order[i] \in 1..s.length
    /\ \A i, j \in 1..s.length : order[i] = order[j] => i = j

Request == [n : Nat, old : Chars, new : Chars]

LEMMA HitsCount ==
    ASSUME NEW s, Fit(s), NEW order, IsOrder(s, order), NEW old, NEW k \in 0..(s.length - 1)
    PROVE  LET h == Cardinality(Hits(s, order, old, k))
               g == Cardinality(Hits(s, order, old, k + 1))
           IN  h \in Nat /\ g = IF s.buffer[order[k + 1]] = old THEN h + 1 ELSE h
<1> DEFINE H == Hits(s, order, old, k)
           G == Hits(s, order, old, k + 1)
           i == order[k + 1]
<1>1. s.length \in Nat /\ k + 1 \in 1..s.length /\ i \in 1..s.length
  BY FitFacts DEF IsOrder
<1>2. IsFiniteSet(H) /\ Cardinality(H) \in Nat
  <2>1. H \subseteq 1..s.length /\ IsFiniteSet(1..s.length)
    BY <1>1, FS_Interval DEF Hits
  <2>2. QED
    BY <2>1, FS_Subset, FS_CardinalityType
<1>3. \A j \in 1..(k + 1) : j = k + 1 \/ j \in 1..k
  BY <1>1
<1>4. CASE s.buffer[i] = old
  <2>1. i \notin H
    <3> SUFFICES ASSUME NEW j \in 1..k, order[j] = i PROVE FALSE
      BY DEF Hits
    <3>1. j \in 1..s.length /\ j # k + 1
      BY <1>1
    <3>2. QED
      BY <1>1, <3>1 DEF IsOrder
  <2>2. G = H \cup {i}
    BY <1>1, <1>3, <1>4 DEF Hits
  <2> HIDE DEF H, G
  <2>3. Cardinality(G) = Cardinality(H) + 1
    BY <1>2, <2>1, <2>2, FS_AddElement
  <2>4. QED
    BY <1>2, <1>4, <2>3 DEF H, G
<1>5. CASE s.buffer[i] # old
  <2>1. G = H
    BY <1>1, <1>3, <1>5 DEF Hits
  <2>2. QED
    BY <1>2, <1>5, <2>1
<1>6. QED
  BY <1>4, <1>5

(* What the first k turns have made of the memory.                         *)
SweptUpTo(acc, s, order, x, k) ==
    /\ acc.buffer \in [1..s.capacity -> Cell]
    /\ \A i \in 1..s.length : acc.buffer[i] \in Chars
    /\ LET h == Cardinality(Hits(s, order, x.old, k))
       IN  acc.count = IF h <= x.n THEN h ELSE x.n
    /\ \A j \in 1..k : acc.buffer[order[j]] = Swept(s, order, x, j)
    /\ \A j \in (k + 1)..s.length : acc.buffer[order[j]] = s.buffer[order[j]]

LEMMA SweptFirst ==
    ASSUME NEW s, Fit(s), NEW order, IsOrder(s, order), NEW x \in Request
    PROVE  SweptUpTo(Unswept(s), s, order, x, 0)
<1>1. s.buffer \in [1..s.capacity -> Cell] /\ \A i \in 1..s.length : s.buffer[i] \in Chars
  BY FitFacts
<1>2. Hits(s, order, x.old, 0) = {} /\ x.n \in Nat
  BY DEF Hits, Request
<1>3. Cardinality(Hits(s, order, x.old, 0)) = 0
  BY <1>2, FS_EmptySet
<1>4. Unswept(s).buffer = s.buffer /\ Unswept(s).count = 0
  BY DEF Unswept
<1>5. QED
  BY <1>1, <1>2, <1>3, <1>4 DEF SweptUpTo

LEMMA SweptNext ==
    ASSUME NEW s, Fit(s), NEW order, IsOrder(s, order), NEW x \in Request,
           NEW k \in 0..(s.length - 1), NEW acc, SweptUpTo(acc, s, order, x, k)
    PROVE  SweptUpTo(Replaced(acc, order[k + 1], x.n, x.old, x.new), s, order, x, k + 1)
<1> DEFINE i == order[k + 1]
           b == acc.buffer
           r == Replaced(acc, i, x.n, x.old, x.new)
           h == Cardinality(Hits(s, order, x.old, k))
           g == Cardinality(Hits(s, order, x.old, k + 1))
           F(j) == Swept(s, order, x, j)
<1>1. /\ s.length \in Nat /\ s.length <= s.capacity /\ s.capacity \in Nat
      /\ k + 1 \in 1..s.length /\ i \in 1..s.length /\ i \in 1..s.capacity
  <2>1. s.length \in Nat /\ s.length <= s.capacity /\ s.capacity \in Nat
    BY FitFacts
  <2>2. k + 1 \in 1..s.length /\ i \in 1..s.length
    BY <2>1 DEF IsOrder
  <2>3. QED
    BY <2>1, <2>2
<1>2. x.n \in Nat /\ x.old \in Chars /\ x.new \in Chars /\ x.new \in Cell
  BY DEF Request, Cell
<1>3. h \in Nat /\ g = IF s.buffer[i] = x.old THEN h + 1 ELSE h
  BY HitsCount
<1>4. /\ b \in [1..s.capacity -> Cell] /\ \A m \in 1..s.length : b[m] \in Chars
      /\ acc.count = IF h <= x.n THEN h ELSE x.n
      /\ \A j \in 1..k : b[order[j]] = F(j)
      /\ \A j \in (k + 1)..s.length : b[order[j]] = s.buffer[order[j]]
  BY DEF SweptUpTo
<1>5. b[i] = s.buffer[i]
  BY <1>1, <1>4
<1>6. \A j \in 1..s.length : j # k + 1 => order[j] # i /\ order[j] \in 1..s.length
  BY <1>1 DEF IsOrder
<1>7. F(k + 1) = IF s.buffer[i] = x.old /\ g <= x.n THEN x.new ELSE s.buffer[i]
  BY DEF Swept
<1> HIDE DEF F, g, h
<1>8. CASE acc.count < x.n /\ b[i] = x.old
  <2> DEFINE c == [b EXCEPT ![i] = x.new]
  <2>1. r.buffer = c /\ r.count = acc.count + 1
    BY <1>8 DEF Replaced
  <2>2. acc.count = h /\ g = h + 1 /\ g <= x.n /\ F(k + 1) = x.new
    BY <1>2, <1>3, <1>4, <1>5, <1>7, <1>8
  <2>3. c \in [1..s.capacity -> Cell] /\ c[i] = x.new
        /\ \A m \in 1..s.length : m # i => c[m] = b[m]
    BY <1>1, <1>2, <1>4
  <2> HIDE DEF c, r
  <2>4. \A m \in 1..s.length : r.buffer[m] \in Chars
    BY <1>2, <1>4, <2>1, <2>3
  <2>5. \A j \in 1..(k + 1) : r.buffer[order[j]] = F(j)
    <3> SUFFICES ASSUME NEW j \in 1..(k + 1) PROVE r.buffer[order[j]] = F(j)
      OBVIOUS
    <3>1. CASE j = k + 1
      BY <2>1, <2>2, <2>3, <3>1
    <3>2. CASE j # k + 1
      <4>1. j \in 1..k /\ j \in 1..s.length
        BY <1>1, <3>2
      <4>2. order[j] # i /\ order[j] \in 1..s.length
        BY <1>6, <3>2, <4>1
      <4>3. QED
        BY <1>4, <2>1, <2>3, <4>1, <4>2
    <3>3. QED
      BY <3>1, <3>2
  <2>6. \A j \in ((k + 1) + 1)..s.length : r.buffer[order[j]] = s.buffer[order[j]]
    <3> SUFFICES ASSUME NEW j \in ((k + 1) + 1)..s.length
                 PROVE  r.buffer[order[j]] = s.buffer[order[j]]
      OBVIOUS
    <3>1. j # k + 1 /\ j \in (k + 1)..s.length /\ j \in 1..s.length
      BY <1>1
    <3>2. order[j] # i /\ order[j] \in 1..s.length
      BY <1>6, <3>1
    <3>3. QED
      BY <1>4, <2>1, <2>3, <3>1, <3>2
  <2>7. r.count = IF g <= x.n THEN g ELSE x.n
    BY <2>1, <2>2
  <2>8. SweptUpTo(r, s, order, x, k + 1)
    BY <2>1, <2>3, <2>4, <2>5, <2>6, <2>7 DEF SweptUpTo, F, g
  <2>9. QED
    BY <2>8 DEF r
<1>9. CASE ~ (acc.count < x.n /\ b[i] = x.old)
  <2>1. r = acc
    BY <1>9 DEF Replaced
  <2>2. F(k + 1) = s.buffer[i] /\ acc.count = IF g <= x.n THEN g ELSE x.n
    <3>1. CASE s.buffer[i] = x.old
      BY <1>2, <1>3, <1>4, <1>5, <1>7, <1>9, <3>1
    <3>2. CASE s.buffer[i] # x.old
      BY <1>3, <1>4, <1>7, <3>2
    <3>3. QED
      BY <3>1, <3>2
  <2>3. \A j \in 1..(k + 1) : b[order[j]] = F(j)
    <3> SUFFICES ASSUME NEW j \in 1..(k + 1) PROVE b[order[j]] = F(j)
      OBVIOUS
    <3>1. j = k + 1 \/ j \in 1..k
      BY <1>1
    <3>2. QED
      BY <1>4, <1>5, <2>2, <3>1
  <2>4. \A j \in ((k + 1) + 1)..s.length : b[order[j]] = s.buffer[order[j]]
    <3> SUFFICES ASSUME NEW j \in ((k + 1) + 1)..s.length
                 PROVE  b[order[j]] = s.buffer[order[j]]
      OBVIOUS
    <3>1. j \in (k + 1)..s.length
      BY <1>1
    <3>2. QED
      BY <1>4, <3>1
  <2> HIDE DEF r
  <2>5. SweptUpTo(r, s, order, x, k + 1)
    BY <1>4, <2>1, <2>2, <2>3, <2>4 DEF SweptUpTo, F, g
  <2>6. QED
    BY <2>5 DEF r
<1>10. QED
  BY <1>8, <1>9

LEMMA SweepIs ==
    ASSUME NEW s, Fit(s), NEW order, IsOrder(s, order), Len(order) = s.length, NEW x \in Request
    PROVE  LET b == Sweep(s, order, x.n, x.old, x.new)
           IN  /\ b \in Seq(Cell) /\ Len(b) = s.capacity
               /\ \A i \in 1..s.length : b[i] \in Chars
               /\ \A j \in 1..s.length : b[order[j]] = Swept(s, order, x, j)
<1> DEFINE n == s.length
           g == CHOOSE g : IsSweep(g, s, order, x, n)
           b == Sweep(s, order, x.n, x.old, x.new)
           S == {k \in 0..n : SweptUpTo(g[k], s, order, x, k)}
<1>1. n \in Nat /\ s.capacity \in Nat
  BY FitFacts
<1>2. b = g[n].buffer
  BY DEF Sweep, IsSweep, Unswept
<1>3. IsSweep(g, s, order, x, n)
  BY <1>1, SweepsExist
<1> HIDE DEF g, b
<1>4. 0 \in S
  <2>1. g[0] = Unswept(s)
    BY <1>1, <1>3 DEF IsSweep
  <2>2. QED
    BY <1>1, <2>1, SweptFirst
<1>5. ASSUME NEW k \in 0..(n - 1), k \in S PROVE k + 1 \in S
  <2>1. k + 1 \in 0..n /\ k + 1 # 0 /\ (k + 1) - 1 = k
    BY <1>1
  <2>2. g[k + 1] = Replaced(g[k], order[k + 1], x.n, x.old, x.new)
    BY <1>3, <2>1 DEF IsSweep
  <2>3. SweptUpTo(g[k + 1], s, order, x, k + 1)
    BY <1>5, <2>2, SweptNext
  <2>4. QED
    BY <2>1, <2>3
<1> HIDE DEF S
<1>6. 0..n \subseteq S
  BY <1>1, <1>4, <1>5, UpTo
<1>7. SweptUpTo(g[n], s, order, x, n)
  BY <1>1, <1>6 DEF S
<1>8. /\ b \in [1..s.capacity -> Cell]
      /\ \A i \in 1..n : b[i] \in Chars
      /\ \A j \in 1..n : b[order[j]] = Swept(s, order, x, j)
  BY <1>2, <1>7 DEF SweptUpTo
<1>9. QED
  BY <1>1, <1>8, FunctionIsSeq DEF b

-----------------------------------------------------------------------------
(* Reversal: the loop that swaps the cells of the text from both ends.     *)
IsSwaps(g, s, k) ==
    g = [j \in 0..k |-> IF j = 0 THEN s.buffer
                        ELSE Swapped(g[j - 1], j, s.length + 1 - j)]

LEMMA SwapsExist ==
    ASSUME NEW s, NEW n \in Nat
    PROVE  \E g : IsSwaps(g, s, n)
<1> DEFINE S == {k \in 0..n : \E g : IsSwaps(g, s, k)}
<1>1. 0 \in S
  <2>1. IsSwaps([k \in 0..0 |-> s.buffer], s, 0)
    BY DEF IsSwaps
  <2>2. QED
    BY <2>1
<1>2. ASSUME NEW k \in 0..(n - 1), k \in S PROVE k + 1 \in S
  <2>1. PICK g : IsSwaps(g, s, k)
    BY <1>2
  <2> DEFINE h == [i \in 0..(k + 1) |-> IF i <= k THEN g[i] ELSE Swapped(g[k], k + 1, s.length + 1 - (k + 1))]
  <2>2. ASSUME NEW i \in 0..(k + 1)
        PROVE  h[i] = IF i = 0 THEN s.buffer ELSE Swapped(h[i - 1], i, s.length + 1 - i)
    <3>1. CASE i <= k
      <4>1. i \in 0..k /\ (i # 0 => i - 1 \in 0..k /\ i - 1 \in 0..(k + 1) /\ i - 1 <= k)
        BY <3>1
      <4>2. g[i] = IF i = 0 THEN s.buffer ELSE Swapped(g[i - 1], i, s.length + 1 - i)
        BY <2>1, <4>1 DEF IsSwaps
      <4>3. h[i] = g[i] /\ (i # 0 => h[i - 1] = g[i - 1])
        BY <3>1, <4>1
      <4> HIDE DEF h
      <4>4. QED
        BY <4>2, <4>3
    <3>2. CASE i = k + 1
      <4>1. h[k + 1] = Swapped(g[k], k + 1, s.length + 1 - (k + 1)) /\ h[k] = g[k]
        BY <1>2
      <4>2. (k + 1) - 1 = k /\ k + 1 # 0
        BY <1>2
      <4> HIDE DEF h
      <4>3. QED
        BY <3>2, <4>1, <4>2
    <3>3. QED
      BY <1>2, <3>1, <3>2
  <2>3. h = [i \in 0..(k + 1) |-> h[i]]
    OBVIOUS
  <2> HIDE DEF h
  <2>4. h = [i \in 0..(k + 1) |-> IF i = 0 THEN s.buffer ELSE Swapped(h[i - 1], i, s.length + 1 - i)]
    BY <2>2, <2>3
  <2>5. IsSwaps(h, s, k + 1)
    BY <2>4 DEF IsSwaps
  <2>6. k + 1 \in 0..n
    OBVIOUS
  <2>7. QED
    BY <2>5, <2>6
<1> HIDE DEF S
<1>3. 0..n \subseteq S
  BY <1>1, <1>2, UpTo
<1>4. QED
  BY <1>3 DEF S

(* What the first k swaps have made of the memory.                         *)
SwappedUpTo(b, s, k) ==
    /\ b \in [1..s.capacity -> Cell]
    /\ \A i \in 1..s.length :
            b[i] = IF i <= k \/ s.length + 1 - k <= i THEN s.buffer[s.length + 1 - i]
                   ELSE s.buffer[i]

LEMMA SwappedNext ==
    ASSUME NEW s, Fit(s), NEW k \in Nat, 2 * (k + 1) <= s.length, NEW b, SwappedUpTo(b, s, k)
    PROVE  SwappedUpTo(Swapped(b, k + 1, s.length + 1 - (k + 1)), s, k + 1)
<1> DEFINE n == s.length
           i == k + 1
           j == n - k
           c == Swapped(b, i, j)
<1>1. /\ n \in Nat /\ s.capacity \in Nat /\ n <= s.capacity
      /\ i \in 1..n /\ j \in 1..n /\ i < j /\ n + 1 - i = j /\ n + 1 - j = i
      /\ i \in 1..s.capacity /\ j \in 1..s.capacity
  <2>1. n \in Nat /\ s.capacity \in Nat /\ n <= s.capacity
    BY FitFacts
  <2> HIDE DEF n
  <2>2. QED
    BY <2>1 DEF n
<1>2. b \in [1..s.capacity -> Cell]
  BY DEF SwappedUpTo
<1>3. /\ c \in [1..s.capacity -> Cell]
      /\ \A m \in 1..s.capacity :
            c[m] = IF m = i THEN b[j] ELSE IF m = j THEN b[i] ELSE b[m]
  BY <1>1, <1>2 DEF Swapped
<1> HIDE DEF c
<1>4. ASSUME NEW m \in 1..n
      PROVE  c[m] = IF m <= k + 1 \/ n + 1 - (k + 1) <= m THEN s.buffer[n + 1 - m] ELSE s.buffer[m]
  <2>1. m \in 1..s.capacity /\ m \in Nat
    BY <1>1
  <2>2. b[i] = s.buffer[i] /\ b[j] = s.buffer[j]
    <3>1. ~ (i <= k \/ s.length + 1 - k <= i) /\ ~ (j <= k \/ s.length + 1 - k <= j)
      BY <1>1
    <3>2. \A l \in 1..s.length :
            b[l] = IF l <= k \/ s.length + 1 - k <= l THEN s.buffer[s.length + 1 - l]
                   ELSE s.buffer[l]
      BY DEF SwappedUpTo
    <3> HIDE DEF i, j
    <3>3. QED
      BY <1>1, <3>1, <3>2
  <2>3. b[m] = IF m <= k \/ n + 1 - k <= m THEN s.buffer[n + 1 - m] ELSE s.buffer[m]
    BY DEF SwappedUpTo
  <2>4. CASE m = i
    BY <1>1, <1>3, <2>1, <2>2, <2>4
  <2>5. CASE m = j
    BY <1>1, <1>3, <2>1, <2>2, <2>5
  <2>6. CASE m # i /\ m # j
    <3>1. (m <= k <=> m <= k + 1) /\ (n + 1 - k <= m <=> n + 1 - (k + 1) <= m)
      BY <1>1, <2>1, <2>6
    <3>2. c[m] = b[m]
      BY <1>3, <2>1, <2>6
    <3>3. QED
      BY <2>3, <3>1, <3>2
  <2>7. QED
    BY <2>4, <2>5, <2>6
<1>5. SwappedUpTo(c, s, k + 1)
  BY <1>3, <1>4 DEF SwappedUpTo
<1>6. n + 1 - (k + 1) = j
  BY <1>1
<1>7. QED
  BY <1>5, <1>6 DEF c

LEMMA SwappedInwardsIs ==
    ASSUME NEW s, Fit(s)
    PROVE  LET b == SwappedInwards(s)
           IN  /\ b \in Seq(Cell) /\ Len(b) = s.capacity
               /\ \A i \in 1..s.length : b[i] = s.buffer[s.length + 1 - i]
<1> DEFINE n == s.length \div 2
           g == CHOOSE g : IsSwaps(g, s, n)
           b == SwappedInwards(s)
           S == {k \in 0..n : SwappedUpTo(g[k], s, k)}
<1>1. /\ s.length \in Nat /\ s.capacity \in Nat /\ s.buffer \in [1..s.capacity -> Cell]
      /\ n \in Nat /\ 2 * n <= s.length /\ s.length <= 2 * n + 1
  <2>1. s.length \in Nat /\ s.capacity \in Nat /\ s.buffer \in [1..s.capacity -> Cell]
    BY FitFacts
  <2>2. QED
    BY <2>1
<1>2. b = g[n]
  BY DEF SwappedInwards, IsSwaps
<1>3. IsSwaps(g, s, n)
  BY <1>1, SwapsExist
<1> HIDE DEF g, b, n
<1>4. 0 \in S
  <2>1. g[0] = s.buffer
    BY <1>1, <1>3 DEF IsSwaps
  <2>2. \A i \in 1..s.length : ~ (i <= 0 \/ s.length + 1 - 0 <= i)
    BY <1>1
  <2>3. SwappedUpTo(g[0], s, 0)
    BY <1>1, <2>1, <2>2 DEF SwappedUpTo
  <2>4. QED
    BY <1>1, <2>3
<1>5. ASSUME NEW k \in 0..(n - 1), k \in S PROVE k + 1 \in S
  <2>1. k + 1 \in 0..n /\ k + 1 # 0 /\ (k + 1) - 1 = k /\ k \in Nat /\ 2 * (k + 1) <= s.length
    BY <1>1
  <2>2. g[k + 1] = Swapped(g[k], k + 1, s.length + 1 - (k + 1))
    BY <1>3, <2>1 DEF IsSwaps
  <2>3. SwappedUpTo(g[k + 1], s, k + 1)
    BY <1>5, <2>1, <2>2, SwappedNext
  <2>4. QED
    BY <2>1, <2>3
<1> HIDE DEF S
<1>6. 0..n \subseteq S
  BY <1>1, <1>4, <1>5, UpTo
<1>7. SwappedUpTo(b, s, n)
  BY <1>1, <1>2, <1>6 DEF S
<1>8. ASSUME NEW i \in 1..s.length PROVE b[i] = s.buffer[s.length + 1 - i]
  <2>1. b[i] = IF i <= n \/ s.length + 1 - n <= i THEN s.buffer[s.length + 1 - i] ELSE s.buffer[i]
    BY <1>7 DEF SwappedUpTo
  <2>2. ~ (i <= n \/ s.length + 1 - n <= i) => s.length + 1 - i = i
    BY <1>1
  <2>3. QED
    BY <2>1, <2>2
<1>9. b \in Seq(Cell) /\ Len(b) = s.capacity
  BY <1>1, <1>7, FunctionIsSeq DEF SwappedUpTo
<1>10. QED
  BY <1>8, <1>9 DEF b

-----------------------------------------------------------------------------
(* What the calls do, to the memory and to the text.                       *)
Faults == {"none", "null", "pushstr", "stale"}

LEMMA FaultsAre ==
    ASSUME NEW f \in Faults
    PROVE  f \notin GrowthFaults
BY DEF Faults, GrowthFaults

LEMMA StringFacts ==
    ASSUME StringInv
    PROVE  /\ Fit(string) /\ fault \in Faults
           /\ string.capacity \in Nat /\ string.length \in Nat
           /\ Len(string.buffer) = string.capacity
           /\ string.length <= Limit /\ Limit \in Nat /\ string.capacity <= 2 * Limit
BY FitFacts, Sizes DEF StringInv, Faults

LEMMA PushedStep ==
    ASSUME HalfTheRange, StringInv, NEW cs \in Seq(Chars), Room(Len(cs)),
           string' = Pushed(string, cs), fault' \in {"none", "pushstr"}
    PROVE  /\ StringInv' /\ Memory!Next
           /\ TextOf(string)' = TextOf(string) \o cs
<1> DEFINE n == Len(cs)
           c == Memory!NewCapacity(string.capacity, string.length, n)
<1>1. /\ fault = "none" /\ string.length + n <= Limit /\ n \in Nat /\ fault' \in Faults
      /\ n \in 0..Limit
  BY LenProperties, StringFacts DEF Room, Faults
<1>2. /\ Fit(string') /\ string'.length = string.length + n
      /\ string'.capacity = Ensured(string, n).capacity
      /\ TextOf(string') = TextOf(string) \o cs
  BY <1>1, StringFacts, PushedFits
<1>3. /\ string'.capacity = c /\ string.length + n <= c
      /\ ~ Memory!MustGrow(string.capacity, string.length, n) => c = string.capacity
      /\ Memory!PostHolds(c, string.length, n)
  BY <1>1, <1>2, StringFacts, EnsuredFits
<1>4. StringInv'
  BY <1>1, <1>2 DEF StringInv, Faults
<1>5. /\ c \in Nat /\ c <= 2 * Limit /\ Len(string'.buffer) = c
      /\ string.length + n \in Nat /\ string.length + n <= 2 * Limit
  BY <1>1, <1>2, <1>3, FitFacts, StringFacts
<1> HIDE DEF c, n
<1>6. Memory!Wrap(c * 1) = c /\ Memory!Wrap(string.length + n) = string.length + n
  BY <1>5, WrapIsIdentity
<1>7. Memory!Ensure(n)
  BY <1>3, <1>5, <1>6, StringFacts DEF Memory!Ensure, c
<1>8. ~ ((string.length + n) * 1 > Len(string'.buffer))
  BY <1>3, <1>5
<1>9. fault \notin GrowthFaults /\ fault' \notin GrowthFaults
  BY <1>1, StringFacts, FaultsAre
<1>10. Memory!Add(n)
  BY <1>1, <1>2, <1>3, <1>6, <1>7, <1>8, <1>9 DEF Memory!Add
<1>11. QED
  BY <1>1, <1>2, <1>4, <1>10 DEF Memory!Next, n

LEMMA EnsuredStep ==
    ASSUME HalfTheRange, StringInv, NEW n \in Nat, Room(n),
           string' = Ensured(string, n), fault' \in {"none", "stale"}
    PROVE  /\ StringInv' /\ Memory!Next
           /\ TextOf(string)' = TextOf(string)
<1> DEFINE c == Memory!NewCapacity(string.capacity, string.length, n)
<1>1. /\ fault = "none" /\ string.length + n <= Limit /\ fault' \in Faults /\ n \in 0..Limit
  BY StringFacts DEF Room, Faults
<1>2. /\ Fit(string') /\ string'.length = string.length /\ string'.capacity = c
      /\ \A i \in 1..string.length : string'.buffer[i] = string.buffer[i]
      /\ ~ Memory!MustGrow(string.capacity, string.length, n) => c = string.capacity
      /\ Memory!PostHolds(c, string.length, n)
  BY <1>1, StringFacts, EnsuredFits
<1>3. StringInv'
  BY <1>1, <1>2 DEF StringInv, Faults
<1>4. c \in Nat /\ c <= 2 * Limit /\ Len(string'.buffer) = c
  BY <1>2, FitFacts
<1>5. TextOf(string') = TextOf(string)
  <2>1. /\ TextOf(string) \in Seq(Chars) /\ Len(TextOf(string)) = string.length
        /\ \A i \in 1..string.length : TextOf(string)[i] = string.buffer[i]
    BY StringFacts, TextIs
  <2>2. QED
    BY <1>2, <2>1, TextEquals
<1> HIDE DEF c
<1>6. Memory!Wrap(c * 1) = c
  BY <1>4, WrapIsIdentity
<1>7. Memory!Ensure(n)
  BY <1>2, <1>4, <1>6, StringFacts DEF Memory!Ensure, c
<1>8. fault \notin GrowthFaults /\ fault' \notin GrowthFaults
  BY <1>1, StringFacts, FaultsAre
<1>9. Memory!Reserve(n)
  BY <1>1, <1>2, <1>7, <1>8 DEF Memory!Reserve
<1>10. QED
  BY <1>1, <1>3, <1>5, <1>9 DEF Memory!Next

(* A string that is created, with n characters already or with none.       *)
LEMMA CreatedStep ==
    ASSUME HalfTheRange, StringInv, fault = "none", fault' = "none", NEW c \in 0..Limit,
           string' = NewString(c)
    PROVE  StringInv' /\ Memory!Next /\ TextOf(string)' = <<>>
<1>1. c \in Nat /\ c <= 2 * Limit
  BY Sizes
<1>2. /\ Fit(string') /\ TextOf(string') = <<>> /\ string'.capacity = c /\ string'.length = 0
  BY <1>1, NewStringFits
<1>3. Len(string'.buffer) = c
  BY <1>2, FitFacts
<1>4. Memory!Wrap(c * 1) = c
  BY <1>1, WrapIsIdentity
<1>5. Memory!Renew(c)
  BY <1>1, <1>2, <1>3, <1>4, StringFacts, FaultsAre DEF Memory!Renew, GrowthFaults
<1>6. QED
  BY <1>2, <1>5 DEF StringInv, Memory!Next

LEMMA OverwrittenStep ==
    ASSUME StringInv, NEW b \in Seq(Cell), Len(b) = string.capacity,
           \A i \in 1..string.length : b[i] \in Chars,
           string' = Overwritten(b), fault' \in Faults
    PROVE  /\ StringInv' /\ UNCHANGED Memory!vars
           /\ Fit(string') /\ string'.length = string.length /\ string'.buffer = b
<1>1. /\ string.capacity \in Nat /\ string.length \in Nat /\ string.length <= string.capacity
      /\ string.length <= Limit /\ string.capacity <= 2 * Limit
  BY FitFacts DEF StringInv
<1>2. /\ string' = [capacity |-> string.capacity, length |-> string.length, buffer |-> b]
  BY DEF Overwritten
<1>3. Fit(string')
  BY <1>1, <1>2, FitFrom
<1>4. /\ string'.capacity = string.capacity /\ string'.length = string.length
      /\ string'.buffer = b
  BY <1>2
<1>5. UNCHANGED Memory!vars
  BY <1>4, StringFacts, FaultsAre DEF Memory!vars
<1>6. QED
  BY <1>3, <1>4, <1>5 DEF StringInv, Faults

(* The text is gone, the memory stays.                                     *)
LEMMA EmptiedStep ==
    ASSUME HalfTheRange, StringInv, fault = "none", fault' = "none",
           NEW b \in Seq(Cell), Len(b) = string.capacity,
           string' = [capacity |-> string.capacity, length |-> 0, buffer |-> b]
    PROVE  StringInv' /\ [Memory!Next]_(Memory!vars) /\ TextOf(string)' = <<>>
<1>1. /\ string.capacity \in Nat /\ string.length \in Nat /\ string.length <= Limit
      /\ Limit \in Nat /\ string.capacity <= 2 * Limit
  BY StringFacts
<1>2. Fit(string')
  BY <1>1, FitFrom
<1>3. TextOf(string') = <<>>
  BY <1>2, TextIs, EmptySeq
<1>4. /\ string'.capacity = string.capacity /\ string'.length = 0
      /\ Len(string'.buffer) = Len(string.buffer)
  BY StringFacts
<1>5. [Memory!Next]_(Memory!vars)
  <2>1. CASE string.length = 0
    BY <1>4, <2>1 DEF Memory!vars
  <2>2. CASE string.length # 0
    <3>1. string.length \in 1..Limit /\ string.length <= string.length
          /\ string.length - string.length = 0
      BY <1>1, <2>2
    <3>2. Memory!Shrink(string.length)
      BY <1>4, <3>1 DEF Memory!Shrink, GrowthFaults
    <3>3. QED
      BY <3>1, <3>2 DEF Memory!Next
  <2>3. QED
    BY <2>1, <2>2
<1>6. QED
  BY <1>2, <1>3, <1>5 DEF StringInv

-----------------------------------------------------------------------------
(* Repetition in the words of Text: the flattening of k copies.            *)
IsFlat(f, seqs) ==
    f = [i \in 1..Len(seqs) |-> IF i = 1 THEN seqs[i] ELSE f[i - 1] \o seqs[i]]

LEMMA RepeatedIs ==
    ASSUME NEW cs \in Seq(Chars), NEW k \in Nat, k # 0, NEW T, T[0] = <<>>,
           \A j \in 1..k : T[j] = T[j - 1] \o cs
    PROVE  Promise!Repeated(cs, k) = T[k]
<1> DEFINE seqs == [i \in 1..k |-> cs]
           f == CHOOSE f : IsFlat(f, seqs)
           S == {j \in 0..k : j # 0 => f[j] = T[j]}
<1>1. Len(seqs) = k /\ \A i \in 1..k : seqs[i] = cs
  <2>1. seqs \in [1..k -> Seq(Chars)] /\ \A i \in 1..k : seqs[i] = cs
    OBVIOUS
  <2> HIDE DEF seqs
  <2>2. QED
    BY <2>1, FunctionIsSeq
<1>2. Promise!Repeated(cs, k) = f[k]
  <2>1. Promise!FlattenSeq(seqs) = f[Len(seqs)]
    <3>1. ~ (Len(seqs) = 0)
      BY <1>1
    <3> HIDE DEF seqs
    <3>2. QED
      BY <3>1 DEF Promise!FlattenSeq, IsFlat
  <2>2. QED
    BY <1>1, <2>1 DEF Promise!Repeated
<1> HIDE DEF seqs
<1>3. T[1] = cs
  <2>1. T[1] = T[0] \o cs
    BY 1 \in 1..k, 1 - 1 = 0
  <2>2. QED
    BY <2>1, ConcatEmptySeq
<1>4. IsFlat(f, seqs)
  <2> DEFINE h == [i \in 1..k |-> T[i]]
  <2>1. ASSUME NEW i \in 1..k
        PROVE  h[i] = IF i = 1 THEN seqs[i] ELSE h[i - 1] \o seqs[i]
    <3>1. h[i] = T[i] /\ (i # 1 => i - 1 \in 1..k /\ h[i - 1] = T[i - 1])
      OBVIOUS
    <3> HIDE DEF h
    <3>2. QED
      BY <1>1, <1>3, <3>1
  <2>2. h = [i \in 1..k |-> h[i]]
    OBVIOUS
  <2> HIDE DEF h
  <2>3. h = [i \in 1..k |-> IF i = 1 THEN seqs[i] ELSE h[i - 1] \o seqs[i]]
    BY <2>1, <2>2
  <2>4. IsFlat(h, seqs)
    BY <1>1, <2>3 DEF IsFlat
  <2>5. QED
    BY <2>4
<1> HIDE DEF f
<1>5. \A i \in 1..k : f[i] = IF i = 1 THEN cs ELSE f[i - 1] \o cs
  BY <1>1, <1>4 DEF IsFlat
<1>6. 0 \in S
  OBVIOUS
<1>7. ASSUME NEW j \in 0..(k - 1), j \in S PROVE j + 1 \in S
  <2>1. j + 1 \in 1..k /\ j + 1 \in 0..k /\ (j + 1) - 1 = j
    OBVIOUS
  <2>2. f[j + 1] = IF j + 1 = 1 THEN cs ELSE f[j] \o cs
    BY <1>5, <2>1
  <2>3. T[j + 1] = T[j] \o cs
    BY <2>1
  <2>4. f[j + 1] = T[j + 1]
    <3>1. CASE j = 0
      BY <1>3, <2>2, <3>1
    <3>2. CASE j # 0
      <4>1. f[j] = T[j] /\ j + 1 # 1
        BY <1>7, <3>2
      <4>2. QED
        BY <2>2, <2>3, <4>1
    <3>3. QED
      BY <3>1, <3>2
  <2>5. QED
    BY <2>1, <2>4
<1> HIDE DEF S
<1>8. 0..k \subseteq S
  BY <1>6, <1>7, UpTo
<1>9. QED
  BY <1>2, <1>8 DEF S

LEMMA RepeatedNothing ==
    ASSUME NEW cs \in Seq(Chars), NEW k \in Nat, Len(cs) * k = 0
    PROVE  Promise!Repeated(cs, k) = <<>>
<1>1. CASE k = 0
  <2> DEFINE seqs == [i \in 1..0 |-> cs]
  <2>1. seqs \in Seq(Seq(Chars)) /\ Len(seqs) = 0
    <3>1. seqs \in [1..0 -> Seq(Chars)]
      OBVIOUS
    <3> HIDE DEF seqs
    <3>2. QED
      BY <3>1, FunctionIsSeq
  <2> HIDE DEF seqs
  <2>2. Promise!FlattenSeq(seqs) = seqs /\ seqs = <<>>
    BY <2>1, EmptySeq DEF Promise!FlattenSeq
  <2>3. QED
    BY <1>1, <2>2 DEF Promise!Repeated, seqs
<1>2. CASE k # 0
  <2> DEFINE T == [j \in 0..k |-> <<>>]
  <2>1. Len(cs) = 0
    <3>1. Len(cs) \in Nat
      BY LenProperties
    <3>2. QED
      BY <1>2, <3>1
  <2>2. cs = <<>>
    BY <2>1, EmptySeq
  <2>3. T[0] = <<>> /\ \A j \in 1..k : T[j] = T[j - 1] \o cs /\ T[k] = <<>>
    <3>1. <<>> \o <<>> = <<>>
      BY ConcatEmptySeq
    <3>2. T[0] = <<>> /\ \A j \in 1..k : T[j] = <<>> /\ T[j - 1] = <<>> /\ T[k] = <<>>
      OBVIOUS
    <3> HIDE DEF T
    <3>3. QED
      BY <2>2, <3>1, <3>2
  <2>4. T[k] = <<>>
    OBVIOUS
  <2> HIDE DEF T
  <2>5. QED
    BY <1>2, <2>3, <2>4, RepeatedIs
<1>3. QED
  BY <1>1, <1>2

LEMMA RepeatStep ==
    ASSUME HalfTheRange, StringInv, NEW cs \in Chunks, NEW k \in 0..Limit, RepeatChars(cs, k)
    PROVE  StringInv' /\ Memory!Next /\ TextOf(string)' = Promise!Repeated(cs, k)
<1> DEFINE n == Len(cs) * k
<1>1. /\ cs \in Seq(Chars) /\ Len(cs) \in Nat /\ k \in Nat /\ n \in Nat
      /\ fault = "none" /\ n <= Limit /\ Limit \in Nat
  BY ChunksAre, Sizes DEF RepeatChars
<1>2. Memory!Wrap(2 * n) = 2 * n
  BY <1>1, WrapIsIdentity
<1>3. /\ string' = IF n = 0 THEN NewString(0) ELSE PushedTimes(NewString(2 * n), cs, k)
      /\ fault' = IF string'.capacity = 2 * n THEN "none" ELSE "assert_create"
  BY <1>2 DEF RepeatChars
<1>4. CASE n = 0
  <2>1. string' = NewString(0) /\ fault' = "none" /\ 0 \in 0..Limit
    BY <1>1, <1>3, <1>4, NewStringFits
  <2>2. StringInv' /\ Memory!Next /\ TextOf(string)' = <<>>
    BY <1>1, <2>1, CreatedStep
  <2>3. Promise!Repeated(cs, k) = <<>>
    BY <1>1, <1>4, RepeatedNothing
  <2>4. QED
    BY <2>2, <2>3
<1>5. CASE n # 0
  <2>1. PICK g : /\ IsRun(g, NewString(2 * n), cs, k)
                 /\ PushedTimes(NewString(2 * n), cs, k) = g[k]
    BY <1>1, PushedTimesFits
  <2>2. \A j \in 0..k : /\ Fit(g[j]) /\ g[j].length = Len(cs) * j
                        /\ g[j].capacity = 2 * n
                        /\ j # 0 => TextOf(g[j]) = TextOf(g[j - 1]) \o cs
    <3>1. IsRun(g, NewString(2 * (Len(cs) * k)), cs, k) /\ Len(cs) * k <= Limit
      BY <1>1, <2>1
    <3> HIDE DEF n
    <3>2. cs \in Seq(Chars) /\ k \in Nat
      BY <1>1
    <3>3. \A j \in 0..k : /\ Fit(g[j]) /\ g[j].length = Len(cs) * j
                          /\ g[j].capacity = 2 * (Len(cs) * k)
                          /\ j # 0 => TextOf(g[j]) = TextOf(g[j - 1]) \o cs
      BY <3>1, <3>2, RepeatedFits
    <3>4. QED
      BY <3>3 DEF n
  <2>3. k # 0
    BY <1>1, <1>5
  <2>4. string' = g[k] /\ Fit(g[k]) /\ g[k].length = n /\ g[k].capacity = 2 * n
    BY <1>1, <1>3, <1>5, <2>1, <2>2
  <2>5. fault' = "none" /\ Len(string'.buffer) = 2 * n
    BY <1>3, <2>4, FitFacts
  <2>6. TextOf(g[k]) = Promise!Repeated(cs, k)
    <3> DEFINE T == [j \in 0..k |-> TextOf(g[j])]
    <3>1. T[0] = <<>>
      <4>1. g[0] = NewString(2 * n) /\ 2 * n \in Nat /\ 2 * n <= 2 * Limit
        BY <1>1, <2>1 DEF IsRun
      <4>2. TextOf(g[0]) = <<>> /\ 0 \in 0..k
        BY <1>1, <4>1, NewStringFits
      <4>3. QED
        BY <4>2
    <3>2. ASSUME NEW j \in 1..k PROVE T[j] = T[j - 1] \o cs
      <4>1. j \in 0..k /\ j - 1 \in 0..k /\ j # 0
        BY <1>1
      <4>2. TextOf(g[j]) = TextOf(g[j - 1]) \o cs
        BY <2>2, <4>1
      <4>3. QED
        BY <4>1, <4>2
    <3>3. T[k] = TextOf(g[k])
      BY <1>1
    <3> HIDE DEF T
    <3>4. Promise!Repeated(cs, k) = T[k]
      BY <1>1, <2>3, <3>1, <3>2, RepeatedIs
    <3>5. QED
      BY <3>3, <3>4
  <2>7. Memory!Preload(n)
    <3>1. Memory!Wrap(0 + n) = n /\ Memory!Wrap((2 * n) * 1) = 2 * n
      BY <1>1, WrapIsIdentity
    <3> HIDE DEF n
    <3>2. ~ Memory!MustGrow(2 * n, 0, n)
      BY <1>1, <3>1 DEF Memory!MustGrow
    <3>3. Memory!NewCapacity(2 * n, 0, n) = 2 * n
      BY <3>2 DEF Memory!NewCapacity
    <3>4. string'.capacity = 2 * n /\ string'.length = n
      BY <2>4
    <3>5. (IF fault \in GrowthFaults THEN fault ELSE "none") = "none"
          /\ (IF fault' \in GrowthFaults THEN fault' ELSE "none") = "none"
      BY <1>1, <2>5
    <3>6. QED
      BY <1>2, <2>5, <3>1, <3>3, <3>4, <3>5 DEF Memory!Preload
  <2>8. n \in 0..Limit
    BY <1>1
  <2>9. StringInv'
    BY <2>4, <2>5 DEF StringInv
  <2>10. QED
    BY <2>4, <2>6, <2>7, <2>8, <2>9 DEF Memory!Next
<1>6. QED
  BY <1>4, <1>5

-----------------------------------------------------------------------------
(* Replacement, mapping and reversal in the words of Text.                 *)
LEMMA RewrittenStep ==
    ASSUME StringInv, fault' \in Faults, NEW t \in [1..string.length -> Chars],
           NEW b \in Seq(Cell), Len(b) = string.capacity,
           \A i \in 1..string.length : b[i] = t[i],
           string' = Overwritten(b)
    PROVE  StringInv' /\ UNCHANGED Memory!vars /\ TextOf(string)' = t
<1>1. string.length \in Nat
  BY StringFacts
<1>2. \A i \in 1..string.length : b[i] \in Chars
  OBVIOUS
<1>3. /\ StringInv' /\ UNCHANGED Memory!vars
      /\ Fit(string') /\ string'.length = string.length /\ string'.buffer = b
  BY <1>2, OverwrittenStep
<1>4. t \in Seq(Chars) /\ Len(t) = string.length
  <2> DEFINE n == string.length
  <2>1. n \in Nat /\ t \in [1..n -> Chars]
    BY <1>1
  <2> HIDE DEF n
  <2>2. t \in Seq(Chars) /\ Len(t) = n
    BY <2>1, FunctionIsSeq
  <2>3. QED
    BY <2>2 DEF n
<1>5. TextOf(string') = t
  BY <1>3, <1>4, TextEquals
<1>6. QED
  BY <1>3, <1>5

LEMMA TheText ==
    ASSUME StringInv
    PROVE  /\ string.length \in Nat /\ string.buffer \in Seq(Cell)
           /\ Len(string.buffer) = string.capacity /\ DOMAIN string.buffer = 1..string.capacity
           /\ string.length <= string.capacity
           /\ TextOf(string) \in Seq(Chars) /\ Len(TextOf(string)) = string.length
           /\ DOMAIN TextOf(string) = 1..string.length
           /\ \A i \in 1..string.length : /\ TextOf(string)[i] = string.buffer[i]
                                          /\ string.buffer[i] \in Chars
           /\ \A i \in 1..string.capacity : string.buffer[i] \in Cell
BY StringFacts, FitFacts, TextIs

LEMMA SameCount ==
    ASSUME NEW S
    PROVE  Promise!Cardinality(S) = Cardinality(S)
BY DEF Cardinality, Promise!Cardinality

LEMMA ForwardsStep ==
    ASSUME StringInv, NEW n \in Nat, NEW old \in Chars, NEW new \in Chars, ReplaceN(n, old, new)
    PROVE  /\ StringInv' /\ UNCHANGED Memory!vars
           /\ TextOf(string)' = Promise!SubstitutedFirst(n, old, new)
<1> DEFINE x == [n |-> n, old |-> old, new |-> new]
           len == string.length
           order == Forwards(string)
           text == TextOf(string)
           b == Sweep(string, order, n, old, new)
           t == Promise!SubstitutedFirst(n, old, new)
<1>1. x \in Request /\ x.n = n /\ x.old = old /\ x.new = new
  BY DEF Request
<1>2. len \in Nat /\ Fit(string)
  BY TheText, StringFacts
<1>3. order = [i \in 1..len |-> i] /\ \A j \in 1..len : order[j] = j
  BY DEF Forwards
<1>4. Len(order) = len
  <2>1. order \in [1..len -> Nat]
    BY <1>3
  <2> HIDE DEF order
  <2>2. QED
    BY <1>2, <2>1, FunctionIsSeq
<1> HIDE DEF x, order
<1>5. IsOrder(string, order)
  BY <1>3 DEF IsOrder
<1>6. /\ b \in Seq(Cell) /\ Len(b) = string.capacity
      /\ \A j \in 1..len : b[order[j]] = Swept(string, order, x, j)
  BY <1>1, <1>2, <1>4, <1>5, SweepIs
<1>7. fault' \in Faults /\ string' = Overwritten(b)
  BY DEF ReplaceN, Faults, order
<1> HIDE DEF b
<1>8. DOMAIN text = 1..len /\ \A i \in 1..len : text[i] = string.buffer[i] /\ text[i] \in Chars
  BY TheText
<1>9. ASSUME NEW i \in 1..len
      PROVE  Hits(string, order, old, i) = Promise!Positions(old, 1, i)
  <2>1. \A k \in 1..len : (\E j \in 1..i : order[j] = k) <=> (1 <= k /\ k <= i)
    <3>1. \A j \in 1..i : j \in 1..len
      BY <1>2
    <3>2. QED
      BY <1>2, <1>3, <3>1
  <2>2. QED
    BY <1>8, <2>1 DEF Hits, Promise!Positions
<1>10. t = [i \in 1..len |-> IF text[i] = old /\ Cardinality(Promise!Positions(old, 1, i)) <= n
                             THEN new ELSE text[i]]
  BY <1>8, SameCount DEF Promise!SubstitutedFirst
<1>11. t \in [1..len -> Chars]
  BY <1>8, <1>10
<1>12. ASSUME NEW i \in 1..len PROVE b[i] = t[i]
  <2>1. t[i] = IF text[i] = old /\ Cardinality(Promise!Positions(old, 1, i)) <= n
               THEN new ELSE text[i]
    BY <1>10
  <2>2. b[i] = IF string.buffer[i] = old /\ Cardinality(Hits(string, order, old, i)) <= n
               THEN new ELSE string.buffer[i]
    BY <1>1, <1>3, <1>6 DEF Swept
  <2>3. QED
    BY <1>8, <1>9, <2>1, <2>2
<1> HIDE DEF t
<1>13. QED
  BY <1>6, <1>7, <1>11, <1>12, RewrittenStep DEF t

LEMMA BackwardsStep ==
    ASSUME StringInv, NEW n \in Nat, NEW old \in Chars, NEW new \in Chars,
           ReplaceLastN(n, old, new)
    PROVE  /\ StringInv' /\ UNCHANGED Memory!vars
           /\ TextOf(string)' = Promise!SubstitutedLast(n, old, new)
<1> DEFINE x == [n |-> n, old |-> old, new |-> new]
           len == string.length
           order == Backwards(string)
           text == TextOf(string)
           b == Sweep(string, order, n, old, new)
           t == Promise!SubstitutedLast(n, old, new)
<1>1. x \in Request /\ x.n = n /\ x.old = old /\ x.new = new
  BY DEF Request
<1>2. len \in Nat /\ Fit(string)
  BY TheText, StringFacts
<1>3. order = [i \in 1..len |-> len + 1 - i] /\ \A j \in 1..len : order[j] = len + 1 - j
  BY DEF Backwards
<1>4. Len(order) = len
  <2>1. order \in [1..len -> Int]
    BY <1>2, <1>3
  <2> HIDE DEF order
  <2>2. QED
    BY <1>2, <2>1, FunctionIsSeq
<1> HIDE DEF x, order, len
<1>5. IsOrder(string, order)
  <2>1. \A j \in 1..len : order[j] \in 1..len
    BY <1>2, <1>3
  <2>2. \A i, j \in 1..len : order[i] = order[j] => i = j
    BY <1>2, <1>3
  <2>3. QED
    BY <2>1, <2>2 DEF IsOrder, len
<1>6. /\ b \in Seq(Cell) /\ Len(b) = string.capacity
      /\ \A j \in 1..len : b[order[j]] = Swept(string, order, x, j)
  BY <1>1, <1>2, <1>4, <1>5, SweepIs DEF len
<1>7. fault' \in Faults /\ string' = Overwritten(b)
  BY DEF ReplaceLastN, Faults, order
<1> HIDE DEF b
<1>8. /\ DOMAIN text = 1..len /\ Len(text) = len
      /\ \A i \in 1..len : text[i] = string.buffer[i] /\ text[i] \in Chars
  BY TheText DEF len
<1>9. ASSUME NEW i \in 1..len
      PROVE  /\ len + 1 - i \in 1..len /\ order[len + 1 - i] = i
             /\ Hits(string, order, old, len + 1 - i) = Promise!Positions(old, i, Len(text))
  <2>1. len + 1 - i \in 1..len /\ order[len + 1 - i] = i
    BY <1>2, <1>3
  <2>2. ASSUME NEW k \in 1..len
        PROVE  (\E j \in 1..(len + 1 - i) : order[j] = k) <=> (i <= k /\ k <= len)
    <3>1. ASSUME NEW j \in 1..(len + 1 - i), order[j] = k PROVE i <= k
      <4>1. j \in 1..len /\ order[j] = len + 1 - j
        BY <1>2, <1>3, <2>1
      <4>2. QED
        BY <1>2, <3>1, <4>1
    <3>2. ASSUME i <= k PROVE \E j \in 1..(len + 1 - i) : order[j] = k
      <4>1. len + 1 - k \in 1..(len + 1 - i) /\ order[len + 1 - k] = k
        BY <1>2, <1>3, <3>2
      <4>2. QED
        BY <4>1
    <3>3. QED
      BY <1>2, <3>1, <3>2
  <2>3. Hits(string, order, old, len + 1 - i)
            = {k \in 1..len : string.buffer[k] = old /\ \E j \in 1..(len + 1 - i) : order[j] = k}
    BY DEF Hits, len
  <2>4. Promise!Positions(old, i, Len(text))
            = {k \in 1..len : i <= k /\ k <= len /\ text[k] = old}
    BY <1>8 DEF Promise!Positions
  <2>5. QED
    BY <1>8, <2>1, <2>2, <2>3, <2>4
<1>10. t = [i \in 1..len |-> IF text[i] = old /\ Cardinality(Promise!Positions(old, i, Len(text))) <= n
                             THEN new ELSE text[i]]
  BY <1>8, SameCount DEF Promise!SubstitutedLast
<1>11. t \in [1..len -> Chars]
  BY <1>8, <1>10
<1>12. ASSUME NEW i \in 1..len PROVE b[i] = t[i]
  <2> DEFINE j == len + 1 - i
  <2>1. t[i] = IF text[i] = old /\ Cardinality(Promise!Positions(old, i, Len(text))) <= n
               THEN new ELSE text[i]
    BY <1>10
  <2>2. j \in 1..len /\ order[j] = i /\ Hits(string, order, old, j) = Promise!Positions(old, i, Len(text))
    BY <1>9
  <2> HIDE DEF j
  <2>3. b[i] = IF string.buffer[i] = old /\ Cardinality(Hits(string, order, old, j)) <= n
               THEN new ELSE string.buffer[i]
    BY <1>1, <1>6, <2>2 DEF Swept
  <2>4. QED
    BY <1>8, <2>1, <2>2, <2>3
<1> HIDE DEF t
<1>13. QED
  BY <1>6, <1>7, <1>11, <1>12, RewrittenStep DEF t, len

LEMMA MapStep ==
    ASSUME StringInv, NEW f \in Mappings, Map(f)
    PROVE  /\ StringInv' /\ UNCHANGED Memory!vars
           /\ TextOf(string)' = [i \in DOMAIN TextOf(string) |-> f[TextOf(string)[i]]]
<1> DEFINE len == string.length
           text == TextOf(string)
           t == [i \in DOMAIN text |-> f[text[i]]]
           b == [i \in DOMAIN string.buffer |->
                    IF i <= len THEN f[string.buffer[i]] ELSE string.buffer[i]]
<1>1. f \in [Chars -> Chars]
  BY Sizes
<1>2. /\ len \in Nat /\ string.capacity \in Nat /\ len <= string.capacity
      /\ DOMAIN string.buffer = 1..string.capacity /\ DOMAIN text = 1..len
      /\ \A i \in 1..len : text[i] = string.buffer[i] /\ text[i] \in Chars
      /\ \A i \in 1..string.capacity : string.buffer[i] \in Cell
  BY TheText, StringFacts
<1>3. fault' \in Faults /\ string' = Overwritten(b)
  BY DEF Map, Faults
<1>4. t \in [1..len -> Chars]
  BY <1>1, <1>2
<1>5. \A i \in 1..len : b[i] = t[i]
  BY <1>2
<1>6. b \in [1..string.capacity -> Cell]
  <2>1. ASSUME NEW i \in 1..string.capacity
        PROVE  (IF i <= len THEN f[string.buffer[i]] ELSE string.buffer[i]) \in Cell
    <3>1. CASE i <= len
      <4>1. i \in 1..len
        BY <1>2, <3>1
      <4>2. f[string.buffer[i]] \in Chars
        BY <1>1, <1>2, <4>1
      <4>3. QED
        BY <3>1, <4>2 DEF Cell
    <3>2. CASE ~ (i <= len)
      BY <1>2, <3>2
    <3>3. QED
      BY <3>1, <3>2
  <2>2. QED
    BY <1>2, <2>1
<1> HIDE DEF b, t
<1>7. b \in Seq(Cell) /\ Len(b) = string.capacity
  BY <1>2, <1>6, FunctionIsSeq
<1>8. QED
  BY <1>3, <1>4, <1>5, <1>7, RewrittenStep DEF t

LEMMA ReverseStep ==
    ASSUME StringInv, ReverseString
    PROVE  /\ StringInv' /\ UNCHANGED Memory!vars
           /\ TextOf(string)' = Promise!Reverse(TextOf(string))
<1> DEFINE len == string.length
           text == TextOf(string)
           t == Promise!Reverse(text)
           b == SwappedInwards(string)
<1>1. /\ len \in Nat /\ Len(text) = len
      /\ \A i \in 1..len : text[i] = string.buffer[i] /\ text[i] \in Chars
  BY TheText
<1>2. /\ b \in Seq(Cell) /\ Len(b) = string.capacity
      /\ \A i \in 1..len : b[i] = string.buffer[len + 1 - i]
  BY StringFacts, SwappedInwardsIs
<1>3. fault' \in Faults /\ string' = Overwritten(b)
  BY DEF ReverseString, Faults
<1>4. t = [i \in 1..len |-> text[(len - i) + 1]]
  BY <1>1 DEF Promise!Reverse
<1> HIDE DEF b, t, len
<1>5. \A i \in 1..len : len + 1 - i \in 1..len /\ (len - i) + 1 = len + 1 - i
  BY <1>1
<1>6. \A i \in 1..len : b[i] = t[i] /\ t[i] \in Chars
  <2> SUFFICES ASSUME NEW i \in 1..len PROVE b[i] = t[i] /\ t[i] \in Chars
    OBVIOUS
  <2> DEFINE j == len + 1 - i
  <2>1. j \in 1..len /\ (len - i) + 1 = j
    BY <1>5
  <2>2. b[i] = string.buffer[j] /\ t[i] = text[(len - i) + 1]
    BY <1>2, <1>4
  <2> HIDE DEF j, text
  <2>3. text[j] = string.buffer[j] /\ text[j] \in Chars
    BY <1>1, <2>1 DEF text
  <2>4. QED
    BY <2>1, <2>2, <2>3
<1>7. t \in [1..len -> Chars]
  BY <1>4, <1>6
<1>8. QED
  BY <1>2, <1>3, <1>6, <1>7, RewrittenStep DEF t, len

-----------------------------------------------------------------------------
(* The invariant, and one step of the two promises for each call.          *)
Promised == StringInv' /\ [Memory!Next]_(Memory!vars) /\ [Promise!Next]_(Promise!vars)

LEMMA CallsAre ==
    ASSUME NEW f, NEW x, NEW y, NEW z
    PROVE  /\ <<f>> = <<f>> \o <<>>
           /\ <<f, x>> = <<f>> \o <<x>>
           /\ <<f, x, y>> = <<f>> \o <<x, y>>
           /\ <<f, x, y, z>> = <<f>> \o <<x, y, z>>
<1>1. <<f>> = <<f>> \o <<>>
  BY ConcatEmptySeq
<1>2. <<f, x>> = <<f>> \o <<x>>
  <2> DEFINE S == {f, x}
             a == <<f>>
             b == <<x>>
             p == <<f, x>>
  <2>1. a \in Seq(S) /\ b \in Seq(S) /\ Len(a) = 1 /\ Len(b) = 1 /\ a[1] = f /\ b[1] = x
    OBVIOUS
  <2>2. p \in Seq(S) /\ Len(p) = 2 /\ p[1] = f /\ p[2] = x
    OBVIOUS
  <2> HIDE DEF a, b, p, S
  <2>3. /\ a \o b \in Seq(S) /\ Len(a \o b) = 2
        /\ \A i \in 1..2 : (a \o b)[i] = IF i <= 1 THEN a[i] ELSE b[i - 1]
    BY <2>1, ConcatIs
  <2>4. \A i \in 1..2 : (a \o b)[i] = p[i]
    BY <2>1, <2>2, <2>3
  <2>5. a \o b = p
    BY <2>2, <2>3, <2>4, SeqEqual
  <2>6. QED
    BY <2>5 DEF a, b, p
<1>3. <<f, x, y>> = <<f>> \o <<x, y>>
  OBVIOUS
<1>4. <<f, x, y, z>> = <<f>> \o <<x, y, z>>
  OBVIOUS
<1>5. QED
  BY <1>1, <1>2, <1>3, <1>4

LEMMA SameChunks == Promise!Chunks = Chunks
BY DEF Chunks, Promise!Chunks, BoundedSeq, Promise!BoundedSeq, SeqOf, Promise!SeqOf

(* A push in general: cs is behind the text, whatever growth did.          *)
LEMMA PushPromise ==
    ASSUME HalfTheRange, StringInv, NEW cs \in Seq(Chars), Room(Len(cs))
    PROVE  /\ PushEnds(string, cs) = "none" /\ fault = "none"
           /\ Len(cs) = 0 => cs = <<>> /\ TextOf(string) \o cs = TextOf(string)
<1>1. string.length + Len(cs) <= Limit /\ fault = "none"
  BY DEF Room
<1>2. PushEnds(string, cs) = "none"
  BY <1>1, StringFacts, PushedFits
<1>3. ASSUME Len(cs) = 0 PROVE cs = <<>> /\ TextOf(string) \o cs = TextOf(string)
  <2>1. cs = <<>> /\ TextOf(string) \in Seq(Chars)
    BY <1>3, EmptySeq, TheText
  <2>2. QED
    BY <2>1, ConcatEmptySeq
<1>4. QED
  BY <1>1, <1>2, <1>3

LEMMA PushCharKeeps ==
    ASSUME HalfTheRange, StringInv, NEW c \in Chars, PushChar(c)
    PROVE  Promised
<1> DEFINE text == TextOf(string)
<1>1. <<c>> \in Seq(Chars) /\ Len(<<c>>) = 1
  OBVIOUS
<1>2. Room(Len(<<c>>)) /\ string' = Pushed(string, <<c>>) /\ fault' = PushEnds(string, <<c>>)
      /\ call' = <<"PushChar", c>>
  BY <1>1 DEF PushChar
<1>3. fault' = "none"
  BY <1>1, <1>2, PushPromise
<1>4. StringInv' /\ Memory!Next /\ text' = text \o <<c>>
  BY <1>1, <1>2, <1>3, PushedStep
<1>5. text \o <<c>> = Append(text, c)
  BY TheText, AppendIsConcat
<1>6. Promise!Does("PushChar", <<c>>, Append(text, c))
  BY <1>2, <1>4, <1>5, CallsAre DEF Promise!Does
<1>7. Promise!Next
  BY <1>6 DEF Promise!Next
<1>8. QED
  BY <1>4, <1>7 DEF Promised

LEMMA PushCharsKeeps ==
    ASSUME HalfTheRange, StringInv, NEW cs \in Chunks, PushChars(cs) \/ PushStr(cs) \/ PushString(cs)
    PROVE  Promised
<1> DEFINE text == TextOf(string)
<1>1. cs \in Seq(Chars) /\ Len(cs) \in Nat
  BY ChunksAre
<1>2. Room(Len(cs))
  BY DEF PushChars, PushStr, PushString
<1>3. /\ PushEnds(string, cs) = "none" /\ fault = "none"
      /\ Len(cs) = 0 => text \o cs = text
  BY <1>1, <1>2, PushPromise
<1>4. PICK name \in {"PushChars", "PushStr", "PushString"} :
        /\ call' = <<name, cs>>
        /\ \/ string' = Pushed(string, cs) /\ fault' \in {"none", "pushstr"}
           \/ string' = string /\ fault' = "none" /\ Len(cs) = 0
  <2>1. CASE PushChars(cs)
    BY <1>3, <2>1 DEF PushChars
  <2>2. CASE PushStr(cs)
    BY <1>3, <2>2 DEF PushStr
  <2>3. CASE PushString(cs)
    <3>1. CASE Len(cs) = 0
      BY <2>3, <3>1 DEF PushString
    <3>2. CASE Len(cs) # 0
      BY <1>3, <2>3, <3>2 DEF PushString
    <3>3. QED
      BY <3>1, <3>2
  <2>4. QED
    BY <2>1, <2>2, <2>3
<1>5. StringInv' /\ [Memory!Next]_(Memory!vars) /\ text' = text \o cs
  <2>1. CASE string' = Pushed(string, cs) /\ fault' \in {"none", "pushstr"}
    BY <1>1, <1>2, <2>1, PushedStep
  <2>2. CASE string' = string /\ fault' = "none" /\ Len(cs) = 0
    <3>1. StringInv' /\ UNCHANGED Memory!vars
      BY <1>3, <2>2 DEF StringInv, Memory!vars
    <3>2. text' = text
      BY <2>2
    <3>3. QED
      BY <1>3, <2>2, <3>1, <3>2
  <2>3. QED
    BY <1>4, <2>1, <2>2
<1>6. Promise!Does(name, <<cs>>, text \o cs)
  BY <1>4, <1>5, CallsAre DEF Promise!Does
<1>7. Promise!Next
  BY <1>6, SameChunks DEF Promise!Next
<1>8. QED
  BY <1>5, <1>7 DEF Promised

LEMMA PushSelfKeeps ==
    ASSUME HalfTheRange, StringInv, PushSelf
    PROVE  Promised
<1> DEFINE text == TextOf(string)
           n == string.length
<1>1. text \in Seq(Chars) /\ Len(text) = n /\ n \in Nat
  BY TheText
<1>2. Room(n) /\ Room(Len(text))
  BY <1>1 DEF PushSelf
<1>3. /\ PushEnds(string, text) = "none" /\ fault = "none"
      /\ n = 0 => text \o text = text
  BY <1>1, <1>2, PushPromise
<1>4. CASE /\ string' = IF n = 0 THEN string ELSE Pushed(string, text)
           /\ fault' = IF n = 0 THEN "none" ELSE PushEnds(string, text)
           /\ call' = <<"PushSelf">>
  <2>1. fault' = "none"
    BY <1>3, <1>4
  <2>2. StringInv' /\ [Memory!Next]_(Memory!vars) /\ text' = text \o text
    <3>1. CASE n = 0
      <4>1. string' = string
        BY <1>4, <3>1
      <4>2. StringInv' /\ UNCHANGED Memory!vars /\ text' = text
        BY <1>3, <2>1, <4>1 DEF StringInv, Memory!vars
      <4>3. QED
        BY <1>3, <3>1, <4>2
    <3>2. CASE n # 0
      <4>1. string' = Pushed(string, text) /\ fault' \in {"none", "pushstr"}
        BY <1>4, <2>1, <3>2
      <4>2. QED
        BY <1>1, <1>2, <4>1, PushedStep
    <3>3. QED
      BY <3>1, <3>2
  <2>3. Promise!Does("PushSelf", <<>>, text \o text)
    BY <1>4, <2>2, CallsAre DEF Promise!Does
  <2>4. QED
    BY <2>2, <2>3 DEF Promised, Promise!Next
<1>5. CASE string' = Ensured(string, n) /\ fault' = "stale" /\ UNCHANGED call
  <2>1. StringInv' /\ Memory!Next /\ text' = text
    BY <1>1, <1>2, <1>5, EnsuredStep
  <2>2. UNCHANGED Promise!vars
    BY <1>5, <2>1 DEF Promise!vars
  <2>3. QED
    BY <2>1, <2>2 DEF Promised
<1>6. QED
  BY <1>4, <1>5 DEF PushSelf

LEMMA EnsureCapacityKeeps ==
    ASSUME HalfTheRange, StringInv, NEW n \in 0..Limit, EnsureCapacity(n)
    PROVE  Promised
<1>1. n \in Nat /\ string.length + n <= Limit
  BY Sizes DEF EnsureCapacity, Room
<1>2. string' = Ensured(string, n) /\ Room(n) /\ call' = <<"EnsureCapacity", n>>
  BY DEF EnsureCapacity
<1>3. Memory!PostHolds(string'.capacity, string.length, n)
  BY <1>1, <1>2, StringFacts, EnsuredFits
<1>4. fault' = "none"
  BY <1>3 DEF EnsureCapacity
<1>5. StringInv' /\ Memory!Next /\ TextOf(string)' = TextOf(string)
  BY <1>1, <1>2, <1>4, EnsuredStep
<1>6. Promise!Does("EnsureCapacity", <<n>>, TextOf(string))
  BY <1>2, <1>5, CallsAre DEF Promise!Does
<1>7. QED
  BY <1>5, <1>6 DEF Promised, Promise!Next

LEMMA RecreateKeeps ==
    ASSUME HalfTheRange, StringInv, NEW c \in 0..Limit, Recreate(c)
    PROVE  Promised
<1>1. StringInv' /\ Memory!Next /\ TextOf(string)' = <<>>
  BY CreatedStep DEF Recreate
<1>2. Promise!Does("New", <<>>, <<>>)
  BY <1>1, CallsAre DEF Promise!Does, Recreate
<1>3. QED
  BY <1>1, <1>2 DEF Promised, Promise!Next

LEMMA RepeatCharsKeeps ==
    ASSUME HalfTheRange, StringInv, NEW cs \in Chunks, NEW k \in 0..Limit, RepeatChars(cs, k)
    PROVE  Promised
<1>1. StringInv' /\ Memory!Next /\ TextOf(string)' = Promise!Repeated(cs, k)
  BY RepeatStep
<1>2. call' = <<"Repeat", cs, k>>
  BY DEF RepeatChars
<1>3. Promise!Does("Repeat", <<cs, k>>, Promise!Repeated(cs, k))
  BY <1>1, <1>2, CallsAre DEF Promise!Does
<1>4. Promise!Next
  BY <1>3, SameChunks DEF Promise!Next
<1>5. QED
  BY <1>1, <1>4 DEF Promised

LEMMA ClearKeeps ==
    ASSUME HalfTheRange, StringInv, Clear
    PROVE  Promised
<1>1. /\ string = [capacity |-> string.capacity, length |-> string.length, buffer |-> string.buffer]
      /\ string.buffer \in Seq(Cell) /\ Len(string.buffer) = string.capacity
  BY StringFacts, FitFacts
<1>2. string' = [capacity |-> string.capacity, length |-> 0, buffer |-> string.buffer]
  BY <1>1 DEF Clear
<1>3. StringInv' /\ [Memory!Next]_(Memory!vars) /\ TextOf(string)' = <<>>
  BY <1>1, <1>2, EmptiedStep DEF Clear
<1>4. Promise!Does("Clear", <<>>, <<>>)
  BY <1>3, CallsAre DEF Promise!Does, Clear
<1>5. QED
  BY <1>3, <1>4 DEF Promised, Promise!Next

LEMMA EraseKeeps ==
    ASSUME HalfTheRange, StringInv, Erase
    PROVE  Promised
<1> DEFINE b == [i \in DOMAIN string.buffer |-> IF i <= string.length THEN Nul ELSE string.buffer[i]]
<1>1. /\ DOMAIN string.buffer = 1..string.capacity /\ string.capacity \in Nat
      /\ \A i \in 1..string.capacity : string.buffer[i] \in Cell
  BY TheText, StringFacts
<1>2. string' = [capacity |-> string.capacity, length |-> 0, buffer |-> b]
  BY DEF Erase
<1>3. b \in [1..string.capacity -> Cell]
  BY <1>1 DEF Cell
<1> HIDE DEF b
<1>4. b \in Seq(Cell) /\ Len(b) = string.capacity
  BY <1>1, <1>3, FunctionIsSeq
<1>5. StringInv' /\ [Memory!Next]_(Memory!vars) /\ TextOf(string)' = <<>>
  BY <1>2, <1>4, EmptiedStep DEF Erase
<1>6. Promise!Does("Erase", <<>>, <<>>)
  BY <1>5, CallsAre DEF Promise!Does, Erase
<1>7. QED
  BY <1>5, <1>6 DEF Promised, Promise!Next

LEMMA RewritingKeeps ==
    ASSUME StringInv,
           \/ ReverseString
           \/ \E f \in Mappings : Map(f)
           \/ \E n \in 0..Limit, old, new \in Chars : ReplaceN(n, old, new) \/ ReplaceLastN(n, old, new)
    PROVE  Promised
<1> DEFINE text == TextOf(string)
<1>1. CASE ReverseString
  <2>1. StringInv' /\ UNCHANGED Memory!vars /\ text' = Promise!Reverse(text)
    BY <1>1, ReverseStep
  <2>2. Promise!Does("Reverse", <<>>, Promise!Reverse(text))
    BY <1>1, <2>1, CallsAre DEF Promise!Does, ReverseString
  <2>3. QED
    BY <2>1, <2>2 DEF Promised, Promise!Next
<1>2. ASSUME NEW f \in Mappings, Map(f) PROVE Promised
  <2>1. StringInv' /\ UNCHANGED Memory!vars /\ text' = [i \in DOMAIN text |-> f[text[i]]]
    BY <1>2, MapStep
  <2>2. Promise!Does("Map", <<f>>, [i \in DOMAIN text |-> f[text[i]]])
    BY <1>2, <2>1, CallsAre DEF Promise!Does, Map
  <2>3. QED
    BY <2>1, <2>2 DEF Promised, Promise!Next
<1>3. ASSUME NEW n \in 0..Limit, NEW old \in Chars, NEW new \in Chars, ReplaceN(n, old, new)
      PROVE  Promised
  <2>1. n \in Nat
    BY Sizes
  <2>2. StringInv' /\ UNCHANGED Memory!vars /\ text' = Promise!SubstitutedFirst(n, old, new)
    BY <1>3, <2>1, ForwardsStep
  <2>3. Promise!Does("ReplaceN", <<n, old, new>>, Promise!SubstitutedFirst(n, old, new))
    BY <1>3, <2>2, CallsAre DEF Promise!Does, ReplaceN
  <2>4. QED
    BY <2>2, <2>3 DEF Promised, Promise!Next
<1>4. ASSUME NEW n \in 0..Limit, NEW old \in Chars, NEW new \in Chars, ReplaceLastN(n, old, new)
      PROVE  Promised
  <2>1. n \in Nat
    BY Sizes
  <2>2. StringInv' /\ UNCHANGED Memory!vars /\ text' = Promise!SubstitutedLast(n, old, new)
    BY <1>4, <2>1, BackwardsStep
  <2>3. Promise!Does("ReplaceLastN", <<n, old, new>>, Promise!SubstitutedLast(n, old, new))
    BY <1>4, <2>2, CallsAre DEF Promise!Does, ReplaceLastN
  <2>4. QED
    BY <2>2, <2>3 DEF Promised, Promise!Next
<1>5. QED
  BY <1>1, <1>2, <1>3, <1>4

LEMMA StutteringKeeps ==
    ASSUME StringInv, UNCHANGED vars
    PROVE  Promised
BY DEF Promised, StringInv, vars, Memory!vars, Promise!vars

LEMMA NextKeeps ==
    ASSUME HalfTheRange, StringInv, [Next]_vars
    PROVE  Promised
<1>1. ASSUME NEW c \in Chars, PushChar(c) PROVE Promised
  BY <1>1, PushCharKeeps
<1>2. ASSUME NEW cs \in Chunks, PushChars(cs) \/ PushStr(cs) \/ PushString(cs) PROVE Promised
  BY <1>2, PushCharsKeeps
<1>3. CASE PushSelf
  BY <1>3, PushSelfKeeps
<1>4. ASSUME NEW n \in 0..Limit, EnsureCapacity(n) PROVE Promised
  BY <1>4, EnsureCapacityKeeps
<1>5. ASSUME NEW c \in 0..Limit, Recreate(c) PROVE Promised
  BY <1>5, RecreateKeeps
<1>6. ASSUME NEW cs \in Chunks, NEW k \in 0..Limit, RepeatChars(cs, k) PROVE Promised
  BY <1>6, RepeatCharsKeeps
<1>7. CASE Clear
  BY <1>7, ClearKeeps
<1>8. CASE Erase
  BY <1>8, EraseKeeps
<1>9. CASE \/ ReverseString
           \/ \E f \in Mappings : Map(f)
           \/ \E n \in 0..Limit, old, new \in Chars : ReplaceN(n, old, new) \/ ReplaceLastN(n, old, new)
  BY <1>9, RewritingKeeps
<1>10. CASE UNCHANGED vars
  BY <1>10, StutteringKeeps
<1>11. Strs \subseteq Chunks
  BY DEF Strs
<1>12. QED
  BY <1>1, <1>2, <1>3, <1>4, <1>5, <1>6, <1>7, <1>8, <1>9, <1>10, <1>11 DEF Next

LEMMA InitKeeps ==
    ASSUME HalfTheRange, Init
    PROVE  StringInv /\ Memory!Init /\ Promise!Init
<1>1. PICK c \in 0..Limit : string = NewString(c) /\ fault = "none" /\ call = <<"New">>
  BY DEF Init
<1>2. c \in Nat /\ c <= 2 * Limit
  BY Sizes
<1>3. Fit(string) /\ TextOf(string) = <<>> /\ string.capacity = c /\ string.length = 0
  BY <1>1, <1>2, NewStringFits
<1>4. Len(string.buffer) = c /\ Memory!Wrap(c * 1) = c
  BY <1>2, <1>3, FitFacts, WrapIsIdentity
<1>5. Memory!Created(c)
  BY <1>1, <1>3, <1>4 DEF Memory!Created, GrowthFaults
<1>6. QED
  BY <1>1, <1>3, <1>5 DEF StringInv, Memory!Init, Promise!Init

-----------------------------------------------------------------------------
(* Scans of the raw memory: where they end, and what a search meets first. *)
LEMMA LeastIs ==
    ASSUME NEW S \in SUBSET Nat, S # {}
    PROVE  Least(S) \in S /\ \A k \in S : Least(S) <= k
BY LeastOf DEF Least

LEMMA GreatestIs ==
    ASSUME NEW n \in Nat, NEW S \in SUBSET (0..n), S # {}
    PROVE  Greatest(S) \in S /\ \A k \in S : k <= Greatest(S)
<1> DEFINE T == {n - k : k \in S}
<1>1. T \in SUBSET Nat /\ T # {}
  <2>1. ASSUME NEW k \in S PROVE n - k \in Nat
    <3>1. k \in 0..n
      OBVIOUS
    <3>2. QED
      BY <3>1
  <2>2. QED
    BY <2>1
<1>2. PICK m \in T : \A k \in T : m <= k
  BY <1>1, LeastOf
<1>3. PICK g \in S : m = n - g
  BY <1>2
<1>4. ASSUME NEW k \in S PROVE k <= g
  <2>1. k \in 0..n /\ g \in 0..n
    OBVIOUS
  <2>2. n - k \in T
    OBVIOUS
  <2>3. n - g <= n - k
    BY <1>2, <1>3, <2>2
  <2>4. QED
    BY <2>1, <2>3
<1>5. QED
  BY <1>4 DEF Greatest

LEMMA SameGreatest ==
    ASSUME NEW S \in SUBSET Nat, NEW g \in S, \A k \in S : k <= g
    PROVE  Greatest(S) = g
<1>1. Greatest(S) \in S /\ \A k \in S : k <= Greatest(S)
  BY DEF Greatest
<1>2. Greatest(S) \in Nat /\ g \in Nat /\ Greatest(S) <= g /\ g <= Greatest(S)
  BY <1>1
<1>3. QED
  BY <1>2

LEMMA SameLeast ==
    ASSUME NEW S \in SUBSET Nat, NEW g \in S, \A k \in S : g <= k
    PROVE  Least(S) = g
<1>1. Least(S) \in S /\ \A k \in S : Least(S) <= k
  BY DEF Least
<1>2. Least(S) \in Nat /\ g \in Nat /\ Least(S) <= g /\ g <= Least(S)
  BY <1>1
<1>3. QED
  BY <1>2

LEMMA GreatestLater ==
    ASSUME NEW n \in Nat, NEW A, A \in SUBSET (1..n), NEW g \in A \ {1},
           \A i \in A \ {1} : i <= g
    PROVE  Greatest(A) = g
<1>1. g \in 1..n /\ A \in SUBSET Nat
  OBVIOUS
<1>2. ASSUME NEW i \in A PROVE i <= g
  <2>1. CASE i = 1
    BY <1>1, <2>1
  <2>2. CASE i # 1
    BY <2>2
  <2>3. QED
    BY <2>1, <2>2
<1>3. QED
  BY <1>1, <1>2, SameGreatest

(* What is before the first zero byte of the text of s.                    *)
Zero(s) == IndexOf(s, Nul)
Shown(s) == IF Zero(s) = Invalid THEN s.length ELSE Zero(s)

LEMMA ZeroIs ==
    ASSUME HalfTheRange, NEW s, Fit(s)
    PROVE  /\ Zero(s) \in Nat /\ Shown(s) \in 0..s.length /\ s.length <= Invalid
           /\ \A i \in 1..Shown(s) : s.buffer[i] # Nul
           /\ Zero(s) # Invalid =>
                Shown(s) = Zero(s) /\ Zero(s) < s.length /\ s.buffer[Zero(s) + 1] = Nul
           /\ Zero(s) = Invalid => Shown(s) = s.length
<1> DEFINE P == Places(s, Nul)
           n == s.length
<1>1. n \in Nat /\ n <= Limit /\ Limit \in Nat /\ M \in Nat /\ Limit < M /\ Invalid = M - 1
  BY FitFacts, Sizes DEF Invalid
<1>2. P \in SUBSET Nat /\ P = {i \in 1..n : s.buffer[i] = Nul}
  BY <1>1 DEF Places
<1>3. Zero(s) = IF P = {} THEN Invalid ELSE Least(P) - 1
  BY DEF Zero, IndexOf
<1> HIDE DEF P, n
<1>4. CASE P = {}
  <2>1. Zero(s) = Invalid /\ Shown(s) = n
    BY <1>3, <1>4 DEF Shown, n
  <2>2. \A i \in 1..n : s.buffer[i] # Nul
    BY <1>2, <1>4
  <2>3. QED
    BY <1>1, <2>1, <2>2 DEF n
<1>5. CASE P # {}
  <2> DEFINE m == Least(P)
  <2>1. m \in P /\ \A k \in P : m <= k
    BY <1>2, <1>5, LeastIs
  <2>2. Zero(s) = m - 1
    BY <1>3, <1>5
  <2> HIDE DEF m
  <2>3. m \in 1..n /\ s.buffer[m] = Nul /\ m - 1 # Invalid
    BY <1>1, <1>2, <2>1
  <2>4. Shown(s) = m - 1
    BY <2>2, <2>3 DEF Shown
  <2>5. \A i \in 1..(m - 1) : s.buffer[i] # Nul
    <3> SUFFICES ASSUME NEW i \in 1..(m - 1), s.buffer[i] = Nul PROVE FALSE
      OBVIOUS
    <3>1. i \in 1..n /\ i < m
      BY <1>1, <2>3
    <3>2. i \in P
      BY <1>2, <3>1
    <3>3. QED
      BY <1>1, <2>1, <2>3, <3>1, <3>2
  <2>6. (m - 1) + 1 = m /\ m - 1 \in 0..n /\ m - 1 < n /\ m - 1 \in Nat
    BY <1>1, <2>3
  <2>7. QED
    BY <1>1, <2>2, <2>3, <2>4, <2>5, <2>6 DEF n
<1>6. QED
  BY <1>4, <1>5

(* A scan gets to the first zero byte of the text, or over all of it.      *)
LEMMA ScanEndIs ==
    ASSUME HalfTheRange, NEW s, Fit(s)
    PROVE  /\ ScanEnd(s) \in Nat /\ Shown(s) < ScanEnd(s) /\ ScanEnd(s) <= s.capacity + 1
           /\ Zero(s) # Invalid => ScanEnd(s) = Zero(s) + 1 /\ Terminated(s)
<1> DEFINE n == Len(s.buffer)
           z == Zero(s)
           v == Shown(s)
           e == ScanEnd(s)
           Stops(k) == k = n + 1 \/ s.buffer[k] \in {Nul, Junk}
           E == {k \in 1..(n + 1) : Stops(k)}
<1>1. /\ n \in Nat /\ n = s.capacity /\ s.length \in Nat /\ s.length <= n
      /\ \A i \in 1..s.length : s.buffer[i] \in Chars
  BY FitFacts
<1>2. /\ z \in Nat /\ v \in 0..s.length /\ \A i \in 1..v : s.buffer[i] # Nul
      /\ z # Invalid => v = z /\ z < s.length /\ s.buffer[z + 1] = Nul
  BY ZeroIs
<1> HIDE DEF n, z, v
<1>3. E \in SUBSET Nat /\ n + 1 \in E
  BY <1>1
<1>4. PICK m \in E : \A k \in E : m <= k
  BY <1>3, LeastOf
<1>5. \A j \in 1..(m - 1) : s.buffer[j] \notin {Nul, Junk}
  <2> SUFFICES ASSUME NEW j \in 1..(m - 1) PROVE j \notin E
    BY <1>1, <1>3, <1>4
  <2>1. j < m /\ m \in Nat
    BY <1>3, <1>4
  <2>2. QED
    BY <1>4, <2>1
<1>6. \E k \in 1..(n + 1) : Stops(k) /\ \A j \in 1..(k - 1) : s.buffer[j] \notin {Nul, Junk}
  BY <1>4, <1>5
<1>7. e \in 1..(n + 1) /\ Stops(e) /\ \A j \in 1..(e - 1) : s.buffer[j] \notin {Nul, Junk}
  BY <1>6 DEF ScanEnd, n
<1> HIDE DEF E, e
<1>8. ASSUME e <= v PROVE FALSE
  <2>1. e \in 1..v /\ e \in 1..s.length /\ e # n + 1
    BY <1>1, <1>2, <1>7, <1>8
  <2>2. s.buffer[e] \in Chars /\ s.buffer[e] = Junk
    BY <1>1, <1>2, <1>7, <2>1
  <2>3. QED
    BY <2>2, Sizes
<1>9. ASSUME z # Invalid PROVE e = z + 1 /\ Terminated(s)
  <2>1. e = z + 1
    <3> SUFFICES ASSUME z + 1 < e PROVE FALSE
      BY <1>2, <1>7, <1>8, <1>9
    <3>1. z + 1 \in 1..(e - 1)
      BY <1>2, <1>7
    <3>2. QED
      BY <1>2, <1>7, <1>9, <3>1
  <2>2. e <= n /\ s.buffer[e] = Nul
    BY <1>1, <1>2, <1>9, <2>1
  <2>3. QED
    BY <2>1, <2>2 DEF Terminated, e, n
<1>10. QED
  BY <1>1, <1>2, <1>7, <1>8, <1>9 DEF e, v, z

(* Where sub is in the text of s; Later leaves out the very start, and     *)
(* Seen what is behind the first zero byte.                                *)
At(s, sub) == {i \in 1..(s.length - Len(sub) + 1) : IsAt(s, sub, i)}

Later(s, sub) == {i \in 2..(s.length - Len(sub) + 1) : IsAt(s, sub, i)}

Seen(s, sub) == {i \in At(s, sub) : i <= Zero(s)}

(* A string without a zero byte in it.                                     *)
CString(sub) == sub \in Seq(Chars) /\ Len(sub) # 0 /\ Nul \notin ToSet(sub)

LEMMA StrsAre ==
    ASSUME NEW sub \in Strs \ {<<>>}
    PROVE  CString(sub)
BY ChunksAre, EmptySeq DEF Strs, CString

LEMMA CStringIs ==
    ASSUME NEW sub, CString(sub)
    PROVE  /\ sub \in Seq(Chars) /\ Len(sub) \in Nat /\ Len(sub) # 0
           /\ \A k \in 1..Len(sub) : sub[k] # Nul
           /\ \A s, i : Matches(s, sub, i) <=> IsAt(s, sub, i)
<1>1. /\ sub \in Seq(Chars) /\ Len(sub) \in Nat /\ Len(sub) # 0 /\ DOMAIN sub = 1..Len(sub)
      /\ \A k \in 1..Len(sub) : sub[k] # Nul
  BY LenProperties DEF CString, ToSet
<1>2. ASSUME NEW k \in 1..Len(sub) PROVE Nul \notin {sub[j] : j \in 1..(k - 1)}
  <2>1. \A j \in 1..(k - 1) : j \in 1..Len(sub)
    BY <1>1
  <2>2. QED
    BY <1>1, <2>1
<1>3. ASSUME NEW s, NEW i PROVE Matches(s, sub, i) <=> IsAt(s, sub, i)
  BY <1>2 DEF Matches, IsAt
<1>4. QED
  BY <1>1, <1>3

(* An occurrence that begins before a zero byte ends before it.            *)
LEMMA EndsBefore ==
    ASSUME NEW s, NEW sub, CString(sub), NEW i \in Nat, NEW z \in Nat, s.buffer[z + 1] = Nul,
           IsAt(s, sub, i), i <= z + 1
    PROVE  i + Len(sub) <= z + 1
<1>1. Len(sub) \in Nat /\ \A k \in 1..Len(sub) : sub[k] # Nul
  BY CStringIs
<1> SUFFICES ASSUME z + 1 < i + Len(sub) PROVE FALSE
  BY <1>1
<1> DEFINE k == z + 2 - i
<1>2. k \in 1..Len(sub) /\ i + k - 1 = z + 1
  BY <1>1
<1> HIDE DEF k
<1>3. s.buffer[i + k - 1] = sub[k]
  BY <1>2 DEF IsAt
<1>4. QED
  BY <1>1, <1>2, <1>3

LEMMA SearchIs ==
    ASSUME HalfTheRange, NEW s, Fit(s), NEW sub, CString(sub)
    PROVE  LET C == Seen(s, sub)
               B == Later(s, sub)
           IN  /\ At(s, sub) \in SUBSET (1..s.length) /\ B = At(s, sub) \ {1}
               /\ \A i \in At(s, sub) : i # Zero(s) + 1
               /\ C # {} => /\ Least(C) \in C /\ \A i \in C : Least(C) <= i
                            /\ Find(s, sub) = Least(C) - 1 /\ Find(s, sub) # Invalid
               /\ C = {} /\ Find(s, sub) # Invalid =>
                    Zero(s) = Invalid /\ Find(s, sub) + Len(sub) > s.length
               /\ B # {} => /\ Greatest(B) \in B /\ \A i \in B : i <= Greatest(B)
                            /\ FindLast(s, sub) = Greatest(B) - 1
               /\ B = {} => FindLast(s, sub) = Invalid
<1> DEFINE n == s.length
           e == ScanEnd(s)
           a == Len(sub)
           z == Zero(s)
           A == At(s, sub)
           B == Later(s, sub)
           C == Seen(s, sub)
           H == {i \in 1..(e - a) : IsAt(s, sub, i)}
<1>1. /\ n \in Nat /\ n <= Limit /\ Limit \in Nat /\ M \in Nat /\ 2 * Limit < M
      /\ Invalid = M - 1 /\ a \in Nat /\ a # 0
  BY FitFacts, Sizes, CStringIs DEF HalfTheRange, Invalid
<1>2. /\ e \in Nat /\ z \in Nat /\ n <= Invalid
      /\ z = Invalid => n < e
      /\ z # Invalid => e = z + 1 /\ z < n /\ s.buffer[z + 1] = Nul /\ Terminated(s)
  BY ScanEndIs, ZeroIs
<1>3. A = {i \in 1..(n - a + 1) : IsAt(s, sub, i)} /\ C = {i \in A : i <= z}
      /\ B = {i \in 2..(n - a + 1) : IsAt(s, sub, i)}
  BY DEF At, Later, Seen
<1>4. Find(s, sub) = IF H # {} THEN Least(H) - 1 ELSE IF Terminated(s) THEN Invalid ELSE M
  BY DEF Find, Unknown
<1>5. FindLast(s, sub) = IF B # {} THEN Greatest(B) - 1 ELSE Invalid
  BY CStringIs DEF FindLast, Later
<1> HIDE DEF n, e, a, z, A, B, C
<1>6. /\ A \in SUBSET (1..n) /\ C \in SUBSET Nat /\ B = A \ {1} /\ B \in SUBSET (0..n)
      /\ H \in SUBSET Nat
  BY <1>1, <1>2, <1>3
<1>7. ASSUME NEW i \in A PROVE i # z + 1
  <2>1. i \in 1..n /\ i \in Nat /\ IsAt(s, sub, i)
    BY <1>3, <1>6
  <2>2. CASE z = Invalid
    BY <1>1, <1>2, <2>1, <2>2
  <2>3. CASE z # Invalid
    <3>1. i <= z + 1 => i + a <= z + 1
      BY <1>2, <2>1, <2>3, EndsBefore DEF a
    <3>2. QED
      BY <1>1, <1>2, <2>1, <3>1
  <2>4. QED
    BY <2>2, <2>3
<1>8. ASSUME NEW i \in C PROVE i \in H
  <2>1. i \in 1..n /\ i \in Nat /\ i <= n - a + 1 /\ i <= z /\ IsAt(s, sub, i)
    BY <1>1, <1>3, <1>6
  <2>2. i <= e - a
    <3>1. CASE z = Invalid
      BY <1>1, <1>2, <2>1, <3>1
    <3>2. CASE z # Invalid
      <4>1. s.buffer[z + 1] = Nul /\ i <= z + 1
        BY <1>2, <2>1, <3>2
      <4>2. i + a <= z + 1
        BY <1>2, <2>1, <4>1, EndsBefore DEF a
      <4>3. QED
        BY <1>1, <1>2, <2>1, <3>2, <4>2
    <3>3. QED
      BY <3>1, <3>2
  <2>3. QED
    BY <1>1, <1>2, <2>1, <2>2
<1>9. ASSUME NEW i \in H, i <= n - a + 1 \/ z # Invalid PROVE i \in C
  <2>1. i \in Nat /\ i >= 1 /\ i <= e - a /\ IsAt(s, sub, i)
    BY <1>1, <1>2
  <2>2. i <= n - a + 1 /\ i <= z
    BY <1>1, <1>2, <1>9, <2>1
  <2>3. i \in 1..(n - a + 1)
    BY <1>1, <2>1, <2>2
  <2>4. QED
    BY <1>3, <2>1, <2>2, <2>3
<1> HIDE DEF H
<1>10. ASSUME C # {}
       PROVE  /\ Least(C) \in C /\ \A i \in C : Least(C) <= i
              /\ Find(s, sub) = Least(C) - 1 /\ Find(s, sub) # Invalid
  <2>1. Least(C) \in C /\ \A i \in C : Least(C) <= i
    BY <1>6, <1>10, LeastIs
  <2>2. Least(C) \in Nat /\ Least(C) <= n - a + 1 /\ Least(C) \in H /\ Least(C) <= n
    BY <1>1, <1>3, <1>6, <1>8, <2>1
  <2>3. \A i \in H : Least(C) <= i
    <3> SUFFICES ASSUME NEW i \in H, i < Least(C) PROVE FALSE
      BY <1>6, <2>2
    <3>1. i \in Nat /\ i <= n - a + 1
      BY <1>1, <1>6, <2>2
    <3>2. QED
      BY <1>9, <2>1, <2>2, <3>1
  <2>4. Least(H) = Least(C)
    BY <1>6, <2>2, <2>3, SameLeast
  <2>5. Find(s, sub) = Least(C) - 1
    BY <1>4, <2>2, <2>4
  <2>6. Least(C) - 1 # M - 1
    BY <1>1, <2>2
  <2>7. QED
    BY <1>1, <2>1, <2>5, <2>6
<1>11. ASSUME C = {}, Find(s, sub) # Invalid
       PROVE  z = Invalid /\ Find(s, sub) + a > n
  <2>1. CASE H # {}
    <3>1. Least(H) \in H
      BY <1>6, <2>1, LeastIs
    <3>2. Least(H) \in Nat /\ Least(H) \notin C /\ Find(s, sub) = Least(H) - 1
      BY <1>4, <1>6, <1>11, <2>1, <3>1
    <3>3. ~ (Least(H) <= n - a + 1) /\ z = Invalid
      BY <1>9, <3>1, <3>2
    <3>4. QED
      BY <1>1, <3>2, <3>3
  <2>2. CASE H = {}
    <3>1. ~ Terminated(s) /\ Find(s, sub) = M
      BY <1>4, <1>11, <2>2
    <3>2. QED
      BY <1>1, <1>2, <3>1
  <2>3. QED
    BY <2>1, <2>2
<1>12. ASSUME B # {}
       PROVE  Greatest(B) \in B /\ \A i \in B : i <= Greatest(B)
  BY <1>1, <1>6, <1>12, GreatestIs
<1>13. QED
  BY <1>5, <1>6, <1>7, <1>10, <1>11, <1>12 DEF A, B, C, n, a, z

LEMMA OccurrencesAre ==
    ASSUME StringInv, NEW sub \in Seq(Chars), Len(sub) # 0
    PROVE  Occurrences(sub) = At(string, sub)
<1> DEFINE n == string.length
           a == Len(sub)
           text == TextOf(string)
<1>1. /\ n \in Nat /\ text \in Seq(Chars)
      /\ \A i \in 1..n : text[i] = string.buffer[i] /\ text[i] \in Chars
      /\ a \in Nat /\ a # 0
  BY TheText, LenProperties
<1> HIDE DEF n, a, text
<1>2. ASSUME NEW i \in 1..(n - a + 1)
      PROVE  SubSeq(text, i, i + a - 1) = sub <=> IsAt(string, sub, i)
  <2> DEFINE piece == SubSeq(text, i, i + a - 1)
  <2>1. i \in Int /\ i + a - 1 \in Int /\ i <= i + a - 1 /\ (i + a - 1) - i + 1 = a
    BY <1>1
  <2>2. \A k \in i..(i + a - 1) : text[k] \in Chars
    BY <1>1
  <2>3. /\ piece \in Seq(Chars) /\ Len(piece) = (i + a - 1) - i + 1
        /\ \A k \in 1..((i + a - 1) - i + 1) : piece[k] = text[i + k - 1]
    BY <2>1, <2>2, SubSeqProperties
  <2> HIDE DEF piece
  <2>4. Len(piece) = a /\ \A k \in 1..a : piece[k] = text[i + k - 1]
    BY <2>1, <2>3
  <2>5. \A k \in 1..a : i + k - 1 \in 1..n
    BY <1>1
  <2>6. \A k \in 1..a : piece[k] = string.buffer[i + k - 1]
    BY <1>1, <2>4, <2>5
  <2>7. IsAt(string, sub, i) <=> \A k \in 1..a : piece[k] = sub[k]
    BY <2>6 DEF IsAt, a
  <2>8. piece = sub <=> \A k \in 1..a : piece[k] = sub[k]
    BY <2>3, <2>4, SeqEqual DEF a
  <2>9. QED
    BY <2>7, <2>8 DEF piece
<1>3. QED
  BY <1>2 DEF Occurrences, At, n, a, text

LEMMA CloneBegins ==
    ASSUME HalfTheRange, StringInv
    PROVE  /\ IsPrefix(Visible, CloneText(string))
           /\ FirstZero # Invalid => CloneText(string) = Visible
<1> DEFINE v == Shown(string)
           e == ScanEnd(string)
           text == TextOf(string)
           shown == SubSeq(text, 1, v)
           clone == CloneText(string)
<1>1. /\ v \in 0..string.length /\ v \in Nat /\ e \in Nat /\ v < e /\ e - 1 <= string.capacity
      /\ string.capacity \in Nat /\ text \in Seq(Chars) /\ Len(text) = string.length
      /\ \A i \in 1..string.length : text[i] = string.buffer[i] /\ text[i] \in Chars
      /\ \A i \in 1..string.capacity : string.buffer[i] \in Cell
      /\ Chars \subseteq Cell
  BY TheText, StringFacts, ScanEndIs, ZeroIs DEF Cell
<1>2. Visible = shown
  BY DEF Visible, FirstZero, Shown, Zero
<1>3. FirstZero # Invalid => e - 1 = v
  <2>1. FirstZero = Zero(string)
    BY DEF FirstZero, Zero
  <2>2. QED
    BY <2>1, StringFacts, ScanEndIs, ZeroIs
<1>4. clone \in Seq(Cell) /\ Len(clone) = e - 1 /\ \A i \in 1..(e - 1) : clone[i] = string.buffer[i]
  <2>1. e - 1 \in Int /\ 1 \in Int /\ \A i \in 1..(e - 1) : string.buffer[i] \in Cell
    BY <1>1
  <2>2. /\ clone \in Seq(Cell) /\ Len(clone) = IF 1 <= e - 1 THEN (e - 1) - 1 + 1 ELSE 0
        /\ \A i \in 1..((e - 1) - 1 + 1) : clone[i] = string.buffer[1 + i - 1]
    BY <2>1, SubSeqProperties DEF CloneText
  <2> HIDE DEF clone, e
  <2>3. (e - 1) - 1 + 1 = e - 1 /\ \A i \in 1..(e - 1) : 1 + i - 1 = i
    BY <1>1
  <2>4. QED
    BY <1>1, <2>2, <2>3
<1>5. shown \in Seq(Cell) /\ Len(shown) = v /\ \A i \in 1..v : shown[i] = string.buffer[i]
  <2>1. v \in Int /\ 1 \in Int /\ \A i \in 1..v : text[i] \in Cell /\ text[i] = string.buffer[i]
    BY <1>1
  <2>2. /\ shown \in Seq(Cell) /\ Len(shown) = IF 1 <= v THEN v - 1 + 1 ELSE 0
        /\ \A i \in 1..(v - 1 + 1) : shown[i] = text[1 + i - 1]
    BY <2>1, SubSeqProperties
  <2> HIDE DEF shown, v
  <2>3. v - 1 + 1 = v /\ \A i \in 1..v : 1 + i - 1 = i
    BY <1>1
  <2>4. QED
    BY <1>1, <2>1, <2>2, <2>3
<1> HIDE DEF v, e, shown, clone
<1>6. ASSUME NEW t, t \in Seq(Cell), Len(t) >= v, Len(t) \in Nat,
             \A i \in 1..v : t[i] = string.buffer[i]
      PROVE  SubSeq(t, 1, v) = shown
  <2> DEFINE p == SubSeq(t, 1, v)
  <2>1. v \in Int /\ 1 \in Int /\ \A i \in 1..v : t[i] \in Cell
    BY <1>1, <1>6, ElementOfSeq
  <2>2. /\ p \in Seq(Cell) /\ Len(p) = IF 1 <= v THEN v - 1 + 1 ELSE 0
        /\ \A i \in 1..(v - 1 + 1) : p[i] = t[1 + i - 1]
    BY <2>1, SubSeqProperties
  <2> HIDE DEF p
  <2>3. v - 1 + 1 = v /\ \A i \in 1..v : 1 + i - 1 = i
    BY <1>1
  <2>4. Len(p) = v /\ \A i \in 1..v : p[i] = shown[i]
    BY <1>1, <1>5, <1>6, <2>2, <2>3
  <2>5. p = shown
    BY <1>5, <2>2, <2>4, SeqEqual
  <2>6. QED
    BY <2>5 DEF p
<1>7. IsPrefix(shown, clone)
  <2>1. SubSeq(shown, 1, Len(shown)) = shown
    BY <1>1, <1>5, <1>6
  <2>2. SubSeq(clone, 1, Len(shown)) = shown
    <3>1. Len(clone) >= v /\ Len(clone) \in Nat /\ \A i \in 1..v : i \in 1..(e - 1)
      BY <1>1, <1>4
    <3>2. \A i \in 1..v : clone[i] = string.buffer[i]
      BY <1>4, <3>1
    <3>3. SubSeq(clone, 1, v) = shown
      BY <1>4, <1>6, <3>1, <3>2
    <3>4. QED
      BY <1>5, <3>3
  <2>3. Len(shown) <= Len(clone)
    BY <1>1, <1>4, <1>5
  <2>4. QED
    BY <2>1, <2>2, <2>3 DEF IsPrefix
<1>8. ASSUME FirstZero # Invalid PROVE clone = shown
  <2>1. e - 1 = v
    BY <1>3, <1>8
  <2>2. Len(clone) = Len(shown) /\ \A i \in 1..Len(clone) : clone[i] = shown[i]
    BY <1>4, <1>5, <2>1
  <2>3. QED
    BY <1>4, <1>5, <2>2, SeqEqual
<1>9. QED
  BY <1>2, <1>7, <1>8 DEF clone

LEMMA ScansSee ==
    ASSUME HalfTheRange, StringInv
    PROVE  ScansSeeTheText
<1>1. ASSUME NEW sub \in Strs \ {<<>>}
      PROVE  LET at == Occurrences(sub)
                 seen == {i \in at : i <= FirstZero}
             IN  /\ seen # {} => Find(string, sub) = Least(seen) - 1
                 /\ seen = {} /\ Find(string, sub) # Invalid =>
                     FirstZero = Invalid /\ Find(string, sub) + Len(sub) > string.length
                 /\ at = {} => FindLast(string, sub) = Invalid
                 /\ at \notin {{}, {1}} => FindLast(string, sub) = Greatest(at) - 1
  <2> DEFINE A == At(string, sub)
             B == Later(string, sub)
             C == Seen(string, sub)
  <2>1. CString(sub) /\ sub \in Seq(Chars) /\ Len(sub) # 0
    BY StrsAre, CStringIs
  <2>2. Occurrences(sub) = A /\ FirstZero = Zero(string) /\ C = {i \in A : i <= Zero(string)}
    BY <2>1, OccurrencesAre DEF Seen, FirstZero, Zero
  <2>3. /\ A \in SUBSET (1..string.length) /\ B = A \ {1}
        /\ C # {} => Find(string, sub) = Least(C) - 1
        /\ C = {} /\ Find(string, sub) # Invalid =>
             Zero(string) = Invalid /\ Find(string, sub) + Len(sub) > string.length
        /\ B # {} => /\ Greatest(B) \in B /\ \A i \in B : i <= Greatest(B)
                     /\ FindLast(string, sub) = Greatest(B) - 1
        /\ B = {} => FindLast(string, sub) = Invalid
    BY <2>1, StringFacts, SearchIs
  <2>4. string.length \in Nat
    BY TheText
  <2> HIDE DEF A, B, C
  <2>5. ASSUME A \notin {{}, {1}} PROVE FindLast(string, sub) = Greatest(A) - 1
    <3>1. B # {}
      BY <2>3, <2>5
    <3>2. Greatest(B) \in A \ {1} /\ \A i \in A \ {1} : i <= Greatest(B)
      BY <2>3, <3>1
    <3>3. Greatest(A) = Greatest(B)
      BY <2>3, <2>4, <3>2, GreatestLater
    <3>4. QED
      BY <2>3, <3>1, <3>3
  <2>6. A = {} => FindLast(string, sub) = Invalid
    BY <2>3
  <2>7. QED
    BY <2>2, <2>3, <2>5, <2>6
<1>2. QED
  BY <1>1, CloneBegins DEF ScansSeeTheText

LEMMA QueriesDo ==
    ASSUME HalfTheRange, StringInv
    PROVE  QueriesAgree
<1> DEFINE n == string.length
           z == FirstZero
<1> SUFFICES ASSUME NEW sub \in Strs \ {<<>>}
             PROVE  LET end == n - Len(sub)
                    IN  /\ StartsWithChars(string, sub) => Find(string, sub) = 0
                        /\ EndsWithChars(string, sub) =>
                            /\ end < z => ContainsStr(string, sub)
                            /\ end # 0 => FindLast(string, sub) = end
                        /\ FindLast(string, sub) < z => Find(string, sub) <= FindLast(string, sub)
                        /\ Len(sub) = 1 =>
                            /\ IndexOf(string, sub[1]) < z =>
                                Find(string, sub) = IndexOf(string, sub[1])
                            /\ z < IndexOf(string, sub[1]) => ~ ContainsStr(string, sub)
                            /\ LastIndexOf(string, sub[1]) # 0 =>
                                FindLast(string, sub) = LastIndexOf(string, sub[1])
  BY DEF QueriesAgree
<1> DEFINE A == At(string, sub)
           B == Later(string, sub)
           C == Seen(string, sub)
           a == Len(sub)
<1>1. /\ CString(sub) /\ a \in Nat /\ a # 0 /\ n \in Nat
      /\ \A i : Matches(string, sub, i) <=> IsAt(string, sub, i)
  BY StrsAre, CStringIs, TheText
<1>2. z = Zero(string)
  BY DEF FirstZero, Zero
<1>3. z \in Nat /\ n <= Invalid /\ Invalid \in Nat /\ (z # Invalid => z < n)
  <2>1. Invalid \in Nat
    BY Sizes DEF Invalid
  <2>2. QED
    BY <1>2, <2>1, StringFacts, ZeroIs
<1>4. /\ A \in SUBSET (1..n) /\ B = A \ {1} /\ \A i \in A : i # z + 1
      /\ C # {} => /\ Least(C) \in C /\ \A i \in C : Least(C) <= i
                   /\ Find(string, sub) = Least(C) - 1 /\ Find(string, sub) # Invalid
      /\ C = {} /\ Find(string, sub) # Invalid => z = Invalid
      /\ B # {} => /\ Greatest(B) \in B /\ \A i \in B : i <= Greatest(B)
                   /\ FindLast(string, sub) = Greatest(B) - 1
      /\ B = {} => FindLast(string, sub) = Invalid
  BY <1>1, <1>2, StringFacts, SearchIs
<1>5. A = {i \in 1..(n - a + 1) : IsAt(string, sub, i)} /\ C = {i \in A : i <= z}
  BY <1>2 DEF At, Seen
<1> HIDE DEF A, B, C, n, a, z
<1>6. ASSUME StartsWithChars(string, sub) PROVE Find(string, sub) = 0
  <2>1. a <= n /\ IsAt(string, sub, 1)
    BY <1>1, <1>6 DEF StartsWithChars, a, n
  <2>2. 1 \in A
    BY <1>1, <1>5, <2>1
  <2>3. 1 \in C
    BY <1>3, <1>4, <1>5, <2>2
  <2>4. Least(C) = 1
    <3>1. C \in SUBSET Nat /\ \A k \in C : 1 <= k
      BY <1>1, <1>5
    <3>2. QED
      BY <2>3, <3>1, SameLeast
  <2>5. QED
    BY <1>4, <2>3, <2>4
<1>7. ASSUME EndsWithChars(string, sub)
      PROVE  /\ n - a < z => ContainsStr(string, sub)
             /\ n - a # 0 => FindLast(string, sub) = n - a
  <2>1. a <= n /\ IsAt(string, sub, n - a + 1)
    BY <1>1, <1>7 DEF EndsWithChars, a, n
  <2>2. n - a + 1 \in A
    BY <1>1, <1>5, <2>1
  <2>3. ASSUME n - a < z PROVE ContainsStr(string, sub)
    <3>1. n - a + 1 \in C
      BY <1>1, <1>3, <1>5, <2>2, <2>3
    <3>2. QED
      BY <1>4, <3>1 DEF ContainsStr
  <2>4. ASSUME n - a # 0 PROVE FindLast(string, sub) = n - a
    <3>1. n - a + 1 \in B
      BY <1>1, <1>4, <2>2, <2>4
    <3>2. Greatest(B) = n - a + 1
      BY <1>1, <1>4, <1>5, <3>1
    <3>3. QED
      BY <1>1, <1>4, <3>1, <3>2
  <2>5. QED
    BY <2>3, <2>4
<1>8. ASSUME FindLast(string, sub) < z PROVE Find(string, sub) <= FindLast(string, sub)
  <2>1. B # {}
    BY <1>1, <1>3, <1>4, <1>8
  <2>2. Greatest(B) \in A /\ Greatest(B) \in 1..n /\ FindLast(string, sub) = Greatest(B) - 1
    BY <1>4, <2>1
  <2>3. Greatest(B) \in C
    BY <1>3, <1>5, <1>8, <2>2
  <2>4. Least(C) <= Greatest(B) /\ Least(C) \in 1..n /\ Find(string, sub) = Least(C) - 1
    BY <1>4, <1>5, <2>3
  <2>5. QED
    BY <1>1, <2>2, <2>4
<1>9. ASSUME a = 1
      PROVE  /\ IndexOf(string, sub[1]) < z => Find(string, sub) = IndexOf(string, sub[1])
             /\ z < IndexOf(string, sub[1]) => ~ ContainsStr(string, sub)
             /\ LastIndexOf(string, sub[1]) # 0 =>
                  FindLast(string, sub) = LastIndexOf(string, sub[1])
  <2>1. Places(string, sub[1]) = A
    <3>1. n - a + 1 = n /\ 1..a = {1}
      BY <1>1, <1>9
    <3>2. \A i \in 1..n : IsAt(string, sub, i) <=> string.buffer[i] = sub[1]
      <4> SUFFICES ASSUME NEW i \in 1..n PROVE IsAt(string, sub, i) <=> string.buffer[i] = sub[1]
        OBVIOUS
      <4>1. IsAt(string, sub, i) <=> \A k \in {1} : string.buffer[i + k - 1] = sub[k]
        BY <3>1 DEF IsAt, a
      <4>2. i + 1 - 1 = i
        BY <1>1
      <4>3. QED
        BY <4>1, <4>2
    <3>3. QED
      BY <1>5, <3>1, <3>2 DEF Places, n
  <2>2. /\ IndexOf(string, sub[1]) = IF A = {} THEN Invalid ELSE Least(A) - 1
        /\ LastIndexOf(string, sub[1]) = IF A = {} THEN Invalid ELSE Greatest(A) - 1
    BY <2>1 DEF IndexOf, LastIndexOf
  <2>3. A # {} => Least(A) \in A /\ \A i \in A : Least(A) <= i
    <3>1. A \in SUBSET Nat
      BY <1>4
    <3>2. QED
      BY <3>1, LeastIs
  <2>4. ASSUME IndexOf(string, sub[1]) < z
        PROVE  Find(string, sub) = IndexOf(string, sub[1])
    <3>1. A # {} /\ IndexOf(string, sub[1]) = Least(A) - 1
      BY <1>1, <1>3, <2>2, <2>4
    <3>2. Least(A) \in 1..n /\ Least(A) <= z /\ Least(A) \in C
      BY <1>3, <1>4, <1>5, <2>3, <2>4, <3>1
    <3>3. Least(C) = Least(A)
      <4>1. C \in SUBSET Nat /\ \A k \in C : Least(A) <= k
        BY <1>4, <1>5, <2>3, <3>1
      <4>2. QED
        BY <3>2, <4>1, SameLeast
    <3>4. QED
      BY <1>4, <3>1, <3>2, <3>3
  <2>5. ASSUME z < IndexOf(string, sub[1])
        PROVE  ~ ContainsStr(string, sub)
    <3>1. C = {}
      <4> SUFFICES ASSUME NEW i \in C PROVE FALSE
        OBVIOUS
      <4>1. i \in A /\ i <= z /\ i \in 1..n
        BY <1>4, <1>5
      <4>2. Least(A) <= i /\ Least(A) \in 1..n /\ IndexOf(string, sub[1]) = Least(A) - 1
        BY <1>4, <2>2, <2>3, <4>1
      <4>3. QED
        BY <1>3, <2>5, <4>1, <4>2
    <3>2. z # Invalid
      <4>1. CASE A = {}
        BY <1>3, <2>2, <2>5, <4>1
      <4>2. CASE A # {}
        <5>1. Least(A) \in 1..n /\ IndexOf(string, sub[1]) = Least(A) - 1
          BY <1>4, <2>2, <2>3, <4>2
        <5>2. QED
          BY <1>1, <1>3, <2>5, <5>1
      <4>3. QED
        BY <4>1, <4>2
    <3>3. QED
      BY <1>4, <3>1, <3>2 DEF ContainsStr
  <2>6. ASSUME LastIndexOf(string, sub[1]) # 0
        PROVE  FindLast(string, sub) = LastIndexOf(string, sub[1])
    <3>1. CASE B = {}
      <4>1. A # {1}
        <5>1. A = {1} => Greatest(A) = 1
          BY SameGreatest
        <5>2. QED
          BY <2>2, <2>6, <5>1
      <4>2. A = {}
        BY <1>4, <3>1, <4>1
      <4>3. QED
        BY <1>4, <2>2, <3>1, <4>2
    <3>2. CASE B # {}
      <4>1. Greatest(B) \in A \ {1} /\ \A i \in A \ {1} : i <= Greatest(B)
        BY <1>4, <3>2
      <4>2. Greatest(A) = Greatest(B) /\ A # {}
        BY <1>1, <1>4, <4>1, GreatestLater
      <4>3. QED
        BY <1>4, <2>2, <3>2, <4>2
    <3>3. QED
      BY <3>1, <3>2
  <2>7. QED
    BY <2>4, <2>5, <2>6
<1>10. QED
  BY <1>6, <1>7, <1>8, <1>9 DEF a

-----------------------------------------------------------------------------
LEMMA StringInvAlways ==
    ASSUME HalfTheRange
    PROVE  Spec => [](StringInv)
<1>1. Init => StringInv
  BY InitKeeps
<1>2. StringInv /\ [Next]_vars => StringInv'
  BY NextKeeps DEF Promised
<1>3. QED
  BY <1>1, <1>2, PTL DEF Spec

(* What the variables are, for any characters and any length of a text     *)
(* that stays below half the range of uint.                                *)
THEOREM StringTypeCorrect ==
    ASSUME HalfTheRange
    PROVE  Spec => []TypeOK
<1>1. StringInv => TypeOK
  <2> SUFFICES ASSUME StringInv PROVE TypeOK
    OBVIOUS
  <2>1. /\ string.capacity \in Nat /\ string.length \in Nat /\ Limit \in Nat /\ M \in Nat
        /\ string.capacity <= 2 * Limit /\ string.length <= string.capacity /\ 2 * Limit < M
    BY StringFacts, TheText, Sizes DEF HalfTheRange
  <2>2. string.buffer \in [1..string.capacity -> Cell] /\ string.capacity \in 0..(2 * Limit)
    BY <2>1, StringFacts, FitFacts
  <2>3. string.buffer \in BoundedSeq(Cell, 2 * Limit)
    BY <2>2 DEF BoundedSeq, SeqOf
  <2>4. QED
    BY <2>1, <2>3 DEF TypeOK, StringInv
<1>2. QED
  BY <1>1, StringInvAlways, PTL

(* No call ever counts a cell as text that no call has written: growth and *)
(* repetition leave the junk of malloc and realloc behind the length only. *)
THEOREM TextIsInitialisedAlways ==
    ASSUME HalfTheRange
    PROVE  Spec => []TextIsInitialised
<1>1. StringInv => TextIsInitialised
  BY TheText DEF TextIsInitialised
<1>2. QED
  BY <1>1, StringInvAlways, PTL

(***************************************************************************)
(* For any text, with any zero bytes in it, and whatever lies behind it:   *)
(* a clone begins with the text up to its first zero byte, Find returns    *)
(* the first occurrence in that part or what ends behind the text, and     *)
(* FindLast the last occurrence, unless it is at the very start.           *)
(***************************************************************************)
THEOREM ScansSeeTheTextAlways ==
    ASSUME HalfTheRange
    PROVE  Spec => []ScansSeeTheText
<1>1. StringInv => ScansSeeTheText
  BY ScansSee
<1>2. QED
  BY <1>1, StringInvAlways, PTL

(* The queries, each written in its own way, never contradict each other   *)
(* before the first zero byte of any text.                                 *)
THEOREM QueriesAgreeAlways ==
    ASSUME HalfTheRange
    PROVE  Spec => []QueriesAgree
<1>1. StringInv => QueriesAgree
  BY QueriesDo
<1>2. QED
  BY <1>1, StringInvAlways, PTL

(* Growth is that of Storage, so that what StringPartsProof proves of it   *)
(* holds for strings: no call, however many it makes, grows another way.   *)
THEOREM StringGrowsAlways ==
    ASSUME HalfTheRange
    PROVE  Spec => ImplementsStorage
<1>1. Init => Memory!Init
  BY InitKeeps
<1>2. StringInv /\ [Next]_vars => [Memory!Next]_(Memory!vars)
  BY NextKeeps DEF Promised
<1>3. QED
  BY <1>1, <1>2, StringInvAlways, PTL DEF Spec, ImplementsStorage, Memory!Spec

(***************************************************************************)
(* Every call does to the text what Text says, with the loops of Repeat,   *)
(* ReplaceN, ReplaceLastN and Reverse shown to do what their names say     *)
(* at every length; only a push of the string to itself that reads freed   *)
(* memory leaves the text alone, and stops the program.                    *)
(***************************************************************************)
THEOREM ImplementsTextAlways ==
    ASSUME HalfTheRange
    PROVE  Spec => ImplementsText
<1>1. Init => Promise!Init
  BY InitKeeps
<1>2. StringInv /\ [Next]_vars => [Promise!Next]_(Promise!vars)
  BY NextKeeps DEF Promised
<1>3. QED
  BY <1>1, <1>2, StringInvAlways, PTL DEF Spec, ImplementsText, Promise!Spec
=============================================================================
