-------------------------- MODULE StringPartsProof --------------------------
(***************************************************************************)
(* Two parts of AvmString by themselves.                                   *)
(*                                                                         *)
(* Its storage, which lists share: growth is safe for the programs that    *)
(* never want more bytes in a container than half the range of uint.       *)
(*                                                                         *)
(* Its conversions and formats: numerals of every width denote their       *)
(* numbers, floats are cut off to eighths, and the loops over formats and  *)
(* texts of every length stop where they should; what Format writes, Parse *)
(* reads back. The recursive functions of the model are shown to exist     *)
(* first, each by induction up to the number it is used for; their values  *)
(* are then those of the definition.                                       *)
(***************************************************************************)
EXTENDS Storage, Formats, SequenceTheorems, FiniteSetTheorems, WellFoundedInduction, TLAPS

-----------------------------------------------------------------------------
(* The storage.                                                            *)

(* A capacity that growth can produce without wrapping around.             *)
Reachable(c) == c \in Nat /\ c <= 2 * Limit

StorageInv == TypeOK /\ StorageSafe /\ Reachable(capacity) /\ length <= Limit

HalfTheRange == 2 * (Limit * ItemSize) < M

LEMMA WrapIsIdentity ==
    ASSUME NEW x \in Nat, x < M
    PROVE  Wrap(x) = x
BY StorageAssumption DEF Wrap

LEMMA LimitInBytes ==
    ASSUME HalfTheRange
    PROVE  /\ 2 * Limit <= 2 * (Limit * ItemSize)
           /\ 2 * Limit < M
<1>1. Limit \in Nat /\ ItemSize \in Nat /\ ItemSize >= 1 /\ Limit * ItemSize \in Nat
  BY StorageAssumption
<1>2. Limit * ItemSize >= Limit
  BY <1>1
<1>3. QED
  BY <1>1, <1>2, StorageAssumption DEF HalfTheRange

LEMMA ReachableFits ==
    ASSUME HalfTheRange, NEW c, Reachable(c)
    PROVE  /\ c \in 0..(M - 1)
           /\ c * ItemSize \in 0..(M - 1)
           /\ Wrap(c * ItemSize) = c * ItemSize
<1>1. /\ c \in Nat /\ Limit \in Nat /\ ItemSize \in Nat /\ ItemSize >= 1 /\ M \in Nat
      /\ Limit * ItemSize \in Nat /\ c * ItemSize \in Nat /\ M >= 2
  BY StorageAssumption DEF Reachable
<1>2. c * ItemSize >= c
  BY <1>1
<1>3. c * ItemSize < M
  <2>1. c * ItemSize <= (2 * Limit) * ItemSize
    BY <1>1 DEF Reachable
  <2>2. (2 * Limit) * ItemSize = 2 * (Limit * ItemSize)
    BY <1>1
  <2>3. QED
    BY <1>1, <2>1, <2>2 DEF HalfTheRange
<1>4. QED
  BY <1>1, <1>2, <1>3, WrapIsIdentity

(* EnsureCapacity makes room and stays clear of the end of the range.      *)
LEMMA GrowthMakesRoom ==
    ASSUME HalfTheRange, StorageInv, NEW n \in Nat, length + n <= Limit
    PROVE  LET c == NewCapacity(capacity, length, n)
           IN  /\ Reachable(c)
               /\ length + n <= c
               /\ PostHolds(c, length, n)
               /\ ~ MustGrow(capacity, length, n) => c = capacity
<1>1. /\ capacity \in Nat /\ length \in Nat /\ Limit \in Nat /\ M \in Nat
      /\ length <= capacity /\ Reachable(capacity) /\ 2 * Limit < M /\ Limit < M
  BY StorageAssumption, LimitInBytes DEF StorageInv, TypeOK, StorageSafe
<1>2. Wrap(length + n) = length + n
  BY <1>1, WrapIsIdentity
<1>3. CASE ~ MustGrow(capacity, length, n)
  BY <1>1, <1>2, <1>3 DEF NewCapacity, MustGrow, PostHolds
<1>4. CASE MustGrow(capacity, length, n)
  <2>1. n # 0 /\ capacity < length + n
    BY <1>1, <1>2, <1>4 DEF MustGrow
  <2>2. Wrap(2 * capacity) = 2 * capacity
    BY <1>1, <2>1, WrapIsIdentity
  <2>3. CASE 2 * capacity < length + n
    <3>1. 2 * capacity + n < 2 * Limit
      BY <1>1, <2>1, <2>3
    <3>2. Wrap(2 * capacity + n) = 2 * capacity + n
      BY <1>1, <3>1, WrapIsIdentity
    <3>3. NewCapacity(capacity, length, n) = 2 * capacity + n
      BY <1>2, <1>4, <2>2, <2>3, <3>2 DEF NewCapacity
    <3>4. QED
      BY <1>1, <1>4, <3>1, <3>3 DEF Reachable, PostHolds
  <2>4. CASE ~ (2 * capacity < length + n)
    <3>1. NewCapacity(capacity, length, n) = 2 * capacity
      BY <1>2, <1>4, <2>2, <2>4 DEF NewCapacity
    <3>2. QED
      BY <1>1, <1>4, <2>1, <2>4, <3>1 DEF Reachable, PostHolds
  <2>5. QED
    BY <2>3, <2>4
<1>5. QED
  BY <1>3, <1>4

(* The state after Ensure(n), in Reserve and in Add.                       *)
LEMMA EnsureEffect ==
    ASSUME HalfTheRange, StorageInv, NEW n \in Nat, length + n <= Limit, Ensure(n)
    PROVE  /\ Reachable(capacity')
           /\ capacity' \in 0..(M - 1)
           /\ length + n <= capacity'
           /\ PostHolds(capacity', length, n)
           /\ allocated' = capacity' * ItemSize
           /\ allocated' \in 0..(M - 1)
           /\ (length + n) * ItemSize <= allocated'
<1>1. capacity' = NewCapacity(capacity, length, n)
  BY DEF Ensure
<1>2. /\ Reachable(capacity') /\ length + n <= capacity' /\ PostHolds(capacity', length, n)
      /\ ~ MustGrow(capacity, length, n) => capacity' = capacity
  BY <1>1, GrowthMakesRoom
<1>3. /\ capacity' \in 0..(M - 1) /\ capacity' * ItemSize \in 0..(M - 1)
      /\ Wrap(capacity' * ItemSize) = capacity' * ItemSize
  BY <1>2, ReachableFits
<1>4. allocated' = capacity' * ItemSize
  BY <1>2, <1>3 DEF Ensure, StorageInv, StorageSafe
<1>5. (length + n) * ItemSize <= capacity' * ItemSize
  <2>1. length + n \in Nat /\ capacity' \in Nat /\ ItemSize \in Nat
    BY <1>2, StorageAssumption DEF StorageInv, TypeOK, Reachable
  <2>2. QED
    BY <1>2, <2>1
<1>6. QED
  BY <1>2, <1>3, <1>4, <1>5

LEMMA StorageInit == HalfTheRange /\ Init => StorageInv
<1> SUFFICES ASSUME HalfTheRange, NEW c \in 0..Limit, Created(c) PROVE StorageInv
  BY DEF Init
<1>1. Reachable(c) /\ Limit \in Nat
  BY StorageAssumption DEF Reachable
<1>2. c \in 0..(M - 1) /\ c * ItemSize \in 0..(M - 1) /\ Wrap(c * ItemSize) = c * ItemSize
  BY <1>1, ReachableFits
<1>3. QED
  BY <1>1, <1>2, StorageAssumption DEF Created, StorageInv, TypeOK, StorageSafe

LEMMA StorageNext == HalfTheRange /\ StorageInv /\ [Next]_vars => StorageInv'
<1> SUFFICES ASSUME HalfTheRange, StorageInv, [Next]_vars PROVE StorageInv'
  OBVIOUS
<1>1. /\ length \in Nat /\ Limit \in Nat /\ M \in Nat /\ fault = "none"
      /\ length <= capacity /\ length <= Limit
      /\ capacity \in Nat /\ Limit < M
  BY StorageAssumption DEF StorageInv, TypeOK, StorageSafe
<1>2. ASSUME NEW n \in 0..Limit, Reserve(n) PROVE StorageInv'
  <2>1. n \in Nat /\ length + n <= Limit /\ Ensure(n) /\ length' = length
    BY <1>1, <1>2 DEF Reserve
  <2>2. /\ Reachable(capacity') /\ capacity' \in 0..(M - 1) /\ length + n <= capacity'
        /\ PostHolds(capacity', length, n)
        /\ allocated' = capacity' * ItemSize /\ allocated' \in 0..(M - 1)
    BY <2>1, EnsureEffect
  <2>3. fault' = "none"
    BY <1>2, <2>2 DEF Reserve
  <2>4. QED
    BY <1>1, <2>1, <2>2, <2>3 DEF StorageInv, TypeOK, StorageSafe
<1>3. ASSUME NEW n \in 0..Limit, Add(n) PROVE StorageInv'
  <2>1. n \in Nat /\ length + n <= Limit /\ Ensure(n)
    BY <1>1, <1>3 DEF Add
  <2>2. /\ Reachable(capacity') /\ capacity' \in 0..(M - 1) /\ length + n <= capacity'
        /\ PostHolds(capacity', length, n)
        /\ allocated' = capacity' * ItemSize /\ allocated' \in 0..(M - 1)
        /\ (length + n) * ItemSize <= allocated'
    BY <2>1, EnsureEffect
  <2>3. ~ ((length + n) * ItemSize > allocated')
    <3> DEFINE b == (length + n) * ItemSize
    <3>1. b \in Nat /\ allocated' \in Nat /\ b <= allocated'
      <4>1. ItemSize \in Nat /\ length + n \in Nat
        BY <1>1, <2>1, StorageAssumption
      <4>2. b \in Nat
        BY <4>1
      <4>3. allocated' \in Nat
        BY <1>1, <2>2
      <4>4. b <= allocated'
        BY <2>2
      <4>5. QED
        BY <4>2, <4>3, <4>4
    <3> HIDE DEF b
    <3>2. ~ (b > allocated')
      BY <3>1
    <3>3. QED
      BY <3>2 DEF b
  <2>4. fault' = "none"
    BY <1>3, <2>2, <2>3 DEF Add
  <2>5. length' = length + n
    BY <1>1, <1>3, <2>1, <2>4, WrapIsIdentity DEF Add
  <2>6. QED
    BY <1>1, <2>1, <2>2, <2>4, <2>5 DEF StorageInv, TypeOK, StorageSafe
<1>4. ASSUME NEW k \in 1..Limit, Shrink(k) PROVE StorageInv'
  BY <1>1, <1>4 DEF Shrink, StorageInv, TypeOK, StorageSafe
<1>5. ASSUME NEW c \in 0..Limit, Renew(c) PROVE StorageInv'
  <2>1. Reachable(c)
    BY <1>1 DEF Reachable
  <2>2. c \in 0..(M - 1) /\ c * ItemSize \in 0..(M - 1) /\ Wrap(c * ItemSize) = c * ItemSize
    BY <2>1, ReachableFits
  <2>3. QED
    BY <1>1, <1>5, <2>1, <2>2 DEF Renew, StorageInv, TypeOK, StorageSafe
<1>6. ASSUME NEW n \in 0..Limit, Preload(n) PROVE StorageInv'
  <2>1. Reachable(2 * n) /\ Wrap(2 * n) = 2 * n /\ n <= 2 * n /\ n \in 0..(M - 1)
    BY <1>1, LimitInBytes, WrapIsIdentity DEF Reachable
  <2>2. Wrap(0 + n) = n /\ 0 + n = n
    BY <2>1, <1>1, WrapIsIdentity
  <2>3. NewCapacity(2 * n, 0, n) = 2 * n
    BY <1>1, <2>1, <2>2 DEF NewCapacity, MustGrow
  <2>4. capacity' = 2 * n /\ fault' = "none" /\ length' = n
        /\ allocated' = Wrap((2 * n) * ItemSize)
    BY <1>6, <2>1, <2>3 DEF Preload
  <2>5. 2 * n \in 0..(M - 1) /\ (2 * n) * ItemSize \in 0..(M - 1)
        /\ Wrap((2 * n) * ItemSize) = (2 * n) * ItemSize
    BY <2>1, ReachableFits
  <2>6. QED
    BY <1>1, <2>1, <2>4, <2>5 DEF StorageInv, TypeOK, StorageSafe
<1>7. CASE UNCHANGED vars
  BY <1>7 DEF vars, StorageInv, TypeOK, StorageSafe
<1>8. QED
  BY <1>2, <1>3, <1>4, <1>5, <1>6, <1>7 DEF Next

(***************************************************************************)
(* Growth never fails, never wraps around and never leaves an item outside *)
(* the allocated memory, for every width of uint and every item size, as   *)
(* long as twice the bytes a program ever wants fit in a uint.             *)
(***************************************************************************)
THEOREM GrowthIsSafe ==
    ASSUME HalfTheRange
    PROVE  Spec => []StorageSafe
<1>1. Init => StorageInv
  BY StorageInit
<1>2. StorageInv /\ [Next]_vars => StorageInv'
  BY StorageNext
<1>3. StorageInv => StorageSafe
  BY DEF StorageInv
<1>4. QED
  BY <1>1, <1>2, <1>3, PTL DEF Spec

(* Under the same condition capacity, length and the bytes allocated are   *)
(* true uints, none of them the wrapped image of a larger number.          *)
THEOREM StorageTypeCorrect ==
    ASSUME HalfTheRange
    PROVE  Spec => []TypeOK
<1>1. Init => StorageInv
  BY StorageInit
<1>2. StorageInv /\ [Next]_vars => StorageInv'
  BY StorageNext
<1>3. StorageInv => TypeOK
  BY DEF StorageInv
<1>4. QED
  BY <1>1, <1>2, <1>3, PTL DEF Spec

-----------------------------------------------------------------------------
(* The two parts of a text, and induction up to a number.                  *)
LEMMA Cut ==
    ASSUME NEW S, NEW s \in Seq(S), NEW k \in 0..Len(s)
    PROVE  /\ SubSeq(s, 1, k) \in Seq(S)
           /\ Len(SubSeq(s, 1, k)) = k
           /\ \A i \in 1..k : SubSeq(s, 1, k)[i] = s[i]
<1>1. k \in Int /\ \A i \in 1..k : s[i] \in S
  BY ElementOfSeq, LenProperties
<1>2. QED
  BY <1>1, SubSeqProperties

LEMMA Rest ==
    ASSUME NEW S, NEW s \in Seq(S), NEW k \in 0..Len(s)
    PROVE  LET r == SubSeq(s, k + 1, Len(s))
           IN  /\ r \in Seq(S)
               /\ Len(r) = Len(s) - k
               /\ \A i \in 1..(Len(s) - k) : r[i] = s[k + i]
               /\ s = SubSeq(s, 1, k) \o r
<1> DEFINE r == SubSeq(s, k + 1, Len(s))
<1>1. /\ k + 1 \in Int /\ Len(s) \in Int /\ Len(s) - (k + 1) + 1 = Len(s) - k
      /\ \A i \in (k + 1)..Len(s) : s[i] \in S
  BY ElementOfSeq, LenProperties
<1>2. /\ r \in Seq(S)
      /\ Len(r) = IF k + 1 <= Len(s) THEN Len(s) - (k + 1) + 1 ELSE 0
      /\ \A i \in 1..(Len(s) - (k + 1) + 1) : r[i] = s[(k + 1) + i - 1]
  BY <1>1, SubSeqProperties
<1>3. s = SubSeq(s, 1, k) \o r
  <2>1. 1 \in 1..(Len(s) + 1) /\ k \in (1 - 1)..Len(s) /\ Len(s) \in k..Len(s)
    BY LenProperties
  <2>2. SubSeq(s, 1, k) \o SubSeq(s, k + 1, Len(s)) = SubSeq(s, 1, Len(s))
    BY <2>1, ConcatAdjacentSubSeq
  <2>3. QED
    BY <2>2, SubSeqFull
<1> HIDE DEF r
<1>4. Len(r) = Len(s) - k
  <2>1. k \in Int /\ Len(s) \in Int /\ k <= Len(s)
    BY LenProperties
  <2>2. CASE k + 1 <= Len(s)
    BY <1>1, <1>2, <2>2
  <2>3. CASE ~ (k + 1 <= Len(s))
    <3>1. Len(s) - k = 0
      BY <2>1, <2>3
    <3>2. QED
      BY <1>2, <2>3, <3>1
  <2>4. QED
    BY <2>2, <2>3
<1>5. ASSUME NEW i \in 1..(Len(s) - k) PROVE r[i] = s[k + i]
  <2>1. (k + 1) + i - 1 = k + i
    BY <1>1
  <2>2. QED
    BY <1>1, <1>2, <2>1
<1>6. QED
  BY <1>2, <1>3, <1>4, <1>5 DEF r

LEMMA FunctionIsSeq ==
    ASSUME NEW S, NEW n \in Nat, NEW f \in [1..n -> S]
    PROVE  f \in Seq(S) /\ Len(f) = n
OBVIOUS

LEMMA LeastOf ==
    ASSUME NEW S \in SUBSET Nat, S # {}
    PROVE  \E m \in S : \A k \in S : m <= k
<1> DEFINE Below == {0..m : m \in S}
           R == StrictSubsetOrdering(Nat)
<1>1. Below \subseteq FiniteSubsetsOf(Nat)
  <2>1. ASSUME NEW m \in S PROVE 0..m \in FiniteSubsetsOf(Nat)
    <3>1. IsFiniteSet(0..m)
      BY FS_Interval
    <3>2. 0..m \in SUBSET Nat
      OBVIOUS
    <3>3. QED
      BY <3>1, <3>2 DEF FiniteSubsetsOf
  <2>2. QED
    BY <2>1
<1>2. Below # {}
  OBVIOUS
<1>3. IsWellFoundedOn(R, FiniteSubsetsOf(Nat))
  BY FS_StrictSubsetOrderingWellFounded
<1> HIDE DEF R
<1>4. PICK x \in Below : \A y \in Below : ~ (<<y, x>> \in R)
  BY <1>1, <1>2, <1>3, WFMin
<1>5. PICK m \in S : x = 0..m
  BY <1>4
<1>6. ASSUME NEW k \in S PROVE m <= k
  <2> SUFFICES ASSUME k < m PROVE FALSE
    BY <1>5
  <2>1. m \in 0..m /\ m \notin 0..k
    OBVIOUS
  <2>2. 0..k \in SUBSET Nat /\ 0..m \in SUBSET Nat /\ 0..k \subseteq 0..m /\ 0..k # 0..m
    BY <2>1
  <2>3. <<0..k, 0..m>> \in R /\ 0..k \in Below
    BY <2>2 DEF R, StrictSubsetOrdering
  <2>4. QED
    BY <1>4, <1>5, <2>3
<1>7. QED
  BY <1>5, <1>6

LEMMA UpTo ==
    ASSUME NEW n \in Nat, NEW S, 0 \in S, \A k \in 0..(n - 1) : k \in S => k + 1 \in S
    PROVE  0..n \subseteq S
<1> SUFFICES ASSUME ~ (0..n \subseteq S) PROVE FALSE
  OBVIOUS
<1> DEFINE Missing == (0..n) \ S
<1>1. Missing \in SUBSET Nat /\ Missing # {}
  OBVIOUS
<1>2. PICK m \in Missing : \A k \in Missing : m <= k
  BY <1>1, LeastOf
<1>3. m \in 0..n /\ m \notin S /\ m # 0
  BY <1>2
<1>4. m - 1 \in 0..(n - 1) /\ m - 1 \notin Missing /\ (m - 1) + 1 = m
  BY <1>2, <1>3
<1>5. m - 1 \in S
  BY <1>4
<1>6. QED
  BY <1>3, <1>4, <1>5

LEMMA Halves ==
    ASSUME NEW S, NEW s \in Seq(S), NEW t \in Seq(S)
    PROVE  /\ SubSeq(s \o t, 1, Len(s)) = s
           /\ SubSeq(s \o t, Len(s) + 1, Len(s \o t)) = t
<1> DEFINE q == s \o t
           a == SubSeq(q, 1, Len(s))
           b == SubSeq(q, Len(s) + 1, Len(q))
<1>1. /\ q \in Seq(S) /\ Len(q) = Len(s) + Len(t)
      /\ \A i \in 1..(Len(s) + Len(t)) : q[i] = IF i <= Len(s) THEN s[i] ELSE t[i - Len(s)]
  BY ConcatProperties
<1>2. Len(s) \in Nat /\ Len(t) \in Nat
  BY LenProperties
<1> HIDE DEF q
<1>3. Len(s) \in 0..Len(q) /\ Len(q) - Len(s) = Len(t)
  BY <1>1, <1>2
<1>4. a \in Seq(S) /\ Len(a) = Len(s) /\ \A i \in 1..Len(s) : a[i] = q[i]
  BY <1>1, <1>3, Cut
<1>5. b \in Seq(S) /\ Len(b) = Len(t) /\ \A i \in 1..Len(t) : b[i] = q[Len(s) + i]
  BY <1>1, <1>3, Rest
<1> HIDE DEF a, b
<1>6. ASSUME NEW i \in 1..Len(s) PROVE a[i] = s[i]
  <2>1. i \in 1..(Len(s) + Len(t)) /\ i <= Len(s)
    BY <1>2
  <2>2. QED
    BY <1>1, <1>4, <2>1
<1>7. ASSUME NEW i \in 1..Len(t) PROVE b[i] = t[i]
  <2>1. Len(s) + i \in 1..(Len(s) + Len(t)) /\ ~ (Len(s) + i <= Len(s)) /\ (Len(s) + i) - Len(s) = i
    BY <1>2
  <2>2. QED
    BY <1>1, <1>5, <2>1
<1>8. a = s /\ b = t
  BY <1>4, <1>5, <1>6, <1>7, SeqEqual
<1>9. QED
  BY <1>8 DEF a, b, q

-----------------------------------------------------------------------------
(* Powers of two.                                                          *)
IsPower(f, n) == f = [i \in 0..n |-> IF i = 0 THEN 1 ELSE 2 * f[i - 1]]

LEMMA PowersExist ==
    ASSUME NEW n \in Nat
    PROVE  \E f : IsPower(f, n)
<1> DEFINE S == {k \in 0..n : \E f : IsPower(f, k)}
<1>1. 0 \in S
  <2> DEFINE f == [i \in 0..0 |-> 1]
  <2>1. f = [i \in 0..0 |-> IF i = 0 THEN 1 ELSE 2 * f[i - 1]]
    OBVIOUS
  <2> HIDE DEF f
  <2>2. IsPower(f, 0)
    BY <2>1 DEF IsPower
  <2>3. QED
    BY <2>2
<1>2. ASSUME NEW k \in 0..(n - 1), k \in S PROVE k + 1 \in S
  <2>1. PICK f : IsPower(f, k)
    BY <1>2
  <2> DEFINE g == [i \in 0..(k + 1) |-> IF i <= k THEN f[i] ELSE 2 * f[k]]
  <2>2. ASSUME NEW i \in 0..(k + 1) PROVE g[i] = IF i = 0 THEN 1 ELSE 2 * g[i - 1]
    <3>1. CASE i <= k
      <4>1. i \in 0..k /\ (i # 0 => i - 1 \in 0..(k + 1) /\ i - 1 <= k)
        BY <3>1
      <4>2. f[i] = IF i = 0 THEN 1 ELSE 2 * f[i - 1]
        BY <2>1, <4>1 DEF IsPower
      <4>3. g[i] = f[i] /\ (i # 0 => g[i - 1] = f[i - 1])
        BY <3>1, <4>1
      <4> HIDE DEF g
      <4>4. QED
        BY <4>2, <4>3
    <3>2. CASE i = k + 1
      <4>1. ~ (i <= k) /\ i # 0 /\ i - 1 = k /\ k \in 0..(k + 1) /\ k <= k
        BY <3>2
      <4>2. g[i] = 2 * f[k] /\ g[k] = f[k]
        BY <4>1
      <4> HIDE DEF g
      <4>3. QED
        BY <3>2, <4>1, <4>2
    <3>3. QED
      BY <3>1, <3>2
  <2>3. g = [i \in 0..(k + 1) |-> g[i]]
    OBVIOUS
  <2> HIDE DEF g
  <2>4. g = [i \in 0..(k + 1) |-> IF i = 0 THEN 1 ELSE 2 * g[i - 1]]
    BY <2>2, <2>3
  <2>5. IsPower(g, k + 1)
    BY <2>4 DEF IsPower
  <2>6. QED
    BY <2>5
<1> HIDE DEF S
<1>3. 0..n \subseteq S
  BY <1>1, <1>2, UpTo
<1>4. QED
  BY <1>3 DEF S

LEMMA PowerIs ==
    ASSUME NEW n \in Nat
    PROVE  \E f : IsPower(f, n) /\ Power2(n) = f[n]
<1> DEFINE f == CHOOSE f : IsPower(f, n)
<1>1. Power2(n) = f[n]
  BY DEF Power2, IsPower
<1>2. IsPower(f, n)
  BY PowersExist
<1>3. QED
  BY <1>1, <1>2

LEMMA SamePower ==
    ASSUME NEW n \in Nat, NEW f, IsPower(f, n), NEW k \in 0..n
    PROVE  f[k] = Power2(k) /\ f[k] \in Nat \ {0}
<1>1. PICK g : IsPower(g, k) /\ Power2(k) = g[k]
  BY PowerIs
<1> DEFINE S == {i \in 0..k : f[i] = g[i] /\ f[i] \in Nat \ {0}}
<1>2. 0 \in S
  <2>1. f[0] = 1 /\ g[0] = 1
    BY <1>1 DEF IsPower
  <2>2. QED
    BY <2>1
<1>3. ASSUME NEW i \in 0..(k - 1), i \in S PROVE i + 1 \in S
  <2>1. i + 1 \in 0..n /\ i + 1 \in 0..k /\ i + 1 # 0 /\ (i + 1) - 1 = i
    OBVIOUS
  <2>2. f[i + 1] = 2 * f[i] /\ g[i + 1] = 2 * g[i]
    BY <1>1, <2>1 DEF IsPower
  <2>3. f[i] = g[i] /\ f[i] \in Nat \ {0}
    BY <1>3
  <2>4. f[i + 1] = g[i + 1] /\ f[i + 1] \in Nat \ {0}
    BY <2>2, <2>3
  <2>5. QED
    BY <2>1, <2>4
<1> HIDE DEF S
<1>4. 0..k \subseteq S
  BY <1>2, <1>3, UpTo
<1>5. f[k] = g[k] /\ f[k] \in Nat \ {0}
  BY <1>4 DEF S
<1>6. QED
  BY <1>1, <1>5

LEMMA Power2Is ==
    /\ Power2(0) = 1
    /\ \A n \in Nat : Power2(n) \in Nat \ {0} /\ Power2(n + 1) = 2 * Power2(n)
<1>1. ASSUME NEW n \in Nat PROVE Power2(n) \in Nat \ {0} /\ Power2(n + 1) = 2 * Power2(n)
  <2>1. PICK f : IsPower(f, n + 1) /\ Power2(n + 1) = f[n + 1]
    BY PowerIs
  <2>2. n \in 0..(n + 1) /\ n + 1 \in 0..(n + 1) /\ n + 1 \in Nat /\ n + 1 # 0 /\ (n + 1) - 1 = n
    OBVIOUS
  <2>3. f[n] = Power2(n) /\ f[n] \in Nat \ {0}
    BY <2>1, <2>2, SamePower
  <2>4. f[n + 1] = 2 * f[n]
    BY <2>1, <2>2 DEF IsPower
  <2>5. QED
    BY <2>1, <2>3, <2>4
<1>2. Power2(0) = 1
  <2>1. PICK f : IsPower(f, 0) /\ Power2(0) = f[0]
    BY PowerIs
  <2>2. QED
    BY <2>1 DEF IsPower
<1>3. QED
  BY <1>1, <1>2

LEMMA Power2Sum ==
    ASSUME NEW m \in Nat, NEW n \in Nat
    PROVE  Power2(m + n) = Power2(m) * Power2(n)
<1> DEFINE S == {k \in 0..n : Power2(m + k) = Power2(m) * Power2(k)}
<1>1. Power2(m) \in Nat
  BY Power2Is
<1>2. 0 \in S
  BY <1>1, Power2Is
<1>3. ASSUME NEW k \in 0..(n - 1), k \in S PROVE k + 1 \in S
  <2>1. m + k \in Nat /\ k \in Nat /\ m + (k + 1) = (m + k) + 1 /\ k + 1 \in 0..n
    OBVIOUS
  <2>2. Power2(m + (k + 1)) = 2 * Power2(m + k) /\ Power2(k + 1) = 2 * Power2(k) /\ Power2(k) \in Nat
    BY <2>1, Power2Is
  <2>3. Power2(m + k) = Power2(m) * Power2(k)
    BY <1>3
  <2>4. 2 * (Power2(m) * Power2(k)) = Power2(m) * (2 * Power2(k))
    BY <1>1, <2>2
  <2>5. Power2(m + (k + 1)) = Power2(m) * Power2(k + 1)
    BY <2>2, <2>3, <2>4
  <2>6. QED
    BY <2>1, <2>5
<1> HIDE DEF S
<1>4. 0..n \subseteq S
  BY <1>2, <1>3, UpTo
<1>5. QED
  BY <1>4 DEF S

-----------------------------------------------------------------------------
(* Texts backwards.                                                        *)
LEMMA ReverseIs ==
    ASSUME NEW S, NEW s \in Seq(S)
    PROVE  /\ Reverse(s) \in Seq(S)
           /\ Len(Reverse(s)) = Len(s)
           /\ \A i \in 1..Len(s) : Reverse(s)[i] = s[Len(s) - i + 1]
<1> DEFINE r == Reverse(s)
<1>1. Len(s) \in Nat
  BY LenProperties
<1>2. \A i \in 1..Len(s) : Len(s) - i + 1 \in 1..Len(s)
  BY <1>1
<1>3. r \in [1..Len(s) -> S]
  BY <1>2, ElementOfSeq DEF Reverse
<1>4. \A i \in 1..Len(s) : r[i] = s[Len(s) - i + 1]
  BY DEF Reverse
<1> HIDE DEF r
<1>5. r \in Seq(S) /\ Len(r) = Len(s)
  BY <1>1, <1>3, FunctionIsSeq
<1>6. QED
  BY <1>4, <1>5 DEF r

LEMMA Single ==
    ASSUME NEW S, NEW e \in S
    PROVE  <<e>> \in Seq(S) /\ Len(<<e>>) = 1 /\ <<e>>[1] = e
OBVIOUS

LEMMA Pushed ==
    ASSUME NEW S, NEW s \in Seq(S), NEW e \in S
    PROVE  /\ s \o <<e>> \in Seq(S)
           /\ Len(s \o <<e>>) = Len(s) + 1
           /\ \A i \in 1..Len(s) : (s \o <<e>>)[i] = s[i]
           /\ (s \o <<e>>)[Len(s) + 1] = e
<1> DEFINE q == s \o <<e>>
<1>1. <<e>> \in Seq(S) /\ Len(<<e>>) = 1 /\ <<e>>[1] = e /\ Len(s) \in Nat
  BY Single, LenProperties
<1>2. /\ q \in Seq(S) /\ Len(q) = Len(s) + 1
      /\ \A i \in 1..(Len(s) + 1) : q[i] = IF i <= Len(s) THEN s[i] ELSE <<e>>[i - Len(s)]
  BY <1>1, ConcatProperties
<1> HIDE DEF q
<1>3. ASSUME NEW i \in 1..Len(s) PROVE q[i] = s[i]
  BY <1>1, <1>2
<1>4. q[Len(s) + 1] = e
  <2>1. Len(s) + 1 \in 1..(Len(s) + 1) /\ ~ (Len(s) + 1 <= Len(s)) /\ (Len(s) + 1) - Len(s) = 1
    BY <1>1
  <2>2. QED
    BY <1>1, <1>2, <2>1
<1>5. QED
  BY <1>2, <1>3, <1>4 DEF q

LEMMA Fronted ==
    ASSUME NEW S, NEW s \in Seq(S), NEW e \in S
    PROVE  /\ <<e>> \o s \in Seq(S)
           /\ Len(<<e>> \o s) = Len(s) + 1
           /\ (<<e>> \o s)[1] = e
           /\ \A i \in 1..Len(s) : (<<e>> \o s)[i + 1] = s[i]
<1> DEFINE q == <<e>> \o s
<1>1. <<e>> \in Seq(S) /\ Len(<<e>>) = 1 /\ <<e>>[1] = e /\ Len(s) \in Nat
  BY Single, LenProperties
<1>2. /\ q \in Seq(S) /\ Len(q) = 1 + Len(s)
      /\ \A i \in 1..(1 + Len(s)) : q[i] = IF i <= 1 THEN <<e>>[i] ELSE s[i - 1]
  BY <1>1, ConcatProperties
<1> HIDE DEF q
<1>3. ASSUME NEW i \in 1..Len(s) PROVE q[i + 1] = s[i]
  <2>1. i + 1 \in 1..(1 + Len(s)) /\ ~ (i + 1 <= 1) /\ (i + 1) - 1 = i
    BY <1>1
  <2>2. QED
    BY <1>2, <2>1
<1>4. q[1] = e
  <2>1. 1 \in 1..(1 + Len(s)) /\ 1 <= 1
    BY <1>1
  <2>2. QED
    BY <1>1, <1>2, <2>1
<1>5. QED
  BY <1>1, <1>2, <1>3, <1>4 DEF q

LEMMA ReverseFronted ==
    ASSUME NEW S, NEW s \in Seq(S), NEW e \in S
    PROVE  Reverse(<<e>> \o s) = Reverse(s) \o <<e>>
<1> DEFINE q == <<e>> \o s
           a == Reverse(q)
           r == Reverse(s)
           b == r \o <<e>>
<1>1. q \in Seq(S) /\ Len(q) = Len(s) + 1 /\ q[1] = e /\ \A i \in 1..Len(s) : q[i + 1] = s[i]
  BY Fronted
<1> HIDE DEF q
<1>2. a \in Seq(S) /\ Len(a) = Len(q) /\ \A i \in 1..Len(q) : a[i] = q[Len(q) - i + 1]
  BY <1>1, ReverseIs
<1>3. r \in Seq(S) /\ Len(r) = Len(s) /\ \A i \in 1..Len(s) : r[i] = s[Len(s) - i + 1]
  BY ReverseIs
<1> HIDE DEF a, r
<1>4. /\ b \in Seq(S) /\ Len(b) = Len(r) + 1 /\ b[Len(r) + 1] = e
      /\ \A i \in 1..Len(r) : b[i] = r[i]
  BY <1>3, Pushed
<1> HIDE DEF b
<1>5. Len(s) \in Nat
  BY LenProperties
<1>6. ASSUME NEW i \in 1..Len(a) PROVE a[i] = b[i]
  <2>1. CASE i = Len(s) + 1
    <3>1. Len(q) - i + 1 = 1 /\ i \in 1..Len(q) /\ i = Len(r) + 1
      BY <1>1, <1>3, <1>5, <2>1
    <3>2. a[i] = e
      BY <1>1, <1>2, <3>1
    <3>3. b[Len(r) + 1] = e
      BY <1>4
    <3>4. QED
      BY <3>1, <3>2, <3>3
  <2>2. CASE i # Len(s) + 1
    <3>1. i \in 1..Len(s) /\ i \in 1..Len(q) /\ Len(s) - i + 1 \in 1..Len(s)
          /\ Len(q) - i + 1 = (Len(s) - i + 1) + 1
      BY <1>1, <1>2, <1>5, <2>2
    <3>2. a[i] = s[Len(s) - i + 1]
      BY <1>1, <1>2, <3>1
    <3>3. QED
      BY <1>3, <1>4, <3>1, <3>2
  <2>3. QED
    BY <2>1, <2>2
<1>7. a = b
  BY <1>1, <1>2, <1>3, <1>4, <1>6, SeqEqual
<1>8. QED
  BY <1>7 DEF a, b, q, r

LEMMA ReverseAppended ==
    ASSUME NEW S, NEW s \in Seq(S), NEW e \in S
    PROVE  Reverse(Append(s, e)) = <<e>> \o Reverse(s)
<1> DEFINE q == Append(s, e)
           a == Reverse(q)
           r == Reverse(s)
           b == <<e>> \o r
<1>1. q \in Seq(S) /\ Len(q) = Len(s) + 1 /\ q[Len(s) + 1] = e /\ \A i \in 1..Len(s) : q[i] = s[i]
  BY AppendProperties
<1> HIDE DEF q
<1>2. a \in Seq(S) /\ Len(a) = Len(q) /\ \A i \in 1..Len(q) : a[i] = q[Len(q) - i + 1]
  BY <1>1, ReverseIs
<1>3. r \in Seq(S) /\ Len(r) = Len(s) /\ \A i \in 1..Len(s) : r[i] = s[Len(s) - i + 1]
  BY ReverseIs
<1> HIDE DEF a, r
<1>4. b \in Seq(S) /\ Len(b) = Len(r) + 1 /\ b[1] = e /\ \A i \in 1..Len(r) : b[i + 1] = r[i]
  BY <1>3, Fronted
<1> HIDE DEF b
<1>5. Len(s) \in Nat
  BY LenProperties
<1>6. ASSUME NEW i \in 1..Len(a) PROVE a[i] = b[i]
  <2>1. CASE i = 1
    <3>1. Len(q) - i + 1 = Len(s) + 1 /\ i \in 1..Len(q)
      BY <1>1, <1>5, <2>1
    <3>2. QED
      BY <1>1, <1>2, <1>4, <2>1, <3>1
  <2>2. CASE i # 1
    <3>1. i - 1 \in 1..Len(s) /\ i \in 1..Len(q) /\ Len(s) - (i - 1) + 1 \in 1..Len(s)
          /\ Len(q) - i + 1 = Len(s) - (i - 1) + 1 /\ (i - 1) + 1 = i
      BY <1>1, <1>2, <1>5, <2>2
    <3>2. a[i] = s[Len(s) - (i - 1) + 1]
      BY <1>1, <1>2, <3>1
    <3>3. b[i] = r[i - 1]
      BY <1>3, <1>4, <3>1
    <3>4. QED
      BY <1>3, <3>1, <3>2, <3>3
  <2>3. QED
    BY <2>1, <2>2
<1>7. a = b
  BY <1>1, <1>2, <1>3, <1>4, <1>6, SeqEqual
<1>8. QED
  BY <1>7 DEF a, b, q, r

LEMMA TailFronted ==
    ASSUME NEW S, NEW s \in Seq(S), NEW e \in S
    PROVE  Tail(<<e>> \o s) = s
<1> DEFINE q == <<e>> \o s
<1>1. q \in Seq(S) /\ Len(q) = Len(s) + 1 /\ \A i \in 1..Len(s) : q[i + 1] = s[i]
  BY Fronted
<1>2. Len(s) \in Nat
  BY LenProperties
<1> HIDE DEF q
<1>3. q # <<>>
  BY <1>1, <1>2, EmptySeq
<1>4. Tail(q) \in Seq(S) /\ Len(Tail(q)) = Len(s) /\ \A i \in 1..Len(s) : Tail(q)[i] = q[i + 1]
  BY <1>1, <1>2, <1>3, HeadTailProperties
<1>5. Tail(q) = s
  BY <1>1, <1>4, SeqEqual
<1>6. QED
  BY <1>5 DEF q

-----------------------------------------------------------------------------
(* Digits and what they are worth.                                         *)
DigitsOf(b) == {DigitChars[i] : i \in 1..b}

LEMMA DigitsDiffer ==
    ASSUME NEW i \in 1..16, NEW j \in 1..16, DigitChars[i] = DigitChars[j]
    PROVE  i = j
<1>1. i \in {1, 2, 3, 4, 5, 6, 7, 8, 9, 10, 11, 12, 13, 14, 15, 16}
  OBVIOUS
<1>2. j \in {1, 2, 3, 4, 5, 6, 7, 8, 9, 10, 11, 12, 13, 14, 15, 16}
  OBVIOUS
<1>3. QED
  BY <1>1, <1>2 DEF DigitChars

LEMMA DigitCharsAre ==
    /\ DOMAIN DigitChars = 1..16
    /\ ToSet(DigitChars) = DigitsOf(16)
<1>1. DOMAIN DigitChars = 1..16
  BY DEF DigitChars
<1>2. QED
  BY <1>1 DEF ToSet, DigitsOf

LEMMA DigitValueIs ==
    ASSUME NEW i \in 1..16
    PROVE  /\ DigitValues[DigitChars[i]] = i - 1
           /\ (DigitChars[i] = "0" <=> i = 1)
<1>1. DigitChars[i] \in ToSet(DigitChars)
  BY DigitCharsAre DEF DigitsOf
<1>2. DigitValues[DigitChars[i]] = (CHOOSE j \in 1..16 : DigitChars[j] = DigitChars[i]) - 1
  BY <1>1 DEF DigitValues
<1>3. (CHOOSE j \in 1..16 : DigitChars[j] = DigitChars[i]) = i
  BY DigitsDiffer
<1>4. DigitChars[1] = "0" /\ 1 \in 1..16
  BY DEF DigitChars
<1>5. DigitChars[i] = "0" <=> i = 1
  BY <1>4, DigitsDiffer
<1>6. QED
  BY <1>2, <1>3, <1>5

LEMMA DigitsOfBase ==
    ASSUME NEW b \in NumericBase
    PROVE  /\ b \in Nat /\ b >= 2
           /\ "0" \in DigitsOf(b)
           /\ \A d \in DigitsOf(b) : IsDigit(d, b)
           /\ \A k \in 0..(b - 1) : /\ DigitChars[k + 1] \in DigitsOf(b)
                                    /\ DigitValues[DigitChars[k + 1]] = k
                                    /\ DigitChars[k + 1] = "0" <=> k = 0
<1>1. b \in Nat /\ b >= 2 /\ b <= 16
  BY DEF NumericBase
<1>2. ASSUME NEW k \in 0..(b - 1)
      PROVE  /\ DigitChars[k + 1] \in DigitsOf(b)
             /\ DigitValues[DigitChars[k + 1]] = k
             /\ DigitChars[k + 1] = "0" <=> k = 0
  <2>1. k + 1 \in 1..16 /\ k + 1 \in 1..b /\ (k + 1) - 1 = k /\ (k + 1 = 1 <=> k = 0)
    BY <1>1
  <2>2. QED
    BY <2>1, DigitValueIs DEF DigitsOf
<1>3. "0" \in DigitsOf(b)
  <2>1. 0 \in 0..(b - 1) /\ DigitChars[0 + 1] = "0"
    BY <1>1 DEF DigitChars
  <2>2. QED
    BY <1>2, <2>1
<1>4. QED
  BY <1>1, <1>2, <1>3 DEF DigitsOf, IsDigit

IsWorth(f, cs, b, m) ==
    f = [n \in 0..m |-> IF n = 0 THEN 0 ELSE f[n - 1] * b + DigitValues[cs[n]]]

LEMMA WorthsExist ==
    ASSUME NEW cs, NEW b, NEW m \in Nat
    PROVE  \E f : IsWorth(f, cs, b, m)
<1> DEFINE S == {k \in 0..m : \E f : IsWorth(f, cs, b, k)}
<1>1. 0 \in S
  <2> DEFINE f == [n \in 0..0 |-> 0]
  <2>1. f = [n \in 0..0 |-> IF n = 0 THEN 0 ELSE f[n - 1] * b + DigitValues[cs[n]]]
    OBVIOUS
  <2> HIDE DEF f
  <2>2. IsWorth(f, cs, b, 0)
    BY <2>1 DEF IsWorth
  <2>3. QED
    BY <2>2
<1>2. ASSUME NEW k \in 0..(m - 1), k \in S PROVE k + 1 \in S
  <2>1. PICK f : IsWorth(f, cs, b, k)
    BY <1>2
  <2> DEFINE last == f[k] * b + DigitValues[cs[k + 1]]
             g == [n \in 0..(k + 1) |-> IF n <= k THEN f[n] ELSE last]
  <2>2. ASSUME NEW n \in 0..(k + 1)
        PROVE  g[n] = IF n = 0 THEN 0 ELSE g[n - 1] * b + DigitValues[cs[n]]
    <3> HIDE DEF last
    <3>1. CASE n <= k
      <4>1. n \in 0..k /\ (n # 0 => n - 1 \in 0..(k + 1) /\ n - 1 <= k)
        BY <3>1
      <4>2. f[n] = IF n = 0 THEN 0 ELSE f[n - 1] * b + DigitValues[cs[n]]
        BY <2>1, <4>1 DEF IsWorth
      <4>3. g[n] = f[n] /\ (n # 0 => g[n - 1] = f[n - 1])
        BY <3>1, <4>1
      <4> HIDE DEF g
      <4>4. QED
        BY <4>2, <4>3
    <3>2. CASE n = k + 1
      <4>1. ~ (n <= k) /\ n # 0 /\ n - 1 = k /\ k \in 0..(k + 1) /\ k <= k
        BY <3>2
      <4>2. g[n] = last /\ g[k] = f[k]
        BY <4>1
      <4> HIDE DEF g
      <4>3. QED
        BY <3>2, <4>1, <4>2 DEF last
    <3>3. QED
      BY <3>1, <3>2
  <2>3. g = [n \in 0..(k + 1) |-> g[n]]
    OBVIOUS
  <2> HIDE DEF g
  <2>4. g = [n \in 0..(k + 1) |-> IF n = 0 THEN 0 ELSE g[n - 1] * b + DigitValues[cs[n]]]
    BY <2>2, <2>3
  <2>5. IsWorth(g, cs, b, k + 1)
    BY <2>4 DEF IsWorth
  <2>6. QED
    BY <2>5
<1> HIDE DEF S
<1>3. 0..m \subseteq S
  BY <1>1, <1>2, UpTo
<1>4. QED
  BY <1>3 DEF S

LEMMA WorthIs ==
    ASSUME NEW cs, Len(cs) \in Nat, NEW b
    PROVE  \E f : IsWorth(f, cs, b, Len(cs)) /\ Worth(cs, b) = f[Len(cs)]
<1> DEFINE f == CHOOSE f : IsWorth(f, cs, b, Len(cs))
<1>1. Worth(cs, b) = f[Len(cs)]
  BY DEF Worth, IsWorth
<1>2. IsWorth(f, cs, b, Len(cs))
  BY WorthsExist
<1>3. QED
  BY <1>1, <1>2

LEMMA SameWorth ==
    ASSUME NEW cs, NEW ds, NEW b, NEW m \in Nat, NEW n \in Nat, NEW f, NEW g,
           IsWorth(f, cs, b, m), IsWorth(g, ds, b, n),
           NEW k \in Nat, k <= m, k <= n, \A i \in 1..k : cs[i] = ds[i]
    PROVE  f[k] = g[k]
<1> DEFINE S == {i \in 0..k : f[i] = g[i]}
<1>1. 0 \in S
  <2>1. f[0] = 0 /\ g[0] = 0
    BY DEF IsWorth
  <2>2. QED
    BY <2>1
<1>2. ASSUME NEW i \in 0..(k - 1), i \in S PROVE i + 1 \in S
  <2>1. i + 1 \in 1..k /\ i + 1 \in 0..m /\ i + 1 \in 0..n /\ i + 1 # 0 /\ (i + 1) - 1 = i
    OBVIOUS
  <2>2. /\ f[i + 1] = f[i] * b + DigitValues[cs[i + 1]]
        /\ g[i + 1] = g[i] * b + DigitValues[ds[i + 1]]
    BY <2>1 DEF IsWorth
  <2>3. f[i] = g[i] /\ cs[i + 1] = ds[i + 1]
    BY <1>2, <2>1
  <2>4. f[i + 1] = g[i + 1]
    BY <2>2, <2>3
  <2>5. QED
    BY <2>1, <2>4
<1> HIDE DEF S
<1>3. 0..k \subseteq S
  BY <1>1, <1>2, UpTo
<1>4. QED
  BY <1>3 DEF S

LEMMA WorthPushed ==
    ASSUME NEW S, NEW cs \in Seq(S), NEW d \in S, NEW b
    PROVE  Worth(cs \o <<d>>, b) = Worth(cs, b) * b + DigitValues[d]
<1> DEFINE q == cs \o <<d>>
           n == Len(cs)
<1>1. n \in Nat
  BY LenProperties
<1>2. /\ q \in Seq(S) /\ Len(q) = n + 1 /\ q[n + 1] = d
      /\ \A i \in 1..n : q[i] = cs[i]
  BY Pushed
<1> HIDE DEF q
<1>3. PICK f : IsWorth(f, q, b, n + 1) /\ Worth(q, b) = f[n + 1]
  <2>1. Len(q) \in Nat
    BY <1>1, <1>2
  <2>2. QED
    BY <1>2, <2>1, WorthIs
<1>4. PICK g : IsWorth(g, cs, b, n) /\ Worth(cs, b) = g[n]
  BY <1>1, WorthIs
<1>5. f[n] = g[n]
  <2>1. n + 1 \in Nat /\ n <= n + 1 /\ n <= n
    BY <1>1
  <2>2. QED
    BY <1>1, <1>2, <1>3, <1>4, <2>1, SameWorth
<1>6. f[n + 1] = f[n] * b + DigitValues[q[n + 1]]
  <2>1. n + 1 \in 0..(n + 1) /\ n + 1 # 0 /\ (n + 1) - 1 = n
    BY <1>1
  <2>2. QED
    BY <1>3, <2>1 DEF IsWorth
<1>7. QED
  BY <1>2, <1>3, <1>4, <1>5, <1>6 DEF q

LEMMA WorthNothing ==
    ASSUME NEW b
    PROVE  Worth(<<>>, b) = 0
<1>1. Len(<<>>) = 0 /\ Len(<<>>) \in Nat
  OBVIOUS
<1>2. PICK f : IsWorth(f, <<>>, b, Len(<<>>)) /\ Worth(<<>>, b) = f[Len(<<>>)]
  BY <1>1, WorthIs
<1>3. f[0] = 0
  BY <1>1, <1>2 DEF IsWorth
<1>4. QED
  BY <1>1, <1>2, <1>3

-----------------------------------------------------------------------------
(* The loops that push digits: f[n] is what they push for n.               *)
IsPushing(f, value, b) ==
    f = [n \in 0..value |-> IF n = 0 THEN <<>> ELSE <<DigitChars[(n % b) + 1]>> \o f[n \div b]]

LEMMA Division ==
    ASSUME NEW b \in NumericBase, NEW n \in Nat \ {0}
    PROVE  /\ n \div b \in 0..(n - 1)
           /\ n % b \in 0..(b - 1)
           /\ (n \div b) * b + (n % b) = n
           /\ n \div b = 0 => n % b = n
<1>1. CASE b = 2
  BY <1>1
<1>2. CASE b = 8
  BY <1>2
<1>3. CASE b = 10
  BY <1>3
<1>4. CASE b = 16
  BY <1>4
<1>5. QED
  BY <1>1, <1>2, <1>3, <1>4 DEF NumericBase

LEMMA PushingsExist ==
    ASSUME NEW b \in NumericBase, NEW value \in Nat
    PROVE  \E f : IsPushing(f, value, b)
<1> DEFINE S == {k \in 0..value : \E f : IsPushing(f, k, b)}
<1>1. 0 \in S
  <2> DEFINE f == [n \in 0..0 |-> <<>>]
  <2>1. f = [n \in 0..0 |-> IF n = 0 THEN <<>> ELSE <<DigitChars[(n % b) + 1]>> \o f[n \div b]]
    OBVIOUS
  <2> HIDE DEF f
  <2>2. IsPushing(f, 0, b)
    BY <2>1 DEF IsPushing
  <2>3. QED
    BY <2>2
<1>2. ASSUME NEW k \in 0..(value - 1), k \in S PROVE k + 1 \in S
  <2>1. PICK f : IsPushing(f, k, b)
    BY <1>2
  <2> DEFINE last == <<DigitChars[((k + 1) % b) + 1]>> \o f[(k + 1) \div b]
             g == [n \in 0..(k + 1) |-> IF n <= k THEN f[n] ELSE last]
  <2>2. ASSUME NEW n \in 0..(k + 1)
        PROVE  g[n] = IF n = 0 THEN <<>> ELSE <<DigitChars[(n % b) + 1]>> \o g[n \div b]
    <3> HIDE DEF last
    <3>1. n # 0 => n \div b \in 0..(n - 1)
      BY Division
    <3>2. CASE n <= k
      <4>1. n \in 0..k /\ (n # 0 => n \div b \in 0..(k + 1) /\ n \div b <= k)
        BY <3>1, <3>2
      <4>2. f[n] = IF n = 0 THEN <<>> ELSE <<DigitChars[(n % b) + 1]>> \o f[n \div b]
        BY <2>1, <4>1 DEF IsPushing
      <4>3. g[n] = f[n] /\ (n # 0 => g[n \div b] = f[n \div b])
        BY <3>2, <4>1
      <4> HIDE DEF g
      <4>4. QED
        BY <4>2, <4>3
    <3>3. CASE n = k + 1
      <4>1. ~ (n <= k) /\ n # 0 /\ n \div b \in 0..(k + 1) /\ n \div b <= k
        BY <3>1, <3>3
      <4>2. g[n] = last /\ g[n \div b] = f[n \div b]
        BY <4>1
      <4> HIDE DEF g
      <4>3. QED
        BY <3>3, <4>1, <4>2 DEF last
    <3>4. QED
      BY <3>2, <3>3
  <2>3. g = [n \in 0..(k + 1) |-> g[n]]
    OBVIOUS
  <2> HIDE DEF g
  <2>4. g = [n \in 0..(k + 1) |-> IF n = 0 THEN <<>> ELSE <<DigitChars[(n % b) + 1]>> \o g[n \div b]]
    BY <2>2, <2>3
  <2>5. IsPushing(g, k + 1, b)
    BY <2>4 DEF IsPushing
  <2>6. QED
    BY <2>5
<1> HIDE DEF S
<1>3. 0..value \subseteq S
  BY <1>1, <1>2, UpTo
<1>4. QED
  BY <1>3 DEF S

(* A number above 0 as the digits cs, the last one first.                  *)
NumberBackwards(cs, n, b) ==
    /\ cs \in Seq(DigitsOf(b))
    /\ Worth(Reverse(cs), b) = n
    /\ n # 0 => Reverse(cs) # <<>> /\ Reverse(cs)[1] # "0"
    /\ n = 0 => cs = <<>>

LEMMA PushingIs ==
    ASSUME NEW b \in NumericBase, NEW value \in Nat, NEW f, IsPushing(f, value, b)
    PROVE  \A n \in 0..value : NumberBackwards(f[n], n, b)
<1>1. b \in Nat /\ b >= 2
  BY DigitsOfBase
<1> DEFINE S == {k \in 0..value : \A n \in 0..k : NumberBackwards(f[n], n, b)}
<1>2. NumberBackwards(f[0], 0, b)
  <2>1. f[0] = <<>>
    BY DEF IsPushing
  <2>2. <<>> \in Seq(DigitsOf(b)) /\ Len(<<>>) = 0
    OBVIOUS
  <2>3. Reverse(<<>>) \in Seq(DigitsOf(b)) /\ Len(Reverse(<<>>)) = 0
    BY <2>2, ReverseIs
  <2>4. Reverse(<<>>) = <<>>
    BY <2>3, EmptySeq
  <2>5. QED
    BY <2>1, <2>2, <2>4, WorthNothing DEF NumberBackwards
<1>3. 0 \in S
  <2>1. 0..0 = {0} /\ 0 \in 0..value
    OBVIOUS
  <2>2. QED
    BY <1>2, <2>1
<1>4. ASSUME NEW k \in 0..(value - 1), k \in S PROVE k + 1 \in S
  <2> DEFINE n == k + 1
             rest == f[n \div b]
             d == DigitChars[(n % b) + 1]
             r == Reverse(rest)
  <2>1. n \in Nat \ {0} /\ n \in 0..value
    OBVIOUS
  <2>2. /\ n \div b \in 0..(n - 1) /\ n % b \in 0..(b - 1)
        /\ (n \div b) * b + (n % b) = n
        /\ n \div b = 0 => n % b = n
    BY <2>1, Division
  <2>3. n \div b \in 0..k
    BY <2>2
  <2>4. NumberBackwards(rest, n \div b, b)
    BY <1>4, <2>3
  <2>5. d \in DigitsOf(b) /\ DigitValues[d] = n % b /\ (d = "0" <=> n % b = 0)
    BY <2>2, DigitsOfBase
  <2>6. f[n] = <<d>> \o rest
    BY <2>1 DEF IsPushing
  <2> HIDE DEF n, rest, d
  <2>7. rest \in Seq(DigitsOf(b))
    BY <2>4 DEF NumberBackwards
  <2>8. f[n] \in Seq(DigitsOf(b)) /\ Reverse(f[n]) = r \o <<d>>
    BY <2>5, <2>6, <2>7, Fronted, ReverseFronted
  <2>9. r \in Seq(DigitsOf(b)) /\ Worth(r, b) = n \div b
    BY <2>4, <2>7, ReverseIs DEF NumberBackwards
  <2>10. Worth(r \o <<d>>, b) = (n \div b) * b + (n % b)
    BY <2>5, <2>9, WorthPushed
  <2>11. r \o <<d>> # <<>> /\ (r \o <<d>>)[1] # "0"
    <3> DEFINE q == r \o <<d>>
    <3>1. /\ q \in Seq(DigitsOf(b)) /\ Len(q) = Len(r) + 1
          /\ \A i \in 1..Len(r) : q[i] = r[i]
          /\ q[Len(r) + 1] = d
      BY <2>5, <2>9, Pushed
    <3> HIDE DEF q
    <3>2. Len(r) \in Nat
      BY <2>9, LenProperties
    <3>3. q # <<>>
      BY <3>1, <3>2, EmptySeq
    <3>4. CASE n \div b = 0
      <4>1. rest = <<>> /\ n % b # 0
        BY <2>1, <2>2, <2>4, <3>4 DEF NumberBackwards
      <4>2. Len(r) = 0
        BY <2>7, <4>1, ReverseIs
      <4>3. q[1] = d
        BY <3>1, <4>2
      <4>4. QED
        BY <2>5, <3>3, <4>1, <4>3 DEF q
    <3>5. CASE n \div b # 0
      <4>1. r # <<>> /\ r[1] # "0"
        BY <2>4, <3>5 DEF NumberBackwards
      <4>2. 1 \in 1..Len(r)
        BY <2>9, <3>2, <4>1, EmptySeq
      <4>3. q[1] # "0"
        BY <3>1, <4>1, <4>2
      <4>4. QED
        BY <3>3, <4>3 DEF q
    <3>6. QED
      BY <3>4, <3>5
  <2>12. NumberBackwards(f[n], n, b)
    BY <2>1, <2>2, <2>8, <2>10, <2>11 DEF NumberBackwards
  <2>13. ASSUME NEW j \in 0..(k + 1) PROVE NumberBackwards(f[j], j, b)
    <3>1. j \in 0..k \/ j = k + 1
      OBVIOUS
    <3>2. QED
      BY <1>4, <2>12, <3>1 DEF n
  <2>14. k + 1 \in 0..value
    OBVIOUS
  <2>15. QED
    BY <2>13, <2>14
<1> HIDE DEF S
<1>5. 0..value \subseteq S
  BY <1>3, <1>4, UpTo
<1>6. value \in S
  BY <1>5
<1>7. QED
  BY <1>6 DEF S

LEMMA DigitsIs ==
    ASSUME NEW b \in NumericBase, NEW value \in Nat
    PROVE  /\ Digits(value, b) \in Seq(DigitsOf(b))
           /\ Reverse(Digits(value, b)) \in Seq(DigitsOf(b))
           /\ Worth(Reverse(Digits(value, b)), b) = value
           /\ Reverse(Digits(value, b)) # <<>>
           /\ Reverse(Digits(value, b))[1] = "0" => Reverse(Digits(value, b)) = <<"0">>
<1> DEFINE ds == Digits(value, b)
           r == Reverse(ds)
<1>1. CASE value = 0
  <2>1. ds = <<"0">>
    BY <1>1 DEF Digits
  <2>2. "0" \in DigitsOf(b) /\ <<>> \in Seq(DigitsOf(b))
    BY DigitsOfBase
  <2>3. ds \in Seq(DigitsOf(b)) /\ Len(ds) = 1 /\ ds[1] = "0"
    BY <2>1, <2>2
  <2> HIDE DEF ds
  <2>4. r \in Seq(DigitsOf(b)) /\ Len(r) = 1 /\ r[1] = "0"
    <3>1. /\ r \in Seq(DigitsOf(b)) /\ Len(r) = Len(ds)
          /\ \A i \in 1..Len(ds) : r[i] = ds[Len(ds) - i + 1]
      BY <2>3, ReverseIs
    <3> HIDE DEF r
    <3>2. 1 \in 1..Len(ds) /\ Len(ds) - 1 + 1 = 1
      BY <2>3
    <3>3. QED
      BY <2>3, <3>1, <3>2
  <2> HIDE DEF r
  <2>5. r = <<"0">> /\ r # <<>>
    BY <2>4
  <2>6. Worth(r, b) = 0
    <3>1. <<>> \o <<"0">> = <<"0">>
      BY <2>2, <2>3, <2>1, ConcatEmptySeq
    <3>2. Worth(<<>> \o <<"0">>, b) = Worth(<<>>, b) * b + DigitValues["0"]
      BY <2>2, WorthPushed
    <3>3. b \in Nat /\ 0 \in 0..(b - 1) /\ DigitChars[0 + 1] = "0"
      BY DigitsOfBase DEF DigitChars
    <3>4. DigitValues["0"] = 0
      BY <3>3, DigitsOfBase
    <3>5. QED
      BY <2>5, <3>1, <3>2, <3>3, <3>4, WorthNothing
  <2>7. QED
    BY <1>1, <2>3, <2>4, <2>5, <2>6 DEF r, ds
<1>2. CASE value # 0
  <2> DEFINE f == CHOOSE f : IsPushing(f, value, b)
  <2>1. ds = f[value]
    BY <1>2 DEF Digits, IsPushing
  <2>2. IsPushing(f, value, b)
    BY PushingsExist
  <2> HIDE DEF f, ds
  <2>3. value \in 0..value
    OBVIOUS
  <2>4. NumberBackwards(ds, value, b)
    BY <2>1, <2>2, <2>3, PushingIs
  <2>5. ds \in Seq(DigitsOf(b)) /\ Worth(r, b) = value /\ r # <<>> /\ r[1] # "0"
    BY <1>2, <2>4 DEF NumberBackwards
  <2>6. r \in Seq(DigitsOf(b))
    BY <2>5, ReverseIs
  <2>7. QED
    BY <2>5, <2>6 DEF ds
<1>3. QED
  BY <1>1, <1>2

LEMMA UintDenotes ==
    ASSUME NEW b \in NumericBase, NEW value \in Nat
    PROVE  /\ FromUint(value, b) \in Seq(DigitsOf(b))
           /\ Denotes(FromUint(value, b), value, b)
<1> DEFINE r == Reverse(Digits(value, b))
<1>1. /\ r \in Seq(DigitsOf(b)) /\ Worth(r, b) = value /\ r # <<>>
      /\ r[1] = "0" => r = <<"0">>
  BY DigitsIs
<1>2. FromUint(value, b) = r
  BY DEF FromUint
<1> HIDE DEF r
<1>3. ~ (value < 0)
  OBVIOUS
<1>4. \A i \in DOMAIN r : IsDigit(r[i], b)
  BY <1>1, ElementOfSeq, LenProperties, DigitsOfBase
<1>5. QED
  BY <1>1, <1>2, <1>3, <1>4 DEF Denotes

LEMMA MinLongIs == MinLong \in Int /\ MinLong < 0
<1>1. Width - 1 \in Nat
  BY NumeralsAssumption
<1>2. Power2(Width - 1) \in Nat \ {0}
  BY <1>1, Power2Is
<1>3. QED
  BY <1>2 DEF MinLong

Signed == {"-"} \cup ToSet(DigitChars)

LEMMA TenDigits == 10 \in NumericBase /\ DigitsOf(10) \subseteq Signed /\ "-" \in Signed
<1>1. DigitsOf(10) \subseteq DigitsOf(16)
  BY DEF DigitsOf
<1>2. QED
  BY <1>1, DigitCharsAre DEF NumericBase, Signed

LEMMA NegativeIs ==
    ASSUME NEW ds \in Seq(Signed)
    PROVE  /\ Reverse(Append(ds, "-")) \in Seq(Signed)
           /\ Reverse(Append(ds, "-")) # <<>>
           /\ Reverse(Append(ds, "-"))[1] = "-"
           /\ Tail(Reverse(Append(ds, "-"))) = Reverse(ds)
<1>1. Reverse(ds) \in Seq(Signed) /\ "-" \in Signed
  BY ReverseIs, TenDigits
<1> DEFINE r == Reverse(ds)
           q == <<"-">> \o r
<1>2. Reverse(Append(ds, "-")) = q
  BY <1>1, ReverseAppended
<1>3. q \in Seq(Signed) /\ Len(q) = Len(r) + 1 /\ q[1] = "-" /\ Tail(q) = r /\ Len(r) \in Nat
  BY <1>1, Fronted, TailFronted, LenProperties
<1> HIDE DEF q
<1>4. q # <<>>
  BY <1>3, EmptySeq
<1>5. QED
  BY <1>2, <1>3, <1>4

LEMMA IntDenotes ==
    ASSUME NEW value \in Int
    PROVE  /\ FromInt(value) \in Seq(Signed)
           /\ Denotes(FromInt(value), value, 10)
<1>1. CASE value = MinLong
  BY <1>1, NumeralsAssumption DEF FromInt, Signed
<1>2. CASE value # MinLong /\ value < 0
  <2> DEFINE ds == Digits(-value, 10)
             r == Reverse(ds)
             text == Reverse(Append(ds, "-"))
  <2>1. -value \in Nat /\ 10 \in NumericBase
    BY <1>2, TenDigits
  <2>2. /\ ds \in Seq(DigitsOf(10)) /\ r \in Seq(DigitsOf(10)) /\ Worth(r, 10) = -value
        /\ r[1] = "0" => r = <<"0">>
    BY <2>1, DigitsIs
  <2>3. FromInt(value) = text
    BY <1>2 DEF FromInt
  <2> HIDE DEF ds
  <2>4. ds \in Seq(Signed)
    BY <2>2, TenDigits, SeqMonotonic
  <2>5. text \in Seq(Signed) /\ text # <<>> /\ text[1] = "-" /\ Tail(text) = r
    BY <2>4, NegativeIs
  <2> HIDE DEF r, text
  <2>6. \A i \in DOMAIN r : IsDigit(r[i], 10)
    BY <2>1, <2>2, ElementOfSeq, LenProperties, DigitsOfBase
  <2>7. QED
    BY <1>2, <2>2, <2>3, <2>5, <2>6 DEF Denotes
<1>3. CASE value # MinLong /\ ~ (value < 0)
  <2>1. value \in Nat /\ FromInt(value) = FromUint(value, 10)
    BY <1>3 DEF FromInt, FromUint
  <2>2. FromUint(value, 10) \in Seq(DigitsOf(10)) /\ Denotes(FromUint(value, 10), value, 10)
    BY <2>1, TenDigits, UintDenotes
  <2>3. FromUint(value, 10) \in Seq(Signed)
    BY <2>2, TenDigits, SeqMonotonic
  <2>4. QED
    BY <2>1, <2>2, <2>3
<1>4. QED
  BY <1>1, <1>2, <1>3

LEMMA NumeralsDenoteNext ==
    ASSUME NumeralsDenote, [FormatsNext]_formatVars
    PROVE  NumeralsDenote'
<1>1. ASSUME NEW format, NEW args, FormatString(format, args) PROVE NumeralsDenote'
  <2>1. call'[1] = "Format"
    BY <1>1 DEF FormatString, New
  <2>2. QED
    BY <2>1 DEF NumeralsDenote
<1>2. ASSUME NEW value \in MinLong..MaxLong, ConvertInt(value) PROVE NumeralsDenote'
  <2>1. call' = <<"FromInt", value>> /\ string'.text = FromInt(value)
    BY <1>2 DEF ConvertInt, New
  <2>2. call'[1] = "FromInt" /\ call'[2] = value /\ call'[1] # "FromUint"
    BY <2>1
  <2>3. Denotes(string'.text, call'[2], 10)
    BY <2>1, <2>2, IntDenotes
  <2>4. QED
    BY <2>2, <2>3 DEF NumeralsDenote
<1>3. ASSUME NEW value \in 0..MaxUlong, NEW b \in NumericBase \cup {3}, ConvertUint(value, b)
      PROVE  NumeralsDenote'
  <2>1. call' = <<"FromUint", value, b>>
    BY <1>3 DEF ConvertUint, New
  <2>2. call'[1] = "FromUint" /\ call'[2] = value /\ call'[3] = b /\ call'[1] # "FromInt"
    BY <2>1
  <2>3. CASE b \in NumericBase
    <3>1. string'.text = FromUint(value, b) /\ value \in Nat
      BY <1>3, <2>3 DEF ConvertUint, New
    <3>2. Denotes(string'.text, call'[2], call'[3])
      BY <2>2, <2>3, <3>1, UintDenotes
    <3>3. QED
      BY <2>2, <3>2 DEF NumeralsDenote
  <2>4. CASE b \notin NumericBase
    <3>1. outcome' = "thrown"
      BY <1>3, <2>4 DEF ConvertUint, New
    <3>2. QED
      BY <2>2, <3>1 DEF NumeralsDenote
  <2>5. QED
    BY <2>3, <2>4
<1>4. ASSUME NEW f, ConvertFloat(f) PROVE NumeralsDenote'
  <2>1. call' = <<"FromFloat2", f>>
    BY <1>4 DEF ConvertFloat, New
  <2>2. call'[1] = "FromFloat2"
    BY <2>1
  <2>3. QED
    BY <2>2 DEF NumeralsDenote
<1>5. ASSUME NEW format, ParseString(format) PROVE NumeralsDenote'
  <2>1. call'[1] = "Parse"
    BY <1>5 DEF ParseString
  <2>2. QED
    BY <2>1 DEF NumeralsDenote
<1>6. CASE UNCHANGED formatVars
  BY <1>6 DEF formatVars, NumeralsDenote
<1>7. QED
  BY <1>1, <1>2, <1>3, <1>4, <1>5, <1>6 DEF FormatsNext, Makes, Parses

(***************************************************************************)
(* For integers of every width: each becomes digits that are worth it, the *)
(* least _long included, with a sign if it is negative and no zeros in     *)
(* front, in every base that AvmStringFromUint accepts.                    *)
(***************************************************************************)
THEOREM NumeralsDenoteAlways == FormatsSpec => []NumeralsDenote
<1>1. FormatsInit => NumeralsDenote
  BY DEF FormatsInit, NumeralsDenote
<1>2. NumeralsDenote /\ [FormatsNext]_formatVars => NumeralsDenote'
  BY NumeralsDenoteNext
<1>3. QED
  BY <1>1, <1>2, PTL DEF FormatsSpec

-----------------------------------------------------------------------------
(* Floats: their two parts are worth the number of their eighths.          *)
LEMMA Quotient ==
    ASSUME NEW x \in Nat, NEW y \in Nat \ {0}
    PROVE  x \div y \in Nat /\ x % y \in 0..(y - 1) /\ x = (x \div y) * y + (x % y)
OBVIOUS

LEMMA OnlyQuotient ==
    ASSUME NEW x \in Nat, NEW y \in Nat \ {0}, NEW q \in Nat, NEW r \in 0..(y - 1), x = q * y + r
    PROVE  x \div y = q
<1> DEFINE d == x \div y
           m == x % y
<1>1. d \in Nat /\ m \in 0..(y - 1) /\ x = d * y + m
  BY Quotient
<1> HIDE DEF d, m
<1>2. (d - q) * y = r - m
  BY <1>1
<1>3. CASE d - q >= 1
  <2>1. (d - q) * y >= y
    BY <1>1, <1>3
  <2>2. QED
    BY <1>1, <1>2, <2>1
<1>4. CASE d - q <= -1
  <2>1. (d - q) * y <= -y
    BY <1>1, <1>4
  <2>2. QED
    BY <1>1, <1>2, <2>1
<1>5. QED
  BY <1>1, <1>3, <1>4 DEF d

(* A common factor does not count.                                         *)
LEMMA Cancelled ==
    ASSUME NEW x \in Nat, NEW a \in Nat \ {0}, NEW y \in Nat \ {0}
    PROVE  (x * a) \div (a * y) = x \div y
<1> DEFINE d == x \div y
           m == x % y
<1>1. d \in Nat /\ m \in 0..(y - 1) /\ x = d * y + m
  BY Quotient
<1> HIDE DEF d, m
<1>2. x * a \in Nat /\ a * y \in Nat \ {0}
  OBVIOUS
<1>3. x * a = d * (a * y) + m * a
  <2>1. x * a = (d * y + m) * a
    BY <1>1
  <2>2. (d * y + m) * a = (d * y) * a + m * a
    BY <1>1
  <2>3. (d * y) * a = d * (a * y)
    BY <1>1
  <2>4. QED
    BY <2>1, <2>2, <2>3
<1>4. m * a \in 0..(a * y - 1)
  <2>1. m * a \in Nat /\ m + 1 <= y
    BY <1>1
  <2>2. (m + 1) * a <= y * a
    BY <1>1, <2>1
  <2>3. (m + 1) * a = m * a + a /\ y * a = a * y
    BY <1>1
  <2>4. m * a + a <= a * y
    BY <2>2, <2>3
  <2>5. QED
    BY <1>2, <2>1, <2>4
<1>5. (x * a) \div (a * y) = d
  BY <1>1, <1>2, <1>3, <1>4, OnlyQuotient
<1>6. QED
  BY <1>5 DEF d

(* Divided by y, and by 8 after that.                                      *)
LEMMA DividedTwice ==
    ASSUME NEW x \in Nat, NEW y \in Nat \ {0}
    PROVE  x \div (8 * y) = (x \div y) \div 8
<1> DEFINE d == x \div y
           m == x % y
           k == d \div 8
           l == d % 8
<1>1. d \in Nat /\ m \in 0..(y - 1) /\ x = d * y + m
  BY Quotient
<1> HIDE DEF d, m
<1>2. k \in Nat /\ l \in 0..7 /\ d = k * 8 + l
  BY <1>1
<1> HIDE DEF k, l
<1>3. x = k * (8 * y) + (l * y + m)
  <2>1. d * y = (k * 8 + l) * y
    BY <1>2
  <2>2. (k * 8 + l) * y = (k * 8) * y + l * y
    BY <1>2
  <2>3. (k * 8) * y = k * (8 * y)
    BY <1>2
  <2>4. l * y \in Nat /\ k * (8 * y) \in Nat
    BY <1>2
  <2>5. QED
    BY <1>1, <2>1, <2>2, <2>3, <2>4
<1>4. l * y + m \in 0..((8 * y) - 1)
  <2>1. l * y \in Nat /\ l * y <= 7 * y
    BY <1>2
  <2>2. QED
    BY <1>1, <2>1
<1>5. 8 * y \in Nat \ {0}
  OBVIOUS
<1>6. x \div (8 * y) = k
  BY <1>2, <1>3, <1>4, <1>5, OnlyQuotient
<1>7. QED
  BY <1>6 DEF k, d

LEMMA FloatIs ==
    ASSUME NEW f \in Floats
    PROVE  /\ f.isNegative \in BOOLEAN
           /\ f.exponent - Bias \in Int /\ TooBig \in Int /\ Bias \in Int
           /\ Mantissa(f) \in Nat
<1>1. FractionBits \in Nat /\ ExponentBits - 1 \in Nat
  BY NumeralsAssumption
<1>2. Power2(FractionBits) \in Nat \ {0} /\ Power2(ExponentBits - 1) \in Nat \ {0}
  BY <1>1, Power2Is
<1>3. /\ f.isNegative \in BOOLEAN
      /\ f.exponent \in 0..(Power2(ExponentBits) - 1)
      /\ f.mantissa \in 0..(Power2(FractionBits) - 1)
  BY DEF Floats
<1>4. f.exponent \in Int /\ f.mantissa \in Nat
  BY <1>3
<1>5. Bias \in Int /\ TooBig \in Int
  BY <1>1, <1>2 DEF Bias, TooBig
<1>6. QED
  BY <1>2, <1>3, <1>4, <1>5 DEF Mantissa

(* The shifts of the code: the number of eighths, and of ones.             *)
LEMMA Shifted ==
    ASSUME NEW f \in Floats, NEW e \in -3..TooBig
    PROVE  LET q == (Mantissa(f) * Power2(e + 3)) \div Power2(FractionBits)
           IN  /\ q \in Nat
               /\ Mantissa(f) \div Power2(FractionBits - 3 - e) = q
               /\ Mantissa(f) \div Power2(FractionBits - e) = q \div 8
<1> DEFINE m == Mantissa(f)
           y == Power2(FractionBits - 3 - e)
           a == Power2(e + 3)
<1>1. m \in Nat /\ TooBig \in Int /\ FractionBits \in Nat
  BY FloatIs, NumeralsAssumption
<1>2. e \in Int /\ e <= FractionBits - 5
  BY <1>1 DEF TooBig
<1>3. /\ FractionBits - 3 - e \in Nat /\ e + 3 \in Nat
      /\ (e + 3) + (FractionBits - 3 - e) = FractionBits
      /\ 3 + (FractionBits - 3 - e) = FractionBits - e
  BY <1>1, <1>2
<1>4. y \in Nat \ {0} /\ a \in Nat \ {0}
  BY <1>3, Power2Is
<1>5. Power2(FractionBits) = a * y
  BY <1>3, Power2Sum
<1>6. Power2(3) = 8
  <2>1. Power2(0) = 1 /\ Power2(0 + 1) = 2 * Power2(0) /\ Power2(1 + 1) = 2 * Power2(1)
        /\ Power2(2 + 1) = 2 * Power2(2)
    BY Power2Is
  <2>2. 0 + 1 = 1 /\ 1 + 1 = 2 /\ 2 + 1 = 3
    OBVIOUS
  <2>3. QED
    BY <2>1, <2>2
<1>7. Power2(FractionBits - e) = 8 * y
  <2>1. Power2(3 + (FractionBits - 3 - e)) = Power2(3) * y
    BY <1>3, Power2Sum
  <2>2. QED
    BY <1>3, <1>6, <2>1
<1> HIDE DEF m, y, a
<1>8. (m * a) \div (a * y) = m \div y
  BY <1>1, <1>4, Cancelled
<1>9. m \div (8 * y) = (m \div y) \div 8
  BY <1>1, <1>4, DividedTwice
<1>10. m \div y \in Nat
  BY <1>1, <1>4, Quotient
<1>11. (m * a) \div Power2(FractionBits) = m \div y
  BY <1>5, <1>8
<1>12. m \div Power2(FractionBits - e) = (m \div y) \div 8
  BY <1>7, <1>9
<1>13. QED
  BY <1>10, <1>11, <1>12 DEF m, a, y

LEMMA Three ==
    ASSUME NEW S, NEW a \in S, NEW b \in S, NEW c \in S
    PROVE  <<a, b, c>> = <<a>> \o (<<b>> \o <<c>>)
<1> DEFINE r == <<b>> \o <<c>>
           q == <<a>> \o r
           p == <<a, b, c>>
<1>1. <<c>> \in Seq(S) /\ Len(<<c>>) = 1 /\ <<c>>[1] = c
  BY Single
<1>2. r \in Seq(S) /\ Len(r) = 1 + 1 /\ r[1] = b /\ r[1 + 1] = c
  BY <1>1, Fronted
<1> HIDE DEF r
<1>3. q \in Seq(S) /\ Len(q) = Len(r) + 1 /\ q[1] = a /\ \A n \in 1..Len(r) : q[n + 1] = r[n]
  <2>1. r \in Seq(S)
    BY <1>2
  <2>2. QED
    BY ONLY a \in S, <2>1, Fronted
<1> HIDE DEF q
<1>4. Len(q) = 3 /\ q[1 + 1] = r[1] /\ q[2 + 1] = r[2]
  BY <1>2, <1>3
<1>5. p \in Seq(S) /\ Len(p) = 3 /\ p[1] = a /\ p[2] = b /\ p[3] = c
  OBVIOUS
<1> HIDE DEF p
<1>6. 1 + 1 = 2 /\ 2 + 1 = 3
  OBVIOUS
<1>7. q[1] = p[1] /\ q[2] = p[2] /\ q[3] = p[3]
  BY <1>2, <1>3, <1>4, <1>5, <1>6
<1>8. \A n \in 1..Len(p) : p[n] = q[n]
  BY <1>5, <1>7
<1>9. p = q
  BY <1>3, <1>4, <1>5, <1>8, SeqEqual
<1>10. QED
  BY <1>9 DEF p, q, r

(* Three digits behind the others.                                         *)
LEMMA WorthOfThree ==
    ASSUME NEW S, NEW cs \in Seq(S), NEW i \in S, NEW j \in S, NEW k \in S, Worth(cs, 10) \in Nat,
           DigitValues[i] \in 0..9, DigitValues[j] \in 0..9, DigitValues[k] \in 0..9
    PROVE  /\ cs \o <<i, j, k>> \in Seq(S)
           /\ Worth(cs \o <<i, j, k>>, 10)
                = 1000 * Worth(cs, 10) + (100 * DigitValues[i] + 10 * DigitValues[j] + DigitValues[k])
<1> DEFINE x == cs \o <<i>>
           y == x \o <<j>>
           z == y \o <<k>>
<1>1. x \in Seq(S) /\ y \in Seq(S) /\ z \in Seq(S)
  <2>1. x \in Seq(S)
    BY Pushed
  <2> HIDE DEF x
  <2>2. y \in Seq(S)
    BY <2>1, Pushed
  <2> HIDE DEF y
  <2>3. z \in Seq(S)
    BY <2>2, Pushed
  <2>4. QED
    BY <2>1, <2>2, <2>3
<1>2. z = cs \o <<i, j, k>>
  <2>1. <<i, j, k>> = <<i>> \o (<<j>> \o <<k>>)
    BY Three
  <2>2. /\ <<i>> \in Seq(S) /\ <<j>> \in Seq(S) /\ <<k>> \in Seq(S)
    BY Single
  <2>3. (<<j>> \o <<k>>) \in Seq(S)
    BY <2>2, ConcatProperties
  <2>4. (x \o <<j>>) \o <<k>> = x \o (<<j>> \o <<k>>)
    BY <1>1, <2>2, ConcatAssociative
  <2>5. (cs \o <<i>>) \o (<<j>> \o <<k>>) = cs \o (<<i>> \o (<<j>> \o <<k>>))
    BY <2>2, <2>3, ConcatAssociative
  <2>6. QED
    BY <2>1, <2>4, <2>5
<1>3. Worth(x, 10) = Worth(cs, 10) * 10 + DigitValues[i]
  BY WorthPushed
<1> HIDE DEF x
<1>4. Worth(y, 10) = Worth(x, 10) * 10 + DigitValues[j]
  BY <1>1, WorthPushed
<1> HIDE DEF y
<1>5. Worth(z, 10) = Worth(y, 10) * 10 + DigitValues[k]
  BY <1>1, WorthPushed
<1> HIDE DEF z
<1> DEFINE w == Worth(cs, 10)
           u == DigitValues[i]
           v == DigitValues[j]
           t == DigitValues[k]
<1>6. w \in Nat /\ u \in 0..9 /\ v \in 0..9 /\ t \in 0..9
  OBVIOUS
<1>7. Worth(z, 10) = ((w * 10 + u) * 10 + v) * 10 + t
  BY <1>3, <1>4, <1>5
<1> HIDE DEF w, u, v, t
<1>8. ((w * 10 + u) * 10 + v) * 10 + t = 1000 * w + (100 * u + 10 * v + t)
  BY <1>6
<1>9. QED
  BY <1>1, <1>2, <1>7, <1>8 DEF w, u, v, t

LEMMA EighthIs ==
    ASSUME NEW n \in 0..7
    PROVE  LET t == Eighths[n + 1]
               Decimal == {DigitChars[k] : k \in 1..10}
           IN  /\ t = <<t[1], t[2], t[3]>>
               /\ t[1] \in Decimal /\ t[2] \in Decimal /\ t[3] \in Decimal
               /\ DigitValues[t[1]] \in 0..9 /\ DigitValues[t[2]] \in 0..9
               /\ DigitValues[t[3]] \in 0..9
               /\ 100 * DigitValues[t[1]] + 10 * DigitValues[t[2]] + DigitValues[t[3]] = 125 * n
<1>1. /\ DigitValues["0"] = 0 /\ DigitValues["1"] = 1 /\ DigitValues["2"] = 2
      /\ DigitValues["3"] = 3 /\ DigitValues["5"] = 5 /\ DigitValues["6"] = 6 /\ DigitValues["7"] = 7
      /\ DigitValues["8"] = 8
  <2>1. /\ DigitChars[1] = "0" /\ DigitChars[2] = "1" /\ DigitChars[3] = "2" /\ DigitChars[4] = "3"
        /\ DigitChars[6] = "5" /\ DigitChars[7] = "6" /\ DigitChars[8] = "7"
        /\ DigitChars[9] = "8"
    BY DEF DigitChars
  <2>2. \A k \in {1, 2, 3, 4, 6, 7, 8, 9} : DigitValues[DigitChars[k]] = k - 1
    BY DigitValueIs
  <2>3. QED
    BY <2>1, <2>2
<1>2. {"0", "1", "2", "3", "5", "6", "7", "8"} \subseteq {DigitChars[k] : k \in 1..10}
  <2>1. /\ DigitChars[1] = "0" /\ DigitChars[2] = "1" /\ DigitChars[3] = "2" /\ DigitChars[4] = "3"
        /\ DigitChars[6] = "5" /\ DigitChars[7] = "6" /\ DigitChars[8] = "7"
        /\ DigitChars[9] = "8"
    BY DEF DigitChars
  <2>2. {1, 2, 3, 4, 6, 7, 8, 9} \subseteq 1..10
    OBVIOUS
  <2>3. QED
    BY <2>1, <2>2
<1>3. n \in {0, 1, 2, 3, 4, 5, 6, 7}
  OBVIOUS
<1> DEFINE Decimal == {DigitChars[k] : k \in 1..10}
<1> HIDE DEF Decimal
<1>4. {"0", "1", "2", "3", "5", "6", "7", "8"} \subseteq Decimal
  BY <1>2 DEF Decimal
<1>5. CASE n = 0
  BY <1>1, <1>4, <1>5 DEF Eighths, Decimal
<1>6. CASE n = 1
  BY <1>1, <1>4, <1>6 DEF Eighths, Decimal
<1>7. CASE n = 2
  BY <1>1, <1>4, <1>7 DEF Eighths, Decimal
<1>8. CASE n = 3
  BY <1>1, <1>4, <1>8 DEF Eighths, Decimal
<1>9. CASE n = 4
  BY <1>1, <1>4, <1>9 DEF Eighths, Decimal
<1>10. CASE n = 5
  BY <1>1, <1>4, <1>10 DEF Eighths, Decimal
<1>11. CASE n = 6
  BY <1>1, <1>4, <1>11 DEF Eighths, Decimal
<1>12. CASE n = 7
  BY <1>1, <1>4, <1>12 DEF Eighths, Decimal
<1>13. QED
  BY <1>3, <1>5, <1>6, <1>7, <1>8, <1>9, <1>10, <1>11, <1>12

(* The body of FloatsAreTruncated, of any text.                            *)
Truncated(text, f) ==
    LET e == f.exponent - Bias
        unsigned == IF f.isNegative /\ text[1] = "-" THEN Tail(text) ELSE text
        eighths == (Mantissa(f) * Power2(e + 3)) \div Power2(FractionBits)
    IN  \/ e > Bias
        \/ e > TooBig /\ text = <<"i", "n", "f">>
        \/ e < -3 /\ text = <<"0">>
        \/ /\ e \in -3..TooBig
           /\ f.isNegative <=> text[1] = "-"
           /\ Len(unsigned) > 4 /\ unsigned[Len(unsigned) - 3] = "."
           /\ Worth(SubSeq(unsigned, 1, Len(unsigned) - 4)
                       \o SubSeq(unsigned, Len(unsigned) - 2, Len(unsigned)), 10) = 125 * eighths

Pointed == {"."} \cup Signed

LEMMA PartsArePointed ==
    ASSUME NEW q \in Nat
    PROVE  FromInt(q \div 8) \in Seq(Pointed) /\ Eighths[(q % 8) + 1] \in Seq(Pointed)
<1> DEFINE v == q \div 8
           n == q % 8
           t == Eighths[n + 1]
<1>1. v \in Int /\ n \in 0..7
  OBVIOUS
<1> HIDE DEF v, n
<1>2. FromInt(v) \in Seq(Signed)
  BY <1>1, IntDenotes
<1>3. /\ t = <<t[1], t[2], t[3]>>
      /\ t[1] \in DigitsOf(10) /\ t[2] \in DigitsOf(10) /\ t[3] \in DigitsOf(10)
  BY <1>1, EighthIs DEF DigitsOf
<1> DEFINE x == t[1]
           y == t[2]
           z == t[3]
<1> HIDE DEF t
<1>4. x \in Pointed /\ y \in Pointed /\ z \in Pointed /\ t = <<x, y, z>>
  BY <1>3, TenDigits DEF Pointed
<1> HIDE DEF x, y, z
<1>5. <<x, y, z>> \in Seq(Pointed)
  BY <1>4
<1>6. Signed \subseteq Pointed
  BY DEF Pointed
<1>7. FromInt(v) \in Seq(Pointed) /\ t \in Seq(Pointed)
  BY <1>2, <1>4, <1>5, <1>6, SeqMonotonic
<1>8. QED
  BY <1>7 DEF t, v, n

(* Digits, a point and three digits.                                       *)
LEMMA PointedIs ==
    ASSUME NEW q \in Nat
    PROVE  LET ones == FromInt(q \div 8)
               rest == ones \o <<".">> \o Eighths[(q % 8) + 1]
           IN  /\ rest \in Seq(Pointed) /\ Len(rest) > 4
               /\ rest[1] # "-"
               /\ rest[Len(rest) - 3] = "."
               /\ Worth(SubSeq(rest, 1, Len(rest) - 4) \o SubSeq(rest, Len(rest) - 2, Len(rest)), 10)
                    = 125 * q
<1> DEFINE v == q \div 8
           n == q % 8
           ones == FromInt(v)
           t == Eighths[n + 1]
           D == DigitsOf(10)
           rest == (ones \o <<".">>) \o t
<1>1. v \in Nat /\ n \in 0..7 /\ q = v * 8 + n
  OBVIOUS
<1> HIDE DEF v, n
<1>2. ones = FromUint(v, 10)
  BY <1>1, MinLongIs DEF FromInt, FromUint
<1>3. ones \in Seq(D) /\ Denotes(ones, v, 10)
  BY <1>1, <1>2, TenDigits, UintDenotes
<1> HIDE DEF ones
<1>4. ones # <<>> /\ Worth(ones, 10) = v
  BY <1>1, <1>3 DEF Denotes
<1>5. /\ t = <<t[1], t[2], t[3]>> /\ t[1] \in D /\ t[2] \in D /\ t[3] \in D
      /\ DigitValues[t[1]] \in 0..9 /\ DigitValues[t[2]] \in 0..9 /\ DigitValues[t[3]] \in 0..9
      /\ 100 * DigitValues[t[1]] + 10 * DigitValues[t[2]] + DigitValues[t[3]] = 125 * n
  BY <1>1, EighthIs DEF DigitsOf
<1> HIDE DEF t
<1>6. t \in Seq(D) /\ Len(t) = 3
  <2> DEFINE x == t[1]
             y == t[2]
             z == t[3]
  <2> HIDE DEF x, y, z
  <2>1. x \in D /\ y \in D /\ z \in D /\ t = <<x, y, z>>
    BY <1>5 DEF x, y, z
  <2> HIDE DEF D
  <2>2. <<x, y, z>> \in Seq(D) /\ Len(<<x, y, z>>) = 3
    BY <2>1
  <2>3. QED
    BY <2>1, <2>2 DEF D
<1>7. Worth(ones \o t, 10) = 125 * q
  <2>1. ones \o <<t[1], t[2], t[3]>> = ones \o t
    BY <1>5
  <2>2. Worth(ones \o t, 10)
           = 1000 * Worth(ones, 10) + (100 * DigitValues[t[1]] + 10 * DigitValues[t[2]] + DigitValues[t[3]])
    <3>1. Worth(ones, 10) \in Nat
      BY <1>1, <1>4
    <3> DEFINE all == ones \o <<t[1], t[2], t[3]>>
               worth == 1000 * Worth(ones, 10)
                          + (100 * DigitValues[t[1]] + 10 * DigitValues[t[2]] + DigitValues[t[3]])
    <3>2. Worth(all, 10) = worth
      BY <1>3, <1>5, <3>1, WorthOfThree
    <3>3. all = ones \o t
      BY <2>1
    <3> HIDE DEF all, worth
    <3>4. Worth(ones \o t, 10) = worth
      BY <3>2, <3>3
    <3>5. QED
      BY <3>4 DEF worth
  <2>3. Worth(ones \o t, 10) = 1000 * v + 125 * n
    BY <1>4, <1>5, <2>2
  <2>4. 1000 * v + 125 * n = 125 * q
    BY <1>1
  <2>5. QED
    BY <2>3, <2>4
<1>8. D \subseteq Pointed /\ "." \in Pointed
  BY TenDigits DEF Pointed
<1> DEFINE m == Len(ones)
           front == ones \o <<".">>
<1>9. ones \in Seq(Pointed) /\ t \in Seq(Pointed) /\ m \in Nat \ {0}
  <2>1. ones \in Seq(Pointed) /\ t \in Seq(Pointed)
    BY <1>3, <1>6, <1>8, SeqMonotonic
  <2>2. m \in Nat /\ m # 0
    BY <1>3, <1>4, LenProperties, EmptySeq
  <2>3. QED
    BY <2>1, <2>2
<1>10. /\ front \in Seq(Pointed) /\ Len(front) = m + 1 /\ front[m + 1] = "."
       /\ \A i \in 1..m : front[i] = ones[i]
  BY <1>8, <1>9, Pushed
<1> HIDE DEF front
<1>11. rest = front \o t
  BY DEF front
<1> HIDE DEF rest
<1>12. rest \in Seq(Pointed) /\ Len(rest) = m + 4
  <2>1. rest \in Seq(Pointed) /\ Len(rest) = Len(front) + Len(t)
    BY <1>9, <1>10, <1>11, ConcatProperties
  <2>2. Len(front) + Len(t) = m + 4
    BY <1>6, <1>9, <1>10
  <2>3. QED
    BY <2>1, <2>2
<1>13. \A i \in 1..(m + 4) : rest[i] = IF i <= m + 1 THEN front[i] ELSE t[i - (m + 1)]
  <2>1. \A i \in 1..(Len(front) + Len(t)) : rest[i] = IF i <= Len(front) THEN front[i] ELSE t[i - Len(front)]
    BY <1>9, <1>10, <1>11, ConcatProperties
  <2>2. Len(front) + Len(t) = m + 4
    BY <1>6, <1>9, <1>10
  <2>3. QED
    BY <1>10, <2>1, <2>2
<1>14. rest[1] # "-"
  <2>1. 1 \in 1..m /\ 1 \in 1..(m + 4) /\ 1 <= m + 1
    BY <1>9
  <2>2. rest[1] = ones[1]
    BY <1>10, <1>13, <2>1
  <2>3. ones[1] \in D
    BY <1>3, <2>1, ElementOfSeq
  <2>4. "-" \notin D
    <3>1. ASSUME NEW k \in 1..10 PROVE DigitChars[k] # "-"
      <4>1. k \in {1, 2, 3, 4, 5, 6, 7, 8, 9, 10}
        OBVIOUS
      <4>2. QED
        BY <4>1 DEF DigitChars
    <3>2. QED
      BY <3>1 DEF DigitsOf
  <2>5. QED
    BY <2>2, <2>3, <2>4
<1>15. rest[Len(rest) - 3] = "."
  <2>1. Len(rest) - 3 = m + 1 /\ m + 1 \in 1..(m + 4) /\ m + 1 <= m + 1
    BY <1>9, <1>12
  <2>2. QED
    BY <1>10, <1>13, <2>1
<1>16. SubSeq(rest, 1, Len(rest) - 4) = ones
  <2> DEFINE a == SubSeq(rest, 1, m)
  <2>1. Len(rest) - 4 = m /\ m \in 0..Len(rest)
    BY <1>9, <1>12
  <2>2. a \in Seq(Pointed) /\ Len(a) = m /\ \A i \in 1..m : a[i] = rest[i]
    BY <1>12, <2>1, Cut
  <2> HIDE DEF a
  <2>3. ASSUME NEW i \in 1..m PROVE a[i] = ones[i]
    <3>1. i \in 1..(m + 4) /\ i <= m + 1
      BY <1>9
    <3>2. QED
      BY <1>10, <1>13, <2>2, <3>1
  <2>4. a = ones
    BY <1>9, <2>2, <2>3, SeqEqual
  <2>5. QED
    BY <2>1, <2>4 DEF a
<1>17. SubSeq(rest, Len(rest) - 2, Len(rest)) = t
  <2> DEFINE a == SubSeq(rest, (m + 1) + 1, Len(rest))
  <2>1. Len(rest) - 2 = (m + 1) + 1 /\ m + 1 \in 0..Len(rest) /\ Len(rest) - (m + 1) = 3
    BY <1>9, <1>12
  <2>2. /\ a \in Seq(Pointed) /\ Len(a) = Len(rest) - (m + 1)
        /\ \A i \in 1..(Len(rest) - (m + 1)) : a[i] = rest[(m + 1) + i]
    BY <1>12, <2>1, Rest
  <2> HIDE DEF a
  <2>3. ASSUME NEW i \in 1..3 PROVE a[i] = t[i]
    <3>1. (m + 1) + i \in 1..(m + 4) /\ ~ ((m + 1) + i <= m + 1) /\ ((m + 1) + i) - (m + 1) = i
      BY <1>9
    <3>2. a[i] = rest[(m + 1) + i]
      BY <2>1, <2>2
    <3>3. QED
      BY <1>13, <3>1, <3>2
  <2>4. Len(a) = Len(t) /\ \A i \in 1..Len(a) : a[i] = t[i]
    BY <1>6, <2>1, <2>2, <2>3
  <2>5. a = t
    BY <1>9, <2>2, <2>4, SeqEqual
  <2>6. QED
    BY <2>1, <2>5 DEF a
<1>18. Len(rest) > 4
  BY <1>9, <1>12
<1>19. Worth(SubSeq(rest, 1, Len(rest) - 4) \o SubSeq(rest, Len(rest) - 2, Len(rest)), 10) = 125 * q
  BY <1>7, <1>16, <1>17
<1>20. QED
  BY <1>12, <1>14, <1>15, <1>18, <1>19 DEF rest, front, ones, t, v, n

LEMMA FloatShown ==
    ASSUME NEW f \in Floats
    PROVE  Truncated(FromFloat2(f), f)
<1> DEFINE e == f.exponent - Bias
           text == FromFloat2(f)
<1>1. e \in Int /\ TooBig \in Int /\ Bias \in Int /\ f.isNegative \in BOOLEAN
  BY FloatIs
<1>2. CASE e > Bias
  BY <1>2 DEF Truncated
<1>3. CASE ~ (e > Bias) /\ e > TooBig
  <2>1. Exponent(f) = e
    BY <1>3 DEF Exponent
  <2>2. text = <<"i", "n", "f">>
    BY <1>3, <2>1 DEF FromFloat2
  <2>3. QED
    BY <1>3, <2>2 DEF Truncated
<1>4. CASE ~ (e > Bias) /\ ~ (e > TooBig) /\ e < -3
  <2>1. Exponent(f) = e
    BY <1>4 DEF Exponent
  <2>2. text = <<"0">>
    BY <1>4, <2>1 DEF FromFloat2
  <2>3. QED
    BY <1>4, <2>2 DEF Truncated
<1>5. CASE ~ (e > Bias) /\ ~ (e > TooBig) /\ ~ (e < -3)
  <2> DEFINE q == (Mantissa(f) * Power2(e + 3)) \div Power2(FractionBits)
             rest == FromInt(q \div 8) \o <<".">> \o Eighths[(q % 8) + 1]
             sign == IF f.isNegative THEN <<"-">> ELSE <<>>
  <2>1. Exponent(f) = e
    BY <1>5 DEF Exponent
  <2>2. e \in -3..TooBig
    BY <1>1, <1>5
  <2>3. /\ q \in Nat
        /\ Mantissa(f) \div Power2(FractionBits - 3 - e) = q
        /\ Mantissa(f) \div Power2(FractionBits - e) = q \div 8
    BY <2>2, Shifted
  <2>4. /\ rest \in Seq(Pointed) /\ Len(rest) > 4 /\ rest[1] # "-" /\ rest[Len(rest) - 3] = "."
        /\ Worth(SubSeq(rest, 1, Len(rest) - 4) \o SubSeq(rest, Len(rest) - 2, Len(rest)), 10)
             = 125 * q
    BY <2>3, PointedIs
  <2>5. text = sign \o FromInt(q \div 8) \o <<".">> \o Eighths[(q % 8) + 1]
    <3> HIDE DEF e, q
    <3>1. text = (IF f.isNegative THEN <<"-">> ELSE <<>>)
                    \o FromInt(Mantissa(f) \div Power2(FractionBits - e))
                    \o <<".">>
                    \o Eighths[((Mantissa(f) \div Power2(FractionBits - 3 - e)) % 8) + 1]
      BY <1>5, <2>1 DEF FromFloat2
    <3>2. QED
      BY <2>3, <3>1
  <2>6. text = sign \o rest
    <3> DEFINE ones == FromInt(q \div 8)
               t == Eighths[(q % 8) + 1]
    <3>1. ones \in Seq(Pointed) /\ t \in Seq(Pointed)
      BY <2>3, PartsArePointed
    <3>2. sign \in Seq(Pointed) /\ <<".">> \in Seq(Pointed)
      BY Single, EmptySeq, TenDigits DEF Pointed
    <3>3. text = ((sign \o ones) \o <<".">>) \o t
      BY <2>5
    <3>4. rest = (ones \o <<".">>) \o t
      OBVIOUS
    <3> HIDE DEF ones, t, rest, sign, text
    <3>5. (ones \o <<".">>) \in Seq(Pointed)
      BY <3>1, <3>2, ConcatProperties
    <3>6. (sign \o ones) \o <<".">> = sign \o (ones \o <<".">>)
      BY <3>1, <3>2, ConcatAssociative, SMTT(30)
    <3> DEFINE pointed == ones \o <<".">>
    <3> HIDE DEF pointed
    <3>7. (sign \o pointed) \o t = sign \o (pointed \o t)
      <4>1. sign \in Seq(Pointed) /\ pointed \in Seq(Pointed) /\ t \in Seq(Pointed)
        BY <3>1, <3>2, <3>5 DEF pointed
      <4>2. QED
        BY ONLY <4>1, ConcatAssociative, SMTT(30)
    <3>8. QED
      BY <3>3, <3>4, <3>6, <3>7 DEF pointed
  <2> HIDE DEF q, rest, text
  <2>7. CASE f.isNegative
    <3>1. text = <<"-">> \o rest /\ "-" \in Pointed
      BY <2>6, <2>7, TenDigits DEF Pointed
    <3>2. text[1] = "-" /\ Tail(text) = rest
      BY <2>4, <3>1, Fronted, TailFronted
    <3>3. QED
      BY <2>2, <2>4, <2>7, <3>2 DEF Truncated, text, q
  <2>8. CASE ~ f.isNegative
    <3>1. text = rest
      BY <2>4, <2>6, <2>8, ConcatEmptySeq
    <3>2. QED
      BY <2>2, <2>4, <2>8, <3>1 DEF Truncated, text, q
  <2>9. QED
    BY <1>1, <2>7, <2>8
<1>6. QED
  BY <1>2, <1>3, <1>4, <1>5

LEMMA FloatsAreTruncatedNext ==
    ASSUME FloatsAreTruncated, [FormatsNext]_formatVars
    PROVE  FloatsAreTruncated'
<1>1. ASSUME NEW format, NEW args, FormatString(format, args) PROVE FloatsAreTruncated'
  BY <1>1 DEF FormatString, New, FloatsAreTruncated
<1>2. ASSUME NEW value, ConvertInt(value) PROVE FloatsAreTruncated'
  BY <1>2 DEF ConvertInt, New, FloatsAreTruncated
<1>3. ASSUME NEW value, NEW b, ConvertUint(value, b) PROVE FloatsAreTruncated'
  <2>1. call' = <<"FromUint", value, b>>
    BY <1>3 DEF ConvertUint, New
  <2>2. QED
    BY <2>1 DEF FloatsAreTruncated
<1>4. ASSUME NEW f \in FloatSet, ConvertFloat(f) PROVE FloatsAreTruncated'
  <2>1. call' = <<"FromFloat2", f>> /\ string'.text = FromFloat2(f)
    BY <1>4 DEF ConvertFloat, New
  <2>2. call'[2] = f
    BY <2>1
  <2>3. f \in Floats
    BY FormatsAssumption
  <2>4. Truncated(string'.text, call'[2])
    BY <2>1, <2>2, <2>3, FloatShown
  <2>5. QED
    BY <2>4 DEF FloatsAreTruncated, Truncated
<1>5. ASSUME NEW format, ParseString(format) PROVE FloatsAreTruncated'
  BY <1>5 DEF ParseString, FloatsAreTruncated
<1>6. CASE UNCHANGED formatVars
  BY <1>6 DEF formatVars, FloatsAreTruncated
<1>7. QED
  BY <1>1, <1>2, <1>3, <1>4, <1>5, <1>6 DEF FormatsNext, Makes, Parses

(***************************************************************************)
(* For floats of every format: what AvmStringFromFloat2 shows is the float *)
(* cut off to eighths, with the sign of the float, or "inf" or 0 exactly   *)
(* where the code means to show them.                                      *)
(***************************************************************************)
THEOREM FloatsAreTruncatedAlways == FormatsSpec => []FloatsAreTruncated
<1>1. FormatsInit => FloatsAreTruncated
  BY DEF FormatsInit, FloatsAreTruncated
<1>2. FloatsAreTruncated /\ [FormatsNext]_formatVars => FloatsAreTruncated'
  BY FloatsAreTruncatedNext
<1>3. QED
  BY <1>1, <1>2, PTL DEF FormatsSpec

-----------------------------------------------------------------------------
(* The places that the loops over a format visit.                          *)
LEMMA DownTo ==
    ASSUME NEW n \in Nat, NEW S,
           \A i \in 1..n : (\A j \in (i + 1)..n : j \in S) => i \in S
    PROVE  1..n \subseteq S
<1> DEFINE T == {k \in 0..n : \A j \in ((n - k) + 1)..n : j \in S}
<1>1. 0 \in T
  OBVIOUS
<1>2. ASSUME NEW k \in 0..(n - 1), k \in T PROVE k + 1 \in T
  <2>1. \A j \in ((n - k) + 1)..n : j \in S
    BY <1>2
  <2>2. n - k \in 1..n
    OBVIOUS
  <2>3. n - k \in S
    BY <2>1, <2>2
  <2>4. ASSUME NEW j \in ((n - (k + 1)) + 1)..n PROVE j \in S
    <3>1. j = n - k \/ j \in ((n - k) + 1)..n
      OBVIOUS
    <3>2. QED
      BY <2>1, <2>3, <3>1
  <2>5. k + 1 \in 0..n
    OBVIOUS
  <2>6. QED
    BY <2>4, <2>5
<1> HIDE DEF T
<1>3. 0..n \subseteq T
  BY <1>1, <1>2, UpTo
<1>4. n \in T
  BY <1>3
<1>5. QED
  BY <1>4 DEF T

IsVisiting(g, format, first) ==
    g = [i \in first..(Len(format) + 3) |->
            IF i > Len(format) THEN <<i>> ELSE <<i>> \o g[StepOver(format, i)]]

LEMMA VisitingsExist ==
    ASSUME NEW format, Len(format) \in Nat
    PROVE  \E g : IsVisiting(g, format, 1)
<1> DEFINE m == Len(format)
           n == m + 2
           S == {k \in 0..n : \E g : IsVisiting(g, format, (m + 3) - k)}
<1>1. 0 \in S
  <2> DEFINE g == [i \in (m + 3)..(m + 3) |-> <<i>>]
  <2>1. \A i \in (m + 3)..(m + 3) : i > m
    OBVIOUS
  <2>2. g = [i \in (m + 3)..(m + 3) |-> IF i > m THEN <<i>> ELSE <<i>> \o g[StepOver(format, i)]]
    BY <2>1
  <2> HIDE DEF g
  <2>3. IsVisiting(g, format, (m + 3) - 0)
    BY <2>2 DEF IsVisiting
  <2>4. 0 \in 0..n
    OBVIOUS
  <2>5. QED
    BY <2>3, <2>4
<1>2. ASSUME NEW k \in 0..(n - 1), k \in S PROVE k + 1 \in S
  <2> DEFINE a == (m + 3) - (k + 1)
  <2>1. PICK g : IsVisiting(g, format, (m + 3) - k)
    BY <1>2
  <2>2. (m + 3) - k = a + 1 /\ a \in 1..(m + 2) /\ k + 1 \in 0..n
    OBVIOUS
  <2> HIDE DEF a
  <2> DEFINE added == IF a > m THEN <<a>> ELSE <<a>> \o g[StepOver(format, a)]
             h == [i \in a..(m + 3) |-> IF i = a THEN added ELSE g[i]]
  <2>3. ASSUME NEW i \in a..(m + 3)
        PROVE  h[i] = IF i > m THEN <<i>> ELSE <<i>> \o h[StepOver(format, i)]
    <3> HIDE DEF added
    <3>1. i <= m => StepOver(format, i) \in (a + 1)..(m + 3) /\ StepOver(format, i) \in a..(m + 3)
                    /\ StepOver(format, i) # a
      BY <2>2 DEF StepOver
    <3>2. i <= m => h[StepOver(format, i)] = g[StepOver(format, i)]
      BY <3>1
    <3>3. CASE i = a
      <4>1. h[i] = added
        BY <3>3
      <4> HIDE DEF h
      <4>2. QED
        BY <2>2, <3>2, <3>3, <4>1 DEF added
    <3>4. CASE i # a
      <4>1. i \in (a + 1)..(m + 3)
        BY <2>2, <3>4
      <4>2. g[i] = IF i > m THEN <<i>> ELSE <<i>> \o g[StepOver(format, i)]
        BY <2>1, <2>2, <4>1 DEF IsVisiting
      <4>3. h[i] = g[i]
        BY <3>4
      <4> HIDE DEF h
      <4>4. QED
        BY <2>2, <3>2, <4>1, <4>2, <4>3
    <3>5. QED
      BY <3>3, <3>4
  <2>4. h = [i \in a..(m + 3) |-> h[i]]
    OBVIOUS
  <2> HIDE DEF h
  <2>5. h = [i \in a..(m + 3) |-> IF i > m THEN <<i>> ELSE <<i>> \o h[StepOver(format, i)]]
    BY <2>3, <2>4
  <2>6. IsVisiting(h, format, a)
    BY <2>5 DEF IsVisiting
  <2>7. QED
    BY <2>2, <2>6 DEF a
<1> HIDE DEF S
<1>3. 0..n \subseteq S
  <2>1. n \in Nat
    OBVIOUS
  <2> HIDE DEF n
  <2>2. QED
    BY <1>1, <1>2, <2>1, UpTo
<1>4. n \in S /\ (m + 3) - n = 1
  BY <1>3
<1>5. QED
  BY <1>4 DEF S

LEMMA VisitedIs ==
    ASSUME NEW format, Len(format) \in Nat
    PROVE  \E g : IsVisiting(g, format, 1) /\ Visited(format) = g[1]
<1> DEFINE g == CHOOSE g : IsVisiting(g, format, 1)
<1>1. Visited(format) = g[1]
  BY DEF Visited, IsVisiting
<1>2. IsVisiting(g, format, 1)
  BY VisitingsExist
<1>3. QED
  BY <1>1, <1>2

(* One pass of the loop.                                                   *)
LEMMA VisitingStep ==
    ASSUME NEW format, Len(format) \in Nat, NEW g, IsVisiting(g, format, 1),
           NEW i \in 1..(Len(format) + 3)
    PROVE  /\ i > Len(format) => g[i] = <<i>>
           /\ i <= Len(format) =>
                /\ StepOver(format, i) \in {i + 1, i + 2}
                /\ StepOver(format, i) \in (i + 1)..(Len(format) + 3)
                /\ g[i] = <<i>> \o g[StepOver(format, i)]
<1>1. g[i] = IF i > Len(format) THEN <<i>> ELSE <<i>> \o g[StepOver(format, i)]
  BY DEF IsVisiting
<1>2. StepOver(format, i) \in {i + 1, i + 2}
  BY DEF StepOver
<1>3. QED
  BY <1>1, <1>2

(* The loop stays inside the format until its last pass.                   *)
IsWalk(w, format) ==
    /\ w \in Seq(1..(Len(format) + 3))
    /\ Len(w) >= 1
    /\ \A n \in 1..(Len(w) - 1) : w[n] <= Len(format)
    /\ w[Len(w)] > Len(format)

LEMMA LongerWalk ==
    ASSUME NEW format, Len(format) \in Nat, NEW w, IsWalk(w, format),
           NEW i \in 1..(Len(format) + 3), i <= Len(format)
    PROVE  /\ IsWalk(<<i>> \o w, format)
           /\ Last(<<i>> \o w) = Last(w)
<1> DEFINE P == 1..(Len(format) + 3)
           q == <<i>> \o w
<1>1. w \in Seq(P) /\ Len(w) \in Nat /\ Len(w) >= 1
  BY LenProperties DEF IsWalk
<1>2. q \in Seq(P) /\ Len(q) = Len(w) + 1 /\ q[1] = i /\ \A n \in 1..Len(w) : q[n + 1] = w[n]
  BY <1>1, Fronted
<1> HIDE DEF q
<1>3. Len(w) \in 1..Len(w)
  BY <1>1
<1>4. q[Len(q)] = w[Len(w)]
  BY <1>2, <1>3
<1>5. ASSUME NEW n \in 1..(Len(q) - 1) PROVE q[n] <= Len(format)
  <2>1. n = 1 \/ (n - 1 \in 1..(Len(w) - 1) /\ n - 1 \in 1..Len(w) /\ (n - 1) + 1 = n)
    BY <1>1, <1>2
  <2>2. \A k \in 1..(Len(w) - 1) : w[k] <= Len(format)
    BY DEF IsWalk
  <2>3. QED
    BY <1>2, <2>1, <2>2
<1>6. IsWalk(q, format)
  <2>1. w[Len(w)] > Len(format) /\ Len(q) >= 1
    BY <1>1, <1>2 DEF IsWalk
  <2>2. QED
    BY <1>2, <1>4, <1>5, <2>1 DEF IsWalk
<1>7. QED
  BY <1>4, <1>6 DEF q, Last

LEMMA VisitingWalks ==
    ASSUME NEW format, Len(format) \in Nat, NEW g, IsVisiting(g, format, 1)
    PROVE  \A i \in 1..(Len(format) + 3) :
                /\ IsWalk(g[i], format)
                /\ i > Len(format) => Last(g[i]) = i
                /\ i <= Len(format) => Last(g[i]) = Last(g[StepOver(format, i)])
<1> DEFINE m == Len(format)
           S == {i \in 1..(m + 3) : IsWalk(g[i], format)}
<1>1. ASSUME NEW i \in 1..(m + 3), \A j \in (i + 1)..(m + 3) : j \in S PROVE i \in S
  <2>1. CASE i > m
    <3>1. g[i] = <<i>>
      BY <2>1, VisitingStep
    <3> DEFINE w == <<i>>
    <3>2. w \in Seq(1..(m + 3)) /\ Len(w) = 1 /\ w[1] = i
      BY Single
    <3> HIDE DEF w
    <3>3. \A n \in 1..(Len(w) - 1) : w[n] <= m
      BY <3>2
    <3>4. IsWalk(w, format)
      BY <2>1, <3>2, <3>3 DEF IsWalk
    <3>5. QED
      BY <3>1, <3>4 DEF w
  <2>2. CASE i <= m
    <3>1. StepOver(format, i) \in (i + 1)..(m + 3) /\ g[i] = <<i>> \o g[StepOver(format, i)]
      BY <2>2, VisitingStep
    <3>2. IsWalk(g[StepOver(format, i)], format)
      BY <1>1, <3>1
    <3>3. QED
      BY <2>2, <3>1, <3>2, LongerWalk
  <2>3. QED
    BY <2>1, <2>2
<1> HIDE DEF S
<1>2. 1..(m + 3) \subseteq S
  <2>1. m + 3 \in Nat
    OBVIOUS
  <2>2. QED
    BY <1>1, <2>1, DownTo
<1>3. \A i \in 1..(m + 3) : IsWalk(g[i], format)
  BY <1>2 DEF S
<1>4. ASSUME NEW i \in 1..(m + 3)
      PROVE  /\ i > m => Last(g[i]) = i
             /\ i <= m => Last(g[i]) = Last(g[StepOver(format, i)])
  <2>1. CASE i > m
    <3>1. g[i] = <<i>>
      BY <2>1, VisitingStep
    <3>2. Len(<<i>>) = 1 /\ <<i>>[1] = i
      OBVIOUS
    <3>3. QED
      BY <2>1, <3>1, <3>2 DEF Last
  <2>2. CASE i <= m
    <3> DEFINE s == StepOver(format, i)
    <3>1. s \in 1..(m + 3) /\ g[i] = <<i>> \o g[s]
      <4>1. s \in (i + 1)..(m + 3) /\ g[i] = <<i>> \o g[s]
        BY <2>2, VisitingStep
      <4> HIDE DEF s
      <4>2. QED
        BY <4>1
    <3>2. IsWalk(g[StepOver(format, i)], format)
      BY <1>3, <3>1
    <3>3. QED
      BY <2>2, <3>1, <3>2, LongerWalk
  <2>3. QED
    BY <2>1, <2>2
<1>5. QED
  BY <1>3, <1>4

(***************************************************************************)
(* Behind the last character that is not a percent sign, at place t, the   *)
(* loop takes two places at a time, and it always comes to place t + 1.    *)
(***************************************************************************)
LEMMA WalkEnds ==
    ASSUME NEW format, Len(format) \in Nat, NEW t \in 0..Len(format),
           \A i \in (t + 1)..Len(format) : format[i] = "%",
           t # 0 => format[t] # "%"
    PROVE  Last(Visited(format)) = Len(format) + 1 <=> (Len(format) - t) % 2 = 0
<1> DEFINE m == Len(format)
<1>1. PICK g : IsVisiting(g, format, 1) /\ Visited(format) = g[1]
  BY VisitedIs
<1>2. \A i \in 1..(m + 3) : /\ i > m => Last(g[i]) = i
                            /\ i <= m => Last(g[i]) = Last(g[StepOver(format, i)])
  BY <1>1, VisitingWalks
<1> DEFINE End(i) == IF ((m + 1) - i) % 2 = 0 THEN m + 1 ELSE m + 2
           S == {i \in 1..(m + 2) : Last(g[i]) = End(IF i > t THEN i ELSE t + 1)}
<1>3. ASSUME NEW i \in 1..(m + 2), \A j \in (i + 1)..(m + 2) : j \in S PROVE i \in S
  <2>1. i \in 1..(m + 3)
    OBVIOUS
  <2>2. CASE i > m
    <3>1. Last(g[i]) = i
      BY <1>2, <2>1, <2>2
    <3>2. i = m + 1 \/ i = m + 2
      BY <2>2
    <3>3. End(i) = i
      BY <3>2
    <3>4. i > t
      BY <2>2
    <3>5. QED
      BY <3>1, <3>3, <3>4
  <2>3. CASE i <= m /\ i > t
    <3>1. StepOver(format, i) = i + 2
      BY <2>3 DEF StepOver
    <3>2. i + 2 \in (i + 1)..(m + 2) /\ i + 2 > t
      BY <2>3
    <3>3. Last(g[i + 2]) = End(i + 2)
      BY <1>3, <3>2
    <3>4. End(i + 2) = End(i)
      <4>1. ((m + 1) - (i + 2)) % 2 = ((m + 1) - i) % 2
        OBVIOUS
      <4>2. QED
        BY <4>1
    <3>5. Last(g[i]) = End(i)
      BY <1>2, <2>1, <2>3, <3>1, <3>3, <3>4
    <3>6. QED
      BY <2>3, <3>5
  <2>4. CASE i <= m /\ i <= t
    <3> DEFINE s == StepOver(format, i)
    <3>1. s \in {i + 1, i + 2} /\ (i = t => s = i + 1)
      BY <2>4 DEF StepOver
    <3>2. s \in (i + 1)..(m + 2) /\ s <= t + 1
      BY <2>4, <3>1
    <3>3. Last(g[s]) = End(IF s > t THEN s ELSE t + 1)
      BY <1>3, <3>2
    <3>4. (IF s > t THEN s ELSE t + 1) = t + 1
      BY <3>2
    <3>5. Last(g[i]) = Last(g[s])
      BY <1>2, <2>1, <2>4
    <3> HIDE DEF s
    <3>6. Last(g[i]) = End(t + 1)
      BY <3>3, <3>4, <3>5
    <3>7. QED
      BY <2>4, <3>6
  <2>5. QED
    BY <2>2, <2>3, <2>4
<1> HIDE DEF S
<1>4. 1..(m + 2) \subseteq S
  <2>1. m + 2 \in Nat
    OBVIOUS
  <2>2. QED
    BY <1>3, <2>1, DownTo
<1>5. 1 \in S
  BY <1>4
<1>6. Last(g[1]) = End(t + 1)
  <2>1. (IF 1 > t THEN 1 ELSE t + 1) = t + 1
    OBVIOUS
  <2>2. QED
    BY <1>5, <2>1 DEF S
<1>7. (m + 1) - (t + 1) = m - t
  OBVIOUS
<1>8. QED
  BY <1>1, <1>6, <1>7

LEMMA PercentsAtEndIs ==
    ASSUME NEW format, Len(format) \in Nat
    PROVE  LET n == PercentsAtEnd(format)
           IN  /\ n \in 0..Len(format)
               /\ \A i \in ((Len(format) - n) + 1)..Len(format) : format[i] = "%"
               /\ n = Len(format) \/ format[Len(format) - n] # "%"
<1> DEFINE m == Len(format)
           T == {t \in 0..m : \A i \in (t + 1)..m : format[i] = "%"}
           Counts(n) == /\ \A i \in ((m - n) + 1)..m : format[i] = "%"
                        /\ n = m \/ format[m - n] # "%"
<1>1. T \in SUBSET Nat /\ m \in T
  OBVIOUS
<1>2. PICK t \in T : \A k \in T : t <= k
  BY <1>1, LeastOf
<1>3. t \in 0..m /\ \A i \in (t + 1)..m : format[i] = "%"
  BY <1>2
<1>4. t = 0 \/ format[t] # "%"
  <2> SUFFICES ASSUME t # 0, format[t] = "%" PROVE FALSE
    OBVIOUS
  <2>1. t - 1 \in 0..m /\ \A i \in ((t - 1) + 1)..m : i = t \/ i \in (t + 1)..m
    BY <1>3
  <2>2. \A i \in ((t - 1) + 1)..m : format[i] = "%"
    BY <1>3, <2>1
  <2>3. t - 1 \in T
    BY <2>1, <2>2
  <2>4. t <= t - 1
    BY <1>2, <2>3
  <2>5. QED
    BY <1>3, <2>4
<1>5. m - t \in 0..m /\ m - (m - t) = t /\ (m - t = m <=> t = 0)
  BY <1>3
<1>6. Counts(m - t)
  BY <1>3, <1>4, <1>5
<1>7. PercentsAtEnd(format) = CHOOSE n \in 0..m : Counts(n)
  BY DEF PercentsAtEnd
<1> HIDE DEF Counts
<1>8. (CHOOSE n \in 0..m : Counts(n)) \in 0..m /\ Counts(CHOOSE n \in 0..m : Counts(n))
  BY <1>5, <1>6
<1>9. PercentsAtEnd(format) \in 0..m /\ Counts(PercentsAtEnd(format))
  BY <1>7, <1>8
<1>10. QED
  BY <1>9 DEF Counts

LEMMA OverreadsIs ==
    ASSUME NEW format, Len(format) \in Nat
    PROVE  Overreads(format) <=> PercentsAtEnd(format) % 2 = 1
<1> DEFINE m == Len(format)
           n == PercentsAtEnd(format)
           t == m - n
<1>1. /\ n \in 0..m
      /\ \A i \in ((m - n) + 1)..m : format[i] = "%"
      /\ n = m \/ format[m - n] # "%"
  BY PercentsAtEndIs
<1> HIDE DEF n
<1>2. t \in 0..m /\ m - t = n /\ (t # 0 => n # m)
  BY <1>1
<1>3. \A i \in (t + 1)..m : format[i] = "%"
  BY <1>1
<1>4. t # 0 => format[t] # "%"
  BY <1>1, <1>2
<1> HIDE DEF t
<1>5. Last(Visited(format)) = m + 1 <=> (m - t) % 2 = 0
  BY <1>2, <1>3, <1>4, WalkEnds
<1>6. n % 2 = 0 \/ n % 2 = 1
  BY <1>1
<1>7. QED
  BY <1>2, <1>5, <1>6 DEF Overreads, n

LEMMA FormatEndsIs ==
    ASSUME NEW d, NEW value
    PROVE  FormatEnds(d, value) \subseteq {"pushstr", "none", "overrun"}
BY DEF FormatEnds

(* How FormatString ends.                                                  *)
LEMMA FormatOutcome ==
    ASSUME NEW format, NEW args, FormatString(format, args)
    PROVE  /\ call' = <<"Format", format>>
           /\ string'.text = FormatText(format, args) /\ string'.terminated \in BOOLEAN
           /\ outcome' \in {"pushstr", "none", "overrun", "overread_format"}
           /\ outcome' # "pushstr" => (outcome' = "overread_format" <=> Overreads(format))
<1> DEFINE ds == TakingDirectives(format)
           ends == {"none"} \cup UNION {FormatEnds(ds[k], args[k]) : k \in DOMAIN ds}
<1>1. ASSUME NEW end \in ends PROVE end \in {"pushstr", "none", "overrun"}
  <2> HIDE DEF ds
  <2>1. end = "none" \/ \E k \in DOMAIN ds : end \in FormatEnds(ds[k], args[k])
    OBVIOUS
  <2>2. QED
    BY <2>1, FormatEndsIs
<1>2. PICK end \in IF "pushstr" \in ends THEN {"pushstr"}
                   ELSE IF Overreads(format) THEN {"overread_format"}
                   ELSE ends :
            New(<<"Format", format>>, FormatText(format, args), end)
  BY DEF FormatString
<1> HIDE DEF ends
<1>3. call' = <<"Format", format>> /\ outcome' = end
  BY <1>2 DEF New
<1>4. string'.text = FormatText(format, args) /\ string'.terminated \in BOOLEAN
  BY <1>2 DEF New
<1>5. QED
  BY <1>1, <1>2, <1>3, <1>4

LEMMA FormatReadsToItsEndNext ==
    ASSUME FormatReadsToItsEnd, [FormatsNext]_formatVars
    PROVE  FormatReadsToItsEnd'
<1>1. ASSUME NEW format \in FormatSet, NEW args, FormatString(format, args)
      PROVE  FormatReadsToItsEnd'
  <2>1. /\ call' = <<"Format", format>>
        /\ outcome' # "pushstr" => (outcome' = "overread_format" <=> Overreads(format))
    BY <1>1, FormatOutcome
  <2>2. Len(format) \in Nat
    BY FormatsAssumption, LenProperties
  <2>3. Overreads(format) <=> PercentsAtEnd(format) % 2 = 1
    BY <2>2, OverreadsIs
  <2>4. call'[2] = format
    BY <2>1
  <2>5. QED
    BY <2>1, <2>3, <2>4 DEF FormatReadsToItsEnd
<1>2. ASSUME NEW value, ConvertInt(value) PROVE FormatReadsToItsEnd'
  BY <1>2 DEF ConvertInt, New, FormatReadsToItsEnd
<1>3. ASSUME NEW value, NEW b, ConvertUint(value, b) PROVE FormatReadsToItsEnd'
  <2>1. call' = <<"FromUint", value, b>>
    BY <1>3 DEF ConvertUint, New
  <2>2. QED
    BY <2>1 DEF FormatReadsToItsEnd
<1>4. ASSUME NEW f, ConvertFloat(f) PROVE FormatReadsToItsEnd'
  BY <1>4 DEF ConvertFloat, New, FormatReadsToItsEnd
<1>5. ASSUME NEW format, ParseString(format) PROVE FormatReadsToItsEnd'
  BY <1>5 DEF ParseString, FormatReadsToItsEnd
<1>6. CASE UNCHANGED formatVars
  BY <1>6 DEF formatVars, FormatReadsToItsEnd
<1>7. QED
  BY <1>1, <1>2, <1>3, <1>4, <1>5, <1>6 DEF FormatsNext, Makes, Parses

(***************************************************************************)
(* For formats of every length: the loop of FormatV stops at the zero byte *)
(* that ends the format, unless the format ends in an odd number of        *)
(* percent signs in a row.                                                 *)
(***************************************************************************)
THEOREM FormatReadsToItsEndAlways == FormatsSpec => []FormatReadsToItsEnd
<1>1. FormatsInit => FormatReadsToItsEnd
  BY DEF FormatsInit, FormatReadsToItsEnd
<1>2. FormatReadsToItsEnd /\ [FormatsNext]_formatVars => FormatReadsToItsEnd'
  BY FormatReadsToItsEndNext
<1>3. QED
  BY <1>1, <1>2, PTL DEF FormatsSpec

-----------------------------------------------------------------------------
(* Passes over a format, and the directives they meet.                     *)
LEMMA PassesAre ==
    ASSUME NEW format \in Seq(TextChars)
    PROVE  /\ Passes(format) \in Nat
           /\ \A n \in 1..Passes(format) : Visited(format)[n] \in 1..Len(format)
<1>1. Len(format) \in Nat
  BY LenProperties
<1>2. PICK g : IsVisiting(g, format, 1) /\ Visited(format) = g[1]
  BY <1>1, VisitedIs
<1> DEFINE w == Visited(format)
<1>3. IsWalk(w, format)
  <2>1. 1 \in 1..(Len(format) + 3)
    BY <1>1
  <2>2. QED
    BY <1>1, <1>2, <2>1, VisitingWalks
<1>4. w \in Seq(1..(Len(format) + 3)) /\ Len(w) \in Nat /\ Len(w) >= 1
      /\ \A n \in 1..(Len(w) - 1) : w[n] <= Len(format)
  BY <1>3, LenProperties DEF IsWalk
<1>5. Passes(format) = Len(w) - 1
  BY DEF Passes
<1> HIDE DEF w
<1>6. ASSUME NEW n \in 1..(Len(w) - 1) PROVE w[n] \in 1..Len(format)
  <2>1. n \in 1..Len(w)
    BY <1>4
  <2>2. w[n] \in 1..(Len(format) + 3) /\ w[n] <= Len(format)
    BY <1>4, <2>1, ElementOfSeq
  <2>3. QED
    BY <1>1, <2>2
<1>7. Len(w) - 1 \in Nat
  BY <1>4
<1>8. QED
  BY <1>5, <1>6, <1>7 DEF w

LEMMA TextCharsHave ==
    /\ Nul \in TextChars
    /\ Signed \subseteq TextChars
    /\ TrueText \in Seq(TextChars) /\ FalseText \in Seq(TextChars)
    /\ {".", "x", "o", "b", "U", "+", "i", "n", "f", "0"} \cup Letters \subseteq TextChars
<1>1. DigitsOf(16) \subseteq TextChars
  <2>1. ASSUME NEW k \in 1..16 PROVE DigitChars[k] \in TextChars
    <3>1. k \in {1, 2, 3, 4, 5, 6, 7, 8, 9, 10, 11, 12, 13, 14, 15, 16}
      OBVIOUS
    <3>2. DigitChars[k] \in {"0", "1", "2", "3", "4", "5", "6", "7", "8", "9",
                             "A", "B", "C", "D", "E", "F"}
      BY <3>1 DEF DigitChars
    <3>3. QED
      BY <3>2 DEF TextChars
  <2>2. QED
    BY <2>1 DEF DigitsOf
<1>2. {"-", "t", "r", "u", "e", "f", "a", "l", "s"} \subseteq TextChars
  BY DEF TextChars
<1>3. TrueText \in Seq(TextChars) /\ FalseText \in Seq(TextChars)
  <2> DEFINE S == TextChars
  <2>1. "t" \in S /\ "r" \in S /\ "u" \in S /\ "e" \in S /\ "f" \in S /\ "a" \in S /\ "l" \in S /\ "s" \in S
    BY <1>2
  <2> HIDE DEF S
  <2>2. <<"t", "r", "u", "e">> \in Seq(S) /\ <<"f", "a", "l", "s", "e">> \in Seq(S)
    BY <2>1
  <2>3. QED
    BY <2>2 DEF S, TrueText, FalseText
<1>4. Nul \in TextChars /\ {".", "x", "o", "b", "U", "+", "i", "n", "f", "0"} \cup Letters \subseteq TextChars
  BY DEF TextChars
<1>5. QED
  BY <1>1, <1>2, <1>3, <1>4, DigitCharsAre DEF Signed

LEMMA CharAtIs ==
    ASSUME NEW format \in Seq(TextChars), NEW i \in Nat \ {0}
    PROVE  CharAt(format, i) \in TextChars
<1>1. Len(format) \in Nat
  BY LenProperties
<1>2. CASE i <= Len(format)
  <2>1. i \in 1..Len(format)
    BY <1>1, <1>2
  <2>2. format[i] \in TextChars
    BY <2>1, ElementOfSeq
  <2>3. QED
    BY <1>2, <2>2 DEF CharAt
<1>3. CASE ~ (i <= Len(format))
  BY <1>3, TextCharsHave DEF CharAt
<1>4. QED
  BY <1>2, <1>3

LEMMA PassIs ==
    ASSUME NEW format \in Seq(TextChars), NEW n \in 1..Passes(format)
    PROVE  /\ Marked(format, n) \in TextChars
           /\ format[Visited(format)[n]] \in TextChars
<1> DEFINE i == Visited(format)[n]
<1>1. i \in 1..Len(format) /\ Len(format) \in Nat
  BY PassesAre, LenProperties
<1>2. i + 1 \in Nat \ {0} /\ Marked(format, n) = CharAt(format, i + 1)
  BY <1>1 DEF Marked
<1> HIDE DEF i
<1>3. CharAt(format, i + 1) \in TextChars
  BY <1>2, CharAtIs
<1>4. format[i] \in TextChars
  BY <1>1, ElementOfSeq
<1>5. QED
  BY <1>2, <1>3, <1>4 DEF i

IsMeeting(g, format, m) ==
    g = [n \in 0..m |->
            IF n = 0 THEN <<>>
            ELSE IF IsMark(format, n) THEN Append(g[n - 1], Marked(format, n)) ELSE g[n - 1]]

LEMMA MeetingsExist ==
    ASSUME NEW format, NEW m \in Nat
    PROVE  \E g : IsMeeting(g, format, m)
<1> DEFINE S == {k \in 0..m : \E g : IsMeeting(g, format, k)}
<1>1. 0 \in S
  <2> DEFINE g == [n \in 0..0 |-> <<>>]
  <2>1. g = [n \in 0..0 |->
               IF n = 0 THEN <<>>
               ELSE IF IsMark(format, n) THEN Append(g[n - 1], Marked(format, n)) ELSE g[n - 1]]
    OBVIOUS
  <2> HIDE DEF g
  <2>2. IsMeeting(g, format, 0)
    BY <2>1 DEF IsMeeting
  <2>3. QED
    BY <2>2
<1>2. ASSUME NEW k \in 0..(m - 1), k \in S PROVE k + 1 \in S
  <2>1. PICK g : IsMeeting(g, format, k)
    BY <1>2
  <2> DEFINE added == IF IsMark(format, k + 1) THEN Append(g[k], Marked(format, k + 1)) ELSE g[k]
             h == [n \in 0..(k + 1) |-> IF n <= k THEN g[n] ELSE added]
  <2>2. ASSUME NEW n \in 0..(k + 1)
        PROVE  h[n] = IF n = 0 THEN <<>>
                      ELSE IF IsMark(format, n) THEN Append(h[n - 1], Marked(format, n)) ELSE h[n - 1]
    <3> HIDE DEF added
    <3>1. CASE n <= k
      <4>1. n \in 0..k /\ (n # 0 => n - 1 \in 0..(k + 1) /\ n - 1 <= k)
        BY <3>1
      <4>2. g[n] = IF n = 0 THEN <<>>
                   ELSE IF IsMark(format, n) THEN Append(g[n - 1], Marked(format, n)) ELSE g[n - 1]
        BY <2>1, <4>1 DEF IsMeeting
      <4>3. h[n] = g[n] /\ (n # 0 => h[n - 1] = g[n - 1])
        BY <3>1, <4>1
      <4> HIDE DEF h
      <4>4. QED
        BY <4>2, <4>3
    <3>2. CASE n = k + 1
      <4>1. ~ (n <= k) /\ n # 0 /\ n - 1 = k /\ k \in 0..(k + 1) /\ k <= k
        BY <3>2
      <4>2. h[n] = added /\ h[k] = g[k]
        BY <4>1
      <4> HIDE DEF h
      <4>3. QED
        BY <3>2, <4>1, <4>2 DEF added
    <3>3. QED
      BY <3>1, <3>2
  <2>3. h = [n \in 0..(k + 1) |-> h[n]]
    OBVIOUS
  <2> HIDE DEF h
  <2>4. h = [n \in 0..(k + 1) |->
               IF n = 0 THEN <<>>
               ELSE IF IsMark(format, n) THEN Append(h[n - 1], Marked(format, n)) ELSE h[n - 1]]
    BY <2>2, <2>3
  <2>5. IsMeeting(h, format, k + 1)
    BY <2>4 DEF IsMeeting
  <2>6. QED
    BY <2>5
<1> HIDE DEF S
<1>3. 0..m \subseteq S
  BY <1>1, <1>2, UpTo
<1>4. QED
  BY <1>3 DEF S

LEMMA DirectivesAre ==
    ASSUME NEW format \in Seq(TextChars)
    PROVE  Directives(format) \in Seq(TextChars)
<1> DEFINE m == Passes(format)
           g == CHOOSE g : IsMeeting(g, format, m)
           S == {n \in 0..m : g[n] \in Seq(TextChars)}
<1>1. m \in Nat
  BY PassesAre
<1>2. Directives(format) = g[m]
  BY DEF Directives, IsMeeting
<1>3. IsMeeting(g, format, m)
  BY <1>1, MeetingsExist
<1> HIDE DEF m, g
<1>4. 0 \in S
  <2>1. 0 \in 0..m /\ g[0] = <<>>
    BY <1>1, <1>3 DEF IsMeeting
  <2>2. <<>> \in Seq(TextChars)
    OBVIOUS
  <2>3. QED
    BY <2>1, <2>2
<1>5. ASSUME NEW k \in 0..(m - 1), k \in S PROVE k + 1 \in S
  <2>1. k + 1 \in 0..m /\ k + 1 \in 1..m /\ k + 1 # 0 /\ (k + 1) - 1 = k
    BY <1>1
  <2>2. g[k + 1] = IF IsMark(format, k + 1) THEN Append(g[k], Marked(format, k + 1)) ELSE g[k]
    BY <1>3, <2>1 DEF IsMeeting
  <2>3. g[k] \in Seq(TextChars)
    BY <1>5
  <2>4. Marked(format, k + 1) \in TextChars
    BY <2>1, PassIs DEF m
  <2>5. Append(g[k], Marked(format, k + 1)) \in Seq(TextChars)
    BY <2>3, <2>4, AppendProperties
  <2>6. g[k + 1] \in Seq(TextChars)
    BY <2>2, <2>3, <2>5
  <2>7. QED
    BY <2>1, <2>6
<1> HIDE DEF S
<1>6. 0..m \subseteq S
  BY <1>1, <1>4, <1>5, UpTo
<1>7. m \in S
  BY <1>1, <1>6
<1>8. QED
  BY <1>2, <1>7 DEF S

-----------------------------------------------------------------------------
(* Parsing: each pass leaves at most one more place behind where a word    *)
(* may end.                                                                *)
Stops == {q \in 1..(Len(string.text) + 1) : Cell(q) \in {" ", Nul}}

Before(p) == {q \in Stops : q < p}

LEMMA StopsAre ==
    ASSUME string.text \in Seq(TextChars)
    PROVE  /\ Len(string.text) \in Nat
           /\ Stops \subseteq Nat \ {0}
           /\ IsFiniteSet(Stops) /\ Cardinality(Stops) \in Nat
           /\ \A p : IsFiniteSet(Before(p)) /\ Cardinality(Before(p)) \in Nat
<1>1. Len(string.text) \in Nat
  BY LenProperties
<1> DEFINE I == 1..(Len(string.text) + 1)
<1>2. IsFiniteSet(I)
  <2>1. 1 \in Int /\ Len(string.text) + 1 \in Int
    BY <1>1
  <2>2. QED
    BY <2>1, FS_Interval
<1>3. Stops \in SUBSET I /\ \A p : Before(p) \in SUBSET I
  BY DEF Stops, Before
<1>4. Stops \subseteq Nat \ {0}
  BY <1>1, <1>3
<1> HIDE DEF I
<1>5. IsFiniteSet(Stops) /\ \A p : IsFiniteSet(Before(p))
  BY <1>2, <1>3, FS_Subset
<1>6. QED
  BY <1>1, <1>4, <1>5, FS_CardinalityType

LEMMA OneMore ==
    ASSUME string.text \in Seq(TextChars), NEW p, NEW q, NEW x,
           Before(q) \subseteq Before(p) \cup {x}
    PROVE  Cardinality(Before(q)) <= Cardinality(Before(p)) + 1
<1> DEFINE A == Before(p)
           B == A \cup {x}
<1>1. IsFiniteSet(A) /\ Cardinality(A) \in Nat /\ IsFiniteSet(Before(q)) /\ Cardinality(Before(q)) \in Nat
  BY StopsAre
<1> HIDE DEF A
<1>2. IsFiniteSet(B) /\ Cardinality(B) = IF x \in A THEN Cardinality(A) ELSE Cardinality(A) + 1
  BY <1>1, FS_AddElement
<1>3. Before(q) \in SUBSET B
  BY DEF A
<1> HIDE DEF B
<1>4. Cardinality(Before(q)) <= Cardinality(B)
  BY <1>2, <1>3, FS_Subset
<1>5. QED
  BY <1>1, <1>2, <1>4 DEF A

LEMMA WordEndsAre ==
    ASSUME string.text \in Seq(TextChars), string.terminated, NEW p \in Nat \ {0}
    PROVE  WordEnds(p) = {q \in Stops : q >= p}
<1>1. Len(string.text) \in Nat
  BY LenProperties
<1>2. ASSUME NEW q \in p..(Len(string.text) + 1) PROVE Known(q)
  BY <1>1, <1>2 DEF Known
<1>3. ASSUME NEW q PROVE q \in WordEnds(p) <=> q \in Stops /\ q >= p
  <2>1. q \in WordEnds(p) <=> q \in p..(Len(string.text) + 1) /\ Known(q) /\ Cell(q) \in {" ", Nul}
    BY DEF WordEnds
  <2>2. q \in Stops <=> q \in 1..(Len(string.text) + 1) /\ Cell(q) \in {" ", Nul}
    BY DEF Stops
  <2>3. q \in p..(Len(string.text) + 1) <=> q \in 1..(Len(string.text) + 1) /\ q >= p
    BY <1>1
  <2>4. QED
    BY <1>2, <2>1, <2>2, <2>3
<1>4. QED
  BY <1>3

LEMMA SkipIs ==
    ASSUME string.text \in Seq(TextChars), string.terminated, NEW p \in Nat \ {0}, WordEnds(p) # {}
    PROVE  SkipWord(p) \in Stops /\ SkipWord(p) >= p /\ \A r \in Stops : r >= p => SkipWord(p) <= r
<1> DEFINE W == WordEnds(p)
<1>1. W = {q \in Stops : q >= p} /\ W \in SUBSET Nat
  BY WordEndsAre, StopsAre
<1> HIDE DEF W
<1>2. \E m \in W : \A k \in W : m <= k
  BY <1>1, LeastOf DEF W
<1>3. SkipWord(p) \in W /\ \A r \in W : SkipWord(p) <= r
  BY <1>2 DEF SkipWord, W
<1>4. QED
  BY <1>1, <1>3

(* A state of the loop of ParseV: after n passes.                          *)
ParseEnds == {"none", "overread", "swapped", "overrun"}

IsPassed(acc, n) ==
    /\ acc = [at |-> acc.at, values |-> acc.values, end |-> acc.end]
    /\ acc.at \in Nat \ {0}
    /\ acc.end \in ParseEnds
    /\ string.text \in Seq(TextChars) /\ string.terminated =>
        /\ acc.end = "none" => Cardinality(Before(acc.at)) <= n
        /\ acc.end = "overread" => Cardinality(Stops) < n

LEMMA PassGoes ==
    ASSUME NEW acc, NEW n \in Nat, IsPassed(acc, n), acc.end = "none", NEW q \in Nat \ {0}, NEW v,
           string.text \in Seq(TextChars) /\ string.terminated =>
              Before(q + 1) \subseteq Before(acc.at) \cup {q}
    PROVE  IsPassed([at |-> q + 1, values |-> v, end |-> "none"], n + 1)
<1> DEFINE b == [at |-> q + 1, values |-> v, end |-> "none"]
<1>1. b.at = q + 1 /\ b.values = v /\ b.end = "none" /\ b = [at |-> b.at, values |-> b.values, end |-> b.end]
  OBVIOUS
<1> HIDE DEF b
<1>2. ASSUME string.text \in Seq(TextChars), string.terminated
      PROVE  Cardinality(Before(b.at)) <= n + 1
  <2>1. Cardinality(Before(acc.at)) \in Nat /\ Cardinality(Before(q + 1)) \in Nat
    BY <1>2, StopsAre
  <2>2. Cardinality(Before(acc.at)) <= n
    BY <1>2 DEF IsPassed
  <2>3. Cardinality(Before(q + 1)) <= Cardinality(Before(acc.at)) + 1
    BY <1>2, OneMore
  <2>4. QED
    BY <1>1, <2>1, <2>2, <2>3
<1>3. b.at \in Nat \ {0} /\ b.end \in ParseEnds
  BY <1>1 DEF ParseEnds
<1>4. IsPassed(b, n + 1)
  BY <1>1, <1>2, <1>3 DEF IsPassed
<1>5. QED
  BY <1>4 DEF b

LEMMA PassEnds ==
    ASSUME NEW acc, NEW n \in Nat, IsPassed(acc, n), NEW how \in {"overread", "swapped", "overrun"},
           string.text \in Seq(TextChars) /\ string.terminated /\ how = "overread" =>
              acc.end = "none" /\ Stops \subseteq Before(acc.at)
    PROVE  IsPassed([acc EXCEPT !.end = how], n + 1)
<1> DEFINE b == [acc EXCEPT !.end = how]
<1>1. b.at = acc.at /\ b.values = acc.values /\ b.end = how
      /\ b = [at |-> b.at, values |-> b.values, end |-> b.end]
  BY DEF IsPassed
<1> HIDE DEF b
<1>2. ASSUME string.text \in Seq(TextChars), string.terminated, how = "overread"
      PROVE  Cardinality(Stops) < n + 1
  <2>1. /\ Cardinality(Before(acc.at)) \in Nat /\ Cardinality(Stops) \in Nat
        /\ IsFiniteSet(Before(acc.at))
    BY <1>2, StopsAre
  <2>2. Cardinality(Before(acc.at)) <= n
    BY <1>2 DEF IsPassed
  <2>3. Cardinality(Stops) <= Cardinality(Before(acc.at))
    BY <1>2, <2>1, FS_Subset
  <2>4. QED
    BY <2>1, <2>2, <2>3
<1>3. b.at \in Nat \ {0} /\ b.end \in ParseEnds /\ b.end # "none"
  BY <1>1 DEF ParseEnds, IsPassed
<1>4. IsPassed(b, n + 1)
  BY <1>1, <1>2, <1>3 DEF IsPassed
<1>5. QED
  BY <1>4 DEF b

LEMMA OnePass ==
    ASSUME NEW acc, NEW n \in Nat, IsPassed(acc, n), NEW d, d # "c", NEW swapped \in BOOLEAN,
           string.text \in Seq(TextChars), string.terminated
    PROVE  IsPassed(ParsePass(acc, d, swapped), n + 1)
<1> DEFINE p == acc.at
           ends(how) == [acc EXCEPT !.end = how]
           value == ValueAt(d, p)
           goes == [acc EXCEPT !.at = SkipWord(p) + 1, !.values = Append(@, ValueAt(d, p))]
           steps == [acc EXCEPT !.at = @ + 1]
           b == ParsePass(acc, d, swapped)
<1>1. b = IF acc.end # "none" THEN acc
          ELSE IF d \notin ParsedDirectives THEN steps
          ELSE IF d = "s" /\ swapped THEN ends("swapped")
          ELSE IF WordEnds(p) = {} THEN ends("overread")
          ELSE IF d \notin {"t", "s"} /\ NumberOverreads(d, p) THEN ends("overread")
          ELSE IF d = "s" /\ Len(Word(p)) > WordCapacity THEN ends("overrun")
          ELSE goes
  BY DEF ParsePass
<1>2. /\ Stops \subseteq Nat \ {0} /\ p \in Nat \ {0}
      /\ acc = [at |-> acc.at, values |-> acc.values, end |-> acc.end]
  BY StopsAre DEF IsPassed
<1>3. ~ NumberOverreads(d, p)
  BY DEF NumberOverreads
<1>4. IsPassed(ends("swapped"), n + 1) /\ IsPassed(ends("overrun"), n + 1)
  BY PassEnds
<1>5. ASSUME acc.end # "none" PROVE IsPassed(acc, n + 1)
  <2>1. Cardinality(Stops) \in Nat
    BY StopsAre
  <2>2. QED
    BY <1>5, <2>1 DEF IsPassed
<1>6. ASSUME acc.end = "none" PROVE IsPassed(steps, n + 1)
  <2>1. Before(p + 1) \subseteq Before(p) \cup {p}
    BY <1>2 DEF Before
  <2>2. IsPassed([at |-> p + 1, values |-> acc.values, end |-> "none"], n + 1)
    BY <1>2, <1>6, <2>1, PassGoes
  <2>3. steps = [at |-> p + 1, values |-> acc.values, end |-> "none"]
    BY <1>2, <1>6
  <2>4. QED
    BY <2>2, <2>3
<1>7. ASSUME acc.end = "none", WordEnds(p) = {} PROVE IsPassed(ends("overread"), n + 1)
  <2>1. Stops \subseteq Before(p)
    <3>1. \A q \in Stops : ~ (q >= p)
      BY <1>2, <1>7, WordEndsAre
    <3>2. QED
      BY <1>2, <3>1 DEF Before
  <2>2. QED
    BY <1>7, <2>1, PassEnds
<1>8. ASSUME acc.end = "none", WordEnds(p) # {} PROVE IsPassed(goes, n + 1)
  <2> DEFINE q == SkipWord(p)
  <2>1. q \in Stops /\ q >= p /\ \A r \in Stops : r >= p => q <= r
    BY <1>2, <1>8, SkipIs
  <2> HIDE DEF q
  <2>2. q \in Nat \ {0}
    BY <1>2, <2>1
  <2>3. Before(q + 1) \subseteq Before(p) \cup {q}
    BY <1>2, <2>1, <2>2 DEF Before
  <2>4. IsPassed([at |-> q + 1, values |-> Append(acc.values, value), end |-> "none"], n + 1)
    BY <1>8, <2>2, <2>3, PassGoes
  <2>5. goes = [at |-> q + 1, values |-> Append(acc.values, value), end |-> "none"]
    <3> HIDE DEF value
    <3>1. goes = [acc EXCEPT !.at = q + 1, !.values = Append(@, value)]
      BY DEF q, value
    <3> HIDE DEF goes
    <3>2. QED
      BY <1>2, <1>8, <3>1
  <2>6. QED
    BY <2>4, <2>5
<1> HIDE DEF b, steps, goes, ends
<1>9. QED
  BY <1>1, <1>3, <1>4, <1>5, <1>6, <1>7, <1>8 DEF b

IsParsing(g, ds, swapped) ==
    g = [n \in 0..Len(ds) |->
            IF n = 0 THEN [at |-> 1, values |-> <<>>, end |-> "none"]
            ELSE ParsePass(g[n - 1], ds[n], swapped)]

LEMMA ParsingsExist ==
    ASSUME NEW ds, Len(ds) \in Nat, NEW swapped
    PROVE  \E g : IsParsing(g, ds, swapped)
<1> DEFINE start == [at |-> 1, values |-> <<>>, end |-> "none"]
           IsUpTo(g, k) == g = [n \in 0..k |-> IF n = 0 THEN start ELSE ParsePass(g[n - 1], ds[n], swapped)]
           S == {k \in 0..Len(ds) : \E g : IsUpTo(g, k)}
<1> HIDE DEF start
<1>1. 0 \in S
  <2> DEFINE g == [n \in 0..0 |-> start]
  <2>1. g = [n \in 0..0 |-> IF n = 0 THEN start ELSE ParsePass(g[n - 1], ds[n], swapped)]
    OBVIOUS
  <2> HIDE DEF g
  <2>2. IsUpTo(g, 0)
    BY <2>1
  <2>3. QED
    BY <2>2
<1>2. ASSUME NEW k \in 0..(Len(ds) - 1), k \in S PROVE k + 1 \in S
  <2>1. PICK g : IsUpTo(g, k)
    BY <1>2
  <2> DEFINE added == ParsePass(g[k], ds[k + 1], swapped)
             h == [n \in 0..(k + 1) |-> IF n <= k THEN g[n] ELSE added]
  <2>2. ASSUME NEW n \in 0..(k + 1)
        PROVE  h[n] = IF n = 0 THEN start ELSE ParsePass(h[n - 1], ds[n], swapped)
    <3> HIDE DEF added
    <3>1. CASE n <= k
      <4>1. n \in 0..k /\ (n # 0 => n - 1 \in 0..(k + 1) /\ n - 1 <= k)
        BY <3>1
      <4>2. g[n] = IF n = 0 THEN start ELSE ParsePass(g[n - 1], ds[n], swapped)
        BY <2>1, <4>1
      <4>3. h[n] = g[n] /\ (n # 0 => h[n - 1] = g[n - 1])
        BY <3>1, <4>1
      <4> HIDE DEF h
      <4>4. QED
        BY <4>2, <4>3
    <3>2. CASE n = k + 1
      <4>1. ~ (n <= k) /\ n # 0 /\ n - 1 = k /\ k \in 0..(k + 1) /\ k <= k
        BY <3>2
      <4>2. h[n] = added /\ h[k] = g[k]
        BY <4>1
      <4> HIDE DEF h
      <4>3. QED
        BY <3>2, <4>1, <4>2 DEF added
    <3>3. QED
      BY <3>1, <3>2
  <2>3. h = [n \in 0..(k + 1) |-> h[n]]
    OBVIOUS
  <2> HIDE DEF h
  <2>4. h = [n \in 0..(k + 1) |-> IF n = 0 THEN start ELSE ParsePass(h[n - 1], ds[n], swapped)]
    BY <2>2, <2>3
  <2>5. IsUpTo(h, k + 1)
    BY <2>4
  <2> HIDE DEF IsUpTo
  <2>6. QED
    BY <2>5
<1> HIDE DEF S
<1>3. 0..Len(ds) \subseteq S
  BY <1>1, <1>2, UpTo
<1> HIDE DEF IsUpTo
<1>4. PICK g : IsUpTo(g, Len(ds))
  BY <1>3 DEF S
<1>5. QED
  BY <1>4 DEF IsParsing, IsUpTo, start

(* After all directives, none of which is %c.                              *)
LEMMA ParseIs ==
    ASSUME NEW format \in Seq(TextChars), NEW swapped \in BOOLEAN,
           string.text \in Seq(TextChars), string.terminated,
           "c" \notin ToSet(Directives(format)),
           Parse(format, swapped).end = "overread"
    PROVE  Cardinality(Stops) < Len(Directives(format))
<1> DEFINE ds == Directives(format)
           g == CHOOSE g : IsParsing(g, ds, swapped)
           S == {n \in 0..Len(ds) : IsPassed(g[n], n)}
<1>1. ds \in Seq(TextChars) /\ Len(ds) \in Nat
  BY DirectivesAre, LenProperties
<1>2. Parse(format, swapped) = g[Len(ds)]
  BY DEF Parse, IsParsing
<1>3. \A i \in 1..Len(ds) : ds[i] # "c"
  <2>1. ToSet(ds) = {ds[i] : i \in DOMAIN ds} /\ DOMAIN ds = 1..Len(ds)
    BY <1>1, LenProperties DEF ToSet
  <2>2. QED
    BY <2>1
<1> HIDE DEF ds
<1>4. IsParsing(g, ds, swapped)
  BY <1>1, ParsingsExist
<1> HIDE DEF g
<1>5. 0 \in S
  <2> DEFINE start == [at |-> 1, values |-> <<>>, end |-> "none"]
  <2>1. g[0] = start
    BY <1>1, <1>4 DEF IsParsing
  <2>2. /\ start.at = 1 /\ start.end = "none"
        /\ start = [at |-> start.at, values |-> start.values, end |-> start.end]
    OBVIOUS
  <2> HIDE DEF start
  <2>3. Before(1) = {}
    <3>1. Stops \subseteq Nat \ {0}
      BY StopsAre
    <3>2. \A q \in Nat \ {0} : ~ (q < 1)
      OBVIOUS
    <3>3. \A q \in Stops : ~ (q < 1)
      BY <3>1, <3>2
    <3>4. QED
      BY <3>3 DEF Before
  <2>4. Cardinality(Before(1)) = 0
    BY <2>3, FS_EmptySet
  <2>5. IsPassed(start, 0)
    BY <2>2, <2>4 DEF IsPassed, ParseEnds
  <2>6. QED
    BY <1>1, <2>1, <2>5
<1>6. ASSUME NEW k \in 0..(Len(ds) - 1), k \in S PROVE k + 1 \in S
  <2>1. k \in Nat /\ k + 1 \in 1..Len(ds) /\ k + 1 \in 0..Len(ds) /\ k + 1 # 0 /\ (k + 1) - 1 = k
    BY <1>1
  <2>2. g[k + 1] = ParsePass(g[k], ds[k + 1], swapped)
    BY <1>4, <2>1 DEF IsParsing
  <2>3. IsPassed(g[k], k)
    BY <1>6
  <2>4. ds[k + 1] # "c"
    BY <1>3, <2>1
  <2>5. IsPassed(ParsePass(g[k], ds[k + 1], swapped), k + 1)
    BY <2>1, <2>3, <2>4, OnePass
  <2>6. QED
    BY <2>1, <2>2, <2>5
<1> HIDE DEF S
<1>7. 0..Len(ds) \subseteq S
  BY <1>1, <1>5, <1>6, UpTo
<1>8. Len(ds) \in S
  BY <1>1, <1>7
<1>9. IsPassed(g[Len(ds)], Len(ds)) /\ g[Len(ds)].end = "overread"
  BY <1>2, <1>8 DEF S
<1>10. QED
  BY <1>9 DEF IsPassed, ds

(* The words are no more than the places where one may end.                *)
LEMMA WordsAreStops ==
    ASSUME string.text \in Seq(TextChars)
    PROVE  WordCount \in Nat /\ WordCount <= Cardinality(Stops)
<1> DEFINE text == string.text
           m == Len(text)
           Ends(n) == (\A i \in 1..n : text[i] # Nul) /\ (n = m \/ ~ (text[n + 1] # Nul))
           k == CHOOSE n \in 0..m : Ends(n)
           cs == SubSeq(text, 1, m)
           first == TextFrom(1)
           Blanks == {i \in 1..k : text[i] = " "}
<1>1. m \in Nat
  BY LenProperties
<1>2. \E n \in 0..m : Ends(n)
  <2> DEFINE Z == {n \in 0..m : n = m \/ text[n + 1] = Nul}
  <2>1. Z \in SUBSET Nat /\ m \in Z
    BY <1>1
  <2>2. PICK n \in Z : \A l \in Z : n <= l
    BY <2>1, LeastOf
  <2>3. ASSUME NEW i \in 1..n, text[i] = Nul PROVE FALSE
    <3>1. i - 1 \in 0..m /\ (i - 1) + 1 = i /\ ~ (n <= i - 1)
      BY <1>1, <2>2
    <3>2. i - 1 \in Z
      BY <2>3, <3>1
    <3>3. QED
      BY <2>2, <3>1, <3>2
  <2>4. n \in 0..m /\ (n = m \/ text[n + 1] = Nul)
    BY <2>2
  <2>5. QED
    BY <2>3, <2>4
<1>3. first = SubSeq(text, 1, k)
  <2>1. cs = text
    BY SubSeqFull
  <2>2. first = SubSeq(cs, 1, CHOOSE n \in 0..Len(cs) : (\A i \in 1..n : cs[i] # Nul)
                                                    /\ (n = Len(cs) \/ ~ (cs[n + 1] # Nul)))
    BY DEF TextFrom, Span
  <2> HIDE DEF cs
  <2>3. QED
    BY <2>1, <2>2
<1> HIDE DEF Ends, first
<1>4. k \in 0..m /\ Ends(k)
  BY <1>2
<1> HIDE DEF k
<1>5. first \in Seq(TextChars) /\ Len(first) = k /\ DOMAIN first = 1..k /\ \A i \in 1..k : first[i] = text[i]
  <2>1. /\ SubSeq(text, 1, k) \in Seq(TextChars) /\ Len(SubSeq(text, 1, k)) = k
        /\ \A i \in 1..k : SubSeq(text, 1, k)[i] = text[i]
    BY <1>4, Cut
  <2>2. QED
    BY <1>3, <2>1, LenProperties
<1>6. {i \in DOMAIN first : first[i] = " "} = Blanks
  BY <1>5
<1>7. WordCount = Cardinality(Blanks) + 1
  BY <1>6 DEF WordCount, first
<1>8. Blanks \subseteq Stops
  <2>1. ASSUME NEW i \in 1..k, text[i] = " " PROVE i \in Stops
    <3>1. i \in 1..(m + 1) /\ i <= m
      BY <1>1, <1>4
    <3>2. Cell(i) = " "
      BY <2>1, <3>1 DEF Cell
    <3>3. QED
      BY <3>1, <3>2 DEF Stops
  <2>2. QED
    BY <2>1
<1>9. k + 1 \in Stops /\ k + 1 \notin Blanks
  <2>1. k + 1 \in 1..(m + 1) /\ (k + 1 <= m <=> k # m)
    BY <1>1, <1>4
  <2>2. Cell(k + 1) = Nul
    BY <1>4, <2>1 DEF Cell, Ends
  <2>3. k + 1 \notin 1..k
    BY <1>4
  <2>4. QED
    BY <2>1, <2>2, <2>3 DEF Stops
<1> DEFINE B == Blanks \cup {k + 1}
<1>10. IsFiniteSet(Stops) /\ Cardinality(Stops) \in Nat
  BY StopsAre
<1> HIDE DEF Blanks
<1>11. IsFiniteSet(Blanks) /\ Cardinality(Blanks) \in Nat
  <2>1. IsFiniteSet(Blanks)
    BY <1>8, <1>10, FS_Subset
  <2>2. QED
    BY <2>1, FS_CardinalityType
<1>12. Cardinality(B) = Cardinality(Blanks) + 1 /\ B \in SUBSET Stops
  BY <1>8, <1>9, <1>11, FS_AddElement
<1> HIDE DEF B
<1>13. Cardinality(B) <= Cardinality(Stops)
  BY <1>10, <1>12, FS_Subset
<1>14. QED
  BY <1>7, <1>10, <1>11, <1>12, <1>13

LEMMA ParseStaysInsideNext ==
    ASSUME string.text \in Seq(TextChars), ParseStaysInside, [FormatsNext]_formatVars
    PROVE  ParseStaysInside'
<1>1. ASSUME NEW format, NEW args, FormatString(format, args) PROVE ParseStaysInside'
  <2>1. call'[1] = "Format"
    BY <1>1 DEF FormatString, New
  <2>2. QED
    BY <2>1 DEF ParseStaysInside
<1>2. ASSUME NEW value, ConvertInt(value) PROVE ParseStaysInside'
  <2>1. call'[1] = "FromInt"
    BY <1>2 DEF ConvertInt, New
  <2>2. QED
    BY <2>1 DEF ParseStaysInside
<1>3. ASSUME NEW value, NEW b, ConvertUint(value, b) PROVE ParseStaysInside'
  <2>1. call' = <<"FromUint", value, b>>
    BY <1>3 DEF ConvertUint, New
  <2>2. call'[1] = "FromUint"
    BY <2>1
  <2>3. QED
    BY <2>2 DEF ParseStaysInside
<1>4. ASSUME NEW f, ConvertFloat(f) PROVE ParseStaysInside'
  <2>1. call'[1] = "FromFloat2"
    BY <1>4 DEF ConvertFloat, New
  <2>2. QED
    BY <2>1 DEF ParseStaysInside
<1>5. ASSUME NEW format \in FormatSet, ParseString(format) PROVE ParseStaysInside'
  <2>1. call' = <<"Parse", format>> /\ string' = string
    BY <1>5 DEF ParseString
  <2>2. call'[2] = format
    BY <2>1
  <2>3. format \in Seq(TextChars)
    BY FormatsAssumption
  <2>4. ASSUME string.terminated, "c" \notin ToSet(Directives(format)), outcome' = "overread"
        PROVE  Len(Directives(format)) > WordCount
    <3>1. PICK swapped \in BOOLEAN :
            outcome' = IF Parse(format, swapped).end = "none" /\ Overreads(format) THEN "overread_format"
                       ELSE Parse(format, swapped).end
      BY <1>5 DEF ParseString
    <3>2. Parse(format, swapped).end = "overread"
      BY <2>4, <3>1
    <3>3. Cardinality(Stops) < Len(Directives(format))
      BY <2>3, <2>4, <3>2, ParseIs
    <3>4. WordCount \in Nat /\ WordCount <= Cardinality(Stops) /\ Cardinality(Stops) \in Nat
      BY WordsAreStops, StopsAre
    <3>5. Len(Directives(format)) \in Nat
      BY <2>3, DirectivesAre, LenProperties
    <3>6. QED
      BY <3>3, <3>4, <3>5
  <2>5. WordCount' = WordCount
    BY <2>1 DEF WordCount, TextFrom, Span
  <2>6. QED
    BY <2>1, <2>2, <2>4, <2>5 DEF ParseStaysInside
<1>6. CASE UNCHANGED formatVars
  <2>1. string' = string /\ outcome' = outcome /\ call' = call
    BY <1>6 DEF formatVars
  <2>2. WordCount' = WordCount
    BY <2>1 DEF WordCount, TextFrom, Span
  <2>3. QED
    BY <2>1, <2>2 DEF ParseStaysInside
<1>7. QED
  BY <1>1, <1>2, <1>3, <1>4, <1>5, <1>6 DEF FormatsNext, Makes, Parses

-----------------------------------------------------------------------------
(* The text that Format makes.                                             *)
LEMMA ToTextChars ==
    ASSUME NEW text, NEW S \in {Signed, Pointed}, text \in Seq(S)
    PROVE  text \in Seq(TextChars)
<1>1. Signed \subseteq TextChars /\ "." \in TextChars
  BY TextCharsHave
<1>2. S \subseteq TextChars
  BY <1>1 DEF Pointed
<1>3. QED
  BY <1>2, SeqMonotonic

LEMMA UintIsText ==
    ASSUME NEW b \in NumericBase, NEW value \in Nat
    PROVE  FromUint(value, b) \in Seq(TextChars)
<1>1. FromUint(value, b) \in Seq(DigitsOf(b))
  BY UintDenotes
<1>2. DigitsOf(b) \subseteq DigitsOf(16)
  BY DEF DigitsOf, NumericBase
<1>3. DigitsOf(16) \subseteq TextChars
  BY TextCharsHave, DigitCharsAre DEF Signed
<1>4. QED
  BY <1>1, <1>2, <1>3, SeqMonotonic

LEMMA TwoCharacters ==
    ASSUME NEW S, NEW x \in S, NEW y \in S, NEW text \in Seq(S)
    PROVE  <<x, y>> \o text \in Seq(S)
<1>1. <<x, y>> \in Seq(S)
  OBVIOUS
<1>2. QED
  BY <1>1, ConcatProperties

LEMMA PushedUintIsText ==
    ASSUME NEW b \in NumericBase, NEW value \in Nat
    PROVE  PushedUint(value, b) \in Seq(TextChars)
<1> DEFINE text == FromUint(value, b)
<1>1. text \in Seq(TextChars)
  BY UintIsText
<1>2. "0" \in TextChars /\ "b" \in TextChars /\ "o" \in TextChars /\ "x" \in TextChars
  BY TextCharsHave
<1>3. \/ b = 2 /\ PushedUint(value, b) = <<"0", "b">> \o text
      \/ b = 8 /\ PushedUint(value, b) = <<"0", "o">> \o text
      \/ b = 16 /\ PushedUint(value, b) = <<"0", "x">> \o text
      \/ b = 10 /\ PushedUint(value, b) = text
  <2>1. b = 2 \/ b = 8 \/ b = 16 \/ b = 10
    BY DEF NumericBase
  <2>2. QED
    BY <2>1 DEF PushedUint
<1> HIDE DEF text
<1>4. QED
  BY <1>1, <1>2, <1>3, TwoCharacters

LEMMA FormattedIsText ==
    ASSUME NEW d, NEW value \in ArgumentsOf(d)
    PROVE  Formatted(d, value) \in Seq(TextChars)
<1>1. {2, 8, 10, 16} \subseteq NumericBase
  BY DEF NumericBase
<1>2. CASE d \in UnsignedDirectives
  <2>1. value \in Ulongs
    BY <1>2 DEF ArgumentsOf, UnsignedDirectives, WordDirectives
  <2>2. value \in Nat
    BY <2>1, FormatsAssumption
  <2>3. \A b \in {2, 8, 10, 16} : PushedUint(value, b) \in Seq(TextChars)
    BY <1>1, <2>2, PushedUintIsText
  <2>4. CASE d = "U"
    <3>1. Formatted(d, value) = <<"U", "+">> \o PushedUint(value, 10)
      BY <2>4 DEF Formatted, WordDirectives
    <3>2. "U" \in TextChars /\ "+" \in TextChars
      BY TextCharsHave
    <3>3. QED
      BY <2>3, <3>1, <3>2, TwoCharacters
  <2>5. CASE d \in {"u", "z", "Z"}
    BY <2>3, <2>5 DEF Formatted, WordDirectives
  <2>6. CASE d = "o"
    BY <2>3, <2>6 DEF Formatted, WordDirectives
  <2>7. CASE d \in {"x", "p"}
    BY <2>3, <2>7 DEF Formatted, WordDirectives
  <2>8. CASE d = "b"
    BY <2>3, <2>8 DEF Formatted, WordDirectives
  <2>9. QED
    BY <1>2, <2>4, <2>5, <2>6, <2>7, <2>8 DEF UnsignedDirectives
<1>3. CASE d = "i"
  <2>1. value \in Longs /\ Formatted(d, value) = FromInt(value)
    BY <1>3 DEF ArgumentsOf, Formatted, WordDirectives, UnsignedDirectives
  <2>2. value \in Int
    BY <2>1, FormatsAssumption
  <2>3. FromInt(value) \in Seq(Signed)
    BY <2>2, IntDenotes
  <2>4. QED
    BY <2>1, <2>3, ToTextChars
<1>4. CASE d = "c"
  <2>1. value \in Letters /\ Formatted(d, value) = <<value>>
    BY <1>4 DEF ArgumentsOf, Formatted, WordDirectives, UnsignedDirectives
  <2>2. value \in TextChars
    BY <2>1, TextCharsHave
  <2>3. QED
    BY <2>1, <2>2, Single
<1>5. CASE d = "t"
  <2>1. Formatted(d, value) \in {TrueText, FalseText}
    BY <1>5 DEF Formatted, WordDirectives
  <2>2. QED
    BY <2>1, TextCharsHave
<1>6. CASE d \in WordDirectives
  <2>1. d \in {"s", "v"} \/ d \in WordDirectives \ {"s", "v"}
    BY <1>6
  <2>2. value \in Words /\ Formatted(d, value) = value
    BY <1>6, <2>1 DEF ArgumentsOf, Formatted, WordDirectives, UnsignedDirectives
  <2>3. QED
    BY <2>2, FormatsAssumption
<1>7. CASE ~ (d = "i" \/ d = "c" \/ d = "t" \/ d \in UnsignedDirectives \/ d \in WordDirectives)
  <2>1. d \notin {"s", "v"}
    BY <1>7 DEF WordDirectives
  <2>2. ArgumentsOf(d) = {}
    BY <1>7, <2>1 DEF ArgumentsOf
  <2>3. QED
    BY <2>2
<1>8. QED
  BY <1>2, <1>3, <1>4, <1>5, <1>6, <1>7

(* The text and the number of arguments taken, from pass to pass.          *)
IsFormatting(g, format, args, m) ==
    g = [n \in 0..m |->
            IF n = 0 THEN [text |-> <<>>, taken |-> 0]
            ELSE [text  |-> g[n - 1].text \o PassText(format, n, g[n - 1].taken, args),
                  taken |-> g[n - 1].taken + IF Takes(format, n) THEN 1 ELSE 0]]

LEMMA FormattingsExist ==
    ASSUME NEW format, NEW args, NEW m \in Nat
    PROVE  \E g : IsFormatting(g, format, args, m)
<1> DEFINE start == [text |-> <<>>, taken |-> 0]
           pass(r, n) == [text  |-> r.text \o PassText(format, n, r.taken, args),
                          taken |-> r.taken + IF Takes(format, n) THEN 1 ELSE 0]
           IsUpTo(g, k) == g = [n \in 0..k |-> IF n = 0 THEN start ELSE pass(g[n - 1], n)]
           S == {k \in 0..m : \E g : IsUpTo(g, k)}
<1> HIDE DEF start, pass
<1>1. 0 \in S
  <2> DEFINE g == [n \in 0..0 |-> start]
  <2>1. g = [n \in 0..0 |-> IF n = 0 THEN start ELSE pass(g[n - 1], n)]
    OBVIOUS
  <2> HIDE DEF g
  <2>2. IsUpTo(g, 0)
    BY <2>1
  <2>3. QED
    BY <2>2
<1>2. ASSUME NEW k \in 0..(m - 1), k \in S PROVE k + 1 \in S
  <2>1. PICK g : IsUpTo(g, k)
    BY <1>2
  <2> DEFINE added == pass(g[k], k + 1)
             h == [n \in 0..(k + 1) |-> IF n <= k THEN g[n] ELSE added]
  <2>2. ASSUME NEW n \in 0..(k + 1)
        PROVE  h[n] = IF n = 0 THEN start ELSE pass(h[n - 1], n)
    <3> HIDE DEF added
    <3>1. CASE n <= k
      <4>1. n \in 0..k /\ (n # 0 => n - 1 \in 0..(k + 1) /\ n - 1 <= k)
        BY <3>1
      <4>2. g[n] = IF n = 0 THEN start ELSE pass(g[n - 1], n)
        BY <2>1, <4>1
      <4>3. h[n] = g[n] /\ (n # 0 => h[n - 1] = g[n - 1])
        BY <3>1, <4>1
      <4> HIDE DEF h
      <4>4. QED
        BY <4>2, <4>3
    <3>2. CASE n = k + 1
      <4>1. ~ (n <= k) /\ n # 0 /\ n - 1 = k /\ k \in 0..(k + 1) /\ k <= k
        BY <3>2
      <4>2. h[n] = added /\ h[k] = g[k]
        BY <4>1
      <4> HIDE DEF h
      <4>3. QED
        BY <3>2, <4>1, <4>2 DEF added
    <3>3. QED
      BY <3>1, <3>2
  <2>3. h = [n \in 0..(k + 1) |-> h[n]]
    OBVIOUS
  <2> HIDE DEF h
  <2>4. h = [n \in 0..(k + 1) |-> IF n = 0 THEN start ELSE pass(h[n - 1], n)]
    BY <2>2, <2>3
  <2>5. IsUpTo(h, k + 1)
    BY <2>4
  <2> HIDE DEF IsUpTo
  <2>6. QED
    BY <2>5
<1> HIDE DEF S
<1>3. 0..m \subseteq S
  BY <1>1, <1>2, UpTo
<1> HIDE DEF IsUpTo
<1>4. PICK g : IsUpTo(g, m)
  BY <1>3 DEF S
<1>5. QED
  BY <1>4 DEF IsFormatting, IsUpTo, start, pass

(* The lists of arguments after pass n, from those before it.              *)
Extended(lists, format, n) ==
    IF Takes(format, n)
    THEN {Append(args, v) : args \in lists, v \in ArgumentsOf(Marked(format, n))}
    ELSE lists

IsListing(g, format, m) ==
    g = [n \in 0..m |-> IF n = 0 THEN {<<>>} ELSE Extended(g[n - 1], format, n)]

LEMMA ListingsExist ==
    ASSUME NEW format, NEW m \in Nat
    PROVE  \E g : IsListing(g, format, m)
<1> DEFINE IsUpTo(g, k) == g = [n \in 0..k |-> IF n = 0 THEN {<<>>} ELSE Extended(g[n - 1], format, n)]
           S == {k \in 0..m : \E g : IsUpTo(g, k)}
<1>1. 0 \in S
  <2> DEFINE g == [n \in 0..0 |-> {<<>>}]
  <2>1. g = [n \in 0..0 |-> IF n = 0 THEN {<<>>} ELSE Extended(g[n - 1], format, n)]
    OBVIOUS
  <2> HIDE DEF g
  <2>2. IsUpTo(g, 0)
    BY <2>1
  <2>3. QED
    BY <2>2
<1>2. ASSUME NEW k \in 0..(m - 1), k \in S PROVE k + 1 \in S
  <2>1. PICK g : IsUpTo(g, k)
    BY <1>2
  <2> DEFINE added == Extended(g[k], format, k + 1)
             h == [n \in 0..(k + 1) |-> IF n <= k THEN g[n] ELSE added]
  <2>2. ASSUME NEW n \in 0..(k + 1)
        PROVE  h[n] = IF n = 0 THEN {<<>>} ELSE Extended(h[n - 1], format, n)
    <3> HIDE DEF added
    <3>1. CASE n <= k
      <4>1. n \in 0..k /\ (n # 0 => n - 1 \in 0..(k + 1) /\ n - 1 <= k)
        BY <3>1
      <4>2. g[n] = IF n = 0 THEN {<<>>} ELSE Extended(g[n - 1], format, n)
        BY <2>1, <4>1
      <4>3. h[n] = g[n] /\ (n # 0 => h[n - 1] = g[n - 1])
        BY <3>1, <4>1
      <4> HIDE DEF h
      <4>4. QED
        BY <4>2, <4>3
    <3>2. CASE n = k + 1
      <4>1. ~ (n <= k) /\ n # 0 /\ n - 1 = k /\ k \in 0..(k + 1) /\ k <= k
        BY <3>2
      <4>2. h[n] = added /\ h[k] = g[k]
        BY <4>1
      <4> HIDE DEF h
      <4>3. QED
        BY <3>2, <4>1, <4>2 DEF added
    <3>3. QED
      BY <3>1, <3>2
  <2>3. h = [n \in 0..(k + 1) |-> h[n]]
    OBVIOUS
  <2> HIDE DEF h
  <2>4. h = [n \in 0..(k + 1) |-> IF n = 0 THEN {<<>>} ELSE Extended(h[n - 1], format, n)]
    BY <2>2, <2>3
  <2>5. IsUpTo(h, k + 1)
    BY <2>4
  <2> HIDE DEF IsUpTo
  <2>6. QED
    BY <2>5
<1> HIDE DEF S
<1>3. 0..m \subseteq S
  BY <1>1, <1>2, UpTo
<1> HIDE DEF IsUpTo
<1>4. PICK g : IsUpTo(g, m)
  BY <1>3 DEF S
<1>5. QED
  BY <1>4 DEF IsListing, IsUpTo

(***************************************************************************)
(* The arguments taken so far belong to the directives met so far: g[k]    *)
(* counts those taken after k passes.                                      *)
(***************************************************************************)
Values == UNION {ArgumentsOf(d) : d \in TextChars}

Fits(args, format, g, n) ==
    /\ args \in Seq(Values)
    /\ Len(args) = g[n].taken
    /\ \A k \in 1..n :
        Takes(format, k) =>
            /\ g[k - 1].taken + 1 \in 1..Len(args)
            /\ args[g[k - 1].taken + 1] \in ArgumentsOf(Marked(format, k))

LEMMA OneMoreFits ==
    ASSUME NEW format \in Seq(TextChars), NEW g, NEW n \in Nat, n + 1 <= Passes(format),
           g[n + 1].taken = g[n].taken + (IF Takes(format, n + 1) THEN 1 ELSE 0),
           NEW args, Fits(args, format, g, n)
    PROVE  /\ ~ Takes(format, n + 1) => Fits(args, format, g, n + 1)
           /\ \A v \in ArgumentsOf(Marked(format, n + 1)) :
                Takes(format, n + 1) => Fits(Append(args, v), format, g, n + 1)
<1>1. args \in Seq(Values) /\ Len(args) = g[n].taken /\ Len(args) \in Nat
  BY LenProperties DEF Fits
<1>2. ASSUME NEW k \in 1..(n + 1) PROVE k \in 1..n \/ k = n + 1
  OBVIOUS
<1>3. ASSUME ~ Takes(format, n + 1) PROVE Fits(args, format, g, n + 1)
  <2>1. Len(args) = g[n + 1].taken
    BY <1>1, <1>3
  <2>2. QED
    BY <1>1, <1>2, <1>3, <2>1 DEF Fits
<1>4. ASSUME Takes(format, n + 1), NEW v \in ArgumentsOf(Marked(format, n + 1))
      PROVE  Fits(Append(args, v), format, g, n + 1)
  <2> DEFINE more == Append(args, v)
  <2>1. v \in Values
    <3>1. n + 1 \in 1..Passes(format)
      BY PassesAre
    <3>2. Marked(format, n + 1) \in TextChars
      BY <3>1, PassIs
    <3>3. QED
      BY <3>2 DEF Values
  <2>2. /\ more \in Seq(Values) /\ Len(more) = Len(args) + 1
        /\ \A i \in 1..Len(args) : more[i] = args[i]
        /\ more[Len(args) + 1] = v
    BY <1>1, <2>1, AppendProperties
  <2> HIDE DEF more
  <2>3. Len(more) = g[n + 1].taken
    BY <1>1, <1>4, <2>2
  <2>4. ASSUME NEW k \in 1..(n + 1), Takes(format, k)
        PROVE  /\ g[k - 1].taken + 1 \in 1..Len(more)
               /\ more[g[k - 1].taken + 1] \in ArgumentsOf(Marked(format, k))
    <3>1. CASE k \in 1..n
      <4> DEFINE i == g[k - 1].taken + 1
      <4>1. i \in 1..Len(args) /\ args[i] \in ArgumentsOf(Marked(format, k))
        BY <2>4, <3>1 DEF Fits
      <4> HIDE DEF i
      <4>2. i \in 1..Len(more) /\ more[i] = args[i]
        BY <1>1, <2>2, <4>1, SMTT(20)
      <4>3. QED
        BY <4>1, <4>2 DEF i
    <3>2. CASE k = n + 1
      <4>1. k - 1 = n
        BY <3>2
      <4>2. g[k - 1].taken + 1 = Len(args) + 1 /\ Len(args) + 1 \in 1..Len(more)
        BY <1>1, <2>2, <4>1
      <4>3. QED
        BY <1>4, <2>2, <3>2, <4>2
    <3>3. QED
      BY <1>2, <3>1, <3>2
  <2>5. QED
    BY <2>2, <2>3, <2>4 DEF Fits, more
<1>5. QED
  BY <1>3, <1>4

LEMMA ArgumentsFit ==
    ASSUME NEW format \in Seq(TextChars), NEW args \in ArgumentLists(format), NEW g, NEW any,
           IsFormatting(g, format, any, Passes(format))
    PROVE  Fits(args, format, g, Passes(format))
<1> DEFINE m == Passes(format)
           l == CHOOSE l : IsListing(l, format, m)
           S == {n \in 0..m : \A a \in l[n] : Fits(a, format, g, n)}
<1>1. m \in Nat
  BY PassesAre
<1>2. ArgumentLists(format) = l[m]
  BY DEF ArgumentLists, IsListing, Extended
<1>3. IsListing(l, format, m)
  BY <1>1, ListingsExist
<1> HIDE DEF l
<1>4. 0 \in S
  <2>1. l[0] = {<<>>} /\ g[0] = [text |-> <<>>, taken |-> 0]
    <3>1. 0 \in 0..m
      BY <1>1
    <3>2. l[0] = {<<>>}
      BY <1>3, <3>1 DEF IsListing
    <3>3. g[0] = [text |-> <<>>, taken |-> 0]
      BY <3>1 DEF IsFormatting
    <3>4. QED
      BY <3>2, <3>3
  <2>2. <<>> \in Seq(Values) /\ Len(<<>>) = 0 /\ g[0].taken = 0
    BY <2>1
  <2>3. Fits(<<>>, format, g, 0)
    BY <2>2 DEF Fits
  <2>4. QED
    BY <1>1, <2>1, <2>3
<1>5. ASSUME NEW k \in 0..(m - 1), k \in S PROVE k + 1 \in S
  <2>1. k \in Nat /\ k + 1 \in 0..m /\ k + 1 # 0 /\ (k + 1) - 1 = k /\ k + 1 <= m
    BY <1>1
  <2>2. g[k + 1].taken = g[k].taken + (IF Takes(format, k + 1) THEN 1 ELSE 0)
    <3>1. g[k + 1] = [text  |-> g[k].text \o PassText(format, k + 1, g[k].taken, any),
                      taken |-> g[k].taken + IF Takes(format, k + 1) THEN 1 ELSE 0]
      BY <2>1 DEF IsFormatting
    <3>2. QED
      BY <3>1
  <2>3. l[k + 1] = IF Takes(format, k + 1)
                   THEN {Append(a, v) : a \in l[k], v \in ArgumentsOf(Marked(format, k + 1))}
                   ELSE l[k]
    <3>1. l[k + 1] = Extended(l[k], format, k + 1)
      BY <1>3, <2>1 DEF IsListing
    <3>2. QED
      BY <3>1 DEF Extended
  <2>4. \A a \in l[k] : Fits(a, format, g, k)
    BY <1>5
  <2>5. \A a \in l[k] :
            /\ ~ Takes(format, k + 1) => Fits(a, format, g, k + 1)
            /\ \A v \in ArgumentsOf(Marked(format, k + 1)) :
                 Takes(format, k + 1) => Fits(Append(a, v), format, g, k + 1)
    BY <2>1, <2>2, <2>4, OneMoreFits
  <2>6. \A a \in l[k + 1] : Fits(a, format, g, k + 1)
    <3>1. CASE Takes(format, k + 1)
      <4>1. l[k + 1] = {Append(a, v) : a \in l[k], v \in ArgumentsOf(Marked(format, k + 1))}
        BY <2>3, <3>1
      <4>2. ASSUME NEW b \in l[k + 1] PROVE Fits(b, format, g, k + 1)
        <5>1. PICK a \in l[k], v \in ArgumentsOf(Marked(format, k + 1)) : b = Append(a, v)
          BY <4>1, <4>2
        <5>2. QED
          BY <2>5, <3>1, <5>1
      <4>3. QED
        BY <4>2
    <3>2. CASE ~ Takes(format, k + 1)
      BY <2>3, <2>5, <3>2
    <3>3. QED
      BY <3>1, <3>2
  <2>7. QED
    BY <2>1, <2>6
<1> HIDE DEF S
<1>6. 0..m \subseteq S
  BY <1>1, <1>4, <1>5, UpTo
<1>7. m \in S
  BY <1>1, <1>6
<1>8. QED
  BY <1>2, <1>7 DEF S

LEMMA FormatTextIs ==
    ASSUME NEW format \in Seq(TextChars), NEW args \in ArgumentLists(format)
    PROVE  FormatText(format, args) \in Seq(TextChars)
<1> DEFINE m == Passes(format)
           g == CHOOSE g : IsFormatting(g, format, args, m)
           S == {n \in 0..m : g[n].text \in Seq(TextChars)}
<1>1. m \in Nat
  BY PassesAre
<1>2. FormatText(format, args) = g[m].text
  BY DEF FormatText, IsFormatting
<1>3. IsFormatting(g, format, args, m)
  BY <1>1, FormattingsExist
<1> HIDE DEF g
<1>4. Fits(args, format, g, m)
  BY <1>3, ArgumentsFit
<1>5. 0 \in S
  <2>1. g[0] = [text |-> <<>>, taken |-> 0]
    BY <1>1, <1>3 DEF IsFormatting
  <2>2. <<>> \in Seq(TextChars)
    OBVIOUS
  <2>3. g[0].text = <<>> /\ 0 \in 0..m
    BY <1>1, <2>1
  <2> HIDE DEF m
  <2>4. QED
    BY <2>2, <2>3
<1>6. ASSUME NEW k \in 0..(m - 1), k \in S PROVE k + 1 \in S
  <2> DEFINE n == k + 1
             taken == g[k].taken
             pass == PassText(format, n, taken, args)
  <2>1. n \in 0..m /\ n \in 1..m /\ n # 0 /\ n - 1 = k
    BY <1>1
  <2>2. g[n].text = g[k].text \o pass
    <3>1. g[n] = [text  |-> g[k].text \o PassText(format, n, g[k].taken, args),
                  taken |-> g[k].taken + IF Takes(format, n) THEN 1 ELSE 0]
      BY <1>3, <2>1 DEF IsFormatting
    <3>2. g[n] = [text |-> g[k].text \o pass, taken |-> taken + IF Takes(format, n) THEN 1 ELSE 0]
      BY <3>1
    <3> DEFINE t == g[k].text \o pass
               u == taken + IF Takes(format, n) THEN 1 ELSE 0
    <3>3. g[n] = [text |-> t, taken |-> u]
      BY <3>2
    <3> HIDE DEF t, u, n, pass
    <3>4. g[n].text = t
      BY <3>3
    <3>5. QED
      BY <3>4 DEF t
  <2>3. Marked(format, n) \in TextChars /\ format[Visited(format)[n]] \in TextChars
    BY <2>1, PassIs
  <2>4. pass \in Seq(TextChars)
    <3>1. CASE ~ IsMark(format, n)
      <4>1. pass = <<format[Visited(format)[n]]>>
        BY <3>1 DEF PassText
      <4>2. QED
        BY <2>3, <4>1, Single
    <3>2. CASE IsMark(format, n) /\ Takes(format, n)
      <4>1. pass = Formatted(Marked(format, n), args[taken + 1])
        BY <3>2 DEF PassText
      <4>2. args[taken + 1] \in ArgumentsOf(Marked(format, n))
        BY <1>4, <2>1, <3>2 DEF Fits
      <4>3. QED
        BY <4>1, <4>2, FormattedIsText
    <3>3. CASE IsMark(format, n) /\ ~ Takes(format, n)
      <4>1. pass = <<Marked(format, n)>>
        BY <3>3 DEF PassText
      <4>2. QED
        BY <2>3, <4>1, Single
    <3>4. QED
      BY <3>1, <3>2, <3>3
  <2>5. g[k].text \in Seq(TextChars)
    BY <1>6
  <2> HIDE DEF pass
  <2>6. g[k].text \o pass \in Seq(TextChars)
    BY <2>4, <2>5, ConcatProperties
  <2>7. QED
    BY <2>1, <2>2, <2>6
<1> HIDE DEF S
<1>7. 0..m \subseteq S
  BY <1>1, <1>5, <1>6, UpTo
<1>8. m \in S
  BY <1>1, <1>7
<1>9. QED
  BY <1>2, <1>8 DEF S

-----------------------------------------------------------------------------
(* What else a string may be made from, and how parsing may end.           *)
LEMMA FloatIsText ==
    ASSUME NEW f \in Floats
    PROVE  FromFloat2(f) \in Seq(TextChars)
<1> DEFINE e == Exponent(f)
           text == FromFloat2(f)
<1>1. /\ f.exponent - Bias \in Int /\ TooBig \in Int /\ Bias \in Int
      /\ Mantissa(f) \in Nat /\ f.isNegative \in BOOLEAN
  BY FloatIs
<1>2. ExponentBits \in Nat /\ FractionBits \in Nat
  BY NumeralsAssumption
<1>3. Power2(ExponentBits) \in Nat
  BY <1>2, Power2Is
<1>4. e \in Int
  BY <1>1, <1>3 DEF Exponent
<1>5. CASE e > TooBig
  <2>1. text = <<"i", "n", "f">>
    BY <1>5 DEF FromFloat2
  <2> DEFINE T == TextChars
  <2>2. "i" \in T /\ "n" \in T /\ "f" \in T
    BY TextCharsHave
  <2> HIDE DEF T
  <2>3. <<"i", "n", "f">> \in Seq(T)
    BY <2>2
  <2>4. QED
    BY <2>1, <2>3 DEF T
<1>6. CASE ~ (e > TooBig) /\ e < -3
  <2>1. text = <<"0">>
    BY <1>6 DEF FromFloat2
  <2>2. QED
    BY <2>1, TextCharsHave, Single
<1>7. CASE ~ (e > TooBig) /\ ~ (e < -3)
  <2> DEFINE q == Mantissa(f) \div Power2(FractionBits - 3 - e)
             v == Mantissa(f) \div Power2(FractionBits - e)
             sign == IF f.isNegative THEN <<"-">> ELSE <<>>
             ones == FromInt(v)
             t == Eighths[(q % 8) + 1]
  <2>1. FractionBits - 3 - e \in Nat /\ FractionBits - e \in Nat
    BY <1>2, <1>4, <1>7 DEF TooBig
  <2>2. q \in Nat /\ v \in Nat
    BY <1>1, <2>1, Power2Is, Quotient
  <2>3. text = sign \o ones \o <<".">> \o t
    BY <1>7 DEF FromFloat2
  <2> HIDE DEF q, v
  <2>4. ones \in Seq(TextChars)
    BY <2>2, IntDenotes, ToTextChars
  <2>5. t \in Seq(TextChars)
    BY <2>2, PartsArePointed, ToTextChars
  <2>6. sign \in Seq(TextChars)
    <3>1. "-" \in TextChars /\ <<>> \in Seq(TextChars)
      BY TextCharsHave, TenDigits
    <3>2. QED
      BY <3>1, Single
  <2>7. <<".">> \in Seq(TextChars)
    BY TextCharsHave, Single
  <2> HIDE DEF sign, ones, t, text
  <2>8. sign \o ones \in Seq(TextChars)
    BY <2>4, <2>6, ConcatProperties
  <2>9. (sign \o ones) \o <<".">> \in Seq(TextChars)
    BY <2>7, <2>8, ConcatProperties
  <2>10. ((sign \o ones) \o <<".">>) \o t \in Seq(TextChars)
    BY <2>5, <2>9, ConcatProperties
  <2>11. QED
    BY <2>3, <2>10 DEF text
<1>8. QED
  BY <1>4, <1>1, <1>5, <1>6, <1>7

IsParsed(acc) ==
    acc = [at |-> acc.at, values |-> acc.values, end |-> acc.end] /\ acc.end \in ParseEnds

LEMMA AnyPass ==
    ASSUME NEW acc, IsParsed(acc), NEW d, NEW swapped
    PROVE  IsParsed(ParsePass(acc, d, swapped))
<1> DEFINE p == acc.at
           ends(how) == [acc EXCEPT !.end = how]
           goes(q) == [acc EXCEPT !.at = q + 1, !.values = Append(@, ValueAt(d, p))]
           steps == [acc EXCEPT !.at = @ + 1]
           b == ParsePass(acc, d, swapped)
<1>1. b \in {acc, steps, goes(p + 1), goes(SkipWord(p)), ends("overread"), ends("swapped"), ends("overrun")}
  BY DEF ParsePass
<1>2. acc = [at |-> acc.at, values |-> acc.values, end |-> acc.end] /\ acc.end \in ParseEnds
  BY DEF IsParsed
<1>3. ASSUME NEW how \in ParseEnds PROVE IsParsed(ends(how))
  <2>1. ends(how) = [at |-> acc.at, values |-> acc.values, end |-> how]
    BY <1>2
  <2>2. QED
    BY <2>1 DEF IsParsed
<1>4. ASSUME NEW q PROVE IsParsed(goes(q))
  <2> DEFINE v == ValueAt(d, p)
  <2> HIDE DEF v
  <2>1. goes(q) = [acc EXCEPT !.at = q + 1, !.values = Append(@, v)]
    BY DEF v
  <2> DEFINE x == q + 1
             y == Append(acc.values, v)
  <2>2. goes(q) = [acc EXCEPT !.at = x, !.values = y]
    BY <2>1
  <2> HIDE DEF x, y, goes
  <2>3. goes(q) = [at |-> x, values |-> y, end |-> acc.end]
    BY <1>2, <2>2
  <2>4. QED
    BY <1>2, <2>3 DEF IsParsed
<1>5. IsParsed(steps)
  <2>1. steps = [at |-> acc.at + 1, values |-> acc.values, end |-> acc.end]
    BY <1>2
  <2>2. QED
    BY <1>2, <2>1 DEF IsParsed
<1>6. "overread" \in ParseEnds /\ "swapped" \in ParseEnds /\ "overrun" \in ParseEnds
  BY DEF ParseEnds
<1> HIDE DEF b, ends, goes, steps
<1>7. QED
  BY <1>1, <1>3, <1>4, <1>5, <1>6 DEF b

LEMMA ParseEndsAre ==
    ASSUME NEW format \in Seq(TextChars), NEW swapped
    PROVE  Parse(format, swapped).end \in ParseEnds
<1> DEFINE ds == Directives(format)
           g == CHOOSE g : IsParsing(g, ds, swapped)
           S == {n \in 0..Len(ds) : IsParsed(g[n])}
<1>1. Len(ds) \in Nat
  BY DirectivesAre, LenProperties
<1>2. Parse(format, swapped) = g[Len(ds)]
  BY DEF Parse, IsParsing
<1> HIDE DEF ds
<1>3. IsParsing(g, ds, swapped)
  BY <1>1, ParsingsExist
<1> HIDE DEF g
<1>4. 0 \in S
  <2>1. g[0] = [at |-> 1, values |-> <<>>, end |-> "none"]
    BY <1>1, <1>3 DEF IsParsing
  <2>2. IsParsed(g[0])
    BY <2>1 DEF IsParsed, ParseEnds
  <2>3. QED
    BY <1>1, <2>2
<1>5. ASSUME NEW k \in 0..(Len(ds) - 1), k \in S PROVE k + 1 \in S
  <2>1. k + 1 \in 0..Len(ds) /\ k + 1 # 0 /\ (k + 1) - 1 = k
    BY <1>1
  <2>2. g[k + 1] = ParsePass(g[k], ds[k + 1], swapped)
    BY <1>3, <2>1 DEF IsParsing
  <2>3. IsParsed(g[k])
    BY <1>5
  <2>4. IsParsed(g[k + 1])
    BY <2>2, <2>3, AnyPass
  <2>5. QED
    BY <2>1, <2>4
<1> HIDE DEF S
<1>6. 0..Len(ds) \subseteq S
  BY <1>1, <1>4, <1>5, UpTo
<1>7. IsParsed(g[Len(ds)])
  BY <1>1, <1>6 DEF S
<1>8. QED
  BY <1>2, <1>7 DEF IsParsed

LEMMA FormatsTypeNext ==
    ASSUME FormatsTypeOK, [FormatsNext]_formatVars
    PROVE  FormatsTypeOK'
<1>1. ASSUME NEW format \in FormatSet, NEW args \in ArgumentLists(format), FormatString(format, args)
      PROVE  FormatsTypeOK'
  <2>1. format \in Seq(TextChars)
    BY FormatsAssumption
  <2>2. FormatText(format, args) \in Seq(TextChars)
    BY <2>1, FormatTextIs
  <2>3. /\ string'.text = FormatText(format, args) /\ string'.terminated \in BOOLEAN
        /\ outcome' \in {"pushstr", "none", "overrun", "overread_format"}
    BY <1>1, FormatOutcome
  <2>4. QED
    BY <2>2, <2>3 DEF FormatsTypeOK
<1>2. ASSUME NEW what, NEW text \in Seq(TextChars), NEW end \in {"none", "thrown"}, New(what, text, end)
      PROVE  FormatsTypeOK'
  <2>1. string'.text = text /\ string'.terminated \in BOOLEAN /\ outcome' = end
    BY <1>2 DEF New
  <2>2. QED
    BY <2>1 DEF FormatsTypeOK
<1>3. ASSUME NEW value \in MinLong..MaxLong, ConvertInt(value) PROVE FormatsTypeOK'
  <2>1. FromInt(value) \in Seq(TextChars)
    BY IntDenotes, ToTextChars
  <2>2. QED
    BY <1>2, <1>3, <2>1 DEF ConvertInt
<1>4. ASSUME NEW value \in 0..MaxUlong, NEW b \in NumericBase \cup {3}, ConvertUint(value, b)
      PROVE  FormatsTypeOK'
  <2>1. CASE b \in NumericBase
    <3>1. value \in Nat
      OBVIOUS
    <3>2. FromUint(value, b) \in Seq(TextChars)
      BY <2>1, <3>1, UintIsText
    <3>3. New(<<"FromUint", value, b>>, FromUint(value, b), "none")
      BY <1>4, <2>1 DEF ConvertUint
    <3>4. QED
      BY <1>2, <3>2, <3>3
  <2>2. CASE b \notin NumericBase
    <3>1. New(<<"FromUint", value, b>>, <<>>, "thrown")
      BY <1>4, <2>2 DEF ConvertUint
    <3>2. <<>> \in Seq(TextChars)
      OBVIOUS
    <3>3. QED
      BY <1>2, <3>1, <3>2
  <2>3. QED
    BY <2>1, <2>2
<1>5. ASSUME NEW f \in FloatSet, ConvertFloat(f) PROVE FormatsTypeOK'
  <2>1. FromFloat2(f) \in Seq(TextChars)
    BY FormatsAssumption, FloatIsText
  <2>2. QED
    BY <1>2, <1>5, <2>1 DEF ConvertFloat
<1>6. ASSUME NEW format \in FormatSet, ParseString(format) PROVE FormatsTypeOK'
  <2>1. PICK swapped \in BOOLEAN :
          outcome' = IF Parse(format, swapped).end = "none" /\ Overreads(format) THEN "overread_format"
                     ELSE Parse(format, swapped).end
    BY <1>6 DEF ParseString
  <2>2. Parse(format, swapped).end \in ParseEnds
    BY FormatsAssumption, ParseEndsAre
  <2>3. string' = string
    BY <1>6 DEF ParseString
  <2>4. outcome' \in {"overread_format"} \cup ParseEnds
    BY <2>1, <2>2
  <2>5. QED
    BY <2>3, <2>4 DEF FormatsTypeOK, ParseEnds
<1>7. CASE UNCHANGED formatVars
  BY <1>7 DEF formatVars, FormatsTypeOK
<1>8. QED
  BY <1>1, <1>3, <1>4, <1>5, <1>6, <1>7 DEF FormatsNext, Makes, Parses

(***************************************************************************)
(* For every program: what the conversions and Format make of its values   *)
(* is text, with one argument for each directive that takes one, and Parse *)
(* ends in one of the ways named.                                          *)
(***************************************************************************)
THEOREM FormatsTypeCorrect == FormatsSpec => []FormatsTypeOK
<1>1. FormatsInit => FormatsTypeOK
  <2>1. <<>> \in Seq(TextChars)
    OBVIOUS
  <2>2. QED
    BY <2>1 DEF FormatsInit, FormatsTypeOK
<1>2. FormatsTypeOK /\ [FormatsNext]_formatVars => FormatsTypeOK'
  BY FormatsTypeNext
<1>3. QED
  BY <1>1, <1>2, PTL DEF FormatsSpec

(***************************************************************************)
(* For texts and formats of every length: a terminated text is left only   *)
(* by a format that asks for more words than the text has.                 *)
(***************************************************************************)
THEOREM ParseStaysInsideAlways == FormatsSpec => []ParseStaysInside
<1>1. FormatsInit => ParseStaysInside
  BY DEF FormatsInit, ParseStaysInside
<1>2. FormatsTypeOK /\ ParseStaysInside /\ [FormatsNext]_formatVars => ParseStaysInside'
  BY ParseStaysInsideNext DEF FormatsTypeOK
<1>3. QED
  BY <1>1, <1>2, FormatsTypeCorrect, PTL DEF FormatsSpec

-----------------------------------------------------------------------------
(* Reading back what was written. First, numbers: a text that begins with  *)
(* a piece, which a blank or the end of the text follows.                  *)
Blank == " "

Begins(piece, cs) ==
    /\ Len(piece) <= Len(cs)
    /\ \A i \in 1..Len(piece) : cs[i] = piece[i]
    /\ Len(piece) < Len(cs) => cs[Len(piece) + 1] = Blank

LEMMA BlankIs ==
    /\ Blank \notin DigitsOf(16)
    /\ Blank # Nul /\ Blank # "-" /\ Blank # "0" /\ Blank # "x" /\ Blank # "t"
    /\ Blank \in TextChars
<1> DEFINE Others == {"0", "1", "2", "3", "4", "5", "6", "7", "8", "9",
                      "A", "B", "C", "D", "E", "F", "-", "x", "t", "NUL"}
<1>1. Blank \notin Others
  BY Zenon DEF Blank
<1>2. DigitsOf(16) \subseteq Others
  <2>1. ASSUME NEW k \in 1..16 PROVE DigitChars[k] \in Others
    <3>1. k \in {1, 2, 3, 4, 5, 6, 7, 8, 9, 10, 11, 12, 13, 14, 15, 16}
      OBVIOUS
    <3>2. QED
      BY <3>1 DEF DigitChars
  <2>2. QED
    BY <2>1 DEF DigitsOf
<1>3. Blank \in TextChars
  BY Zenon DEF TextChars, Blank
<1>4. QED
  BY <1>1, <1>2, <1>3 DEF Nul

LEMMA DigitsAreText ==
    ASSUME NEW b \in NumericBase
    PROVE  /\ DigitsOf(b) \subseteq TextChars
           /\ Blank \notin DigitsOf(b)
           /\ \A d : IsDigit(d, b) <=> d \in DigitsOf(b)
<1>1. DigitsOf(b) \subseteq DigitsOf(16)
  BY DEF DigitsOf, NumericBase
<1>2. DigitsOf(16) \subseteq TextChars
  BY TextCharsHave, DigitCharsAre DEF Signed
<1>3. QED
  BY <1>1, <1>2, BlankIs DEF IsDigit, DigitsOf

LEMMA SpanUnique ==
    ASSUME NEW cs, Len(cs) \in Nat, NEW T,
           NEW n \in 0..Len(cs), NEW k \in 0..Len(cs),
           \A i \in 1..n : cs[i] \in T, n = Len(cs) \/ cs[n + 1] \notin T,
           \A i \in 1..k : cs[i] \in T, k = Len(cs) \/ cs[k + 1] \notin T
    PROVE  n = k
<1>1. ASSUME n < k PROVE FALSE
  <2>1. n + 1 \in 1..k /\ n # Len(cs)
    BY <1>1
  <2>2. QED
    BY <2>1
<1>2. ASSUME k < n PROVE FALSE
  <2>1. k + 1 \in 1..n /\ k # Len(cs)
    BY <1>2
  <2>2. QED
    BY <2>1
<1>3. QED
  BY <1>1, <1>2

(* No blanks in front of a number.                                         *)
LEMMA NoBlanks ==
    ASSUME NEW cs \in Seq(TextChars), Len(cs) # 0 => cs[1] # Blank
    PROVE  AfterBlanks(cs) = cs
<1> DEFINE P(n) == (\A i \in 1..n : cs[i] = Blank) /\ (n = Len(cs) \/ ~ (cs[n + 1] = Blank))
           k == CHOOSE n \in 0..Len(cs) : P(n)
           span == SubSeq(cs, 1, k)
<1>1. Len(cs) \in Nat
  BY LenProperties
<1>2. 0 \in 0..Len(cs) /\ P(0)
  BY <1>1
<1>3. Span(cs, LAMBDA d : d = " ") = span
  BY Zenon DEF Span, Blank
<1>4. k \in 0..Len(cs) /\ P(k)
  BY <1>2
<1> HIDE DEF k
<1>5. k = 0
  <2> DEFINE T == {Blank}
  <2>1. (\A i \in 1..k : cs[i] \in T) /\ (k = Len(cs) \/ cs[k + 1] \notin T)
    BY <1>4
  <2>2. (\A i \in 1..0 : cs[i] \in T) /\ (0 = Len(cs) \/ cs[0 + 1] \notin T)
    BY <1>2
  <2> HIDE DEF T
  <2>3. QED
    BY <1>1, <1>2, <1>4, <2>1, <2>2, SpanUnique
<1>6. Len(span) = 0
  <2>1. 0 \in 0..Len(cs)
    BY <1>2
  <2>2. QED
    BY <1>5, <2>1, Cut
<1> HIDE DEF span
<1>7. AfterBlanks(cs) = SubSeq(cs, Len(span) + 1, Len(cs))
  BY <1>3, Zenon DEF AfterBlanks
<1>8. QED
  BY <1>6, <1>7, SubSeqFull

LEMMA MagnitudeIs ==
    ASSUME NEW b \in NumericBase, NEW cs \in Seq(TextChars), NEW ds \in Seq(DigitsOf(b)), Begins(ds, cs)
    PROVE  Magnitude(cs, b) = Worth(ds, b)
<1> DEFINE D == DigitsOf(b)
           P(n) == (\A i \in 1..n : IsDigit(cs[i], b)) /\ (n = Len(cs) \/ ~ IsDigit(cs[n + 1], b))
           k == CHOOSE n \in 0..Len(cs) : P(n)
           span == SubSeq(cs, 1, k)
           m == Len(ds)
<1>1. Len(cs) \in Nat /\ m \in Nat /\ m <= Len(cs)
  BY LenProperties DEF Begins
<1>2. D \subseteq TextChars /\ Blank \notin D /\ \A d : IsDigit(d, b) <=> d \in D
  BY DigitsAreText
<1>3. ds \in Seq(D) /\ \A i \in 1..m : ds[i] \in D
  BY ElementOfSeq
<1> HIDE DEF D
<1>4. \A i \in 1..m : cs[i] \in D
  BY <1>3 DEF Begins
<1>5. m = Len(cs) \/ cs[m + 1] \notin D
  BY <1>1, <1>2 DEF Begins
<1>6. m \in 0..Len(cs) /\ P(m)
  BY <1>1, <1>2, <1>4, <1>5
<1>7. Span(cs, LAMBDA d : IsDigit(d, b)) = span
  BY DEF Span
<1>8. k \in 0..Len(cs) /\ P(k)
  BY <1>6
<1> HIDE DEF k
<1>9. k = m
  <2>1. (\A i \in 1..k : cs[i] \in D) /\ (k = Len(cs) \/ cs[k + 1] \notin D)
    BY <1>2, <1>8
  <2>2. QED
    BY <1>1, <1>4, <1>5, <1>6, <1>8, <2>1, SpanUnique
<1>10. span = ds
  <2>1. span \in Seq(TextChars) /\ Len(span) = m /\ \A i \in 1..m : span[i] = cs[i]
    BY <1>6, <1>9, Cut
  <2>2. ds \in Seq(TextChars)
    BY <1>2, <1>3, SeqMonotonic
  <2>3. \A i \in 1..m : span[i] = ds[i]
    BY <2>1 DEF Begins
  <2> HIDE DEF span
  <2>4. QED
    BY <2>1, <2>2, <2>3, SeqEqual
<1>11. QED
  BY <1>7, <1>10 DEF Magnitude

LEMMA DigitIsNoSign ==
    ASSUME NEW b \in NumericBase, NEW d \in DigitsOf(b)
    PROVE  d \notin {Blank, Nul, "-", "+"} /\ d \in TextChars
<1>1. DigitsOf(b) \subseteq DigitsOf(16) /\ d \in TextChars
  BY DigitsAreText DEF DigitsOf, NumericBase
<1>2. PICK k \in 1..16 : d = DigitChars[k]
  BY <1>1 DEF DigitsOf
<1>3. k \in {1, 2, 3, 4, 5, 6, 7, 8, 9, 10, 11, 12, 13, 14, 15, 16}
  OBVIOUS
<1>4. d # "-" /\ d # "+" /\ d # Nul
  BY <1>2, <1>3 DEF DigitChars, Nul
<1>5. QED
  BY <1>1, <1>4, BlankIs

(* A text that does not begin with a sign or a blank.                      *)
LEMMA NoSign ==
    ASSUME NEW cs \in Seq(TextChars), Len(cs) >= 1, NEW b \in NumericBase, cs[1] \in DigitsOf(b)
    PROVE  AfterBlanks(cs) = cs /\ ~ HasMinus(cs) /\ AfterSign(cs) = cs
<1>1. cs[1] \notin {Blank, Nul, "-", "+"}
  BY DigitIsNoSign
<1>2. AfterBlanks(cs) = cs
  BY <1>1, NoBlanks
<1>3. ~ HasMinus(cs) /\ AfterSign(cs) = cs
  BY <1>1 DEF HasMinus, AfterSign
<1>4. QED
  BY <1>2, <1>3

LEMMA UintDigits ==
    ASSUME NEW b \in NumericBase, NEW v \in Nat
    PROVE  /\ FromUint(v, b) \in Seq(DigitsOf(b))
           /\ Len(FromUint(v, b)) \in Nat /\ Len(FromUint(v, b)) >= 1
           /\ FromUint(v, b)[1] \in DigitsOf(b)
           /\ Worth(FromUint(v, b), b) = v
<1> DEFINE ds == FromUint(v, b)
<1>1. ds \in Seq(DigitsOf(b)) /\ ds # <<>> /\ Worth(ds, b) = v
  BY UintDenotes DEF Denotes
<1> HIDE DEF ds
<1>2. Len(ds) \in Nat \ {0}
  BY <1>1, EmptySeq
<1>3. ds[1] \in DigitsOf(b)
  BY <1>1, <1>2, ElementOfSeq
<1>4. QED
  BY <1>1, <1>2, <1>3 DEF ds

LEMMA MaxUlongIs == MaxUlong \in Nat
<1>1. Width \in Nat
  BY NumeralsAssumption
<1>2. Power2(Width) \in Nat \ {0}
  BY <1>1, Power2Is
<1>3. QED
  BY <1>2 DEF MaxUlong

LEMMA DecimalRead ==
    ASSUME NEW v \in 0..MaxUlong, NEW cs \in Seq(TextChars), Begins(FromUint(v, 10), cs)
    PROVE  Strtoull(cs, 10) = v
<1> DEFINE ds == FromUint(v, 10)
<1>1. 10 \in NumericBase /\ MaxUlong \in Nat /\ v \in Nat
  BY TenDigits, MaxUlongIs
<1>2. ds \in Seq(DigitsOf(10)) /\ Len(ds) \in Nat /\ Len(ds) >= 1 /\ ds[1] \in DigitsOf(10) /\ Worth(ds, 10) = v
  BY <1>1, UintDigits
<1> HIDE DEF ds
<1>3. Begins(ds, cs)
  BY DEF ds
<1>4. Len(cs) >= 1 /\ cs[1] = ds[1]
  <2>1. Len(cs) \in Nat /\ 1 \in 1..Len(ds)
    BY <1>2, LenProperties
  <2>2. QED
    BY <1>2, <1>3, <2>1 DEF Begins
<1>5. AfterBlanks(cs) = cs /\ ~ HasMinus(cs) /\ AfterSign(cs) = cs
  BY <1>1, <1>2, <1>4, NoSign
<1>6. FromFirstDigit(cs, 10) = cs
  BY <1>5 DEF FromFirstDigit, AfterPrefix
<1>7. Magnitude(cs, 10) = v
  BY <1>1, <1>2, <1>3, MagnitudeIs
<1>8. QED
  BY <1>1, <1>5, <1>6, <1>7 DEF Strtoull, NegatedIf, Within

LEMMA Prefixed ==
    ASSUME NEW S, NEW x \in S, NEW y \in S, NEW s \in Seq(S)
    PROVE  /\ <<x, y>> \o s \in Seq(S)
           /\ Len(<<x, y>> \o s) = Len(s) + 2
           /\ (<<x, y>> \o s)[1] = x /\ (<<x, y>> \o s)[2] = y
           /\ \A i \in 1..Len(s) : (<<x, y>> \o s)[i + 2] = s[i]
<1> DEFINE a == <<x, y>>
           q == a \o s
<1>1. a \in Seq(S) /\ Len(a) = 2 /\ a[1] = x /\ a[2] = y /\ Len(s) \in Nat
  BY LenProperties
<1> HIDE DEF a
<1>2. /\ q \in Seq(S) /\ Len(q) = 2 + Len(s)
      /\ \A i \in 1..(2 + Len(s)) : q[i] = IF i <= 2 THEN a[i] ELSE s[i - 2]
  <2>1. /\ q \in Seq(S) /\ Len(q) = Len(a) + Len(s)
        /\ \A i \in 1..(Len(a) + Len(s)) : q[i] = IF i <= Len(a) THEN a[i] ELSE s[i - Len(a)]
    BY <1>1, ConcatProperties
  <2> HIDE DEF q
  <2>2. QED
    BY <1>1, <2>1
<1> HIDE DEF q
<1>3. ASSUME NEW i \in 1..Len(s) PROVE q[i + 2] = s[i]
  <2>1. i + 2 \in 1..(2 + Len(s)) /\ ~ (i + 2 <= 2) /\ (i + 2) - 2 = i
    BY <1>1
  <2>2. QED
    BY <1>2, <2>1
<1>4. q[1] = x /\ q[2] = y
  <2>1. 1 \in 1..(2 + Len(s)) /\ 2 \in 1..(2 + Len(s)) /\ 1 <= 2 /\ 2 <= 2
    BY <1>1
  <2>2. QED
    BY <1>1, <1>2, <2>1
<1>5. QED
  BY <1>1, <1>2, <1>3, <1>4 DEF q, a

LEMMA HexadecimalRead ==
    ASSUME NEW v \in 0..MaxUlong, NEW cs \in Seq(TextChars), Begins(<<"0", "x">> \o FromUint(v, 16), cs)
    PROVE  Strtoull(cs, 16) = v
<1> DEFINE ds == FromUint(v, 16)
           q == <<"0", "x">> \o ds
           r == SubSeq(cs, 3, Len(cs))
<1>1. 16 \in NumericBase /\ MaxUlong \in Nat /\ v \in Nat
  BY MaxUlongIs DEF NumericBase
<1>2. ds \in Seq(DigitsOf(16)) /\ Len(ds) \in Nat /\ Len(ds) >= 1 /\ ds[1] \in DigitsOf(16) /\ Worth(ds, 16) = v
  BY <1>1, UintDigits
<1>3. "0" \in TextChars /\ "x" \in TextChars /\ ds \in Seq(TextChars)
  BY <1>1, <1>2, TextCharsHave, DigitsAreText, SeqMonotonic
<1> HIDE DEF ds
<1>4. /\ q \in Seq(TextChars) /\ Len(q) = Len(ds) + 2 /\ q[1] = "0" /\ q[2] = "x"
      /\ \A i \in 1..Len(ds) : q[i + 2] = ds[i]
  BY <1>2, <1>3, Prefixed
<1>5. Begins(q, cs) /\ Len(cs) \in Nat
  BY LenProperties DEF ds
<1> HIDE DEF q
<1>6. Len(cs) >= Len(ds) + 2 /\ cs[1] = "0" /\ cs[2] = "x" /\ cs[3] = ds[1]
      /\ \A i \in 1..Len(ds) : cs[i + 2] = ds[i]
  <2>1. Len(ds) + 2 <= Len(cs) /\ \A i \in 1..(Len(ds) + 2) : cs[i] = q[i]
    BY <1>2, <1>4, <1>5 DEF Begins
  <2>2. ASSUME NEW i \in 1..Len(ds) PROVE cs[i + 2] = ds[i]
    <3>1. i + 2 \in 1..(Len(ds) + 2)
      BY <1>2
    <3>2. QED
      BY <1>4, <2>1, <3>1
  <2>3. 1 \in 1..(Len(ds) + 2) /\ 2 \in 1..(Len(ds) + 2) /\ 1 \in 1..Len(ds) /\ 1 + 2 = 3
    BY <1>2
  <2>4. cs[1] = "0" /\ cs[2] = "x"
    BY <1>4, <2>1, <2>3
  <2>5. cs[3] = ds[1]
    BY <2>2, <2>3
  <2>6. QED
    BY <2>1, <2>2, <2>4, <2>5
<1>7. "0" \in DigitsOf(16)
  BY <1>1, DigitsOfBase
<1>8. AfterBlanks(cs) = cs /\ ~ HasMinus(cs) /\ AfterSign(cs) = cs
  <2>1. Len(cs) >= 1 /\ cs[1] \in DigitsOf(16)
    BY <1>2, <1>5, <1>6, <1>7
  <2>2. QED
    BY <1>1, <2>1, NoSign
<1>9. 2 \in 0..Len(cs) /\ 2 + 1 = 3
  BY <1>2, <1>5, <1>6
<1>10. r \in Seq(TextChars) /\ Len(r) = Len(cs) - 2 /\ \A i \in 1..(Len(cs) - 2) : r[i] = cs[2 + i]
  BY <1>9, Rest
<1>11. IsPrefix(<<"0", "x">>, cs)
  <2> DEFINE a == <<"0", "x">>
             b == SubSeq(cs, 1, 2)
  <2>1. a \in Seq(TextChars) /\ Len(a) = 2 /\ a[1] = "0" /\ a[2] = "x"
    BY <1>3
  <2>2. b \in Seq(TextChars) /\ Len(b) = 2 /\ b[1] = cs[1] /\ b[2] = cs[2]
    <3>1. b \in Seq(TextChars) /\ Len(b) = 2 /\ \A i \in 1..2 : b[i] = cs[i]
      BY <1>9, Cut
    <3> HIDE DEF b
    <3>2. QED
      BY <3>1
  <2> HIDE DEF a, b
  <2>3. ASSUME NEW i \in 1..Len(a) PROVE a[i] = b[i]
    <3>1. i = 1 \/ i = 2
      BY <2>1
    <3>2. QED
      BY <1>6, <2>1, <2>2, <3>1
  <2>4. a = b
    BY <2>1, <2>2, <2>3, SeqEqual
  <2>5. SubSeq(a, 1, 2) = a
    BY <2>1, SubSeqFull
  <2>6. Len(a) <= Len(cs)
    BY <1>9, <2>1
  <2>7. IsPrefix(a, cs)
    BY <2>1, <2>4, <2>5, <2>6 DEF IsPrefix, b
  <2>8. QED
    BY <2>7 DEF a
<1>12. FromFirstDigit(cs, 16) = r
  <2>1. IsDigit(cs[3], 16)
    BY <1>1, <1>2, <1>6, DigitsAreText
  <2>2. Len(cs) > 2
    BY <1>2, <1>5, <1>6
  <2>3. AfterPrefix(cs, 16) = r
    BY <1>11, <2>1, <2>2 DEF AfterPrefix
  <2>4. QED
    BY <1>8, <2>3 DEF FromFirstDigit
<1> HIDE DEF r
<1>13. Begins(ds, r)
  <2>1. Len(ds) <= Len(r)
    BY <1>2, <1>5, <1>6, <1>10
  <2>2. ASSUME NEW i \in 1..Len(ds) PROVE r[i] = ds[i]
    <3>1. i \in 1..(Len(cs) - 2) /\ 2 + i = i + 2
      BY <1>2, <1>5, <1>6
    <3>2. QED
      BY <1>6, <1>10, <3>1
  <2>3. ASSUME Len(ds) < Len(r) PROVE r[Len(ds) + 1] = Blank
    <3>1. Len(ds) + 1 \in 1..(Len(cs) - 2) /\ 2 + (Len(ds) + 1) = Len(q) + 1 /\ Len(q) < Len(cs)
      BY <1>2, <1>4, <1>5, <1>10, <2>3
    <3>2. cs[Len(q) + 1] = Blank
      BY <1>5, <3>1 DEF Begins
    <3>3. QED
      BY <1>10, <3>1, <3>2
  <2>4. QED
    BY <2>1, <2>2, <2>3 DEF Begins
<1>14. Magnitude(r, 16) = v
  BY <1>1, <1>2, <1>10, <1>13, MagnitudeIs
<1>15. QED
  BY <1>1, <1>8, <1>12, <1>14 DEF Strtoull, NegatedIf, Within

LEMMA IntRead ==
    ASSUME NEW v \in MinLong..MaxLong, NEW cs \in Seq(TextChars), Begins(FromInt(v), cs)
    PROVE  Strtoll(cs, 10) = v
<1> DEFINE t == FromInt(v)
<1>1. 10 \in NumericBase /\ MinLong \in Int /\ MinLong < 0 /\ v \in Int
  BY TenDigits, MinLongIs
<1>2. MaxLong \in Int /\ v <= MaxLong /\ MinLong <= v /\ MaxLong >= 0
  <2>1. Width - 1 \in Nat
    BY NumeralsAssumption
  <2>2. Power2(Width - 1) \in Nat \ {0}
    BY <2>1, Power2Is
  <2>3. QED
    BY <1>1, <2>2 DEF MaxLong
<1>3. CASE v >= 0
  <2>1. t = FromUint(v, 10) /\ v \in Nat
    BY <1>1, <1>3 DEF FromInt, FromUint
  <2> DEFINE ds == FromUint(v, 10)
  <2>2. ds \in Seq(DigitsOf(10)) /\ Len(ds) \in Nat /\ Len(ds) >= 1 /\ ds[1] \in DigitsOf(10) /\ Worth(ds, 10) = v
    BY <1>1, <2>1, UintDigits
  <2>3. Begins(ds, cs)
    BY <2>1
  <2> HIDE DEF ds, t
  <2>4. Len(cs) >= 1 /\ cs[1] = ds[1]
    <3>1. Len(cs) \in Nat /\ 1 \in 1..Len(ds)
      BY <2>2, LenProperties
    <3>2. QED
      BY <2>2, <2>3, <3>1 DEF Begins
  <2>5. AfterBlanks(cs) = cs /\ ~ HasMinus(cs) /\ AfterSign(cs) = cs
    BY <1>1, <2>2, <2>4, NoSign
  <2>6. FromFirstDigit(cs, 10) = cs
    BY <2>5 DEF FromFirstDigit, AfterPrefix
  <2>7. Magnitude(cs, 10) = v
    BY <1>1, <2>2, <2>3, MagnitudeIs
  <2>8. Strtoll(cs, 10) = Within(MinLong, MaxLong, 1 * v)
    BY <2>5, <2>6, <2>7 DEF Strtoll
  <2>9. QED
    BY <1>1, <1>2, <2>8 DEF Within
<1>4. CASE v < 0
  <2> DEFINE ds == Tail(t)
             r == Tail(cs)
  <2>1. /\ t \in Seq(Signed) /\ t # <<>> /\ t[1] = "-"
        /\ \A i \in DOMAIN ds : IsDigit(ds[i], 10)
        /\ Worth(ds, 10) = -v
    BY <1>1, <1>4, IntDenotes DEF Denotes
  <2>2. Begins(t, cs)
    OBVIOUS
  <2> HIDE DEF t
  <2>3. Len(t) \in Nat /\ Len(t) >= 1
    BY <2>1, EmptySeq
  <2>4. ds \in Seq(Signed) /\ Len(ds) = Len(t) - 1 /\ \A i \in 1..Len(ds) : ds[i] = t[i + 1]
    BY <2>1, HeadTailProperties
  <2> HIDE DEF ds
  <2>5. ds \in Seq(DigitsOf(10))
    <3>1. Len(ds) \in Nat /\ DOMAIN ds = 1..Len(ds) /\ ds \in [1..Len(ds) -> Signed]
      BY <2>4, LenProperties
    <3>2. \A i \in 1..Len(ds) : ds[i] \in DigitsOf(10)
      BY <1>1, <2>1, <3>1, DigitsAreText
    <3>3. ds \in [1..Len(ds) -> DigitsOf(10)]
      BY <3>1, <3>2
    <3>4. QED
      BY <3>1, <3>3, FunctionIsSeq
  <2>6. Len(cs) \in Nat /\ Len(cs) >= 1 /\ cs[1] = "-" /\ cs # <<>>
    <3>1. Len(cs) \in Nat /\ 1 \in 1..Len(t) /\ Len(t) <= Len(cs)
      BY <2>2, <2>3, LenProperties DEF Begins
    <3>2. cs[1] = "-" /\ Len(cs) >= 1
      BY <2>1, <2>2, <2>3, <3>1 DEF Begins
    <3>3. QED
      BY <3>1, <3>2, EmptySeq
  <2>7. AfterBlanks(cs) = cs
    BY <2>6, BlankIs, NoBlanks
  <2>8. HasMinus(cs) /\ AfterSign(cs) = r
    BY <2>6 DEF HasMinus, AfterSign
  <2>9. r \in Seq(TextChars) /\ Len(r) = Len(cs) - 1 /\ \A i \in 1..Len(r) : r[i] = cs[i + 1]
    BY <2>6, HeadTailProperties
  <2>10. FromFirstDigit(cs, 10) = r
    BY <2>7, <2>8 DEF FromFirstDigit, AfterPrefix
  <2> HIDE DEF r
  <2>11. Begins(ds, r)
    <3>1. Len(ds) <= Len(r)
      BY <2>2, <2>3, <2>4, <2>6, <2>9 DEF Begins
    <3>2. ASSUME NEW i \in 1..Len(ds) PROVE r[i] = ds[i]
      <4>1. i \in 1..Len(r) /\ i + 1 \in 1..Len(t)
        BY <2>3, <2>4, <2>6, <2>9, <3>1
      <4>2. cs[i + 1] = t[i + 1]
        BY <2>2, <4>1 DEF Begins
      <4>3. QED
        BY <2>4, <2>9, <4>1, <4>2
    <3>3. ASSUME Len(ds) < Len(r) PROVE r[Len(ds) + 1] = Blank
      <4>1. Len(ds) + 1 \in 1..Len(r) /\ (Len(ds) + 1) + 1 = Len(t) + 1 /\ Len(t) < Len(cs)
        BY <2>3, <2>4, <2>6, <2>9, <3>3
      <4>2. cs[Len(t) + 1] = Blank
        BY <2>2, <4>1 DEF Begins
      <4>3. QED
        BY <2>9, <4>1, <4>2
    <3>4. QED
      BY <3>1, <3>2, <3>3 DEF Begins
  <2>12. Magnitude(r, 10) = -v
    BY <1>1, <2>1, <2>5, <2>9, <2>11, MagnitudeIs
  <2>13. Strtoll(cs, 10) = Within(MinLong, MaxLong, (-1) * (-v))
    BY <2>7, <2>8, <2>10, <2>12 DEF Strtoll
  <2>14. (-1) * (-v) = v
    BY <1>1
  <2>15. QED
    BY <1>1, <1>2, <2>13, <2>14 DEF Within
<1>5. QED
  BY <1>1, <1>3, <1>4

-----------------------------------------------------------------------------
(* A piece that stands in the text of the string from place p on, with a   *)
(* blank or the end of the text behind it.                                 *)
Stands(piece, p) ==
    /\ p \in Nat \ {0}
    /\ p - 1 + Len(piece) <= Len(string.text)
    /\ \A i \in 1..Len(piece) : string.text[p - 1 + i] = piece[i]
    /\ p + Len(piece) <= Len(string.text) => string.text[p + Len(piece)] = Blank

Plain(piece) == \A i \in 1..Len(piece) : piece[i] # Blank /\ piece[i] # Nul

LEMMA TextFromBegins ==
    ASSUME string.text \in Seq(TextChars), NEW p, NEW piece \in Seq(TextChars), Stands(piece, p), Plain(piece)
    PROVE  TextFrom(p) \in Seq(TextChars) /\ Begins(piece, TextFrom(p))
<1> DEFINE text == string.text
           m == Len(text)
           cs == SubSeq(text, p, m)
           P(n) == (\A i \in 1..n : cs[i] # Nul) /\ (n = Len(cs) \/ ~ (cs[n + 1] # Nul))
           k == CHOOSE n \in 0..Len(cs) : P(n)
           from == TextFrom(p)
           l == Len(piece)
<1>1. m \in Nat /\ l \in Nat /\ p \in Nat \ {0} /\ p - 1 + l <= m
  BY LenProperties DEF Stands
<1>2. /\ cs \in Seq(TextChars) /\ Len(cs) = m - (p - 1)
      /\ \A i \in 1..(m - (p - 1)) : cs[i] = text[(p - 1) + i]
  <2>1. p - 1 \in 0..m /\ (p - 1) + 1 = p
    BY <1>1
  <2>2. /\ SubSeq(text, (p - 1) + 1, m) \in Seq(TextChars)
        /\ Len(SubSeq(text, (p - 1) + 1, m)) = m - (p - 1)
        /\ \A i \in 1..(m - (p - 1)) : SubSeq(text, (p - 1) + 1, m)[i] = text[(p - 1) + i]
    BY <2>1, Rest
  <2>3. QED
    BY <2>1, <2>2
<1>3. from = SubSeq(cs, 1, k)
  BY DEF TextFrom, Span
<1> HIDE DEF cs
<1>4. \E n \in 0..Len(cs) : P(n)
  <2> DEFINE Z == {n \in 0..Len(cs) : n = Len(cs) \/ cs[n + 1] = Nul}
  <2>1. Z \in SUBSET Nat /\ Len(cs) \in Z /\ Len(cs) \in Nat
    BY <1>1, <1>2
  <2>2. PICK n \in Z : \A j \in Z : n <= j
    BY <2>1, LeastOf
  <2>3. ASSUME NEW i \in 1..n, cs[i] = Nul PROVE FALSE
    <3>1. i - 1 \in 0..Len(cs) /\ (i - 1) + 1 = i /\ ~ (n <= i - 1)
      BY <2>1, <2>2
    <3>2. i - 1 \in Z
      BY <2>3, <3>1
    <3>3. QED
      BY <2>2, <3>1, <3>2
  <2>4. n \in 0..Len(cs) /\ (n = Len(cs) \/ cs[n + 1] = Nul)
    BY <2>2
  <2>5. QED
    BY <2>3, <2>4
<1>5. k \in 0..Len(cs) /\ P(k)
  BY <1>4
<1> HIDE DEF k
<1>6. from \in Seq(TextChars) /\ Len(from) = k /\ \A i \in 1..k : from[i] = cs[i]
  BY <1>2, <1>3, <1>5, Cut
<1> HIDE DEF from
<1>7. \A i \in 1..l : cs[i] = piece[i] /\ cs[i] # Nul
  <2>1. ASSUME NEW i \in 1..l PROVE cs[i] = piece[i] /\ cs[i] # Nul
    <3>1. i \in 1..(m - (p - 1)) /\ (p - 1) + i = p - 1 + i
      BY <1>1
    <3>2. cs[i] = text[(p - 1) + i] /\ text[(p - 1) + i] = piece[i] /\ piece[i] # Nul
      BY <1>2, <3>1 DEF Stands, Plain
    <3>3. QED
      BY <3>2
  <2>2. QED
    BY <2>1
<1>8. l <= k
  <2>1. CASE k = Len(cs)
    BY <1>1, <1>2, <2>1
  <2>2. CASE k # Len(cs) /\ k < l
    <3>1. k + 1 \in 1..l
      BY <1>1, <1>2, <1>5, <2>2
    <3>2. cs[k + 1] = Nul
      BY <1>5, <2>2
    <3>3. QED
      BY <1>7, <3>1, <3>2
  <2>3. QED
    BY <1>1, <1>2, <1>5, <2>1, <2>2
<1>9. \A i \in 1..l : from[i] = piece[i]
  <2>1. \A i \in 1..l : i \in 1..k
    BY <1>1, <1>2, <1>5, <1>8
  <2>2. QED
    BY <1>6, <1>7, <2>1
<1>10. ASSUME l < k PROVE from[l + 1] = Blank
  <2>1. l + 1 \in 1..k /\ l + 1 \in 1..(m - (p - 1)) /\ (p - 1) + (l + 1) = p + l /\ p + l <= m
    BY <1>1, <1>2, <1>5, <1>10
  <2>2. text[p + l] = Blank
    BY <2>1 DEF Stands
  <2>3. QED
    BY <1>2, <1>6, <2>1, <2>2
<1>11. QED
  BY <1>6, <1>8, <1>9, <1>10 DEF Begins, from

LEMMA StopsAreBlanks ==
    ASSUME NEW q
    PROVE  q \in Stops <=> q \in 1..(Len(string.text) + 1) /\ (Cell(q) = Blank \/ Cell(q) = Nul)
BY Zenon DEF Stops, Blank

LEMMA SkipsPiece ==
    ASSUME string.text \in Seq(TextChars), string.terminated, NEW p, NEW piece \in Seq(TextChars),
           Stands(piece, p), Plain(piece)
    PROVE  /\ WordEnds(p) # {}
           /\ SkipWord(p) = p + Len(piece)
           /\ Word(p) = piece
<1> DEFINE text == string.text
           l == Len(piece)
           w == Word(p)
<1>1. Len(text) \in Nat /\ l \in Nat /\ p \in Nat \ {0} /\ p - 1 + l <= Len(text)
  BY LenProperties DEF Stands
<1>2. p + l \in Stops
  <2>1. p + l \in 1..(Len(text) + 1)
    BY <1>1
  <2>2. CASE p + l <= Len(text)
    <3>1. Cell(p + l) = Blank
      BY <2>2 DEF Cell, Stands
    <3>2. QED
      BY <2>1, <3>1, StopsAreBlanks
  <2>3. CASE ~ (p + l <= Len(text))
    <3>1. Cell(p + l) = Nul
      BY <2>3 DEF Cell
    <3>2. QED
      BY <2>1, <3>1, StopsAreBlanks
  <2>4. QED
    BY <2>2, <2>3
<1>3. ASSUME NEW q \in p..(p + l - 1) PROVE q \notin Stops
  <2>1. q - p + 1 \in 1..l /\ p - 1 + (q - p + 1) = q /\ q <= Len(text)
    BY <1>1
  <2>2. Cell(q) = piece[q - p + 1]
    BY <2>1 DEF Cell, Stands
  <2>3. QED
    BY <2>1, <2>2, StopsAreBlanks DEF Plain
<1>4. WordEnds(p) # {}
  <2>1. p + l >= p
    BY <1>1
  <2>2. QED
    BY <1>1, <1>2, <2>1, WordEndsAre
<1>5. SkipWord(p) \in Stops /\ SkipWord(p) >= p /\ \A r \in Stops : r >= p => SkipWord(p) <= r
  BY <1>1, <1>4, SkipIs
<1>6. SkipWord(p) = p + l
  <2> DEFINE s == SkipWord(p)
  <2>1. s \in Nat /\ p + l >= p
    BY <1>1, <1>5, StopsAre
  <2>2. s >= p /\ s <= p + l /\ s \in Stops
    BY <1>2, <1>5, <2>1
  <2> HIDE DEF s
  <2>3. s \notin p..(p + l - 1)
    BY <1>3, <2>2
  <2>4. QED
    BY <1>1, <2>1, <2>2, <2>3 DEF s
<1>7. w = SubSeq(text, p, p + l - 1)
  <2> DEFINE e == SkipWord(p) - 1
  <2>1. w = SubSeq(text, p, e)
    BY DEF Word
  <2>2. e = p + l - 1
    BY <1>1, <1>6
  <2> HIDE DEF e, w
  <2>3. QED
    BY <2>1, <2>2
<1>8. w \in Seq(TextChars) /\ Len(w) = l /\ \A i \in 1..l : w[i] = text[p + i - 1]
  <2>1. p \in Int /\ p + l - 1 \in Int /\ (p + l - 1) - p + 1 = l
    BY <1>1
  <2>2. \A i \in p..(p + l - 1) : i \in 1..Len(text)
    BY <1>1
  <2>3. \A i \in p..(p + l - 1) : text[i] \in TextChars
    BY <2>2, ElementOfSeq
  <2> DEFINE u == SubSeq(text, p, p + l - 1)
  <2>4. /\ u \in Seq(TextChars)
        /\ Len(u) = IF p <= p + l - 1 THEN (p + l - 1) - p + 1 ELSE 0
        /\ \A i \in 1..((p + l - 1) - p + 1) : u[i] = text[p + i - 1]
    BY <2>1, <2>3, SubSeqProperties
  <2> HIDE DEF u
  <2>5. Len(u) = l
    BY <1>1, <2>4
  <2>6. QED
    BY <1>7, <2>1, <2>4, <2>5 DEF u
<1> HIDE DEF w
<1>9. \A i \in 1..l : w[i] = piece[i]
  <2>1. ASSUME NEW i \in 1..l PROVE w[i] = piece[i]
    <3>1. p + i - 1 = p - 1 + i
      BY <1>1
    <3>2. QED
      BY <1>8, <3>1 DEF Stands
  <2>2. QED
    BY <2>1
<1>10. w = piece
  BY <1>8, <1>9, SeqEqual
<1>11. QED
  BY <1>4, <1>6, <1>10 DEF w


(* The directives that are read back, and what they write.                 *)
ReadDirectives == ParsedDirectives \ {"o", "b"}

LEMMA WrittenBy ==
    ASSUME NEW d \in ReadDirectives, NEW v \in ArgumentsOf(d)
    PROVE  \/ d \in {"u", "z"} /\ v \in 0..MaxUlong /\ Formatted(d, v) = FromUint(v, 10)
           \/ d \in {"x", "p"} /\ v \in 0..MaxUlong /\ Formatted(d, v) = <<"0", "x">> \o FromUint(v, 16)
           \/ d = "i" /\ v \in MinLong..MaxLong /\ Formatted(d, v) = FromInt(v)
           \/ d = "c" /\ v \in Letters /\ Formatted(d, v) = <<v>>
           \/ d = "t" /\ v \in BOOLEAN /\ Formatted(d, v) = IF v THEN TrueText ELSE FalseText
           \/ d = "s" /\ v \in Words /\ Formatted(d, v) = v
<1>1. d \in {"c", "t", "i", "u", "z", "p", "x", "s"}
  BY DEF ReadDirectives, ParsedDirectives
<1>2. CASE d \in {"u", "z"}
  <2>1. v \in Ulongs /\ Formatted(d, v) = PushedUint(v, 10)
    BY <1>2 DEF ArgumentsOf, UnsignedDirectives, WordDirectives, Formatted
  <2>2. v \in 0..MaxUlong
    BY <2>1, FormatsAssumption
  <2>3. PushedUint(v, 10) = FromUint(v, 10)
    BY DEF PushedUint
  <2>4. QED
    BY <1>2, <2>1, <2>2, <2>3
<1>3. CASE d \in {"x", "p"}
  <2>1. v \in Ulongs /\ Formatted(d, v) = PushedUint(v, 16)
    BY <1>3 DEF ArgumentsOf, UnsignedDirectives, WordDirectives, Formatted
  <2>2. v \in 0..MaxUlong
    BY <2>1, FormatsAssumption
  <2>3. PushedUint(v, 16) = <<"0", "x">> \o FromUint(v, 16)
    BY DEF PushedUint
  <2>4. QED
    BY <1>3, <2>1, <2>2, <2>3
<1>4. CASE d = "i"
  <2>1. v \in Longs /\ Formatted(d, v) = FromInt(v)
    BY <1>4 DEF ArgumentsOf, UnsignedDirectives, WordDirectives, Formatted
  <2>2. v \in MinLong..MaxLong
    BY <2>1, FormatsAssumption
  <2>3. QED
    BY <1>4, <2>1, <2>2
<1>5. CASE d = "c"
  <2>1. v \in Letters /\ Formatted(d, v) = <<v>>
    BY <1>5 DEF ArgumentsOf, UnsignedDirectives, WordDirectives, Formatted
  <2>2. QED
    BY <1>5, <2>1
<1>6. CASE d = "t"
  <2>1. v \in BOOLEAN /\ Formatted(d, v) = IF v THEN TrueText ELSE FalseText
    BY <1>6 DEF ArgumentsOf, UnsignedDirectives, WordDirectives, Formatted
  <2>2. QED
    BY <1>6, <2>1
<1>7. CASE d = "s"
  <2>1. v \in Words /\ Formatted(d, v) = v
    BY <1>7 DEF ArgumentsOf, UnsignedDirectives, WordDirectives, Formatted
  <2>2. QED
    BY <1>7, <2>1
<1>8. QED
  BY <1>1, <1>2, <1>3, <1>4, <1>5, <1>6, <1>7

LEMMA PlainDigits ==
    ASSUME NEW b \in NumericBase, NEW ds \in Seq(DigitsOf(b))
    PROVE  Plain(ds)
<1>1. ASSUME NEW i \in 1..Len(ds) PROVE ds[i] # Blank /\ ds[i] # Nul
  <2>1. ds[i] \in DigitsOf(b)
    BY ElementOfSeq
  <2>2. QED
    BY <2>1, DigitIsNoSign
<1>2. QED
  BY <1>1 DEF Plain

WordFits(v) == Len(v) < WordCapacity /\ Blank \notin ToSet(v)

LEMMA PlainPiece ==
    ASSUME NEW d \in ReadDirectives \ {"c"}, NEW v \in ArgumentsOf(d), d = "s" => WordFits(v)
    PROVE  Plain(Formatted(d, v))
<1> DEFINE piece == Formatted(d, v)
<1>1. CASE d \in {"u", "z"} /\ v \in 0..MaxUlong /\ piece = FromUint(v, 10)
  <2>1. v \in Nat /\ 10 \in NumericBase
    BY <1>1, MaxUlongIs, TenDigits
  <2>2. FromUint(v, 10) \in Seq(DigitsOf(10))
    BY <2>1, UintDigits
  <2>3. QED
    BY <1>1, <2>1, <2>2, PlainDigits
<1>2. CASE d \in {"x", "p"} /\ v \in 0..MaxUlong /\ piece = <<"0", "x">> \o FromUint(v, 16)
  <2> DEFINE ds == FromUint(v, 16)
             q == <<"0", "x">> \o ds
  <2>1. v \in Nat /\ 16 \in NumericBase
    BY <1>2, MaxUlongIs DEF NumericBase
  <2>2. ds \in Seq(DigitsOf(16)) /\ Plain(ds)
    BY <2>1, UintDigits, PlainDigits
  <2>3. ds \in Seq(TextChars) /\ "0" \in TextChars /\ "x" \in TextChars /\ Len(ds) \in Nat
    BY <2>1, <2>2, TextCharsHave, DigitsAreText, SeqMonotonic, LenProperties
  <2> HIDE DEF ds
  <2>4. /\ Len(q) = Len(ds) + 2 /\ q[1] = "0" /\ q[2] = "x"
        /\ \A i \in 1..Len(ds) : q[i + 2] = ds[i]
    BY <2>3, Prefixed
  <2> HIDE DEF q
  <2>5. ASSUME NEW i \in 1..Len(q) PROVE q[i] # Blank /\ q[i] # Nul
    <3>1. i = 1 \/ i = 2 \/ (i - 2 \in 1..Len(ds) /\ (i - 2) + 2 = i)
      BY <2>3, <2>4
    <3>2. "0" # Nul /\ "x" # Nul
      BY DEF Nul
    <3>3. CASE i = 1 \/ i = 2
      BY <2>4, <3>2, <3>3, BlankIs
    <3>4. CASE i - 2 \in 1..Len(ds) /\ (i - 2) + 2 = i
      <4> DEFINE k == i - 2
      <4>1. k \in 1..Len(ds) /\ k + 2 = i
        BY <3>4
      <4> HIDE DEF k
      <4>2. q[k + 2] = ds[k] /\ ds[k] # Blank /\ ds[k] # Nul
        BY <2>2, <2>4, <4>1 DEF Plain
      <4>3. QED
        BY <4>1, <4>2
    <3>5. QED
      BY <3>1, <3>3, <3>4
  <2>6. Plain(q)
    BY <2>5 DEF Plain
  <2>7. QED
    BY <1>2, <2>6 DEF q, ds
<1>3. CASE d = "i" /\ v \in MinLong..MaxLong /\ piece = FromInt(v)
  <2> DEFINE t == FromInt(v)
  <2>1. v \in Int
    BY <1>3, MinLongIs
  <2>2. t \in Seq(Signed)
    BY <2>1, IntDenotes
  <2> HIDE DEF t
  <2>3. ASSUME NEW i \in 1..Len(t) PROVE t[i] # Blank /\ t[i] # Nul
    <3>1. t[i] = "-" \/ t[i] \in DigitsOf(16)
      BY <2>2, ElementOfSeq, DigitCharsAre DEF Signed
    <3>2. 16 \in NumericBase /\ "-" # Nul
      BY DEF NumericBase, Nul
    <3>3. QED
      BY <3>1, <3>2, DigitIsNoSign, BlankIs
  <2>4. Plain(t)
    BY <2>3 DEF Plain
  <2>5. QED
    BY <1>3, <2>4 DEF t
<1>4. CASE d = "t" /\ v \in BOOLEAN /\ piece = IF v THEN TrueText ELSE FalseText
  <2>1. Plain(TrueText) /\ Plain(FalseText)
    <3>1. /\ Blank # "t" /\ Blank # "r" /\ Blank # "u" /\ Blank # "e" /\ Blank # "f"
          /\ Blank # "a" /\ Blank # "l" /\ Blank # "s"
      BY Zenon DEF Blank
    <3>2. QED
      BY <3>1 DEF Plain, TrueText, FalseText, Nul
  <2>2. QED
    BY <1>4, <2>1
<1>5. CASE d = "s" /\ v \in Words /\ piece = v
  <2>1. Blank \notin ToSet(v) /\ Nul \notin ToSet(v) /\ v \in Seq(TextChars)
    BY <1>5, FormatsAssumption DEF WordFits
  <2>2. ToSet(v) = {v[i] : i \in 1..Len(v)}
    BY <2>1, LenProperties DEF ToSet
  <2>3. Plain(v)
    BY <2>1, <2>2 DEF Plain
  <2>4. QED
    BY <1>5, <2>3
<1>6. QED
  BY <1>1, <1>2, <1>3, <1>4, <1>5, WrittenBy

LEMMA TruthRead ==
    ASSUME NEW v \in BOOLEAN, NEW cs \in Seq(TextChars), Begins(IF v THEN TrueText ELSE FalseText, cs)
    PROVE  IsPrefix(TrueText, cs) = v
<1> DEFINE b == SubSeq(cs, 1, 4)
<1>1. Len(cs) \in Nat
  BY LenProperties
<1>2. /\ Len(TrueText) = 4 /\ TrueText[1] = "t" /\ TrueText[2] = "r" /\ TrueText[3] = "u" /\ TrueText[4] = "e"
      /\ Len(FalseText) = 5 /\ FalseText[1] = "f" /\ TrueText \in Seq(TextChars) /\ FalseText \in Seq(TextChars)
  BY TextCharsHave DEF TrueText, FalseText
<1>3. Len(cs) >= 4
  <2>1. Begins(TrueText, cs) \/ Begins(FalseText, cs)
    OBVIOUS
  <2>2. QED
    BY <1>1, <1>2, <2>1 DEF Begins
<1>4. b \in Seq(TextChars) /\ Len(b) = 4 /\ \A i \in 1..4 : b[i] = cs[i]
  BY <1>1, <1>3, Cut
<1>5. IsPrefix(TrueText, cs) <=> TrueText = b
  <2>1. SubSeq(TrueText, 1, 4) = TrueText
    BY <1>2, SubSeqFull
  <2>2. QED
    BY <1>2, <1>3, <2>1 DEF IsPrefix
<1> HIDE DEF b
<1>6. CASE v
  <2>1. ASSUME NEW i \in 1..4 PROVE TrueText[i] = b[i]
    <3>1. Begins(TrueText, cs)
      BY <1>6
    <3>2. QED
      BY <1>2, <1>4, <3>1 DEF Begins
  <2>2. TrueText = b
    BY <1>2, <1>4, <2>1, SeqEqual
  <2>3. QED
    BY <1>5, <1>6, <2>2
<1>7. CASE ~ v
  <2>1. Begins(FalseText, cs)
    BY <1>7
  <2>2. cs[1] = "f"
    BY <1>2, <2>1 DEF Begins
  <2>3. b[1] = "f"
    BY <1>4, <2>2
  <2>4. TrueText # b
    BY <1>2, <2>3
  <2>5. v = FALSE
    BY <1>7
  <2>6. QED
    BY <1>5, <2>4, <2>5 DEF IsPrefix
<1>8. QED
  BY <1>6, <1>7

LEMMA ValueRead ==
    ASSUME string.text \in Seq(TextChars), string.terminated,
           NEW d \in ReadDirectives \ {"c"}, NEW v \in ArgumentsOf(d), d = "s" => WordFits(v),
           NEW p, Stands(Formatted(d, v), p)
    PROVE  ValueAt(d, p) = v
<1> DEFINE piece == Formatted(d, v)
           cs == TextFrom(p)
<1>1. piece \in Seq(TextChars) /\ Plain(piece) /\ Stands(piece, p)
  BY FormattedIsText, PlainPiece
<1>2. cs \in Seq(TextChars) /\ Begins(piece, cs)
  BY <1>1, TextFromBegins
<1>3. CASE d \in {"u", "z"} /\ v \in 0..MaxUlong /\ piece = FromUint(v, 10)
  <2>1. ValueAt(d, p) = Strtoull(cs, 10)
    BY <1>3 DEF ValueAt, NumberAt, BaseOf
  <2>2. Begins(FromUint(v, 10), cs)
    BY <1>2, <1>3
  <2> HIDE DEF cs
  <2>3. QED
    BY <1>2, <1>3, <2>1, <2>2, DecimalRead
<1>4. CASE d \in {"x", "p"} /\ v \in 0..MaxUlong /\ piece = <<"0", "x">> \o FromUint(v, 16)
  <2>1. ValueAt(d, p) = Strtoull(cs, 16)
    BY <1>4 DEF ValueAt, NumberAt, BaseOf
  <2>2. Begins(<<"0", "x">> \o FromUint(v, 16), cs)
    BY <1>2, <1>4
  <2> HIDE DEF cs
  <2>3. QED
    BY <1>2, <1>4, <2>1, <2>2, HexadecimalRead
<1>5. CASE d = "i" /\ v \in MinLong..MaxLong /\ piece = FromInt(v)
  <2>1. ValueAt(d, p) = Strtoll(cs, 10)
    BY <1>5 DEF ValueAt, NumberAt
  <2>2. Begins(FromInt(v), cs)
    BY <1>2, <1>5
  <2> HIDE DEF cs
  <2>3. QED
    BY <1>2, <1>5, <2>1, <2>2, IntRead
<1>6. CASE d = "t" /\ v \in BOOLEAN /\ piece = IF v THEN TrueText ELSE FalseText
  <2>1. ValueAt(d, p) = IsPrefix(TrueText, cs)
    BY <1>6 DEF ValueAt
  <2>2. Begins(IF v THEN TrueText ELSE FalseText, cs)
    BY <1>2, <1>6
  <2> HIDE DEF cs
  <2>3. QED
    BY <1>2, <1>6, <2>1, <2>2, TruthRead
<1>7. CASE d = "s" /\ v \in Words /\ piece = v
  <2>1. ValueAt(d, p) = StrAt(p)
    BY <1>7 DEF ValueAt
  <2>2. Word(p) = v
    BY <1>1, <1>7, SkipsPiece
  <2>3. QED
    BY <1>7, <2>1, <2>2 DEF StrAt, WordFits
<1>8. QED
  BY <1>3, <1>4, <1>5, <1>6, <1>7, WrittenBy

LEMMA OneRead ==
    ASSUME string.text \in Seq(TextChars), string.terminated,
           NEW d \in ReadDirectives, NEW v \in ArgumentsOf(d), d = "s" => WordFits(v),
           NEW p, Stands(Formatted(d, v), p),
           NEW swapped \in BOOLEAN, ~ (d = "s" /\ swapped), NEW vs
    PROVE  ParsePass([at |-> p, values |-> vs, end |-> "none"], d, swapped)
              = [at |-> p + Len(Formatted(d, v)) + 1, values |-> Append(vs, v), end |-> "none"]
<1> DEFINE acc == [at |-> p, values |-> vs, end |-> "none"]
           l == Len(Formatted(d, v))
           got(q) == [acc EXCEPT !.at = q + 1, !.values = Append(@, ValueAt(d, p))]
<1>1. acc.at = p /\ acc.end = "none" /\ d \in ParsedDirectives
  BY DEF ReadDirectives
<1>2. ASSUME NEW q, ValueAt(d, p) = v
      PROVE  got(q) = [at |-> q + 1, values |-> Append(vs, v), end |-> "none"]
  <2>1. got(q) = [acc EXCEPT !.at = q + 1, !.values = Append(@, v)]
    BY <1>2
  <2> HIDE DEF got
  <2>2. QED
    BY <2>1
<1> HIDE DEF acc
<1>3. CASE d = "c"
  <2>1. v \in Letters /\ Formatted(d, v) = <<v>>
    BY <1>3, WrittenBy
  <2>2. l = 1 /\ <<v>>[1] = v
    BY <2>1
  <2>3. p \in Nat \ {0} /\ p <= Len(string.text) /\ string.text[p] = v
    <3>1. p \in Nat \ {0} /\ p - 1 + 1 <= Len(string.text) /\ 1 \in 1..l /\ string.text[p - 1 + 1] = v
      BY <2>1, <2>2 DEF Stands
    <3>2. p - 1 + 1 = p
      BY <3>1
    <3>3. QED
      BY <3>1, <3>2
  <2>4. Known(p) /\ ValueAt(d, p) = v
    BY <1>3, <2>3 DEF Known, ValueAt, Cell
  <2>5. ParsePass(acc, d, swapped) = got(p + 1)
    BY <1>1, <1>3, <2>4 DEF ParsePass
  <2>6. got(p + 1) = [at |-> (p + 1) + 1, values |-> Append(vs, v), end |-> "none"]
    BY <1>2, <2>4
  <2>7. (p + 1) + 1 = p + l + 1
    BY <2>2, <2>3
  <2> HIDE DEF got, l
  <2>8. QED
    BY <2>5, <2>6, <2>7 DEF acc, l
<1>4. CASE d # "c"
  <2> DEFINE piece == Formatted(d, v)
  <2>1. piece \in Seq(TextChars) /\ Plain(piece)
    BY <1>4, FormattedIsText, PlainPiece
  <2>2. WordEnds(p) # {} /\ SkipWord(p) = p + l /\ Word(p) = piece
    BY <2>1, SkipsPiece
  <2>3. ValueAt(d, p) = v
    BY <1>4, ValueRead
  <2>4. ~ NumberOverreads(d, p)
    BY DEF NumberOverreads
  <2>5. d = "s" => ~ (Len(Word(p)) > WordCapacity)
    <3>1. ASSUME d = "s" PROVE ~ (Len(Word(p)) > WordCapacity)
      <4>1. piece = v /\ Len(piece) < WordCapacity
        BY <3>1, WrittenBy DEF WordFits
      <4>2. Len(piece) \in Nat /\ WordCapacity \in Nat
        BY <2>1, LenProperties, FormatsAssumption
      <4>3. QED
        BY <2>2, <4>1, <4>2
    <3>2. QED
      BY <3>1
  <2>6. ParsePass(acc, d, swapped) = got(SkipWord(p))
    BY <1>1, <1>4, <2>2, <2>4, <2>5 DEF ParsePass
  <2>7. got(SkipWord(p)) = [at |-> SkipWord(p) + 1, values |-> Append(vs, v), end |-> "none"]
    BY <1>2, <2>3
  <2> HIDE DEF got, l
  <2>8. QED
    BY <2>2, <2>6, <2>7 DEF acc, l
<1>5. QED
  BY <1>3, <1>4 DEF acc

-----------------------------------------------------------------------------
(* Formats of directives with one blank between them.                      *)
IsSeparated(format, m) ==
    /\ format \in Seq(TextChars)
    /\ Len(format) = 3 * m - 1
    /\ \A j \in 1..m : format[3 * j - 2] = "%" /\ format[3 * j - 1] \in ReadDirectives
    /\ \A j \in 1..(m - 1) : format[3 * j] = Blank

LEMMA SeparatedIs ==
    ASSUME NEW format \in Seq(TextChars), Separated(format)
    PROVE  \E m \in Nat \ {0} : IsSeparated(format, m)
<1> DEFINE l == Len(format)
           m == (l + 1) \div 3
<1>1. l \in Nat /\ l % 3 = 2 /\ DOMAIN format = 1..l
  BY LenProperties DEF Separated
<1>2. m \in Nat \ {0} /\ l = 3 * m - 1
  BY <1>1
<1>3. \A i \in 1..l :
         /\ i % 3 = 1 => format[i] = "%"
         /\ i % 3 = 2 => format[i] \in ReadDirectives
         /\ i % 3 = 0 => format[i] = Blank
  <2>1. ASSUME NEW i \in 1..l
        PROVE  CASE i % 3 = 1 -> format[i] = "%"
                 [] i % 3 = 2 -> format[i] \in ParsedDirectives \ {"o", "b"}
                 [] OTHER     -> format[i] = Blank
    BY <1>1, <2>1, Zenon DEF Separated, Blank
  <2>2. ASSUME NEW i \in 1..l
        PROVE  /\ i % 3 = 1 => format[i] = "%"
               /\ i % 3 = 2 => format[i] \in ReadDirectives
               /\ i % 3 = 0 => format[i] = Blank
    BY <2>1, <2>2 DEF ReadDirectives
  <2>3. QED
    BY <2>2
<1> HIDE DEF l, m
<1>4. ASSUME NEW j \in 1..m PROVE format[3 * j - 2] = "%" /\ format[3 * j - 1] \in ReadDirectives
  <2>1. /\ 3 * j - 2 \in 1..l /\ 3 * j - 1 \in 1..l
        /\ (3 * j - 2) % 3 = 1 /\ (3 * j - 1) % 3 = 2
    BY <1>1, <1>2
  <2>2. QED
    BY <1>3, <2>1
<1>5. ASSUME NEW j \in 1..(m - 1) PROVE format[3 * j] = Blank
  <2>1. 3 * j \in 1..l /\ (3 * j) % 3 = 0
    BY <1>1, <1>2
  <2>2. QED
    BY <1>3, <2>1
<1>6. IsSeparated(format, m)
  BY <1>2, <1>4, <1>5 DEF IsSeparated, l
<1>7. QED
  BY <1>2, <1>6

(* The places the loop visits from the k-th directive on.                  *)
IsTail(g, m, k) ==
    /\ g[3 * k - 2] \in Seq(Nat)
    /\ Len(g[3 * k - 2]) = 2 * (m - k) + 2
    /\ \A j \in k..m : /\ g[3 * k - 2][2 * (j - k) + 1] = 3 * j - 2
                       /\ g[3 * k - 2][2 * (j - k) + 2] = 3 * j

LEMMA VisitsFrom ==
    ASSUME NEW format, NEW m \in Nat \ {0}, IsSeparated(format, m), NEW g, IsVisiting(g, format, 1),
           NEW k \in 1..m
    PROVE  IsTail(g, m, k)
<1> DEFINE Right(i) ==
               /\ g[3 * i - 2] \in Seq(Nat)
               /\ Len(g[3 * i - 2]) = 2 * (m - i) + 2
               /\ \A j \in i..m : /\ g[3 * i - 2][2 * (j - i) + 1] = 3 * j - 2
                                  /\ g[3 * i - 2][2 * (j - i) + 2] = 3 * j
           S == {i \in 1..m : Right(i)}
<1>1. Len(format) = 3 * m - 1 /\ Len(format) \in Nat
  BY DEF IsSeparated
<1>2. ASSUME NEW i \in 1..m PROVE g[3 * i - 2] = <<3 * i - 2>> \o g[3 * i]
  <2>1. 3 * i - 2 \in 1..(Len(format) + 3) /\ 3 * i - 2 <= Len(format) /\ (3 * i - 2) + 2 = 3 * i
    BY <1>1
  <2>2. StepOver(format, 3 * i - 2) = 3 * i
    BY <2>1 DEF StepOver, IsSeparated
  <2> DEFINE n == 3 * i - 2
  <2>3. n \in 1..(Len(format) + 3) /\ n <= Len(format) /\ StepOver(format, n) = 3 * i
    BY <2>1, <2>2
  <2> HIDE DEF n
  <2>4. g[n] = <<n>> \o g[StepOver(format, n)]
    <3>1. g[n] = IF n > Len(format) THEN <<n>> ELSE <<n>> \o g[StepOver(format, n)]
      BY <2>3 DEF IsVisiting
    <3>2. ~ (n > Len(format))
      BY <1>1, <2>3
    <3>3. QED
      BY <3>1, <3>2
  <2>5. QED
    BY <2>3, <2>4 DEF n
<1>3. ASSUME NEW i \in 1..m, i # m PROVE g[3 * i] = <<3 * i>> \o g[3 * (i + 1) - 2]
  <2>1. 3 * i \in 1..(Len(format) + 3) /\ 3 * i <= Len(format) /\ 3 * i + 1 = 3 * (i + 1) - 2 /\ i \in 1..(m - 1)
    BY <1>1, <1>3
  <2>2. Blank # "%"
    BY Zenon DEF Blank
  <2>3. StepOver(format, 3 * i) = 3 * (i + 1) - 2
    BY <2>1, <2>2 DEF StepOver, IsSeparated
  <2> DEFINE n == 3 * i
  <2>4. n \in 1..(Len(format) + 3) /\ n <= Len(format) /\ StepOver(format, n) = 3 * (i + 1) - 2
    BY <2>1, <2>3
  <2> HIDE DEF n
  <2>5. g[n] = <<n>> \o g[StepOver(format, n)]
    <3>1. g[n] = IF n > Len(format) THEN <<n>> ELSE <<n>> \o g[StepOver(format, n)]
      BY <2>4 DEF IsVisiting
    <3>2. ~ (n > Len(format))
      BY <1>1, <2>4
    <3>3. QED
      BY <3>1, <3>2
  <2>6. QED
    BY <2>4, <2>5 DEF n
<1>4. g[3 * m] = <<3 * m>>
  <2>1. 3 * m \in 1..(Len(format) + 3) /\ 3 * m > Len(format)
    BY <1>1
  <2>2. QED
    BY <1>1, <2>1, VisitingStep
<1>5. ASSUME NEW i \in 1..m, \A j \in (i + 1)..m : j \in S PROVE i \in S
  <2> DEFINE a == g[3 * i - 2]
             b == g[3 * i]
             c == g[3 * (i + 1) - 2]
  <2>1. a = <<3 * i - 2>> \o b /\ 3 * i - 2 \in Nat /\ 3 * i \in Nat
    <3>1. 3 * i - 2 \in Nat /\ 3 * i \in Nat
      OBVIOUS
    <3>2. QED
      BY <1>2, <3>1
  <2>2. CASE i = m
    <3>1. b = <<3 * i>>
      BY <1>4, <2>2
    <3>2. b \in Seq(Nat) /\ Len(b) = 1 /\ b[1] = 3 * i
      BY <2>1, <3>1, Single
    <3> HIDE DEF b
    <3>3. a \in Seq(Nat) /\ Len(a) = 2 /\ a[1] = 3 * i - 2 /\ a[2] = 3 * i
      <4>1. /\ a \in Seq(Nat) /\ Len(a) = 1 + 1 /\ a[1] = 3 * i - 2
            /\ \A n \in 1..1 : a[n + 1] = b[n]
        BY <2>1, <3>2, Fronted, SMTT(20)
      <4>2. 1 \in 1..1 /\ 1 + 1 = 2
        OBVIOUS
      <4>3. QED
        BY <3>2, <4>1, <4>2
    <3> HIDE DEF a
    <3>4. \A j \in i..m : j = i /\ 2 * (j - i) + 1 = 1 /\ 2 * (j - i) + 2 = 2
      BY <2>2
    <3>5. 2 * (m - i) + 2 = 2
      BY <2>2
    <3>6. Right(i)
      BY <3>3, <3>4, <3>5 DEF a
    <3>7. QED
      BY <3>6
  <2>3. CASE i # m
    <3>1. i + 1 \in (i + 1)..m
      BY <2>3
    <3>2. Right(i + 1)
      BY <1>5, <3>1
    <3>3. c \in Seq(Nat) /\ Len(c) = 2 * (m - (i + 1)) + 2
          /\ \A j \in (i + 1)..m : /\ c[2 * (j - (i + 1)) + 1] = 3 * j - 2
                                   /\ c[2 * (j - (i + 1)) + 2] = 3 * j
      BY <3>2
    <3>4. b = <<3 * i>> \o c
      BY <1>3, <2>3
    <3> HIDE DEF c
    <3>5. b \in Seq(Nat) /\ Len(b) = Len(c) + 1 /\ b[1] = 3 * i /\ \A n \in 1..Len(c) : b[n + 1] = c[n]
      BY <2>1, <3>3, <3>4, Fronted
    <3> HIDE DEF b
    <3>6. a \in Seq(Nat) /\ Len(a) = Len(b) + 1 /\ a[1] = 3 * i - 2 /\ \A n \in 1..Len(b) : a[n + 1] = b[n]
      BY <2>1, <3>5, Fronted
    <3> HIDE DEF a
    <3>7. a[2] = 3 * i /\ \A n \in 1..Len(c) : a[n + 2] = c[n]
      <4>1. Len(c) \in Nat /\ 1 \in 1..Len(b) /\ 1 + 1 = 2
        BY <3>3, <3>5
      <4>2. a[2] = 3 * i
        BY <3>5, <3>6, <4>1
      <4>3. ASSUME NEW n \in 1..Len(c) PROVE a[n + 2] = c[n]
        <5>1. n + 1 \in 1..Len(b) /\ (n + 1) + 1 = n + 2
          BY <3>5, <4>1
        <5>2. QED
          BY <3>5, <3>6, <5>1
      <4>4. QED
        BY <4>2, <4>3
    <3>8. Len(a) = 2 * (m - i) + 2
      BY <3>3, <3>5, <3>6
    <3>9. ASSUME NEW j \in i..m
          PROVE  a[2 * (j - i) + 1] = 3 * j - 2 /\ a[2 * (j - i) + 2] = 3 * j
      <4>1. CASE j = i
        <5>1. 2 * (j - i) + 1 = 1 /\ 2 * (j - i) + 2 = 2
          BY <4>1
        <5>2. QED
          BY <3>6, <3>7, <4>1, <5>1
      <4>2. CASE j # i
        <5> DEFINE n1 == 2 * (j - (i + 1)) + 1
                   n2 == 2 * (j - (i + 1)) + 2
        <5>1. j \in (i + 1)..m /\ n1 \in 1..Len(c) /\ n2 \in 1..Len(c)
              /\ n1 + 2 = 2 * (j - i) + 1 /\ n2 + 2 = 2 * (j - i) + 2
          BY <3>3, <4>2
        <5>2. c[n1] = 3 * j - 2 /\ c[n2] = 3 * j
          BY <3>3, <5>1
        <5> HIDE DEF n1, n2
        <5>3. a[n1 + 2] = 3 * j - 2 /\ a[n2 + 2] = 3 * j
          BY <3>7, <5>1, <5>2
        <5>4. QED
          BY <5>1, <5>3
      <4>3. QED
        BY <4>1, <4>2
    <3>10. Right(i)
      BY <3>6, <3>8, <3>9 DEF a
    <3>11. QED
      BY <3>10
  <2>4. QED
    BY <2>2, <2>3
<1> HIDE DEF S
<1>6. 1..m \subseteq S
  BY <1>5, DownTo
<1>7. k \in S
  BY <1>6
<1>8. QED
  BY <1>7 DEF S, IsTail

LEMMA TakesAll ==
    ASSUME NEW d \in ReadDirectives
    PROVE  ArgumentsOf(d) # {}
<1>1. d \in {"c", "t", "i", "u", "z", "p", "x", "s"}
  BY DEF ReadDirectives, ParsedDirectives
<1>2. d \in {"u", "z", "p", "x"} => ArgumentsOf(d) = Ulongs
  BY DEF ArgumentsOf, UnsignedDirectives, WordDirectives
<1>3. d = "c" => ArgumentsOf(d) = Letters
  BY DEF ArgumentsOf, UnsignedDirectives, WordDirectives
<1>4. d = "t" => ArgumentsOf(d) = BOOLEAN
  BY DEF ArgumentsOf, UnsignedDirectives, WordDirectives
<1>5. d = "i" => ArgumentsOf(d) = Longs
  BY DEF ArgumentsOf, UnsignedDirectives, WordDirectives
<1>6. d = "s" => ArgumentsOf(d) = Words
  BY DEF ArgumentsOf, UnsignedDirectives, WordDirectives
<1>7. QED
  BY <1>1, <1>2, <1>3, <1>4, <1>5, <1>6, FormatsAssumption

(* The passes over such a format: its directives and blanks in turn.       *)
LEMMA PassesOver ==
    ASSUME NEW format, NEW m \in Nat \ {0}, IsSeparated(format, m)
    PROVE  /\ Passes(format) = 2 * m - 1
           /\ ~ Overreads(format)
           /\ \A j \in 1..m : /\ IsMark(format, 2 * j - 1)
                              /\ Marked(format, 2 * j - 1) = format[3 * j - 1]
                              /\ Takes(format, 2 * j - 1)
           /\ \A j \in 1..(m - 1) : /\ ~ IsMark(format, 2 * j)
                                    /\ format[Visited(format)[2 * j]] = Blank
<1>1. format \in Seq(TextChars) /\ Len(format) \in Nat /\ Len(format) = 3 * m - 1
  BY LenProperties DEF IsSeparated
<1>2. PICK g : IsVisiting(g, format, 1) /\ Visited(format) = g[1]
  BY <1>1, VisitedIs
<1> DEFINE w == Visited(format)
<1>3. /\ w \in Seq(Nat) /\ Len(w) = 2 * m
      /\ \A j \in 1..m : w[2 * j - 1] = 3 * j - 2 /\ w[2 * j] = 3 * j
  <2>1. PICK k \in 1..m : k = 1 /\ 3 * k - 2 = 1 /\ 2 * (m - k) + 2 = 2 * m
    OBVIOUS
  <2>2. /\ g[1] \in Seq(Nat) /\ Len(g[1]) = 2 * m
        /\ \A j \in 1..m : /\ g[1][2 * (j - 1) + 1] = 3 * j - 2
                           /\ g[1][2 * (j - 1) + 2] = 3 * j
    <3>1. IsTail(g, m, k)
      BY <1>2, VisitsFrom
    <3>2. QED
      BY <2>1, <3>1 DEF IsTail
  <2>3. \A j \in 1..m : 2 * (j - 1) + 1 = 2 * j - 1 /\ 2 * (j - 1) + 2 = 2 * j
    OBVIOUS
  <2>4. QED
    BY <1>2, <2>2, <2>3
<1>4. Passes(format) = 2 * m - 1
  BY <1>3 DEF Passes
<1>5. ~ Overreads(format)
  <2>1. Last(w) = w[Len(w)]
    BY DEF Last
  <2>2. m \in 1..m /\ w[2 * m] = 3 * m
    BY <1>3
  <2>3. Last(w) = Len(format) + 1
    BY <1>1, <1>3, <2>1, <2>2
  <2>4. QED
    BY <2>3 DEF Overreads
<1> HIDE DEF w
<1>6. ASSUME NEW j \in 1..m
      PROVE  /\ IsMark(format, 2 * j - 1)
             /\ Marked(format, 2 * j - 1) = format[3 * j - 1]
             /\ Takes(format, 2 * j - 1)
  <2>1. format[3 * j - 2] = "%" /\ format[3 * j - 1] \in ReadDirectives
    BY DEF IsSeparated
  <2>2. IsMark(format, 2 * j - 1)
    <3>1. w[2 * j - 1] = 3 * j - 2
      BY <1>3
    <3>2. QED
      BY <2>1, <3>1 DEF IsMark, w
  <2>3. Marked(format, 2 * j - 1) = format[3 * j - 1]
    <3>1. w[2 * j - 1] + 1 = 3 * j - 1 /\ 3 * j - 1 <= Len(format)
      BY <1>1, <1>3
    <3>2. QED
      BY <3>1 DEF Marked, CharAt, w
  <2>4. QED
    BY <2>1, <2>2, <2>3, TakesAll DEF Takes
<1>7. ASSUME NEW j \in 1..(m - 1)
      PROVE  ~ IsMark(format, 2 * j) /\ format[Visited(format)[2 * j]] = Blank
  <2>1. j \in 1..m /\ w[2 * j] = 3 * j /\ format[3 * j] = Blank
    BY <1>3 DEF IsSeparated
  <2>2. Blank # "%"
    BY Zenon DEF Blank
  <2>3. QED
    BY <2>1, <2>2 DEF IsMark, w
<1>8. QED
  BY <1>4, <1>5, <1>6, <1>7

LEMMA MeetsAll ==
    ASSUME NEW format, NEW m \in Nat \ {0}, IsSeparated(format, m)
    PROVE  /\ Directives(format) \in Seq(TextChars)
           /\ Len(Directives(format)) = m
           /\ \A j \in 1..m : Directives(format)[j] = format[3 * j - 1]
<1> DEFINE n == Passes(format)
           g == CHOOSE g : IsMeeting(g, format, n)
           done(k) == IF k = 0 THEN 0 ELSE 2 * k - 1
           Right(k) == /\ g[done(k)] \in Seq(TextChars)
                       /\ Len(g[done(k)]) = k
                       /\ \A j \in 1..k : g[done(k)][j] = format[3 * j - 1]
           S == {k \in 0..m : Right(k)}
<1>1. n = 2 * m - 1 /\ n \in Nat
  BY PassesOver
<1>2. Directives(format) = g[n]
  BY DEF Directives, IsMeeting
<1>3. IsMeeting(g, format, n)
  BY <1>1, MeetingsExist
<1>4. format \in Seq(TextChars) /\ Len(format) = 3 * m - 1
  BY DEF IsSeparated
<1> HIDE DEF g, n
<1>5. 0 \in S
  <2>1. g[0] = <<>> /\ done(0) = 0 /\ 0 \in 0..m
    BY <1>1, <1>3 DEF IsMeeting
  <2>2. <<>> \in Seq(TextChars) /\ Len(<<>>) = 0
    OBVIOUS
  <2>3. Right(0)
    <3>1. g[done(0)] = <<>> /\ \A j \in 1..0 : FALSE
      BY <2>1
    <3> HIDE DEF done
    <3>2. QED
      BY <2>2, <3>1
  <2>4. QED
    BY <2>1, <2>3
<1>6. ASSUME NEW k \in 0..(m - 1), k \in S PROVE k + 1 \in S
  <2> DEFINE before == 2 * k
             now == 2 * k + 1
  <2>1. /\ before \in 0..n /\ now \in 0..n /\ now # 0 /\ now - 1 = before
        /\ k + 1 \in 0..m /\ k + 1 \in 1..m /\ done(k + 1) = now /\ 2 * (k + 1) - 1 = now
    BY <1>1
  <2>2. Right(k)
    BY <1>6
  <2>3. g[before] = g[done(k)]
    <3>1. CASE k = 0
      BY <3>1
    <3>2. CASE k # 0
      <4>1. k \in 1..(m - 1) /\ done(k) = before - 1 /\ before # 0
        BY <3>2
      <4>2. ~ IsMark(format, before)
        BY <4>1, PassesOver
      <4>3. g[before] = IF before = 0 THEN <<>>
                        ELSE IF IsMark(format, before) THEN Append(g[before - 1], Marked(format, before))
                        ELSE g[before - 1]
        BY <1>3, <2>1 DEF IsMeeting
      <4> HIDE DEF before, done
      <4>4. QED
        BY <4>1, <4>2, <4>3
    <3>3. QED
      BY <3>1, <3>2
  <2>4. IsMark(format, now) /\ Marked(format, now) = format[3 * (k + 1) - 1]
    <3>1. IsMark(format, 2 * (k + 1) - 1) /\ Marked(format, 2 * (k + 1) - 1) = format[3 * (k + 1) - 1]
      BY <2>1, PassesOver
    <3>2. QED
      BY <2>1, <3>1
  <2> HIDE DEF before, now, done
  <2>5. g[now] = Append(g[done(k)], format[3 * (k + 1) - 1])
    <3>1. g[now] = IF now = 0 THEN <<>>
                   ELSE IF IsMark(format, now) THEN Append(g[now - 1], Marked(format, now)) ELSE g[now - 1]
      BY <1>3, <2>1 DEF IsMeeting
    <3>2. QED
      BY <2>1, <2>3, <2>4, <3>1
  <2>6. format[3 * (k + 1) - 1] \in TextChars
    <3>1. 3 * (k + 1) - 1 \in 1..Len(format)
      BY <1>4
    <3>2. QED
      BY <1>4, <3>1, ElementOfSeq
  <2> DEFINE met == g[done(k)]
             more == Append(met, format[3 * (k + 1) - 1])
  <2>7. /\ more \in Seq(TextChars) /\ Len(more) = k + 1
        /\ \A j \in 1..k : more[j] = met[j]
        /\ more[k + 1] = format[3 * (k + 1) - 1]
    BY <2>2, <2>6, AppendProperties
  <2>8. \A j \in 1..k : met[j] = format[3 * j - 1]
    BY <2>2
  <2>9. g[done(k + 1)] = more
    BY <2>1, <2>5
  <2> HIDE DEF met, more
  <2>10. ASSUME NEW j \in 1..(k + 1) PROVE more[j] = format[3 * j - 1]
    <3>1. j \in 1..k \/ j = k + 1
      OBVIOUS
    <3>2. QED
      BY <2>7, <2>8, <3>1
  <2>11. Right(k + 1)
    BY <2>7, <2>9, <2>10
  <2>12. QED
    BY <2>1, <2>11
<1> HIDE DEF S
<1>7. 0..m \subseteq S
  BY <1>5, <1>6, UpTo
<1>8. m \in S /\ done(m) = n
  BY <1>1, <1>7
<1>9. QED
  BY <1>2, <1>8 DEF S

-----------------------------------------------------------------------------
(* Pieces that are put one behind the other stand in the whole text.       *)
AreJoined(t, p, n) ==
    /\ \A j \in 0..n : t[j] \in Seq(TextChars)
    /\ \A j \in 1..n : /\ Len(t[j - 1]) \in Nat
                       /\ Len(t[j]) = Len(t[j - 1]) + Len(p[j])
                       /\ Len(t[j]) <= Len(t[n])
                       /\ \A i \in 1..Len(p[j]) : t[n][Len(t[j - 1]) + i] = p[j][i]

LEMMA TextsGrow ==
    ASSUME NEW n \in Nat, NEW t, NEW p, t[0] = <<>>,
           \A j \in 1..n : p[j] \in Seq(TextChars) /\ t[j] = t[j - 1] \o p[j]
    PROVE  AreJoined(t, p, n)
<1> DEFINE Typed == {j \in 0..n : t[j] \in Seq(TextChars)}
           InWhole(j) == Len(t[j]) <= Len(t[n]) /\ \A i \in 1..Len(t[j]) : t[n][i] = t[j][i]
           S == {j \in 1..n : InWhole(j)}
<1>1. 0..n \subseteq Typed
  <2>1. 0 \in Typed
    <3>1. <<>> \in Seq(TextChars)
      OBVIOUS
    <3>2. t[0] \in Seq(TextChars) /\ 0 \in 0..n
      BY <3>1
    <3>3. QED
      BY <3>2
  <2>2. ASSUME NEW k \in 0..(n - 1), k \in Typed PROVE k + 1 \in Typed
    <3>1. k + 1 \in 1..n /\ k + 1 \in 0..n /\ (k + 1) - 1 = k
      OBVIOUS
    <3>2. t[k] \in Seq(TextChars) /\ p[k + 1] \in Seq(TextChars) /\ t[k + 1] = t[k] \o p[k + 1]
      BY <2>2, <3>1
    <3>3. t[k + 1] \in Seq(TextChars)
      BY <3>2, ConcatProperties
    <3>4. QED
      BY <3>1, <3>3
  <2> HIDE DEF Typed
  <2>3. QED
    BY <2>1, <2>2, UpTo
<1>2. \A j \in 0..n : t[j] \in Seq(TextChars)
  BY <1>1
<1>3. ASSUME NEW j \in 1..n
      PROVE  /\ t[j - 1] \in Seq(TextChars) /\ Len(t[j - 1]) \in Nat
             /\ t[j] \in Seq(TextChars) /\ Len(t[j]) \in Nat /\ Len(p[j]) \in Nat
             /\ Len(t[j]) = Len(t[j - 1]) + Len(p[j])
             /\ \A i \in 1..Len(t[j - 1]) : t[j][i] = t[j - 1][i]
             /\ \A i \in 1..Len(p[j]) : t[j][Len(t[j - 1]) + i] = p[j][i]
  <2> DEFINE a == t[j - 1]
             b == p[j]
             c == t[j]
  <2>1. j \in 0..n /\ j - 1 \in 0..n
    OBVIOUS
  <2>2. a \in Seq(TextChars) /\ b \in Seq(TextChars) /\ c = a \o b
    BY <1>2, <2>1
  <2> HIDE DEF a, b, c
  <2>3. Len(a) \in Nat /\ Len(b) \in Nat
    BY <2>2, LenProperties
  <2>4. /\ a \o b \in Seq(TextChars) /\ Len(a \o b) = Len(a) + Len(b)
        /\ \A i \in 1..(Len(a) + Len(b)) : (a \o b)[i] = IF i <= Len(a) THEN a[i] ELSE b[i - Len(a)]
    BY <2>2, ConcatProperties
  <2>5. \A i \in 1..Len(a) : (a \o b)[i] = a[i]
    BY <2>3, <2>4
  <2>6. ASSUME NEW i \in 1..Len(b) PROVE (a \o b)[Len(a) + i] = b[i]
    <3>1. Len(a) + i \in 1..(Len(a) + Len(b)) /\ ~ (Len(a) + i <= Len(a)) /\ (Len(a) + i) - Len(a) = i
      BY <2>3
    <3>2. QED
      BY <2>4, <3>1
  <2>7. /\ a \in Seq(TextChars) /\ Len(a) \in Nat
        /\ c \in Seq(TextChars) /\ Len(c) \in Nat /\ Len(b) \in Nat
        /\ Len(c) = Len(a) + Len(b)
        /\ \A i \in 1..Len(a) : c[i] = a[i]
        /\ \A i \in 1..Len(b) : c[Len(a) + i] = b[i]
    BY <2>2, <2>3, <2>4, <2>5, <2>6
  <2>8. QED
    BY <2>7 DEF a, b, c
<1>4. ASSUME NEW j \in 1..n, \A i \in (j + 1)..n : i \in S PROVE j \in S
  <2>1. CASE j = n
    BY <1>3, <2>1
  <2>2. CASE j # n
    <3> DEFINE k == j + 1
    <3>1. k \in (j + 1)..n /\ k \in 1..n /\ k - 1 = j
      BY <2>2
    <3> HIDE DEF k
    <3>2. InWhole(k)
      BY <1>4, <3>1
    <3>3. /\ Len(t[j]) \in Nat /\ Len(p[k]) \in Nat /\ Len(t[k]) \in Nat
          /\ Len(t[k]) = Len(t[j]) + Len(p[k])
          /\ \A i \in 1..Len(t[j]) : t[k][i] = t[j][i]
      BY <1>3, <3>1
    <3>4. n \in 1..n /\ Len(t[n]) \in Nat /\ Len(t[j]) <= Len(t[k])
      <4>1. Len(t[j]) <= Len(t[k])
        <5> DEFINE x == Len(t[j])
                   y == Len(p[k])
                   z == Len(t[k])
        <5>1. x \in Nat /\ y \in Nat /\ z \in Nat /\ z = x + y
          BY <3>3, Zenon
        <5> HIDE DEF x, y, z
        <5>2. x <= z
          BY <5>1
        <5>3. QED
          BY <5>2 DEF x, z
      <4>2. n \in 1..n /\ Len(t[n]) \in Nat
        BY <1>3
      <4>3. QED
        BY <4>1, <4>2
    <3> DEFINE a == t[j]
               c == t[k]
               whole == t[n]
    <3>5. /\ Len(a) \in Nat /\ Len(c) \in Nat /\ Len(a) <= Len(c) /\ \A i \in 1..Len(a) : c[i] = a[i]
          /\ Len(whole) \in Nat /\ Len(c) <= Len(whole) /\ \A i \in 1..Len(c) : whole[i] = c[i]
      BY <3>2, <3>3, <3>4, Zenon
    <3> HIDE DEF a, c, whole
    <3>6. Len(a) <= Len(whole) /\ \A i \in 1..Len(a) : whole[i] = a[i]
      BY <3>5
    <3>7. QED
      BY <3>6 DEF a, whole
  <2>3. QED
    BY <2>1, <2>2
<1> HIDE DEF S
<1>5. 1..n \subseteq S
  BY <1>4, DownTo
<1>6. ASSUME NEW j \in 1..n
      PROVE  Len(t[j]) <= Len(t[n]) /\ \A i \in 1..Len(p[j]) : t[n][Len(t[j - 1]) + i] = p[j][i]
  <2>1. InWhole(j)
    BY <1>5 DEF S
  <2>2. ASSUME NEW i \in 1..Len(p[j]) PROVE t[n][Len(t[j - 1]) + i] = p[j][i]
    <3> DEFINE l == Len(t[j - 1])
               k == l + i
    <3>1. l \in Nat /\ Len(p[j]) \in Nat /\ Len(t[j]) = l + Len(p[j]) /\ t[j][k] = p[j][i]
      BY <1>3
    <3> HIDE DEF l
    <3>2. k \in 1..Len(t[j])
      BY <3>1
    <3> HIDE DEF k
    <3>3. t[n][k] = t[j][k]
      BY <2>1, <3>2
    <3>4. QED
      BY <3>1, <3>3 DEF k, l
  <2>3. QED
    BY <2>1, <2>2
<1>7. QED
  BY <1>2, <1>3, <1>6 DEF AreJoined

(* What the passes push and take.                                          *)
IsTaking(g, format, m, args) ==
    /\ g[0].text = <<>>
    /\ \A j \in 1..m :
         /\ g[2 * j - 2].taken = j - 1 /\ g[2 * j - 1].taken = j
         /\ g[2 * j - 1].text = g[2 * j - 2].text \o Formatted(format[3 * j - 1], args[j])
    /\ \A j \in 1..(m - 1) : g[2 * j].text = g[2 * j - 1].text \o <<Blank>>

LEMMA PassesTake ==
    ASSUME NEW format, NEW m \in Nat \ {0}, IsSeparated(format, m),
           NEW args, NEW g, IsFormatting(g, format, args, 2 * m - 1)
    PROVE  IsTaking(g, format, m, args)
<1> DEFINE S == {j \in 0..m : j # 0 => g[2 * j - 2].taken = j - 1 /\ g[2 * j - 1].taken = j}
<1>1. g[0].text = <<>> /\ g[0].taken = 0
  <2>1. 0 \in 0..(2 * m - 1)
    OBVIOUS
  <2>2. g[0] = [text |-> <<>>, taken |-> 0]
    BY <2>1 DEF IsFormatting
  <2>3. QED
    BY <2>2
<1>2. ASSUME NEW n \in 1..(2 * m - 1)
      PROVE  /\ g[n].text = g[n - 1].text \o PassText(format, n, g[n - 1].taken, args)
             /\ Takes(format, n) => g[n].taken = g[n - 1].taken + 1
             /\ ~ Takes(format, n) => g[n].taken = g[n - 1].taken + 0
  <2> DEFINE text == g[n - 1].text \o PassText(format, n, g[n - 1].taken, args)
             one == IF Takes(format, n) THEN 1 ELSE 0
             taken == g[n - 1].taken + one
  <2>1. n \in 0..(2 * m - 1) /\ n # 0
    OBVIOUS
  <2>2. g[n] = [text |-> text, taken |-> taken]
    BY <2>1 DEF IsFormatting
  <2> HIDE DEF text, taken
  <2>3. g[n].text = text /\ g[n].taken = taken
    BY <2>2
  <2>4. QED
    BY <2>3 DEF text, taken
<1>3. ASSUME NEW j \in 1..m
      PROVE  /\ 2 * j - 1 \in 1..(2 * m - 1) /\ (2 * j - 1) - 1 = 2 * j - 2
             /\ g[2 * j - 1].taken = g[2 * j - 2].taken + 1
             /\ g[2 * j - 1].text = g[2 * j - 2].text
                    \o Formatted(format[3 * j - 1], args[g[2 * j - 2].taken + 1])
  <2> DEFINE n == 2 * j - 1
             l == 2 * j - 2
  <2>1. n \in 1..(2 * m - 1) /\ n - 1 = l
    OBVIOUS
  <2>2. IsMark(format, n) /\ Marked(format, n) = format[3 * j - 1] /\ Takes(format, n)
    BY PassesOver
  <2> HIDE DEF n, l
  <2>3. /\ g[n].text = g[l].text \o PassText(format, n, g[l].taken, args)
        /\ g[n].taken = g[l].taken + 1
    BY <1>2, <2>1, <2>2
  <2>4. PassText(format, n, g[l].taken, args) = Formatted(format[3 * j - 1], args[g[l].taken + 1])
    BY <2>2 DEF PassText
  <2>5. QED
    BY <2>1, <2>3, <2>4 DEF n, l
<1>4. ASSUME NEW j \in 1..(m - 1)
      PROVE  /\ g[2 * j].taken = g[2 * j - 1].taken + 0
             /\ g[2 * j].text = g[2 * j - 1].text \o <<Blank>>
  <2> DEFINE n == 2 * j
             l == 2 * j - 1
  <2>1. n \in 1..(2 * m - 1) /\ n - 1 = l
    OBVIOUS
  <2>2. ~ IsMark(format, n) /\ format[Visited(format)[n]] = Blank
    BY PassesOver
  <2>3. ~ Takes(format, n)
    BY <2>2 DEF Takes
  <2> HIDE DEF n, l
  <2>4. /\ g[n].text = g[l].text \o PassText(format, n, g[l].taken, args)
        /\ g[n].taken = g[l].taken + 0
    BY <1>2, <2>1, <2>3
  <2>5. PassText(format, n, g[l].taken, args) = <<Blank>>
    BY <2>2 DEF PassText
  <2>6. QED
    BY <2>4, <2>5 DEF n, l
<1>5. 0 \in S
  OBVIOUS
<1>6. ASSUME NEW k \in 0..(m - 1), k \in S PROVE k + 1 \in S
  <2> DEFINE j == k + 1
             l == 2 * j - 2
  <2>1. j \in 1..m /\ j \in 0..m /\ j - 1 = k /\ l = 2 * k
    OBVIOUS
  <2>2. g[l].taken = k
    <3>1. CASE k = 0
      <4>1. l = 0
        BY <3>1
      <4> HIDE DEF l
      <4>2. QED
        BY <1>1, <3>1, <4>1
    <3>2. CASE k # 0
      <4>1. k \in 1..(m - 1) /\ g[2 * k - 1].taken = k
        BY <1>6, <3>2
      <4>2. g[2 * k].taken = k + 0
        BY <1>4, <4>1
      <4>3. k + 0 = k
        OBVIOUS
      <4> HIDE DEF l
      <4>4. QED
        BY <2>1, <4>2, <4>3
    <3>3. QED
      BY <3>1, <3>2
  <2> HIDE DEF l
  <2>3. g[2 * j - 1].taken = k + 1
    <3>1. g[2 * j - 1].taken = g[2 * j - 2].taken + 1
      BY <1>3, <2>1
    <3>2. QED
      BY <2>2, <3>1 DEF l
  <2>4. g[2 * j - 2].taken = j - 1 /\ g[2 * j - 1].taken = j
    BY <2>1, <2>2, <2>3 DEF l
  <2> HIDE DEF j
  <2>5. j \in S
    BY <2>1, <2>4
  <2>6. QED
    BY <2>5 DEF j
<1> HIDE DEF S
<1>7. 0..m \subseteq S
  BY <1>5, <1>6, UpTo
<1>8. ASSUME NEW j \in 1..m
      PROVE  /\ g[2 * j - 2].taken = j - 1 /\ g[2 * j - 1].taken = j
             /\ g[2 * j - 1].text = g[2 * j - 2].text \o Formatted(format[3 * j - 1], args[j])
  <2>1. j \in S /\ j # 0
    BY <1>7
  <2>2. g[2 * j - 2].taken = j - 1 /\ g[2 * j - 1].taken = j
    BY <2>1 DEF S
  <2>3. (j - 1) + 1 = j
    OBVIOUS
  <2>4. g[2 * j - 2].taken + 1 = j
    BY <2>2, <2>3
  <2>5. g[2 * j - 1].text = g[2 * j - 2].text
            \o Formatted(format[3 * j - 1], args[g[2 * j - 2].taken + 1])
    BY <1>3
  <2>6. QED
    BY <2>2, <2>4, <2>5
<1>9. QED
  BY <1>1, <1>4, <1>8 DEF IsTaking

LEMMA ArgumentsBelong ==
    ASSUME NEW format, NEW m \in Nat \ {0}, IsSeparated(format, m), NEW args \in ArgumentLists(format)
    PROVE  /\ args \in Seq(Values) /\ Len(args) = m
           /\ \A j \in 1..m : args[j] \in ArgumentsOf(format[3 * j - 1])
<1> DEFINE n == 2 * m - 1
<1>1. format \in Seq(TextChars) /\ Passes(format) = n /\ n \in Nat
  BY PassesOver DEF IsSeparated
<1>2. PICK g : IsFormatting(g, format, args, n)
  BY <1>1, FormattingsExist
<1>3. Fits(args, format, g, n)
  BY <1>1, <1>2, ArgumentsFit
<1>4. \A j \in 1..m : g[2 * j - 2].taken = j - 1 /\ g[2 * j - 1].taken = j
  <2>1. IsTaking(g, format, m, args)
    BY <1>2, PassesTake
  <2>2. QED
    BY <2>1 DEF IsTaking
<1>5. args \in Seq(Values) /\ Len(args) = m
  <2>1. m \in 1..m /\ Len(args) = g[n].taken
    BY <1>3 DEF Fits
  <2>2. QED
    BY <1>3, <1>4, <2>1 DEF Fits
<1>6. ASSUME NEW j \in 1..m PROVE args[j] \in ArgumentsOf(format[3 * j - 1])
  <2> DEFINE k == 2 * j - 1
  <2>1. k \in 1..n /\ k - 1 = 2 * j - 2
    OBVIOUS
  <2>2. Takes(format, k) /\ Marked(format, k) = format[3 * j - 1]
    BY PassesOver
  <2>3. g[2 * j - 2].taken = j - 1 /\ (j - 1) + 1 = j
    <3>1. (j - 1) + 1 = j
      OBVIOUS
    <3>2. QED
      BY <1>4, <3>1, Zenon
  <2> HIDE DEF k, n
  <2>4. args[g[k - 1].taken + 1] \in ArgumentsOf(Marked(format, k))
    BY <1>3, <2>1, <2>2 DEF Fits
  <2>5. g[k - 1].taken + 1 = j
    BY <2>1, <2>3
  <2>6. QED
    BY <2>2, <2>4, <2>5
<1>7. QED
  BY <1>5, <1>6

(* The directive j of the format, and what its argument becomes.           *)
Piece(format, args, j) == Formatted(format[3 * j - 1], args[j])

(* Where the pieces stand: each one a blank behind the one before it.      *)
IsPlacing(at, format, m, args) ==
    /\ at[1] = 1
    /\ \A j \in 1..m : Stands(Piece(format, args, j), at[j])
    /\ \A j \in 1..(m - 1) : at[j + 1] = at[j] + Len(Piece(format, args, j)) + 1

LEMMA PiecesStand ==
    ASSUME NEW format, NEW m \in Nat \ {0}, IsSeparated(format, m), NEW args \in ArgumentLists(format),
           string.text = FormatText(format, args)
    PROVE  \E at : IsPlacing(at, format, m, args)
<1> DEFINE n == Passes(format)
           g == CHOOSE g : IsFormatting(g, format, args, n)
           piece(j) == Formatted(format[3 * j - 1], args[j])
           t == [j \in 0..m |-> IF j = m THEN g[2 * m - 1].text ELSE g[2 * j].text]
           p == [j \in 1..m |-> IF j = m THEN piece(j) ELSE piece(j) \o <<Blank>>]
           Typed == {j \in 0..(m - 1) : g[2 * j].text \in Seq(TextChars)}
<1>1. n = 2 * m - 1 /\ n \in Nat
  BY PassesOver
<1>2. FormatText(format, args) = g[n].text
  BY DEF FormatText, IsFormatting
<1>3. IsFormatting(g, format, args, n)
  BY <1>1, FormattingsExist
<1> HIDE DEF g
<1>4. /\ g[0].text = <<>>
      /\ \A j \in 1..m : g[2 * j - 1].text = g[2 * j - 2].text \o piece(j)
      /\ \A j \in 1..(m - 1) : g[2 * j].text = g[2 * j - 1].text \o <<Blank>>
  <2>1. IsTaking(g, format, m, args)
    BY <1>1, <1>3, PassesTake
  <2>2. QED
    BY <2>1 DEF IsTaking
<1>5. ASSUME NEW j \in 1..m PROVE piece(j) \in Seq(TextChars) /\ Len(piece(j)) \in Nat
  <2>1. args[j] \in ArgumentsOf(format[3 * j - 1])
    BY ArgumentsBelong
  <2>2. piece(j) \in Seq(TextChars)
    BY <2>1, FormattedIsText
  <2>3. QED
    BY <2>2, LenProperties
<1> HIDE DEF piece, n
<1>6. <<Blank>> \in Seq(TextChars) /\ Len(<<Blank>>) = 1 /\ <<Blank>>[1] = Blank
  BY BlankIs, Single
<1>7. 0..(m - 1) \subseteq Typed
  <2>1. 0 \in Typed
    <3>1. <<>> \in Seq(TextChars)
      OBVIOUS
    <3>2. 2 * 0 = 0 /\ 0 \in 0..(m - 1)
      OBVIOUS
    <3>3. g[0].text \in Seq(TextChars)
      BY <1>4, <3>1
    <3>4. QED
      BY <3>2, <3>3
  <2>2. ASSUME NEW k \in 0..((m - 1) - 1), k \in Typed PROVE k + 1 \in Typed
    <3> DEFINE j == k + 1
    <3>1. j \in 1..m /\ j \in 1..(m - 1) /\ j \in 0..(m - 1) /\ 2 * j - 2 = 2 * k
      OBVIOUS
    <3>2. g[2 * k].text \in Seq(TextChars)
      BY <2>2
    <3> HIDE DEF j
    <3>3. /\ g[2 * j - 1].text = g[2 * k].text \o piece(j)
          /\ g[2 * j].text = g[2 * j - 1].text \o <<Blank>>
      BY <1>4, <3>1
    <3>4. piece(j) \in Seq(TextChars)
      BY <1>5, <3>1
    <3>5. g[2 * j - 1].text \in Seq(TextChars)
      BY <3>2, <3>3, <3>4, ConcatProperties
    <3>6. g[2 * j].text \in Seq(TextChars)
      BY <1>6, <3>3, <3>5, ConcatProperties
    <3>7. j \in Typed
      BY <3>1, <3>6
    <3>8. QED
      BY <3>7 DEF j
  <2> HIDE DEF Typed
  <2>3. m - 1 \in Nat
    OBVIOUS
  <2>4. QED
    BY <2>1, <2>2, <2>3, UpTo
<1>8. ASSUME NEW j \in 1..m
      PROVE  /\ p[j] \in Seq(TextChars) /\ t[j] = t[j - 1] \o p[j]
             /\ Len(p[j]) = IF j = m THEN Len(piece(j)) ELSE Len(piece(j)) + 1
             /\ \A i \in 1..Len(piece(j)) : p[j][i] = piece(j)[i]
             /\ j # m => p[j][Len(piece(j)) + 1] = Blank
  <2> DEFINE a == g[2 * j - 2].text
             b == piece(j)
             l == j - 1
  <2>1. /\ j \in 0..m /\ l \in 0..m /\ l # m /\ l \in 0..(m - 1) /\ 2 * l = 2 * j - 2
    OBVIOUS
  <2>2. t[l] = a
    BY <2>1
  <2>3. a \in Seq(TextChars)
    <3>1. g[2 * l].text \in Seq(TextChars)
      BY <1>7, <2>1
    <3> HIDE DEF l
    <3>2. QED
      BY <2>1, <3>1
  <2>4. b \in Seq(TextChars) /\ Len(b) \in Nat
    BY <1>5
  <2>5. g[2 * j - 1].text = a \o b
    BY <1>4
  <2>6. CASE j = m
    <3>1. t[j] = a \o b /\ p[j] = b
      BY <2>1, <2>5, <2>6
    <3> HIDE DEF a, b, t, p
    <3>2. QED
      BY <2>2, <2>4, <2>6, <3>1 DEF b
  <2>7. CASE j # m
    <3>1. t[j] = g[2 * j].text /\ p[j] = b \o <<Blank>> /\ j \in 1..(m - 1)
      BY <2>1, <2>7
    <3>2. g[2 * j].text = g[2 * j - 1].text \o <<Blank>>
      BY <1>4, <3>1
    <3>3. t[j] = (a \o b) \o <<Blank>>
      BY <2>5, <3>1, <3>2
    <3> HIDE DEF a, b, t, p, l
    <3>4. (a \o b) \o <<Blank>> = a \o (b \o <<Blank>>)
      BY <1>6, <2>3, <2>4, ConcatAssociative
    <3>5. /\ b \o <<Blank>> \in Seq(TextChars)
          /\ Len(b \o <<Blank>>) = Len(b) + 1
          /\ \A i \in 1..(Len(b) + 1) : (b \o <<Blank>>)[i] = IF i <= Len(b) THEN b[i] ELSE <<Blank>>[i - Len(b)]
      BY <1>6, <2>4, ConcatProperties
    <3>6. \A i \in 1..Len(b) : (b \o <<Blank>>)[i] = b[i]
      BY <2>4, <3>5
    <3>7. (b \o <<Blank>>)[Len(b) + 1] = Blank
      <4>1. Len(b) + 1 \in 1..(Len(b) + 1) /\ ~ (Len(b) + 1 <= Len(b)) /\ (Len(b) + 1) - Len(b) = 1
        BY <2>4
      <4>2. QED
        BY <1>6, <3>5, <4>1
    <3>8. /\ p[j] \in Seq(TextChars) /\ t[j] = t[l] \o p[j]
          /\ Len(p[j]) = Len(b) + 1
          /\ \A i \in 1..Len(b) : p[j][i] = b[i]
          /\ p[j][Len(b) + 1] = Blank
      BY <2>2, <3>1, <3>3, <3>4, <3>5, <3>6, <3>7
    <3>9. QED
      BY <2>7, <3>8 DEF b, l
  <2>8. QED
    BY <2>6, <2>7
<1>9. t[0] = <<>> /\ t[m] = string.text
  <2>1. 0 \in 0..m /\ 0 # m /\ m \in 0..m
    OBVIOUS
  <2>2. t[0] = g[2 * 0].text /\ t[m] = g[2 * m - 1].text
    BY <2>1
  <2>3. QED
    BY <1>1, <1>2, <1>4, <2>2
<1> DEFINE at == [j \in 1..m |-> Len(t[j - 1]) + 1]
<1> HIDE DEF t, p
<1>10. /\ \A j \in 0..m : t[j] \in Seq(TextChars)
       /\ \A j \in 1..m : /\ Len(t[j - 1]) \in Nat
                          /\ Len(t[j]) = Len(t[j - 1]) + Len(p[j])
                          /\ Len(t[j]) <= Len(t[m])
                          /\ \A i \in 1..Len(p[j]) : t[m][Len(t[j - 1]) + i] = p[j][i]
  <2>1. AreJoined(t, p, m)
    BY <1>8, <1>9, TextsGrow
  <2>2. QED
    BY <2>1 DEF AreJoined
<1>11. ASSUME NEW j \in 1..m PROVE Stands(piece(j), at[j])
  <2> DEFINE b == piece(j)
             l == Len(t[j - 1])
             text == string.text
  <2>1. /\ l \in Nat /\ Len(b) \in Nat
        /\ Len(p[j]) = IF j = m THEN Len(b) ELSE Len(b) + 1
        /\ l + Len(p[j]) <= Len(text)
        /\ \A i \in 1..Len(p[j]) : text[l + i] = p[j][i]
        /\ \A i \in 1..Len(b) : p[j][i] = b[i]
        /\ j # m => p[j][Len(b) + 1] = Blank
    <3>1. /\ l \in Nat
          /\ Len(t[j]) = l + Len(p[j])
          /\ Len(t[j]) <= Len(text)
          /\ \A i \in 1..Len(p[j]) : text[l + i] = p[j][i]
      BY <1>9, <1>10
    <3>2. l + Len(p[j]) <= Len(text)
      BY <3>1
    <3>3. QED
      BY <1>5, <1>8, <3>1, <3>2
  <2>2. j = m => Len(text) = l + Len(b)
    <3>1. Len(t[m]) = Len(t[m - 1]) + Len(p[m]) /\ Len(p[m]) = Len(piece(m))
      <4>1. m \in 1..m
        OBVIOUS
      <4>2. QED
        BY <1>8, <1>10, <4>1
    <3>2. QED
      BY <1>9, <3>1
  <2>3. at[j] = l + 1
    OBVIOUS
  <2> HIDE DEF at, b, l, text
  <2>4. at[j] \in Nat \ {0} /\ at[j] - 1 = l
    BY <2>1, <2>3
  <2>5. l + Len(b) <= Len(text)
    BY <2>1
  <2>6. \A i \in 1..Len(b) : text[l + i] = b[i]
    <3> SUFFICES ASSUME NEW i \in 1..Len(b) PROVE text[l + i] = b[i]
      OBVIOUS
    <3>1. i \in 1..Len(p[j])
      BY <2>1
    <3>2. QED
      BY <2>1, <3>1
  <2>7. at[j] + Len(b) <= Len(text) => text[at[j] + Len(b)] = Blank
    <3> SUFFICES ASSUME at[j] + Len(b) <= Len(text) PROVE text[at[j] + Len(b)] = Blank
      OBVIOUS
    <3>1. j # m
      BY <2>1, <2>2, <2>3
    <3>2. Len(b) + 1 \in 1..Len(p[j]) /\ at[j] + Len(b) = l + (Len(b) + 1)
      BY <2>1, <2>3, <3>1
    <3>3. QED
      BY <2>1, <3>1, <3>2
  <2>8. /\ at[j] \in Nat \ {0}
        /\ at[j] - 1 + Len(b) <= Len(text)
        /\ \A i \in 1..Len(b) : text[at[j] - 1 + i] = b[i]
        /\ at[j] + Len(b) <= Len(text) => text[at[j] + Len(b)] = Blank
    BY <2>4, <2>5, <2>6, <2>7
  <2>9. QED
    BY <2>8 DEF Stands, b, text
<1>12. at[1] = 1
  <2>1. 1 \in 1..m /\ 1 - 1 = 0 /\ Len(<<>>) = 0
    OBVIOUS
  <2>2. QED
    BY <1>9, <2>1
<1>13. ASSUME NEW j \in 1..(m - 1) PROVE at[j + 1] = at[j] + Len(piece(j)) + 1
  <2> DEFINE k == j + 1
  <2>1. k \in 1..m /\ j \in 1..m /\ j # m /\ k - 1 = j
    OBVIOUS
  <2>2. at[k] = Len(t[j]) + 1 /\ at[j] = Len(t[j - 1]) + 1
    BY <2>1
  <2>3. Len(t[j]) = Len(t[j - 1]) + (Len(piece(j)) + 1) /\ Len(t[j - 1]) \in Nat /\ Len(piece(j)) \in Nat
    <3>1. Len(p[j]) = Len(piece(j)) + 1
      BY <1>8, <2>1
    <3>2. QED
      BY <1>5, <1>10, <2>1, <3>1
  <2> DEFINE x == Len(t[j - 1])
             y == Len(piece(j))
             z == Len(t[j])
  <2> HIDE DEF at, k, x, y, z
  <2>4. at[k] = z + 1 /\ at[j] = x + 1 /\ z = x + (y + 1) /\ x \in Nat /\ y \in Nat
    BY <2>2, <2>3 DEF x, y, z
  <2>5. at[k] = at[j] + y + 1
    BY <2>4
  <2>6. QED
    BY <2>5 DEF k, y
<1> HIDE DEF at
<1>14. IsPlacing(at, format, m, args)
  BY <1>11, <1>12, <1>13 DEF IsPlacing, Piece, piece
<1>15. QED
  BY <1>14

-----------------------------------------------------------------------------
(* After so many directives: the values of the first of them, at the next  *)
(* piece; or stopped by the arguments of %s.                               *)
IsRead(acc, at, format, m, args, k) ==
    \/ /\ acc = [at |-> acc.at, values |-> acc.values, end |-> "none"]
       /\ k < m => acc.at = at[k + 1]
       /\ acc.values \in Seq(Values) /\ Len(acc.values) = k
       /\ \A j \in 1..k : acc.values[j] = args[j]
    \/ acc.end = "swapped" /\ "s" \in ToSet(format)

LEMMA NextRead ==
    ASSUME NEW format, NEW m \in Nat \ {0}, IsSeparated(format, m), NEW args \in ArgumentLists(format),
           string.text = FormatText(format, args), string.text \in Seq(TextChars), string.terminated,
           NEW at, IsPlacing(at, format, m, args),
           \A j \in 1..m : format[3 * j - 1] = "s" => WordFits(args[j]),
           NEW swapped \in BOOLEAN, NEW k \in 0..(m - 1),
           NEW acc, IsRead(acc, at, format, m, args, k)
    PROVE  IsRead(ParsePass(acc, format[3 * (k + 1) - 1], swapped), at, format, m, args, k + 1)
<1> DEFINE j == k + 1
           d == format[3 * (k + 1) - 1]
           v == args[j]
           next == ParsePass(acc, d, swapped)
<1>1. j \in 1..m /\ k \in Nat
  OBVIOUS
<1>2. d \in ReadDirectives /\ v \in ArgumentsOf(d) /\ v \in Values /\ args \in Seq(Values) /\ Len(args) = m
  <2>1. d \in ReadDirectives /\ v \in ArgumentsOf(d) /\ args \in Seq(Values) /\ Len(args) = m
    BY <1>1, ArgumentsBelong DEF IsSeparated
  <2>2. v \in Values
    BY <1>1, <2>1, ElementOfSeq
  <2>3. QED
    BY <2>1, <2>2
<1>3. d = "s" => WordFits(v)
  BY <1>1
<1>4. Stands(Formatted(d, v), at[j])
  BY <1>1 DEF IsPlacing, Piece
<1>5. CASE acc.end = "swapped" /\ "s" \in ToSet(format)
  <2>1. acc.end # "none"
    BY <1>5
  <2>2. next = acc
    BY <2>1 DEF ParsePass
  <2>3. QED
    BY <1>5, <2>2 DEF IsRead
<1>6. CASE /\ acc = [at |-> acc.at, values |-> acc.values, end |-> "none"]
           /\ acc.at = at[j]
           /\ acc.values \in Seq(Values) /\ Len(acc.values) = k
           /\ \A i \in 1..k : acc.values[i] = args[i]
  <2>1. acc.end = "none"
    BY <1>6
  <2>2. CASE d = "s" /\ swapped
    <3>1. next = [acc EXCEPT !.end = "swapped"]
      <4>1. d \in ParsedDirectives /\ d # "c"
        BY <2>2 DEF ParsedDirectives
      <4> HIDE DEF d
      <4>2. QED
        BY <2>1, <2>2, <4>1 DEF ParsePass
    <3>2. next.end = "swapped"
      <4>1. [[at |-> acc.at, values |-> acc.values, end |-> "none"] EXCEPT !.end = "swapped"].end = "swapped"
        OBVIOUS
      <4>2. QED
        BY <1>6, <3>1, <4>1
    <3>3. "s" \in ToSet(format)
      <4>1. format \in Seq(TextChars) /\ Len(format) = 3 * m - 1
        BY DEF IsSeparated
      <4>2. 3 * (k + 1) - 1 \in 1..Len(format) /\ DOMAIN format = 1..Len(format)
        BY <4>1, LenProperties
      <4> DEFINE i == 3 * (k + 1) - 1
      <4>3. i \in DOMAIN format /\ format[i] = "s"
        BY <2>2, <4>2
      <4> HIDE DEF i
      <4>4. QED
        BY <4>3 DEF ToSet
    <3>4. QED
      BY <3>2, <3>3 DEF IsRead
  <2>3. CASE ~ (d = "s" /\ swapped)
    <3> DEFINE p == at[j]
               vs == acc.values
               more == Append(vs, v)
    <3>1. acc = [at |-> p, values |-> vs, end |-> "none"]
      BY <1>6
    <3> HIDE DEF d, v, p, vs
    <3>2. next = [at |-> p + Len(Formatted(d, v)) + 1, values |-> more, end |-> "none"]
      BY <1>2, <1>3, <1>4, <2>3, <3>1, OneRead DEF p
    <3>3. j < m => at[j + 1] = p + Len(Formatted(d, v)) + 1
      <4>1. j < m => j \in 1..(m - 1)
        BY <1>1
      <4> HIDE DEF j
      <4>2. j < m => at[j + 1] = at[j] + Len(Piece(format, args, j)) + 1
        BY <4>1 DEF IsPlacing
      <4>3. Piece(format, args, j) = Formatted(d, v)
        BY DEF Piece, d, v, j
      <4>4. QED
        BY <4>2, <4>3 DEF p
    <3>4. vs \in Seq(Values) /\ Len(vs) = k /\ \A i \in 1..k : vs[i] = args[i]
      BY <1>6 DEF vs
    <3>5. more \in Seq(Values) /\ Len(more) = k + 1 /\ more[k + 1] = v /\ \A i \in 1..k : more[i] = vs[i]
      BY <1>2, <3>4, AppendProperties
    <3> HIDE DEF more
    <3>6. ASSUME NEW i \in 1..(k + 1) PROVE more[i] = args[i]
      <4>1. i \in 1..k \/ i = k + 1
        OBVIOUS
      <4>2. args[k + 1] = v
        BY DEF v
      <4>3. QED
        BY <3>4, <3>5, <4>1, <4>2
    <3> DEFINE there == p + Len(Formatted(d, v)) + 1
    <3>7. next = [at |-> there, values |-> more, end |-> "none"]
      BY <3>2
    <3>8. j < m => there = at[j + 1]
      BY <3>3
    <3> HIDE DEF there, next, j
    <3>9. next.at = there /\ next.values = more /\ next = [at |-> next.at, values |-> next.values, end |-> "none"]
      BY <3>7
    <3>10. more \in Seq(Values) /\ Len(more) = j /\ \A i \in 1..j : more[i] = args[i]
      BY <3>5, <3>6 DEF j
    <3>11. IsRead(next, at, format, m, args, j)
      BY <3>8, <3>9, <3>10 DEF IsRead
    <3>12. QED
      BY <3>11 DEF next, j, d
  <2>4. QED
    BY <2>2, <2>3
<1>7. QED
  BY <1>5, <1>6 DEF IsRead

LEMMA ReadsBack ==
    ASSUME NEW format, NEW m \in Nat \ {0}, IsSeparated(format, m), NEW args \in ArgumentLists(format),
           string.text = FormatText(format, args), string.text \in Seq(TextChars), string.terminated,
           \A j \in 1..m : format[3 * j - 1] = "s" => WordFits(args[j]),
           NEW swapped \in BOOLEAN
    PROVE  \/ Parse(format, swapped).end = "none" /\ Parse(format, swapped).values = args
           \/ Parse(format, swapped).end = "swapped" /\ "s" \in ToSet(format)
<1> DEFINE ds == Directives(format)
           h == CHOOSE h : IsParsing(h, ds, swapped)
<1>1. Len(ds) = m /\ \A j \in 1..m : ds[j] = format[3 * j - 1]
  BY MeetsAll
<1>2. Parse(format, swapped) = h[Len(ds)]
  BY DEF Parse, IsParsing
<1> HIDE DEF ds
<1>3. IsParsing(h, ds, swapped)
  BY <1>1, ParsingsExist
<1> HIDE DEF h
<1>4. PICK at : IsPlacing(at, format, m, args)
  BY PiecesStand
<1> DEFINE S == {k \in 0..m : IsRead(h[k], at, format, m, args, k)}
<1>5. 0 \in S
  <2> DEFINE start == [at |-> 1, values |-> <<>>, end |-> "none"]
  <2>1. h[0] = start /\ 0 \in 0..m
    BY <1>1, <1>3 DEF IsParsing
  <2>2. start.at = 1 /\ start.values = <<>> /\ start = [at |-> start.at, values |-> start.values, end |-> "none"]
    OBVIOUS
  <2> HIDE DEF start
  <2>3. <<>> \in Seq(Values) /\ Len(<<>>) = 0
    OBVIOUS
  <2>4. at[0 + 1] = 1
    BY <1>4 DEF IsPlacing
  <2>5. /\ start.values \in Seq(Values) /\ Len(start.values) = 0
        /\ \A j \in 1..0 : start.values[j] = args[j]
        /\ start.at = at[0 + 1]
    BY <2>2, <2>3, <2>4
  <2>6. IsRead(start, at, format, m, args, 0)
    BY <2>2, <2>5 DEF IsRead
  <2>7. QED
    BY <2>1, <2>6
<1>6. ASSUME NEW k \in 0..(m - 1), k \in S PROVE k + 1 \in S
  <2>1. k + 1 \in 0..m /\ k + 1 \in 1..m /\ k + 1 # 0 /\ (k + 1) - 1 = k
    OBVIOUS
  <2>2. h[k + 1] = ParsePass(h[k], ds[k + 1], swapped)
    BY <1>1, <1>3, <2>1 DEF IsParsing
  <2>3. ds[k + 1] = format[3 * (k + 1) - 1]
    BY <1>1, <2>1
  <2>4. IsRead(h[k], at, format, m, args, k)
    BY <1>6
  <2>5. IsRead(ParsePass(h[k], format[3 * (k + 1) - 1], swapped), at, format, m, args, k + 1)
    BY <1>4, <2>4, NextRead
  <2>6. QED
    BY <2>1, <2>2, <2>3, <2>5
<1> HIDE DEF S
<1>7. 0..m \subseteq S
  BY <1>5, <1>6, UpTo
<1> DEFINE last == h[m]
<1>8. IsRead(last, at, format, m, args, m)
  BY <1>7 DEF S
<1>9. Parse(format, swapped) = last
  BY <1>1, <1>2
<1> HIDE DEF last
<1>10. args \in Seq(Values) /\ Len(args) = m
  BY ArgumentsBelong
<1>11. CASE last.end = "swapped" /\ "s" \in ToSet(format)
  BY <1>9, <1>11
<1>12. CASE /\ last = [at |-> last.at, values |-> last.values, end |-> "none"]
            /\ last.values \in Seq(Values) /\ Len(last.values) = m
            /\ \A j \in 1..m : last.values[j] = args[j]
  <2>1. last.end = "none"
    BY <1>12
  <2> DEFINE vs == last.values
  <2>2. vs \in Seq(Values) /\ Len(vs) = m /\ \A j \in 1..m : vs[j] = args[j]
    BY <1>12
  <2> HIDE DEF vs
  <2>3. vs = args
    BY <1>10, <2>2, SeqEqual
  <2>4. QED
    BY <1>9, <2>1, <2>3 DEF vs
<1>13. QED
  BY <1>8, <1>11, <1>12 DEF IsRead

-----------------------------------------------------------------------------
(* What a string that may be parsed was made from.                         *)
WrittenInv ==
    call[1] = "Format" =>
        /\ written.format \in FormatSet
        /\ written.args \in ArgumentLists(written.format)
        /\ string.text = FormatText(written.format, written.args)

LEMMA WrittenNext == WrittenInv /\ [FormatsNext]_formatVars => WrittenInv'
<1> SUFFICES ASSUME WrittenInv, [FormatsNext]_formatVars, call'[1] = "Format" PROVE WrittenInv'
  BY DEF WrittenInv
<1>1. ASSUME NEW what, NEW text, NEW end, New(what, text, end), what[1] # "Format" PROVE FALSE
  BY <1>1 DEF New
<1>2. ASSUME NEW format \in FormatSet, NEW args \in ArgumentLists(format), FormatString(format, args)
      PROVE  WrittenInv'
  <2>1. written' = [format |-> format, args |-> args]
    BY <1>2 DEF FormatString
  <2>2. string'.text = FormatText(format, args)
    BY <1>2, FormatOutcome
  <2>3. written'.format = format /\ written'.args = args
    BY <2>1
  <2>4. QED
    BY <2>2, <2>3 DEF WrittenInv
<1>3. ASSUME NEW value \in MinLong..MaxLong, ConvertInt(value) PROVE FALSE
  <2>1. <<"FromInt", value>>[1] # "Format"
    OBVIOUS
  <2>2. QED
    BY <1>1, <1>3, <2>1 DEF ConvertInt
<1>4. ASSUME NEW value, NEW b, ConvertUint(value, b) PROVE FALSE
  <2>1. <<"FromUint", value, b>>[1] # "Format"
    OBVIOUS
  <2>2. QED
    BY <1>1, <1>4, <2>1 DEF ConvertUint
<1>5. ASSUME NEW f, ConvertFloat(f) PROVE FALSE
  <2>1. <<"FromFloat2", f>>[1] # "Format"
    OBVIOUS
  <2>2. QED
    BY <1>1, <1>5, <2>1 DEF ConvertFloat
<1>6. ASSUME NEW format, ParseString(format) PROVE FALSE
  BY <1>6 DEF ParseString
<1>7. CASE UNCHANGED formatVars
  BY <1>7 DEF formatVars, WrittenInv
<1>8. QED
  BY <1>2, <1>3, <1>4, <1>5, <1>6, <1>7 DEF FormatsNext, Makes, Parses

LEMMA ParseReadsBack ==
    ASSUME NEW format \in FormatSet, NEW args \in ArgumentLists(format),
           string.text = FormatText(format, args), string.text \in Seq(TextChars), string.terminated,
           Separated(format),
           \A k \in DOMAIN args : Directives(format)[k] = "s" => WordFits(args[k]),
           NEW swapped \in BOOLEAN
    PROVE  /\ ~ Overreads(format)
           /\ \/ Parse(format, swapped).end = "none" /\ Parse(format, swapped).values = args
              \/ Parse(format, swapped).end = "swapped" /\ "s" \in ToSet(format)
<1>1. format \in Seq(TextChars)
  BY FormatsAssumption
<1>2. PICK m \in Nat \ {0} : IsSeparated(format, m)
  BY <1>1, SeparatedIs
<1>3. ~ Overreads(format)
  BY <1>2, PassesOver
<1>4. args \in Seq(Values) /\ Len(args) = m /\ DOMAIN args = 1..m
  <2>1. args \in Seq(Values) /\ Len(args) = m
    BY <1>2, ArgumentsBelong
  <2>2. QED
    BY <2>1, LenProperties
<1>5. \A j \in 1..m : Directives(format)[j] = format[3 * j - 1]
  BY <1>2, MeetsAll
<1>6. \A j \in 1..m : format[3 * j - 1] = "s" => WordFits(args[j])
  BY <1>4, <1>5
<1>7. QED
  BY <1>2, <1>3, <1>6, ReadsBack

LEMMA RoundTripNext ==
    ASSUME FormatsTypeOK, WrittenInv, RoundTrip, [FormatsNext]_formatVars
    PROVE  RoundTrip'
<1>1. ASSUME NEW what, NEW text, NEW end, New(what, text, end), what[1] # "Parse" PROVE RoundTrip'
  <2>1. call' = what
    BY <1>1 DEF New
  <2>2. call' # <<"Parse", written'.format>>
    BY <1>1, <2>1
  <2>3. QED
    BY <2>2 DEF RoundTrip
<1>2. ASSUME NEW format, NEW args, FormatString(format, args) PROVE RoundTrip'
  <2>1. <<"Format", format>>[1] # "Parse"
    OBVIOUS
  <2>2. PICK end : New(<<"Format", format>>, FormatText(format, args), end)
    BY <1>2 DEF FormatString
  <2>3. QED
    BY <1>1, <2>1, <2>2
<1>3. ASSUME NEW value, ConvertInt(value) PROVE RoundTrip'
  <2>1. <<"FromInt", value>>[1] # "Parse"
    OBVIOUS
  <2>2. QED
    BY <1>1, <1>3, <2>1 DEF ConvertInt
<1>4. ASSUME NEW value, NEW b, ConvertUint(value, b) PROVE RoundTrip'
  <2>1. <<"FromUint", value, b>>[1] # "Parse"
    OBVIOUS
  <2>2. QED
    BY <1>1, <1>4, <2>1 DEF ConvertUint
<1>5. ASSUME NEW f, ConvertFloat(f) PROVE RoundTrip'
  <2>1. <<"FromFloat2", f>>[1] # "Parse"
    OBVIOUS
  <2>2. QED
    BY <1>1, <1>5, <2>1 DEF ConvertFloat
<1>6. ASSUME NEW format \in FormatSet, ParseString(format), call[1] = "Format" PROVE RoundTrip'
  <2> SUFFICES ASSUME call' = <<"Parse", written'.format>>, string'.terminated,
                      Separated(written'.format), WordsFit'
               PROVE  \/ outcome' = "none" /\ parsed' = written'.args
                      \/ outcome' = "swapped" /\ "s" \in ToSet(written'.format)
    BY DEF RoundTrip
  <2>1. written' = written /\ string' = string /\ call' = <<"Parse", format>>
    BY <1>6 DEF ParseString
  <2> DEFINE args == written.args
  <2>2. written.format = format /\ string.terminated /\ Separated(format)
    <3>1. <<"Parse", format>> = <<"Parse", written.format>>
      BY <2>1
    <3>2. <<"Parse", format>>[2] = format /\ <<"Parse", written.format>>[2] = written.format
      OBVIOUS
    <3>3. QED
      BY <2>1, <3>1, <3>2
  <2>3. args \in ArgumentLists(format) /\ string.text = FormatText(format, args) /\ string.text \in Seq(TextChars)
    BY <1>6, <2>2 DEF WrittenInv, FormatsTypeOK
  <2>4. \A k \in DOMAIN args : Directives(format)[k] = "s" => WordFits(args[k])
    <3>1. \A k \in DOMAIN written'.args : Directives(written'.format)[k] = "s" => WordFits(written'.args[k])
      BY Zenon DEF WordsFit, WordFits, Blank
    <3>2. QED
      BY <2>1, <2>2, <3>1
  <2>5. PICK swapped \in BOOLEAN :
            /\ parsed' = Parse(format, swapped).values
            /\ outcome' = IF Parse(format, swapped).end = "none" /\ Overreads(format)
                          THEN "overread_format" ELSE Parse(format, swapped).end
    BY <1>6 DEF ParseString
  <2> HIDE DEF args
  <2>6. /\ ~ Overreads(format)
        /\ \/ Parse(format, swapped).end = "none" /\ Parse(format, swapped).values = args
           \/ Parse(format, swapped).end = "swapped" /\ "s" \in ToSet(format)
    BY <2>2, <2>3, <2>4, ParseReadsBack
  <2>7. QED
    BY <2>1, <2>2, <2>5, <2>6 DEF args
<1>7. CASE UNCHANGED formatVars
  <2>1. string' = string /\ written' = written /\ parsed' = parsed /\ outcome' = outcome /\ call' = call
    BY <1>7 DEF formatVars
  <2>2. WordsFit' <=> WordsFit
    BY <2>1, Zenon DEF WordsFit
  <2>3. QED
    BY <2>1, <2>2 DEF RoundTrip
<1>8. QED
  BY <1>2, <1>3, <1>4, <1>5, <1>6, <1>7 DEF FormatsNext, Makes, Parses

(***************************************************************************)
(* For formats of every length, and every number, letter and word: what    *)
(* Format writes by directives with one blank between them, Parse reads    *)
(* back by the same format.                                                *)
(***************************************************************************)
THEOREM RoundTripAlways == FormatsSpec => []RoundTrip
<1>1. FormatsInit => WrittenInv /\ RoundTrip
  <2>1. <<"New">>[1] # "Format" /\ <<"New">>[1] # "Parse"
    OBVIOUS
  <2>2. ASSUME NEW f PROVE <<"New">> # <<"Parse", f>>
    OBVIOUS
  <2>3. QED
    BY <2>1, <2>2 DEF FormatsInit, WrittenInv, RoundTrip
<1>2. WrittenInv /\ [FormatsNext]_formatVars => WrittenInv'
  BY WrittenNext
<1>3. FormatsTypeOK /\ WrittenInv /\ RoundTrip /\ [FormatsNext]_formatVars => RoundTrip'
  BY RoundTripNext
<1>4. QED
  BY <1>1, <1>2, <1>3, FormatsTypeCorrect, PTL DEF FormatsSpec
=============================================================================
