--------------------------- MODULE PathNamesProof ---------------------------
(***************************************************************************)
(* Paths, for any letters and any lengths: combining goes down by the      *)
(* names of each path in turn, going up undoes it, and a path is made of   *)
(* its parent and its name.                                                *)
(***************************************************************************)
EXTENDS PathNames, SequenceTheorems, FiniteSetTheorems, WellFoundedInduction, TLAPS

Texts == Seq(PathChars)

LEMMA PathsAre ==
    ASSUME NEW p
    PROVE  p \in Paths <=> p \in Texts /\ Len(p) <= MaxPath
<1>1. MaxPath \in Nat
  BY PathNamesAssumption
<1>2. ASSUME p \in Paths PROVE p \in Texts /\ Len(p) <= MaxPath
  <2>1. PICK m \in 0..MaxPath : p \in [1..m -> PathChars]
    BY <1>2 DEF Paths, BoundedSeq, SeqOf
  <2>2. QED
    BY <1>1, <2>1 DEF Texts
<1>3. ASSUME p \in Texts, Len(p) <= MaxPath PROVE p \in Paths
  <2>1. Len(p) \in 0..MaxPath /\ p \in [1..Len(p) -> PathChars]
    BY <1>1, <1>3, LenProperties DEF Texts
  <2>2. QED
    BY <2>1 DEF Paths, BoundedSeq, SeqOf
<1>4. QED
  BY <1>2, <1>3

-----------------------------------------------------------------------------
(* The two parts of a text, and the place of a character in it.            *)
LEMMA Cut ==
    ASSUME NEW S, NEW s \in Seq(S), NEW k \in 0..Len(s)
    PROVE  /\ SubSeq(s, 1, k) \in Seq(S)
           /\ Len(SubSeq(s, 1, k)) = k
           /\ \A i \in 1..k : SubSeq(s, 1, k)[i] = s[i]
<1>1. k \in Int /\ \A i \in 1..k : s[i] \in S
  BY ElementOfSeq, LenProperties
<1>2. QED
  BY <1>1, SubSeqProperties

LEMMA Rest ==
    ASSUME NEW S, NEW s \in Seq(S), NEW k \in 0..Len(s)
    PROVE  LET r == SubSeq(s, k + 1, Len(s))
           IN  /\ r \in Seq(S)
               /\ Len(r) = Len(s) - k
               /\ \A i \in 1..(Len(s) - k) : r[i] = s[k + i]
               /\ s = SubSeq(s, 1, k) \o r
<1> DEFINE r == SubSeq(s, k + 1, Len(s))
<1>1. /\ k + 1 \in Int /\ Len(s) \in Int /\ Len(s) - (k + 1) + 1 = Len(s) - k
      /\ \A i \in (k + 1)..Len(s) : s[i] \in S
  BY ElementOfSeq, LenProperties
<1>2. /\ r \in Seq(S)
      /\ Len(r) = IF k + 1 <= Len(s) THEN Len(s) - (k + 1) + 1 ELSE 0
      /\ \A i \in 1..(Len(s) - (k + 1) + 1) : r[i] = s[(k + 1) + i - 1]
  BY <1>1, SubSeqProperties
<1>3. s = SubSeq(s, 1, k) \o r
  <2>1. 1 \in 1..(Len(s) + 1) /\ k \in (1 - 1)..Len(s) /\ Len(s) \in k..Len(s)
    BY LenProperties
  <2>2. SubSeq(s, 1, k) \o SubSeq(s, k + 1, Len(s)) = SubSeq(s, 1, Len(s))
    BY <2>1, ConcatAdjacentSubSeq
  <2>3. QED
    BY <2>2, SubSeqFull
<1> HIDE DEF r
<1>4. Len(r) = Len(s) - k
  <2>1. k \in Int /\ Len(s) \in Int /\ k <= Len(s)
    BY LenProperties
  <2>2. CASE k + 1 <= Len(s)
    BY <1>1, <1>2, <2>2
  <2>3. CASE ~ (k + 1 <= Len(s))
    <3>1. Len(s) - k = 0
      BY <2>1, <2>3
    <3>2. QED
      BY <1>2, <2>3, <3>1
  <2>4. QED
    BY <2>2, <2>3
<1>5. ASSUME NEW i \in 1..(Len(s) - k) PROVE r[i] = s[k + i]
  <2>1. (k + 1) + i - 1 = k + i
    BY <1>1
  <2>2. QED
    BY <1>1, <1>2, <2>1
<1>6. QED
  BY <1>2, <1>3, <1>4, <1>5 DEF r

LEMMA FunctionIsSeq ==
    ASSUME NEW S, NEW n \in Nat, NEW f \in [1..n -> S]
    PROVE  f \in Seq(S) /\ Len(f) = n
OBVIOUS

(* Induction: numbers that hold 0 and with each number the next one up to  *)
(* n are all up to n.                                                      *)
LEMMA LeastOf ==
    ASSUME NEW S \in SUBSET Nat, S # {}
    PROVE  \E m \in S : \A k \in S : m <= k
<1> DEFINE Below == {0..m : m \in S}
           R == StrictSubsetOrdering(Nat)
<1>1. Below \subseteq FiniteSubsetsOf(Nat)
  <2>1. ASSUME NEW m \in S PROVE 0..m \in FiniteSubsetsOf(Nat)
    <3>1. IsFiniteSet(0..m)
      BY FS_Interval
    <3>2. 0..m \in SUBSET Nat
      OBVIOUS
    <3>3. QED
      BY <3>1, <3>2 DEF FiniteSubsetsOf
  <2>2. QED
    BY <2>1
<1>2. Below # {}
  OBVIOUS
<1>3. IsWellFoundedOn(R, FiniteSubsetsOf(Nat))
  BY FS_StrictSubsetOrderingWellFounded
<1> HIDE DEF R
<1>4. PICK x \in Below : \A y \in Below : ~ (<<y, x>> \in R)
  BY <1>1, <1>2, <1>3, WFMin
<1>5. PICK m \in S : x = 0..m
  BY <1>4
<1>6. ASSUME NEW k \in S PROVE m <= k
  <2> SUFFICES ASSUME k < m PROVE FALSE
    BY <1>5
  <2>1. m \in 0..m /\ m \notin 0..k
    OBVIOUS
  <2>2. 0..k \in SUBSET Nat /\ 0..m \in SUBSET Nat /\ 0..k \subseteq 0..m /\ 0..k # 0..m
    BY <2>1
  <2>3. <<0..k, 0..m>> \in R /\ 0..k \in Below
    BY <2>2 DEF R, StrictSubsetOrdering
  <2>4. QED
    BY <1>4, <1>5, <2>3
<1>7. QED
  BY <1>5, <1>6

LEMMA UpTo ==
    ASSUME NEW n \in Nat, NEW S, 0 \in S, \A k \in 0..(n - 1) : k \in S => k + 1 \in S
    PROVE  0..n \subseteq S
<1> SUFFICES ASSUME ~ (0..n \subseteq S) PROVE FALSE
  OBVIOUS
<1> DEFINE Missing == (0..n) \ S
<1>1. Missing \in SUBSET Nat /\ Missing # {}
  OBVIOUS
<1>2. PICK m \in Missing : \A k \in Missing : m <= k
  BY <1>1, LeastOf
<1>3. m \in 0..n /\ m \notin S /\ m # 0
  BY <1>2
<1>4. m - 1 \in 0..(n - 1) /\ m - 1 \notin Missing /\ (m - 1) + 1 = m
  BY <1>2, <1>3
<1>5. m - 1 \in S
  BY <1>4
<1>6. QED
  BY <1>3, <1>4, <1>5

(* The last place of c in p is behind all others.                          *)
LEMMA HasBehind ==
    ASSUME NEW S, NEW p \in Seq(S), NEW c, NEW k \in 0..Len(p)
    PROVE  Has(SubSeq(p, k + 1, Len(p)), c) <=> \E j \in (k + 1)..Len(p) : p[j] = c
<1> DEFINE r == SubSeq(p, k + 1, Len(p))
<1>1. /\ r \in Seq(S) /\ Len(r) = Len(p) - k
      /\ \A i \in 1..(Len(p) - k) : r[i] = p[k + i]
  BY Rest
<1>2. Len(p) \in Nat /\ DOMAIN r = 1..(Len(p) - k)
  BY <1>1, LenProperties
<1> HIDE DEF r
<1>3. ASSUME NEW i \in DOMAIN r, r[i] = c PROVE \E j \in (k + 1)..Len(p) : p[j] = c
  <2>1. k + i \in (k + 1)..Len(p) /\ p[k + i] = c
    BY <1>1, <1>2, <1>3
  <2>2. QED
    BY <2>1
<1>4. ASSUME NEW j \in (k + 1)..Len(p), p[j] = c PROVE \E i \in DOMAIN r : r[i] = c
  <2>1. j - k \in 1..(Len(p) - k) /\ k + (j - k) = j
    BY <1>2
  <2>2. r[j - k] = c
    BY <1>1, <1>4, <2>1
  <2>3. QED
    BY <1>2, <2>1, <2>2
<1>5. QED
  BY <1>3, <1>4 DEF Has, r

LEMMA LastPlaceIs ==
    ASSUME NEW S, NEW p \in Seq(S), NEW c, NEW k \in 1..Len(p), p[k] = c,
           \A j \in (k + 1)..Len(p) : p[j] # c
    PROVE  LastPlace(p, c) = k
<1>1. Len(p) \in Nat /\ DOMAIN p = 1..Len(p)
  BY LenProperties
<1>2. ASSUME NEW i \in DOMAIN p
      PROVE  p[i] = c /\ ~ Has(SubSeq(p, i + 1, Len(p)), c) <=> i = k
  <2>1. i \in 0..Len(p)
    BY <1>1
  <2>2. ~ Has(SubSeq(p, i + 1, Len(p)), c) <=> \A j \in (i + 1)..Len(p) : p[j] # c
    BY <2>1, HasBehind
  <2>3. CASE i = k
    BY <2>2, <2>3
  <2>4. CASE i < k
    <3>1. k \in (i + 1)..Len(p)
      BY <1>1, <2>4
    <3>2. QED
      BY <2>2, <2>4, <3>1
  <2>5. CASE i > k
    <3>1. i \in (k + 1)..Len(p)
      BY <1>1, <2>5
    <3>2. QED
      BY <2>5, <3>1
  <2>6. QED
    BY <1>1, <2>3, <2>4, <2>5
<1>3. QED
  BY <1>1, <1>2 DEF LastPlace

LEMMA LastPlaceOf ==
    ASSUME NEW S, NEW p \in Seq(S), NEW c, Has(p, c)
    PROVE  /\ LastPlace(p, c) \in 1..Len(p)
           /\ p[LastPlace(p, c)] = c
           /\ \A j \in (LastPlace(p, c) + 1)..Len(p) : p[j] # c
<1>1. Len(p) \in Nat /\ DOMAIN p = 1..Len(p)
  BY LenProperties
<1> DEFINE Ends == {m \in 0..(Len(p) - 1) : p[Len(p) - m] = c}
<1>2. Ends \in SUBSET Nat /\ Ends # {}
  <2>1. PICK i \in 1..Len(p) : p[i] = c
    BY <1>1 DEF Has
  <2>2. Len(p) - i \in 0..(Len(p) - 1) /\ Len(p) - (Len(p) - i) = i
    BY <1>1
  <2>3. Len(p) - i \in Ends
    BY <2>1, <2>2
  <2>4. Ends \in SUBSET Nat
    BY <1>1
  <2>5. QED
    BY <2>3, <2>4
<1>3. PICK m \in Ends : \A n \in Ends : m <= n
  BY <1>2, LeastOf
<1> DEFINE k == Len(p) - m
<1>4. k \in 1..Len(p) /\ p[k] = c /\ m \in Nat
  BY <1>1, <1>3
<1>5. ASSUME NEW j \in (k + 1)..Len(p), p[j] = c PROVE FALSE
  <2>1. Len(p) - j \in 0..(Len(p) - 1) /\ Len(p) - (Len(p) - j) = j /\ Len(p) - j < m
    BY <1>1, <1>4
  <2>2. Len(p) - j \in Ends
    BY <1>5, <2>1
  <2>3. QED
    BY <1>3, <1>4, <2>1, <2>2
<1> HIDE DEF k
<1>6. LastPlace(p, c) = k
  BY <1>4, <1>5, LastPlaceIs
<1>7. QED
  BY <1>4, <1>5, <1>6

-----------------------------------------------------------------------------
(* What the calls return are texts.                                        *)
LEMMA JointIs ==
    ASSUME NEW p1 \in Texts
    PROVE  Joint(p1) \in Texts /\ p1 \o Joint(p1) \in Texts
<1>1. <<Sep>> \in Texts /\ <<>> \in Texts
  BY DEF Texts, PathChars
<1>2. Joint(p1) \in Texts
  BY <1>1 DEF Joint
<1>3. QED
  BY <1>2, ConcatProperties DEF Texts

LEMMA OffsetIs ==
    ASSUME NEW p2 \in Texts, p2 # <<>>
    PROVE  /\ Offset(p2) \in 0..Len(p2)
           /\ SubSeq(p2, Offset(p2) + 1, Len(p2)) \in Texts
<1>1. Len(p2) \in Nat \ {0}
  BY EmptySeq DEF Texts
<1>2. Offset(p2) \in 0..Len(p2)
  BY <1>1 DEF Offset, IsRelative, IsAbsolute
<1>3. QED
  BY <1>2, Rest DEF Texts

LEMMA Combine2Text ==
    ASSUME NEW p1 \in Texts, NEW p2 \in Texts
    PROVE  Combine2(p1, p2) \in Texts
<1>1. CASE p1 = <<>> \/ p2 = <<>>
  BY <1>1 DEF Combine2
<1>2. CASE p1 # <<>> /\ p2 # <<>>
  <2>1. p1 \o Joint(p1) \in Texts /\ SubSeq(p2, Offset(p2) + 1, Len(p2)) \in Texts
    BY <1>2, JointIs, OffsetIs
  <2>2. (p1 \o Joint(p1)) \o SubSeq(p2, Offset(p2) + 1, Len(p2)) \in Texts
    BY <2>1, ConcatProperties DEF Texts
  <2>3. QED
    BY <1>2, <2>2 DEF Combine2
<1>3. QED
  BY <1>1, <1>2

(* The loop of AvmPathCombine: f holds what it has after each path.        *)
Combined == [path : Texts, fills : BOOLEAN, fault : {"none", "null", "overread", "pushstr"}]

FirstOf(ps) == [path |-> ps[1], fills |-> FALSE, fault |-> "none"]

IsCombining(f, ps, zeroed, n) ==
    f = [k \in 1..n |-> IF k = 1 THEN FirstOf(ps) ELSE CombineStep(f[k - 1], ps[k], zeroed)]

LEMMA CombiningsExist ==
    ASSUME NEW ps, NEW zeroed, NEW n \in Nat
    PROVE  \E f : IsCombining(f, ps, zeroed, n)
<1> DEFINE S == {k \in 0..n : \E f : IsCombining(f, ps, zeroed, k)}
<1>1. 0 \in S
  <2>1. IsCombining(<<>>, ps, zeroed, 0)
    BY DEF IsCombining
  <2>2. QED
    BY <2>1
<1>2. ASSUME NEW k \in 0..(n - 1), k \in S PROVE k + 1 \in S
  <2>1. PICK f : IsCombining(f, ps, zeroed, k)
    BY <1>2
  <2> DEFINE g == [i \in 1..(k + 1) |->
                      IF i <= k THEN f[i]
                      ELSE IF i = 1 THEN FirstOf(ps) ELSE CombineStep(f[k], ps[k + 1], zeroed)]
  <2>2. ASSUME NEW i \in 1..(k + 1)
        PROVE  g[i] = IF i = 1 THEN FirstOf(ps) ELSE CombineStep(g[i - 1], ps[i], zeroed)
    <3>1. CASE i <= k
      <4>1. i \in 1..k /\ (i # 1 => i - 1 \in 1..k /\ i - 1 \in 1..(k + 1) /\ i - 1 <= k)
        BY <3>1
      <4>2. f[i] = IF i = 1 THEN FirstOf(ps) ELSE CombineStep(f[i - 1], ps[i], zeroed)
        BY <2>1, <4>1 DEF IsCombining
      <4>3. g[i] = f[i] /\ (i # 1 => g[i - 1] = f[i - 1])
        BY <3>1, <4>1
      <4> HIDE DEF g
      <4>4. QED
        BY <4>2, <4>3
    <3>2. CASE i = k + 1
      <4>1. ~ (i <= k) /\ i - 1 = k /\ (i # 1 => k \in 1..(k + 1) /\ k <= k)
        BY <3>2
      <4>2. g[i] = IF i = 1 THEN FirstOf(ps) ELSE CombineStep(f[k], ps[k + 1], zeroed)
        BY <4>1
      <4>3. i # 1 => g[k] = f[k]
        BY <4>1
      <4> HIDE DEF g
      <4>4. QED
        BY <3>2, <4>1, <4>2, <4>3
    <3>3. QED
      BY <3>1, <3>2
  <2>3. g = [i \in 1..(k + 1) |-> g[i]]
    OBVIOUS
  <2> HIDE DEF g
  <2>4. g = [i \in 1..(k + 1) |-> IF i = 1 THEN FirstOf(ps) ELSE CombineStep(g[i - 1], ps[i], zeroed)]
    BY <2>2, <2>3
  <2>5. IsCombining(g, ps, zeroed, k + 1)
    BY <2>4 DEF IsCombining
  <2>6. QED
    BY <2>5
<1> HIDE DEF S
<1>3. 0..n \subseteq S
  BY <1>1, <1>2, UpTo
<1>4. QED
  BY <1>3 DEF S

LEMMA CombineIs ==
    ASSUME NEW ps, NEW zeroed, Len(ps) \in Nat \ {0}
    PROVE  \E f : IsCombining(f, ps, zeroed, Len(ps)) /\ Combine(ps, zeroed) = f[Len(ps)]
<1> DEFINE f == CHOOSE f : IsCombining(f, ps, zeroed, Len(ps))
<1>1. Combine(ps, zeroed) = f[Len(ps)]
  BY DEF Combine, IsCombining, FirstOf
<1>2. IsCombining(f, ps, zeroed, Len(ps))
  BY CombiningsExist
<1>3. QED
  BY <1>1, <1>2

LEMMA StepCombined ==
    ASSUME NEW acc \in Combined, NEW p2 \in Texts, NEW zeroed
    PROVE  CombineStep(acc, p2, zeroed) \in Combined
<1>1. CASE acc.fault # "none" \/ acc.path = <<>> \/ acc.fills \/ ~ zeroed
  BY <1>1 DEF CombineStep, Combined
<1>2. CASE ~ (acc.fault # "none" \/ acc.path = <<>> \/ acc.fills \/ ~ zeroed)
  <2>1. CombineStep(acc, p2, zeroed) =
          [path |-> Combine2(acc.path, p2), fills |-> FillsBuffer(acc.path, p2),
           fault |-> Combine2Fault(acc.path, p2)]
    BY <1>2 DEF CombineStep
  <2>2. Combine2(acc.path, p2) \in Texts
    BY Combine2Text DEF Combined
  <2>3. FillsBuffer(acc.path, p2) \in BOOLEAN
    BY DEF FillsBuffer
  <2>4. Combine2Fault(acc.path, p2) \in {"none", "pushstr"}
    BY DEF Combine2Fault
  <2>5. QED
    BY <2>1, <2>2, <2>3, <2>4 DEF Combined
<1>3. QED
  BY <1>1, <1>2

LEMMA CombiningTyped ==
    ASSUME NEW ps \in Seq(Texts), NEW zeroed, NEW n \in 1..Len(ps), NEW f,
           IsCombining(f, ps, zeroed, n)
    PROVE  \A k \in 1..n : f[k] \in Combined
<1>0. Len(ps) \in Nat /\ n \in Nat /\ \A k \in 1..Len(ps) : ps[k] \in Texts
  BY LenProperties, ElementOfSeq
<1> DEFINE S == {k \in 0..(n - 1) : f[k + 1] \in Combined}
<1>1. 0 \in S
  <2>1. f[1] = FirstOf(ps)
    BY <1>0 DEF IsCombining
  <2>2. FirstOf(ps) \in Combined
    BY <1>0 DEF FirstOf, Combined
  <2>3. QED
    BY <1>0, <2>1, <2>2
<1>2. ASSUME NEW k \in 0..((n - 1) - 1), k \in S PROVE k + 1 \in S
  <2>1. k + 1 \in 0..(n - 1) /\ k + 2 \in 1..n /\ k + 2 # 1 /\ (k + 2) - 1 = k + 1
        /\ (k + 1) + 1 = k + 2 /\ k + 2 \in 1..Len(ps)
    BY <1>0
  <2>2. f[k + 2] = CombineStep(f[k + 1], ps[k + 2], zeroed)
    BY <2>1 DEF IsCombining
  <2>3. f[k + 2] \in Combined
    BY <1>0, <1>2, <2>1, <2>2, StepCombined
  <2>4. QED
    BY <2>1, <2>3
<1> HIDE DEF S
<1>3. 0..(n - 1) \subseteq S
  <2>1. n - 1 \in Nat
    BY <1>0
  <2>2. QED
    BY <1>1, <1>2, <2>1, UpTo
<1>4. ASSUME NEW k \in 1..n PROVE f[k] \in Combined
  <2>1. k - 1 \in 0..(n - 1) /\ (k - 1) + 1 = k
    BY <1>0
  <2>2. k - 1 \in S
    BY <1>3, <2>1
  <2>3. QED
    BY <2>1, <2>2 DEF S
<1>5. QED
  BY <1>4

LEMMA CombineTyped ==
    ASSUME NEW ps \in Seq(Texts), ps # <<>>, NEW zeroed
    PROVE  Combine(ps, zeroed) \in Combined
<1>1. Len(ps) \in Nat \ {0}
  BY EmptySeq
<1>2. PICK f : IsCombining(f, ps, zeroed, Len(ps)) /\ Combine(ps, zeroed) = f[Len(ps)]
  BY <1>1, CombineIs
<1>3. Len(ps) \in 1..Len(ps)
  BY <1>1
<1>4. f[Len(ps)] \in Combined
  BY <1>2, <1>3, CombiningTyped
<1>5. QED
  BY <1>2, <1>4

(* The path the program holds, in front of the pieces.                     *)
LEMMA PiecesJoin ==
    ASSUME NEW p \in Texts, NEW ps \in BoundedSeq(Pieces, MaxPieces - 1)
    PROVE  /\ ps \in Seq(Texts) /\ Len(ps) \in Nat
           /\ <<p>> \o ps \in Seq(Texts)
           /\ <<p>> \o ps # <<>>
           /\ Len(<<p>> \o ps) = Len(ps) + 1
           /\ (<<p>> \o ps)[1] = p
           /\ \A i \in 1..Len(ps) : (<<p>> \o ps)[i + 1] = ps[i]
<1>1. PICK m \in 0..(MaxPieces - 1) : ps \in [1..m -> Pieces]
  BY DEF BoundedSeq, SeqOf
<1>2. m \in Nat /\ Pieces \subseteq Texts
  BY PathNamesAssumption DEF Texts
<1>3. ps \in Seq(Pieces)
  BY <1>1, <1>2
<1>4. ps \in Seq(Texts) /\ Len(ps) \in Nat
  BY <1>2, <1>3, SeqMonotonic, LenProperties
<1>5. <<p>> \in Seq(Texts) /\ Len(<<p>>) = 1 /\ <<p>>[1] = p
  OBVIOUS
<1>6. /\ <<p>> \o ps \in Seq(Texts) /\ Len(<<p>> \o ps) = 1 + Len(ps)
      /\ \A i \in 1..(1 + Len(ps)) : (<<p>> \o ps)[i] = IF i <= 1 THEN <<p>>[i] ELSE ps[i - 1]
  BY <1>4, <1>5, ConcatProperties
<1> DEFINE all == <<p>> \o ps
<1> HIDE DEF all
<1>7. all \in Seq(Texts) /\ Len(all) = 1 + Len(ps)
      /\ \A i \in 1..(1 + Len(ps)) : all[i] = IF i <= 1 THEN <<p>>[i] ELSE ps[i - 1]
  BY <1>6 DEF all
<1>8. all # <<>> /\ Len(all) = Len(ps) + 1 /\ all[1] = p
  BY <1>4, <1>5, <1>7, EmptySeq
<1>9. ASSUME NEW i \in 1..Len(ps) PROVE all[i + 1] = ps[i]
  <2>1. i + 1 \in 1..(1 + Len(ps)) /\ ~ (i + 1 <= 1) /\ (i + 1) - 1 = i
    BY <1>4
  <2>2. QED
    BY <1>7, <2>1
<1>10. QED
  BY <1>4, <1>7, <1>8, <1>9 DEF all

LEMMA PartsAreTexts ==
    ASSUME NEW p \in Texts
    PROVE  /\ GetParent(p) \in Texts
           /\ Has(p, Sep) => GetName(p) \in Texts /\ GetExtension(p) \in Texts
<1>1. ASSUME Has(p, Sep)
      PROVE  /\ SubSeq(p, 1, LastPlace(p, Sep)) \in Texts
             /\ GetName(p) \in Texts
  <2>1. LastPlace(p, Sep) \in 0..Len(p)
    BY <1>1, LastPlaceOf, LenProperties DEF Texts
  <2>2. QED
    BY <2>1, Cut, Rest DEF Texts, GetName, Basename, Behind
<1>2. GetParent(p) \in Texts
  BY <1>1 DEF GetParent
<1>3. ASSUME Has(p, Sep) PROVE GetExtension(p) \in Texts
  <2> DEFINE q == GetName(p)
  <2>1. q \in Texts
    BY <1>1, <1>3
  <2> HIDE DEF q
  <2>2. CASE Has(q, Dot)
    <3>1. LastPlace(q, Dot) \in 0..Len(q)
      BY <2>1, <2>2, LastPlaceOf, LenProperties DEF Texts
    <3>2. Behind(q, Dot) \in Texts
      BY <2>1, <3>1, Rest DEF Texts, Behind
    <3>3. QED
      BY <2>2, <3>2 DEF q, GetExtension
  <2>3. CASE ~ Has(q, Dot)
    <3>1. <<>> \in Texts
      BY DEF Texts
    <3>2. QED
      BY <2>3, <3>1 DEF q, GetExtension
  <2>4. QED
    BY <2>2, <2>3
<1>4. QED
  BY <1>1, <1>2, <1>3

Faults == {"none", "null", "address", "wrapped", "overread", "pushstr"}

LEMMA ReturnTyped ==
    ASSUME TypeOK, NEW what, NEW argument, NEW result, NEW end \in Faults,
           end = "none" => result \in Texts, Returns(what, argument, result, end)
    PROVE  TypeOK'
<1>1. path' \in Paths
  BY PathsAre DEF Returns, TypeOK
<1>2. QED
  BY <1>1 DEF Returns, TypeOK, Faults

LEMMA PathsNext ==
    ASSUME TypeOK, [Next]_vars
    PROVE  TypeOK'
<1>0. path \in Texts /\ {"none", "null", "overread", "pushstr"} \subseteq Faults
  BY PathsAre DEF TypeOK, Faults
<1>1. ASSUME NEW p2 \in Pieces, Descend(p2) PROVE TypeOK'
  <2>1. p2 \in Texts
    BY PathNamesAssumption DEF Texts
  <2>2. Combine2(path, p2) \in Texts
    BY <1>0, <2>1, Combine2Text
  <2>3. Combine2Fault(path, p2) \in Faults
    BY <1>0 DEF Combine2Fault
  <2>4. QED
    BY <1>0, <1>1, <2>2, <2>3, ReturnTyped DEF Descend
<1>2. ASSUME NEW ps \in BoundedSeq(Pieces, MaxPieces - 1), DescendAll(ps) PROVE TypeOK'
  <2> DEFINE all == <<path>> \o ps
  <2>1. PICK zeroed \in BOOLEAN :
          Returns("Combine", ps, Combine(all, zeroed).path, Combine(all, zeroed).fault)
    BY <1>2 DEF DescendAll
  <2>2. all \in Seq(Texts) /\ all # <<>>
    BY <1>0, PiecesJoin
  <2> HIDE DEF all
  <2>3. Combine(all, zeroed) \in Combined
    BY <2>2, CombineTyped
  <2>4. Combine(all, zeroed).path \in Texts /\ Combine(all, zeroed).fault \in Faults
    BY <1>0, <2>3 DEF Combined
  <2>5. QED
    BY <2>1, <2>4, ReturnTyped
<1>3. CASE Ascend
  BY <1>0, <1>3, PartsAreTexts, ReturnTyped DEF Ascend
<1>4. CASE TakeName
  <2> DEFINE result == IF Has(path, Sep) THEN GetName(path) ELSE <<>>
  <2>1. result \in Texts
    BY <1>0, PartsAreTexts DEF Texts
  <2>2. GetNameFault(path) \in Faults
    BY DEF GetNameFault, BasenameFault, Faults
  <2>3. Returns("GetName", <<>>, result, GetNameFault(path))
    BY <1>4 DEF TakeName
  <2> HIDE DEF result
  <2>4. QED
    BY <2>1, <2>2, <2>3, ReturnTyped
<1>5. CASE TakeExtension
  <2> DEFINE result == IF Has(path, Sep) THEN GetExtension(path) ELSE <<>>
  <2>1. result \in Texts
    BY <1>0, PartsAreTexts DEF Texts
  <2>2. GetNameFault(path) \in Faults
    BY DEF GetNameFault, BasenameFault, Faults
  <2>3. Returns("GetExtension", <<>>, result, GetNameFault(path))
    BY <1>5 DEF TakeExtension
  <2> HIDE DEF result
  <2>4. QED
    BY <2>1, <2>2, <2>3, ReturnTyped
<1>6. CASE AskHasExtension
  <2>1. BasenameFault(path) \in Faults
    BY DEF BasenameFault, Faults
  <2>2. QED
    BY <1>0, <1>6, <2>1, ReturnTyped DEF AskHasExtension
<1>7. CASE AskIsDir
  <2>1. (IF path = <<>> THEN "overread" ELSE "none") \in Faults
    BY <1>0
  <2>2. QED
    BY <1>0, <1>7, <2>1, ReturnTyped DEF AskIsDir
<1>8. ASSUME NEW found \in Places, Locate(found) PROVE TypeOK'
  <2>1. found \in Texts
    BY PathNamesAssumption DEF Texts
  <2>2. QED
    BY <1>0, <1>8, <2>1, ReturnTyped DEF Locate
<1>9. CASE UNCHANGED vars
  BY <1>9 DEF vars, TypeOK
<1>10. QED
  BY <1>1, <1>2, <1>3, <1>4, <1>5, <1>6, <1>7, <1>8, <1>9 DEF Next

(***************************************************************************)
(* Whatever is combined, taken apart or asked of the system, a program     *)
(* never holds anything but a path of this system.                         *)
(***************************************************************************)
THEOREM PathsTypeCorrect == Spec => []TypeOK
<1>1. Init => TypeOK
  BY DEF Init, TypeOK
<1>2. TypeOK /\ [Next]_vars => TypeOK'
  BY PathsNext
<1>3. QED
  BY <1>1, <1>2, PTL DEF Spec

-----------------------------------------------------------------------------
(* Going up and down.                                                      *)
LEMMA PlainName ==
    ASSUME NEW p2 \in Texts, ~ Has(p2, Sep)
    PROVE  /\ Offset(p2) = 0 /\ SubSeq(p2, Offset(p2) + 1, Len(p2)) = p2
           /\ \A p1 : Combine2Fault(p1, p2) = "none"
<1>1. Len(p2) \in Nat /\ DOMAIN p2 = 1..Len(p2)
  BY LenProperties DEF Texts
<1>2. \A i \in 1..Len(p2) : p2[i] # Sep
  BY <1>1 DEF Has
<1>3. ~ IsRelative(p2)
  <2>1. Len(p2) > 1 => 2 \in 1..Len(p2)
    BY <1>1
  <2>2. QED
    BY <1>2, <2>1 DEF IsRelative
<1>4. ~ IsAbsolute(p2)
  <2>1. p2 # <<>> => 1 \in 1..Len(p2)
    BY EmptySeq DEF Texts
  <2>2. QED
    BY <1>2, <2>1 DEF IsAbsolute
<1>5. Offset(p2) = 0
  BY <1>3, <1>4 DEF Offset
<1>6. SubSeq(p2, 1, Len(p2)) = p2
  BY SubSeqFull DEF Texts
<1>7. ASSUME NEW p1 PROVE Combine2Fault(p1, p2) = "none"
  <2>1. p2 # <<>> => Len(p2) # 0
    BY EmptySeq DEF Texts
  <2>2. QED
    BY <1>5, <2>1 DEF Combine2Fault
<1>8. QED
  BY <1>5, <1>6, <1>7

(* A path with its joint ends in a separator.                              *)
LEMMA Joined ==
    ASSUME NEW p1 \in Texts, p1 # <<>>
    PROVE  LET r == p1 \o Joint(p1)
           IN  /\ r \in Texts
               /\ Len(r) \in Nat \ {0}
               /\ r[Len(r)] = Sep
<1> DEFINE r == p1 \o Joint(p1)
<1>1. Len(p1) \in Nat \ {0}
  BY EmptySeq DEF Texts
<1>2. CASE IsDir(p1)
  <2>1. r = p1
    BY <1>2, ConcatEmptySeq DEF Joint, Texts
  <2>2. QED
    BY <1>1, <1>2, <2>1 DEF IsDir
<1>3. CASE ~ IsDir(p1)
  <2>1. /\ <<Sep>> \in Texts /\ Len(<<Sep>>) = 1 /\ <<Sep>>[1] = Sep
    BY DEF Texts, PathChars
  <2>2. r = p1 \o <<Sep>>
    BY <1>3 DEF Joint
  <2>3. /\ r \in Texts /\ Len(r) = Len(p1) + 1
        /\ \A i \in 1..(Len(p1) + 1) : r[i] = IF i <= Len(p1) THEN p1[i] ELSE <<Sep>>[i - Len(p1)]
    BY <2>1, <2>2, ConcatProperties DEF Texts
  <2> HIDE DEF r
  <2>4. r[Len(p1) + 1] = <<Sep>>[1]
    <3>1. Len(p1) + 1 \in 1..(Len(p1) + 1) /\ ~ (Len(p1) + 1 <= Len(p1))
          /\ (Len(p1) + 1) - Len(p1) = 1
      BY <1>1
    <3>2. QED
      BY <2>3, <3>1
  <2>5. QED
    BY <1>1, <2>1, <2>3, <2>4 DEF r
<1>4. QED
  BY <1>2, <1>3

LEMMA Halves ==
    ASSUME NEW S, NEW s \in Seq(S), NEW t \in Seq(S)
    PROVE  /\ SubSeq(s \o t, 1, Len(s)) = s
           /\ SubSeq(s \o t, Len(s) + 1, Len(s \o t)) = t
<1> DEFINE q == s \o t
           a == SubSeq(q, 1, Len(s))
           b == SubSeq(q, Len(s) + 1, Len(q))
<1>1. /\ q \in Seq(S) /\ Len(q) = Len(s) + Len(t)
      /\ \A i \in 1..(Len(s) + Len(t)) : q[i] = IF i <= Len(s) THEN s[i] ELSE t[i - Len(s)]
  BY ConcatProperties
<1>2. Len(s) \in Nat /\ Len(t) \in Nat
  BY LenProperties
<1> HIDE DEF q
<1>3. Len(s) \in 0..Len(q) /\ Len(q) - Len(s) = Len(t)
  BY <1>1, <1>2
<1>4. a \in Seq(S) /\ Len(a) = Len(s) /\ \A i \in 1..Len(s) : a[i] = q[i]
  BY <1>1, <1>3, Cut
<1>5. b \in Seq(S) /\ Len(b) = Len(t) /\ \A i \in 1..Len(t) : b[i] = q[Len(s) + i]
  BY <1>1, <1>3, Rest
<1> HIDE DEF a, b
<1>6. ASSUME NEW i \in 1..Len(s) PROVE a[i] = s[i]
  <2>1. i \in 1..(Len(s) + Len(t)) /\ i <= Len(s)
    BY <1>2
  <2>2. QED
    BY <1>1, <1>4, <2>1
<1>7. ASSUME NEW i \in 1..Len(t) PROVE b[i] = t[i]
  <2>1. Len(s) + i \in 1..(Len(s) + Len(t)) /\ ~ (Len(s) + i <= Len(s)) /\ (Len(s) + i) - Len(s) = i
    BY <1>2
  <2>2. QED
    BY <1>1, <1>5, <2>1
<1>8. a = s /\ b = t
  BY <1>4, <1>5, <1>6, <1>7, SeqEqual
<1>9. QED
  BY <1>8 DEF a, b, q

LEMMA DownAndUp ==
    ASSUME NEW p1 \in Texts, p1 # <<>>, NEW p2 \in Texts, p2 # <<>>, ~ Has(p2, Sep)
    PROVE  LET q == Combine2(p1, p2)
           IN  /\ GetNameFault(q) = "none"
               /\ GetName(q) = p2
               /\ GetParent(q) = p1 \o Joint(p1)
<1> DEFINE r == p1 \o Joint(p1)
           q == r \o p2
           n == Len(r)
<1>1. Combine2(p1, p2) = q
  BY PlainName DEF Combine2
<1>2. r \in Texts /\ n \in Nat \ {0} /\ r[n] = Sep
  BY Joined
<1> HIDE DEF r
<1>3. Len(p2) \in Nat \ {0} /\ DOMAIN p2 = 1..Len(p2)
  BY EmptySeq, LenProperties DEF Texts
<1>4. /\ q \in Texts /\ Len(q) = n + Len(p2)
      /\ \A i \in 1..(n + Len(p2)) : q[i] = IF i <= n THEN r[i] ELSE p2[i - n]
  BY <1>2, ConcatProperties DEF Texts
<1>5. SubSeq(q, 1, n) = r /\ SubSeq(q, n + 1, Len(q)) = p2
  BY <1>2, Halves DEF Texts
<1> HIDE DEF q
<1>6. ASSUME NEW j \in (n + 1)..Len(q) PROVE q[j] # Sep
  <2>1. j \in 1..(n + Len(p2)) /\ ~ (j <= n) /\ j - n \in 1..Len(p2)
    BY <1>2, <1>3, <1>4
  <2>2. QED
    BY <1>3, <1>4, <2>1 DEF Has
<1>7. n \in 1..Len(q) /\ q[n] = Sep
  BY <1>2, <1>3, <1>4
<1>8. LastPlace(q, Sep) = n
  BY <1>4, <1>6, <1>7, LastPlaceIs DEF Texts
<1>9. Has(q, Sep)
  BY <1>4, <1>7, LenProperties DEF Has, Texts
<1>10. ~ IsDir(q)
  <2>1. Len(q) \in (n + 1)..Len(q)
    BY <1>2, <1>3, <1>4
  <2>2. QED
    BY <1>6, <2>1 DEF IsDir
<1>11. GetNameFault(q) = "none"
  BY <1>9, <1>10 DEF GetNameFault
<1>12. GetName(q) = p2
  BY <1>5, <1>8 DEF GetName, Basename, Behind
<1>13. GetParent(q) = r
  BY <1>2, <1>3, <1>4, <1>5, <1>8, <1>9 DEF GetParent
<1>14. QED
  BY <1>1, <1>11, <1>12, <1>13 DEF r

LEMMA SuffixFrom ==
    ASSUME NEW S, NEW s \in Seq(S), NEW p \in Seq(S), Len(s) <= Len(p),
           \A i \in 1..Len(s) : p[(Len(p) - Len(s)) + i] = s[i]
    PROVE  IsSuffix(s, p)
<1> DEFINE a == Reverse(s)
           b == Reverse(p)
           m == Len(s)
<1>1. m \in Nat /\ Len(p) \in Nat /\ m <= Len(p)
  BY LenProperties
<1>2. a \in Seq(S) /\ Len(a) = m /\ \A i \in 1..m : a[i] = s[m - i + 1]
  <2>1. \A i \in 1..m : m - i + 1 \in 1..m
    BY <1>1
  <2>2. a \in [1..m -> S]
    BY <2>1, ElementOfSeq DEF Reverse
  <2>3. \A i \in 1..m : a[i] = s[m - i + 1]
    BY DEF Reverse
  <2> HIDE DEF a
  <2>4. QED
    BY <1>1, <2>2, <2>3, FunctionIsSeq
<1>3. b \in Seq(S) /\ Len(b) = Len(p) /\ \A i \in 1..Len(p) : b[i] = p[Len(p) - i + 1]
  <2>1. \A i \in 1..Len(p) : Len(p) - i + 1 \in 1..Len(p)
    BY <1>1
  <2>2. b \in [1..Len(p) -> S]
    BY <2>1, ElementOfSeq DEF Reverse
  <2>3. \A i \in 1..Len(p) : b[i] = p[Len(p) - i + 1]
    BY DEF Reverse
  <2> HIDE DEF b
  <2>4. QED
    BY <1>1, <2>2, <2>3, FunctionIsSeq
<1> HIDE DEF a, b
<1> DEFINE c == SubSeq(b, 1, m)
<1>4. c \in Seq(S) /\ Len(c) = m /\ \A i \in 1..m : c[i] = b[i]
  <2>1. m \in 0..Len(b)
    BY <1>1, <1>3
  <2>2. QED
    BY <1>3, <2>1, Cut
<1> HIDE DEF c
<1>5. ASSUME NEW i \in 1..m PROVE a[i] = c[i]
  <2>1. m - i + 1 \in 1..m /\ i \in 1..Len(p)
        /\ (Len(p) - m) + (m - i + 1) = Len(p) - i + 1
    BY <1>1
  <2>2. QED
    BY <1>2, <1>3, <1>4, <2>1
<1>6. a = c
  BY <1>2, <1>4, <1>5, SeqEqual
<1>7. SubSeq(a, 1, Len(a)) = a
  BY <1>2, SubSeqFull
<1>8. QED
  BY <1>1, <1>2, <1>3, <1>6, <1>7 DEF IsSuffix, IsPrefix, a, b, c

(* A text that ends in the rest of it behind the last dot.                 *)
LEMMA DottedEnd ==
    ASSUME NEW p \in Texts, NEW k \in 0..Len(p), NEW q \in Texts, Has(q, Dot),
           Len(q) = Len(p) - k, \A i \in 1..(Len(p) - k) : q[i] = p[k + i]
    PROVE  /\ ~ Has(Behind(q, Dot), Dot)
           /\ IsSuffix(<<Dot>> \o Behind(q, Dot), p)
<1> DEFINE d == LastPlace(q, Dot)
           e == Behind(q, Dot)
           s == <<Dot>> \o e
<1>1. /\ Len(p) \in Nat /\ Len(q) = Len(p) - k /\ k \in Nat
      /\ \A i \in 1..(Len(p) - k) : q[i] = p[k + i]
  BY LenProperties DEF Texts
<1>2. d \in 1..Len(q) /\ q[d] = Dot /\ \A j \in (d + 1)..Len(q) : q[j] # Dot
  BY LastPlaceOf DEF Texts
<1> HIDE DEF d
<1>3. d \in Nat /\ d \in 0..Len(q)
  BY <1>1, <1>2
<1>4. e = SubSeq(q, d + 1, Len(q))
  BY DEF Behind, d
<1>5. ~ Has(e, Dot)
  <2>1. Has(SubSeq(q, d + 1, Len(q)), Dot) <=> \E j \in (d + 1)..Len(q) : q[j] = Dot
    BY <1>3, HasBehind DEF Texts
  <2> HIDE DEF e
  <2>2. QED
    BY <1>2, <1>4, <2>1
<1>6. e \in Texts /\ Len(e) = Len(q) - d /\ \A i \in 1..(Len(q) - d) : e[i] = q[d + i]
  BY <1>1, <1>3, <1>4, Rest DEF Texts
<1> HIDE DEF e
<1>7. /\ <<Dot>> \in Texts /\ Len(<<Dot>>) = 1 /\ <<Dot>>[1] = Dot
  BY DEF Texts, PathChars
<1>8. /\ s \in Texts /\ Len(s) = 1 + Len(e)
      /\ \A i \in 1..(1 + Len(e)) : s[i] = IF i <= 1 THEN <<Dot>>[i] ELSE e[i - 1]
  BY <1>6, <1>7, ConcatProperties DEF Texts
<1> HIDE DEF s
<1>9. Len(s) <= Len(p) /\ (Len(p) - Len(s)) = k + d - 1
  BY <1>1, <1>2, <1>3, <1>6, <1>8
<1>10. ASSUME NEW i \in 1..Len(s) PROVE p[(Len(p) - Len(s)) + i] = s[i]
  <2>1. /\ (Len(p) - Len(s)) + i = k + (d + (i - 1))
        /\ d + (i - 1) \in 1..(Len(p) - k)
        /\ i \in 1..(1 + Len(e))
    BY <1>1, <1>2, <1>3, <1>6, <1>8, <1>9
  <2>2. p[(Len(p) - Len(s)) + i] = q[d + (i - 1)]
    BY <1>1, <2>1
  <2>3. CASE i = 1
    <3>1. d + (i - 1) = d /\ i <= 1
      BY <1>3, <2>3
    <3>2. s[i] = Dot
      BY <1>7, <1>8, <2>1, <2>3, <3>1
    <3>3. QED
      BY <1>2, <2>2, <3>1, <3>2
  <2>4. CASE i # 1
    <3>1. ~ (i <= 1) /\ i - 1 \in 1..(Len(q) - d)
      BY <1>1, <1>2, <1>3, <1>6, <2>1, <2>4
    <3>2. s[i] = q[d + (i - 1)]
      BY <1>6, <1>8, <2>1, <3>1
    <3>3. QED
      BY <2>2, <3>2
  <2>5. QED
    BY <2>3, <2>4
<1>11. IsSuffix(s, p)
  BY <1>8, <1>9, <1>10, SuffixFrom DEF Texts
<1>12. QED
  BY <1>5, <1>11 DEF s, e

LEMMA SplitsAndJoins ==
    ASSUME NEW p \in Texts, GetNameFault(p) = "none"
    PROVE  /\ Combine2(GetParent(p), GetName(p)) = p
           /\ Combine2Fault(GetParent(p), GetName(p)) = "none"
           /\ HasExtension(p) => /\ ~ Has(GetExtension(p), Dot)
                                 /\ IsSuffix(<<Dot>> \o GetExtension(p), p)
           /\ ~ HasExtension(p) => GetExtension(p) = <<>>
<1> DEFINE k == LastPlace(p, Sep)
           a == SubSeq(p, 1, k)
           q == GetName(p)
<1>1. Len(p) \in Nat /\ DOMAIN p = 1..Len(p)
  BY LenProperties DEF Texts
<1>2. Has(p, Sep) /\ p[Len(p)] # Sep
  BY DEF GetNameFault, BasenameFault, IsDir
<1>3. k \in 1..Len(p) /\ p[k] = Sep /\ \A j \in (k + 1)..Len(p) : p[j] # Sep
  BY <1>2, LastPlaceOf DEF Texts
<1> HIDE DEF k
<1>4. k \in 0..Len(p) /\ k < Len(p) /\ Len(p) # 1
  BY <1>1, <1>2, <1>3
<1>5. GetParent(p) = a /\ q = SubSeq(p, k + 1, Len(p))
  BY <1>2, <1>4 DEF GetParent, GetName, Basename, Behind, k
<1> HIDE DEF q
<1>6. a \in Texts /\ Len(a) = k /\ \A i \in 1..k : a[i] = p[i]
  BY <1>4, Cut DEF Texts
<1>7. /\ q \in Texts /\ Len(q) = Len(p) - k /\ p = a \o q
      /\ \A i \in 1..(Len(p) - k) : q[i] = p[k + i]
  BY <1>4, <1>5, Rest DEF Texts
<1>8. ~ Has(q, Sep)
  BY <1>3, <1>4, <1>5, HasBehind DEF Texts
<1> HIDE DEF a
<1>9. a # <<>> /\ q # <<>>
  BY <1>1, <1>3, <1>4, <1>6, <1>7, EmptySeq DEF Texts
<1>10. Joint(a) = <<>>
  BY <1>1, <1>3, <1>6 DEF Joint, IsDir
<1>11. Combine2(a, q) = p /\ Combine2Fault(a, q) = "none"
  <2>1. SubSeq(q, Offset(q) + 1, Len(q)) = q
    BY <1>7, <1>8, PlainName
  <2>2. a \o <<>> = a
    BY <1>6, ConcatEmptySeq DEF Texts
  <2>3. Combine2Fault(a, q) = "none"
    BY <1>7, <1>8, PlainName
  <2>4. QED
    BY <1>7, <1>9, <1>10, <2>1, <2>2, <2>3 DEF Combine2
<1>12. q = Basename(p) /\ q = GetName(p)
  BY DEF q, GetName
<1>13. HasExtension(p) => /\ ~ Has(GetExtension(p), Dot)
                          /\ IsSuffix(<<Dot>> \o GetExtension(p), p)
  BY <1>4, <1>7, <1>12, DottedEnd DEF HasExtension, GetExtension
<1>14. ~ HasExtension(p) => GetExtension(p) = <<>>
  BY <1>12 DEF HasExtension, GetExtension
<1>15. QED
  BY <1>5, <1>11, <1>12, <1>13, <1>14

(***************************************************************************)
(* However a path came about, if asking for its name does not fail, its    *)
(* parent and its name combine to it, and its extension is the end of it.  *)
(***************************************************************************)
THEOREM SplitJoinsAlways == Spec => []SplitJoins
<1>1. TypeOK => SplitJoins
  BY PathsAre, SplitsAndJoins DEF TypeOK, SplitJoins
<1>2. QED
  BY <1>1, PathsTypeCorrect, PTL

LEMMA Combine2Only ==
    ASSUME [Next]_vars, call'[1] = "Combine2"
    PROVE  \/ UNCHANGED vars
           \/ \E p2 \in Pieces : /\ path' = Combine2(path, p2)
                                 /\ call' = <<"Combine2", path, p2>>
                                 /\ fault' = "none"
           \/ \E p2 \in Pieces : /\ Combine2Fault(path, p2) = "pushstr"
                                 /\ call' = <<"Combine2", path, p2>>
                                 /\ fault' = "pushstr"
<1>1. ASSUME NEW p2 \in Pieces, Descend(p2)
      PROVE  /\ call' = <<"Combine2", path, p2>>
             /\ \/ path' = Combine2(path, p2) /\ fault' = "none"
                \/ Combine2Fault(path, p2) = "pushstr" /\ fault' = "pushstr"
  <2>1. Combine2Fault(path, p2) \in {"none", "pushstr"}
    BY DEF Combine2Fault
  <2>2. /\ call' = <<"Combine2", path, p2>> /\ fault' = Combine2Fault(path, p2)
        /\ Combine2Fault(path, p2) = "none" => path' = Combine2(path, p2)
    BY <1>1 DEF Descend, Returns
  <2>3. QED
    BY <2>1, <2>2
<1>2. ASSUME NEW what, NEW argument, NEW result, NEW end, what # "Combine2",
             Returns(what, argument, result, end)
      PROVE  FALSE
  BY <1>2 DEF Returns
<1>3. ASSUME NEW ps, DescendAll(ps) PROVE FALSE
  BY <1>2, <1>3 DEF DescendAll
<1>4. ~ Ascend /\ ~ TakeName /\ ~ TakeExtension /\ ~ AskHasExtension /\ ~ AskIsDir
  BY <1>2 DEF Ascend, TakeName, TakeExtension, AskHasExtension, AskIsDir
<1>5. ASSUME NEW found, Locate(found) PROVE FALSE
  BY <1>2, <1>5 DEF Locate
<1>6. QED
  BY <1>1, <1>3, <1>4, <1>5 DEF Next

LEMMA UpUndoesDownNext ==
    ASSUME TypeOK, UpUndoesDown, [Next]_vars
    PROVE  UpUndoesDown'
<1> SUFFICES ASSUME call'[1] = "Combine2", call'[2] # <<>>, call'[3] # <<>>, ~ Has(call'[3], Sep)
             PROVE  /\ fault' = "none" /\ GetNameFault(path') = "none"
                    /\ GetName(path') = call'[3]
                    /\ GetParent(path') = call'[2] \o Joint(call'[2])
  BY DEF UpUndoesDown
<1>1. CASE UNCHANGED vars
  BY <1>1 DEF vars, UpUndoesDown
<1>2. ASSUME NEW p2 \in Pieces, path' = Combine2(path, p2), call' = <<"Combine2", path, p2>>,
             fault' = "none"
      PROVE  /\ GetNameFault(path') = "none"
             /\ GetName(path') = call'[3]
             /\ GetParent(path') = call'[2] \o Joint(call'[2])
  <2>1. call'[2] = path /\ call'[3] = p2
    BY <1>2
  <2>2. path \in Texts /\ path # <<>> /\ p2 \in Texts /\ p2 # <<>> /\ ~ Has(p2, Sep)
    BY <2>1, PathsAre, PathNamesAssumption DEF TypeOK, Texts
  <2>3. QED
    BY <1>2, <2>1, <2>2, DownAndUp
<1>3. ASSUME NEW p2 \in Pieces, Combine2Fault(path, p2) = "pushstr", call' = <<"Combine2", path, p2>>
      PROVE  FALSE
  <2>1. p2 \in Texts /\ ~ Has(p2, Sep)
    BY <1>3, PathNamesAssumption DEF Texts
  <2>2. QED
    BY <1>3, <2>1, PlainName
<1>4. QED
  BY <1>1, <1>2, <1>3, Combine2Only

(***************************************************************************)
(* Going down by any one name from any path, and up again, ends where it   *)
(* began, and the name is the one that was given.                          *)
(***************************************************************************)
THEOREM UpUndoesDownAlways == Spec => []UpUndoesDown
<1>1. Init => TypeOK /\ UpUndoesDown
  BY DEF Init, TypeOK, UpUndoesDown
<1>2. TypeOK /\ UpUndoesDown /\ [Next]_vars => TypeOK' /\ UpUndoesDown'
  BY PathsNext, UpUndoesDownNext
<1>3. QED
  BY <1>1, <1>2, PTL DEF Spec

-----------------------------------------------------------------------------
(* Names in a row.                                                         *)
LEMMA NamesRow ==
    ASSUME NEW s \in Seq(Texts), NEW t \in Seq(Texts), NEW u \in Seq(Texts)
    PROVE  (s \o t) \o u = s \o (t \o u)
BY ConcatAssociative

LEMMA NamesJoin ==
    ASSUME NEW s \in Seq(Texts), NEW t \in Seq(Texts)
    PROVE  s \o t \in Seq(Texts) /\ s \o <<>> = s /\ <<>> \o s = s
BY ConcatProperties, ConcatEmptySeq

(* Reading a path: f holds what has been read after each character.        *)
ReadSoFar == [names : Seq(Texts), open : Texts]

NothingRead == [names |-> <<>>, open |-> <<>>]

IsReading(f, p, n) ==
    f = [k \in 0..n |-> IF k = 0 THEN NothingRead ELSE ReadChar(f[k - 1], p[k])]

LEMMA ReadingsExist ==
    ASSUME NEW p, NEW n \in Nat
    PROVE  \E f : IsReading(f, p, n)
<1> DEFINE S == {k \in 0..n : \E f : IsReading(f, p, k)}
<1>1. 0 \in S
  <2> DEFINE f == [k \in 0..0 |-> NothingRead]
  <2>1. f = [k \in 0..0 |-> IF k = 0 THEN NothingRead ELSE ReadChar(f[k - 1], p[k])]
    OBVIOUS
  <2> HIDE DEF f
  <2>2. IsReading(f, p, 0)
    BY <2>1 DEF IsReading
  <2>3. QED
    BY <2>2
<1>2. ASSUME NEW k \in 0..(n - 1), k \in S PROVE k + 1 \in S
  <2>1. PICK f : IsReading(f, p, k)
    BY <1>2
  <2> DEFINE g == [i \in 0..(k + 1) |-> IF i <= k THEN f[i] ELSE ReadChar(f[k], p[k + 1])]
  <2>2. ASSUME NEW i \in 0..(k + 1)
        PROVE  g[i] = IF i = 0 THEN NothingRead ELSE ReadChar(g[i - 1], p[i])
    <3>1. CASE i <= k
      <4>1. i \in 0..k /\ (i # 0 => i - 1 \in 0..(k + 1) /\ i - 1 <= k)
        BY <3>1
      <4>2. f[i] = IF i = 0 THEN NothingRead ELSE ReadChar(f[i - 1], p[i])
        BY <2>1, <4>1 DEF IsReading
      <4>3. g[i] = f[i] /\ (i # 0 => g[i - 1] = f[i - 1])
        BY <3>1, <4>1
      <4> HIDE DEF g
      <4>4. QED
        BY <4>2, <4>3
    <3>2. CASE i = k + 1
      <4>1. ~ (i <= k) /\ i # 0 /\ i - 1 = k /\ k \in 0..(k + 1) /\ k <= k
        BY <3>2
      <4>2. g[i] = ReadChar(f[k], p[k + 1]) /\ g[k] = f[k]
        BY <4>1
      <4> HIDE DEF g
      <4>3. QED
        BY <3>2, <4>1, <4>2
    <3>3. QED
      BY <3>1, <3>2
  <2>3. g = [i \in 0..(k + 1) |-> g[i]]
    OBVIOUS
  <2> HIDE DEF g
  <2>4. g = [i \in 0..(k + 1) |-> IF i = 0 THEN NothingRead ELSE ReadChar(g[i - 1], p[i])]
    BY <2>2, <2>3
  <2>5. IsReading(g, p, k + 1)
    BY <2>4 DEF IsReading
  <2>6. QED
    BY <2>5
<1> HIDE DEF S
<1>3. 0..n \subseteq S
  BY <1>1, <1>2, UpTo
<1>4. QED
  BY <1>3 DEF S

LEMMA ReadingIs ==
    ASSUME NEW p, Len(p) \in Nat
    PROVE  \E f : IsReading(f, p, Len(p)) /\ Reading(p) = f[Len(p)]
<1> DEFINE f == CHOOSE f : IsReading(f, p, Len(p))
<1>1. Reading(p) = f[Len(p)]
  BY DEF Reading, IsReading, NothingRead
<1>2. IsReading(f, p, Len(p))
  BY ReadingsExist
<1>3. QED
  BY <1>1, <1>2

(* What has been read after k characters depends on no others.             *)
LEMMA SameReading ==
    ASSUME NEW p, NEW q, NEW m \in Nat, NEW n \in Nat, NEW f, NEW g,
           IsReading(f, p, m), IsReading(g, q, n),
           NEW k \in Nat, k <= m, k <= n, \A i \in 1..k : p[i] = q[i]
    PROVE  f[k] = g[k]
<1> DEFINE S == {i \in 0..k : f[i] = g[i]}
<1>1. 0 \in S
  <2>1. f[0] = NothingRead /\ g[0] = NothingRead
    BY DEF IsReading
  <2>2. QED
    BY <2>1
<1>2. ASSUME NEW i \in 0..(k - 1), i \in S PROVE i + 1 \in S
  <2>1. i + 1 \in 1..k /\ i + 1 \in 0..m /\ i + 1 \in 0..n /\ i + 1 # 0 /\ (i + 1) - 1 = i
    OBVIOUS
  <2>2. f[i + 1] = ReadChar(f[i], p[i + 1]) /\ g[i + 1] = ReadChar(g[i], q[i + 1])
    BY <2>1 DEF IsReading
  <2>3. f[i] = g[i] /\ p[i + 1] = q[i + 1]
    BY <1>2, <2>1
  <2>4. QED
    BY <2>1, <2>2, <2>3
<1> HIDE DEF S
<1>3. 0..k \subseteq S
  BY <1>1, <1>2, UpTo
<1>4. QED
  BY <1>3 DEF S

(* Reading a path character by character.                                  *)
LEMMA ReadingSteps ==
    ASSUME NEW p \in Texts
    PROVE  \E f : /\ f[0] = NothingRead
                  /\ \A k \in 0..Len(p) : Reading(SubSeq(p, 1, k)) = f[k]
                  /\ \A k \in 0..(Len(p) - 1) : f[k + 1] = ReadChar(f[k], p[k + 1])
<1>1. Len(p) \in Nat
  BY LenProperties DEF Texts
<1>2. PICK f : IsReading(f, p, Len(p))
  BY <1>1, ReadingsExist
<1>3. f[0] = NothingRead
  BY <1>1, <1>2 DEF IsReading
<1>4. ASSUME NEW k \in 0..(Len(p) - 1) PROVE f[k + 1] = ReadChar(f[k], p[k + 1])
  <2>1. k + 1 \in 0..Len(p) /\ k + 1 # 0 /\ (k + 1) - 1 = k
    BY <1>1
  <2>2. QED
    BY <1>2, <2>1 DEF IsReading
<1>5. ASSUME NEW k \in 0..Len(p) PROVE Reading(SubSeq(p, 1, k)) = f[k]
  <2> DEFINE q == SubSeq(p, 1, k)
  <2>1. q \in Texts /\ Len(q) = k /\ \A i \in 1..k : q[i] = p[i]
    BY Cut DEF Texts
  <2>2. k \in Nat /\ k <= Len(p) /\ k <= k
    BY <1>1
  <2> HIDE DEF q
  <2>3. PICK g : IsReading(g, q, k) /\ Reading(q) = g[k]
    BY <2>1, <2>2, ReadingIs
  <2>4. g[k] = f[k]
    BY <1>1, <1>2, <2>1, <2>2, <2>3, SameReading
  <2>5. QED
    BY <2>3, <2>4 DEF q
<1>6. QED
  BY <1>3, <1>4, <1>5

LEMMA KeptTyped ==
    ASSUME NEW t \in Texts
    PROVE  Kept(t) \in Seq(Texts)
BY DEF Kept

LEMMA ReadCharTyped ==
    ASSUME NEW r \in ReadSoFar, NEW c \in PathChars
    PROVE  ReadChar(r, c) \in ReadSoFar
<1>1. r.names \in Seq(Texts) /\ r.open \in Texts
  BY DEF ReadSoFar
<1>2. CASE c = Sep
  <2>1. r.names \o Kept(r.open) \in Seq(Texts) /\ <<>> \in Texts
    BY <1>1, KeptTyped, ConcatProperties DEF Texts
  <2>2. QED
    BY <1>2, <2>1 DEF ReadChar, ReadSoFar
<1>3. CASE c # Sep
  <2>1. Append(r.open, c) \in Texts
    BY <1>1, AppendProperties DEF Texts
  <2>2. QED
    BY <1>1, <1>3, <2>1 DEF ReadChar, ReadSoFar
<1>4. QED
  BY <1>2, <1>3

LEMMA ReadingTyped ==
    ASSUME NEW p \in Texts
    PROVE  Reading(p) \in ReadSoFar
<1>1. Len(p) \in Nat /\ \A k \in 1..Len(p) : p[k] \in PathChars
  BY LenProperties, ElementOfSeq DEF Texts
<1>2. PICK f : /\ f[0] = NothingRead
               /\ \A k \in 0..Len(p) : Reading(SubSeq(p, 1, k)) = f[k]
               /\ \A k \in 0..(Len(p) - 1) : f[k + 1] = ReadChar(f[k], p[k + 1])
  BY ReadingSteps
<1> DEFINE S == {k \in 0..Len(p) : f[k] \in ReadSoFar}
<1>3. 0 \in S
  <2>1. NothingRead \in ReadSoFar
    BY DEF NothingRead, ReadSoFar, Texts
  <2>2. QED
    BY <1>1, <1>2, <2>1
<1>4. ASSUME NEW k \in 0..(Len(p) - 1), k \in S PROVE k + 1 \in S
  <2>1. k + 1 \in 1..Len(p) /\ k + 1 \in 0..Len(p)
    BY <1>1
  <2>2. QED
    BY <1>1, <1>2, <1>4, <2>1, ReadCharTyped
<1> HIDE DEF S
<1>5. 0..Len(p) \subseteq S
  BY <1>1, <1>3, <1>4, UpTo
<1>6. f[Len(p)] \in ReadSoFar
  BY <1>1, <1>5 DEF S
<1>7. SubSeq(p, 1, Len(p)) = p /\ Len(p) \in 0..Len(p)
  BY <1>1, SubSeqFull DEF Texts
<1>8. Reading(SubSeq(p, 1, Len(p))) = f[Len(p)]
  BY <1>2, <1>7
<1>9. QED
  BY <1>6, <1>7, <1>8

LEMMA NamesTyped ==
    ASSUME NEW p \in Texts
    PROVE  Names(p) \in Seq(Texts)
<1>1. Reading(p).names \in Seq(Texts) /\ Kept(Reading(p).open) \in Seq(Texts)
  BY ReadingTyped, KeptTyped DEF ReadSoFar
<1>2. QED
  BY <1>1, ConcatProperties DEF Names

(* One character read behind others that ended a name.                     *)
LEMMA ReadCharBehind ==
    ASSUME NEW before \in Seq(Texts), NEW r \in ReadSoFar, NEW c \in PathChars
    PROVE  ReadChar([names |-> before \o r.names, open |-> r.open], c) =
             [names |-> before \o ReadChar(r, c).names, open |-> ReadChar(r, c).open]
<1>1. r.names \in Seq(Texts) /\ r.open \in Texts
  BY DEF ReadSoFar
<1>2. CASE c = Sep
  <2>1. Kept(r.open) \in Seq(Texts)
    BY <1>1, KeptTyped
  <2>2. (before \o r.names) \o Kept(r.open) = before \o (r.names \o Kept(r.open))
    BY <1>1, <2>1, NamesRow, Zenon
  <2>3. QED
    BY <1>2, <2>2 DEF ReadChar
<1>3. CASE c # Sep
  BY <1>3 DEF ReadChar, ReadSoFar
<1>4. QED
  BY <1>2, <1>3

(* What is read behind the end of a name is read as if it stood alone.     *)
LEMMA ReadingJoins ==
    ASSUME NEW a \in Texts, NEW b \in Texts, Reading(a).open = <<>>
    PROVE  /\ Reading(a \o b).names = Reading(a).names \o Reading(b).names
           /\ Reading(a \o b).open = Reading(b).open
<1> DEFINE q == a \o b
           n == Len(a)
           m == Len(b)
           before == Reading(a).names
<1>1. n \in Nat /\ m \in Nat /\ \A k \in 1..m : b[k] \in PathChars
  BY LenProperties, ElementOfSeq DEF Texts
<1>2. /\ q \in Texts /\ Len(q) = n + m
      /\ \A i \in 1..(n + m) : q[i] = IF i <= n THEN a[i] ELSE b[i - n]
  BY ConcatProperties DEF Texts
<1>3. SubSeq(q, 1, n) = a
  BY Halves DEF Texts
<1>4. SubSeq(q, 1, Len(q)) = q
  BY <1>2, SubSeqFull DEF Texts
<1>5. SubSeq(b, 1, m) = b
  BY SubSeqFull DEF Texts
<1> HIDE DEF q
<1>6. PICK f : /\ f[0] = NothingRead
               /\ \A k \in 0..Len(q) : Reading(SubSeq(q, 1, k)) = f[k]
               /\ \A k \in 0..(Len(q) - 1) : f[k + 1] = ReadChar(f[k], q[k + 1])
  BY <1>2, ReadingSteps
<1>7. PICK g : /\ g[0] = NothingRead
               /\ \A k \in 0..Len(b) : Reading(SubSeq(b, 1, k)) = g[k]
               /\ \A k \in 0..(Len(b) - 1) : g[k + 1] = ReadChar(g[k], b[k + 1])
  BY ReadingSteps
<1>8. before \in Seq(Texts) /\ Reading(a) \in ReadSoFar /\ Reading(a) = [names |-> before, open |-> <<>>]
  <2>1. Reading(a) \in ReadSoFar
    BY ReadingTyped
  <2>2. QED
    BY <2>1 DEF ReadSoFar
<1>9. ASSUME NEW k \in 0..m PROVE g[k] \in ReadSoFar
  <2>1. SubSeq(b, 1, k) \in Texts
    BY Cut DEF Texts
  <2>2. Reading(SubSeq(b, 1, k)) \in ReadSoFar
    BY <2>1, ReadingTyped
  <2>3. QED
    BY <1>7, <2>2
<1>10. f[n] = Reading(a)
  <2>1. n \in 0..Len(q)
    BY <1>1, <1>2
  <2>2. QED
    BY <1>3, <1>6, <2>1
<1> HIDE DEF before
<1> DEFINE S == {k \in 0..m : f[n + k] = [names |-> before \o g[k].names, open |-> g[k].open]}
<1>11. 0 \in S
  <2>1. n + 0 = n /\ 0 \in 0..m
    BY <1>1
  <2>2. g[0].names = <<>> /\ g[0].open = <<>>
    BY <1>7 DEF NothingRead
  <2>3. before \o <<>> = before
    BY <1>8, ConcatEmptySeq
  <2>4. QED
    BY <1>8, <1>10, <2>1, <2>2, <2>3
<1>12. ASSUME NEW k \in 0..(m - 1), k \in S PROVE k + 1 \in S
  <2>1. /\ n + k \in 0..(Len(q) - 1) /\ (n + k) + 1 = n + (k + 1)
        /\ k + 1 \in 1..m /\ k \in 0..m /\ k + 1 \in 0..m
        /\ n + (k + 1) \in 1..(n + m) /\ ~ (n + (k + 1) <= n) /\ (n + (k + 1)) - n = k + 1
    BY <1>1, <1>2
  <2>2. q[n + (k + 1)] = b[k + 1]
    BY <1>2, <2>1
  <2>3. f[n + (k + 1)] = ReadChar(f[n + k], b[k + 1])
    BY <1>6, <2>1, <2>2
  <2>4. g[k + 1] = ReadChar(g[k], b[k + 1])
    BY <1>7
  <2>5. f[n + k] = [names |-> before \o g[k].names, open |-> g[k].open]
    BY <1>12
  <2>6. ReadChar([names |-> before \o g[k].names, open |-> g[k].open], b[k + 1]) =
          [names |-> before \o ReadChar(g[k], b[k + 1]).names, open |-> ReadChar(g[k], b[k + 1]).open]
    BY <1>1, <1>8, <1>9, <2>1, ReadCharBehind
  <2>7. f[n + (k + 1)] = [names |-> before \o g[k + 1].names, open |-> g[k + 1].open]
    BY <2>3, <2>4, <2>5, <2>6
  <2>8. QED
    BY <2>1, <2>7
<1> HIDE DEF S
<1>13. 0..m \subseteq S
  BY <1>1, <1>11, <1>12, UpTo
<1>14. m \in 0..m
  BY <1>1
<1>15. f[n + m] = [names |-> before \o g[m].names, open |-> g[m].open]
  BY <1>13, <1>14 DEF S
<1>16. f[n + m] = Reading(q) /\ g[m] = Reading(b)
  <2>1. n + m \in 0..Len(q) /\ m \in 0..Len(b)
    BY <1>1, <1>2
  <2>2. QED
    BY <1>2, <1>4, <1>5, <1>6, <1>7, <2>1
<1>17. Reading(q).names = before \o Reading(b).names /\ Reading(q).open = Reading(b).open
  BY <1>15, <1>16
<1>18. QED
  BY <1>17 DEF before, q

LEMMA ReadOneMore ==
    ASSUME NEW a \in Texts, NEW c \in PathChars
    PROVE  Reading(a \o <<c>>) = ReadChar(Reading(a), c)
<1> DEFINE q == a \o <<c>>
           n == Len(a)
<1>1. <<c>> \in Texts /\ Len(<<c>>) = 1 /\ <<c>>[1] = c
  BY DEF Texts
<1>2. n \in Nat
  BY LenProperties DEF Texts
<1>3. /\ q \in Texts /\ Len(q) = n + 1
      /\ \A i \in 1..(n + 1) : q[i] = IF i <= n THEN a[i] ELSE <<c>>[i - n]
  BY <1>1, ConcatProperties DEF Texts
<1>4. SubSeq(q, 1, n) = a
  BY <1>1, Halves DEF Texts
<1> HIDE DEF q
<1>5. SubSeq(q, 1, Len(q)) = q
  BY <1>3, SubSeqFull DEF Texts
<1>6. q[n + 1] = c
  <2>1. n + 1 \in 1..(n + 1) /\ ~ (n + 1 <= n) /\ (n + 1) - n = 1
    BY <1>2
  <2>2. QED
    BY <1>1, <1>3, <2>1
<1>7. PICK f : /\ f[0] = NothingRead
               /\ \A k \in 0..Len(q) : Reading(SubSeq(q, 1, k)) = f[k]
               /\ \A k \in 0..(Len(q) - 1) : f[k + 1] = ReadChar(f[k], q[k + 1])
  BY <1>3, ReadingSteps
<1>8. n \in 0..Len(q) /\ n + 1 \in 0..Len(q) /\ n \in 0..(Len(q) - 1)
  BY <1>2, <1>3
<1>9. f[n] = Reading(a) /\ f[n + 1] = Reading(q) /\ f[n + 1] = ReadChar(f[n], c)
  BY <1>3, <1>4, <1>5, <1>6, <1>7, <1>8
<1>10. QED
  BY <1>9 DEF q

LEMMA ReadNothing == Reading(<<>>) = NothingRead
<1>1. <<>> \in Texts /\ Len(<<>>) = 0 /\ SubSeq(<<>>, 1, 0) = <<>>
  BY DEF Texts
<1>2. PICK f : f[0] = NothingRead /\ \A k \in 0..Len(<<>>) : Reading(SubSeq(<<>>, 1, k)) = f[k]
  BY <1>1, ReadingSteps
<1>3. Reading(SubSeq(<<>>, 1, 0)) = f[0]
  BY <1>1, <1>2
<1>4. QED
  BY <1>1, <1>2, <1>3

(* A separator or "./" in front of a path names nothing.                   *)
LEMMA ReadFront ==
    /\ Reading(<<Sep>>) = NothingRead
    /\ Reading(<<Dot, Sep>>) = NothingRead
<1>1. <<>> \in Texts /\ Sep \in PathChars /\ Dot \in PathChars /\ Sep # Dot
  BY DEF Texts, PathChars, Sep, Dot
<1>2. <<>> \o <<Sep>> = <<Sep>> /\ <<>> \o <<Dot>> = <<Dot>>
  <2>1. <<Sep>> \in Texts /\ <<Dot>> \in Texts
    BY <1>1 DEF Texts
  <2>2. QED
    BY <2>1, ConcatEmptySeq DEF Texts
<1>3. Kept(<<>>) = <<>> /\ Kept(<<Dot>>) = <<>> /\ <<>> \o <<>> = <<>> /\ Append(<<>>, Dot) = <<Dot>>
  BY DEF Kept
<1>4. Reading(<<Sep>>) = ReadChar(NothingRead, Sep)
  BY <1>1, <1>2, ReadNothing, ReadOneMore
<1>5. ReadChar(NothingRead, Sep) = NothingRead
  BY <1>3 DEF ReadChar, NothingRead
<1>6. Reading(<<Dot>>) = ReadChar(NothingRead, Dot)
  BY <1>1, <1>2, ReadNothing, ReadOneMore
<1>7. ReadChar(NothingRead, Dot) = [names |-> <<>>, open |-> <<Dot>>]
  BY <1>1, <1>3 DEF ReadChar, NothingRead
<1>8. <<Dot>> \in Texts
  BY <1>1 DEF Texts
<1>9. Reading(<<Dot, Sep>>) = ReadChar(Reading(<<Dot>>), Sep)
  <2> DEFINE q == <<Dot>> \o <<Sep>>
  <2>1. <<Sep>> \in Texts
    BY <1>1 DEF Texts
  <2>2. /\ q \in Texts /\ Len(q) = Len(<<Dot>>) + Len(<<Sep>>)
        /\ \A i \in 1..(Len(<<Dot>>) + Len(<<Sep>>)) :
             q[i] = IF i <= Len(<<Dot>>) THEN <<Dot>>[i] ELSE <<Sep>>[i - Len(<<Dot>>)]
    BY <1>8, <2>1, ConcatProperties DEF Texts
  <2>3. Reading(q) = ReadChar(Reading(<<Dot>>), Sep)
    BY <1>1, <1>8, ReadOneMore
  <2> HIDE DEF q
  <2>4. Len(q) = 2 /\ q[1] = Dot /\ q[2] = Sep
    BY <2>2
  <2>5. q = <<Dot, Sep>>
    BY <2>2, <2>4 DEF Texts
  <2>6. QED
    BY <2>3, <2>5
<1>10. ReadChar([names |-> <<>>, open |-> <<Dot>>], Sep) = NothingRead
  BY <1>3 DEF ReadChar, NothingRead
<1>11. QED
  BY <1>4, <1>5, <1>6, <1>7, <1>9, <1>10

LEMMA NamesBehind ==
    ASSUME NEW a \in Texts, NEW b \in Texts, Reading(a).open = <<>>
    PROVE  Names(a \o b) = Reading(a).names \o Names(b)
<1>1. /\ Reading(a).names \in Seq(Texts) /\ Reading(b).names \in Seq(Texts)
      /\ Kept(Reading(b).open) \in Seq(Texts)
  BY ReadingTyped, KeptTyped DEF ReadSoFar
<1>2. (Reading(a).names \o Reading(b).names) \o Kept(Reading(b).open) =
        Reading(a).names \o (Reading(b).names \o Kept(Reading(b).open))
  BY <1>1, NamesRow, Zenon
<1>3. QED
  BY <1>2, ReadingJoins DEF Names

LEMMA NamesOfRest ==
    ASSUME NEW p2 \in Texts, p2 # <<>>
    PROVE  Names(SubSeq(p2, Offset(p2) + 1, Len(p2))) = Names(p2)
<1> DEFINE k == Offset(p2)
           front == SubSeq(p2, 1, k)
           rest == SubSeq(p2, k + 1, Len(p2))
<1>1. k \in 0..Len(p2)
  BY OffsetIs
<1>2. Len(p2) \in Nat \ {0}
  BY EmptySeq DEF Texts
<1>3. /\ front \in Texts /\ Len(front) = k /\ \A i \in 1..k : front[i] = p2[i]
      /\ rest \in Texts /\ p2 = front \o rest
  BY <1>1, Cut, Rest DEF Texts
<1>4. Reading(front) = NothingRead
  <2> HIDE DEF front
  <2>1. CASE IsRelative(p2)
    <3>1. k = 2 /\ p2[1] = Dot /\ p2[2] = Sep
      BY <2>1 DEF Offset, IsRelative
    <3>2. front[1] = Dot /\ front[2] = Sep /\ Len(front) = 2
      BY <1>3, <3>1
    <3>3. front = <<Dot, Sep>>
      BY <1>3, <3>2 DEF Texts
    <3>4. QED
      BY <3>3, ReadFront
  <2>2. CASE ~ IsRelative(p2) /\ IsAbsolute(p2)
    <3>1. k = 1 /\ p2[1] = Sep
      BY <2>2 DEF Offset, IsAbsolute
    <3>2. front[1] = Sep /\ Len(front) = 1
      BY <1>3, <3>1
    <3>3. front = <<Sep>>
      BY <1>3, <3>2 DEF Texts
    <3>4. QED
      BY <3>3, ReadFront
  <2>3. CASE ~ IsRelative(p2) /\ ~ IsAbsolute(p2)
    <3>1. k = 0
      BY <2>3 DEF Offset
    <3>2. front = <<>>
      BY <1>3, <3>1, EmptySeq DEF Texts
    <3>3. QED
      BY <3>2, ReadNothing
  <2>4. QED
    BY <2>1, <2>2, <2>3
<1> HIDE DEF front, rest
<1>5. Reading(front).open = <<>> /\ Reading(front).names = <<>>
  BY <1>4 DEF NothingRead
<1>6. Names(front \o rest) = <<>> \o Names(rest)
  BY <1>3, <1>5, NamesBehind
<1>7. <<>> \o Names(rest) = Names(rest)
  BY <1>3, NamesTyped, ConcatEmptySeq
<1>8. QED
  BY <1>3, <1>6, <1>7 DEF rest

LEMMA NamesOfJoined ==
    ASSUME NEW p1 \in Texts, p1 # <<>>
    PROVE  /\ Reading(p1 \o Joint(p1)).open = <<>>
           /\ Reading(p1 \o Joint(p1)).names = Names(p1)
<1>1. Len(p1) \in Nat \ {0} /\ Sep \in PathChars
  BY EmptySeq DEF Texts, PathChars
<1>2. ASSUME NEW a \in Texts PROVE Reading(a \o <<Sep>>) = [names |-> Names(a), open |-> <<>>]
  BY <1>1, ReadOneMore DEF ReadChar, Names
<1>3. CASE IsDir(p1)
  <2> DEFINE a == SubSeq(p1, 1, Len(p1) - 1)
             b == SubSeq(p1, (Len(p1) - 1) + 1, Len(p1))
  <2>1. Len(p1) - 1 \in 0..Len(p1) /\ Len(p1) - (Len(p1) - 1) = 1
    BY <1>1
  <2>2. a \in Texts /\ b \in Texts /\ Len(b) = 1 /\ p1 = a \o b
        /\ \A i \in 1..1 : b[i] = p1[(Len(p1) - 1) + i]
    BY <2>1, Cut, Rest DEF Texts
  <2> HIDE DEF a, b
  <2>3. b[1] = Sep
    <3>1. 1 \in 1..1 /\ (Len(p1) - 1) + 1 = Len(p1)
      BY <1>1
    <3>2. b[1] = p1[Len(p1)]
      BY <2>2, <3>1
    <3>3. QED
      BY <1>3, <3>2 DEF IsDir
  <2>4. b = <<Sep>>
    BY <2>2, <2>3 DEF Texts
  <2>5. Reading(p1) = [names |-> Names(a), open |-> <<>>]
    BY <1>2, <2>2, <2>4
  <2>6. Kept(<<>>) = <<>> /\ Names(a) \in Seq(Texts)
    BY <2>2, NamesTyped DEF Kept
  <2>7. Names(p1) = Names(a)
    <3>1. Reading(p1).names = Names(a) /\ Kept(Reading(p1).open) = <<>>
      BY <2>5, <2>6
    <3>2. Names(p1) = Reading(p1).names \o Kept(Reading(p1).open)
      BY DEF Names
    <3>3. Names(p1) = Names(a) \o <<>>
      BY <3>1, <3>2
    <3>4. QED
      BY <2>6, <3>3, NamesJoin
  <2>8. p1 \o Joint(p1) = p1
    BY <1>3, ConcatEmptySeq DEF Joint, Texts
  <2>9. QED
    BY <2>5, <2>7, <2>8
<1>4. CASE ~ IsDir(p1)
  <2>1. Reading(p1 \o <<Sep>>) = [names |-> Names(p1), open |-> <<>>]
    BY <1>2
  <2>2. p1 \o Joint(p1) = p1 \o <<Sep>>
    BY <1>4 DEF Joint
  <2>3. QED
    BY <2>1, <2>2
<1>5. QED
  BY <1>3, <1>4

LEMMA NoNames == Names(<<>>) = <<>>
<1>1. Kept(<<>>) = <<>> /\ <<>> \o <<>> = <<>>
  BY DEF Kept
<1>2. QED
  BY <1>1, ReadNothing DEF Names, NothingRead

LEMMA NamesOfCombine2 ==
    ASSUME NEW p1 \in Texts, NEW p2 \in Texts
    PROVE  Names(Combine2(p1, p2)) = Names(p1) \o Names(p2)
<1>1. Names(p1) \in Seq(Texts) /\ Names(p2) \in Seq(Texts)
  BY NamesTyped
<1>2. CASE p1 = <<>>
  BY <1>1, <1>2, NoNames, ConcatEmptySeq DEF Combine2
<1>3. CASE p1 # <<>> /\ p2 = <<>>
  BY <1>1, <1>3, NoNames, ConcatEmptySeq DEF Combine2
<1>4. CASE p1 # <<>> /\ p2 # <<>>
  <2> DEFINE r == p1 \o Joint(p1)
             rest == SubSeq(p2, Offset(p2) + 1, Len(p2))
  <2>1. r \in Texts /\ rest \in Texts
    BY <1>4, JointIs, OffsetIs
  <2>2. Names(rest) = Names(p2)
    BY <1>4, NamesOfRest
  <2>3. Reading(r).open = <<>> /\ Reading(r).names = Names(p1)
    BY <1>4, NamesOfJoined
  <2>4. Combine2(p1, p2) = r \o rest
    BY <1>4 DEF Combine2
  <2> HIDE DEF r, rest
  <2>5. Names(r \o rest) = Reading(r).names \o Names(rest)
    BY <2>1, <2>3, NamesBehind
  <2>6. QED
    BY <2>2, <2>3, <2>4, <2>5
<1>5. QED
  BY <1>2, <1>3, <1>4

LEMMA ValidJoined ==
    ASSUME NEW p1 \in Texts, p1 # <<>>, IsValid(p1)
    PROVE  IsValid(p1 \o Joint(p1))
<1> DEFINE r == p1 \o Joint(p1)
<1>1. Len(p1) \in Nat \ {0}
  BY EmptySeq DEF Texts
<1>2. CASE IsDir(p1)
  <2>1. p1 \o Joint(p1) = p1
    BY <1>2, ConcatEmptySeq DEF Joint, Texts
  <2>2. QED
    BY <2>1
<1>3. CASE ~ IsDir(p1)
  <2>1. <<Sep>> \in Texts /\ Len(<<Sep>>) = 1
    BY DEF Texts, PathChars
  <2>2. r = p1 \o <<Sep>>
    BY <1>3 DEF Joint
  <2>3. /\ r \in Texts /\ Len(r) = Len(p1) + 1
        /\ \A i \in 1..(Len(p1) + 1) : r[i] = IF i <= Len(p1) THEN p1[i] ELSE <<Sep>>[i - Len(p1)]
    BY <2>1, <2>2, ConcatProperties DEF Texts
  <2> HIDE DEF r
  <2>4. ASSUME NEW i \in 1..(Len(r) - 1), r[i] = Sep, r[i + 1] = Sep PROVE FALSE
    <3>1. i \in 1..(Len(p1) + 1) /\ i <= Len(p1)
      BY <1>1, <2>3
    <3>2. p1[i] = Sep
      BY <2>3, <2>4, <3>1
    <3>3. i # Len(p1)
      BY <1>3, <3>2 DEF IsDir
    <3>4. i \in 1..(Len(p1) - 1) /\ i + 1 \in 1..(Len(p1) + 1) /\ i + 1 <= Len(p1)
      BY <1>1, <3>1, <3>3
    <3>5. p1[i + 1] = Sep
      BY <2>3, <2>4, <3>4
    <3>6. QED
      BY <3>2, <3>4, <3>5 DEF IsValid
  <2>5. QED
    BY <2>4 DEF IsValid, r
<1>4. QED
  BY <1>2, <1>3

LEMMA ValidRest ==
    ASSUME NEW p2 \in Texts, p2 # <<>>, IsValid(p2)
    PROVE  LET rest == SubSeq(p2, Offset(p2) + 1, Len(p2))
           IN  IsValid(rest) /\ ~ IsAbsolute(rest)
<1> DEFINE k == Offset(p2)
           rest == SubSeq(p2, k + 1, Len(p2))
<1>1. Len(p2) \in Nat \ {0} /\ k \in 0..Len(p2)
  BY EmptySeq, OffsetIs DEF Texts
<1>2. rest \in Texts /\ Len(rest) = Len(p2) - k /\ \A i \in 1..(Len(p2) - k) : rest[i] = p2[k + i]
  BY <1>1, Rest DEF Texts
<1>3. /\ k > 0 => p2[k] = Sep
      /\ k = 0 => ~ IsAbsolute(p2)
  BY DEF Offset, IsRelative, IsAbsolute
<1> HIDE DEF k, rest
<1>4. ASSUME NEW i \in 1..(Len(rest) - 1), rest[i] = Sep, rest[i + 1] = Sep PROVE FALSE
  <2>1. /\ i \in 1..(Len(p2) - k) /\ i + 1 \in 1..(Len(p2) - k)
        /\ k + i \in 1..(Len(p2) - 1) /\ (k + i) + 1 = k + (i + 1)
    BY <1>1, <1>2
  <2>2. p2[k + i] = Sep /\ p2[(k + i) + 1] = Sep
    BY <1>2, <1>4, <2>1
  <2>3. QED
    BY <2>1, <2>2 DEF IsValid
<1>5. ASSUME rest # <<>>, rest[1] = Sep PROVE FALSE
  <2>1. Len(rest) \in Nat \ {0}
    BY <1>2, <1>5, EmptySeq DEF Texts
  <2>2. 1 \in 1..(Len(p2) - k) /\ k + 1 \in 1..Len(p2)
    BY <1>1, <1>2, <2>1
  <2>3. p2[k + 1] = Sep
    BY <1>2, <1>5, <2>2
  <2>4. CASE k = 0
    <3>1. p2[1] = Sep
      BY <2>3, <2>4
    <3>2. QED
      BY <1>3, <2>4, <3>1 DEF IsAbsolute
  <2>5. CASE k > 0
    <3>1. k \in 1..(Len(p2) - 1)
      BY <1>1, <2>2, <2>5
    <3>2. QED
      BY <1>3, <2>3, <2>5, <3>1 DEF IsValid
  <2>6. QED
    BY <1>1, <2>4, <2>5
<1>6. QED
  BY <1>4, <1>5 DEF IsValid, IsAbsolute, k, rest

LEMMA ValidCombine2 ==
    ASSUME NEW p1 \in Texts, NEW p2 \in Texts, IsValid(p1), IsValid(p2)
    PROVE  IsValid(Combine2(p1, p2))
<1>1. CASE p1 = <<>> \/ p2 = <<>>
  BY <1>1 DEF Combine2
<1>2. CASE p1 # <<>> /\ p2 # <<>>
  <2> DEFINE r == p1 \o Joint(p1)
             rest == SubSeq(p2, Offset(p2) + 1, Len(p2))
             q == r \o rest
             n == Len(r)
  <2>1. r \in Texts /\ n \in Nat \ {0} /\ rest \in Texts
    BY <1>2, Joined, OffsetIs
  <2>2. IsValid(r) /\ IsValid(rest) /\ ~ IsAbsolute(rest)
    BY <1>2, ValidJoined, ValidRest
  <2>3. Combine2(p1, p2) = q
    BY <1>2 DEF Combine2
  <2> HIDE DEF r, rest
  <2>4. /\ q \in Texts /\ Len(q) = n + Len(rest) /\ Len(rest) \in Nat
        /\ \A i \in 1..(n + Len(rest)) : q[i] = IF i <= n THEN r[i] ELSE rest[i - n]
    BY <2>1, ConcatProperties, LenProperties DEF Texts
  <2> HIDE DEF q
  <2>5. ASSUME NEW i \in 1..(Len(q) - 1), q[i] = Sep, q[i + 1] = Sep PROVE FALSE
    <3>1. i \in 1..(n + Len(rest)) /\ i + 1 \in 1..(n + Len(rest))
      BY <2>1, <2>4
    <3>2. CASE i + 1 <= n
      <4>1. i \in 1..(n - 1) /\ i <= n
        BY <2>1, <3>2
      <4>2. r[i] = Sep /\ r[i + 1] = Sep
        BY <2>4, <2>5, <3>1, <3>2, <4>1
      <4>3. QED
        BY <2>2, <4>1, <4>2 DEF IsValid
    <3>3. CASE i = n
      <4>1. ~ (i + 1 <= n) /\ (i + 1) - n = 1 /\ Len(rest) # 0
        BY <2>1, <2>4, <3>1, <3>3
      <4>2. rest[1] = Sep
        BY <2>4, <2>5, <3>1, <4>1
      <4>3. rest # <<>>
        BY <2>1, <4>1, EmptySeq DEF Texts
      <4>4. QED
        BY <2>2, <4>2, <4>3 DEF IsAbsolute
    <3>4. CASE i > n
      <4>1. ~ (i <= n) /\ ~ (i + 1 <= n) /\ (i + 1) - n = (i - n) + 1
            /\ i - n \in 1..(Len(rest) - 1)
        BY <2>1, <2>4, <3>1, <3>4
      <4>2. rest[i - n] = Sep /\ rest[(i - n) + 1] = Sep
        BY <2>4, <2>5, <3>1, <4>1
      <4>3. QED
        BY <2>2, <4>1, <4>2 DEF IsValid
    <3>5. QED
      BY <2>1, <3>1, <3>2, <3>3, <3>4
  <2>6. QED
    BY <2>3, <2>5 DEF IsValid
<1>3. QED
  BY <1>1, <1>2

LEMMA StartsCombine2 ==
    ASSUME NEW p1 \in Texts, NEW p2 \in Texts, p1 # <<>>
    PROVE  IsPrefix(p1, Combine2(p1, p2))
<1>1. SubSeq(p1, 1, Len(p1)) = p1 /\ Len(p1) \in Nat
  BY SubSeqFull, LenProperties DEF Texts
<1>2. ASSUME NEW t \in Texts PROVE IsPrefix(p1, p1 \o t)
  <2>1. SubSeq(p1 \o t, 1, Len(p1)) = p1
    BY Halves DEF Texts
  <2>2. Len(p1 \o t) = Len(p1) + Len(t) /\ Len(t) \in Nat
    BY ConcatProperties, LenProperties DEF Texts
  <2>3. Len(p1) <= Len(p1 \o t)
    BY <1>1, <2>2
  <2>4. QED
    BY <1>1, <2>1, <2>3 DEF IsPrefix
<1>3. CASE p2 = <<>>
  BY <1>1, <1>3 DEF Combine2, IsPrefix
<1>4. CASE p2 # <<>>
  <2> DEFINE rest == SubSeq(p2, Offset(p2) + 1, Len(p2))
  <2>1. Joint(p1) \in Texts /\ rest \in Texts
    BY <1>4, JointIs, OffsetIs
  <2>2. Combine2(p1, p2) = (p1 \o Joint(p1)) \o rest
    BY <1>4 DEF Combine2
  <2> HIDE DEF rest
  <2>3. (p1 \o Joint(p1)) \o rest = p1 \o (Joint(p1) \o rest) /\ Joint(p1) \o rest \in Texts
    BY <2>1, ConcatAssociative, ConcatProperties DEF Texts
  <2>4. QED
    BY <1>2, <2>2, <2>3
<1>5. QED
  BY <1>3, <1>4

-----------------------------------------------------------------------------
(* Flattening: f holds the first sequences in a row.                       *)
IsFlattening(f, seqs, n) ==
    f = [i \in 1..n |-> IF i = 1 THEN seqs[i] ELSE f[i - 1] \o seqs[i]]

LEMMA FlatteningsExist ==
    ASSUME NEW seqs, NEW n \in Nat
    PROVE  \E f : IsFlattening(f, seqs, n)
<1> DEFINE S == {k \in 0..n : \E f : IsFlattening(f, seqs, k)}
<1>1. 0 \in S
  <2>1. IsFlattening(<<>>, seqs, 0)
    BY DEF IsFlattening
  <2>2. QED
    BY <2>1
<1>2. ASSUME NEW k \in 0..(n - 1), k \in S PROVE k + 1 \in S
  <2>1. PICK f : IsFlattening(f, seqs, k)
    BY <1>2
  <2> DEFINE last == IF k + 1 = 1 THEN seqs[k + 1] ELSE f[k] \o seqs[k + 1]
             g == [i \in 1..(k + 1) |-> IF i <= k THEN f[i] ELSE last]
  <2>2. ASSUME NEW i \in 1..(k + 1)
        PROVE  g[i] = IF i = 1 THEN seqs[i] ELSE g[i - 1] \o seqs[i]
    <3> HIDE DEF last
    <3>1. CASE i <= k
      <4>1. i \in 1..k /\ (i # 1 => i - 1 \in 1..k /\ i - 1 \in 1..(k + 1) /\ i - 1 <= k)
        BY <3>1
      <4>2. f[i] = IF i = 1 THEN seqs[i] ELSE f[i - 1] \o seqs[i]
        BY <2>1, <4>1 DEF IsFlattening
      <4>3. g[i] = f[i] /\ (i # 1 => g[i - 1] = f[i - 1])
        BY <3>1, <4>1
      <4> HIDE DEF g
      <4>4. QED
        BY <4>2, <4>3
    <3>2. CASE i = k + 1
      <4>1. ~ (i <= k) /\ i - 1 = k /\ (i # 1 => k \in 1..(k + 1) /\ k <= k)
        BY <3>2
      <4>2. g[i] = last
        BY <4>1
      <4>3. i # 1 => g[k] = f[k]
        BY <4>1
      <4> HIDE DEF g
      <4>4. QED
        BY <3>2, <4>1, <4>2, <4>3 DEF last
    <3>3. QED
      BY <3>1, <3>2
  <2>3. g = [i \in 1..(k + 1) |-> g[i]]
    OBVIOUS
  <2> HIDE DEF g
  <2>4. g = [i \in 1..(k + 1) |-> IF i = 1 THEN seqs[i] ELSE g[i - 1] \o seqs[i]]
    BY <2>2, <2>3
  <2>5. IsFlattening(g, seqs, k + 1)
    BY <2>4 DEF IsFlattening
  <2>6. QED
    BY <2>5
<1> HIDE DEF S
<1>3. 0..n \subseteq S
  BY <1>1, <1>2, UpTo
<1>4. QED
  BY <1>3 DEF S

LEMMA FlattenSeqIs ==
    ASSUME NEW seqs, Len(seqs) \in Nat \ {0}
    PROVE  \E f : IsFlattening(f, seqs, Len(seqs)) /\ FlattenSeq(seqs) = f[Len(seqs)]
<1> DEFINE f == CHOOSE f : IsFlattening(f, seqs, Len(seqs))
<1>1. FlattenSeq(seqs) = f[Len(seqs)]
  BY DEF FlattenSeq, IsFlattening
<1>2. IsFlattening(f, seqs, Len(seqs))
  BY FlatteningsExist
<1>3. QED
  BY <1>1, <1>2

(* One round of the loop of AvmPathCombine adds the names of one path.     *)
LEMMA NamesOfStep ==
    ASSUME NEW acc \in Combined, NEW p2 \in Texts, NEW zeroed,
           CombineStep(acc, p2, zeroed).fault = "none"
    PROVE  /\ acc.fault = "none"
           /\ Names(CombineStep(acc, p2, zeroed).path) = Names(acc.path) \o Names(p2)
<1>1. ~ (acc.fault # "none" \/ acc.path = <<>> \/ acc.fills \/ ~ zeroed)
  BY DEF CombineStep, Combined
<1>2. CombineStep(acc, p2, zeroed).path = Combine2(acc.path, p2)
  BY <1>1 DEF CombineStep
<1>3. QED
  BY <1>1, <1>2, NamesOfCombine2 DEF Combined

LEMMA NamesOfCombine ==
    ASSUME NEW p \in Texts, NEW ps \in BoundedSeq(Pieces, MaxPieces - 1), NEW zeroed,
           Combine(<<p>> \o ps, zeroed).fault = "none"
    PROVE  Names(Combine(<<p>> \o ps, zeroed).path) =
             Names(p) \o FlattenSeq([i \in DOMAIN ps |-> Names(ps[i])])
<1> DEFINE all == <<p>> \o ps
           m == Len(ps)
           seqs == [i \in DOMAIN ps |-> Names(ps[i])]
<1>1. /\ ps \in Seq(Texts) /\ m \in Nat /\ DOMAIN ps = 1..m
      /\ \A i \in 1..m : ps[i] \in Texts
  BY PiecesJoin, LenProperties, ElementOfSeq
<1>2. /\ all \in Seq(Texts) /\ Len(all) = m + 1 /\ all[1] = p
      /\ \A i \in 1..m : all[i + 1] = ps[i]
  BY PiecesJoin
<1> HIDE DEF all
<1>3. PICK f : IsCombining(f, all, zeroed, m + 1) /\ Combine(all, zeroed) = f[m + 1]
  <2>1. Len(all) \in Nat \ {0}
    BY <1>1, <1>2
  <2>2. QED
    BY <1>2, <2>1, CombineIs
<1>4. \A k \in 1..(m + 1) : f[k] \in Combined
  <2>1. m + 1 \in 1..Len(all)
    BY <1>1, <1>2
  <2>2. QED
    BY <1>2, <1>3, <2>1, CombiningTyped
<1>5. Names(p) \in Seq(Texts) /\ \A i \in 1..m : Names(ps[i]) \in Seq(Texts)
  BY <1>1, NamesTyped
<1>6. /\ seqs \in Seq(Seq(Texts)) /\ Len(seqs) = m
      /\ \A i \in 1..m : seqs[i] = Names(ps[i]) /\ seqs[i] \in Seq(Texts)
  <2>1. seqs \in [1..m -> Seq(Texts)] /\ \A i \in 1..m : seqs[i] = Names(ps[i])
    BY <1>1, <1>5
  <2> HIDE DEF seqs
  <2>2. QED
    BY <1>1, <1>5, <2>1, FunctionIsSeq
<1> HIDE DEF seqs
<1>7. f[1].path = p
  <2>1. 1 \in 1..(m + 1)
    BY <1>1
  <2>2. f[1] = FirstOf(all)
    BY <1>3, <2>1 DEF IsCombining
  <2>3. QED
    BY <1>2, <2>2 DEF FirstOf
<1>8. CASE m = 0
  <2>1. FlattenSeq(seqs) = <<>>
    BY <1>6, <1>8, EmptySeq DEF FlattenSeq
  <2>2. Names(f[m + 1].path) = Names(p)
    BY <1>7, <1>8
  <2>3. QED
    BY <1>3, <1>5, <2>1, <2>2, NamesJoin DEF all, seqs
<1>9. CASE m # 0
  <2>1. PICK g : IsFlattening(g, seqs, m) /\ FlattenSeq(seqs) = g[m]
    BY <1>1, <1>6, <1>9, FlattenSeqIs
  <2> DEFINE S == {k \in 0..(m - 1) :
                     /\ g[k + 1] \in Seq(Texts)
                     /\ f[k + 2].fault = "none" => Names(f[k + 2].path) = Names(p) \o g[k + 1]}
  <2>2. ASSUME NEW k \in 1..m, f[k + 1].fault = "none"
        PROVE  /\ f[k].fault = "none"
               /\ Names(f[k + 1].path) = Names(f[k].path) \o seqs[k]
    <3>1. k + 1 \in 1..(m + 1) /\ k \in 1..(m + 1) /\ k + 1 # 1 /\ (k + 1) - 1 = k
      BY <1>1
    <3>2. f[k + 1] = CombineStep(f[k], ps[k], zeroed)
      BY <1>2, <1>3, <3>1 DEF IsCombining
    <3>3. f[k] \in Combined /\ ps[k] \in Texts /\ seqs[k] = Names(ps[k])
      BY <1>1, <1>4, <1>6, <3>1
    <3>4. CombineStep(f[k], ps[k], zeroed).fault = "none"
      BY <2>2, <3>2
    <3>5. /\ f[k].fault = "none"
          /\ Names(CombineStep(f[k], ps[k], zeroed).path) = Names(f[k].path) \o Names(ps[k])
      BY <3>3, <3>4, NamesOfStep
    <3>6. QED
      BY <3>2, <3>3, <3>5
  <2>3. 0 \in S
    <3>1. 1 \in 1..m /\ 0 + 1 = 1 /\ 0 + 2 = 2 /\ 1 + 1 = 2 /\ 0 \in 0..(m - 1)
      BY <1>1, <1>9
    <3>2. g[1] = seqs[1]
      BY <2>1, <3>1 DEF IsFlattening
    <3>3. g[1] \in Seq(Texts)
      BY <1>6, <3>1, <3>2
    <3>4. ASSUME f[2].fault = "none" PROVE Names(f[2].path) = Names(p) \o g[1]
      BY <1>7, <2>2, <3>1, <3>2, <3>4
    <3>5. QED
      BY <3>1, <3>3, <3>4
  <2>4. ASSUME NEW k \in 0..((m - 1) - 1), k \in S PROVE k + 1 \in S
    <3>1. /\ k + 2 \in 1..m /\ k + 1 \in 0..(m - 1) /\ k + 2 # 1 /\ (k + 2) - 1 = k + 1
          /\ (k + 1) + 1 = k + 2 /\ (k + 1) + 2 = (k + 2) + 1
      BY <1>1
    <3>2. g[k + 2] = g[k + 1] \o seqs[k + 2]
      BY <2>1, <3>1 DEF IsFlattening
    <3>3. g[k + 1] \in Seq(Texts) /\ seqs[k + 2] \in Seq(Texts)
      BY <1>6, <2>4, <3>1
    <3>4. g[k + 2] \in Seq(Texts)
      BY <3>2, <3>3, NamesJoin
    <3>5. ASSUME f[(k + 2) + 1].fault = "none"
          PROVE  Names(f[(k + 2) + 1].path) = Names(p) \o g[k + 2]
      <4>1. f[k + 2].fault = "none" /\ Names(f[(k + 2) + 1].path) = Names(f[k + 2].path) \o seqs[k + 2]
        BY <2>2, <3>1, <3>5
      <4>2. Names(f[k + 2].path) = Names(p) \o g[k + 1]
        BY <2>4, <4>1
      <4>3. (Names(p) \o g[k + 1]) \o seqs[k + 2] = Names(p) \o (g[k + 1] \o seqs[k + 2])
        BY <1>5, <3>3, NamesRow, Zenon
      <4>4. QED
        BY <3>2, <4>1, <4>2, <4>3
    <3>6. QED
      BY <3>1, <3>4, <3>5
  <2> HIDE DEF S
  <2>5. 0..(m - 1) \subseteq S
    <3>1. m - 1 \in Nat
      BY <1>1, <1>9
    <3>2. QED
      BY <2>3, <2>4, <3>1, UpTo
  <2>6. m - 1 \in S /\ (m - 1) + 1 = m /\ (m - 1) + 2 = m + 1
    BY <1>1, <1>9, <2>5
  <2>7. f[m + 1].fault = "none" => Names(f[m + 1].path) = Names(p) \o g[m]
    BY <2>6 DEF S
  <2>8. f[m + 1].fault = "none"
    BY <1>3 DEF all
  <2>9. QED
    BY <1>3, <2>1, <2>7, <2>8 DEF all, seqs
<1>10. QED
  BY <1>8, <1>9

LEMMA CombineOnly ==
    ASSUME [Next]_vars, call'[1] = "Combine"
    PROVE  \/ UNCHANGED vars
           \/ \E ps \in BoundedSeq(Pieces, MaxPieces - 1), zeroed \in BOOLEAN :
                /\ call' = <<"Combine", path, ps>>
                /\ fault' = Combine(<<path>> \o ps, zeroed).fault
                /\ fault' = "none" => path' = Combine(<<path>> \o ps, zeroed).path
<1>1. ASSUME NEW ps \in BoundedSeq(Pieces, MaxPieces - 1), DescendAll(ps)
      PROVE  \E zeroed \in BOOLEAN :
               /\ call' = <<"Combine", path, ps>>
               /\ fault' = Combine(<<path>> \o ps, zeroed).fault
               /\ fault' = "none" => path' = Combine(<<path>> \o ps, zeroed).path
  BY <1>1 DEF DescendAll, Returns
<1>2. ASSUME NEW what, NEW argument, NEW result, NEW end, what # "Combine",
             Returns(what, argument, result, end)
      PROVE  FALSE
  BY <1>2 DEF Returns
<1>3. ASSUME NEW p2, Descend(p2) PROVE FALSE
  BY <1>2, <1>3 DEF Descend
<1>4. ~ Ascend /\ ~ TakeName /\ ~ TakeExtension /\ ~ AskHasExtension /\ ~ AskIsDir
  BY <1>2 DEF Ascend, TakeName, TakeExtension, AskHasExtension, AskIsDir
<1>5. ASSUME NEW found, Locate(found) PROVE FALSE
  BY <1>2, <1>5 DEF Locate
<1>6. QED
  BY <1>1, <1>3, <1>4, <1>5 DEF Next

LEMMA CombineJoinsNamesNext ==
    ASSUME TypeOK, CombineJoinsNames, [Next]_vars
    PROVE  CombineJoinsNames'
<1>0. path \in Texts
  BY PathsAre DEF TypeOK
<1>1. CASE UNCHANGED vars
  BY <1>1 DEF vars, CombineJoinsNames
<1>2. ASSUME NEW p2 \in Pieces, path' = Combine2(path, p2), call' = <<"Combine2", path, p2>>
      PROVE  CombineJoinsNames'
  <2>1. call'[1] = "Combine2" /\ call'[2] = path /\ call'[3] = p2 /\ call'[1] # "Combine"
    BY <1>2
  <2>2. p2 \in Texts
    BY PathNamesAssumption DEF Texts
  <2>3. Names(path') = Names(path) \o Names(p2)
    BY <1>0, <1>2, <2>2, NamesOfCombine2
  <2>4. IsValid(path) /\ IsValid(p2) => IsValid(path')
    BY <1>0, <1>2, <2>2, ValidCombine2
  <2>5. path # <<>> => IsPrefix(path, path')
    BY <1>0, <1>2, <2>2, StartsCombine2
  <2>6. QED
    BY <2>1, <2>3, <2>4, <2>5 DEF CombineJoinsNames
<1>3. ASSUME NEW ps \in BoundedSeq(Pieces, MaxPieces - 1), NEW zeroed \in BOOLEAN,
             call' = <<"Combine", path, ps>>,
             fault' = Combine(<<path>> \o ps, zeroed).fault,
             fault' = "none" => path' = Combine(<<path>> \o ps, zeroed).path
      PROVE  CombineJoinsNames'
  <2>1. call'[1] = "Combine" /\ call'[2] = path /\ call'[3] = ps /\ call'[1] # "Combine2"
    BY <1>3
  <2>2. fault' = "none" => Names(path') = Names(path) \o FlattenSeq([i \in DOMAIN ps |-> Names(ps[i])])
    BY <1>0, <1>3, NamesOfCombine
  <2>3. QED
    BY <2>1, <2>2 DEF CombineJoinsNames
<1>4. CASE call'[1] = "Combine2"
  <2>1. ASSUME fault' = "pushstr" PROVE CombineJoinsNames'
    BY <2>1 DEF CombineJoinsNames
  <2>2. QED
    BY <1>1, <1>2, <1>4, <2>1, Combine2Only
<1>5. CASE call'[1] = "Combine"
  BY <1>1, <1>3, <1>5, CombineOnly
<1>6. CASE call'[1] # "Combine2" /\ call'[1] # "Combine"
  BY <1>6 DEF CombineJoinsNames
<1>7. QED
  BY <1>4, <1>5, <1>6

(***************************************************************************)
(* However many paths are combined, with whatever separators and "./" at   *)
(* their joints, the result goes down by the names of each in turn; two    *)
(* valid paths make a valid one that starts where the first one starts.    *)
(***************************************************************************)
THEOREM CombineJoinsNamesAlways == Spec => []CombineJoinsNames
<1>1. Init => TypeOK /\ CombineJoinsNames
  BY DEF Init, TypeOK, CombineJoinsNames
<1>2. TypeOK /\ CombineJoinsNames /\ [Next]_vars => TypeOK' /\ CombineJoinsNames'
  BY PathsNext, CombineJoinsNamesNext
<1>3. QED
  BY <1>1, <1>2, PTL DEF Spec
=============================================================================
