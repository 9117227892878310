------------------------- MODULE ThrowContextsProof -------------------------
(***************************************************************************)
(* The chain of throw contexts, for any threads, objects, types and catch  *)
(* lists: proofs of the invariants of ThrowContexts and of its refinement. *)
(***************************************************************************)
EXTENDS ThrowContexts, SequenceTheorems, TLAPS

(* Only the block at the head of its chain ever dispatches.                *)
DispatchIsHead ==
    \A t \in Threads : Dispatching(t) => global[t] = <<t, Len(blocks[t])>>

BlockInv == TypeOK /\ ThrownMarksDispatch /\ DispatchIsHead

-----------------------------------------------------------------------------
(* The sequence operations of the model, element by element.               *)
LEMMA Cut ==
    ASSUME NEW S, NEW s \in Seq(S), NEW k \in 0..Len(s)
    PROVE  /\ SubSeq(s, 1, k) \in Seq(S)
           /\ Len(SubSeq(s, 1, k)) = k
           /\ \A i \in 1..k : SubSeq(s, 1, k)[i] = s[i]
<1>1. k \in Int /\ \A i \in 1..k : s[i] \in S
  BY ElementOfSeq, LenProperties
<1>2. QED
  BY <1>1, SubSeqProperties

LEMMA CutAndAppend ==
    ASSUME NEW S, NEW s \in Seq(S), NEW k \in 1..Len(s), NEW x \in S
    PROVE  LET r == Append(SubSeq(s, 1, k - 1), x)
           IN  /\ r \in Seq(S)
               /\ Len(r) = k
               /\ \A i \in 1..(k - 1) : r[i] = s[i]
               /\ r[k] = x
<1> DEFINE c == SubSeq(s, 1, k - 1)
<1>1. k - 1 \in 0..Len(s) /\ k \in Nat
  BY LenProperties
<1>2. c \in Seq(S) /\ Len(c) = k - 1 /\ \A i \in 1..(k - 1) : c[i] = s[i]
  BY <1>1, Cut
<1> HIDE DEF c
<1>3. QED
  BY <1>1, <1>2, AppendProperties DEF c

-----------------------------------------------------------------------------
(***************************************************************************)
(* What __AvmRuntimeThrow does: the process ends with the blocks as they   *)
(* are, or the body at a becomes the innermost block and dispatches.       *)
(***************************************************************************)
LandsAt(t, k, e) ==
    /\ k \in 1..Len(blocks[t])
    /\ blocks[t][k].phase = "body"
    /\ Len(blocks'[t]) = k
    /\ \A i \in 1..(k - 1) : blocks'[t][i] = blocks[t][i]
    /\ blocks'[t][k] = [blocks[t][k] EXCEPT !.thrown = e, !.phase = "dispatch"]
    /\ \A u \in Threads \ {t} : blocks'[u] = blocks[u]
    /\ outcome' = outcome

LEMMA ThrowEffect ==
    ASSUME TypeOK, NEW t \in Threads, NEW a \in Address \cup {Null},
           NEW e \in Objects, ThrowTo(t, a, e)
    PROVE  /\ blocks' \in [Threads -> Seq(ContextType)]
           /\ outcome' \in Outcomes
           /\ \/ outcome' # "running" /\ blocks' = blocks
              \/ \E k \in Nat : a = <<t, k>> /\ LandsAt(t, k, e)
<1>1. CASE a = Null
  BY <1>1 DEF ThrowTo, Segfault, Outcomes, TypeOK
<1>2. CASE a # Null /\ ~ (Live(a) /\ a[1] = t /\ At(a).phase = "body")
  BY <1>2 DEF ThrowTo, Outcomes, TypeOK
<1>3. CASE a # Null /\ Live(a) /\ a[1] = t /\ At(a).phase = "body"
  <2>1. PICK k \in Nat : a = <<t, k>>
    BY <1>3 DEF Address
  <2> DEFINE x == [blocks[t][k] EXCEPT !.thrown = e, !.phase = "dispatch"]
             nb == Append(SubSeq(blocks[t], 1, k - 1), x)
  <2>2. blocks[t] \in Seq(ContextType) /\ k \in 1..Len(blocks[t])
    BY <1>3, <2>1, LenProperties DEF Live, TypeOK
  <2>3. blocks[t][k] \in ContextType /\ blocks[t][k].phase = "body"
    BY <1>3, <2>1, <2>2, ElementOfSeq DEF At
  <2>4. x \in ContextType
    BY <2>3 DEF ContextType, Phases
  <2>5. blocks' = [blocks EXCEPT ![t] = nb] /\ outcome' = outcome
    BY <1>3, <2>1 DEF ThrowTo
  <2> HIDE DEF x
  <2>6. nb \in Seq(ContextType) /\ Len(nb) = k /\ nb[k] = x
        /\ \A i \in 1..(k - 1) : nb[i] = blocks[t][i]
    BY <2>2, <2>4, CutAndAppend
  <2> HIDE DEF nb
  <2>7. LandsAt(t, k, e)
    BY <2>2, <2>3, <2>5, <2>6 DEF LandsAt, TypeOK, x
  <2>8. QED
    BY <2>1, <2>5, <2>6, <2>7 DEF TypeOK
<1>4. QED
  BY <1>1, <1>2, <1>3

-----------------------------------------------------------------------------
(* A dispatching thread works on its own innermost block, and the object   *)
(* and link it finds there are an exception and a context or Null.         *)
LEMMA DispatchingHead ==
    ASSUME BlockInv, NEW t \in Threads, Dispatching(t)
    PROVE  /\ Len(blocks[t]) \in Nat \ {0}
           /\ global[t] = <<t, Len(blocks[t])>>
           /\ At(global[t]) = Top(t)
           /\ Top(t) \in ContextType
           /\ Top(t).prev \in Address \cup {Null}
           /\ Top(t).thrown \in Objects
<1>1. blocks[t] \in Seq(ContextType) /\ blocks[t] # <<>>
  BY DEF BlockInv, TypeOK, Dispatching
<1>2. Len(blocks[t]) \in Nat \ {0}
  BY <1>1, LenProperties, EmptySeq
<1>3. Top(t) \in ContextType
  BY <1>1, <1>2, ElementOfSeq DEF Top
<1>4. global[t] = <<t, Len(blocks[t])>>
  BY DEF BlockInv, DispatchIsHead
<1>5. Top(t).thrown # Null
  BY <1>2 DEF BlockInv, ThrownMarksDispatch, Dispatching, Top
<1>6. QED
  BY <1>2, <1>3, <1>4, <1>5 DEF At, Top, ContextType

(* A throw keeps the block invariant, whatever chain it starts from, once  *)
(* the head of the chain is the context it is thrown to.                   *)
LEMMA ThrowKeepsBlocks ==
    ASSUME BlockInv, NEW t \in Threads, NEW a \in Address \cup {Null},
           NEW e \in Objects, ThrowTo(t, a, e),
           global' = [global EXCEPT ![t] = a],
           handled' = handled, raised' \in [Threads -> Seq(ContextType)],
           outcome = "running"
    PROVE  BlockInv'
<1>1. TypeOK
  BY DEF BlockInv
<1>2. TypeOK'
  BY <1>1, ThrowEffect DEF TypeOK
<1>3. CASE outcome' # "running" /\ blocks' = blocks
  BY <1>2, <1>3 DEF BlockInv, ThrownMarksDispatch, DispatchIsHead, Dispatching
<1>4. CASE \E k \in Nat : a = <<t, k>> /\ LandsAt(t, k, e)
  <2>1. PICK k \in Nat : a = <<t, k>> /\ LandsAt(t, k, e)
    BY <1>4
  <2>2. blocks[t][k] \in ContextType /\ Len(blocks[t]) \in Nat
    BY <1>1, <2>1, ElementOfSeq, LenProperties DEF LandsAt, TypeOK
  <2>3. /\ blocks'[t][k].thrown = e /\ blocks'[t][k].phase = "dispatch"
    BY <2>1, <2>2 DEF LandsAt, ContextType
  <2>4. ThrownMarksDispatch'
    <3> SUFFICES ASSUME NEW u \in Threads, NEW d \in 1..Len(blocks'[u])
                 PROVE  /\ blocks'[u][d].thrown = Null <=> blocks'[u][d].phase = "body"
                        /\ blocks'[u][d].phase = "dispatch" => d = Len(blocks'[u])
      BY DEF ThrownMarksDispatch
    <3>1. CASE u # t
      <4>1. blocks'[u] = blocks[u]
        BY <2>1, <3>1 DEF LandsAt
      <4>2. QED
        BY <4>1 DEF BlockInv, ThrownMarksDispatch
    <3>2. CASE u = t /\ d = k
      BY <2>1, <2>3, <3>2, NullAssumption DEF LandsAt
    <3>3. CASE u = t /\ d # k
      <4>1. d \in 1..(k - 1) /\ d \in 1..Len(blocks[t]) /\ d # Len(blocks[t])
            /\ blocks'[t][d] = blocks[t][d]
        BY <2>1, <2>2, <3>3 DEF LandsAt
      <4>2. QED
        BY <3>3, <4>1 DEF BlockInv, ThrownMarksDispatch
    <3>4. QED
      BY <3>1, <3>2, <3>3
  <2>5. DispatchIsHead'
    <3> SUFFICES ASSUME NEW u \in Threads, Dispatching(u)'
                 PROVE  global'[u] = <<u, Len(blocks'[u])>>
      BY DEF DispatchIsHead
    <3>1. CASE u = t
      BY <1>1, <2>1, <3>1 DEF LandsAt, TypeOK
    <3>2. CASE u # t
      <4>1. blocks'[u] = blocks[u] /\ outcome' = outcome /\ global'[u] = global[u]
        BY <1>1, <2>1, <3>2 DEF LandsAt, TypeOK
      <4>2. QED
        BY <4>1 DEF BlockInv, DispatchIsHead, Dispatching, Top
    <3>3. QED
      BY <3>1, <3>2
  <2>6. QED
    BY <1>2, <2>4, <2>5 DEF BlockInv
<1>5. QED
  BY <1>1, <1>3, <1>4, ThrowEffect

(* The innermost block of t is left, by any of the ways out of a block.    *)
LEMMA PopKeepsBlocks ==
    ASSUME BlockInv, NEW t \in Threads, blocks[t] # <<>>, NEW status \in Outcomes,
           EndBlock(t, status), outcome = "running",
           NEW a \in Address \cup {Null}, global' = [global EXCEPT ![t] = a],
           handled' = handled, raised' = raised
    PROVE  /\ BlockInv'
           /\ Len(blocks'[t]) = Len(blocks[t]) - 1
           /\ \A i \in 1..(Len(blocks[t]) - 1) : blocks'[t][i] = blocks[t][i]
           /\ \A u \in Threads \ {t} : blocks'[u] = blocks[u]
<1>1. TypeOK /\ blocks[t] \in Seq(ContextType)
  BY DEF BlockInv, TypeOK
<1>2. Len(blocks[t]) \in Nat \ {0}
  BY <1>1, LenProperties, EmptySeq
<1> DEFINE n == Len(blocks[t]) - 1
           nb == SubSeq(blocks[t], 1, n)
<1>3. n \in 0..Len(blocks[t])
  BY <1>2
<1>4. nb \in Seq(ContextType) /\ Len(nb) = n /\ \A i \in 1..n : nb[i] = blocks[t][i]
  BY <1>1, <1>3, Cut
<1>5. blocks' = [blocks EXCEPT ![t] = nb]
  BY DEF EndBlock
<1> HIDE DEF nb
<1>6. TypeOK'
  BY <1>1, <1>4, <1>5 DEF TypeOK, EndBlock, Outcomes
<1>7. blocks'[t] = nb /\ \A u \in Threads \ {t} : blocks'[u] = blocks[u]
  BY <1>1, <1>5 DEF TypeOK
<1>8. ThrownMarksDispatch' /\ \A i \in 1..n : blocks'[t][i].phase # "dispatch"
  <2>1. \A i \in 1..n : /\ i \in 1..Len(blocks[t]) /\ i # Len(blocks[t])
                        /\ blocks'[t][i] = blocks[t][i]
    BY <1>2, <1>4, <1>7
  <2>2. \A i \in 1..n :
          /\ blocks'[t][i].thrown = Null <=> blocks'[t][i].phase = "body"
          /\ blocks'[t][i].phase # "dispatch"
    <3>1. ThrownMarksDispatch
      BY DEF BlockInv
    <3> HIDE DEF n
    <3>2. QED
      BY <2>1, <3>1 DEF ThrownMarksDispatch
  <2>3. \A u \in Threads \ {t} : \A d \in 1..Len(blocks'[u]) :
          /\ blocks'[u][d].thrown = Null <=> blocks'[u][d].phase = "body"
          /\ blocks'[u][d].phase = "dispatch" => d = Len(blocks'[u])
    BY <1>7 DEF BlockInv, ThrownMarksDispatch
  <2>4. Len(blocks'[t]) = n
    BY <1>4, <1>7
  <2>5. QED
    BY <2>2, <2>3, <2>4 DEF ThrownMarksDispatch
<1>9. DispatchIsHead'
  <2> SUFFICES ASSUME NEW u \in Threads, Dispatching(u)'
               PROVE  global'[u] = <<u, Len(blocks'[u])>>
    BY DEF DispatchIsHead
  <2>1. CASE u = t
    <3>1. Len(blocks'[t]) \in 1..n
      BY <1>4, <1>7, <1>2, <2>1, LenProperties, EmptySeq, <1>6 DEF Dispatching, TypeOK
    <3>2. QED
      BY <1>8, <2>1, <3>1 DEF Dispatching, Top
  <2>2. CASE u # t
    BY <1>1, <1>7, <2>2 DEF BlockInv, DispatchIsHead, Dispatching, Top, TypeOK
  <2>3. QED
    BY <2>1, <2>2
<1>10. QED
  BY <1>4, <1>6, <1>7, <1>8, <1>9 DEF BlockInv

-----------------------------------------------------------------------------
LEMMA BlockInvInit == Init => BlockInv
<1> SUFFICES ASSUME Init PROVE BlockInv
  OBVIOUS
<1> USE DEF Init
<1> DEFINE c == Context(<<ObjectType>>, Null)
<1>1. c \in ContextType /\ c.phase = "body" /\ c.thrown = Null
  BY TypesHaveBases DEF Context, ContextType, Phases
<1> HIDE DEF c
<1>2. \A t \in Threads : blocks[t] = IF t = MainThread THEN <<c>> ELSE <<>>
  BY DEF c
<1>3. TypeOK
  <2>1. blocks \in [Threads -> Seq(ContextType)]
    BY <1>1, <1>2
  <2>2. global \in [Threads -> Address \cup {Null}]
    BY DEF Address
  <2>3. raised \in [Threads -> Seq(ContextType)]
    BY EmptySeq
  <2>4. outcome \in Outcomes /\ handled \in BOOLEAN
    BY DEF Outcomes
  <2>5. QED
    BY <2>1, <2>2, <2>3, <2>4 DEF TypeOK
<1>4. ThrownMarksDispatch
  BY <1>1, <1>2 DEF ThrownMarksDispatch
<1>5. DispatchIsHead
  BY <1>1, <1>2 DEF DispatchIsHead, Dispatching, Top
<1>6. QED
  BY <1>3, <1>4, <1>5 DEF BlockInv

LEMMA EnterEffect ==
    ASSUME BlockInv, NEW t \in Threads, NEW catches \in CatchLists, EnterTry(t, catches)
    PROVE  /\ BlockInv'
           /\ Len(blocks[t]) \in Nat
           /\ Len(blocks'[t]) = Len(blocks[t]) + 1
           /\ \A i \in 1..Len(blocks[t]) : blocks'[t][i] = blocks[t][i]
           /\ blocks'[t][Len(blocks[t]) + 1] = Context(catches, global[t])
           /\ \A u \in Threads \ {t} : blocks'[u] = blocks[u] /\ global'[u] = global[u]
           /\ global'[t] = <<t, Len(blocks[t]) + 1>>
<1> DEFINE c == Context(catches, global[t])
           n == Len(blocks[t])
           nb == Append(blocks[t], c)
<1>1. TypeOK /\ blocks[t] \in Seq(ContextType) /\ n \in Nat
  BY LenProperties DEF BlockInv, TypeOK
<1>2. c \in ContextType /\ c.phase = "body" /\ c.thrown = Null
  BY <1>1, ThreadsAssumption DEF Context, ContextType, Phases, TypeOK
<1>3. blocks' = [blocks EXCEPT ![t] = nb] /\ global' = [global EXCEPT ![t] = <<t, n + 1>>]
      /\ outcome' = outcome /\ handled' = handled /\ raised' = raised
  BY DEF EnterTry, Slot
<1> HIDE DEF c
<1>4. nb \in Seq(ContextType) /\ Len(nb) = n + 1 /\ nb[n + 1] = c
      /\ \A i \in 1..n : nb[i] = blocks[t][i]
  BY <1>1, <1>2, AppendProperties
<1> HIDE DEF nb
<1>5. /\ blocks'[t] = nb /\ global'[t] = <<t, n + 1>>
      /\ \A u \in Threads \ {t} : blocks'[u] = blocks[u] /\ global'[u] = global[u]
  BY <1>1, <1>3 DEF TypeOK
<1>6. TypeOK'
  BY <1>1, <1>3, <1>4 DEF TypeOK, Address
<1>7. ~ (\E i \in 1..n : blocks[t][i].phase = "dispatch")
  BY <1>1, EmptySeq DEF BlockInv, ThrownMarksDispatch, EnterTry, Executing, Top
<1>8. ThrownMarksDispatch'
  <2>1. \A d \in 1..(n + 1) : /\ nb[d].thrown = Null <=> nb[d].phase = "body"
                              /\ nb[d].phase = "dispatch" => d = n + 1
    BY <1>1, <1>2, <1>4, <1>7 DEF BlockInv, ThrownMarksDispatch
  <2>2. QED
    BY <1>4, <1>5, <2>1 DEF BlockInv, ThrownMarksDispatch
<1>9. DispatchIsHead'
  <2> SUFFICES ASSUME NEW u \in Threads, Dispatching(u)'
               PROVE  global'[u] = <<u, Len(blocks'[u])>>
    BY DEF DispatchIsHead
  <2>1. QED
    BY <1>3, <1>4, <1>5 DEF BlockInv, DispatchIsHead, Dispatching, Top
<1>10. QED
  BY <1>1, <1>4, <1>5, <1>6, <1>8, <1>9 DEF BlockInv, c

LEMMA CatchEffect ==
    ASSUME BlockInv, NEW t \in Threads, Catch(t)
    PROVE  /\ BlockInv'
           /\ Len(blocks[t]) \in Nat \ {0}
           /\ Len(blocks'[t]) = Len(blocks[t])
           /\ \A i \in 1..(Len(blocks[t]) - 1) : blocks'[t][i] = blocks[t][i]
           /\ blocks'[t][Len(blocks[t])].phase = "catch"
           /\ \A u \in Threads \ {t} : blocks'[u] = blocks[u] /\ global'[u] = global[u]
           /\ global'[t] = Top(t).prev
<1>1. Dispatching(t) /\ TypeOK
  BY DEF Catch, BlockInv
<1> DEFINE n == Len(blocks[t])
<1>2. /\ n \in Nat \ {0} /\ At(global[t]) = Top(t)
      /\ Top(t) \in ContextType /\ Top(t).prev \in Address \cup {Null}
      /\ Top(t).thrown \in Objects
  BY <1>1, DispatchingHead
<1>3. PICK i \in Accepting(t) :
        blocks' = [blocks EXCEPT ![t][n].phase = "catch", ![t][n].clause = i]
  BY DEF Catch
<1>4. i \in Nat
  BY <1>2, <1>3, LenProperties DEF Accepting, ContextType
<1> DEFINE x == [Top(t) EXCEPT !.phase = "catch", !.clause = i]
           nb == [blocks[t] EXCEPT ![n] = x]
<1>5. x \in ContextType /\ x.phase = "catch" /\ x.thrown # Null
  BY <1>2, <1>4, NullAssumption DEF ContextType, Phases
<1>6. blocks' = [blocks EXCEPT ![t] = nb]
  BY <1>1, <1>3 DEF TypeOK, Top
<1> HIDE DEF x
<1>7. blocks[t] \in Seq(ContextType) /\ n \in 1..Len(blocks[t])
  BY <1>1, <1>2 DEF TypeOK
<1>8. nb \in Seq(ContextType) /\ Len(nb) = n /\ nb[n] = x
      /\ \A j \in 1..(n - 1) : nb[j] = blocks[t][j]
  BY <1>5, <1>7, ExceptSeq
<1> HIDE DEF nb
<1>9. /\ blocks'[t] = nb /\ \A u \in Threads \ {t} : blocks'[u] = blocks[u]
  BY <1>1, <1>6 DEF TypeOK
<1>10. global' = [global EXCEPT ![t] = Top(t).prev] /\ outcome' = outcome
       /\ handled' = handled /\ raised' = [raised EXCEPT ![t] = <<>>]
  BY <1>2 DEF Catch, Slot
<1>11. TypeOK'
  BY <1>1, <1>2, <1>6, <1>8, <1>10 DEF TypeOK
<1>12. \A d \in 1..n : /\ nb[d].thrown = Null <=> nb[d].phase = "body"
                       /\ nb[d].phase # "dispatch"
  BY <1>2, <1>5, <1>8 DEF BlockInv, ThrownMarksDispatch
<1>13. ThrownMarksDispatch'
  BY <1>8, <1>9, <1>12 DEF BlockInv, ThrownMarksDispatch
<1>14. DispatchIsHead'
  <2> SUFFICES ASSUME NEW u \in Threads, Dispatching(u)'
               PROVE  global'[u] = <<u, Len(blocks'[u])>>
    BY DEF DispatchIsHead
  <2>1. u # t
    BY <1>2, <1>8, <1>9, <1>12 DEF Dispatching, Top
  <2>2. QED
    BY <1>1, <1>9, <1>10, <2>1 DEF BlockInv, DispatchIsHead, Dispatching, Top, TypeOK
<1>15. QED
  BY <1>1, <1>2, <1>5, <1>8, <1>9, <1>10, <1>11, <1>13, <1>14 DEF BlockInv, TypeOK

(* Throw and Rethrow, from the chain they throw to.                        *)
LEMMA ThrowStep ==
    ASSUME BlockInv, NEW t \in Threads, NEW e \in Objects, Throw(t, e)
    PROVE  /\ BlockInv'
           /\ global' = global
           /\ ThrowTo(t, global[t], e)
<1>1. TypeOK /\ global[t] \in Address \cup {Null}
  BY DEF BlockInv, TypeOK
<1>2. ThrowTo(t, global[t], e) /\ global' = global /\ handled' = handled
      /\ raised' = [raised EXCEPT ![t] = blocks[t]] /\ outcome = "running"
  BY DEF Throw, Slot, Executing
<1>3. raised' \in [Threads -> Seq(ContextType)] /\ global' = [global EXCEPT ![t] = global[t]]
  BY <1>1, <1>2 DEF TypeOK
<1>4. QED
  BY <1>1, <1>2, <1>3, ThrowKeepsBlocks

LEMMA RethrowStep ==
    ASSUME BlockInv, NEW t \in Threads, Rethrow(t)
    PROVE  /\ BlockInv'
           /\ global' = [global EXCEPT ![t] = Top(t).prev]
           /\ ThrowTo(t, Top(t).prev, Top(t).thrown)
<1>1. Dispatching(t) /\ TypeOK
  BY DEF Rethrow, BlockInv
<1>2. /\ At(global[t]) = Top(t)
      /\ Top(t).prev \in Address \cup {Null}
      /\ Top(t).thrown \in Objects
  BY <1>1, DispatchingHead
<1>3. /\ global' = [global EXCEPT ![t] = Top(t).prev]
      /\ ThrowTo(t, Top(t).prev, Top(t).thrown)
      /\ handled' = handled /\ raised' = raised
  BY <1>2 DEF Rethrow, Slot
<1>4. raised' \in [Threads -> Seq(ContextType)] /\ outcome = "running"
  BY <1>1, <1>3 DEF TypeOK, Dispatching
<1>5. QED
  BY <1>2, <1>3, <1>4, ThrowKeepsBlocks

(* A body that ends throws nothing: the head of the chain, if it exists,   *)
(* is popped, and its block with it.                                       *)
LEMMA EndBodyStep ==
    ASSUME BlockInv, NEW t \in Threads, EndBody(t)
    PROVE  BlockInv'
<1> DEFINE a == global[t]
<1>1. /\ TypeOK /\ a \in Address \cup {Null} /\ outcome = "running" /\ blocks[t] # <<>>
      /\ handled' = handled /\ raised' = raised
  BY DEF BlockInv, TypeOK, EndBody, Executing
<1>2. CASE (a = Null \/ ~ Live(a))
  <2>1. /\ blocks' = blocks /\ global' = global
        /\ outcome' \in Outcomes \ {"running"}
    BY <1>2 DEF EndBody, Slot, Segfault, Outcomes
  <2>2. TypeOK'
    BY <1>1, <2>1 DEF TypeOK
  <2>3. QED
    BY <2>1, <2>2 DEF BlockInv, ThrownMarksDispatch, DispatchIsHead, Dispatching
<1>3. CASE a # Null /\ Live(a)
  <2>1. At(a) \in ContextType
    <3>1. a[1] \in Threads /\ a[2] \in 1..Len(blocks[a[1]])
          /\ blocks[a[1]] \in Seq(ContextType)
      BY <1>1, <1>3, LenProperties DEF Live, Address, TypeOK
    <3>2. QED
      BY <3>1, ElementOfSeq DEF At
  <2>2. At(a).prev \in Address \cup {Null} /\ At(a).thrown \in Objects \cup {Null}
    BY <2>1 DEF ContextType
  <2>3. global' = [global EXCEPT ![t] = At(a).prev]
    BY <1>3 DEF EndBody, Slot
  <2>4. CASE At(a).thrown = Null
    <3>1. EndBlock(t, "exit0") /\ "exit0" \in Outcomes
      BY <1>3, <2>4 DEF EndBody, Slot, Outcomes
    <3>2. QED
      BY <1>1, <2>2, <2>3, <3>1, PopKeepsBlocks
  <2>5. CASE At(a).thrown # Null
    <3>1. ThrowTo(t, At(a).prev, At(a).thrown)
      BY <1>3, <2>5 DEF EndBody, Slot
    <3>2. raised' \in [Threads -> Seq(ContextType)]
      BY <1>1 DEF TypeOK
    <3>3. QED
      BY <1>1, <2>2, <2>3, <2>5, <3>1, <3>2, ThrowKeepsBlocks
  <2>6. QED
    BY <2>4, <2>5
<1>4. QED
  BY <1>2, <1>3

(* Leaving a catch body, or jumping out of a body, leaves the chain alone. *)
LEMMA LeaveStep ==
    ASSUME BlockInv, NEW t \in Threads, EndCatch(t) \/ LeaveBody(t)
    PROVE  /\ BlockInv'
           /\ global' = global
           /\ Len(blocks'[t]) = Len(blocks[t]) - 1
           /\ \A i \in 1..(Len(blocks[t]) - 1) : blocks'[t][i] = blocks[t][i]
           /\ \A u \in Threads \ {t} : blocks'[u] = blocks[u]
<1>1. /\ blocks[t] # <<>> /\ outcome = "running" /\ global' = global
      /\ handled' = handled /\ raised' = raised
      /\ EndBlock(t, "exit0") \/ EndBlock(t, "exit1")
  BY DEF EndCatch, LeaveBody, Executing
<1>2. global[t] \in Address \cup {Null} /\ global' = [global EXCEPT ![t] = global[t]]
  BY <1>1 DEF BlockInv, TypeOK
<1>3. "exit0" \in Outcomes /\ "exit1" \in Outcomes
  BY DEF Outcomes
<1>4. QED
  BY <1>1, <1>2, <1>3, PopKeepsBlocks

LEMMA BlockInvFrame ==
    ASSUME BlockInv, blocks' = blocks, global' = global, outcome' = outcome,
           handled' \in BOOLEAN, raised' = raised
    PROVE  BlockInv'
BY DEF BlockInv, TypeOK, ThrownMarksDispatch, DispatchIsHead, Dispatching, Top

LEMMA BlockInvNext == BlockInv /\ [Next]_vars => BlockInv'
<1> SUFFICES ASSUME BlockInv, [Next]_vars PROVE BlockInv'
  OBVIOUS
<1>1. ASSUME NEW t \in Threads, NEW catches \in CatchLists, EnterTry(t, catches)
      PROVE  BlockInv'
  BY <1>1, EnterEffect
<1>2. ASSUME NEW t \in Threads, NEW e \in Objects, Throw(t, e) PROVE BlockInv'
  BY <1>2, ThrowStep
<1>3. ASSUME NEW t \in Threads, Catch(t) PROVE BlockInv'
  BY <1>3, CatchEffect
<1>4. ASSUME NEW t \in Threads, Rethrow(t) PROVE BlockInv'
  BY <1>4, RethrowStep
<1>5. ASSUME NEW t \in Threads, EndBody(t) PROVE BlockInv'
  BY <1>5, EndBodyStep
<1>6. ASSUME NEW t \in Threads, EndCatch(t) \/ LeaveBody(t) PROVE BlockInv'
  BY <1>6, LeaveStep
<1>7. ASSUME NEW t \in Threads, EnableExceptions(t) \/ DisableExceptions(t) PROVE BlockInv'
  BY <1>7, BlockInvFrame DEF EnableExceptions, DisableExceptions
<1>8. CASE UNCHANGED vars
  BY <1>8, BlockInvFrame DEF vars, BlockInv, TypeOK
<1>9. QED
  BY <1>1, <1>2, <1>3, <1>4, <1>5, <1>6, <1>7, <1>8 DEF Next, Step

(* The program's memory has the shape the model says.                      *)
THEOREM TypeCorrect == Spec => []TypeOK
<1>1. BlockInv => TypeOK
  BY DEF BlockInv
<1>2. QED
  BY <1>1, BlockInvInit, BlockInvNext, PTL DEF Spec

(* For any number of threads, careless ones included: a context holds an   *)
(* object exactly from the throw to the end of its block, and only the     *)
(* innermost block of a thread chooses a clause.                           *)
THEOREM ThrownMarksDispatchAlways == Spec => []ThrownMarksDispatch
<1>1. BlockInv => ThrownMarksDispatch
  BY DEF BlockInv
<1>2. QED
  BY <1>1, BlockInvInit, BlockInvNext, PTL DEF Spec

-----------------------------------------------------------------------------
(***************************************************************************)
(* The chain of a careful thread. Each operation on a stack of blocks bs   *)
(* gives a stack nb that is again listed by the chain.                     *)
(***************************************************************************)
LEMMA InnermostAgrees ==
    ASSUME NEW bs, NEW nb, NEW t, NEW d \in Nat, NEW a,
           \A k \in 1..d : nb[k].phase = bs[k].phase,
           Innermost(bs, t, d, a)
    PROVE  Innermost(nb, t, d, a)
BY DEF Innermost

LEMMA PushChained ==
    ASSUME NEW bs, NEW nb, NEW t, NEW g, Chained(bs, t, g),
           Len(bs) \in Nat, Len(nb) = Len(bs) + 1,
           \A i \in 1..Len(bs) : nb[i] = bs[i],
           nb[Len(bs) + 1].phase = "body", nb[Len(bs) + 1].prev = g
    PROVE  Chained(nb, t, <<t, Len(bs) + 1>>)
<1> DEFINE n == Len(bs)
<1>1. Innermost(nb, t, n + 1, <<t, n + 1>>)
  BY DEF Innermost
<1>2. ASSUME NEW d \in 1..(n + 1), nb[d].phase # "catch"
      PROVE  Innermost(nb, t, d - 1, nb[d].prev)
  <2>1. d - 1 \in Nat /\ \A k \in 1..(d - 1) : nb[k].phase = bs[k].phase
    OBVIOUS
  <2>2. Innermost(bs, t, d - 1, nb[d].prev)
    <3>1. CASE d = n + 1
      BY <3>1 DEF Chained
    <3>2. CASE d # n + 1
      <4>1. d \in 1..n /\ nb[d] = bs[d]
        BY <3>2
      <4>2. QED
        BY <1>2, <4>1 DEF Chained
    <3>3. QED
      BY <3>1, <3>2
  <2>3. QED
    BY <2>1, <2>2, InnermostAgrees
<1>3. QED
  BY <1>1, <1>2 DEF Chained

(* Dropping the innermost block: its chain starts where its own link       *)
(* pointed if it was on the chain, and where it started if it was not.     *)
LEMMA PopChained ==
    ASSUME NEW bs, NEW nb, NEW t, NEW g, Chained(bs, t, g),
           Len(bs) \in Nat \ {0}, Len(nb) = Len(bs) - 1,
           \A i \in 1..(Len(bs) - 1) : nb[i] = bs[i]
    PROVE  Chained(nb, t, IF bs[Len(bs)].phase = "catch" THEN g ELSE bs[Len(bs)].prev)
<1> DEFINE n == Len(bs)
           h == IF bs[n].phase = "catch" THEN g ELSE bs[n].prev
<1>1. Innermost(bs, t, n - 1, h)
  <2>1. CASE bs[n].phase = "catch"
    BY <2>1 DEF Chained, Innermost
  <2>2. CASE bs[n].phase # "catch"
    BY <2>2 DEF Chained
  <2>3. QED
    BY <2>1, <2>2
<1> HIDE DEF h
<1>2. n - 1 \in Nat /\ \A k \in 1..(n - 1) : nb[k].phase = bs[k].phase
  OBVIOUS
<1>3. Innermost(nb, t, Len(nb), h)
  BY <1>1, <1>2, InnermostAgrees
<1>4. ASSUME NEW d \in 1..(n - 1), nb[d].phase # "catch"
      PROVE  Innermost(nb, t, d - 1, nb[d].prev)
  <2>1. d - 1 \in Nat /\ \A k \in 1..(d - 1) : nb[k].phase = bs[k].phase
    BY <1>2
  <2>2. Innermost(bs, t, d - 1, nb[d].prev)
    <3>1. d \in 1..n /\ nb[d] = bs[d]
      OBVIOUS
    <3>2. QED
      BY <1>4, <3>1 DEF Chained
  <2>3. QED
    BY <2>1, <2>2, InnermostAgrees
<1>5. QED
  BY <1>3, <1>4 DEF Chained, h

(* catch: the innermost block leaves the chain but not the stack.          *)
LEMMA CatchChained ==
    ASSUME NEW bs, NEW nb, NEW t, NEW g, Chained(bs, t, g),
           Len(bs) \in Nat \ {0}, Len(nb) = Len(bs),
           \A i \in 1..(Len(bs) - 1) : nb[i] = bs[i],
           bs[Len(bs)].phase # "catch", nb[Len(bs)].phase = "catch"
    PROVE  Chained(nb, t, bs[Len(bs)].prev)
<1> DEFINE n == Len(bs)
           h == bs[n].prev
<1>1. Innermost(bs, t, n - 1, h)
  BY DEF Chained
<1> HIDE DEF h
<1>2. n - 1 \in Nat /\ \A k \in 1..(n - 1) : nb[k].phase = bs[k].phase
  OBVIOUS
<1>3. Innermost(nb, t, n - 1, h)
  BY <1>1, <1>2, InnermostAgrees
<1>4. Innermost(nb, t, n, h)
  BY <1>3 DEF Innermost
<1>5. ASSUME NEW d \in 1..n, nb[d].phase # "catch"
      PROVE  Innermost(nb, t, d - 1, nb[d].prev)
  <2>1. d \in 1..(n - 1) /\ d - 1 \in Nat /\ nb[d] = bs[d]
        /\ \A k \in 1..(d - 1) : nb[k].phase = bs[k].phase
    BY <1>2, <1>5
  <2>2. Innermost(bs, t, d - 1, nb[d].prev)
    BY <1>5, <2>1 DEF Chained
  <2>3. QED
    BY <2>1, <2>2, InnermostAgrees
<1>6. QED
  BY <1>4, <1>5 DEF Chained, h

(* A throw that lands at block k cuts the stack there.                     *)
LEMMA LandChained ==
    ASSUME NEW bs, NEW nb, NEW t, NEW g, Chained(bs, t, g),
           Len(bs) \in Nat, NEW k \in 1..Len(bs), Len(nb) = k,
           \A i \in 1..(k - 1) : nb[i] = bs[i], bs[k].phase # "catch",
           nb[k].phase # "catch", nb[k].prev = bs[k].prev
    PROVE  Chained(nb, t, <<t, k>>)
<1>1. Innermost(nb, t, k, <<t, k>>)
  BY DEF Innermost
<1>2. ASSUME NEW d \in 1..k, nb[d].phase # "catch"
      PROVE  Innermost(nb, t, d - 1, nb[d].prev)
  <2>1. d \in 1..Len(bs) /\ d - 1 \in Nat /\ nb[d].prev = bs[d].prev
        /\ bs[d].phase # "catch"
        /\ \A i \in 1..(d - 1) : nb[i].phase = bs[i].phase
    BY <1>2
  <2>2. Innermost(bs, t, d - 1, nb[d].prev)
    BY <2>1 DEF Chained
  <2>3. QED
    BY <2>1, <2>2, InnermostAgrees
<1>3. QED
  BY <1>1, <1>2 DEF Chained

-----------------------------------------------------------------------------
(* An exception thrown into an intact chain reaches a live context of its  *)
(* own thread, whose chain is then intact, or finds no context at all.     *)
LEMMA ThrowIntoIntactChain ==
    ASSUME BlockInv, NEW t \in Threads, NEW d \in 0..Len(blocks[t]),
           NEW a \in Address \cup {Null}, NEW e \in Objects,
           ChainIntact(t), Innermost(blocks[t], t, d, a),
           \A k \in 1..Len(blocks[t]) :
               blocks[t][k].phase = "dispatch" => k > d,
           outcome = "running", ThrowTo(t, a, e),
           global' = [global EXCEPT ![t] = a]
    PROVE  /\ outcome' # "undefined"
           /\ outcome' = "running" => ChainIntact(t)'
<1>1. TypeOK /\ blocks[t] \in Seq(ContextType) /\ Len(blocks[t]) \in Nat
      /\ global'[t] = a
  BY LenProperties DEF BlockInv, TypeOK
<1>2. CASE a = Null
  BY <1>2 DEF ThrowTo, Segfault
<1>3. CASE a # Null
  <2>1. PICK k \in 1..d : a = <<t, k>> /\ blocks[t][k].phase # "catch"
    BY <1>3 DEF Innermost
  <2>2. k \in 1..Len(blocks[t]) /\ k \in Nat
    BY <1>1, <2>1
  <2>3. blocks[t][k] \in ContextType
    BY <1>1, <2>2, ElementOfSeq
  <2>4. blocks[t][k].phase = "body"
    BY <1>1, <2>1, <2>2, <2>3 DEF ContextType, Phases
  <2>5. Live(a) /\ a[1] = t /\ At(a).phase = "body"
    BY <1>1, <2>1, <2>2, <2>4, LenProperties DEF Live, At, Address
  <2>6. outcome' = "running"
    BY <1>3, <2>5 DEF ThrowTo
  <2>7. PICK i \in Nat : a = <<t, i>> /\ LandsAt(t, i, e)
    BY <1>1, <2>6, ThrowEffect
  <2>8. LandsAt(t, k, e)
    BY <2>1, <2>7
  <2>9. blocks'[t][k].prev = blocks[t][k].prev /\ blocks'[t][k].phase = "dispatch"
    BY <2>3, <2>8 DEF LandsAt, ContextType
  <2>10. Chained(blocks'[t], t, <<t, k>>)
    BY <1>1, <2>1, <2>2, <2>8, <2>9, LandChained DEF LandsAt, ChainIntact
  <2>11. QED
    BY <1>1, <2>1, <2>6, <2>10 DEF ChainIntact
<1>4. QED
  BY <1>2, <1>3

(***************************************************************************)
(* A step of a thread whose chain is intact, if it does not jump out of a  *)
(* body, keeps the chain intact and never runs into undefined behaviour.   *)
(***************************************************************************)
LEMMA IntactStep ==
    ASSUME BlockInv, NEW t \in Threads, ChainIntact(t), outcome = "running",
           \/ \E catches \in CatchLists : EnterTry(t, catches)
           \/ \E e \in Objects : Throw(t, e)
           \/ Catch(t) \/ Rethrow(t) \/ EndBody(t) \/ EndCatch(t)
    PROVE  /\ outcome' # "undefined"
           /\ outcome' = "running" => ChainIntact(t)'
<1> DEFINE n == Len(blocks[t])
<1>1. /\ TypeOK /\ blocks[t] \in Seq(ContextType) /\ n \in Nat
      /\ global[t] \in Address \cup {Null}
      /\ Chained(blocks[t], t, global[t])
      /\ blocks[t] # <<>> => n \in Nat \ {0}
  BY LenProperties, EmptySeq DEF BlockInv, TypeOK, ChainIntact
<1>2. CASE \E catches \in CatchLists : EnterTry(t, catches)
  <2>1. PICK catches \in CatchLists : EnterTry(t, catches)
    BY <1>2
  <2>2. outcome' # "undefined"
    BY <2>1 DEF EnterTry
  <2>3. /\ Len(blocks'[t]) = n + 1 /\ \A i \in 1..n : blocks'[t][i] = blocks[t][i]
        /\ blocks'[t][n + 1] = Context(catches, global[t])
        /\ global'[t] = <<t, n + 1>>
    BY <2>1, EnterEffect
  <2>4. blocks'[t][n + 1].phase = "body" /\ blocks'[t][n + 1].prev = global[t]
    BY <2>3 DEF Context
  <2>5. Chained(blocks'[t], t, <<t, n + 1>>)
    BY <1>1, <2>3, <2>4, PushChained
  <2>6. QED
    BY <2>2, <2>3, <2>5 DEF ChainIntact
<1>3. CASE \E e \in Objects : Throw(t, e)
  <2>1. PICK e \in Objects : Throw(t, e)
    BY <1>3
  <2>2. ThrowTo(t, global[t], e) /\ global' = [global EXCEPT ![t] = global[t]]
    BY <1>1, <2>1, ThrowStep DEF TypeOK
  <2>3. \A k \in 1..n : blocks[t][k].phase # "dispatch"
    BY <1>1, <2>1, EmptySeq DEF Throw, Executing, Top, BlockInv, ThrownMarksDispatch
  <2>4. n \in 0..n /\ Innermost(blocks[t], t, n, global[t])
    BY <1>1 DEF Chained
  <2>5. QED
    BY <1>1, <2>2, <2>3, <2>4, ThrowIntoIntactChain
<1>4. CASE Catch(t)
  <2>1. outcome' # "undefined"
    BY <1>4 DEF Catch
  <2>2. Top(t).phase = "dispatch" /\ n \in Nat \ {0}
    BY <1>1, <1>4 DEF Catch, Dispatching
  <2>3. /\ Len(blocks'[t]) = n
        /\ \A i \in 1..(n - 1) : blocks'[t][i] = blocks[t][i]
        /\ blocks'[t][n].phase = "catch"
        /\ global'[t] = blocks[t][n].prev
    BY <1>4, CatchEffect DEF Top
  <2>4. Chained(blocks'[t], t, blocks[t][n].prev)
    BY <1>1, <2>2, <2>3, CatchChained DEF Top
  <2>5. QED
    BY <2>1, <2>3, <2>4 DEF ChainIntact
<1>5. CASE Rethrow(t)
  <2>1. /\ ThrowTo(t, Top(t).prev, Top(t).thrown)
        /\ global' = [global EXCEPT ![t] = Top(t).prev]
    BY <1>5, RethrowStep
  <2>2. /\ Top(t).phase = "dispatch" /\ n \in Nat \ {0}
        /\ Top(t).prev \in Address \cup {Null} /\ Top(t).thrown \in Objects
    BY <1>1, <1>5, DispatchingHead DEF Rethrow, Dispatching
  <2>3. n - 1 \in 0..n /\ Innermost(blocks[t], t, n - 1, Top(t).prev)
    BY <1>1, <2>2 DEF Chained, Top
  <2>4. \A k \in 1..n : blocks[t][k].phase = "dispatch" => k > n - 1
    BY <1>1 DEF BlockInv, ThrownMarksDispatch
  <2>5. QED
    BY <2>1, <2>2, <2>3, <2>4, ThrowIntoIntactChain
<1>6. CASE EndBody(t)
  <2>1. Top(t).phase = "body" /\ n \in Nat \ {0}
    BY <1>1, <1>6 DEF EndBody
  <2>2. global[t] = <<t, n>>
    BY <1>1, <2>1 DEF Chained, Innermost, Top
  <2>3. Live(global[t]) /\ global[t] # Null /\ At(global[t]) = Top(t)
    BY <1>1, <2>1, <2>2, NullAssumption, LenProperties DEF Live, At, Top, Address
  <2>4. Top(t).thrown = Null
    BY <2>1 DEF BlockInv, ThrownMarksDispatch, Top
  <2>5. EndBlock(t, "exit0") /\ global' = [global EXCEPT ![t] = Top(t).prev]
        /\ handled' = handled /\ raised' = raised /\ blocks[t] # <<>>
    BY <1>6, <2>3, <2>4 DEF EndBody, Slot
  <2>6. Top(t) \in ContextType
    BY <1>1, <2>1, ElementOfSeq DEF Top
  <2>7. Top(t).prev \in Address \cup {Null} /\ "exit0" \in Outcomes
    BY <2>6 DEF ContextType, Outcomes
  <2>8. /\ Len(blocks'[t]) = n - 1
        /\ \A i \in 1..(n - 1) : blocks'[t][i] = blocks[t][i]
    BY <2>5, <2>7, PopKeepsBlocks
  <2>9. Chained(blocks'[t], t, IF blocks[t][n].phase = "catch" THEN global[t]
                                ELSE blocks[t][n].prev)
    BY <1>1, <2>1, <2>8, PopChained
  <2>10. global'[t] = blocks[t][n].prev
    BY <1>1, <2>5 DEF Top, TypeOK
  <2>11. outcome' # "undefined"
    BY <2>5 DEF EndBlock
  <2>12. QED
    BY <2>1, <2>9, <2>10, <2>11 DEF ChainIntact, Top
<1>7. CASE EndCatch(t)
  <2>1. Top(t).phase = "catch" /\ n \in Nat \ {0}
    BY <1>1, <1>7 DEF EndCatch
  <2>2. /\ Len(blocks'[t]) = n - 1 /\ global'[t] = global[t]
        /\ \A i \in 1..(n - 1) : blocks'[t][i] = blocks[t][i]
    BY <1>7, LeaveStep
  <2>3. Chained(blocks'[t], t, IF blocks[t][n].phase = "catch" THEN global[t]
                                ELSE blocks[t][n].prev)
    BY <1>1, <2>1, <2>2, PopChained
  <2>4. outcome' # "undefined"
    BY <1>7 DEF EndCatch, EndBlock
  <2>5. QED
    BY <2>1, <2>2, <2>3, <2>4 DEF ChainIntact, Top
<1>8. QED
  BY <1>2, <1>3, <1>4, <1>5, <1>6, <1>7

-----------------------------------------------------------------------------
(* The steps of thread t.                                                  *)
StepOf(t) ==
    \/ \E catches \in CatchLists : EnterTry(t, catches)
    \/ \E e \in Objects : Throw(t, e)
    \/ Catch(t) \/ Rethrow(t) \/ EndBody(t) \/ EndCatch(t)

(* The context variable is thread-local: nobody else's chain changes.      *)
LEMMA OthersUntouched ==
    ASSUME BlockInv, NEW t \in Threads, NEW u \in Threads \ {t},
           StepOf(t) \/ LeaveBody(t)
    PROVE  blocks'[u] = blocks[u] /\ global'[u] = global[u] /\ outcome = "running"
<1>1. blocks \in [Threads -> Seq(ContextType)] /\ global \in [Threads -> Address \cup {Null}]
  BY DEF BlockInv, TypeOK
<1>2. ASSUME NEW a, NEW e, ThrowTo(t, a, e) PROVE blocks'[u] = blocks[u]
  BY <1>1, <1>2 DEF ThrowTo, Segfault
<1>3. CASE \E catches \in CatchLists : EnterTry(t, catches)
  BY <1>1, <1>3 DEF EnterTry, Slot, Executing
<1>4. CASE \E e \in Objects : Throw(t, e)
  BY <1>1, <1>2, <1>4 DEF Throw, Executing
<1>5. CASE Catch(t)
  BY <1>1, <1>5 DEF Catch, Slot, Dispatching
<1>6. CASE Rethrow(t)
  BY <1>1, <1>2, <1>6 DEF Rethrow, Slot, Dispatching
<1>7. CASE EndBody(t)
  <2>1. outcome = "running"
    BY <1>7 DEF EndBody, Executing
  <2>2. global'[u] = global[u]
    BY <1>1, <1>7 DEF EndBody, Slot
  <2>3. blocks'[u] = blocks[u]
    BY <1>1, <1>2, <1>7 DEF EndBody, Slot, Segfault, EndBlock
  <2>4. QED
    BY <2>1, <2>2, <2>3
<1>8. CASE EndCatch(t) \/ LeaveBody(t)
  BY <1>1, <1>8 DEF EndCatch, LeaveBody, EndBlock, Executing
<1>9. QED
  BY <1>3, <1>4, <1>5, <1>6, <1>7, <1>8 DEF StepOf

LEMMA NextSteps ==
    ASSUME Next
    PROVE  \E t \in Threads :
              \/ StepOf(t)
              \/ LeaveBody(t)
              \/ UNCHANGED <<blocks, global, outcome>>
BY DEF Next, Step, StepOf, EnableExceptions, DisableExceptions

LEMMA ChainInit == Init => ChainMatchesBlocks
<1> SUFFICES ASSUME Init, NEW t \in Threads PROVE ChainIntact(t)
  BY DEF ChainMatchesBlocks
<1>1. CASE t = MainThread
  <2> DEFINE c == Context(<<ObjectType>>, Null)
  <2>1. c.phase = "body" /\ c.prev = Null
    BY DEF Context
  <2> HIDE DEF c
  <2>2. blocks[t] = <<c>> /\ global[t] = <<t, 1>>
    BY <1>1 DEF Init, c
  <2>3. Len(blocks[t]) = 1 /\ blocks[t][1] = c
    BY <2>2
  <2>4. QED
    BY <2>1, <2>2, <2>3 DEF ChainIntact, Chained, Innermost
<1>2. CASE t # MainThread
  <2>1. blocks[t] = <<>> /\ global[t] = Null
    BY <1>2 DEF Init
  <2>2. Len(blocks[t]) = 0
    BY <2>1
  <2>3. QED
    BY <2>1, <2>2 DEF ChainIntact, Chained, Innermost
<1>3. QED
  BY <1>1, <1>2

LEMMA ChainNext == BlockInv /\ ChainMatchesBlocks /\ [Next]_vars => ChainMatchesBlocks'
<1> SUFFICES ASSUME BlockInv, ChainMatchesBlocks, [Next]_vars, outcome' = "running",
                    NEW u \in Threads \ Careless
             PROVE  ChainIntact(u)'
  BY DEF ChainMatchesBlocks
<1>1. CASE UNCHANGED <<blocks, global, outcome>>
  BY <1>1 DEF ChainMatchesBlocks, ChainIntact
<1>2. ASSUME NEW t \in Threads, StepOf(t) \/ LeaveBody(t)
      PROVE  ChainIntact(u)'
  <2>1. CASE t # u
    BY <1>2, <2>1, OthersUntouched DEF ChainMatchesBlocks, ChainIntact
  <2>2. CASE t = u
    <3>1. StepOf(t) /\ outcome = "running"
      BY <1>2, <2>2 DEF LeaveBody, StepOf, EnterTry, Throw, Catch, Rethrow, EndBody,
                        EndCatch, Executing, Dispatching
    <3>2. ChainIntact(t)
      BY <2>2, <3>1 DEF ChainMatchesBlocks
    <3>3. QED
      BY <2>2, <3>1, <3>2, IntactStep DEF StepOf
  <2>3. QED
    BY <2>1, <2>2
<1>3. CASE UNCHANGED vars
  BY <1>1, <1>3 DEF vars
<1>4. QED
  BY <1>1, <1>2, <1>3, NextSteps

(***************************************************************************)
(* However its try statements nest and whatever it throws, a thread that   *)
(* never jumps out of a try body has a chain that is exactly the list of   *)
(* its try statements that can still catch, no matter what others do.      *)
(***************************************************************************)
THEOREM ChainMatchesBlocksAlways == Spec => []ChainMatchesBlocks
<1> DEFINE IInv == BlockInv /\ ChainMatchesBlocks
<1>1. Init => IInv
  BY BlockInvInit, ChainInit
<1>2. IInv /\ [Next]_vars => IInv'
  BY BlockInvNext, ChainNext
<1>3. IInv => ChainMatchesBlocks
  OBVIOUS
<1>4. QED
  BY <1>1, <1>2, <1>3, PTL DEF Spec

(***************************************************************************)
(* If no thread ever jumps out of a try body, no longjmp ever reaches a    *)
(* context that is gone and none is read: error.h has no other way into    *)
(* undefined behaviour.                                                    *)
(***************************************************************************)
THEOREM CarefulProgramsAreDefined ==
    ASSUME Careless = {}
    PROVE  Spec => [](outcome # "undefined")
<1> DEFINE IInv == BlockInv /\ ChainMatchesBlocks /\ outcome # "undefined"
<1>1. Init => IInv
  BY BlockInvInit, ChainInit DEF Init
<1>2. IInv /\ [Next]_vars => IInv'
  <2> SUFFICES ASSUME IInv, [Next]_vars PROVE outcome' # "undefined"
    BY BlockInvNext, ChainNext
  <2>1. CASE UNCHANGED vars \/ UNCHANGED <<blocks, global, outcome>>
    BY <2>1 DEF vars
  <2>2. ASSUME NEW t \in Threads, StepOf(t) PROVE outcome' # "undefined"
    <3>1. outcome = "running"
      BY <2>2 DEF StepOf, EnterTry, Throw, Catch, Rethrow, EndBody, EndCatch,
                  Executing, Dispatching
    <3>2. ChainIntact(t)
      BY <3>1 DEF ChainMatchesBlocks
    <3>3. QED
      BY <2>2, <3>1, <3>2, IntactStep DEF StepOf
  <2>3. ASSUME NEW t \in Threads, LeaveBody(t) PROVE FALSE
    BY <2>3 DEF LeaveBody
  <2>4. QED
    BY <2>1, <2>2, <2>3, NextSteps
<1>3. IInv => outcome # "undefined"
  OBVIOUS
<1>4. QED
  BY <1>1, <1>2, <1>3, PTL DEF Spec
(***************************************************************************)
(* A step into undefined behaviour leaves the blocks as they are, and the  *)
(* chain that was broken before it is broken after it.                     *)
(***************************************************************************)
LEMMA UndefinedStep ==
    ASSUME BlockInv, NEW t \in Threads, StepOf(t), outcome' = "undefined"
    PROVE  ~ ChainIntact(t)'
<1> DEFINE n == Len(blocks[t])
<1>1. /\ outcome = "running" /\ TypeOK
      /\ blocks[t] \in Seq(ContextType) /\ n \in Nat /\ global[t] \in Address \cup {Null}
      /\ blocks[t] # <<>> => n \in Nat \ {0}
  BY LenProperties, EmptySeq
     DEF StepOf, EnterTry, Throw, Catch, Rethrow, EndBody, EndCatch, Executing, Dispatching,
         BlockInv, TypeOK
<1>2. ~ ChainIntact(t)
  BY <1>1, IntactStep DEF StepOf
<1>3. ASSUME NEW a \in Address \cup {Null}, NEW e \in Objects, ThrowTo(t, a, e)
      PROVE  blocks' = blocks /\ \A k \in 1..n : a = <<t, k>> => blocks[t][k].phase # "body"
  <2>1. blocks' = blocks
    BY <1>1, <1>3 DEF ThrowTo, Segfault
  <2>2. ~ (Live(a) /\ a[1] = t /\ At(a).phase = "body") /\ a # Null
    BY <1>1, <1>3 DEF ThrowTo, Segfault
  <2>3. QED
    BY <1>1, <2>1, <2>2, LenProperties DEF Live, At, Address
<1>4. CASE \E e \in Objects : Throw(t, e)
  <2>1. PICK e \in Objects : Throw(t, e)
    BY <1>4
  <2>2. global' = global /\ ThrowTo(t, global[t], e)
    BY <2>1, ThrowStep
  <2>3. blocks' = blocks
    BY <1>1, <1>3, <2>2
  <2>4. QED
    BY <1>2, <2>2, <2>3 DEF ChainIntact
<1>5. CASE Rethrow(t)
  <2>1. /\ global[t] = <<t, n>> /\ Top(t).phase = "dispatch" /\ n \in Nat \ {0}
        /\ Top(t).prev \in Address \cup {Null} /\ Top(t).thrown \in Objects
        /\ ThrowTo(t, Top(t).prev, Top(t).thrown)
    BY <1>5, DispatchingHead, RethrowStep DEF Rethrow, Dispatching
  <2>2. blocks' = blocks
    BY <1>3, <2>1
  <2>3. Innermost(blocks[t], t, n, global[t])
    BY <2>1 DEF Innermost, Top
  <2>4. QED
    BY <1>2, <2>2, <2>3 DEF ChainIntact, Chained
<1>6. CASE EndBody(t)
  <2> DEFINE a == global[t]
  <2>1. /\ blocks[t] # <<>> /\ n \in Nat \ {0} /\ blocks[t][n].phase = "body"
        /\ a # Null
    BY <1>1, <1>6 DEF EndBody, Top, Slot, Segfault
  <2>2. CASE ~ Live(a)
    <3>1. blocks' = blocks /\ global' = global
      BY <1>6, <2>1, <2>2 DEF EndBody, Slot
    <3>2. QED
      BY <1>2, <3>1 DEF ChainIntact
  <2>3. CASE Live(a)
    <3>1. At(a) \in ContextType
      <4>1. a[1] \in Threads /\ a[2] \in 1..Len(blocks[a[1]])
            /\ blocks[a[1]] \in Seq(ContextType)
        BY <1>1, <2>1, <2>3, LenProperties DEF Live, Address, TypeOK
      <4>2. QED
        BY <4>1, ElementOfSeq DEF At
    <3>2. At(a).thrown # Null /\ ThrowTo(t, At(a).prev, At(a).thrown)
      BY <1>1, <1>6, <2>1, <2>3 DEF EndBody, Slot, EndBlock
    <3>3. At(a).prev \in Address \cup {Null} /\ At(a).thrown \in Objects
      BY <3>1, <3>2 DEF ContextType
    <3>4. blocks' = blocks /\ At(a).prev # <<t, n>>
      <4>1. /\ blocks' = blocks
            /\ \A k \in 1..n : At(a).prev = <<t, k>> => blocks[t][k].phase # "body"
        BY <1>3, <3>2, <3>3
      <4>2. n \in 1..n
        BY <2>1
      <4>3. QED
        BY <2>1, <4>1, <4>2
    <3>5. global'[t] = At(a).prev
      BY <1>1, <1>6, <2>1, <2>3 DEF EndBody, Slot, TypeOK
    <3>6. ~ Innermost(blocks[t], t, n, At(a).prev)
      BY <2>1, <3>4 DEF Innermost
    <3>7. QED
      BY <3>4, <3>5, <3>6 DEF ChainIntact, Chained
  <2>4. QED
    BY <2>2, <2>3
<1>7. CASE \/ \E catches \in CatchLists : EnterTry(t, catches)
           \/ Catch(t) \/ EndCatch(t)
  BY <1>1, <1>7 DEF EnterTry, Catch, EndCatch, EndBlock
<1>8. QED
  BY <1>4, <1>5, <1>6, <1>7 DEF StepOf

LEMMA UndefinedNext ==
    ASSUME BlockInv, ChainMatchesBlocks, NEW t \in Threads, Step(t), outcome' = "undefined",
           outcome # "undefined"
    PROVE  t \in Careless /\ ~ ChainIntact(t)
<1>1. CASE StepOf(t)
  <2>1. outcome = "running" /\ ~ ChainIntact(t)'
    BY <1>1, UndefinedStep
       DEF StepOf, EnterTry, Throw, Catch, Rethrow, EndBody, EndCatch, Executing, Dispatching
  <2>2. ~ ChainIntact(t)
    BY <1>1, <2>1, IntactStep DEF StepOf
  <2>3. QED
    BY <2>1, <2>2 DEF ChainMatchesBlocks
<1>2. CASE LeaveBody(t)
  BY <1>2 DEF LeaveBody, EndBlock
<1>3. CASE EnableExceptions(t) \/ DisableExceptions(t)
  BY <1>3 DEF EnableExceptions, DisableExceptions
<1>4. QED
  BY <1>1, <1>2, <1>3 DEF Step, StepOf

(* Every step is taken while the process runs.                             *)
LEMMA StepRuns ==
    ASSUME NEW t \in Threads, Step(t)
    PROVE  outcome = "running"
BY DEF Step, EnterTry, Throw, Catch, Rethrow, EndBody, EndCatch, LeaveBody,
       EnableExceptions, DisableExceptions, Executing, Dispatching

(***************************************************************************)
(* However many threads jump out of try bodies, no step has undefined      *)
(* behaviour but one of such a thread whose own chain no longer lists its  *)
(* try statements: the careful threads beside it never take such a step.   *)
(***************************************************************************)
THEOREM UndefinedNeedsBrokenChainAlways == Spec => UndefinedNeedsBrokenChain
<1> DEFINE IInv == BlockInv /\ ChainMatchesBlocks
           Undefined(t) == Step(t) /\ outcome' = "undefined"
           Explained == \A t \in Threads : Undefined(t) => t \in Careless /\ ~ ChainIntact(t)
<1>1. Init => IInv
  BY BlockInvInit, ChainInit
<1>2. IInv /\ [Next]_vars => IInv'
  BY BlockInvNext, ChainNext
<1>3. IInv => Explained
  BY UndefinedNext, StepRuns
<1> HIDE DEF IInv
<1>4. IInv /\ [Next]_vars => [Explained]_vars
  BY <1>3
<1>5. QED
  BY <1>1, <1>2, <1>4, PTL DEF Spec, UndefinedNeedsBrokenChain, Explained, Undefined

-----------------------------------------------------------------------------
(***************************************************************************)
(* In a program that never jumps out of a try body, every step of the      *)
(* chain of throw contexts is a step that Exceptions allows, or none: the  *)
(* proof of the safety part of ImplementsExceptions.                       *)
(***************************************************************************)
(* No clause of the try statement c accepts e.                             *)
Refuses(c, e) == \A i \in DOMAIN c.catches : ~ IsInstance(c.catches[i], TypeOf[e])

(***************************************************************************)
(* t looks for a handler in the stack bs, after a throw in the stack rs:   *)
(* bs is what is left of rs, its innermost block is one whose body was     *)
(* running at the throw, and every body rs had inside it has refused.      *)
(***************************************************************************)
LeftOf(rs, bs) ==
    LET n == Len(bs)
    IN  /\ n \in 1..Len(rs)
        /\ \A i \in 1..(n - 1) : rs[i] = bs[i]
        /\ rs[n].phase = "body" /\ rs[n].catches = bs[n].catches
        /\ \A k \in (n + 1)..Len(rs) : rs[k].phase = "body" => Refuses(rs[k], bs[n].thrown)

(* The number of the clause marks the blocks that are in a catch body.     *)
Marked(c) == c.clause = 0 <=> c.phase # "catch"

ClausesMark(bs) == \A d \in 1..Len(bs) : Marked(bs[d])

(* In the stack at a throw, the others run their bodies: none dispatches.  *)
Settled(rs) == \A d \in 1..Len(rs) : rs[d].clause = 0 <=> rs[d].phase = "body"

SearchOf(t) == LeftOf(raised[t], blocks[t]) /\ Settled(raised[t])

SearchInv ==
    /\ \A t \in Threads : ClausesMark(blocks[t])
    /\ outcome = "running" => \A t \in Threads : InFlight(t) => SearchOf(t)

-----------------------------------------------------------------------------
(* What the operations do to the stack bs of a thread, which becomes nb.   *)
Landed(bs, nb, k, e) ==
    /\ k \in 1..Len(bs) /\ bs[k].phase = "body"
    /\ Len(nb) = k
    /\ \A i \in 1..(k - 1) : nb[i] = bs[i]
    /\ nb[k] = [bs[k] EXCEPT !.thrown = e, !.phase = "dispatch"]

Ended(bs, nb) ==
    /\ Len(bs) \in Nat \ {0} /\ Len(nb) = Len(bs) - 1
    /\ \A i \in 1..(Len(bs) - 1) : nb[i] = bs[i]

Caught(bs, nb, i) ==
    /\ Len(bs) \in Nat \ {0} /\ Len(nb) = Len(bs)
    /\ \A k \in 1..(Len(bs) - 1) : nb[k] = bs[k]
    /\ nb[Len(bs)] = [bs[Len(bs)] EXCEPT !.phase = "catch", !.clause = i]

(* A throw to the context a found in an intact chain: it lands on the      *)
(* innermost running body among the first d blocks, or ends the process    *)
(* because there is none.                                                  *)
LEMMA IntactThrow ==
    ASSUME BlockInv, NEW t \in Threads, NEW d \in 0..Len(blocks[t]),
           NEW a \in Address \cup {Null}, NEW e \in Objects,
           Innermost(blocks[t], t, d, a),
           \A k \in 1..Len(blocks[t]) : blocks[t][k].phase = "dispatch" => k > d,
           outcome = "running", ThrowTo(t, a, e)
    PROVE  \/ /\ \A k \in 1..d : blocks[t][k].phase = "catch"
              /\ outcome' \in {"exit1", "killed"} /\ blocks' = blocks
           \/ /\ outcome' = "running"
              /\ \A u \in Threads \ {t} : blocks'[u] = blocks[u]
              /\ \E k \in 1..d : /\ Landed(blocks[t], blocks'[t], k, e)
                                 /\ \A j \in (k + 1)..d : blocks[t][j].phase = "catch"
<1>1. TypeOK /\ blocks[t] \in Seq(ContextType) /\ Len(blocks[t]) \in Nat
  BY LenProperties DEF BlockInv, TypeOK
<1>2. CASE a = Null
  <2>1. \A k \in 1..d : blocks[t][k].phase = "catch"
    BY <1>2, NullAssumption DEF Innermost, Address
  <2>2. QED
    BY <1>2, <2>1 DEF ThrowTo, Segfault
<1>3. CASE a # Null
  <2>1. PICK k \in 1..d : /\ a = <<t, k>> /\ blocks[t][k].phase # "catch"
                          /\ \A j \in (k + 1)..d : blocks[t][j].phase = "catch"
    BY <1>3 DEF Innermost
  <2>2. k \in 1..Len(blocks[t]) /\ k \in Nat
    BY <1>1, <2>1
  <2>3. blocks[t][k] \in ContextType
    BY <1>1, <2>2, ElementOfSeq
  <2>4. blocks[t][k].phase = "body"
    BY <1>1, <2>1, <2>2, <2>3 DEF ContextType, Phases
  <2>5. Live(a) /\ a[1] = t /\ At(a).phase = "body"
    BY <1>1, <2>1, <2>2, <2>4, LenProperties DEF Live, At, Address
  <2>6. outcome' = "running"
    BY <1>3, <2>5 DEF ThrowTo
  <2>7. PICK i \in Nat : a = <<t, i>> /\ LandsAt(t, i, e)
    BY <1>1, <2>6, ThrowEffect
  <2>8. LandsAt(t, k, e)
    BY <2>1, <2>7
  <2>9. Landed(blocks[t], blocks'[t], k, e)
    BY <2>8 DEF LandsAt, Landed
  <2>10. QED
    BY <2>1, <2>6, <2>8, <2>9 DEF LandsAt
<1>4. QED
  BY <1>2, <1>3

(***************************************************************************)
(* A step of a thread t whose chain is intact, as it changes the stack of  *)
(* t and the stack remembered from its throw. Nobody else's changes.       *)
(***************************************************************************)
Entering(t) ==
    \E catches \in CatchLists :
        /\ ~ InFlight(t) /\ outcome' = "running" /\ raised'[t] = raised[t]
        /\ Len(blocks[t]) \in Nat /\ Len(blocks'[t]) = Len(blocks[t]) + 1
        /\ \A i \in 1..Len(blocks[t]) : blocks'[t][i] = blocks[t][i]
        /\ blocks'[t][Len(blocks[t]) + 1] = Context(catches, global[t])

Throwing(t) ==
    \E e \in Objects :
        /\ ~ InFlight(t) /\ raised'[t] = blocks[t]
        /\ \/ /\ \A k \in 1..Len(blocks[t]) : blocks[t][k].phase = "catch"
              /\ outcome' \in {"exit1", "killed"} /\ blocks'[t] = blocks[t]
           \/ /\ outcome' = "running"
              /\ \E k \in 1..Len(blocks[t]) :
                  /\ Landed(blocks[t], blocks'[t], k, e)
                  /\ \A j \in (k + 1)..Len(blocks[t]) : blocks[t][j].phase = "catch"

Catching(t) ==
    \E i \in Accepting(t) :
        /\ InFlight(t) /\ outcome' = "running"
        /\ \A j \in Accepting(t) : i <= j
        /\ Caught(blocks[t], blocks'[t], i)

Rethrowing(t) ==
    /\ InFlight(t) /\ Accepting(t) = {} /\ raised'[t] = raised[t]
    /\ \/ /\ \A k \in 1..(Len(blocks[t]) - 1) : blocks[t][k].phase = "catch"
          /\ outcome' \in {"exit1", "killed"} /\ blocks'[t] = blocks[t]
       \/ /\ outcome' = "running"
          /\ \E k \in 1..(Len(blocks[t]) - 1) :
              /\ Landed(blocks[t], blocks'[t], k, Top(t).thrown)
              /\ \A j \in (k + 1)..(Len(blocks[t]) - 1) : blocks[t][j].phase = "catch"

Ending(t) ==
    /\ ~ InFlight(t) /\ raised'[t] = raised[t] /\ Ended(blocks[t], blocks'[t])
    /\ outcome' = IF t = MainThread /\ Len(blocks[t]) = 1
                  THEN IF Top(t).phase = "body" THEN "exit0" ELSE "exit1"
                  ELSE "running"
    /\ Top(t).phase \in {"body", "catch"}

StepAsSeen(t) == Entering(t) \/ Throwing(t) \/ Catching(t) \/ Rethrowing(t) \/ Ending(t)

LEMMA StepsSeen ==
    ASSUME BlockInv, NEW t \in Threads, ChainIntact(t), StepOf(t)
    PROVE  /\ StepAsSeen(t)
           /\ outcome = "running"
           /\ \A u \in Threads \ {t} : blocks'[u] = blocks[u] /\ raised'[u] = raised[u]
<1> DEFINE n == Len(blocks[t])
<1>1. /\ TypeOK /\ blocks[t] \in Seq(ContextType) /\ n \in Nat
      /\ raised \in [Threads -> Seq(ContextType)]
      /\ global[t] \in Address \cup {Null}
      /\ Chained(blocks[t], t, global[t])
      /\ blocks[t] # <<>> => n \in Nat \ {0}
  BY LenProperties, EmptySeq DEF BlockInv, TypeOK, ChainIntact
<1>2. /\ \A u \in Threads \ {t} : blocks'[u] = blocks[u]
      /\ outcome = "running"
  <2>1. outcome = "running"
    BY DEF StepOf, EnterTry, Throw, Catch, Rethrow, EndBody, EndCatch, Executing, Dispatching
  <2>2. QED
    BY <2>1, OthersUntouched
<1>3. \A u \in Threads \ {t} : raised'[u] = raised[u]
  BY <1>1 DEF StepOf, EnterTry, Throw, Catch, Rethrow, EndBody, EndCatch
<1>4. CASE \E catches \in CatchLists : EnterTry(t, catches)
  <2>1. PICK catches \in CatchLists : EnterTry(t, catches)
    BY <1>4
  <2>2. ~ InFlight(t) /\ outcome' = "running" /\ raised'[t] = raised[t]
    BY <2>1 DEF EnterTry, Executing, InFlight
  <2>3. Entering(t)
    BY <2>1, <2>2, EnterEffect DEF Entering
  <2>4. QED
    BY <1>2, <1>3, <2>3 DEF StepAsSeen
<1>5. CASE \E e \in Objects : Throw(t, e)
  <2>1. PICK e \in Objects : Throw(t, e)
    BY <1>5
  <2>2. /\ ThrowTo(t, global[t], e) /\ ~ InFlight(t) /\ raised'[t] = blocks[t]
    BY <1>1, <2>1, ThrowStep DEF Throw, Executing, InFlight
  <2>3. \A k \in 1..n : blocks[t][k].phase # "dispatch"
    BY <1>1, <2>2, EmptySeq DEF InFlight, Top, BlockInv, ThrownMarksDispatch
  <2>4. n \in 0..n /\ Innermost(blocks[t], t, n, global[t])
    BY <1>1 DEF Chained
  <2>5. \/ /\ \A k \in 1..n : blocks[t][k].phase = "catch"
           /\ outcome' \in {"exit1", "killed"} /\ blocks' = blocks
        \/ /\ outcome' = "running"
           /\ \A u \in Threads \ {t} : blocks'[u] = blocks[u]
           /\ \E k \in 1..n : /\ Landed(blocks[t], blocks'[t], k, e)
                              /\ \A j \in (k + 1)..n : blocks[t][j].phase = "catch"
    BY <1>1, <1>2, <2>2, <2>3, <2>4, IntactThrow
  <2>6. Throwing(t)
    BY <2>2, <2>5 DEF Throwing
  <2>7. QED
    BY <1>2, <1>3, <2>6 DEF StepAsSeen
<1>6. CASE Catch(t)
  <2>1. Dispatching(t) /\ TypeOK
    BY <1>1, <1>6 DEF Catch
  <2>2. /\ n \in Nat \ {0} /\ At(global[t]) = Top(t) /\ Top(t) \in ContextType
    BY <2>1, DispatchingHead
  <2>3. PICK i \in Accepting(t) :
          /\ \A j \in Accepting(t) : i <= j
          /\ blocks' = [blocks EXCEPT ![t][n].phase = "catch", ![t][n].clause = i]
    BY <1>6 DEF Catch
  <2> DEFINE x == [Top(t) EXCEPT !.phase = "catch", !.clause = i]
             nb == [blocks[t] EXCEPT ![n] = x]
  <2>4. i \in Nat
    BY <2>2, <2>3, LenProperties DEF Accepting, ContextType
  <2>5. x \in ContextType
    BY <2>2, <2>4 DEF ContextType, Phases
  <2>6. blocks' = [blocks EXCEPT ![t] = nb]
    BY <1>1, <2>3 DEF TypeOK, Top
  <2>7. x = [blocks[t][n] EXCEPT !.phase = "catch", !.clause = i]
    BY DEF Top
  <2> HIDE DEF x
  <2>8. /\ Len(nb) = n /\ nb[n] = x
        /\ \A j \in 1..(n - 1) : nb[j] = blocks[t][j]
    BY <1>1, <2>2, <2>5, ExceptSeq
  <2> HIDE DEF nb
  <2>9. blocks'[t] = nb
    BY <1>1, <2>6 DEF TypeOK
  <2>10. Caught(blocks[t], blocks'[t], i)
    BY <2>2, <2>7, <2>8, <2>9 DEF Caught
  <2>11. InFlight(t) /\ outcome' = "running"
    BY <1>2, <1>6, <2>1 DEF InFlight, Dispatching, Catch
  <2>12. QED
    BY <1>2, <1>3, <2>3, <2>10, <2>11 DEF StepAsSeen, Catching
<1>7. CASE Rethrow(t)
  <2>1. /\ Top(t).phase = "dispatch" /\ n \in Nat \ {0}
        /\ Top(t).prev \in Address \cup {Null} /\ Top(t).thrown \in Objects
        /\ ThrowTo(t, Top(t).prev, Top(t).thrown)
    BY <1>7, DispatchingHead, RethrowStep DEF Rethrow, Dispatching
  <2>2. n - 1 \in 0..n /\ Innermost(blocks[t], t, n - 1, Top(t).prev)
    <3>1. n \in 1..n /\ n - 1 \in 0..n
      BY <2>1
    <3>2. blocks[t][n].phase # "catch" => Innermost(blocks[t], t, n - 1, blocks[t][n].prev)
      BY <1>1, <3>1 DEF Chained
    <3>3. QED
      BY <2>1, <3>1, <3>2 DEF Top
  <2>3. \A k \in 1..n : blocks[t][k].phase = "dispatch" => k > n - 1
    BY <1>1 DEF BlockInv, ThrownMarksDispatch
  <2>4. InFlight(t) /\ Accepting(t) = {} /\ raised'[t] = raised[t]
    BY <1>7 DEF Rethrow, Dispatching, InFlight
  <2>5. \/ /\ \A k \in 1..(n - 1) : blocks[t][k].phase = "catch"
           /\ outcome' \in {"exit1", "killed"} /\ blocks' = blocks
        \/ /\ outcome' = "running"
           /\ \A u \in Threads \ {t} : blocks'[u] = blocks[u]
           /\ \E k \in 1..(n - 1) :
                /\ Landed(blocks[t], blocks'[t], k, Top(t).thrown)
                /\ \A j \in (k + 1)..(n - 1) : blocks[t][j].phase = "catch"
    BY <1>2, <2>1, <2>2, <2>3, IntactThrow
  <2>6. Rethrowing(t)
    BY <2>4, <2>5 DEF Rethrowing
  <2>7. QED
    BY <1>2, <1>3, <2>6 DEF StepAsSeen
<1>8. CASE EndBody(t)
  <2>1. Top(t).phase = "body" /\ n \in Nat \ {0} /\ blocks[t] # <<>>
    BY <1>1, <1>8 DEF EndBody
  <2>2. global[t] = <<t, n>>
    BY <1>1, <2>1 DEF Chained, Innermost, Top
  <2>3. Live(global[t]) /\ global[t] # Null /\ At(global[t]) = Top(t)
    BY <1>1, <2>1, <2>2, NullAssumption, LenProperties DEF Live, At, Top, Address
  <2>4. Top(t).thrown = Null
    BY <2>1 DEF BlockInv, ThrownMarksDispatch, Top
  <2>5. EndBlock(t, "exit0") /\ global' = [global EXCEPT ![t] = Top(t).prev]
        /\ handled' = handled /\ raised' = raised
    BY <1>8, <2>3, <2>4 DEF EndBody, Slot
  <2>6. Top(t) \in ContextType
    BY <1>1, <2>1, ElementOfSeq DEF Top
  <2>7. Top(t).prev \in Address \cup {Null} /\ "exit0" \in Outcomes
    BY <2>6 DEF ContextType, Outcomes
  <2>8. Ended(blocks[t], blocks'[t])
    BY <1>2, <2>1, <2>5, <2>7, PopKeepsBlocks DEF Ended
  <2>9. Ending(t)
    BY <2>1, <2>5, <2>8 DEF Ending, EndBlock, InFlight
  <2>10. QED
    BY <1>2, <1>3, <2>9 DEF StepAsSeen
<1>9. CASE EndCatch(t)
  <2>1. Top(t).phase = "catch" /\ n \in Nat \ {0} /\ EndBlock(t, "exit1") /\ raised' = raised
    BY <1>1, <1>9 DEF EndCatch
  <2>2. Ended(blocks[t], blocks'[t])
    BY <1>9, <2>1, LeaveStep DEF Ended
  <2>3. Ending(t)
    BY <2>1, <2>2 DEF Ending, EndBlock, InFlight
  <2>4. QED
    BY <1>2, <1>3, <2>3 DEF StepAsSeen
<1>10. QED
  BY <1>4, <1>5, <1>6, <1>7, <1>8, <1>9 DEF StepOf

-----------------------------------------------------------------------------
(* The search goes on: what each operation leaves of the remembered stack. *)
LEMMA LandingStarts ==
    ASSUME NEW bs \in Seq(ContextType), NEW nb, NEW e \in Objects,
           NEW k \in 1..Len(bs), Landed(bs, nb, k, e),
           \A j \in (k + 1)..Len(bs) : bs[j].phase = "catch"
    PROVE  LeftOf(bs, nb)
<1>1. Len(bs) \in Nat /\ bs[k] \in ContextType
  BY ElementOfSeq, LenProperties
<1>2. nb[k].catches = bs[k].catches /\ nb[k].thrown = e
  BY <1>1 DEF Landed, ContextType
<1>3. QED
  BY <1>1, <1>2 DEF Landed, LeftOf

LEMMA LandingContinues ==
    ASSUME NEW rs, NEW bs \in Seq(ContextType), NEW nb, LeftOf(rs, bs), Len(rs) \in Nat,
           bs[Len(bs)].thrown \in Objects,
           Refuses(bs[Len(bs)], bs[Len(bs)].thrown),
           NEW k \in 1..(Len(bs) - 1), Landed(bs, nb, k, bs[Len(bs)].thrown),
           \A j \in (k + 1)..(Len(bs) - 1) : bs[j].phase = "catch"
    PROVE  LeftOf(rs, nb)
<1> DEFINE n == Len(bs)
           e == bs[n].thrown
<1>1. n \in Nat /\ k \in 1..n /\ bs[k] \in ContextType /\ n \in 1..Len(rs)
  BY ElementOfSeq, LenProperties DEF LeftOf
<1>2. nb[k].catches = bs[k].catches /\ nb[k].thrown = e /\ bs[k].phase = "body"
  BY <1>1 DEF Landed, ContextType
<1>3. rs[k] = bs[k] /\ \A i \in 1..(k - 1) : rs[i] = nb[i]
  BY <1>1 DEF LeftOf, Landed
<1>4. ASSUME NEW j \in (k + 1)..Len(rs), rs[j].phase = "body" PROVE Refuses(rs[j], e)
  <2>1. CASE j < n
    <3>1. j \in (k + 1)..(n - 1) /\ j \in 1..(n - 1)
      BY <1>1, <2>1
    <3>2. rs[j] = bs[j] /\ bs[j].phase = "catch"
      BY <3>1 DEF LeftOf
    <3>3. QED
      BY <1>4, <3>2
  <2>2. CASE j = n
    BY <1>1, <2>2 DEF LeftOf, Refuses
  <2>3. CASE j > n
    <3>1. j \in (n + 1)..Len(rs)
      BY <1>1, <2>3
    <3>2. QED
      BY <1>4, <3>1 DEF LeftOf
  <2>4. QED
    BY <1>1, <2>1, <2>2, <2>3
<1>5. Len(nb) = k /\ k \in 1..Len(rs)
  BY <1>1 DEF Landed
<1>6. QED
  BY <1>2, <1>3, <1>4, <1>5 DEF LeftOf

(* The clause numbers stay the marks of the catch bodies.                  *)
LEMMA LandingMarks ==
    ASSUME NEW bs \in Seq(ContextType), NEW nb, NEW e, NEW k \in 1..Len(bs),
           Landed(bs, nb, k, e), ClausesMark(bs)
    PROVE  ClausesMark(nb)
<1>1. Len(bs) \in Nat /\ bs[k] \in ContextType
  BY ElementOfSeq, LenProperties
<1>2. nb[k].clause = bs[k].clause /\ nb[k].phase = "dispatch" /\ bs[k].phase = "body"
  BY <1>1 DEF Landed, ContextType
<1>3. Marked(nb[k])
  <2>1. Marked(bs[k])
    BY DEF ClausesMark
  <2>2. QED
    BY <1>2, <2>1 DEF Marked
<1>4. ASSUME NEW d \in 1..Len(nb) PROVE Marked(nb[d])
  <2>1. CASE d = k
    BY <1>3, <2>1
  <2>2. CASE d # k
    <3>1. d \in 1..Len(bs) /\ nb[d] = bs[d]
      BY <1>1, <2>2 DEF Landed
    <3>2. QED
      BY <3>1 DEF ClausesMark
  <2>3. QED
    BY <2>1, <2>2
<1>5. QED
  BY <1>4 DEF ClausesMark

LEMMA CatchingMarks ==
    ASSUME NEW bs \in Seq(ContextType), NEW nb, NEW i \in Nat \ {0}, Caught(bs, nb, i),
           ClausesMark(bs)
    PROVE  ClausesMark(nb)
<1>1. Len(bs) \in 1..Len(bs) /\ bs[Len(bs)] \in ContextType
  BY ElementOfSeq, LenProperties DEF Caught
<1>2. nb[Len(bs)].clause = i /\ nb[Len(bs)].phase = "catch"
  BY <1>1 DEF Caught, ContextType
<1>3. Marked(nb[Len(bs)])
  BY <1>2 DEF Marked
<1>4. QED
  BY <1>3 DEF Caught, ClausesMark

LEMMA SearchInit == Init => SearchInv
<1> SUFFICES ASSUME Init, NEW t \in Threads
             PROVE  ClausesMark(blocks[t]) /\ ~ InFlight(t)
  BY DEF SearchInv
<1> DEFINE c == Context(<<ObjectType>>, Null)
<1>1. c.clause = 0 /\ c.phase = "body"
  BY DEF Context
<1> HIDE DEF c
<1>2. blocks[t] = <<c>> \/ blocks[t] = <<>>
  BY DEF Init, c
<1>3. Marked(c)
  BY <1>1 DEF Marked
<1>4. CASE blocks[t] = <<>>
  <2>1. Len(blocks[t]) = 0
    BY <1>4
  <2>2. QED
    BY <1>4, <2>1 DEF ClausesMark, InFlight
<1>5. CASE blocks[t] = <<c>>
  <2>1. Len(blocks[t]) = 1 /\ blocks[t][1] = c
    BY <1>5
  <2>2. QED
    BY <1>1, <1>3, <2>1 DEF ClausesMark, InFlight, Top
<1>6. QED
  BY <1>2, <1>4, <1>5

(* Clauses are numbered from 1.                                            *)
LEMMA ClauseNumbers ==
    ASSUME BlockInv, NEW t \in Threads, InFlight(t)
    PROVE  Top(t) \in ContextType /\ Accepting(t) \subseteq Nat \ {0}
<1>1. blocks[t] \in Seq(ContextType) /\ blocks[t] # <<>>
  BY DEF BlockInv, TypeOK, InFlight
<1>2. Top(t) \in ContextType
  BY <1>1, ElementOfSeq, LenProperties, EmptySeq DEF Top
<1>3. QED
  BY <1>2, LenProperties DEF Accepting, ContextType

LEMMA SearchStep ==
    ASSUME BlockInv, BlockInv', SearchInv, outcome = "running",
           NEW t \in Threads, StepAsSeen(t)
    PROVE  /\ ClausesMark(blocks'[t])
           /\ (outcome = "running" /\ InFlight(t) => SearchOf(t))'
<1> DEFINE n == Len(blocks[t])
<1>1. /\ blocks[t] \in Seq(ContextType) /\ blocks'[t] \in Seq(ContextType) /\ n \in Nat
      /\ ClausesMark(blocks[t])
      /\ InFlight(t) => SearchOf(t)
      /\ raised[t] \in Seq(ContextType) /\ Len(raised[t]) \in Nat
      /\ blocks[t] # <<>> => n \in Nat \ {0}
      /\ blocks'[t] # <<>> => Len(blocks'[t]) \in Nat \ {0}
  BY LenProperties, EmptySeq DEF BlockInv, TypeOK, SearchInv
<1>2. CASE Entering(t)
  <2>1. PICK catches \in CatchLists :
          /\ Len(blocks'[t]) = n + 1
          /\ \A i \in 1..n : blocks'[t][i] = blocks[t][i]
          /\ blocks'[t][n + 1] = Context(catches, global[t])
    BY <1>2 DEF Entering
  <2>2. blocks'[t][n + 1].clause = 0 /\ blocks'[t][n + 1].phase = "body"
    BY <2>1 DEF Context
  <2>3. ClausesMark(blocks'[t])
    <3>1. Marked(blocks'[t][n + 1])
      BY <2>2 DEF Marked
    <3>2. QED
      BY <1>1, <2>1, <3>1 DEF ClausesMark
  <2>4. ~ InFlight(t)'
    BY <1>1, <2>1, <2>2 DEF InFlight, Top
  <2>5. QED
    BY <2>3, <2>4
<1>3. CASE Throwing(t)
  <2>1. PICK e \in Objects :
        /\ ~ InFlight(t) /\ raised'[t] = blocks[t]
        /\ \/ outcome' \in {"exit1", "killed"} /\ blocks'[t] = blocks[t]
           \/ \E k \in 1..n : /\ Landed(blocks[t], blocks'[t], k, e)
                              /\ \A j \in (k + 1)..n : blocks[t][j].phase = "catch"
    BY <1>3 DEF Throwing
  <2>2. CASE outcome' \in {"exit1", "killed"} /\ blocks'[t] = blocks[t]
    BY <1>1, <2>2
  <2>3. CASE \E k \in 1..n : /\ Landed(blocks[t], blocks'[t], k, e)
                             /\ \A j \in (k + 1)..n : blocks[t][j].phase = "catch"
    <3>1. LeftOf(blocks[t], blocks'[t]) /\ ClausesMark(blocks'[t])
      BY <1>1, <2>3, LandingStarts, LandingMarks
    <3>2. \A d \in 1..n : blocks[t][d].phase # "dispatch" /\ blocks[t][d] \in ContextType
      BY <1>1, <2>1, ElementOfSeq, EmptySeq DEF BlockInv, ThrownMarksDispatch, InFlight, Top
    <3>3. Settled(blocks[t])
      <4>1. \A d \in 1..n : Marked(blocks[t][d])
        BY <1>1 DEF ClausesMark
      <4>2. QED
        BY <3>2, <4>1 DEF Settled, Marked, ContextType, Phases
    <3>4. QED
      BY <2>1, <3>1, <3>3 DEF SearchOf
  <2>4. QED
    BY <2>1, <2>2, <2>3
<1>4. CASE Catching(t)
  <2>1. PICK i \in Accepting(t) : Caught(blocks[t], blocks'[t], i)
    BY <1>4 DEF Catching
  <2>2. InFlight(t) /\ i \in Nat \ {0}
    BY <1>4, ClauseNumbers DEF Catching
  <2>3. ClausesMark(blocks'[t])
    BY <1>1, <2>1, <2>2, CatchingMarks
  <2>4. n \in 1..n /\ blocks[t][n] \in ContextType
    BY <1>1, <2>1, ElementOfSeq DEF Caught
  <2>5. blocks'[t][Len(blocks'[t])].phase = "catch"
    BY <2>1, <2>4 DEF Caught, ContextType
  <2>6. QED
    BY <2>3, <2>5 DEF InFlight, Top
<1>5. CASE Rethrowing(t)
  <2> DEFINE e == Top(t).thrown
  <2>1. /\ InFlight(t) /\ Accepting(t) = {} /\ raised'[t] = raised[t]
        /\ \/ outcome' \in {"exit1", "killed"} /\ blocks'[t] = blocks[t]
           \/ \E k \in 1..(n - 1) :
                /\ Landed(blocks[t], blocks'[t], k, e)
                /\ \A j \in (k + 1)..(n - 1) : blocks[t][j].phase = "catch"
    BY <1>5 DEF Rethrowing
  <2>2. CASE outcome' \in {"exit1", "killed"} /\ blocks'[t] = blocks[t]
    BY <1>1, <2>2
  <2>3. CASE \E k \in 1..(n - 1) :
                /\ Landed(blocks[t], blocks'[t], k, e)
                /\ \A j \in (k + 1)..(n - 1) : blocks[t][j].phase = "catch"
    <3>1. PICK k \in 1..(n - 1) :
                /\ Landed(blocks[t], blocks'[t], k, e)
                /\ \A j \in (k + 1)..(n - 1) : blocks[t][j].phase = "catch"
      BY <2>3
    <3>2. e \in Objects /\ Refuses(Top(t), e)
      <4>1. Dispatching(t)
        BY <2>1 DEF InFlight, Dispatching
      <4>2. At(global[t]) = Top(t) /\ e \in Objects
        BY <4>1, DispatchingHead
      <4>3. QED
        BY <2>1, <4>2 DEF Accepting, Refuses, Slot
    <3>3. LeftOf(raised[t], blocks'[t])
      BY <1>1, <2>1, <3>1, <3>2, LandingContinues DEF SearchOf, Top
    <3>4. ClausesMark(blocks'[t])
      <4>1. k \in 1..n
        BY <1>1
      <4>2. QED
        BY <1>1, <3>1, <4>1, LandingMarks
    <3>5. QED
      BY <1>1, <2>1, <3>3, <3>4 DEF SearchOf
  <2>4. QED
    BY <2>1, <2>2, <2>3
<1>6. CASE Ending(t)
  <2>1. /\ n \in Nat \ {0} /\ Len(blocks'[t]) = n - 1
        /\ \A i \in 1..(n - 1) : blocks'[t][i] = blocks[t][i]
    BY <1>6 DEF Ending, Ended
  <2>2. ClausesMark(blocks'[t])
    BY <1>1, <2>1 DEF ClausesMark
  <2>3. \A i \in 1..(n - 1) : blocks[t][i].phase # "dispatch"
    BY <2>1 DEF BlockInv, ThrownMarksDispatch
  <2>4. \A i \in 1..(n - 1) : blocks'[t][i].phase # "dispatch"
    BY <2>1, <2>3
  <2>5. blocks'[t] # <<>> => n - 1 \in 1..(n - 1) /\ Len(blocks'[t]) = n - 1
    BY <1>1, <2>1
  <2>6. ~ InFlight(t)'
    BY <2>4, <2>5 DEF InFlight, Top
  <2>7. QED
    BY <2>2, <2>6
<1>7. QED
  BY <1>2, <1>3, <1>4, <1>5, <1>6 DEF StepAsSeen

(* A program in which nobody jumps out of a try body.                      *)
RefinementInv ==
    BlockInv /\ ChainMatchesBlocks /\ outcome # "undefined" /\ SearchInv

LEMMA SearchNext ==
    ASSUME Careless = {}, RefinementInv, [Next]_vars, BlockInv'
    PROVE  SearchInv'
<1>1. CASE UNCHANGED <<blocks, outcome, raised>>
  BY <1>1 DEF RefinementInv, SearchInv, SearchOf, InFlight, Top
<1>2. ASSUME NEW t \in Threads, StepOf(t) PROVE SearchInv'
  <2>1. ChainIntact(t) /\ outcome = "running"
    BY <1>2 DEF RefinementInv, ChainMatchesBlocks, StepOf, EnterTry, Throw, Catch, Rethrow,
                EndBody, EndCatch, Executing, Dispatching
  <2>2. StepAsSeen(t) /\ \A u \in Threads \ {t} : blocks'[u] = blocks[u] /\ raised'[u] = raised[u]
    BY <1>2, <2>1, StepsSeen DEF RefinementInv
  <2>3. /\ ClausesMark(blocks'[t])
        /\ (outcome = "running" /\ InFlight(t) => SearchOf(t))'
    BY <2>1, <2>2, SearchStep DEF RefinementInv
  <2>4. ASSUME NEW u \in Threads \ {t}
        PROVE  /\ ClausesMark(blocks'[u])
               /\ (InFlight(u) => SearchOf(u))'
    BY <2>1, <2>2, <2>4 DEF RefinementInv, SearchInv, SearchOf, InFlight, Top
  <2>5. QED
    BY <2>3, <2>4 DEF SearchInv
<1>3. ASSUME NEW t \in Threads, EnableExceptions(t) \/ DisableExceptions(t) PROVE SearchInv'
  BY <1>1, <1>3 DEF EnableExceptions, DisableExceptions
<1>4. CASE UNCHANGED vars
  BY <1>1, <1>4 DEF vars
<1>5. QED
  BY <1>2, <1>3, <1>4 DEF Next, Step, StepOf, LeaveBody

-----------------------------------------------------------------------------
(* The state of Exceptions that a state of the chain stands for.           *)
StackOf(t) == IF InFlight(t) THEN raised[t] ELSE blocks[t]
Scopes == [t \in Threads |-> ScopesOf(StackOf(t))]
Flying == [t \in Threads |-> IF InFlight(t) THEN Top(t).thrown ELSE Null]

ScopeOf(c) == [catches |-> c.catches, clause |-> c.clause, object |-> c.thrown]

ScopeType == [catches : Seq(Type), clause : Nat, object : Objects \cup {Null}]

LEMMA ScopesOfStack ==
    ASSUME NEW bs \in Seq(ContextType)
    PROVE  /\ ScopesOf(bs) \in Seq(ScopeType)
           /\ Len(bs) \in Nat /\ Len(ScopesOf(bs)) = Len(bs)
           /\ \A d \in 1..Len(bs) : ScopesOf(bs)[d] = ScopeOf(bs[d])
<1>1. DOMAIN bs = 1..Len(bs) /\ Len(bs) \in Nat /\ \A d \in 1..Len(bs) : bs[d] \in ContextType
  BY LenProperties, ElementOfSeq
<1>2. \A d \in 1..Len(bs) : ScopeOf(bs[d]) \in ScopeType
  BY <1>1 DEF ScopeOf, ScopeType, ContextType
<1>3. ScopesOf(bs) = [d \in 1..Len(bs) |-> ScopeOf(bs[d])]
  BY <1>1 DEF ScopesOf, ScopeOf
<1> DEFINE ss == [d \in 1..Len(bs) |-> ScopeOf(bs[d])]
<1>4. ss \in Seq(ScopeType) /\ Len(ss) = Len(bs)
  BY <1>1, <1>2
<1>5. QED
  BY <1>1, <1>3, <1>4

(* Two stacks that agree show the same scopes, one operation apart.        *)
LEMMA ScopesPushed ==
    ASSUME NEW bs \in Seq(ContextType), NEW nb \in Seq(ContextType),
           Len(nb) = Len(bs) + 1, \A i \in 1..Len(bs) : nb[i] = bs[i]
    PROVE  ScopesOf(nb) = Append(ScopesOf(bs), ScopeOf(nb[Len(nb)]))
<1> DEFINE ss == ScopesOf(bs)
           tt == ScopesOf(nb)
           x == ScopeOf(nb[Len(nb)])
<1>1. /\ ss \in Seq(ScopeType) /\ Len(ss) = Len(bs) /\ Len(bs) \in Nat
      /\ tt \in Seq(ScopeType) /\ Len(tt) = Len(bs) + 1
      /\ \A i \in 1..Len(bs) : tt[i] = ss[i]
      /\ tt[Len(bs) + 1] = x
  BY ScopesOfStack
<1> HIDE DEF ss, tt, x
<1>2. x \in ScopeType
  BY <1>1, ElementOfSeq
<1>3. /\ Append(ss, x) \in Seq(ScopeType) /\ Len(Append(ss, x)) = Len(ss) + 1
      /\ \A i \in 1..Len(ss) : Append(ss, x)[i] = ss[i]
      /\ Append(ss, x)[Len(ss) + 1] = x
  BY <1>1, <1>2, AppendProperties
<1>4. \A i \in 1..Len(tt) : tt[i] = Append(ss, x)[i]
  BY <1>1, <1>3
<1>5. tt = Append(ss, x)
  BY <1>1, <1>3, <1>4, SeqEqual
<1>6. QED
  BY <1>5 DEF ss, tt, x

LEMMA ScopesCut ==
    ASSUME NEW bs \in Seq(ContextType), NEW nb \in Seq(ContextType),
           Len(nb) \in 0..Len(bs), \A i \in 1..Len(nb) : nb[i] = bs[i]
    PROVE  ScopesOf(nb) = SubSeq(ScopesOf(bs), 1, Len(nb))
<1> DEFINE ss == ScopesOf(bs)
           tt == ScopesOf(nb)
           k == Len(nb)
<1>1. /\ ss \in Seq(ScopeType) /\ k \in 0..Len(ss) /\ k \in Nat
      /\ tt \in Seq(ScopeType) /\ Len(tt) = k
      /\ \A i \in 1..k : tt[i] = ss[i]
  BY ScopesOfStack
<1> HIDE DEF ss, tt, k
<1>2. /\ SubSeq(ss, 1, k) \in Seq(ScopeType) /\ Len(SubSeq(ss, 1, k)) = k
      /\ \A i \in 1..k : SubSeq(ss, 1, k)[i] = ss[i]
  BY <1>1, Cut
<1>3. tt = SubSeq(ss, 1, k)
  BY <1>1, <1>2, SeqEqual
<1>4. QED
  BY <1>3 DEF ss, tt, k

(* Only the scopes of the thread that steps change.                        *)
LEMMA ScopesChange ==
    ASSUME NEW t \in Threads, NEW bs, NEW e,
           \A u \in Threads \ {t} : blocks'[u] = blocks[u] /\ raised'[u] = raised[u],
           StackOf(t)' = bs,
           (IF InFlight(t) THEN Top(t).thrown ELSE Null)' = e
    PROVE  /\ Scopes' = [Scopes EXCEPT ![t] = ScopesOf(bs)]
           /\ Flying' = [Flying EXCEPT ![t] = e]
<1>1. \A u \in Threads \ {t} :
        /\ StackOf(u)' = StackOf(u)
        /\ (IF InFlight(u) THEN Top(u).thrown ELSE Null)'
              = IF InFlight(u) THEN Top(u).thrown ELSE Null
  BY DEF StackOf, InFlight, Top
<1>2. QED
  BY <1>1 DEF Scopes, Flying

LEMMA ScopesStay ==
    ASSUME NEW t \in Threads,
           \A u \in Threads \ {t} : blocks'[u] = blocks[u] /\ raised'[u] = raised[u],
           StackOf(t)' = StackOf(t),
           (IF InFlight(t) THEN Top(t).thrown ELSE Null)'
              = IF InFlight(t) THEN Top(t).thrown ELSE Null
    PROVE  Scopes' = Scopes /\ Flying' = Flying
<1>1. \A u \in Threads :
        /\ StackOf(u)' = StackOf(u)
        /\ (IF InFlight(u) THEN Top(u).thrown ELSE Null)'
              = IF InFlight(u) THEN Top(u).thrown ELSE Null
  BY DEF StackOf, InFlight, Top
<1>2. QED
  BY <1>1 DEF Scopes, Flying

-----------------------------------------------------------------------------
(* The steps of Exceptions over that state.                                *)
LEMMA Entry ==
    ASSUME NEW t \in Threads, NEW catches \in CatchLists,
           outcome = "running", Flying[t] = Null, outcome' = outcome, Flying' = Flying,
           Scopes' = [Scopes EXCEPT ![t] = Append(@, Promise!Scope(catches, 0, Null))]
    PROVE  Promise!Next
<1>1. Promise!Enter(t, catches)
  BY DEF Promise!Enter, Promise!Executing, Scopes, Flying, StackOf
<1>2. QED
  BY <1>1 DEF Promise!Next

LEMMA Leaving ==
    ASSUME NEW t \in Threads,
           outcome = "running", Flying[t] = Null, Flying' = Flying, Scopes[t] # <<>>,
           Scopes' = [Scopes EXCEPT ![t] = SubSeq(@, 1, Len(@) - 1)],
           outcome' = IF t # MainThread \/ Len(Scopes[t]) > 1 THEN "running"
                      ELSE IF Scopes[t][1].clause = 0 THEN "exit0" ELSE "exit1"
    PROVE  Promise!Next
<1>1. Promise!Leave(t)
  BY DEF Promise!Leave, Promise!Executing, Promise!InBody, Scopes, Flying, StackOf
<1>2. QED
  BY <1>1 DEF Promise!Next

LEMMA Raising ==
    ASSUME NEW t \in Threads, NEW e \in Objects,
           outcome = "running", Flying[t] = Null, outcome' = outcome, Scopes' = Scopes,
           Flying' = [Flying EXCEPT ![t] = e]
    PROVE  Promise!Next
<1>1. Promise!Raise(t, e)
  BY DEF Promise!Raise, Promise!Executing, Scopes, Flying, StackOf
<1>2. QED
  BY <1>1 DEF Promise!Next

LEMMA Delivery ==
    ASSUME NEW t \in Threads, NEW d \in DOMAIN Scopes[t], NEW i \in DOMAIN Scopes[t][d].catches,
           outcome = "running", Flying[t] # Null, outcome' = outcome,
           Promise!Handles(Flying[t], Scopes[t], d),
           i \in Promise!Accepting(Flying[t], Scopes[t][d]),
           \A j \in Promise!Accepting(Flying[t], Scopes[t][d]) : i <= j,
           Flying' = [Flying EXCEPT ![t] = Null],
           Scopes' = [Scopes EXCEPT ![t] =
               Append(SubSeq(@, 1, d - 1), Promise!Scope(@[d].catches, i, Flying[t]))]
    PROVE  Promise!Next
<1>1. Promise!Deliver(t, d, i)
  BY DEF Promise!Deliver, Scopes, Flying, StackOf
<1>2. QED
  BY <1>1 DEF Promise!Next, Scopes, StackOf

LEMMA Death ==
    ASSUME NEW t \in Threads, NEW e \in Objects,
           outcome = "running", Flying[t] \in {Null, e}, outcome' \in {"exit1", "killed"},
           Promise!Unhandled(e, Scopes[t]), Scopes' = Scopes, Flying' = Flying
    PROVE  Promise!Next
<1>1. Promise!Die(t, e)
  BY DEF Promise!Die, Scopes, Flying, StackOf
<1>2. QED
  BY <1>1 DEF Promise!Next

LEMMA Stutter ==
    ASSUME outcome' = outcome, Scopes' = Scopes, Flying' = Flying
    PROVE  UNCHANGED Promise!vars
BY DEF Promise!vars, Scopes, Flying, StackOf

-----------------------------------------------------------------------------
(* A try statement of the stack bs refuses e in Exceptions as it does here.*)
LEMMA Clauses ==
    ASSUME NEW bs \in Seq(ContextType), NEW d \in 1..Len(bs), NEW e
    PROVE  /\ Promise!Accepting(e, ScopesOf(bs)[d])
                = {i \in DOMAIN bs[d].catches : IsInstance(bs[d].catches[i], TypeOf[e])}
           /\ Promise!Accepting(e, ScopesOf(bs)[d]) = {} <=> Refuses(bs[d], e)
           /\ Promise!InBody(ScopesOf(bs)[d]) <=> bs[d].clause = 0
<1>1. ScopesOf(bs)[d] = ScopeOf(bs[d])
  BY ScopesOfStack
<1>2. /\ ScopesOf(bs)[d].catches = bs[d].catches
      /\ ScopesOf(bs)[d].clause = bs[d].clause
  BY <1>1 DEF ScopeOf
<1>3. Promise!Accepting(e, ScopesOf(bs)[d])
         = {i \in DOMAIN bs[d].catches : IsInstance(bs[d].catches[i], TypeOf[e])}
  BY <1>2 DEF Promise!Accepting, Promise!Matches, Promise!IsInstance, IsInstance,
              Promise!InheritsFrom, InheritsFrom
<1>4. QED
  BY <1>2, <1>3 DEF Refuses, Promise!InBody

(* Nobody handles e when every body that was running refuses it.           *)
LEMMA NobodyHandles ==
    ASSUME NEW rs \in Seq(ContextType), NEW e,
           \A d \in 1..Len(rs) : rs[d].clause = 0 => Refuses(rs[d], e)
    PROVE  Promise!Unhandled(e, ScopesOf(rs))
<1>1. DOMAIN ScopesOf(rs) = 1..Len(rs)
  BY ScopesOfStack, LenProperties
<1>2. ASSUME NEW d \in 1..Len(rs) PROVE ~ Promise!Handles(e, ScopesOf(rs), d)
  BY Clauses DEF Promise!Handles
<1>3. QED
  BY <1>1, <1>2 DEF Promise!Unhandled

(* The block a search has come to handles e once a clause of it accepts e. *)
LEMMA SearchHandles ==
    ASSUME NEW rs \in Seq(ContextType), NEW bs, LeftOf(rs, bs), Settled(rs),
           ~ Refuses(bs[Len(bs)], bs[Len(bs)].thrown)
    PROVE  Promise!Handles(bs[Len(bs)].thrown, ScopesOf(rs), Len(bs))
<1> DEFINE n == Len(bs)
           e == bs[n].thrown
<1>1. Len(rs) \in Nat /\ n \in 1..Len(rs) /\ Len(ScopesOf(rs)) = Len(rs)
  BY ScopesOfStack DEF LeftOf
<1>2. rs[n].clause = 0 /\ ~ Refuses(rs[n], e)
  BY <1>1 DEF LeftOf, Settled, Refuses
<1>3. Promise!InBody(ScopesOf(rs)[n]) /\ Promise!Accepting(e, ScopesOf(rs)[n]) # {}
  BY <1>1, <1>2, Clauses
<1>4. ASSUME NEW k \in (n + 1)..Len(rs), Promise!InBody(ScopesOf(rs)[k])
      PROVE  Promise!Accepting(e, ScopesOf(rs)[k]) = {}
  <2>1. k \in 1..Len(rs)
    BY <1>1
  <2>2. Refuses(rs[k], e)
    BY <1>4, <2>1, Clauses DEF Settled, LeftOf
  <2>3. QED
    BY <2>1, <2>2, Clauses
<1>5. QED
  BY <1>1, <1>3, <1>4 DEF Promise!Handles

(***************************************************************************)
(* The step of t, as Exceptions sees it.                                   *)
(***************************************************************************)
LEMMA Simulates ==
    ASSUME RefinementInv, BlockInv', SearchInv', NEW t \in Threads, outcome = "running",
           StepAsSeen(t),
           \A u \in Threads \ {t} : blocks'[u] = blocks[u] /\ raised'[u] = raised[u]
    PROVE  Promise!Next \/ UNCHANGED Promise!vars
<1> DEFINE n == Len(blocks[t])
           rs == raised[t]
<1>1. /\ blocks[t] \in Seq(ContextType) /\ blocks'[t] \in Seq(ContextType)
      /\ rs \in Seq(ContextType) /\ n \in Nat /\ Len(blocks'[t]) \in Nat /\ Len(rs) \in Nat
      /\ ClausesMark(blocks[t])
      /\ InFlight(t) => SearchOf(t) /\ Top(t).thrown \in Objects /\ n \in Nat \ {0}
      /\ blocks[t] # <<>> => n \in Nat \ {0}
      /\ blocks'[t] # <<>> => Len(blocks'[t]) \in Nat \ {0}
      /\ \A k \in 1..n : blocks[t][k] \in ContextType
  <2>1. InFlight(t) => Dispatching(t)
    BY DEF InFlight, Dispatching
  <2>2. InFlight(t) => Top(t).thrown \in Objects /\ n \in Nat \ {0}
    BY <2>1, DispatchingHead DEF RefinementInv
  <2>3. QED
    BY <2>2, LenProperties, EmptySeq, ElementOfSeq
       DEF RefinementInv, BlockInv, TypeOK, SearchInv
<1>2. /\ Scopes[t] = ScopesOf(StackOf(t))
      /\ Flying[t] = IF InFlight(t) THEN Top(t).thrown ELSE Null
  BY DEF Scopes, Flying
<1>3. CASE Entering(t)
  <2>1. PICK catches \in CatchLists :
          /\ ~ InFlight(t) /\ outcome' = "running"
          /\ Len(blocks'[t]) = n + 1
          /\ \A i \in 1..n : blocks'[t][i] = blocks[t][i]
          /\ blocks'[t][n + 1] = Context(catches, global[t])
    BY <1>3 DEF Entering
  <2>2. ScopeOf(blocks'[t][n + 1]) = Promise!Scope(catches, 0, Null)
        /\ blocks'[t][n + 1].phase = "body"
    BY <2>1 DEF Context, ScopeOf, Promise!Scope
  <2>3. ScopesOf(blocks'[t]) = Append(Scopes[t], Promise!Scope(catches, 0, Null))
    BY <1>1, <1>2, <2>1, <2>2, ScopesPushed DEF StackOf
  <2>4. ~ InFlight(t)'
    BY <1>1, <2>1, <2>2 DEF InFlight, Top
  <2>5. StackOf(t)' = blocks'[t] /\ (IF InFlight(t) THEN Top(t).thrown ELSE Null)' = Null
    BY <2>4 DEF StackOf
  <2>6. /\ Scopes' = [Scopes EXCEPT ![t] = ScopesOf(blocks'[t])]
        /\ Flying' = [Flying EXCEPT ![t] = Null]
    BY <2>5, ScopesChange
  <2>7. Flying[t] = Null /\ Flying' = Flying
    BY <1>2, <2>1, <2>6 DEF Flying
  <2>8. QED
    BY <2>1, <2>3, <2>6, <2>7, Entry
<1>4. CASE Throwing(t)
  <2>1. PICK e \in Objects :
        /\ ~ InFlight(t) /\ raised'[t] = blocks[t]
        /\ \/ /\ \A k \in 1..n : blocks[t][k].phase = "catch"
              /\ outcome' \in {"exit1", "killed"} /\ blocks'[t] = blocks[t]
           \/ /\ outcome' = "running"
              /\ \E k \in 1..n : Landed(blocks[t], blocks'[t], k, e)
    BY <1>4 DEF Throwing
  <2>2. Flying[t] = Null /\ StackOf(t) = blocks[t]
    BY <1>2, <2>1 DEF StackOf
  <2>3. CASE /\ \A k \in 1..n : blocks[t][k].phase = "catch"
             /\ outcome' \in {"exit1", "killed"} /\ blocks'[t] = blocks[t]
    <3>1. ~ InFlight(t)'
      BY <2>1, <2>3 DEF InFlight, Top
    <3>2. Scopes' = Scopes /\ Flying' = Flying
      BY <2>1, <2>3, <3>1, ScopesStay DEF StackOf
    <3>3. \A d \in 1..n : blocks[t][d].clause # 0
      BY <1>1, <2>3 DEF ClausesMark, Marked
    <3>4. Promise!Unhandled(e, Scopes[t])
      BY <1>1, <1>2, <2>2, <3>3, NobodyHandles
    <3>5. QED
      BY <2>2, <2>3, <3>2, <3>4, Death
  <2>4. CASE outcome' = "running" /\ \E k \in 1..n : Landed(blocks[t], blocks'[t], k, e)
    <3>1. PICK k \in 1..n : Landed(blocks[t], blocks'[t], k, e)
      BY <2>4
    <3>2. /\ blocks'[t][Len(blocks'[t])].phase = "dispatch"
          /\ blocks'[t][Len(blocks'[t])].thrown = e
          /\ Len(blocks'[t]) = k
      BY <1>1, <3>1 DEF Landed, ContextType
    <3>3. InFlight(t)' /\ (Top(t).thrown)' = e
      BY <1>1, <3>2, EmptySeq DEF InFlight, Top
    <3>4. StackOf(t)' = blocks[t] /\ (IF InFlight(t) THEN Top(t).thrown ELSE Null)' = e
      BY <2>1, <3>3 DEF StackOf
    <3>5. /\ Scopes' = [Scopes EXCEPT ![t] = ScopesOf(blocks[t])]
          /\ Flying' = [Flying EXCEPT ![t] = e]
      BY <3>4, ScopesChange
    <3>6. Scopes' = Scopes
      BY <1>2, <2>2, <3>5 DEF Scopes
    <3>7. QED
      BY <2>2, <2>4, <3>5, <3>6, Raising
  <2>5. QED
    BY <2>1, <2>3, <2>4
<1>5. CASE Catching(t)
  <2> DEFINE e == Top(t).thrown
  <2>1. PICK i \in Accepting(t) :
        /\ InFlight(t) /\ outcome' = "running"
        /\ \A j \in Accepting(t) : i <= j
        /\ Caught(blocks[t], blocks'[t], i)
    BY <1>5 DEF Catching
  <2>2. /\ LeftOf(rs, blocks[t]) /\ Settled(rs) /\ e \in Objects /\ n \in Nat \ {0}
        /\ n \in 1..Len(rs) /\ rs[n].catches = Top(t).catches
    BY <1>1, <2>1 DEF SearchOf, LeftOf, Top
  <2>3. Accepting(t) = {j \in DOMAIN Top(t).catches :
                            IsInstance(Top(t).catches[j], TypeOf[e])}
    <3>1. Dispatching(t)
      BY <2>1 DEF InFlight, Dispatching
    <3>2. At(global[t]) = Top(t)
      BY <3>1, DispatchingHead DEF RefinementInv
    <3>3. QED
      BY <3>2 DEF Accepting, Slot
  <2>4. Scopes[t] = ScopesOf(rs) /\ Flying[t] = e /\ e # Null
    BY <1>2, <2>1, <2>2, NullAssumption DEF StackOf
  <2>5. Promise!Accepting(e, ScopesOf(rs)[n]) = Accepting(t)
    BY <1>1, <2>2, <2>3, Clauses
  <2>6. Promise!Handles(e, ScopesOf(rs), n)
    <3>1. ~ Refuses(Top(t), e)
      BY <2>1, <2>3 DEF Refuses
    <3>2. QED
      BY <1>1, <2>2, <3>1, SearchHandles DEF Top
  <2>7. /\ Len(blocks'[t]) = n
        /\ blocks'[t][n].phase = "catch"
        /\ ScopeOf(blocks'[t][n]) = Promise!Scope(Top(t).catches, i, e)
    <3>1. blocks'[t][n] = [Top(t) EXCEPT !.phase = "catch", !.clause = i]
          /\ Len(blocks'[t]) = n /\ Top(t) \in ContextType
      BY <1>1, <2>1, <2>2 DEF Caught, Top
    <3>2. QED
      BY <3>1 DEF ContextType, ScopeOf, Promise!Scope
  <2>8. ~ InFlight(t)'
    BY <2>7 DEF InFlight, Top
  <2>9. ScopesOf(blocks'[t])
          = Append(SubSeq(ScopesOf(rs), 1, n - 1), Promise!Scope(Top(t).catches, i, e))
    <3> DEFINE cs == SubSeq(blocks'[t], 1, n - 1)
    <3>1. /\ cs \in Seq(ContextType) /\ Len(cs) = n - 1
          /\ \A j \in 1..(n - 1) : cs[j] = blocks'[t][j]
      <4>1. n - 1 \in 0..Len(blocks'[t])
        BY <2>2, <2>7
      <4>2. QED
        BY <1>1, <4>1, Cut
    <3> HIDE DEF cs
    <3>2. \A j \in 1..(n - 1) : cs[j] = rs[j]
      BY <2>1, <2>2, <3>1 DEF Caught, LeftOf
    <3>3. ScopesOf(blocks'[t]) = Append(ScopesOf(cs), ScopeOf(blocks'[t][n]))
      <4>1. Len(blocks'[t]) = Len(cs) + 1 /\ \A j \in 1..Len(cs) : blocks'[t][j] = cs[j]
        BY <2>2, <2>7, <3>1
      <4>2. QED
        BY <1>1, <2>7, <3>1, <4>1, ScopesPushed
    <3>4. ScopesOf(cs) = SubSeq(ScopesOf(rs), 1, n - 1)
      <4>1. n - 1 \in 0..Len(rs)
        BY <1>1, <2>2
      <4>2. QED
        BY <1>1, <3>1, <3>2, <4>1, ScopesCut
    <3>5. QED
      BY <2>7, <3>3, <3>4
  <2>10. StackOf(t)' = blocks'[t] /\ (IF InFlight(t) THEN Top(t).thrown ELSE Null)' = Null
    BY <2>8 DEF StackOf
  <2>11. /\ Scopes' = [Scopes EXCEPT ![t] = ScopesOf(blocks'[t])]
         /\ Flying' = [Flying EXCEPT ![t] = Null]
    BY <2>10, ScopesChange
  <2>12. n \in DOMAIN Scopes[t] /\ Scopes[t][n].catches = Top(t).catches
    <3>1. /\ Len(ScopesOf(rs)) = Len(rs) /\ ScopesOf(rs) \in Seq(ScopeType)
          /\ ScopesOf(rs)[n] = ScopeOf(rs[n])
      BY <1>1, <2>2, ScopesOfStack
    <3>2. QED
      BY <2>2, <2>4, <3>1, LenProperties DEF ScopeOf
  <2>13. i \in DOMAIN Scopes[t][n].catches
    BY <2>1, <2>3, <2>12
  <2>14. QED
    BY <2>1, <2>4, <2>5, <2>6, <2>9, <2>11, <2>12, <2>13, Delivery
<1>6. CASE Rethrowing(t)
  <2> DEFINE e == Top(t).thrown
  <2>1. /\ InFlight(t) /\ Accepting(t) = {} /\ raised'[t] = raised[t]
        /\ \/ /\ \A k \in 1..(n - 1) : blocks[t][k].phase = "catch"
              /\ outcome' \in {"exit1", "killed"} /\ blocks'[t] = blocks[t]
           \/ /\ outcome' = "running"
              /\ \E k \in 1..(n - 1) : Landed(blocks[t], blocks'[t], k, e)
    BY <1>6 DEF Rethrowing
  <2>2. /\ LeftOf(rs, blocks[t]) /\ Settled(rs) /\ e \in Objects /\ n \in Nat \ {0}
    BY <1>1, <2>1 DEF SearchOf
  <2>3. Scopes[t] = ScopesOf(rs) /\ Flying[t] = e
    BY <1>2, <2>1 DEF StackOf
  <2>4. CASE /\ \A k \in 1..(n - 1) : blocks[t][k].phase = "catch"
             /\ outcome' \in {"exit1", "killed"} /\ blocks'[t] = blocks[t]
    <3>1. Scopes' = Scopes /\ Flying' = Flying
      BY <2>1, <2>4, ScopesStay DEF StackOf, InFlight, Top
    <3>2. Refuses(Top(t), e)
      <4>1. Dispatching(t)
        BY <2>1 DEF InFlight, Dispatching
      <4>2. At(global[t]) = Top(t)
        BY <4>1, DispatchingHead DEF RefinementInv
      <4>3. QED
        BY <2>1, <4>2 DEF Accepting, Refuses, Slot
    <3>3. ASSUME NEW d \in 1..Len(rs), rs[d].clause = 0 PROVE Refuses(rs[d], e)
      <4>1. rs[d].phase = "body"
        BY <2>2, <3>3 DEF Settled
      <4>2. CASE d < n
        <5>1. d \in 1..(n - 1)
          BY <2>2, <4>2
        <5>2. rs[d] = blocks[t][d] /\ blocks[t][d].phase = "catch"
          BY <2>2, <2>4, <5>1 DEF LeftOf
        <5>3. QED
          BY <4>1, <5>2
      <4>3. CASE d = n
        BY <2>2, <3>2, <4>3 DEF LeftOf, Refuses, Top
      <4>4. CASE d > n
        <5>1. d \in (n + 1)..Len(rs)
          BY <1>1, <4>4
        <5>2. QED
          BY <2>2, <4>1, <5>1 DEF LeftOf, Top
      <4>5. QED
        BY <2>2, <4>2, <4>3, <4>4
    <3>4. Promise!Unhandled(e, ScopesOf(rs))
      BY <1>1, <3>3, NobodyHandles
    <3>5. QED
      BY <2>2, <2>3, <2>4, <3>1, <3>4, Death
  <2>5. CASE outcome' = "running" /\ \E k \in 1..(n - 1) : Landed(blocks[t], blocks'[t], k, e)
    <3>1. PICK k \in 1..(n - 1) : Landed(blocks[t], blocks'[t], k, e)
      BY <2>5
    <3>2. /\ blocks'[t][Len(blocks'[t])].phase = "dispatch"
          /\ blocks'[t][Len(blocks'[t])].thrown = e
          /\ Len(blocks'[t]) \in Nat \ {0}
      <4>1. k \in 1..n /\ blocks[t][k] \in ContextType
        BY <1>1, <2>2
      <4>2. QED
        BY <3>1, <4>1 DEF Landed, ContextType
    <3>3. InFlight(t)' /\ (Top(t).thrown)' = e
      BY <1>1, <3>2, EmptySeq DEF InFlight, Top
    <3>4. Scopes' = Scopes /\ Flying' = Flying
      BY <2>1, <3>3, ScopesStay DEF StackOf
    <3>5. QED
      BY <2>5, <3>4, Stutter
  <2>6. QED
    BY <2>1, <2>4, <2>5
<1>7. CASE Ending(t)
  <2>1. /\ ~ InFlight(t) /\ n \in Nat \ {0} /\ Len(blocks'[t]) = n - 1
        /\ \A i \in 1..(n - 1) : blocks'[t][i] = blocks[t][i]
        /\ outcome' = IF t = MainThread /\ n = 1
                      THEN IF Top(t).phase = "body" THEN "exit0" ELSE "exit1"
                      ELSE "running"
        /\ Top(t).phase \in {"body", "catch"}
    BY <1>7 DEF Ending, Ended
  <2>2. Scopes[t] = ScopesOf(blocks[t]) /\ Flying[t] = Null
    BY <1>2, <2>1 DEF StackOf
  <2>3. /\ Len(Scopes[t]) = n /\ Scopes[t] # <<>>
        /\ Scopes[t][n] = ScopeOf(Top(t))
    <3>1. /\ Len(Scopes[t]) = n /\ Scopes[t] \in Seq(ScopeType)
          /\ \A d \in 1..n : Scopes[t][d] = ScopeOf(blocks[t][d])
      BY <1>1, <2>2, ScopesOfStack
    <3>2. n \in 1..n
      BY <2>1
    <3>3. QED
      BY <2>1, <3>1, <3>2, EmptySeq DEF Top
  <2>4. ScopesOf(blocks'[t]) = SubSeq(Scopes[t], 1, Len(Scopes[t]) - 1)
    <3>1. n - 1 \in 0..n
      BY <2>1
    <3>2. QED
      BY <1>1, <2>1, <2>2, <2>3, <3>1, ScopesCut
  <2>5. ~ InFlight(t)'
    <3>1. \A i \in 1..(n - 1) : blocks'[t][i].phase # "dispatch"
      BY <2>1 DEF RefinementInv, BlockInv, ThrownMarksDispatch
    <3>2. blocks'[t] # <<>> => n - 1 \in 1..(n - 1) /\ Len(blocks'[t]) = n - 1
      BY <1>1, <2>1
    <3>3. QED
      BY <3>1, <3>2 DEF InFlight, Top
  <2>6. StackOf(t)' = blocks'[t] /\ (IF InFlight(t) THEN Top(t).thrown ELSE Null)' = Null
    BY <2>5 DEF StackOf
  <2>7. /\ Scopes' = [Scopes EXCEPT ![t] = ScopesOf(blocks'[t])]
        /\ Flying' = [Flying EXCEPT ![t] = Null]
    BY <2>6, ScopesChange
  <2>8. Flying' = Flying
    BY <2>2, <2>7 DEF Flying
  <2>9. Scopes[t][n].clause = 0 <=> Top(t).phase = "body"
    <3>1. Marked(Top(t))
      BY <1>1, <2>1 DEF ClausesMark, Top
    <3>2. QED
      BY <2>1, <2>3, <3>1 DEF Marked, ScopeOf
  <2>10. outcome' = IF t # MainThread \/ Len(Scopes[t]) > 1 THEN "running"
                    ELSE IF Scopes[t][1].clause = 0 THEN "exit0" ELSE "exit1"
    <3>1. CASE n = 1
      BY <2>1, <2>3, <2>9, <3>1
    <3>2. CASE n # 1
      <4> HIDE DEF n
      <4>1. n \in Nat \ {0}
        BY <2>1
      <4>2. n > 1
        BY <3>2, <4>1
      <4>3. Len(Scopes[t]) > 1
        BY <2>3, <4>2
      <4>4. outcome' = "running"
        BY <2>1, <3>2
      <4>5. QED
        BY <4>3, <4>4
    <3>3. QED
      BY <3>1, <3>2
  <2>11. QED
    BY <2>2, <2>3, <2>4, <2>7, <2>8, <2>10, Leaving
<1>8. QED
  BY <1>3, <1>4, <1>5, <1>6, <1>7 DEF StepAsSeen

LEMMA PromiseInit == Init => Promise!Init
<1> SUFFICES ASSUME Init PROVE Promise!Init
  OBVIOUS
<1> DEFINE c == Context(<<ObjectType>>, Null)
           s == Promise!Scope(<<ObjectType>>, 0, Null)
<1>1. /\ c.phase = "body" /\ ScopeOf(c) = s
      /\ blocks = [t \in Threads |-> IF t = MainThread THEN <<c>> ELSE <<>>]
      /\ outcome = "running"
  BY DEF Init, Context, ScopeOf, Promise!Scope
<1> HIDE DEF c, s
<1>2. ASSUME NEW t \in Threads
      PROVE  /\ ~ InFlight(t)
             /\ ScopesOf(blocks[t]) = IF t = MainThread THEN <<s>> ELSE <<>>
  <2>1. CASE t = MainThread
    <3>1. blocks[t] = <<c>> /\ Len(<<c>>) = 1 /\ <<c>>[1] = c /\ DOMAIN <<c>> = 1..1
      BY <1>1, <2>1
    <3>2. ScopesOf(<<c>>) = [d \in 1..1 |-> s]
      BY <1>1, <3>1 DEF ScopesOf, ScopeOf
    <3>3. ScopesOf(<<c>>) = <<s>>
      BY <3>2
    <3>4. QED
      BY <1>1, <2>1, <3>1, <3>3 DEF InFlight, Top
  <2>2. CASE t # MainThread
    <3>1. blocks[t] = <<>>
      BY <1>1, <2>2
    <3>2. ScopesOf(<<>>) = <<>>
      BY DEF ScopesOf
    <3>3. QED
      BY <2>2, <3>1, <3>2 DEF InFlight
  <2>3. QED
    BY <2>1, <2>2
<1>3. /\ Scopes = [t \in Threads |-> IF t = MainThread THEN <<s>> ELSE <<>>]
      /\ Flying = [t \in Threads |-> Null]
  BY <1>2 DEF Scopes, Flying, StackOf
<1>4. QED
  BY <1>1, <1>3 DEF Promise!Init, Scopes, Flying, StackOf, s

LEMMA PromiseNext ==
    ASSUME Careless = {}, RefinementInv, RefinementInv', [Next]_vars
    PROVE  [Promise!Next]_(Promise!vars)
<1>1. CASE UNCHANGED <<blocks, outcome, raised>>
  <2>1. Scopes' = Scopes /\ Flying' = Flying
    BY <1>1 DEF Scopes, Flying, StackOf, InFlight, Top
  <2>2. QED
    BY <1>1, <2>1, Stutter
<1>2. ASSUME NEW t \in Threads, StepOf(t) PROVE Promise!Next \/ UNCHANGED Promise!vars
  <2>1. ChainIntact(t) /\ outcome = "running"
    BY <1>2 DEF RefinementInv, ChainMatchesBlocks, StepOf, EnterTry, Throw, Catch, Rethrow,
                EndBody, EndCatch, Executing, Dispatching
  <2>2. StepAsSeen(t) /\ \A u \in Threads \ {t} : blocks'[u] = blocks[u] /\ raised'[u] = raised[u]
    BY <1>2, <2>1, StepsSeen DEF RefinementInv
  <2>3. BlockInv' /\ SearchInv'
    BY DEF RefinementInv
  <2>4. QED
    BY <2>1, <2>2, <2>3, Simulates
<1>3. ASSUME NEW t \in Threads, EnableExceptions(t) \/ DisableExceptions(t)
      PROVE  [Promise!Next]_(Promise!vars)
  BY <1>1, <1>3 DEF EnableExceptions, DisableExceptions
<1>4. CASE UNCHANGED vars
  BY <1>1, <1>4 DEF vars
<1>5. QED
  BY <1>2, <1>3, <1>4 DEF Next, Step, StepOf, LeaveBody

LEMMA RefinementInvAlways ==
    ASSUME Careless = {}
    PROVE  /\ Init => RefinementInv
           /\ RefinementInv /\ [Next]_vars => RefinementInv'
<1>1. Init => RefinementInv
  BY BlockInvInit, ChainInit, SearchInit DEF Init, RefinementInv
<1>2. ASSUME RefinementInv, [Next]_vars PROVE RefinementInv'
  <2>1. BlockInv' /\ ChainMatchesBlocks'
    BY <1>2, BlockInvNext, ChainNext DEF RefinementInv
  <2>2. ASSUME NEW t \in Threads, Step(t), outcome' = "undefined" PROVE FALSE
    BY <1>2, <2>2, UndefinedNext DEF RefinementInv
  <2>3. outcome' # "undefined"
    BY <1>2, <2>2 DEF RefinementInv, Next, vars
  <2>4. SearchInv'
    BY <1>2, <2>1, SearchNext
  <2>5. QED
    BY <2>1, <2>3, <2>4 DEF RefinementInv
<1>3. QED
  BY <1>1, <1>2

(***************************************************************************)
(* A program that never jumps out of a try body gets what Exceptions       *)
(* promises, for any number of threads and nesting: each exception goes to *)
(* the first accepting clause of the innermost running body that has one,  *)
(* and one that nobody accepts ends the process. This is the safety part   *)
(* of ImplementsExceptions.                                                *)
(***************************************************************************)
THEOREM ImplementsExceptionsSafely ==
    ASSUME Careless = {}
    PROVE  Spec => Promise!Init /\ [][Promise!Next]_(Promise!vars)
<1>1. Init => Promise!Init
  BY PromiseInit
<1>2. Init => RefinementInv
  BY RefinementInvAlways
<1>3. RefinementInv /\ [Next]_vars => RefinementInv'
  BY RefinementInvAlways
<1>4. RefinementInv /\ RefinementInv' /\ [Next]_vars => [Promise!Next]_(Promise!vars)
  BY PromiseNext
<1>5. QED
  BY <1>1, <1>2, <1>3, <1>4, PTL DEF Spec
=============================================================================
