---------------------------- MODULE ObjectsProof ----------------------------
(***************************************************************************)
(* Objects, proved for any types, tables and numbers of objects. Whatever  *)
(* objects are created, cloned, popped and destroyed, an object whose type *)
(* defines both how to clone and how to destroy it has a live resource of  *)
(* its own, no resource is lost, and a clone stays equal to its original.  *)
(* The queries of enums agree with each other.                             *)
(***************************************************************************)
EXTENDS Objects, FiniteSetTheorems, WellFoundedInduction, TLAPS

(***************************************************************************)
(* The inductive invariant, of a heap h and resources rs: a step may have  *)
(* states in between, as Pop does, that have it too. Where r is a resource *)
(* of an object, the object is one of its owners.                          *)
(***************************************************************************)
Owns(h, o, r) == h[o] # NoObject /\ h[o].resource = r

WellTyped(h, rs) ==
    /\ h \in [Objs -> Object \cup {NoObject}]
    /\ rs \in [Resources -> [state : {"unused", "live", "finalised"}, content : Contents]]

(* An object with a resource has a destructor: only constructors hand out  *)
(* resources, and clones have the type of their original. Without this a   *)
(* live resource could lose its last owner.                                *)
OwnersFinalise(h) ==
    \A o \in Objs, r \in Resources : Owns(h, o, r) => FnEntryDtor \in Functions[h[o].type]

(* A resource that was not handed out yet has no owner that a new object   *)
(* would have to share it with.                                            *)
OwnedIsUsed(h, rs) ==
    \A o \in Objs, r \in Resources : Owns(h, o, r) => rs[r].state # "unused"

DeepAlone(h, rs) ==
    \A o \in Objs, r \in Resources :
        Owns(h, o, r) /\ Deep(h[o].type) =>
            /\ rs[r].state = "live"
            /\ \A p \in Objs : Owns(h, p, r) => p = o

LiveIsOwned(h, rs) ==
    \A r \in Resources : rs[r].state = "live" => \E o \in Objs : Owns(h, o, r)

Owned(h, rs) ==
    /\ WellTyped(h, rs)
    /\ OwnersFinalise(h)
    /\ OwnedIsUsed(h, rs)
    /\ DeepAlone(h, rs)
    /\ LiveIsOwned(h, rs)

OwnershipInv == Owned(heap, resources)

-----------------------------------------------------------------------------
LEMMA OwnershipImplies == OwnershipInv => DeepTypesOwnTheirResource
<1> SUFFICES ASSUME OwnershipInv PROVE DeepTypesOwnTheirResource
  OBVIOUS
<1>1. ASSUME NEW o \in Objs, InUse(o), Deep(TypeOf(o)), ResourceOf(o) \in Resources
      PROVE  IsLive(ResourceOf(o)) /\ OwnersOf(ResourceOf(o)) = {o}
  BY <1>1 DEF OwnershipInv, Owned, DeepAlone, Owns, OwnersOf, IsLive, InUse, TypeOf, ResourceOf
<1>2. ASSUME NEW r \in Resources, IsLive(r)
      PROVE  OwnersOf(r) # {}
  BY <1>2 DEF OwnershipInv, Owned, LiveIsOwned, Owns, OwnersOf, IsLive, InUse, ResourceOf
<1> QED BY <1>1, <1>2 DEF DeepTypesOwnTheirResource

-----------------------------------------------------------------------------
(* What can happen to a heap, one object at a time. First, a new object    *)
(* without a resource.                                                     *)
LEMMA AddBare ==
    ASSUME NEW h, NEW rs, Owned(h, rs), NEW n \in Objs, h[n] = NoObject,
           NEW t \in Types, NEW r \in {NoResource, Junk}
    PROVE  Owned([h EXCEPT ![n] = [type |-> t, resource |-> r]], rs)
<1> DEFINE g == [h EXCEPT ![n] = [type |-> t, resource |-> r]]
<1>1. WellTyped(g, rs)
  BY DEF Owned, WellTyped, Object
<1>2. \A o \in Objs, q \in Resources : Owns(g, o, q) <=> Owns(h, o, q)
  BY ObjectsAssumption DEF Owned, WellTyped, Owns
<1>3. \A o \in Objs, q \in Resources : Owns(g, o, q) => g[o] = h[o]
  BY ObjectsAssumption DEF Owned, WellTyped, Owns
<1> HIDE DEF g
<1>4. OwnersFinalise(g) /\ OwnedIsUsed(g, rs) /\ DeepAlone(g, rs) /\ LiveIsOwned(g, rs)
  BY <1>2, <1>3 DEF Owned, OwnersFinalise, OwnedIsUsed, DeepAlone, LiveIsOwned
<1>5. Owned(g, rs)
  BY <1>1, <1>4 DEF Owned
<1> QED BY <1>5 DEF g

(* A new object with a resource that nobody had.                           *)
LEMMA AddOwner ==
    ASSUME NEW h, NEW rs, Owned(h, rs), NEW n \in Objs, h[n] = NoObject,
           NEW t \in Types, FnEntryDtor \in Functions[t],
           NEW new \in Resources, rs[new].state = "unused", NEW k \in Contents
    PROVE  Owned([h EXCEPT ![n] = [type |-> t, resource |-> new]],
                 [rs EXCEPT ![new] = [state |-> "live", content |-> k]])
<1> DEFINE g == [h EXCEPT ![n] = [type |-> t, resource |-> new]]
           qs == [rs EXCEPT ![new] = [state |-> "live", content |-> k]]
<1>1. WellTyped(g, qs)
  BY DEF Owned, WellTyped, Object
<1>2. \A o \in Objs, r \in Resources :
        Owns(g, o, r) <=> (o = n /\ r = new) \/ (r # new /\ Owns(h, o, r))
  <2>1. \A o \in Objs : ~ Owns(h, o, new)
    BY DEF Owned, OwnedIsUsed
  <2> QED BY <2>1, ObjectsAssumption DEF Owned, WellTyped, Owns, Object
<1>3. \A o \in Objs, r \in Resources : Owns(h, o, r) => o # n /\ g[o] = h[o]
  BY DEF Owned, WellTyped, Owns
<1>4. g[n].type = t /\ qs[new].state = "live" /\ \A r \in Resources \ {new} : qs[r] = rs[r]
  BY DEF Owned, WellTyped
<1> HIDE DEF g, qs
<1>5. OwnersFinalise(g)
  BY <1>2, <1>3, <1>4 DEF Owned, OwnersFinalise
<1>6. OwnedIsUsed(g, qs)
  BY <1>2, <1>4 DEF Owned, OwnedIsUsed
<1>7. DeepAlone(g, qs)
  BY <1>2, <1>3, <1>4 DEF Owned, DeepAlone
<1>8. LiveIsOwned(g, qs)
  BY <1>2, <1>4 DEF Owned, LiveIsOwned
<1>9. Owned(g, qs)
  BY <1>1, <1>5, <1>6, <1>7, <1>8 DEF Owned
<1> QED BY <1>9 DEF g, qs

(* A copy of the bytes of an object whose type does not define how to      *)
(* clone it: none of the owners of its resource is of a deep type.         *)
LEMMA AddSharer ==
    ASSUME NEW h, NEW rs, Owned(h, rs), NEW n \in Objs, h[n] = NoObject,
           NEW o \in Objs, h[o] # NoObject, FnEntryClone \notin Functions[h[o].type]
    PROVE  Owned([h EXCEPT ![n] = h[o]], rs)
<1> DEFINE g == [h EXCEPT ![n] = h[o]]
<1>1. WellTyped(g, rs)
  BY DEF Owned, WellTyped
<1>2. \A p \in Objs, r \in Resources :
        Owns(g, p, r) <=> (p = n /\ Owns(h, o, r)) \/ Owns(h, p, r)
  BY DEF Owned, WellTyped, Owns
<1>3. g[n] = h[o] /\ \A p \in Objs : p # n => g[p] = h[p]
  BY DEF Owned, WellTyped
<1>4. \A r \in Resources : ~ Owns(h, n, r)
  BY DEF Owns
<1> HIDE DEF g
<1>5. OwnersFinalise(g)
  BY <1>2, <1>3, <1>4 DEF Owned, OwnersFinalise
<1>6. OwnedIsUsed(g, rs)
  BY <1>2 DEF Owned, OwnedIsUsed
<1>7. DeepAlone(g, rs)
  <2> SUFFICES ASSUME NEW p \in Objs, NEW r \in Resources, Owns(g, p, r), Deep(g[p].type)
               PROVE  rs[r].state = "live" /\ \A q \in Objs : Owns(g, q, r) => q = p
    BY DEF DeepAlone
  <2>1. p # n /\ p # o
    BY <1>3 DEF Deep
  <2>2. Owns(h, p, r) /\ Deep(h[p].type)
    BY <1>2, <1>3, <2>1
  <2>3. rs[r].state = "live" /\ \A q \in Objs : Owns(h, q, r) => q = p
    BY <2>2 DEF Owned, DeepAlone
  <2> QED BY <1>2, <2>1, <2>3
<1>8. LiveIsOwned(g, rs)
  BY <1>2 DEF Owned, LiveIsOwned
<1>9. Owned(g, rs)
  BY <1>1, <1>5, <1>6, <1>7, <1>8 DEF Owned
<1> QED BY <1>9 DEF g

(* An object whose destructor, if it has one, has run.                     *)
LEMMA DropOwner ==
    ASSUME NEW h, NEW rs, Owned(h, rs), NEW o \in Objs, h[o] # NoObject
    PROVE  Owned([h EXCEPT ![o] = NoObject], Finalised(h[o], rs))
<1> DEFINE g == [h EXCEPT ![o] = NoObject]
           qs == Finalised(h[o], rs)
<1>1. WellTyped(g, qs)
  BY DEF Owned, WellTyped, Finalised
<1>2. \A p \in Objs, r \in Resources : Owns(g, p, r) <=> p # o /\ Owns(h, p, r)
  BY DEF Owned, WellTyped, Owns
<1>3. \A p \in Objs : p # o => g[p] = h[p]
  BY DEF Owned, WellTyped
<1>4. \A r \in Resources :
        qs[r].state = IF Owns(h, o, r) THEN "finalised" ELSE rs[r].state
  BY DEF Owned, WellTyped, OwnersFinalise, Owns, Finalised
<1> HIDE DEF g, qs
<1>5. OwnersFinalise(g)
  BY <1>2, <1>3 DEF Owned, OwnersFinalise
<1>6. OwnedIsUsed(g, qs)
  BY <1>2, <1>4 DEF Owned, OwnedIsUsed
<1>7. DeepAlone(g, qs)
  BY <1>2, <1>3, <1>4 DEF Owned, DeepAlone
<1>8. LiveIsOwned(g, qs)
  BY <1>2, <1>4 DEF Owned, LiveIsOwned
<1>9. Owned(g, qs)
  BY <1>1, <1>5, <1>6, <1>7, <1>8 DEF Owned
<1> QED BY <1>9 DEF g, qs

-----------------------------------------------------------------------------
(* What a clone c of o may be: a copy of the bytes, if the type does not   *)
(* define how to clone; otherwise an object with the fresh resource new,   *)
(* made from an object that has a live one.                                *)
CopiesBytes(o, c) ==
    /\ FnEntryClone \notin Functions[TypeOf(o)]
    /\ c.clone = heap[o]
    /\ c.resources = resources

MakesNew(o, new, c) ==
    /\ c.clone = [type |-> TypeOf(o), resource |-> new]
    /\ FnEntryClone \in Functions[TypeOf(o)]
    /\ IsLive(ResourceOf(o))
    /\ c.resources = Refilled(new, ResourceOf(o))

LEMMA CloneForms ==
    ASSUME WellTyped(heap, resources), NEW o \in Objs, InUse(o), NEW new \in Fresh,
           NEW c \in Cloned(o, new), c.fault = "none"
    PROVE  CopiesBytes(o, c) \/ MakesNew(o, new, c)
<1>1. TypeOf(o) \in Types
  BY DEF WellTyped, InUse, TypeOf, Object
<1>2. PICK f \in GetFunction(TypeOf(o), FnEntryClone) :
        /\ CloneFault(f, ResourceOf(o)) = "none"
        /\ c.clone = IF f = "own" THEN [type |-> TypeOf(o), resource |-> new] ELSE heap[o]
        /\ c.resources = IF f = "own" /\ IsLive(ResourceOf(o))
                         THEN Refilled(new, ResourceOf(o)) ELSE resources
  BY DEF Cloned
<1>3. f \in {"null", "own"}
  BY <1>2 DEF GetFunction, CloneFault
<1>4. CASE f = "null"
  <2>1. FnEntryClone \notin Functions[TypeOf(o)]
    BY <1>1, <1>2, <1>4, ObjectsAssumption DEF GetFunction
  <2> QED BY <1>2, <1>4, <2>1 DEF CopiesBytes
<1>5. CASE f = "own"
  <2>1. IsLive(ResourceOf(o)) /\ ResourceOf(o) \in Resources
    BY <1>2, <1>5 DEF CloneFault, UseFault, IsLive
  <2>2. FnEntryClone \in Functions[TypeOf(o)]
    BY <1>2, <1>5 DEF GetFunction
  <2> QED BY <1>2, <1>5, <2>1, <2>2 DEF MakesNew
<1> QED BY <1>3, <1>4, <1>5

(* A clone of any kind, and the heap with it.                              *)
LEMMA AddClone ==
    ASSUME OwnershipInv, NEW o \in Objs, InUse(o), NEW n \in Objs, ~ InUse(n),
           NEW new \in Fresh, NEW c \in Cloned(o, new), c.fault = "none"
    PROVE  Owned([heap EXCEPT ![n] = c.clone], c.resources)
<1>1. Owned(heap, resources) /\ WellTyped(heap, resources)
  BY DEF OwnershipInv, Owned
<1>2. heap[n] = NoObject /\ heap[o] # NoObject
  BY DEF InUse
<1>3. CASE CopiesBytes(o, c)
  BY <1>1, <1>2, <1>3, AddSharer DEF CopiesBytes, TypeOf
<1>4. CASE MakesNew(o, new, c)
  <2>1. TypeOf(o) \in Types
    BY <1>1, <1>2 DEF WellTyped, TypeOf, Object
  <2>2. FnEntryDtor \in Functions[TypeOf(o)]
    BY <1>1, <1>2, <1>4 DEF Owned, OwnersFinalise, Owns, IsLive, ResourceOf, TypeOf, MakesNew
  <2>3. new \in Resources /\ resources[new].state = "unused"
    BY DEF Fresh
  <2>4. resources[ResourceOf(o)].content \in Contents
    BY <1>1, <1>4 DEF WellTyped, MakesNew, IsLive
  <2> QED BY <1>1, <1>2, <1>4, <2>1, <2>2, <2>3, <2>4, AddOwner DEF MakesNew, Refilled
<1> QED BY <1>1, <1>3, <1>4, CloneForms

-----------------------------------------------------------------------------
LEMMA OwnershipInit == Init => OwnershipInv
<1> SUFFICES ASSUME Init PROVE OwnershipInv
  OBVIOUS
<1>1. WellTyped(heap, resources)
  <2>1. (CHOOSE k \in Contents : TRUE) \in Contents
    BY ObjectsAssumption
  <2> QED BY <2>1 DEF Init, WellTyped
<1>2. \A o \in Objs, r \in Resources : ~ Owns(heap, o, r)
  BY DEF Init, Owns
<1>3. OwnersFinalise(heap) /\ OwnedIsUsed(heap, resources) /\ DeepAlone(heap, resources)
  BY <1>2 DEF OwnersFinalise, OwnedIsUsed, DeepAlone
<1>4. LiveIsOwned(heap, resources)
  BY DEF Init, LiveIsOwned
<1> QED
  BY <1>1, <1>3, <1>4 DEF OwnershipInv, Owned

LEMMA OwnershipStep == OwnershipInv /\ [Next]_vars => OwnershipInv'
<1> SUFFICES ASSUME OwnershipInv, [Next]_vars PROVE OwnershipInv'
  OBVIOUS
<1>1. Owned(heap, resources)
  BY DEF OwnershipInv
<1>2. ASSUME UNCHANGED <<heap, resources>>
      PROVE  OwnershipInv'
  BY <1>1, <1>2 DEF OwnershipInv
<1>3. ASSUME NEW o \in Objs, NEW t \in Types, Create(o, t)
      PROVE  OwnershipInv'
  <2>1. CASE heap' = [heap EXCEPT ![o] = [type |-> t, resource |-> NoResource]]
                /\ UNCHANGED resources
    BY <1>1, <1>3, <2>1, AddBare DEF Create, InUse, OwnershipInv
  <2>2. ASSUME NEW r \in Fresh, NEW c \in Contents,
               FnEntryDtor \in Functions[t],
               heap' = [heap EXCEPT ![o] = [type |-> t, resource |-> r]],
               resources' = [resources EXCEPT ![r] = [state |-> "live", content |-> c]]
        PROVE  OwnershipInv'
    <3>1. r \in Resources /\ resources[r].state = "unused" /\ heap[o] = NoObject
      BY <1>3 DEF Fresh, Create, InUse
    <3>2. Owned([heap EXCEPT ![o] = [type |-> t, resource |-> r]],
                [resources EXCEPT ![r] = [state |-> "live", content |-> c]])
      BY <1>1, <2>2, <3>1, AddOwner
    <3> QED BY <2>2, <3>2 DEF OwnershipInv
  <2> QED BY <1>3, <2>1, <2>2 DEF Create
<1>4. ASSUME NEW o \in Objs, NEW t \in Types, Construct(o, t)
      PROVE  OwnershipInv'
  <2>1. PICK r \in {NoResource, Junk} :
            heap' = [heap EXCEPT ![o] = [type |-> t, resource |-> r]]
    BY <1>4 DEF Construct
  <2>2. heap[o] = NoObject /\ UNCHANGED resources
    BY <1>4 DEF Construct, InUse
  <2>3. Owned([heap EXCEPT ![o] = [type |-> t, resource |-> r]], resources)
    BY <1>1, <2>2, AddBare
  <2> QED BY <2>1, <2>2, <2>3 DEF OwnershipInv
<1>5. ASSUME NEW o \in Objs, NEW n \in Objs, NEW new \in Resources, Clone(o, n, new)
      PROVE  OwnershipInv'
  <2>1. InUse(o) /\ ~ InUse(n) /\ new \in Fresh
    BY <1>5 DEF Clone
  <2>2. ASSUME NEW c \in Cloned(o, new), c.fault = "none",
               heap' = [heap EXCEPT ![n] = c.clone], resources' = c.resources
        PROVE  OwnershipInv'
    BY <2>1, <2>2, AddClone DEF OwnershipInv
  <2> QED BY <1>2, <1>5, <2>2 DEF Clone, Fails
<1>6. ASSUME NEW o \in Objs, NEW n \in Objs, NEW new \in Resources, Pop(o, n, new)
      PROVE  OwnershipInv'
  <2>1. InUse(o) /\ ~ InUse(n) /\ new \in Fresh
    BY <1>6 DEF Pop
  <2>2. ASSUME NEW c \in Cloned(o, new), c.fault = "none",
               heap' = [heap EXCEPT ![o] = NoObject, ![n] = c.clone],
               resources' = Finalised(heap[o], c.resources)
        PROVE  OwnershipInv'
    <3> DEFINE g == [heap EXCEPT ![n] = c.clone]
    <3>1. Owned(g, c.resources)
      BY <2>1, <2>2, AddClone
    <3>2. g[o] = heap[o] /\ heap[o] # NoObject
      BY <1>1, <2>1 DEF InUse, Owned, WellTyped
    <3>3. heap' = [g EXCEPT ![o] = NoObject]
      BY <1>1, <2>1, <2>2 DEF InUse, Owned, WellTyped
    <3> HIDE DEF g
    <3>4. Owned([g EXCEPT ![o] = NoObject], Finalised(g[o], c.resources))
      BY <3>1, <3>2, DropOwner
    <3> QED BY <2>2, <3>2, <3>3, <3>4 DEF OwnershipInv
  <2> QED BY <1>2, <1>6, <2>2 DEF Pop, Fails
<1>7. ASSUME NEW o \in Objs, Destroy(o)
      PROVE  OwnershipInv'
  <2>1. CASE heap' = [heap EXCEPT ![o] = NoObject] /\ resources' = Finalised(heap[o], resources)
    BY <1>1, <1>7, <2>1, DropOwner DEF Destroy, InUse, OwnershipInv
  <2> QED BY <1>2, <1>7, <2>1 DEF Destroy, Fails
<1>8. ASSUME NEW o \in Objs, AsString(o)
      PROVE  OwnershipInv'
  BY <1>2, <1>8 DEF AsString
<1>9. ASSUME NEW o1 \in Objs, NEW o2 \in Objs, Equals(o1, o2)
      PROVE  OwnershipInv'
  BY <1>2, <1>9 DEF Equals
<1>10. ASSUME NEW e \in EnumTables,
              \/ \E v \in EnumValues : AskValue(e, v)
              \/ \E n \in EnumNames : AskName(e, n)
       PROVE  OwnershipInv'
  BY <1>2, <1>10 DEF AskValue, AskName
<1>11. CASE UNCHANGED vars
  BY <1>2, <1>11 DEF vars
<1> QED
  BY <1>3, <1>4, <1>5, <1>6, <1>7, <1>8, <1>9, <1>10, <1>11 DEF Next

(* Whatever types a program has, and however it creates, clones, pops and  *)
(* destroys their objects, those of types that define both how to clone    *)
(* and how to destroy have a live resource of their own, and no resource   *)
(* is lost.                                                                *)
THEOREM DeepTypesOwnTheirResourceAlways == Spec => []DeepTypesOwnTheirResource
<1>1. Init => OwnershipInv
  BY OwnershipInit
<1>2. OwnershipInv /\ [Next]_vars => OwnershipInv'
  BY OwnershipStep
<1>3. OwnershipInv => DeepTypesOwnTheirResource
  BY OwnershipImplies
<1> QED BY <1>1, <1>2, <1>3, PTL DEF Spec

-----------------------------------------------------------------------------
(***************************************************************************)
(* No lookup of a function is refused, since the functions that the calls  *)
(* look up are the first four and a pointer has at least four bytes; and   *)
(* an object always has the type it was created with.                      *)
(***************************************************************************)
PointersAreWide == PointerSize >= 4

Faults == {"none", "assert", "junk", "finalised", "foreign", "overread"}

ObjectsInv ==
    /\ OwnershipInv
    /\ copies \subseteq Objs \X Objs
    /\ fault \in Faults

LEMMA LookupsSucceed ==
    ASSUME PointersAreWide, NEW t \in Types, NEW index \in 0..3
    PROVE  GetFunction(t, index) \subseteq {"null", "foreign", "own"}
<1>1. Entries[t] \in Nat \ {0} /\ PointerSize \in Nat
  BY ObjectsAssumption
<1>2. Entries[t] * PointerSize >= PointerSize
  BY <1>1
<1>3. index < Entries[t] * PointerSize
  BY <1>1, <1>2 DEF PointersAreWide
<1>4. QED
  BY <1>1, <1>3 DEF GetFunction

LEMMA CloneFaults ==
    ASSUME PointersAreWide, WellTyped(heap, resources), NEW o \in Objs, InUse(o),
           NEW new, NEW c \in Cloned(o, new)
    PROVE  c.fault \in Faults
<1>1. TypeOf(o) \in Types
  BY DEF WellTyped, InUse, TypeOf, Object
<1>2. PICK f \in GetFunction(TypeOf(o), FnEntryClone) : c.fault = CloneFault(f, ResourceOf(o))
  BY DEF Cloned
<1>3. f \in {"null", "foreign", "own"}
  BY <1>1, <1>2, LookupsSucceed DEF FnEntryClone
<1>4. QED
  BY <1>2, <1>3 DEF CloneFault, UseFault, Faults

LEMMA DestroyFaultsAre ==
    ASSUME PointersAreWide, WellTyped(heap, resources), NEW o \in Objs, InUse(o)
    PROVE  DestroyFaults(heap[o]) \subseteq Faults
<1>1. heap[o].type \in Types
  BY DEF WellTyped, InUse, Object
<1>2. GetFunction(heap[o].type, FnEntryDtor) \subseteq {"null", "foreign", "own"}
  BY <1>1, LookupsSucceed DEF FnEntryDtor
<1>3. QED
  BY <1>2 DEF DestroyFaults, UseFault, Faults

LEMMA ObjectsStep ==
    PointersAreWide /\ ObjectsInv /\ [Next]_vars => ObjectsInv'
<1> SUFFICES ASSUME PointersAreWide, ObjectsInv, [Next]_vars PROVE ObjectsInv'
  OBVIOUS
<1>1. OwnershipInv' /\ WellTyped(heap, resources)
  BY OwnershipStep DEF ObjectsInv, OwnershipInv, Owned
<1>2. \A o \in Objs : Without(o) \subseteq copies
  BY DEF Without
<1>3. ASSUME NEW o \in Objs, NEW t \in Types, Create(o, t) \/ Construct(o, t)
      PROVE  copies' \subseteq Objs \X Objs /\ fault' \in Faults
  BY <1>3 DEF Create, Construct, Leaves, ObjectsInv, Faults
<1>4. ASSUME NEW o \in Objs, NEW n \in Objs, NEW new \in Resources, Clone(o, n, new)
      PROVE  copies' \subseteq Objs \X Objs /\ fault' \in Faults
  <2>1. PICK c \in Cloned(o, new) :
            IF c.fault # "none" THEN copies' = copies /\ fault' = c.fault
            ELSE copies' = copies \cup {<<o, n>>} /\ fault' = "none"
    BY <1>4 DEF Clone, Fails, Leaves
  <2>2. c.fault \in Faults
    BY <1>1, <1>4, CloneFaults DEF Clone
  <2>3. QED
    BY <2>1, <2>2 DEF ObjectsInv, Faults
<1>5. ASSUME NEW o \in Objs, NEW n \in Objs, NEW new \in Resources, Pop(o, n, new)
      PROVE  copies' \subseteq Objs \X Objs /\ fault' \in Faults
  <2>1. PICK c \in Cloned(o, new), end \in DestroyFaults(heap[o]) :
            copies' \in {copies, Without(o)} /\ fault' \in {c.fault, end, "none"}
    BY <1>5 DEF Pop, Fails, Leaves
  <2>2. c.fault \in Faults /\ end \in Faults
    BY <1>1, <1>5, CloneFaults, DestroyFaultsAre DEF Pop
  <2>3. QED
    BY <1>2, <2>1, <2>2 DEF ObjectsInv, Faults
<1>6. ASSUME NEW o \in Objs, Destroy(o)
      PROVE  copies' \subseteq Objs \X Objs /\ fault' \in Faults
  <2>1. PICK end \in DestroyFaults(heap[o]) :
            copies' \in {copies, Without(o)} /\ fault' \in {end, "none"}
    BY <1>6 DEF Destroy, Fails, Leaves
  <2>2. end \in Faults
    BY <1>1, <1>6, DestroyFaultsAre DEF Destroy
  <2>3. QED
    BY <1>2, <2>1, <2>2 DEF ObjectsInv, Faults
<1>7. ASSUME NEW o \in Objs, AsString(o)
      PROVE  copies' \subseteq Objs \X Objs /\ fault' \in Faults
  <2>1. TypeOf(o) \in Types
    BY <1>1, <1>7 DEF WellTyped, AsString, InUse, TypeOf, Object
  <2>2. GetFunction(TypeOf(o), FnEntryToString) \subseteq {"null", "foreign", "own"}
    BY <2>1, LookupsSucceed DEF FnEntryToString
  <2>3. QED
    BY <1>7, <2>2 DEF AsString, Leaves, UseFault, ObjectsInv, Faults
<1>8. ASSUME NEW o1 \in Objs, NEW o2 \in Objs, Equals(o1, o2)
      PROVE  copies' \subseteq Objs \X Objs /\ fault' \in Faults
  <2>1. TypeOf(o1) \in Types
    BY <1>1, <1>8 DEF WellTyped, Equals, InUse, TypeOf, Object
  <2>2. GetFunction(TypeOf(o1), FnEntryEquals) \subseteq {"null", "foreign", "own"}
    BY <2>1, LookupsSucceed DEF FnEntryEquals
  <2>3. QED
    BY <1>8, <2>2 DEF Equals, Leaves, UseFault, ObjectsInv, Faults
<1>9. ASSUME NEW e \in EnumTables,
              \/ \E v \in EnumValues : AskValue(e, v)
              \/ \E n \in EnumNames : AskName(e, n)
       PROVE  copies' \subseteq Objs \X Objs /\ fault' \in Faults
  BY <1>9 DEF AskValue, AskName, Answers, ObjectsInv, Faults
<1>10. ASSUME UNCHANGED vars
       PROVE  copies' \subseteq Objs \X Objs /\ fault' \in Faults
  BY <1>10 DEF vars, ObjectsInv
<1>11. copies' \subseteq Objs \X Objs /\ fault' \in Faults
  BY <1>3, <1>4, <1>5, <1>6, <1>7, <1>8, <1>9, <1>10 DEF Next, ObjectsInv
<1>12. QED
  BY <1>1, <1>11 DEF ObjectsInv

(* What every variable is, and that no call ends in the RangeError of a    *)
(* lookup or calls a NULL: "thrown" and "null" are not among the faults.   *)
THEOREM ObjectsTypeCorrect == PointersAreWide => (Spec => []TypeOK)
<1> SUFFICES ASSUME PointersAreWide PROVE Spec => []TypeOK
  OBVIOUS
<1>1. Init => ObjectsInv
  BY OwnershipInit DEF Init, ObjectsInv, Faults
<1>2. ObjectsInv /\ [Next]_vars => ObjectsInv'
  BY ObjectsStep
<1>3. ObjectsInv => TypeOK
  BY DEF ObjectsInv, OwnershipInv, Owned, WellTyped, TypeOK, Faults
<1>4. QED
  BY <1>1, <1>2, <1>3, PTL DEF Spec

-----------------------------------------------------------------------------
(***************************************************************************)
(* Clones. A type that makes clones of its own, with new resources, must   *)
(* also compare by what is in them; AvmString is such a type.              *)
(***************************************************************************)
CloningTypesCompare ==
    \A t \in Types : FnEntryClone \in Functions[t] => FnEntryEquals \in Functions[t]

EqualIn(h, rs, o1, o2) ==
    IF FnEntryEquals \in Functions[h[o1].type]
    THEN \/ h[o1].resource = h[o2].resource
         \/ /\ {h[o1].resource, h[o2].resource} \subseteq Resources
            /\ rs[h[o1].resource].content = rs[h[o2].resource].content
    ELSE h[o1] = h[o2]

Agree(h, rs, o1, o2) ==
    /\ o1 \in Objs /\ o2 \in Objs
    /\ h[o1] # NoObject /\ h[o2] # NoObject
    /\ EqualIn(h, rs, o1, o2) /\ EqualIn(h, rs, o2, o1)

CopiesAgree(h, rs, cs) == \A p \in cs : Agree(h, rs, p[1], p[2])

(* A step that touches no object in use and no content that one has.       *)
LEMMA AgreeStill ==
    ASSUME NEW h, NEW rs, NEW g, NEW qs, NEW o1, NEW o2, Agree(h, rs, o1, o2),
           \A o \in {o1, o2} : g[o] = h[o],
           \A o \in {o1, o2}, r \in Resources : Owns(h, o, r) => qs[r].content = rs[r].content
    PROVE  Agree(g, qs, o1, o2)
BY DEF Agree, EqualIn, Owns

LEMMA CopiesStill ==
    ASSUME NEW h, NEW rs, NEW g, NEW qs, NEW cs, CopiesAgree(h, rs, cs),
           \A o \in Objs : h[o] # NoObject => g[o] = h[o],
           \A o \in Objs, r \in Resources : Owns(h, o, r) => qs[r].content = rs[r].content
    PROVE  CopiesAgree(g, qs, cs)
<1> SUFFICES ASSUME NEW p \in cs PROVE Agree(g, qs, p[1], p[2])
  BY DEF CopiesAgree
<1>1. Agree(h, rs, p[1], p[2])
  BY DEF CopiesAgree
<1>2. p[1] \in Objs /\ p[2] \in Objs /\ h[p[1]] # NoObject /\ h[p[2]] # NoObject
  BY <1>1 DEF Agree
<1>3. QED
  BY <1>1, <1>2, AgreeStill

LEMMA CopiesWithout ==
    ASSUME NEW h, NEW rs, WellTyped(h, rs), NEW cs, CopiesAgree(h, rs, cs),
           NEW o \in Objs, h[o] # NoObject
    PROVE  CopiesAgree([h EXCEPT ![o] = NoObject], Finalised(h[o], rs),
                       {p \in cs : p[1] # o /\ p[2] # o})
<1> DEFINE g == [h EXCEPT ![o] = NoObject]
           qs == Finalised(h[o], rs)
<1>1. \A r \in Resources : qs[r].content = rs[r].content
  BY DEF WellTyped, Finalised
<1>2. \A q \in Objs : q # o => g[q] = h[q]
  BY DEF WellTyped
<1> HIDE DEF g, qs
<1> SUFFICES ASSUME NEW p \in cs, p[1] # o, p[2] # o PROVE Agree(g, qs, p[1], p[2])
  BY DEF CopiesAgree, g, qs
<1>3. Agree(h, rs, p[1], p[2])
  BY DEF CopiesAgree
<1>4. p[1] \in Objs /\ p[2] \in Objs
  BY <1>3 DEF Agree
<1>5. QED
  BY <1>1, <1>2, <1>3, <1>4, AgreeStill

(* A new clone agrees with its original, and disturbs no other.            *)
LEMMA CopiesWith ==
    ASSUME CloningTypesCompare, OwnershipInv, CopiesAgree(heap, resources, copies),
           NEW o \in Objs, InUse(o), NEW n \in Objs, ~ InUse(n),
           NEW new \in Fresh, NEW c \in Cloned(o, new), c.fault = "none"
    PROVE  CopiesAgree([heap EXCEPT ![n] = c.clone], c.resources, copies \cup {<<o, n>>})
<1> DEFINE g == [heap EXCEPT ![n] = c.clone]
<1>1. /\ WellTyped(heap, resources) /\ heap[o] # NoObject /\ heap[n] = NoObject /\ o # n
      /\ new \in Resources /\ \A q \in Objs : ~ Owns(heap, q, new)
      /\ heap[o].type \in Types
  BY DEF OwnershipInv, Owned, InUse, Fresh, OwnedIsUsed, WellTyped, Object
<1>2. g[n] = c.clone /\ \A q \in Objs : q # n => g[q] = heap[q]
  BY <1>1 DEF WellTyped
<1>3. Owned(g, c.resources)
  BY AddClone
<1> HIDE DEF g
<1>4. CASE CopiesBytes(o, c)
  <2>1. CopiesAgree(g, c.resources, copies)
    BY <1>1, <1>2, <1>4, CopiesStill DEF CopiesBytes
  <2>2. g[o] = heap[o] /\ g[n] = heap[o]
    BY <1>1, <1>2, <1>4 DEF CopiesBytes
  <2>3. Agree(g, c.resources, o, n)
    BY <1>1, <2>2 DEF Agree, EqualIn
  <2>4. CopiesAgree(g, c.resources, copies \cup {<<o, n>>})
    BY <2>1, <2>3 DEF CopiesAgree
  <2>5. QED
    BY <2>4 DEF g
<1>5. CASE MakesNew(o, new, c)
  <2>1. /\ c.clone = [type |-> heap[o].type, resource |-> new]
        /\ heap[o].resource \in Resources
        /\ FnEntryEquals \in Functions[heap[o].type]
    BY <1>1, <1>5 DEF MakesNew, TypeOf, ResourceOf, IsLive, CloningTypesCompare
  <2>2. /\ c.resources[new].content = resources[heap[o].resource].content
        /\ \A r \in Resources : r # new => c.resources[r] = resources[r]
    BY <1>1, <1>5 DEF MakesNew, Refilled, ResourceOf, WellTyped
  <2>3. heap[o].resource # new
    BY <1>1 DEF Owns
  <2>4. CopiesAgree(g, c.resources, copies)
    <3>1. \A q \in Objs, r \in Resources :
            Owns(heap, q, r) => c.resources[r].content = resources[r].content
      BY <1>1, <2>2
    <3>2. \A q \in Objs : heap[q] # NoObject => g[q] = heap[q]
      BY <1>1, <1>2
    <3>3. QED
      BY <3>1, <3>2, CopiesStill
  <2>5. /\ g[o] = heap[o] /\ g[n].type = heap[o].type /\ g[n].resource = new
        /\ g[n] # NoObject
    BY <1>1, <1>2, <2>1, ObjectsAssumption DEF Object
  <2>6. c.resources[g[o].resource].content = c.resources[g[n].resource].content
    BY <2>1, <2>2, <2>3, <2>5
  <2>7. Agree(g, c.resources, o, n)
    BY <1>1, <2>1, <2>5, <2>6 DEF Agree, EqualIn
  <2>8. CopiesAgree(g, c.resources, copies \cup {<<o, n>>})
    BY <2>4, <2>7 DEF CopiesAgree
  <2>9. QED
    BY <2>8 DEF g
<1>6. QED
  BY <1>1, <1>4, <1>5, CloneForms

CopiesInv == OwnershipInv /\ CopiesAgree(heap, resources, copies)

LEMMA CopiesStep == CloningTypesCompare /\ CopiesInv /\ [Next]_vars => CopiesInv'
<1> SUFFICES ASSUME CloningTypesCompare, CopiesInv, [Next]_vars PROVE CopiesInv'
  OBVIOUS
<1>1. OwnershipInv' /\ OwnershipInv /\ WellTyped(heap, resources)
      /\ CopiesAgree(heap, resources, copies)
  BY OwnershipStep DEF CopiesInv, OwnershipInv, Owned
<1>2. ASSUME UNCHANGED <<heap, resources, copies>>
      PROVE  CopiesAgree(heap, resources, copies)'
  BY <1>1, <1>2 DEF CopiesAgree, Agree, EqualIn
<1>3. ASSUME NEW o \in Objs, NEW t \in Types, Create(o, t) \/ Construct(o, t)
      PROVE  CopiesAgree(heap, resources, copies)'
  <2>1. heap[o] = NoObject /\ copies' = copies
    BY <1>3 DEF Create, Construct, InUse
  <2>2. \A q \in Objs : heap[q] # NoObject => heap'[q] = heap[q]
    BY <1>1, <1>3, <2>1 DEF Create, Construct, WellTyped
  <2>3. \/ resources' = resources
        \/ \E r \in Fresh, c \in Contents :
                resources' = [resources EXCEPT ![r] = [state |-> "live", content |-> c]]
    BY <1>3 DEF Create, Construct
  <2>4. \A r \in Resources : r \notin Fresh => resources'[r] = resources[r]
    BY <1>1, <2>3 DEF WellTyped
  <2>5. \A q \in Objs, r \in Resources : Owns(heap, q, r) => r \notin Fresh
    BY <1>1 DEF OwnershipInv, Owned, OwnedIsUsed, Fresh
  <2>6. CopiesAgree(heap', resources', copies)
    BY <1>1, <2>2, <2>4, <2>5, CopiesStill
  <2>7. QED
    BY <2>1, <2>6 DEF CopiesAgree, Agree, EqualIn
<1>4. ASSUME NEW o \in Objs, NEW n \in Objs, NEW new \in Resources, Clone(o, n, new)
      PROVE  CopiesAgree(heap, resources, copies)'
  <2>1. InUse(o) /\ ~ InUse(n) /\ new \in Fresh
    BY <1>4 DEF Clone
  <2>2. ASSUME NEW c \in Cloned(o, new), c.fault = "none",
               heap' = [heap EXCEPT ![n] = c.clone], resources' = c.resources,
               copies' = copies \cup {<<o, n>>}
        PROVE  CopiesAgree(heap, resources, copies)'
    <3>1. CopiesAgree(heap', resources', copies')
      BY <1>1, <2>1, <2>2, CopiesWith
    <3>2. QED
      BY <3>1 DEF CopiesAgree, Agree, EqualIn
  <2>3. QED
    BY <1>2, <1>4, <2>2 DEF Clone, Fails
<1>5. ASSUME NEW o \in Objs, NEW n \in Objs, NEW new \in Resources, Pop(o, n, new)
      PROVE  CopiesAgree(heap, resources, copies)'
  <2>1. InUse(o) /\ ~ InUse(n) /\ new \in Fresh
    BY <1>5 DEF Pop
  <2>2. ASSUME NEW c \in Cloned(o, new), c.fault = "none",
               heap' = [heap EXCEPT ![o] = NoObject, ![n] = c.clone],
               resources' = Finalised(heap[o], c.resources),
               copies' = Without(o)
        PROVE  CopiesAgree(heap, resources, copies)'
    <3> DEFINE g == [heap EXCEPT ![n] = c.clone]
               cs == copies \cup {<<o, n>>}
    <3>1. Owned(g, c.resources)
      BY <1>1, <2>1, <2>2, AddClone
    <3>2. CopiesAgree(g, c.resources, cs)
      BY <1>1, <2>1, <2>2, CopiesWith
    <3>3. g[o] = heap[o] /\ heap[o] # NoObject
      BY <1>1, <2>1 DEF InUse, WellTyped
    <3>4. heap' = [g EXCEPT ![o] = NoObject]
      BY <1>1, <2>1, <2>2 DEF InUse, WellTyped
    <3>5. copies' = {p \in cs : p[1] # o /\ p[2] # o}
      BY <2>2 DEF Without
    <3> HIDE DEF g, cs
    <3>6. WellTyped(g, c.resources)
      BY <3>1 DEF Owned
    <3>7. CopiesAgree([g EXCEPT ![o] = NoObject], Finalised(g[o], c.resources),
                      {p \in cs : p[1] # o /\ p[2] # o})
      BY <3>2, <3>3, <3>6, CopiesWithout
    <3>8. CopiesAgree(heap', resources', copies')
      BY <2>2, <3>3, <3>4, <3>5, <3>7
    <3>9. QED
      BY <3>8 DEF CopiesAgree, Agree, EqualIn
  <2>3. QED
    BY <1>2, <1>5, <2>2 DEF Pop, Fails
<1>6. ASSUME NEW o \in Objs, Destroy(o)
      PROVE  CopiesAgree(heap, resources, copies)'
  <2>1. CASE /\ heap' = [heap EXCEPT ![o] = NoObject]
             /\ resources' = Finalised(heap[o], resources)
             /\ copies' = Without(o)
    <3>1. heap[o] # NoObject
      BY <1>6 DEF Destroy, InUse
    <3>2. CopiesAgree([heap EXCEPT ![o] = NoObject], Finalised(heap[o], resources),
                      {p \in copies : p[1] # o /\ p[2] # o})
      BY <1>1, <3>1, CopiesWithout
    <3>3. CopiesAgree(heap', resources', copies')
      BY <2>1, <3>2 DEF Without
    <3>4. QED
      BY <3>3 DEF CopiesAgree, Agree, EqualIn
  <2>2. QED
    BY <1>2, <1>6, <2>1 DEF Destroy, Fails
<1>7. ASSUME NEW o \in Objs, AsString(o)
      PROVE  CopiesAgree(heap, resources, copies)'
  BY <1>2, <1>7 DEF AsString
<1>8. ASSUME NEW o1 \in Objs, NEW o2 \in Objs, Equals(o1, o2)
      PROVE  CopiesAgree(heap, resources, copies)'
  BY <1>2, <1>8 DEF Equals
<1>9. ASSUME NEW e \in EnumTables,
              \/ \E v \in EnumValues : AskValue(e, v)
              \/ \E n \in EnumNames : AskName(e, n)
       PROVE  CopiesAgree(heap, resources, copies)'
  BY <1>2, <1>9 DEF AskValue, AskName
<1>10. ASSUME UNCHANGED vars
       PROVE  CopiesAgree(heap, resources, copies)'
  BY <1>2, <1>10 DEF vars
<1>11. CopiesAgree(heap, resources, copies)'
  BY <1>3, <1>4, <1>5, <1>6, <1>7, <1>8, <1>9, <1>10 DEF Next
<1>12. QED
  BY <1>1, <1>11 DEF CopiesInv

(* A clone and its original are equal to AvmObjectEquals, in both orders,  *)
(* from the call of AvmObjectClone until one of them is destroyed,         *)
(* whatever is done to other objects: a constructor or another clone only  *)
(* fills resources that no object has.                                     *)
THEOREM ClonesAreEqualAlways == CloningTypesCompare => (Spec => []ClonesAreEqual)
<1> SUFFICES ASSUME CloningTypesCompare PROVE Spec => []ClonesAreEqual
  OBVIOUS
<1>1. Init => CopiesInv
  BY OwnershipInit DEF Init, CopiesInv, CopiesAgree
<1>2. CopiesInv /\ [Next]_vars => CopiesInv'
  BY CopiesStep
<1>3. CopiesInv => ClonesAreEqual
  BY DEF CopiesInv, CopiesAgree, Agree, EqualIn, ClonesAreEqual, Equal, TypeOf, ResourceOf
<1>4. QED
  BY <1>1, <1>2, <1>3, PTL DEF Spec

-----------------------------------------------------------------------------
(***************************************************************************)
(* The enums. A set of numbers that is not empty has a least one, so that  *)
(* the loops stop at the first place that they look for.                   *)
(***************************************************************************)
LEMMA LeastOf ==
    ASSUME NEW S \in SUBSET Nat, S # {}
    PROVE  \E m \in S : \A k \in S : m <= k
<1> DEFINE Below == {0..m : m \in S}
           R == StrictSubsetOrdering(Nat)
<1>1. Below \subseteq FiniteSubsetsOf(Nat)
  <2>1. ASSUME NEW m \in S PROVE 0..m \in FiniteSubsetsOf(Nat)
    <3>1. IsFiniteSet(0..m)
      BY FS_Interval
    <3>2. 0..m \in SUBSET Nat
      OBVIOUS
    <3>3. QED
      BY <3>1, <3>2 DEF FiniteSubsetsOf
  <2>2. QED
    BY <2>1
<1>2. Below # {}
  OBVIOUS
<1>3. IsWellFoundedOn(R, FiniteSubsetsOf(Nat))
  BY FS_StrictSubsetOrderingWellFounded
<1> HIDE DEF R
<1>4. PICK x \in Below : \A y \in Below : ~ (<<y, x>> \in R)
  BY <1>1, <1>2, <1>3, WFMin
<1>5. PICK m \in S : x = 0..m
  BY <1>4
<1>6. ASSUME NEW k \in S PROVE m <= k
  <2> SUFFICES ASSUME k < m PROVE FALSE
    BY <1>5
  <2>1. 0..k \in SUBSET Nat /\ 0..m \in SUBSET Nat /\ 0..k \subseteq 0..m /\ 0..k # 0..m
    <3>1. m \in 0..m /\ m \notin 0..k
      OBVIOUS
    <3>2. QED
      BY <3>1
  <2>2. <<0..k, 0..m>> \in R
    BY <2>1 DEF R, StrictSubsetOrdering
  <2>3. 0..k \in Below
    OBVIOUS
  <2>4. QED
    BY <1>4, <1>5, <2>2, <2>3
<1>7. QED
  BY <1>5, <1>6

Least(S, m) == m \in S /\ \A k \in S : m <= k

LEMMA LeastChosen ==
    ASSUME NEW S \in SUBSET Nat, S # {}
    PROVE  Least(S, CHOOSE i \in S : \A j \in S : i <= j)
BY LeastOf DEF Least

LEMMA LeastUnique ==
    ASSUME NEW S \in SUBSET Nat, NEW m, NEW n, Least(S, m), Least(S, n)
    PROVE  m = n
BY DEF Least

(* Where a table ends: behind its members, and at none of them.            *)
LEMMA Ends ==
    ASSUME NEW e \in EnumTables, NEW i \in 1..MaxMembers
    PROVE  IsEnd(Member(e, i)) <=> i \notin DOMAIN e
<1>1. i \in DOMAIN e => e[i].name # NoName
  BY EnumsAssumption
<1>2. Zero.name = NoName
  BY DEF Zero
<1>3. QED
  BY <1>1, <1>2 DEF IsEnd, Member

(***************************************************************************)
(* What a loop finds: it is "present" exactly if a member is wanted, and   *)
(* then it stops at the first of those; only a full table has no end.      *)
(***************************************************************************)
LEMMA FirstMemberIs ==
    ASSUME NEW e \in EnumTables, NEW wanted \in SUBSET (1..MaxMembers)
    PROVE  /\ FirstMember(e, wanted) = "present" <=> wanted \cap DOMAIN e # {}
           /\ FirstMember(e, wanted) = "present" =>
                \E i \in wanted \cap DOMAIN e : TheMember(e, wanted) = e[i]
           /\ FirstMember(e, wanted) = "overread" => Len(e) = MaxMembers
<1> DEFINE stops == {i \in 1..MaxMembers : IsEnd(Member(e, i)) \/ i \in wanted}
           first == CHOOSE i \in stops : \A j \in stops : i <= j
           least == CHOOSE i \in wanted : \A j \in wanted : i <= j
<1>1. /\ MaxMembers \in Nat /\ Len(e) \in Nat /\ DOMAIN e = 1..Len(e) /\ Len(e) <= MaxMembers
      /\ stops \in SUBSET Nat /\ wanted \in SUBSET Nat
  BY EnumsAssumption, ObjectsAssumption
<1>2. FirstMember(e, wanted) = IF stops = {} THEN "overread"
                               ELSE IF IsEnd(Member(e, first)) THEN "absent" ELSE "present"
  BY DEF FirstMember
<1>3. TheMember(e, wanted) = e[least]
  BY DEF TheMember
<1>4. \A i \in 1..MaxMembers : i \in stops <=> i \notin 1..Len(e) \/ i \in wanted
  BY <1>1, Ends
<1>5. stops # {} => Least(stops, first)
  BY <1>1, LeastChosen
<1>6. stops \subseteq 1..MaxMembers
  OBVIOUS
<1> HIDE DEF stops, first
<1>7. ASSUME stops = {}
      PROVE  Len(e) = MaxMembers /\ wanted \cap DOMAIN e = {}
  <2>1. \A i \in 1..MaxMembers : i \in 1..Len(e) /\ i \notin wanted
    BY <1>4, <1>7
  <2>2. MaxMembers \in Nat /\ Len(e) \in Nat /\ Len(e) <= MaxMembers
    BY <1>1
  <2>3. Len(e) = MaxMembers
    <3>1. CASE MaxMembers = 0
      BY <2>2, <3>1
    <3>2. CASE MaxMembers # 0
      <4>1. MaxMembers \in 1..MaxMembers
        BY <2>2, <3>2
      <4>2. MaxMembers \in 1..Len(e)
        BY <2>1, <4>1
      <4>3. QED
        BY <2>2, <4>2
    <3>3. QED
      BY <3>1, <3>2
  <2>4. wanted \cap DOMAIN e = {}
    BY <2>1
  <2>5. QED
    BY <2>3, <2>4
<1>8. ASSUME stops # {}
      PROVE  /\ ~ IsEnd(Member(e, first)) <=> wanted \cap DOMAIN e # {}
             /\ ~ IsEnd(Member(e, first)) => first \in wanted \cap DOMAIN e /\ least = first
  <2>1. Least(stops, first) /\ first \in 1..MaxMembers
    BY <1>5, <1>6, <1>8 DEF Least
  <2>2. ~ IsEnd(Member(e, first)) <=> first \in 1..Len(e)
    BY <1>1, <2>1, Ends
  <2>3. ASSUME first \in 1..Len(e) PROVE first \in wanted /\ Least(wanted, first)
    BY <1>1, <1>4, <2>1, <2>3 DEF Least
  <2>4. ASSUME NEW i \in wanted, i \in 1..Len(e) PROVE first \in 1..Len(e)
    BY <1>1, <1>4, <2>1, <2>4 DEF Least
  <2>5. ASSUME first \in 1..Len(e) PROVE least = first
    <3>1. Least(wanted, first) /\ wanted # {}
      BY <2>3, <2>5
    <3>2. Least(wanted, least)
      BY <1>1, <3>1, LeastChosen
    <3>3. QED
      BY <1>1, <3>1, <3>2, LeastUnique
  <2> HIDE DEF least
  <2>6. QED
    BY <1>1, <2>2, <2>3, <2>4, <2>5
<1>9. QED
  BY <1>1, <1>2, <1>3, <1>7, <1>8

EnumsInv ==
    /\ call.name = "IsDefined" =>
            \E e \in EnumTables, v \in EnumValues : call.args = <<e, v>> /\ call.answer = HasValue(e, v)
    /\ call.name = "GetValueOf" =>
            \E e \in EnumTables, n \in EnumNames : call.args = <<e, n>> /\ call.answer = HasName(e, n)

LEMMA EnumsStep == EnumsInv /\ [Next]_vars => EnumsInv'
<1> SUFFICES ASSUME EnumsInv, [Next]_vars PROVE EnumsInv'
  OBVIOUS
<1>1. ASSUME NEW name, NEW answer, NEW end, Leaves(name, answer, end),
             name \notin {"IsDefined", "GetValueOf"}
      PROVE  EnumsInv'
  BY <1>1 DEF Leaves, EnumsInv
<1>2. ASSUME NEW o \in Objs, NEW t \in Types, Create(o, t) \/ Construct(o, t)
      PROVE  EnumsInv'
  BY <1>1, <1>2 DEF Create, Construct
<1>3. ASSUME NEW o \in Objs, NEW n \in Objs, NEW new \in Resources,
             Clone(o, n, new) \/ Pop(o, n, new)
      PROVE  EnumsInv'
  BY <1>1, <1>3 DEF Clone, Pop, Fails
<1>4. ASSUME NEW o \in Objs, Destroy(o) \/ AsString(o)
      PROVE  EnumsInv'
  BY <1>1, <1>4 DEF Destroy, AsString, Fails
<1>5. ASSUME NEW o1 \in Objs, NEW o2 \in Objs, Equals(o1, o2)
      PROVE  EnumsInv'
  BY <1>1, <1>5 DEF Equals
<1>6. ASSUME NEW e \in EnumTables, NEW v \in EnumValues, AskValue(e, v)
      PROVE  EnumsInv'
  BY <1>6 DEF AskValue, Answers, EnumsInv
<1>7. ASSUME NEW e \in EnumTables, NEW n \in EnumNames, AskName(e, n)
      PROVE  EnumsInv'
  BY <1>7 DEF AskName, Answers, EnumsInv
<1>8. CASE UNCHANGED vars
  BY <1>8 DEF vars, EnumsInv
<1>9. QED
  BY <1>2, <1>3, <1>4, <1>5, <1>6, <1>7, <1>8 DEF Next

(* The queries of any enum, full or not, with any values, agree.           *)
LEMMA ValueIsThere ==
    ASSUME NEW e \in EnumTables, NEW v
    PROVE  /\ HasValue(e, v) = "present" <=> \E i \in DOMAIN e : e[i].value = v
           /\ HasValue(e, v) = "present" =>
                \E i \in DOMAIN e : e[i].value = v /\ NameOf(e, v) = e[i].name
           /\ HasValue(e, v) = "overread" => Len(e) = MaxMembers
<1>1. WithValue(e, v) \in SUBSET (1..MaxMembers)
  BY DEF WithValue
<1>2. DOMAIN e \subseteq 1..MaxMembers
  BY EnumsAssumption, ObjectsAssumption
<1>3. \A i \in DOMAIN e : i \in WithValue(e, v) <=> e[i].value = v
  BY <1>2 DEF WithValue, Member
<1>4. QED
  BY <1>1, <1>3, FirstMemberIs DEF HasValue, NameOf

LEMMA NameIsThere ==
    ASSUME NEW e \in EnumTables, NEW n
    PROVE  /\ HasName(e, n) = "present" <=> \E i \in DOMAIN e : e[i].name = n
           /\ HasName(e, n) = "present" =>
                \E i \in DOMAIN e : e[i].name = n /\ ValueOf(e, n) = e[i].value
           /\ HasName(e, n) = "overread" => Len(e) = MaxMembers
<1>1. WithName(e, n) \in SUBSET (1..MaxMembers)
  BY DEF WithName
<1>2. DOMAIN e \subseteq 1..MaxMembers
  BY EnumsAssumption, ObjectsAssumption
<1>3. \A i \in DOMAIN e : i \in WithName(e, n) <=> e[i].name = n
  BY <1>2 DEF WithName, Member
<1>4. QED
  BY <1>1, <1>3, FirstMemberIs DEF HasName, ValueOf

(***************************************************************************)
(* The queries of any enum, of any number of members up to the limit and   *)
(* with any values, agree: the first member with a value gives its name,   *)
(* and the name leads back to the value, because no other member has it.   *)
(***************************************************************************)
THEOREM EnumQueriesAgreeAlways == Spec => []EnumQueriesAgree
<1>1. Init => EnumsInv
  BY DEF Init, EnumsInv
<1>2. EnumsInv /\ [Next]_vars => EnumsInv'
  BY EnumsStep
<1>3. EnumsInv => EnumQueriesAgree
  <2> SUFFICES ASSUME EnumsInv PROVE EnumQueriesAgree
    OBVIOUS
  <2>1. ASSUME NEW e \in EnumTables, NEW v, HasValue(e, v) = "present"
        PROVE  HasName(e, NameOf(e, v)) = "present" /\ ValueOf(e, NameOf(e, v)) = v
    <3>1. PICK i \in DOMAIN e : e[i].value = v /\ NameOf(e, v) = e[i].name
      BY <2>1, ValueIsThere
    <3>2. HasName(e, e[i].name) = "present"
      BY NameIsThere
    <3>3. PICK j \in DOMAIN e : e[j].name = e[i].name /\ ValueOf(e, e[i].name) = e[j].value
      BY <3>2, NameIsThere
    <3>4. i = j
      BY <3>3, EnumsAssumption
    <3>5. QED
      BY <3>1, <3>2, <3>3, <3>4
  <2>2. ASSUME NEW e \in EnumTables, NEW n, HasName(e, n) = "present"
        PROVE  HasValue(e, ValueOf(e, n)) = "present"
    BY <2>2, NameIsThere, ValueIsThere
  <2>3. ASSUME call.name = "IsDefined"
        PROVE  /\ call.answer = "present" <=> \E i \in DOMAIN call.args[1] : call.args[1][i].value = call.args[2]
               /\ call.answer = "present" =>
                    /\ HasName(call.args[1], NameOf(call.args[1], call.args[2])) = "present"
                    /\ ValueOf(call.args[1], NameOf(call.args[1], call.args[2])) = call.args[2]
               /\ call.answer = "overread" => Len(call.args[1]) = MaxMembers
    <3>1. PICK e \in EnumTables, v \in EnumValues :
            call.args = <<e, v>> /\ call.answer = HasValue(e, v)
      BY <2>3 DEF EnumsInv
    <3>2. call.args[1] = e /\ call.args[2] = v
      BY <3>1
    <3>3. QED
      BY <2>1, <3>1, <3>2, ValueIsThere
  <2>4. ASSUME call.name = "GetValueOf"
        PROVE  /\ call.answer = "present" <=> \E i \in DOMAIN call.args[1] : call.args[1][i].name = call.args[2]
               /\ call.answer = "present" =>
                    HasValue(call.args[1], ValueOf(call.args[1], call.args[2])) = "present"
               /\ call.answer = "overread" => Len(call.args[1]) = MaxMembers
    <3>1. PICK e \in EnumTables, n \in EnumNames :
            call.args = <<e, n>> /\ call.answer = HasName(e, n)
      BY <2>4 DEF EnumsInv
    <3>2. call.args[1] = e /\ call.args[2] = n
      BY <3>1
    <3>3. QED
      BY <2>2, <3>1, <3>2, NameIsThere
  <2>5. QED
    BY <2>3, <2>4 DEF EnumQueriesAgree
<1>4. QED
  BY <1>1, <1>2, <1>3, PTL DEF Spec
=============================================================================
