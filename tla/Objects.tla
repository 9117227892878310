------------------------------- MODULE Objects ------------------------------
(***************************************************************************)
(* Objects and what their types decide about them: the lookup of virtual   *)
(* functions in src/src/avm.core/typeinfo.c, the calls of                  *)
(* src/src/avm.core/types.c that fall back on bytes where a type defines   *)
(* no function, AvmListPop, which combines two of them, and the queries of *)
(* enums.                                                                  *)
(*                                                                         *)
(* An object is its type and the resource that its bytes point to: a       *)
(* buffer, an open file. A resource is live until a destructor finalises   *)
(* it. Programs use an object until they destroy it, and not after that.   *)
(***************************************************************************)
EXTENDS Integers, Sequences, FiniteSets

CONSTANTS Objs,         \* the places of objects in memory
          Resources,    \* what their bytes can point to
          Contents,     \* what can be in a resource, other than nothing
          Types,
          Entries,      \* the number of entries of the table of a type,
          Functions,    \* and the ones among them that are not NULL
          PointerSize,  \* sizeof(AvmFunction)
          EnumTables,   \* the enums: sequences of members
          MaxMembers,   \* AVM_MAX_ENUM_MEMBERS
          EnumNames, EnumValues,  \* what the program asks enums for
          NoResource, Junk, NoObject, NoName

Object == [type : Types, resource : Resources \cup {NoResource, Junk}]

ASSUME ObjectsAssumption ==
    /\ Entries \in [Types -> Nat \ {0}]
    /\ Functions \in [Types -> SUBSET Nat]
    /\ \A t \in Types : \A i \in Functions[t] : i < Entries[t]
    /\ PointerSize \in Nat \ {0}
    /\ \A e \in EnumTables : Len(e) <= MaxMembers
    /\ {NoResource, Junk} \cap Resources = {}
    /\ NoObject \notin Object
    /\ Contents # {}

(* The members of an enum of C have different names; their values may be   *)
(* the same.                                                               *)
ASSUME EnumsAssumption ==
    /\ MaxMembers \in Nat
    /\ \A e \in EnumTables :
        /\ Len(e) \in Nat /\ DOMAIN e = 1..Len(e)
        /\ \A i \in DOMAIN e : e[i].name # NoName
        /\ \A i, j \in DOMAIN e : e[i].name = e[j].name => i = j

VARIABLES heap,       \* the objects
          resources,  \* their resources
          copies,     \* history: pairs of an object and a clone of it, both in use
          fault,      \* "none", or what stopped the program
          call        \* history: the last call, with the arguments to enums, and its answer

vars == <<heap, resources, copies, fault, call>>

FnEntryDtor == 0
FnEntryToString == 1
FnEntryClone == 2
FnEntryEquals == 3

-----------------------------------------------------------------------------
(* AvmTypeGetFunction: what the caller gets. The index is compared with    *)
(* the size of the table in bytes, and what lies behind a table is NULL or *)
(* something else, which the caller takes for a function.                  *)
GetFunction(t, index) ==
    IF index >= Entries[t] * PointerSize THEN {"thrown"}
    ELSE IF index >= Entries[t] THEN {"null", "foreign"}
    ELSE IF index \in Functions[t] THEN {"own"} ELSE {"null"}

InUse(o) == heap[o] # NoObject
TypeOf(o) == heap[o].type
ResourceOf(o) == heap[o].resource

IsLive(r) == r \in Resources /\ resources[r].state = "live"
Fresh == {r \in Resources : resources[r].state = "unused"}

(* A function that uses the resource of an object finds it in one of these *)
(* states; having none is a state of its own.                              *)
UseFault(r) ==
    IF r = NoResource \/ IsLive(r) THEN "none" ELSE IF r = Junk THEN "junk" ELSE "finalised"

Leaves(name, answer, end) ==
    /\ fault' = end
    /\ call' = [name |-> name, args |-> <<>>, answer |-> answer]

Fails(name, end) ==
    Leaves(name, "none", end) /\ UNCHANGED <<heap, resources, copies>>

-----------------------------------------------------------------------------
Init ==
    /\ heap = [o \in Objs |-> NoObject]
    /\ resources = [r \in Resources |-> [state |-> "unused", content |-> CHOOSE c \in Contents : TRUE]]
    /\ copies = {}
    /\ fault = "none"
    /\ call = [name |-> "Start", args |-> <<>>, answer |-> "none"]

(* A constructor of the type, such as AvmStringFrom or AvmFileOpen.        *)
Create(o, t) ==
    /\ ~ InUse(o)
    /\ \/ /\ heap' = [heap EXCEPT ![o] = [type |-> t, resource |-> NoResource]]
          /\ UNCHANGED resources
       \/ \E r \in Fresh, c \in Contents :
            /\ FnEntryDtor \in Functions[t]
            /\ heap' = [heap EXCEPT ![o] = [type |-> t, resource |-> r]]
            /\ resources' = [resources EXCEPT ![r] = [state |-> "live", content |-> c]]
    /\ Leaves("Create", "done", "none")
    /\ UNCHANGED copies

(* Mutant: the pointer to the type is not set.                             *)
ConstructUntyped(o, t) ==
    /\ ~ InUse(o)
    /\ \E r \in {NoResource, Junk} :
            heap' = [heap EXCEPT ![o] = [type |-> Junk, resource |-> r]]
    /\ Leaves("Construct", "done", "none")
    /\ UNCHANGED <<resources, copies>>

(* AvmTypeConstruct: memory of the size of the type, which may come        *)
(* zeroed, and its first member.                                           *)
Construct(o, t) ==
    /\ ~ InUse(o)
    /\ \E r \in {NoResource, Junk} :
            heap' = [heap EXCEPT ![o] = [type |-> t, resource |-> r]]
    /\ Leaves("Construct", "done", "none")
    /\ UNCHANGED <<resources, copies>>

-----------------------------------------------------------------------------
(* Mutant: the bytes are copied even if the type defines how to clone.     *)
ClonedBytes(o, new) ==
    {[fault |-> "none", clone |-> heap[o], resources |-> resources]}

(***************************************************************************)
(* What AvmObjectClone may come to. A Clone function is that of AvmString: *)
(* a new buffer with the same content, or a failed assertion if the object *)
(* has none.                                                               *)
(***************************************************************************)
CloneFault(f, r) ==
    IF f = "own" THEN IF r = NoResource THEN "assert" ELSE UseFault(r)
    ELSE IF f = "null" THEN "none" ELSE f

Refilled(new, r) ==
    [resources EXCEPT ![new] = [state |-> "live", content |-> resources[r].content]]

Cloned(o, new) ==
    LET r == ResourceOf(o)
    IN  {[fault     |-> CloneFault(f, r),
          clone     |-> IF f = "own" THEN [type |-> TypeOf(o), resource |-> new] ELSE heap[o],
          resources |-> IF f = "own" /\ IsLive(r) THEN Refilled(new, r) ELSE resources]
            : f \in GetFunction(TypeOf(o), FnEntryClone)}

Clone(o, n, new) ==
    /\ InUse(o) /\ ~ InUse(n) /\ new \in Fresh
    /\ \E c \in Cloned(o, new) :
        IF c.fault # "none" THEN Fails("Clone", c.fault)
        ELSE /\ heap' = [heap EXCEPT ![n] = c.clone]
             /\ resources' = c.resources
             /\ copies' = copies \cup {<<o, n>>}
             /\ Leaves("Clone", "done", "none")

(* The faults of a destructor call on the object x.                        *)
DestroyFaults(x) ==
    {IF f = "own" THEN UseFault(x.resource) ELSE IF f = "null" THEN "none" ELSE f
        : f \in GetFunction(x.type, FnEntryDtor)}

(* What it leaves of the resources rs.                                     *)
Finalised(x, rs) ==
    IF FnEntryDtor \in Functions[x.type] /\ x.resource \in Resources
    THEN [rs EXCEPT ![x.resource].state = "finalised"] ELSE rs

Without(o) == {p \in copies : p[1] # o /\ p[2] # o}

(* AvmObjectDestroy, and as far as the program is concerned the object.    *)
Destroy(o) ==
    /\ InUse(o)
    /\ \E end \in DestroyFaults(heap[o]) :
        IF end # "none" THEN Fails("Destroy", end)
        ELSE /\ heap' = [heap EXCEPT ![o] = NoObject]
             /\ resources' = Finalised(heap[o], resources)
             /\ copies' = Without(o)
             /\ Leaves("Destroy", "done", "none")

(* AvmListPop of the item o, by AvmObjectClone and the DropItem of the     *)
(* array list: the caller gets the clone.                                  *)
Pop(o, n, new) ==
    /\ InUse(o) /\ ~ InUse(n) /\ new \in Fresh
    /\ \E c \in Cloned(o, new), end \in DestroyFaults(heap[o]) :
        IF c.fault # "none" THEN Fails("Pop", c.fault)
        ELSE IF end # "none" THEN Fails("Pop", end)
        ELSE /\ heap' = [heap EXCEPT ![o] = NoObject, ![n] = c.clone]
             /\ resources' = Finalised(heap[o], c.resources)
             /\ copies' = Without(o)
             /\ Leaves("Pop", "done", "none")

(* Mutant: the bytes decide, whatever the type defines.                    *)
EqualBytes(o1, o2) == heap[o1] = heap[o2]

(* Whether AvmObjectEquals finds two objects of a type equal: by content   *)
(* if it defines Equals, as AvmString does, otherwise byte by byte.        *)
Equal(o1, o2) ==
    IF FnEntryEquals \in Functions[TypeOf(o1)]
    THEN \/ ResourceOf(o1) = ResourceOf(o2)
         \/ /\ {ResourceOf(o1), ResourceOf(o2)} \subseteq Resources
            /\ resources[ResourceOf(o1)].content = resources[ResourceOf(o2)].content
    ELSE heap[o1] = heap[o2]

Equals(o1, o2) ==
    /\ InUse(o1) /\ InUse(o2) /\ TypeOf(o1) = TypeOf(o2)
    /\ UNCHANGED <<heap, resources, copies>>
    /\ \E f \in GetFunction(TypeOf(o1), FnEntryEquals) :
        LET uses == {UseFault(ResourceOf(o1)), UseFault(ResourceOf(o2))} \ {"none"}
        IN  \E end \in IF f \in {"foreign", "thrown"} THEN {f}
                       ELSE IF f = "own" /\ uses # {} THEN uses ELSE {"none"} :
                Leaves("Equals", IF Equal(o1, o2) THEN "yes" ELSE "no", end)

(* AvmObjectToString. Without a function it formats the name of the type   *)
(* and the address.                                                        *)
AsString(o) ==
    /\ InUse(o)
    /\ UNCHANGED <<heap, resources, copies>>
    /\ \E f \in GetFunction(TypeOf(o), FnEntryToString) :
        Leaves("ToString", "done",
               IF f \in {"foreign", "thrown"} THEN f
               ELSE IF f = "own" THEN UseFault(ResourceOf(o)) ELSE "none")

-----------------------------------------------------------------------------
(* The cells of the table of an enum; zeroes follow its members.           *)
Zero == [name |-> NoName, value |-> 0]
Member(e, i) == IF i \in DOMAIN e THEN e[i] ELSE Zero

(* Mutant: any member whose value is 0 ends the table.                     *)
IsEndByValue(m) == m.value = 0

IsEnd(m) == m = Zero

(***************************************************************************)
(* The loops of AvmEnumIsDefined, GetNameOf and GetValueOf look for one of *)
(* the wanted cells: the first of them, unless the end comes before it;    *)
(* they leave a table without an end.                                      *)
(***************************************************************************)
FirstMember(e, wanted) ==
    LET stops == {i \in 1..MaxMembers : IsEnd(Member(e, i)) \/ i \in wanted}
        first == CHOOSE i \in stops : \A j \in stops : i <= j
    IN  IF stops = {} THEN "overread"
        ELSE IF IsEnd(Member(e, first)) THEN "absent" ELSE "present"

(* The member it is, if it is present.                                     *)
TheMember(e, wanted) == e[CHOOSE i \in wanted : \A j \in wanted : i <= j]

WithValue(e, v) == {i \in 1..MaxMembers : Member(e, i).value = v}
WithName(e, n) == {i \in 1..MaxMembers : Member(e, i).name = n}

HasValue(e, v) == FirstMember(e, WithValue(e, v))
NameOf(e, v) == TheMember(e, WithValue(e, v)).name
HasName(e, n) == FirstMember(e, WithName(e, n))
ValueOf(e, n) == TheMember(e, WithName(e, n)).value

Answers(name, args, answer) ==
    /\ fault' = IF answer = "overread" THEN "overread" ELSE "none"
    /\ call' = [name |-> name, args |-> args, answer |-> answer]

(* AvmEnumIsDefined, and AvmEnumGetNameOf, which throws what is absent.    *)
AskValue(e, v) ==
    /\ UNCHANGED <<heap, resources, copies>>
    /\ Answers("IsDefined", <<e, v>>, HasValue(e, v))

(* AvmEnumGetValueOf. (A full table makes strcmp read what follows it.)    *)
AskName(e, n) ==
    /\ UNCHANGED <<heap, resources, copies>>
    /\ Answers("GetValueOf", <<e, n>>, HasName(e, n))

(* The queries of enums look at no object: it is enough to ask them while  *)
(* there is none.                                                          *)
Next ==
    /\ fault = "none"
    /\ \/ \E o \in Objs, t \in Types : Create(o, t) \/ Construct(o, t)
       \/ \E o, n \in Objs, new \in Resources : Clone(o, n, new) \/ Pop(o, n, new)
       \/ \E o \in Objs : Destroy(o) \/ AsString(o)
       \/ \E o1, o2 \in Objs : Equals(o1, o2)
       \/ /\ \A o \in Objs : ~ InUse(o)
          /\ \E e \in EnumTables : \/ \E v \in EnumValues : AskValue(e, v)
                                   \/ \E n \in EnumNames : AskName(e, n)

Spec == Init /\ [][Next]_vars
-----------------------------------------------------------------------------
(* The types of the variables. Every object in use points to a type, and   *)
(* no lookup of a function is refused or finds a NULL that is called.      *)
TypeOK ==
    /\ heap \in [Objs -> Object \cup {NoObject}]
    /\ resources \in [Resources -> [state : {"unused", "live", "finalised"}, content : Contents]]
    /\ copies \subseteq Objs \X Objs
    /\ fault \in {"none", "assert", "junk", "finalised", "foreign", "overread"}

(* The types that define both how to clone and how to destroy.             *)
Deep(t) == {FnEntryDtor, FnEntryClone} \subseteq Functions[t]

OwnersOf(r) == {o \in Objs : InUse(o) /\ ResourceOf(o) = r}

(***************************************************************************)
(* However objects of a type that defines both are created, cloned, popped *)
(* from lists and destroyed, each has a live resource of its own, so that  *)
(* it uses nothing after it was freed and frees nothing twice; and no      *)
(* resource of any type is lost before it is finalised. (The objects of    *)
(* types that only define a destructor, as the streams do, may share.)     *)
(***************************************************************************)
DeepTypesOwnTheirResource ==
    /\ \A o \in Objs : InUse(o) /\ Deep(TypeOf(o)) /\ ResourceOf(o) \in Resources =>
            IsLive(ResourceOf(o)) /\ OwnersOf(ResourceOf(o)) = {o}
    /\ \A r \in Resources : IsLive(r) => OwnersOf(r) # {}

(***************************************************************************)
(* core.h:88: a clone is an exact copy. It is equal to the original as     *)
(* AvmObjectEquals sees it, in both orders, whether the type defines how   *)
(* to clone and to compare or leaves it to the bytes, and stays so until   *)
(* one of the two is destroyed.                                            *)
(***************************************************************************)
ClonesAreEqual ==
    \A p \in copies : Equal(p[1], p[2]) /\ Equal(p[2], p[1])

(***************************************************************************)
(* The three queries of an enum tell the same of every member, those with  *)
(* the value 0 included: its value is defined, has the name of a member    *)
(* with this value, and its name leads back to its value. Only for what is *)
(* not in it do they leave a full table.                                   *)
(***************************************************************************)
EnumQueriesAgree ==
    LET e == call.args[1]
        asked == call.args[2]
    IN  /\ call.name = "IsDefined" =>
            /\ call.answer = "present" <=> \E i \in DOMAIN e : e[i].value = asked
            /\ call.answer = "present" =>
                /\ HasName(e, NameOf(e, asked)) = "present"
                /\ ValueOf(e, NameOf(e, asked)) = asked
            /\ call.answer = "overread" => Len(e) = MaxMembers
        /\ call.name = "GetValueOf" =>
            /\ call.answer = "present" <=> \E i \in DOMAIN e : e[i].name = asked
            /\ call.answer = "present" => HasValue(e, ValueOf(e, asked)) = "present"
            /\ call.answer = "overread" => Len(e) = MaxMembers
=============================================================================
