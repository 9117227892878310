----------------------------- MODULE ArrayList ------------------------------
(***************************************************************************)
(* AvmArrayList (src/src/avm.collections/array-list.c) behind the calls of *)
(* AvmList (list.c): a block of memory with one slot per item. The memory  *)
(* behind the length keeps whatever was there: an item that left, or Junk  *)
(* that malloc or realloc returned.                                        *)
(*                                                                         *)
(* An object is known by the resource it owns. Inserting one hands it over *)
(* to the list (memcpy), which runs its destructor when it drops it.       *)
(***************************************************************************)
EXTENDS Naturals, Sequences, FiniteSets, SequencesExt

CONSTANTS Objects,        \* the objects the program puts in the list
          EqualTo,        \* EqualTo[x]: the objects AvmObjectEquals says x equals
          Throwing,       \* the objects whose destructor throws when it is done
          Junk,
          M,              \* the range of uint
          Limit,          \* the most items the program ever wants in the list
          InsertsInside   \* does the program insert before the last item?

ASSUME ArrayListAssumption ==
    /\ Throwing \subseteq Objects
    /\ Junk \notin Objects
    /\ M \in Nat \ {0} /\ Limit \in Nat
    /\ InsertsInside \in BOOLEAN

VARIABLES list,       \* the AvmArrayList: _capacity, _length and the memory at _items
          unused,     \* the objects the program still owns
          finalised,  \* the objects whose destructor has run
          fault,      \* "none", or what stopped the program
          call,       \* history: the last call, with its arguments
          answer      \* what it returned or threw

vars == <<list, unused, finalised, fault, call, answer>>

Invalid == M - 1      \* AvmInvalid, (uint)-1

GrowthFaults == {"assert_growth", "assert_create", "overrun"}

Memory == INSTANCE Storage WITH
    ItemSize  <- 1,
    capacity  <- list.capacity,
    length    <- list.length,
    allocated <- Len(list.items),
    fault     <- IF fault \in GrowthFaults THEN fault ELSE "none"

-----------------------------------------------------------------------------
(* AvmArrayListNew.                                                        *)
NewList(c) == [capacity |-> c, length |-> 0, items |-> [i \in 1..c |-> Junk]]

Init ==
    /\ \E c \in 0..Limit : list = NewList(c)
    /\ unused = Objects
    /\ finalised = {}
    /\ fault = "none" /\ call = <<"New">> /\ answer = "none"

Returns(name, args, result) == call' = <<name>> \o args /\ answer' = result

(* throw(AvmErrorNew(RangeError)) and the handler that continues.          *)
Refuses(name, args) ==
    /\ Returns(name, args, "RangeError")
    /\ UNCHANGED <<list, unused, finalised, fault>>

(* Mutants: the list grows at every call; the capacity is not recorded.    *)
EnsureCapacityAlways(l) ==
    LET c == Memory!Wrap(2 * l.capacity + 1)
    IN  [l EXCEPT !.capacity = c,
                  !.items = [i \in 1..c |-> IF i <= Len(@) THEN @[i] ELSE Junk]]

EnsureCapacityUnrecorded(l) ==
    LET c == Memory!NewCapacity(l.capacity, l.length, 1)
    IN  [l EXCEPT !.items = [i \in 1..c |-> IF i <= Len(@) THEN @[i] ELSE Junk]]

(* AvmArrayListEnsureCapacity(l, 1).                                       *)
EnsureCapacity(l) ==
    LET c == Memory!NewCapacity(l.capacity, l.length, 1)
    IN  [capacity |-> c, length |-> l.length,
         items |-> IF Memory!MustGrow(l.capacity, l.length, 1)
                   THEN [i \in 1..c |-> IF i <= Len(l.items) THEN l.items[i] ELSE Junk]
                   ELSE l.items]

(* Mutant: nothing is shifted.                                             *)
ShiftedNowhere(l, index, x) ==
    [i \in DOMAIN l.items |-> IF i = index + 1 THEN x ELSE l.items[i]]

(***************************************************************************)
(* The memory after AvmArrayListInsert of x at index. The memmove moves    *)
(* one item, not all of them: the item at index overwrites the next one.   *)
(***************************************************************************)
ShiftedOut(l, index, x) ==
    [i \in DOMAIN l.items |->
        IF i = index + 1 THEN x
        ELSE IF i = index + 2 /\ index < l.length THEN l.items[index + 1]
        ELSE l.items[i]]

InsertNamed(name, args, index, x) ==
    /\ fault = "none" /\ x \in unused
    /\ list.length < Limit
    /\ \/ /\ index > list.length
          /\ Refuses(name, args)
       \/ /\ index <= list.length
          /\ LET l == EnsureCapacity(list)
             IN  IF ~ Memory!PostHolds(l.capacity, l.length, 1)
                 THEN list' = l /\ fault' = "assert_growth" /\ UNCHANGED unused
                 ELSE IF l.length + 1 > Len(l.items)
                 THEN list' = l /\ fault' = "overrun" /\ UNCHANGED unused
                 ELSE /\ list' = [capacity |-> l.capacity, length |-> l.length + 1,
                                  items |-> ShiftedOut(l, index, x)]
                      /\ unused' = unused \ {x}
                      /\ UNCHANGED fault
          /\ Returns(name, args, "none")
          /\ UNCHANGED finalised

(* AvmListInsert.                                                          *)
Insert(index, x) ==
    /\ InsertsInside \/ index + 1 >= list.length
    /\ InsertNamed("Insert", <<index, x>>, index, x)

(* AvmListPush.                                                            *)
Push(x) == InsertNamed("Push", <<x>>, list.length, x)

(* Mutant: the gap is not closed.                                          *)
ShiftedInNothing(l, index) == l.items

(***************************************************************************)
(* AvmArrayListDropItem and the rest of AvmArrayListRemove, as a function  *)
(* of what they change. A destructor that throws ends Remove before the    *)
(* item is taken out. Running the destructor of memory that holds no live  *)
(* object is undefined.                                                    *)
(***************************************************************************)
ShiftedIn(l, index) ==
    [i \in DOMAIN l.items |->
        IF index < i /\ i < l.length THEN l.items[i + 1] ELSE l.items[i]]

Taken(l, index) ==
    [capacity |-> l.capacity, length |-> l.length - 1, items |-> ShiftedIn(l, index)]

Removed(s, index) ==
    LET x == s.list.items[index + 1]
        Ends(l, f, e) == [list |-> l, finalised |-> f, end |-> e]
    IN  IF s.end # "none" THEN s
        ELSE IF x \notin Objects \/ x \in s.finalised
        THEN Ends(s.list, s.finalised, "dead_object")
        ELSE IF x \in Throwing
        THEN Ends(s.list, s.finalised \cup {x}, "thrown")
        ELSE Ends(Taken(s.list, index), s.finalised \cup {x}, "none")

Standing == [list |-> list, finalised |-> finalised, end |-> "none"]

(* A call whose removals lead to the state s and that would return result. *)
Leads(s, name, args, result) ==
    /\ list' = s.list
    /\ finalised' = s.finalised
    /\ fault' = IF s.end = "dead_object" THEN "dead_object" ELSE "none"
    /\ Returns(name, args, IF s.end = "none" THEN result ELSE s.end)
    /\ UNCHANGED unused

(* AvmListRemove.                                                          *)
RemoveItem(index) ==
    /\ fault = "none"
    /\ IF index >= list.length THEN Refuses("Remove", <<index>>)
       ELSE Leads(Removed(Standing, index), "Remove", <<index>>, "none")

(* AvmListPop: length - 1 wraps around for an empty list, so that ItemAt   *)
(* throws. The clone that is returned is made before the item is dropped.  *)
Pop ==
    LET index == Memory!Wrap(list.length + M - 1)
    IN  /\ fault = "none"
        /\ IF index >= list.length THEN Refuses("Pop", <<>>)
           ELSE Leads(Removed(Standing, index), "Pop", <<>>, list.items[index + 1])

(* AvmListClear: for (uint i = length; i > 1; i--) remove item i - 1. This *)
(* is what the first n turns of the loop make of the state s.              *)
RemovedBack(s, n) ==
    LET after[k \in 0..n] == IF k = 0 THEN s ELSE Removed(after[k - 1], s.list.length - k)
    IN  after[n]

Clear ==
    /\ fault = "none"
    /\ Leads(RemovedBack(Standing, IF list.length = 0 THEN 0 ELSE list.length - 1),
             "Clear", <<>>, "none")

(* AvmListItemAt.                                                          *)
ItemAt(index) ==
    /\ fault = "none"
    /\ IF index >= list.length THEN Refuses("ItemAt", <<index>>)
       ELSE /\ Returns("ItemAt", <<index>>, list.items[index + 1])
            /\ UNCHANGED <<list, unused, finalised, fault>>

(* AvmListIndexOf, and AvmListContains, which asks whether it is Invalid.  *)
Matches(x) == {i \in 1..list.length : list.items[i] \in Objects /\ x \in EqualTo[list.items[i]]}

IndexOf(x) ==
    /\ fault = "none"
    /\ Returns("IndexOf", <<x>>,
               IF Matches(x) = {} THEN Invalid
               ELSE (CHOOSE i \in Matches(x) : \A j \in Matches(x) : i <= j) - 1)
    /\ UNCHANGED <<list, unused, finalised, fault>>

Next ==
    \/ \E index \in 0..(Limit + 1), x \in Objects : Insert(index, x)
    \/ \E x \in Objects : Push(x)
    \/ \E index \in 0..(Limit + 1) : RemoveItem(index)
    \/ Pop
    \/ Clear
    \/ \E index \in 0..(Limit + 1) : ItemAt(index)
    \/ \E x \in Objects : IndexOf(x)

Spec == Init /\ [][Next]_vars
-----------------------------------------------------------------------------
LiveSlots(x) == {i \in 1..list.length : list.items[i] = x}

TypeOK ==
    /\ list.capacity \in 0..(M - 1)
    /\ list.length \in 0..(M - 1)
    /\ list.items \in BoundedSeq(Objects \cup {Junk}, 2 * Limit)
    /\ unused \subseteq Objects /\ finalised \subseteq Objects
    /\ fault \in GrowthFaults \cup {"none", "dead_object"}

(***************************************************************************)
(* The list owns each object exactly once. Whatever was inserted, removed, *)
(* popped and cleared: an object is either still the program's, or in one  *)
(* slot and alive, or finalised and in no slot, so that no destructor runs *)
(* twice and none is forgotten. The exception is an object whose           *)
(* destructor throws: finalised, it stays in the list, and the others are  *)
(* not disturbed by that.                                                  *)
(***************************************************************************)
OwnedOnce ==
    /\ \A i \in 1..list.length : list.items[i] \in Objects
    /\ \A x \in Objects \ Throwing :
            /\ Cardinality(LiveSlots(x)) = IF x \in unused \cup finalised THEN 0 ELSE 1
            /\ x \notin unused \cap finalised
    /\ fault = "dead_object" => finalised \cap Throwing # {}

(***************************************************************************)
(* The documented list, call by call, for programs that insert at the last *)
(* two positions only. AvmListClear does not keep the promise; a call that *)
(* a destructor leaves by an exception is promised nothing. The calls      *)
(* after those keep it again.                                              *)
(***************************************************************************)
Promise == INSTANCE List WITH items <- SubSeq(list.items, 1, list.length)

Unpromised ==
    \/ call'[1] = "Clear"
    \/ call'[1] \in {"Remove", "Pop"} /\ answer' \in {"thrown", "dead_object"}

ImplementsList == Promise!Init /\ [][Unpromised \/ Promise!Next]_vars

(* The growth of the list is the growth of Storage.                        *)
ImplementsStorage == Memory!Spec

-----------------------------------------------------------------------------
(* array-list.c:115 "Shift all elements out." and list.h:77 "Inserts an    *)
(* object at the specified index": the other items stay in the list.       *)
InsertKeepsOthers ==
    [][\A index \in 0..Limit, x \in Objects :
        Insert(index, x) /\ fault' = "none" =>
            \A y \in Objects : LiveSlots(y) # {} => LiveSlots(y)' # {}]_vars
=============================================================================
