-------------------------------- MODULE List --------------------------------
(***************************************************************************)
(* What include/avium/collections/list.h promises of every list: a         *)
(* sequence of objects that owns them, and finalises each one when it      *)
(* leaves. A call is the tuple of its name and its arguments, and decides  *)
(* the items that stay, the ones that are finalised and the answer.        *)
(* Indices count from 0.                                                   *)
(***************************************************************************)
EXTENDS Naturals, Sequences, FiniteSets, SequencesExt

CONSTANTS Objects,     \* everything a program may put in the list
          EqualTo,     \* EqualTo[x]: the objects AvmObjectEquals says x equals
          Limit,       \* the most items the program ever wants in the list
          Invalid      \* AvmInvalid

VARIABLES items, finalised, call, answer

vars == <<items, finalised, call, answer>>

Init == items = <<>> /\ finalised = {} /\ call = <<"New">> /\ answer = "none"

Does(name, args, kept, ended, result) ==
    /\ call' = <<name>> \o args
    /\ items' = kept
    /\ finalised' = finalised \cup ended
    /\ answer' = result

(* A call that finds its index out of range changes nothing.               *)
Refuses(name, args) == Does(name, args, items, {}, "RangeError")

Insert(i, x) ==
    IF i > Len(items) THEN Refuses("Insert", <<i, x>>)
    ELSE Does("Insert", <<i, x>>, InsertAt(items, i + 1, x), {}, "none")

Push(x) == Does("Push", <<x>>, Append(items, x), {}, "none")

RemoveItem(i) ==
    IF i >= Len(items) THEN Refuses("Remove", <<i>>)
    ELSE Does("Remove", <<i>>, RemoveAt(items, i + 1), {items[i + 1]}, "none")

Pop ==
    IF items = <<>> THEN Refuses("Pop", <<>>)
    ELSE Does("Pop", <<>>, Front(items), {Last(items)}, Last(items))

Clear == Does("Clear", <<>>, <<>>, ToSet(items), "none")

ItemAt(i) ==
    IF i >= Len(items) THEN Refuses("ItemAt", <<i>>)
    ELSE Does("ItemAt", <<i>>, items, {}, items[i + 1])

IndexOf(x) ==
    \/ \E i \in DOMAIN items :
            /\ x \in EqualTo[items[i]]
            /\ \A j \in 1..(i - 1) : x \notin EqualTo[items[j]]
            /\ Does("IndexOf", <<x>>, items, {}, i - 1)
    \/ /\ \A i \in DOMAIN items : x \notin EqualTo[items[i]]
       /\ Does("IndexOf", <<x>>, items, {}, Invalid)

Next ==
    \/ \E i \in 0..(Limit + 1) :
            \/ \E x \in Objects : Insert(i, x)
            \/ RemoveItem(i)
            \/ ItemAt(i)
    \/ \E x \in Objects : Push(x) \/ IndexOf(x)
    \/ Pop
    \/ Clear

Spec == Init /\ [][Next]_vars
=============================================================================
