-------------------------------- MODULE Text --------------------------------
(***************************************************************************)
(* What an AvmString is to its user (include/avium/string.h): a sequence   *)
(* of characters, with no capacity, no buffer and nothing left over from   *)
(* earlier contents. A call is the tuple of its name and its arguments,    *)
(* and decides what becomes of the text.                                   *)
(***************************************************************************)
EXTENDS Naturals, Sequences, FiniteSets, SequencesExt

CONSTANTS Chars,     \* the characters
          Limit,     \* the longest text the program ever builds
          MaxChunk,  \* the longest character array it passes
          Mappings   \* the functions given to AvmStringMap and its overloads

VARIABLES text, call

vars == <<text, call>>

Chunks == BoundedSeq(Chars, MaxChunk)

Init == text = <<>> /\ call = <<"New">>

Does(name, args, result) == call' = <<name>> \o args /\ text' = result

Repeated(cs, k) == FlattenSeq([i \in 1..k |-> cs])

(* The positions of the text that hold c, in the stretch from i to j.      *)
Positions(c, i, j) == {k \in DOMAIN text : i <= k /\ k <= j /\ text[k] = c}

SubstitutedFirst(n, old, new) ==
    [i \in DOMAIN text |->
        IF text[i] = old /\ Cardinality(Positions(old, 1, i)) <= n THEN new ELSE text[i]]

SubstitutedLast(n, old, new) ==
    [i \in DOMAIN text |->
        IF text[i] = old /\ Cardinality(Positions(old, i, Len(text))) <= n THEN new ELSE text[i]]

Next ==
    \/ \E c \in Chars : Does("PushChar", <<c>>, Append(text, c))
    \/ \E cs \in Chunks, name \in {"PushChars", "PushStr", "PushString"} :
            Does(name, <<cs>>, text \o cs)
    \/ Does("PushSelf", <<>>, text \o text)
    \/ \E n \in 0..Limit : Does("EnsureCapacity", <<n>>, text)
    \/ Does("New", <<>>, <<>>)
    \/ \E cs \in Chunks, k \in 0..Limit : Does("Repeat", <<cs, k>>, Repeated(cs, k))
    \/ Does("Clear", <<>>, <<>>)
    \/ Does("Erase", <<>>, <<>>)
    \/ Does("Reverse", <<>>, Reverse(text))
    \/ \E f \in Mappings : Does("Map", <<f>>, [i \in DOMAIN text |-> f[text[i]]])
    \/ \E n \in 0..Limit, old, new \in Chars :
            \/ Does("ReplaceN", <<n, old, new>>, SubstitutedFirst(n, old, new))
            \/ Does("ReplaceLastN", <<n, old, new>>, SubstitutedLast(n, old, new))

Spec == Init /\ [][Next]_vars
=============================================================================
