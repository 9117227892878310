----------------------------- MODULE AvmString ------------------------------
(***************************************************************************)
(* AvmString (src/src/avm.core/string.c): a length, a capacity and a heap  *)
(* buffer that is not terminated and that keeps what earlier contents left *)
(* behind the length.                                                      *)
(*                                                                         *)
(* A cell of the buffer holds a character, a zero byte, or Junk: what      *)
(* malloc or realloc happened to return. An empty buffer is NULL. The zero *)
(* byte may be a character like any other: PushChar, PushChars, Map and    *)
(* Replace put it into the text, where the functions of the C library that *)
(* string.c calls take it for the end.                                     *)
(***************************************************************************)
EXTENDS Naturals, Sequences, FiniteSets, SequencesExt

CONSTANTS Chars,     \* what a program puts into a string, possibly Nul, too
          Nul, Junk,
          M,         \* the range of uint
          Limit,     \* the longest text the program ever builds
          MaxChunk,  \* the longest character array it pushes or looks for
          Mappings   \* the functions given to AvmStringMap and its overloads

ASSUME AvmStringAssumption ==
    /\ {M, Limit, MaxChunk} \subseteq Nat
    /\ Junk \notin Chars \cup {Nul}
    /\ Mappings \subseteq [Chars -> Chars]

VARIABLES string,  \* the AvmString: _capacity, _length and the memory at _buffer
          fault,   \* "none", or what stopped the program
          call     \* history: the last call, with its arguments

vars == <<string, fault, call>>

Cell == Chars \cup {Nul, Junk}
Chunks == BoundedSeq(Chars, MaxChunk)               \* arrays with a length
Strs == {cs \in Chunks : Nul \notin ToSet(cs)}       \* C strings
Invalid == M - 1      \* AvmInvalid, (uint)-1

(* The storage as the growth code sees it, with the faults of growth only. *)
GrowthFaults == {"assert_growth", "assert_create", "overrun"}

Memory == INSTANCE Storage WITH
    ItemSize  <- 1,
    capacity  <- string.capacity,
    length    <- string.length,
    allocated <- Len(string.buffer),
    fault     <- IF fault \in GrowthFaults THEN fault ELSE "none"

(* The text of the string s, and all of the memory behind it.              *)
TextOf(s) == SubSeq(s.buffer, 1, s.length)

Realloc(b, n) == [i \in 1..n |-> IF i <= Len(b) THEN b[i] ELSE Junk]

-----------------------------------------------------------------------------
(* AvmStringNew.                                                           *)
NewString(c) == [capacity |-> c, length |-> 0, buffer |-> [i \in 1..c |-> Junk]]

(* Mutants: the buffer grows at every call; realloc loses the contents.    *)
EnsuredAlways(s, n) ==
    LET c == Memory!Wrap(2 * s.capacity + n)
    IN  [s EXCEPT !.capacity = c, !.buffer = Realloc(@, c)]

EnsuredAfresh(s, n) ==
    LET c == Memory!NewCapacity(s.capacity, s.length, n)
    IN  [s EXCEPT !.capacity = c,
                  !.buffer = IF Memory!MustGrow(s.capacity, s.length, n)
                             THEN Realloc(<<>>, c) ELSE @]

(* AvmStringEnsureCapacity, without its assertions.                        *)
Ensured(s, n) ==
    LET c == Memory!NewCapacity(s.capacity, s.length, n)
    IN  [capacity |-> c, length |-> s.length,
         buffer |-> IF Memory!MustGrow(s.capacity, s.length, n)
                    THEN Realloc(s.buffer, c) ELSE s.buffer]

(***************************************************************************)
(* AvmStringPushChars, and AvmStringPushChar for one character: the string *)
(* that results and how the call ends.                                     *)
(***************************************************************************)
PushEnds(s, cs) ==
    LET e == Ensured(s, Len(cs))
    IN  IF ~ Memory!PostHolds(e.capacity, s.length, Len(cs)) THEN "assert_growth"
        ELSE IF s.length + Len(cs) > Len(e.buffer) THEN "overrun"
        ELSE "none"

Pushed(s, cs) ==
    LET e == Ensured(s, Len(cs))
        n == s.length + Len(cs)
    IN  IF PushEnds(s, cs) # "none" THEN e
        ELSE [capacity |-> e.capacity, length |-> Memory!Wrap(n),
              buffer |-> [i \in DOMAIN e.buffer |->
                    IF i \in (s.length + 1)..n THEN cs[i - s.length] ELSE e.buffer[i]]]

Init == \E c \in 0..Limit : string = NewString(c) /\ fault = "none" /\ call = <<"New">>

Room(n) == fault = "none" /\ string.length + n <= Limit

PushChar(c) ==
    /\ Room(1)
    /\ string' = Pushed(string, <<c>>)
    /\ fault' = PushEnds(string, <<c>>)
    /\ call' = <<"PushChar", c>>

PushChars(cs) ==
    /\ Room(Len(cs))
    /\ string' = Pushed(string, cs)
    /\ fault' = PushEnds(string, cs)
    /\ call' = <<"PushChars", cs>>

(* AvmStringPushStr: PushChars, then assertions that read the last         *)
(* character of the argument, which an empty argument does not have.       *)
PushStr(cs) ==
    /\ Room(Len(cs))
    /\ string' = Pushed(string, cs)
    /\ fault' = IF Len(cs) = 0 THEN "pushstr" ELSE PushEnds(string, cs)
    /\ call' = <<"PushStr", cs>>

(* AvmStringPushString of another string whose text is cs.                 *)
PushString(cs) ==
    /\ Room(Len(cs))
    /\ string' = IF Len(cs) = 0 THEN string ELSE Pushed(string, cs)
    /\ fault' = IF Len(cs) = 0 THEN "none" ELSE PushEnds(string, cs)
    /\ call' = <<"PushString", cs>>

(* AvmStringPushString of the string to itself, whose buffer is the source *)
(* of the copy: if growth moves it, the copy reads memory that is free.    *)
PushSelf ==
    LET n == string.length
        grows == n # 0 /\ Memory!MustGrow(string.capacity, n, n)
    IN  /\ Room(n)
        /\ \/ /\ string' = IF n = 0 THEN string ELSE Pushed(string, TextOf(string))
              /\ fault' = IF n = 0 THEN "none" ELSE PushEnds(string, TextOf(string))
              /\ call' = <<"PushSelf">>
           \/ /\ grows
              /\ string' = Ensured(string, n)
              /\ fault' = "stale"
              /\ UNCHANGED call

EnsureCapacity(n) ==
    /\ Room(n)
    /\ string' = Ensured(string, n)
    /\ fault' = IF Memory!PostHolds(string'.capacity, string.length, n) THEN "none"
                ELSE "assert_growth"
    /\ call' = <<"EnsureCapacity", n>>

(* The string is destroyed and AvmStringNew creates another one.           *)
Recreate(c) ==
    /\ fault = "none"
    /\ string' = NewString(c)
    /\ UNCHANGED fault
    /\ call' = <<"New">>

(* The string s after k pushes of the same characters.                     *)
PushedTimes(s, cs, k) ==
    LET after[j \in 0..k] == IF j = 0 THEN s ELSE Pushed(after[j - 1], cs)
    IN  after[k]

(* AvmStringFrom, AvmStringFromChars, and AvmStringRepeat(Chars), which    *)
(* push the same characters k times into twice the memory they need (so    *)
(* that no push grows it, unless 2 * n wraps around).                      *)
RepeatChars(cs, k) ==
    LET n == Len(cs) * k
    IN  /\ fault = "none"
        /\ n <= Limit
        /\ string' = IF n = 0 THEN NewString(0)
                     ELSE PushedTimes(NewString(Memory!Wrap(2 * n)), cs, k)
        /\ fault' = IF string'.capacity = Memory!Wrap(2 * n) THEN "none" ELSE "assert_create"
        /\ call' = <<"Repeat", cs, k>>

(* Mutant: clearing forgets the capacity, too.                             *)
ClearCapacity ==
    /\ fault = "none"
    /\ string' = [string EXCEPT !.length = 0, !.capacity = 0]
    /\ UNCHANGED fault
    /\ call' = <<"Clear">>

Clear ==
    /\ fault = "none"
    /\ string' = [string EXCEPT !.length = 0]
    /\ UNCHANGED fault
    /\ call' = <<"Clear">>

Erase ==
    /\ fault = "none"
    /\ string' = [capacity |-> string.capacity, length |-> 0,
                  buffer |-> [i \in DOMAIN string.buffer |->
                        IF i <= string.length THEN Nul ELSE string.buffer[i]]]
    /\ UNCHANGED fault
    /\ call' = <<"Erase">>

(* The memory of the string is overwritten with b.                         *)
Overwritten(b) == [capacity |-> string.capacity, length |-> string.length, buffer |-> b]

(* AvmStringMap, MapEx, MapCompat, and with it ToUpper and ToLower.        *)
Map(f) ==
    /\ fault = "none"
    /\ string' = Overwritten([i \in DOMAIN string.buffer |->
            IF i <= string.length THEN f[string.buffer[i]] ELSE string.buffer[i]])
    /\ UNCHANGED fault
    /\ call' = <<"Map", f>>

(***************************************************************************)
(* The loops of the Replace family: visit the positions of the text in     *)
(* order, and overwrite old while fewer than n replacements were made.     *)
(***************************************************************************)
Replaced(acc, i, n, old, new) ==
    IF acc.count < n /\ acc.buffer[i] = old
    THEN [buffer |-> [acc.buffer EXCEPT ![i] = new], count |-> acc.count + 1]
    ELSE acc

Sweep(s, order, n, old, new) ==
    LET after[k \in 0..Len(order)] ==
            IF k = 0 THEN [buffer |-> s.buffer, count |-> 0]
            ELSE Replaced(after[k - 1], order[k], n, old, new)
    IN  after[Len(order)].buffer

Forwards(s) == [i \in 1..s.length |-> i]
(* Mutant: the last position of the text is not visited.                   *)
BackwardsFromBeforeLast(s) ==
    [i \in 1..(IF s.length = 0 THEN 0 ELSE s.length - 1) |-> s.length - i]

Backwards(s) == [i \in 1..s.length |-> s.length + 1 - i]

(* AvmStringReplaceN; AvmStringReplace is n = 1 and ReplaceAll n = length. *)
ReplaceN(n, old, new) ==
    /\ fault = "none"
    /\ string' = Overwritten(Sweep(string, Forwards(string), n, old, new))
    /\ UNCHANGED fault
    /\ call' = <<"ReplaceN", n, old, new>>

(* AvmStringReplaceLastN; AvmStringReplaceLast is n = 1.                   *)
ReplaceLastN(n, old, new) ==
    /\ fault = "none"
    /\ string' = Overwritten(Sweep(string, Backwards(string), n, old, new))
    /\ UNCHANGED fault
    /\ call' = <<"ReplaceLastN", n, old, new>>

(* AvmStringReverse: two pointers swap cells until they meet. Without a    *)
(* buffer, the end pointer wraps below NULL and the loop dereferences.     *)
Swapped(b, i, j) ==
    [k \in DOMAIN b |-> IF k = i THEN b[j] ELSE IF k = j THEN b[i] ELSE b[k]]

SwappedInwards(s) ==
    LET after[k \in 0..(s.length \div 2)] ==
            IF k = 0 THEN s.buffer ELSE Swapped(after[k - 1], k, s.length + 1 - k)
    IN  after[s.length \div 2]

ReverseString ==
    /\ fault = "none"
    /\ string' = Overwritten(SwappedInwards(string))
    /\ fault' = IF string.buffer = <<>> THEN "null" ELSE "none"
    /\ call' = <<"Reverse">>

Next ==
    \/ \E c \in Chars : PushChar(c)
    \/ \E cs \in Chunks : PushChars(cs) \/ PushString(cs)
    \/ \E cs \in Strs : PushStr(cs)
    \/ PushSelf
    \/ \E n \in 0..Limit : EnsureCapacity(n)
    \/ \E c \in 0..Limit : Recreate(c)
    \/ \E cs \in Chunks, k \in 0..Limit : RepeatChars(cs, k)
    \/ Clear
    \/ Erase
    \/ \E f \in Mappings : Map(f)
    \/ \E n \in 0..Limit, old, new \in Chars : ReplaceN(n, old, new) \/ ReplaceLastN(n, old, new)
    \/ ReverseString

Spec == Init /\ [][Next]_vars
-----------------------------------------------------------------------------
(* What a scan of the raw memory at _buffer, as strstr, strlen and strcmp  *)
(* do it, can rely on: the cells before the first one that is a zero byte, *)
(* or Junk, or behind the allocation.                                      *)
ScanEnd(s) ==
    CHOOSE k \in 1..(Len(s.buffer) + 1) :
        /\ k = Len(s.buffer) + 1 \/ s.buffer[k] \in {Nul, Junk}
        /\ \A j \in 1..(k - 1) : s.buffer[j] \notin {Nul, Junk}

Terminated(s) == ScanEnd(s) <= Len(s.buffer) /\ s.buffer[ScanEnd(s)] = Nul

IsAt(s, sub, i) == \A k \in 1..Len(sub) : s.buffer[i + k - 1] = sub[k]

(* strncmp finds no difference at i; it stops at a zero byte in both.      *)
Matches(s, sub, i) ==
    \A k \in 1..Len(sub) : Nul \notin {sub[j] : j \in 1..(k - 1)} => s.buffer[i + k - 1] = sub[k]

Least(S) == CHOOSE x \in S : \A y \in S : x <= y
Greatest(S) == CHOOSE x \in S : \A y \in S : y <= x

Unknown == M   \* not a uint: the outcome depends on memory nobody wrote

(* AvmStringFind: strstr on the raw memory.                                *)
Find(s, sub) ==
    LET hits == {i \in 1..(ScanEnd(s) - Len(sub)) : IsAt(s, sub, i)}
    IN  IF hits # {} THEN Least(hits) - 1
        ELSE IF Terminated(s) THEN Invalid ELSE Unknown

(* Mutant: the search starts one position too early.                       *)
FindLastShort(s, sub) ==
    LET hits == {i \in 2..(s.length - Len(sub)) : Matches(s, sub, i)}
    IN  IF hits # {} THEN Greatest(hits) - 1 ELSE Invalid

(* AvmStringFindLast: from the last position that fits, down to the start  *)
(* of the buffer, where the loop ends without looking.                     *)
FindLast(s, sub) ==
    LET hits == {i \in 2..(s.length - Len(sub) + 1) : Matches(s, sub, i)}
    IN  IF hits # {} THEN Greatest(hits) - 1 ELSE Invalid

(* AvmStringIndexOf and LastIndexOf look at the text only.                 *)
Places(s, c) == {i \in 1..s.length : s.buffer[i] = c}
IndexOf(s, c) == IF Places(s, c) = {} THEN Invalid ELSE Least(Places(s, c)) - 1
LastIndexOf(s, c) == IF Places(s, c) = {} THEN Invalid ELSE Greatest(Places(s, c)) - 1

(* AvmStringContainsStr: the outcome of Find counts, not where it found.   *)
ContainsStr(s, sub) == Find(s, sub) # Invalid

(* AvmStringStartsWithChars, and with it its Str and String overloads.     *)
StartsWithChars(s, sub) == Len(sub) <= s.length /\ Matches(s, sub, 1)

(* Mutant: the comparison starts at the last character of the text.        *)
EndsWithCharsAtLast(s, sub) ==
    Len(sub) <= s.length /\ (sub # <<>> => s.buffer[s.length] = sub[1])

(* AvmStringEndsWithChars, and with it EndsWithStr and EndsWithString.     *)
EndsWithChars(s, sub) == Len(sub) <= s.length /\ Matches(s, sub, s.length - Len(sub) + 1)

(* AvmStringClone: AvmStringFrom of the raw memory, which must terminate.  *)
CloneText(s) == SubSeq(s.buffer, 1, ScanEnd(s) - 1)

-----------------------------------------------------------------------------
TypeOK ==
    /\ string.capacity \in 0..(M - 1)
    /\ string.length \in 0..(M - 1)
    /\ string.buffer \in BoundedSeq(Cell, 2 * Limit)
    /\ fault \in GrowthFaults \cup {"none", "null", "pushstr", "stale"}

(***************************************************************************)
(* No operation ever counts as text a cell that nothing has written since  *)
(* malloc or realloc returned it: whatever growth, erasure and repetition  *)
(* came before, the first length cells are characters. (That they are the  *)
(* characters of the text, and not what an earlier one left behind, is a   *)
(* part of ImplementsText.)                                                *)
(***************************************************************************)
TextIsInitialised == \A i \in 1..string.length : string.buffer[i] \in Chars

(* The text up to its first zero byte, if it has one.                      *)
FirstZero == IndexOf(string, Nul)
Visible == SubSeq(TextOf(string), 1, IF FirstZero = Invalid THEN string.length ELSE FirstZero)

(* The occurrences of sub in the text proper.                              *)
Occurrences(sub) ==
    {i \in 1..(string.length - Len(sub) + 1) : SubSeq(TextOf(string), i, i + Len(sub) - 1) = sub}

(***************************************************************************)
(* What scans the raw memory sees the text up to its first zero byte, and  *)
(* a text without one to its end, whatever lies behind it. A clone begins  *)
(* with that part, and has no more if a zero byte ends it. Find returns    *)
(* the first occurrence in that part; if it returns another, then the text *)
(* has no zero byte and none of its own occurrences, and the one found     *)
(* ends behind it. FindLast counts down in the text, zero bytes and all:   *)
(* it returns the last occurrence and misses only one at the very start.   *)
(***************************************************************************)
ScansSeeTheText ==
    fault = "none" =>
        /\ IsPrefix(Visible, CloneText(string))
        /\ FirstZero # Invalid => CloneText(string) = Visible
        /\ \A sub \in Strs \ {<<>>} :
            LET at == Occurrences(sub)
                seen == {i \in at : i <= FirstZero}
            IN  /\ seen # {} => Find(string, sub) = Least(seen) - 1
                /\ seen = {} /\ Find(string, sub) # Invalid =>
                    FirstZero = Invalid /\ Find(string, sub) + Len(sub) > string.length
                /\ at = {} => FindLast(string, sub) = Invalid
                /\ at \notin {{}, {1}} => FindLast(string, sub) = Greatest(at) - 1

(***************************************************************************)
(* The queries of string.c do not contradict each other before the first   *)
(* zero byte of the text (Invalid, if it has none), although some scan the *)
(* raw memory, some count down in the text and some compare at one place:  *)
(* what a string starts or ends with is found where it starts or ends, and *)
(* a character is found where a search for it leads. FindLast agrees with  *)
(* the rest everywhere but at the very start.                              *)
(***************************************************************************)
QueriesAgree ==
    fault = "none" => \A sub \in Strs \ {<<>>} :
        LET end == string.length - Len(sub)
        IN  /\ StartsWithChars(string, sub) => Find(string, sub) = 0
            /\ EndsWithChars(string, sub) =>
                /\ end < FirstZero => ContainsStr(string, sub)
                /\ end # 0 => FindLast(string, sub) = end
            /\ FindLast(string, sub) < FirstZero => Find(string, sub) <= FindLast(string, sub)
            /\ Len(sub) = 1 =>
                /\ IndexOf(string, sub[1]) < FirstZero =>
                    Find(string, sub) = IndexOf(string, sub[1])
                /\ FirstZero < IndexOf(string, sub[1]) => ~ ContainsStr(string, sub)
                /\ LastIndexOf(string, sub[1]) # 0 =>
                    FindLast(string, sub) = LastIndexOf(string, sub[1])

(* The buffer is what Text says: every operation changes the text the way  *)
(* its documentation says, and none changes it on the side.                *)
Promise == INSTANCE Text WITH text <- TextOf(string)

ImplementsText == Promise!Spec

(* Growth is the growth of Storage: what StringPartsProof proves of it     *)
(* holds for strings.                                                      *)
ImplementsStorage == Memory!Spec
=============================================================================
