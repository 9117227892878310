------------------------------ MODULE PathNames -----------------------------
(***************************************************************************)
(* src/src/avm.io/path.c outside of Windows: the pieces of a path, and     *)
(* paths made of pieces. A program holds a path as a terminated str and    *)
(* replaces it by what a call returns (by AvmStringToStr). A path is a     *)
(* sequence of characters; of these only the separator and the dot matter. *)
(***************************************************************************)
EXTENDS Integers, Sequences, SequencesExt

CONSTANTS Letters,    \* the characters that are neither separator nor dot
          MaxPath,    \* the longest path the program ever holds
          Pieces,     \* the paths that it combines with another
          MaxPieces,  \* the longest array it gives to AvmPathCombine
          Places      \* what the system calls home, temporary and full paths

Sep == "/"   \* AvmPathGetSeparator and AvmPathGetAltSeparator
Dot == "."

PathChars == Letters \cup {Sep, Dot}

ASSUME PathNamesAssumption ==
    /\ MaxPath \in Nat /\ MaxPieces \in Nat \ {0}
    /\ Pieces \cup Places \subseteq Seq(PathChars)

VARIABLES path,   \* the path the program holds
          fault,  \* "none", or what stopped it
          call    \* history: the last call, the path before it, its argument

vars == <<path, fault, call>>

Paths == BoundedSeq(PathChars, MaxPath)

-----------------------------------------------------------------------------
IsAbsolute(p) == p # <<>> /\ p[1] = Sep
IsRelative(p) == Len(p) > 1 /\ p[1] = Dot /\ p[2] = Sep
IsValid(p) == ~ \E i \in 1..(Len(p) - 1) : p[i] = Sep /\ p[i + 1] = Sep

(* AvmPathIsDir. The length is a uint: of an empty path it reads           *)
(* path[4294967295].                                                       *)
IsDir(p) == p[Len(p)] = Sep

Has(p, c) == \E i \in DOMAIN p : p[i] = c
LastPlace(p, c) == CHOOSE i \in DOMAIN p : p[i] = c /\ ~ Has(SubSeq(p, i + 1, Len(p)), c)
Behind(p, c) == SubSeq(p, LastPlace(p, c) + 1, Len(p))

(* AvmBasename, which adds one to what strrchr returns before it compares  *)
(* it with NULL: without a separator the name is at address 1.             *)
Basename(p) == Behind(p, Sep)
BasenameFault(p) == IF Has(p, Sep) THEN "none" ELSE "address"

HasExtension(p) == Has(Basename(p), Dot)

(* AvmPathGetName. The basename of a directory is empty, and one less than *)
(* its length wraps around.                                                *)
GetName(p) == Basename(p)

GetNameFault(p) ==
    IF ~ Has(p, Sep) THEN BasenameFault(p) ELSE IF IsDir(p) THEN "wrapped" ELSE "none"

(* Mutant: from the first dot on.                                          *)
GetExtensionFirst(p) ==
    LET name == GetName(p)
    IN  IF Has(name, Dot) THEN SubSeq(name, SelectInSeq(name, LAMBDA c : c = Dot) + 1, Len(name))
        ELSE <<>>

(* AvmPathGetExtension, which has the faults of AvmPathGetName.            *)
GetExtension(p) ==
    IF Has(GetName(p), Dot) THEN Behind(GetName(p), Dot) ELSE <<>>

(* Mutant: without the separator.                                          *)
GetParentBare(p) ==
    IF Len(p) = 1 \/ ~ Has(p, Sep) THEN p ELSE SubSeq(p, 1, LastPlace(p, Sep) - 1)

(* AvmPathGetParent. The parent of a path that ends in a separator is that *)
(* path again.                                                             *)
GetParent(p) ==
    IF Len(p) = 1 \/ ~ Has(p, Sep) THEN p ELSE SubSeq(p, 1, LastPlace(p, Sep))

-----------------------------------------------------------------------------
(* Mutant: of a leading "./" only the dot is dropped.                      *)
OffsetDotOnly(p2) ==
    IF IsRelative(p2) \/ IsAbsolute(p2) THEN 1 ELSE 0

(* The characters of the second path that AvmPathCombine2 skips.           *)
Offset(p2) ==
    IF IsRelative(p2) THEN 2 ELSE IF IsAbsolute(p2) THEN 1 ELSE 0

(* Mutant: the separator is that of Windows.                               *)
JointOfWindows(p1) == IF IsDir(p1) THEN <<>> ELSE <<"\\">>

Joint(p1) == IF IsDir(p1) THEN <<>> ELSE <<Sep>>

(* AvmPathCombine2: its text, and how it ends. If nothing is left of the   *)
(* second path behind a "/" or "./", AvmStringPushStr gets an empty str,   *)
(* and its last assertion reads the character in front of it.              *)
Combine2(p1, p2) ==
    IF p1 = <<>> THEN p2
    ELSE IF p2 = <<>> THEN p1
    ELSE p1 \o Joint(p1) \o SubSeq(p2, Offset(p2) + 1, Len(p2))

Combine2Fault(p1, p2) ==
    IF p1 # <<>> /\ p2 # <<>> /\ Offset(p2) = Len(p2) THEN "pushstr" ELSE "none"

(* Whether its buffer ends with the text. AvmStringFrom allocates twice    *)
(* the text; two paths get the sum of their lengths, and twice as much if  *)
(* the separator makes that too small.                                     *)
FillsBuffer(p1, p2) ==
    p1 # <<>> /\ p2 # <<>> /\ Len(Combine2(p1, p2)) = Len(p1) + Len(p2)

(***************************************************************************)
(* The loop of AvmPathCombine passes the buffer of the previous result to  *)
(* AvmPathCombine2 as a str, which calls strlen. The buffer of an empty    *)
(* path is NULL; any other is terminated only if it has room to spare and  *)
(* the memory came zeroed.                                                 *)
(***************************************************************************)
CombineStep(acc, p2, zeroed) ==
    IF acc.fault # "none" THEN acc
    ELSE IF acc.path = <<>> THEN [acc EXCEPT !.fault = "null"]
    ELSE IF acc.fills \/ ~ zeroed THEN [acc EXCEPT !.fault = "overread"]
    ELSE [path |-> Combine2(acc.path, p2), fills |-> FillsBuffer(acc.path, p2),
          fault |-> Combine2Fault(acc.path, p2)]

(* AvmPathCombine: its result, and how it ends.                            *)
Combine(ps, zeroed) ==
    LET after[n \in 1..Len(ps)] ==
            IF n = 1 THEN [path |-> ps[1], fills |-> FALSE, fault |-> "none"]
            ELSE CombineStep(after[n - 1], ps[n], zeroed)
    IN  after[Len(ps)]

-----------------------------------------------------------------------------
Init == path \in Paths /\ fault = "none" /\ call = <<"Start", <<>>, <<>>>>

Returns(name, argument, result, end) ==
    /\ fault = "none"
    /\ Len(result) <= MaxPath
    /\ path' = IF end = "none" THEN result ELSE path
    /\ fault' = end
    /\ call' = <<name, path, argument>>

Descend(p2) == Returns("Combine2", p2, Combine2(path, p2), Combine2Fault(path, p2))

DescendAll(ps) ==
    \E zeroed \in BOOLEAN :
        LET all == Combine(<<path>> \o ps, zeroed)
        IN  Returns("Combine", ps, all.path, all.fault)

Ascend == Returns("GetParent", <<>>, GetParent(path), "none")

TakeName == Returns("GetName", <<>>, IF Has(path, Sep) THEN GetName(path) ELSE <<>>, GetNameFault(path))

TakeExtension ==
    Returns("GetExtension", <<>>, IF Has(path, Sep) THEN GetExtension(path) ELSE <<>>, GetNameFault(path))

AskHasExtension == Returns("HasExtension", <<>>, path, BasenameFault(path))

AskIsDir == Returns("IsDir", <<>>, path, IF path = <<>> THEN "overread" ELSE "none")

(* AvmPathGetHomeDir, GetTempDir and GetFullPath: what the system answers; *)
(* the first and the last throw if it has no answer, and nothing changes.  *)
Locate(found) == Returns("Locate", <<>>, found, "none")

Next ==
    \/ \E p2 \in Pieces : Descend(p2)
    \/ \E ps \in BoundedSeq(Pieces, MaxPieces - 1) : DescendAll(ps)
    \/ Ascend
    \/ TakeName
    \/ TakeExtension
    \/ AskHasExtension
    \/ AskIsDir
    \/ \E found \in Places : Locate(found)

Spec == Init /\ [][Next]_vars
-----------------------------------------------------------------------------
(***************************************************************************)
(* The names on the way of a path, read character by character; a single   *)
(* dot stays where it is. "open" is what stands behind the last separator. *)
(***************************************************************************)
Kept(name) == IF name \in {<<>>, <<Dot>>} THEN <<>> ELSE <<name>>

ReadChar(read, c) ==
    IF c = Sep THEN [names |-> read.names \o Kept(read.open), open |-> <<>>]
    ELSE [read EXCEPT !.open = Append(@, c)]

Reading(p) ==
    LET read[n \in 0..Len(p)] ==
            IF n = 0 THEN [names |-> <<>>, open |-> <<>>] ELSE ReadChar(read[n - 1], p[n])
    IN  read[Len(p)]

Names(p) == Reading(p).names \o Kept(Reading(p).open)

(* The types of the variables; every path has only letters, dots and the   *)
(* separator of this system.                                               *)
TypeOK ==
    /\ path \in Paths
    /\ fault \in {"none", "null", "address", "wrapped", "overread", "pushstr"}

(***************************************************************************)
(* Combining two or more paths goes down by the names of each in turn:     *)
(* separators, "./" and empty paths at the joints never merge two names,   *)
(* drop one or make a new one. Two valid paths make a valid one, without   *)
(* two separators in a row, that starts where the first one starts. All of *)
(* this where the call returns: one of more than two paths may not, and no *)
(* path may be combined with exactly "/" or "./".                          *)
(***************************************************************************)
CombineJoinsNames ==
    fault = "none" =>
        /\ call[1] = "Combine2" =>
            /\ Names(path) = Names(call[2]) \o Names(call[3])
            /\ IsValid(call[2]) /\ IsValid(call[3]) => IsValid(path)
            /\ call[2] # <<>> => IsPrefix(call[2], path)
        /\ call[1] = "Combine" =>
            Names(path) = Names(call[2]) \o
                            FlattenSeq([i \in DOMAIN call[3] |-> Names(call[3][i])])

(***************************************************************************)
(* Going down by a name, without a separator in it, never fails; asking    *)
(* for the name of the path below gives it back without failing, and going *)
(* up ends in the directory where it began, a separator behind it.         *)
(***************************************************************************)
UpUndoesDown ==
    (call[1] = "Combine2" /\ call[2] # <<>> /\ call[3] # <<>> /\ ~ Has(call[3], Sep)) =>
        /\ fault = "none" /\ GetNameFault(path) = "none"
        /\ GetName(path) = call[3]
        /\ GetParent(path) = call[2] \o Joint(call[2])

(* A path of which the name can be asked is the combination, which does    *)
(* not fail, of its parent and its name; its extension, if it has one,     *)
(* ends it behind a dot.                                                   *)
SplitJoins ==
    GetNameFault(path) = "none" =>
        /\ Combine2(GetParent(path), GetName(path)) = path
        /\ Combine2Fault(GetParent(path), GetName(path)) = "none"
        /\ HasExtension(path) => /\ ~ Has(GetExtension(path), Dot)
                                 /\ IsSuffix(<<Dot>> \o GetExtension(path), path)
        /\ ~ HasExtension(path) => GetExtension(path) = <<>>
=============================================================================
