----------------------------- MODULE MCObjects ------------------------------
(* Types with the tables of object (1 entry), AvmError (2), AvmString (14) *)
(* and AvmFileStream (21), and enums of at most two members.               *)
EXTENDS Objects, TLC

CONSTANTS object, error, string, stream, n1, n2

Symmetry == Permutations(Objs) \cup Permutations(Resources)

MCEntries == object :> 1 @@ error :> 2 @@ string :> 14 @@ stream :> 21
MCFunctions ==
    object :> {} @@ error :> {1} @@ string :> {0, 1, 2, 3, 12, 13}
        @@ stream :> {0, 12, 16, 17, 18, 19, 20}

MCEnumTables ==
    {<<>>} \cup {<<[name |-> n1, value |-> v]>> : v \in {0, 1}}
           \cup {<<[name |-> n1, value |-> v], [name |-> n2, value |-> w]>> : v, w \in {0, 1}}
=============================================================================
