---------------------------- MODULE MCAvmString -----------------------------
(* Strings of two letters and the zero byte, with a mapping that exchanges *)
(* the letters and one that turns everything into zero bytes.              *)
EXTENDS AvmString, TLC

CONSTANTS a, b

Exchange == a :> b @@ b :> a @@ Nul :> Nul
Blank == [c \in {a, b, Nul} |-> Nul]
MCMappings == {Exchange, Blank}

(* The letters are interchangeable: nothing above tells them apart.        *)
Symmetry == Permutations({a, b})
=============================================================================
