-------------------------- MODULE MCThrowContexts ---------------------------
(***************************************************************************)
(* Two threads, a chain of three types and the catch lists that tell the   *)
(* order and the subtyping of clauses apart.                               *)
(***************************************************************************)
EXTENDS ThrowContexts, TLC

CONSTANTS t1, t2, object, AvmError, AvmDetailedError, e1, e2

MCTypes == {object, AvmError, AvmDetailedError}
MCBaseOf == object :> object @@ AvmError :> object @@ AvmDetailedError :> AvmError
MCTypeOf == e1 :> AvmDetailedError @@ e2 :> object
MCCatchLists == {<<AvmError, object>>, <<AvmError>>}
=============================================================================
