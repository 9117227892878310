------------------------------ MODULE TypeInfo ------------------------------
(***************************************************************************)
(* The run-time type information of avium (src/src/avm.core/typeinfo.c and *)
(* include/avium/typeinfo.h): every class has an AvmType whose _baseType   *)
(* points to the type it derives from, and object is its own base.         *)
(***************************************************************************)
CONSTANTS Type,        \* the AvmType instances of the program
          ObjectType,  \* typeid(object)
          BaseOf       \* _baseType, as AVM_TYPE(T, B, ...) fixes it

ASSUME TypesHaveBases ==
    /\ ObjectType \in Type
    /\ BaseOf \in [Type -> Type]
    /\ BaseOf[ObjectType] = ObjectType

(***************************************************************************)
(* AvmTypeInheritsFrom: object is everybody's ancestor; otherwise the loop *)
(* climbs from the base of self and gives up when it meets object.         *)
(***************************************************************************)
InheritsFrom(self, baseType) ==
    LET climb[t \in Type] ==
            /\ t # ObjectType
            /\ t = baseType \/ climb[BaseOf[t]]
    IN  baseType = ObjectType \/ climb[BaseOf[self]]

(* The macro instanceof(T, x), where self is the type of x.                *)
IsInstance(T, self) == T = self \/ InheritsFrom(self, T)
=============================================================================
