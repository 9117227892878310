----------------------------- MODULE Exceptions -----------------------------
(***************************************************************************)
(* What try, catch and throw of include/avium/error.h promise, without the *)
(* chain of throw contexts that implements them: an exception goes to the  *)
(* innermost enclosing try whose body is running and that has a clause for *)
(* its type, to the first such clause, and everything inside that try is   *)
(* abandoned; an exception nobody handles ends the process.                *)
(***************************************************************************)
EXTENDS TypeInfo, Naturals, Sequences

CONSTANTS Threads,      \* the threads of the process
          MainThread,   \* the thread that runs main
          Objects,      \* the objects that are thrown
          TypeOf,       \* the type of each of them
          CatchLists,   \* the catch lists of the program's try statements
          Null

VARIABLES scopes,    \* scopes[t]: the try statements t is inside, outermost first
          inFlight,  \* inFlight[t]: the exception t is looking a handler for
          outcome    \* "running", or how the process ended

vars == <<scopes, inFlight, outcome>>

Outcomes == {"running", "exit0", "exit1", "killed", "undefined"}

(* A try statement: its body runs while clause is 0, then catch number     *)
(* clause, which received object.                                          *)
Scope(catches, clause, object) ==
    [catches |-> catches, clause |-> clause, object |-> object]

InBody(s) == s.clause = 0

Matches(e, s, i) == IsInstance(s.catches[i], TypeOf[e])

(* The clauses of the try statement s that accept e.                       *)
Accepting(e, s) == {i \in DOMAIN s.catches : Matches(e, s, i)}

(* Scope number d of the stack ss handles e.                               *)
Handles(e, ss, d) ==
    /\ InBody(ss[d]) /\ Accepting(e, ss[d]) # {}
    /\ \A k \in (d + 1)..Len(ss) : InBody(ss[k]) => Accepting(e, ss[k]) = {}

Unhandled(e, ss) == \A d \in DOMAIN ss : ~ Handles(e, ss, d)

Init ==
    /\ scopes = [t \in Threads |->
                    IF t = MainThread THEN <<Scope(<<ObjectType>>, 0, Null)>> ELSE <<>>]
    /\ inFlight = [t \in Threads |-> Null]
    /\ outcome = "running"

Executing(t) == outcome = "running" /\ inFlight[t] = Null

Enter(t, catches) ==
    /\ Executing(t)
    /\ scopes' = [scopes EXCEPT ![t] = Append(@, Scope(catches, 0, Null))]
    /\ UNCHANGED <<inFlight, outcome>>

(* Leaving a body or a catch body normally. For the try of main this ends  *)
(* the process, with status 1 if the exception had to be caught there.     *)
Leave(t) ==
    /\ Executing(t)
    /\ scopes[t] # <<>>
    /\ scopes' = [scopes EXCEPT ![t] = SubSeq(@, 1, Len(@) - 1)]
    /\ outcome' = IF t # MainThread \/ Len(scopes[t]) > 1 THEN "running"
                  ELSE IF InBody(scopes[t][1]) THEN "exit0" ELSE "exit1"
    /\ UNCHANGED inFlight

Raise(t, e) ==
    /\ Executing(t)
    /\ inFlight' = [inFlight EXCEPT ![t] = e]
    /\ UNCHANGED <<scopes, outcome>>

Deliver(t, d, i) ==
    /\ outcome = "running"
    /\ inFlight[t] # Null
    /\ Handles(inFlight[t], scopes[t], d)
    /\ i \in Accepting(inFlight[t], scopes[t][d])
    /\ \A j \in Accepting(inFlight[t], scopes[t][d]) : i <= j
    /\ scopes' = [scopes EXCEPT ![t] =
                     Append(SubSeq(@, 1, d - 1), Scope(@[d].catches, i, inFlight[t]))]
    /\ inFlight' = [inFlight EXCEPT ![t] = Null]
    /\ UNCHANGED outcome

(* An exception no try of its thread handles ends the whole process.       *)
Die(t, e) ==
    /\ outcome = "running"
    /\ inFlight[t] \in {Null, e}
    /\ Unhandled(e, scopes[t])
    /\ outcome' \in {"exit1", "killed"}
    /\ UNCHANGED <<scopes, inFlight>>

Next == \E t \in Threads :
    \/ \E catches \in CatchLists : Enter(t, catches)
    \/ Leave(t)
    \/ \E e \in Objects : Raise(t, e) \/ Die(t, e)
    \/ \E d \in DOMAIN scopes[t] : \E i \in DOMAIN scopes[t][d].catches : Deliver(t, d, i)

(* An exception in flight is delivered, or the process ends.               *)
Resolve(t) ==
    \/ \E d \in DOMAIN scopes[t] : \E i \in DOMAIN scopes[t][d].catches : Deliver(t, d, i)
    \/ inFlight[t] # Null /\ Die(t, inFlight[t])

Spec == Init /\ [][Next]_vars /\ \A t \in Threads : WF_vars(Resolve(t))
=============================================================================
