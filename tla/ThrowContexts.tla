--------------------------- MODULE ThrowContexts ----------------------------
(***************************************************************************)
(* try, catch and throw as the code implements them: the macros of         *)
(* include/avium/error.h over the thread-local chain of AvmThrowContext of *)
(* src/src/avm.core/error.c, the main of src/src/init.c, and the signal    *)
(* handler of src/src/avm.core/core.c that turns a NULL dereference into   *)
(* exit(EXIT_FAILURE).                                                     *)
(*                                                                         *)
(* Each try statement being executed is a block: its context is a local    *)
(* variable of that block, so its address is the depth of the block on the *)
(* stack of its thread, and the address is used again by the next block    *)
(* entered at that depth.                                                  *)
(***************************************************************************)
EXTENDS TypeInfo, Naturals, Sequences

CONSTANTS Threads,      \* the threads of the process
          MainThread,   \* the thread that runs main
          Objects,      \* the objects that are thrown
          TypeOf,       \* the type of each of them
          CatchLists,   \* the catch lists of the program's try statements
          MaxDepth,     \* bound on the nesting of try statements
          Careless,     \* threads whose code returns or breaks out of a try body
          Null

ASSUME ThreadsAssumption ==
    /\ MainThread \in Threads
    /\ Careless \subseteq Threads
    /\ TypeOf \in [Objects -> Type]
    /\ CatchLists \subseteq Seq(Type)
    /\ MaxDepth \in Nat

ASSUME NullAssumption ==
    /\ Null \notin Objects
    /\ Null \notin Threads \X Nat

VARIABLES blocks,   \* blocks[t]: the try statements t is executing
          global,   \* AvmGlobalThrowContext, per thread
          outcome,  \* "running", or how the process ended
          handled,  \* AvmHandleException is installed
          raised    \* history: blocks[t] when the exception in flight was thrown

vars == <<blocks, global, outcome, handled, raised>>

Address == Threads \X Nat

(* An AvmThrowContext with the position in the macro of its block: in the  *)
(* body (0th iteration, setjmp returned 0), dispatching (setjmp returned 1 *)
(* and no clause is chosen yet) or in catch number clause.                 *)
Context(catches, prev) ==
    [catches |-> catches, phase |-> "body", clause |-> 0, prev |-> prev, thrown |-> Null]

Outcomes == {"running", "exit0", "exit1", "killed", "undefined"}

(* static thread_local: every thread has a variable of its own.            *)
Slot(t) == t

Top(t) == blocks[t][Len(blocks[t])]

(* Thread t is inside its own code, not inside the macros.                 *)
Executing(t) ==
    /\ outcome = "running"
    /\ blocks[t] # <<>> => Top(t).phase # "dispatch"

(* The context at address a is a local variable that still exists.         *)
Live(a) == a \in Address /\ a[2] \in DOMAIN blocks[a[1]]

At(a) == blocks[a[1]][a[2]]

-----------------------------------------------------------------------------
(* main has entered its try statement and calls AvmMain.                   *)
Init ==
    /\ blocks = [t \in Threads |->
                    IF t = MainThread THEN <<Context(<<ObjectType>>, Null)>> ELSE <<>>]
    /\ global = [t \in Threads |-> IF t = MainThread THEN <<t, 1>> ELSE Null]
    /\ outcome = "running"
    /\ handled = FALSE
    /\ raised = [t \in Threads |-> <<>>]

(* try: __AvmRuntimePushThrowContext on a new local, then setjmp.          *)
EnterTry(t, catches) ==
    /\ Executing(t)
    /\ Len(blocks[t]) < MaxDepth
    /\ blocks' = [blocks EXCEPT ![t] = Append(@, Context(catches, global[Slot(t)]))]
    /\ global' = [global EXCEPT ![Slot(t)] = <<t, Len(blocks[t]) + 1>>]
    /\ UNCHANGED <<outcome, handled, raised>>

(* A NULL dereference: SIGSEGV, to AvmHandleException or to its default.   *)
Segfault ==
    /\ outcome' = IF handled THEN "exit1" ELSE "killed"
    /\ UNCHANGED blocks

(* Mutant: the object is not stored in the context.                        *)
ThrowToEmpty(t, a, e) ==
    IF a = Null THEN Segfault
    ELSE IF Live(a) /\ a[1] = t /\ At(a).phase = "body"
    THEN /\ blocks' = [blocks EXCEPT ![t] =
                Append(SubSeq(@, 1, a[2] - 1), [@[a[2]] EXCEPT !.phase = "dispatch"])]
         /\ UNCHANGED outcome
    ELSE outcome' = "undefined" /\ UNCHANGED blocks

(***************************************************************************)
(* __AvmRuntimeThrow in thread t when the chain starts at a: store e in    *)
(* that context and longjmp to it. The frames above it are gone. Jumping   *)
(* to a context whose block has ended, of another thread, or whose loop    *)
(* variable changed since setjmp is undefined behaviour.                   *)
(***************************************************************************)
ThrowTo(t, a, e) ==
    IF a = Null THEN Segfault
    ELSE IF Live(a) /\ a[1] = t /\ At(a).phase = "body"
    THEN /\ blocks' = [blocks EXCEPT ![t] =
                Append(SubSeq(@, 1, a[2] - 1),
                       [@[a[2]] EXCEPT !.thrown = e, !.phase = "dispatch"])]
         /\ UNCHANGED outcome
    ELSE outcome' = "undefined" /\ UNCHANGED blocks

Throw(t, e) ==
    /\ Executing(t)
    /\ ThrowTo(t, global[Slot(t)], e)
    /\ raised' = [raised EXCEPT ![t] = blocks[t]]
    /\ UNCHANGED <<global, handled>>

(* Mutant: a clause matches its own type only, not the types below it.     *)
AcceptingExactly(t) ==
    {i \in DOMAIN Top(t).catches :
        Top(t).catches[i] = TypeOf[At(global[Slot(t)]).thrown]}

(* The clauses of the dispatching block of t that accept what the context  *)
(* at the head of the chain holds.                                         *)
Accepting(t) ==
    {i \in DOMAIN Top(t).catches :
        IsInstance(Top(t).catches[i], TypeOf[At(global[Slot(t)]).thrown])}

Dispatching(t) ==
    /\ outcome = "running"
    /\ blocks[t] # <<>> /\ Top(t).phase = "dispatch"

(* Mutants: the clause does not pop the context, or cuts the chain off.    *)
CatchWithoutPop(t) ==
    /\ Dispatching(t)
    /\ \E i \in Accepting(t) :
        /\ \A j \in Accepting(t) : i <= j
        /\ blocks' = [blocks EXCEPT ![t][Len(blocks[t])].phase = "catch",
                                    ![t][Len(blocks[t])].clause = i]
    /\ raised' = [raised EXCEPT ![t] = <<>>]
    /\ UNCHANGED <<global, outcome, handled>>

CatchCuttingChain(t) ==
    /\ Dispatching(t)
    /\ \E i \in Accepting(t) :
        /\ \A j \in Accepting(t) : i <= j
        /\ blocks' = [blocks EXCEPT ![t][Len(blocks[t])].phase = "catch",
                                    ![t][Len(blocks[t])].clause = i]
    /\ global' = [global EXCEPT ![Slot(t)] = Null]
    /\ raised' = [raised EXCEPT ![t] = <<>>]
    /\ UNCHANGED <<outcome, handled>>

(* catch: the first clause that matches pops the context and runs.         *)
Catch(t) ==
    /\ Dispatching(t)
    /\ \E i \in Accepting(t) :
        /\ \A j \in Accepting(t) : i <= j
        /\ blocks' = [blocks EXCEPT ![t][Len(blocks[t])].phase = "catch",
                                    ![t][Len(blocks[t])].clause = i]
    /\ global' = [global EXCEPT ![Slot(t)] = At(global[Slot(t)]).prev]
    /\ raised' = [raised EXCEPT ![t] = <<>>]
    /\ UNCHANGED <<outcome, handled>>

(* Mutants: the context is thrown instead of the object it holds; nothing  *)
(* is thrown from the outermost context.                                   *)
RethrowContext(t) ==
    /\ Dispatching(t)
    /\ Accepting(t) = {}
    /\ LET c == At(global[Slot(t)])
       IN  /\ global' = [global EXCEPT ![Slot(t)] = c.prev]
           /\ ThrowTo(t, c.prev, global[Slot(t)])
    /\ UNCHANGED <<handled, raised>>

RethrowInsideOnly(t) ==
    /\ Dispatching(t)
    /\ Accepting(t) = {}
    /\ LET c == At(global[Slot(t)])
       IN  /\ c.prev # Null
           /\ global' = [global EXCEPT ![Slot(t)] = c.prev]
           /\ ThrowTo(t, c.prev, c.thrown)
    /\ UNCHANGED <<handled, raised>>

(* No clause matched: the second iteration of the loop pops the context    *)
(* and throws its object again.                                            *)
Rethrow(t) ==
    /\ Dispatching(t)
    /\ Accepting(t) = {}
    /\ LET c == At(global[Slot(t)])
       IN  /\ global' = [global EXCEPT ![Slot(t)] = c.prev]
           /\ ThrowTo(t, c.prev, c.thrown)
    /\ UNCHANGED <<handled, raised>>

(* The innermost block of t ends, having popped its context or not. The    *)
(* block of main ends the process.                                         *)
EndBlock(t, status) ==
    /\ blocks' = [blocks EXCEPT ![t] = SubSeq(@, 1, Len(@) - 1)]
    /\ outcome' = IF t = MainThread /\ Len(blocks[t]) = 1 THEN status ELSE "running"

(***************************************************************************)
(* The body ran to its end: the second iteration of the loop looks at the  *)
(* head of the chain, whatever it is, and pops it or throws what it holds. *)
(***************************************************************************)
EndBody(t) ==
    LET a == global[Slot(t)]
    IN  /\ Executing(t)
        /\ blocks[t] # <<>> /\ Top(t).phase = "body"
        /\ IF a = Null THEN Segfault /\ UNCHANGED global
           ELSE IF ~ Live(a)
           THEN outcome' = "undefined" /\ UNCHANGED <<blocks, global>>
           ELSE /\ global' = [global EXCEPT ![Slot(t)] = At(a).prev]
                /\ IF At(a).thrown = Null THEN EndBlock(t, "exit0")
                   ELSE ThrowTo(t, At(a).prev, At(a).thrown)
        /\ UNCHANGED <<handled, raised>>

(* A catch body ends, or is left by return or break: nothing to pop.       *)
EndCatch(t) ==
    /\ Executing(t)
    /\ blocks[t] # <<>> /\ Top(t).phase = "catch"
    /\ EndBlock(t, "exit1")
    /\ UNCHANGED <<global, handled, raised>>

(* return, break or goto out of a try body: the context stays on the chain.*)
LeaveBody(t) ==
    /\ t \in Careless
    /\ Executing(t)
    /\ blocks[t] # <<>> /\ Top(t).phase = "body"
    /\ t = MainThread => Len(blocks[t]) > 1
    /\ EndBlock(t, "exit0")
    /\ UNCHANGED <<global, handled, raised>>

EnableExceptions(t) ==
    /\ Executing(t)
    /\ handled' = TRUE
    /\ UNCHANGED <<blocks, global, outcome, raised>>

DisableExceptions(t) ==
    /\ Executing(t)
    /\ handled' = FALSE
    /\ UNCHANGED <<blocks, global, outcome, raised>>

Step(t) ==
    \/ \E catches \in CatchLists : EnterTry(t, catches)
    \/ \E e \in Objects : Throw(t, e)
    \/ Catch(t)
    \/ Rethrow(t)
    \/ EndBody(t)
    \/ EndCatch(t)
    \/ LeaveBody(t)
    \/ EnableExceptions(t)
    \/ DisableExceptions(t)

Next == \E t \in Threads : Step(t)

(* A dispatching thread is straight-line code: it goes on when scheduled.  *)
Fairness == \A t \in Threads : WF_vars(Catch(t) \/ Rethrow(t))

Spec == Init /\ [][Next]_vars
FairSpec == Spec /\ Fairness
-----------------------------------------------------------------------------
Phases == {"body", "dispatch", "catch"}

ContextType ==
    [catches : Seq(Type), phase : Phases, clause : Nat,
     prev : Address \cup {Null}, thrown : Objects \cup {Null}]

TypeOK ==
    /\ blocks \in [Threads -> Seq(ContextType)]
    /\ global \in [Threads -> Address \cup {Null}]
    /\ outcome \in Outcomes
    /\ handled \in BOOLEAN
    /\ raised \in [Threads -> Seq(ContextType)]

(* a is the innermost of the first d blocks in the stack bs of t that is   *)
(* not in a catch body, or Null when all of them are.                      *)
Innermost(bs, t, d, a) ==
    \/ /\ a = Null
       /\ \A k \in 1..d : bs[k].phase = "catch"
    \/ \E i \in 1..d :
        /\ a = <<t, i>>
        /\ bs[i].phase # "catch"
        /\ \A k \in (i + 1)..d : bs[k].phase = "catch"

(* The chain that starts at g lists exactly the try statements of bs that  *)
(* are not in a catch body, innermost first.                               *)
Chained(bs, t, g) ==
    /\ Innermost(bs, t, Len(bs), g)
    /\ \A d \in 1..Len(bs) :
        bs[d].phase # "catch" => Innermost(bs, t, d - 1, bs[d].prev)

ChainIntact(t) == Chained(blocks[t], t, global[t])

(***************************************************************************)
(* While the process runs, push, pop and the pops of catch and of the      *)
(* rethrow (error.h:71-96) stay balanced in every thread that never jumps  *)
(* out of a try body: the head of the chain is its innermost try that can  *)
(* still catch, and each context links to the next such try outwards.      *)
(***************************************************************************)
ChainMatchesBlocks ==
    outcome = "running" => \A t \in Threads \ Careless : ChainIntact(t)

(***************************************************************************)
(* A context holds an object exactly when something was thrown to it, and  *)
(* only the innermost block may be choosing a clause: the test             *)
(* _thrownObject == NULL of error.h:77 never takes a finished body for a   *)
(* throwing one, nor an exception for a finished body.                     *)
(***************************************************************************)
ThrownMarksDispatch ==
    \A t \in Threads : \A d \in 1..Len(blocks[t]) :
        /\ blocks[t][d].thrown = Null <=> blocks[t][d].phase = "body"
        /\ blocks[t][d].phase = "dispatch" => d = Len(blocks[t])

(***************************************************************************)
(* A longjmp to a context that is gone, or a read of one, is always the    *)
(* late effect of a jump out of a try body, and only on the thread that    *)
(* jumped: whatever the others did before, no step of a careful thread,    *)
(* nor of a careless one whose chain is still intact, is undefined.        *)
(***************************************************************************)
UndefinedNeedsBrokenChain ==
    [][\A t \in Threads :
        Step(t) /\ outcome' = "undefined" => t \in Careless /\ ~ ChainIntact(t)]_vars

(***************************************************************************)
(* Every exception lands: a thread that is looking for a handler reaches a *)
(* catch body, unless the process ends first.                              *)
(***************************************************************************)
EveryThrowLands ==
    \A t \in Threads :
        Dispatching(t) ~>
            (outcome # "running" \/ (blocks[t] # <<>> /\ Top(t).phase = "catch"))

-----------------------------------------------------------------------------
(***************************************************************************)
(* The chain implements the promise of Exceptions: the stack of scopes is  *)
(* the stack of blocks, as it was at the throw while a thread dispatches.  *)
(***************************************************************************)
InFlight(t) == blocks[t] # <<>> /\ Top(t).phase = "dispatch"

ScopesOf(bs) ==
    [d \in DOMAIN bs |->
        [catches |-> bs[d].catches, clause |-> bs[d].clause, object |-> bs[d].thrown]]

Promise == INSTANCE Exceptions WITH
    scopes   <- [t \in Threads |-> ScopesOf(IF InFlight(t) THEN raised[t] ELSE blocks[t])],
    inFlight <- [t \in Threads |-> IF InFlight(t) THEN Top(t).thrown ELSE Null]

(* Every behaviour of the chain of contexts is one of Exceptions, in what  *)
(* each catch body receives, in how the process ends and in its liveness.  *)
ImplementsExceptions == Promise!Spec
=============================================================================
