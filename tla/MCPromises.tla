------------------------------ MODULE MCPromises ------------------------------
(***************************************************************************)
(* Promises, the functions and generators built on them, and the protocol  *)
(* of generators and iterators, side by side.  A behaviour exercises one   *)
(* of them, and the variables of the others stay as they are.  Promises,   *)
(* combinators, async functions and async generators share the heap of     *)
(* promises and its job list; each is given the operations and bounds that *)
(* concern it.                                                             *)
(***************************************************************************)
EXTENDS AsyncFunctions, Generators, IteratorProtocol

VARIABLES
    unit,                                       \* what is exercised
    combs,                                      \* of combinators
    gen, requests, answers                      \* of async generators

Fin == INSTANCE Promises WITH MaxPromises <- 7, MaxOps <- 3, MaxDepth <- 1,
            UserKinds <- {"prim", "plain", "promise"},
            Ops <- {"static", "finally", "then"}
Comb == INSTANCE PromiseCombinators WITH MaxPromises <- 6, MaxOps <- 5,
            MaxDepth <- 1, UserKinds <- {"prim"}, Ops <- {"new", "call"},
            Calls <- {"all", "allSettled", "any", "race"}, MaxItems <- 2,
            MaxCombs <- 1
Async == INSTANCE AsyncFunctions WITH MaxPromises <- 4, MaxOps <- 5,
            MaxDepth <- 2, UserKinds <- {"prim", "promise"},
            Ops <- {"new", "call", "async"}, MaxFunctions <- 2
AGen == INSTANCE AsyncGenerators WITH MaxPromises <- 6, MaxOps <- 4,
            MaxDepth <- 2, UserKinds <- {"prim", "promise"},
            Ops <- {"gen", "static"}, MaxRequests <- 3

combVars == <<combs>>
asyncVars == <<afs, hist>>
agenVars == <<gen, requests, answers>>
allVars == <<unit, vars, combVars, asyncVars, agenVars, genVars, iterVars>>

Parked == "parked"

CombParked == combs = Parked
AsyncParked == afs = <<>> /\ hist = <<>>
AGenParked == gen = Parked /\ requests = Parked /\ answers = Parked
GenParked == GenInit /\ methods = {}
IterParked == IterInit

MCInit ==
    \/ /\ unit \in {"promises", "finally"} /\ Init
       /\ CombParked /\ AsyncParked /\ AGenParked /\ GenParked /\ IterParked
    \/ /\ unit = "combinators" /\ Comb!CInit
       /\ AsyncParked /\ AGenParked /\ GenParked /\ IterParked
    \/ /\ unit = "async" /\ Async!AInit
       /\ CombParked /\ AGenParked /\ GenParked /\ IterParked
    \/ /\ unit = "async generators" /\ AGen!GInit
       /\ CombParked /\ AsyncParked /\ GenParked /\ IterParked
    \/ /\ unit = "generators" /\ Init /\ GenInit
       /\ CombParked /\ AsyncParked /\ AGenParked /\ IterParked
    \/ /\ unit = "iterators" /\ Init /\ IterInit
       /\ CombParked /\ AsyncParked /\ AGenParked /\ GenParked

MCNext ==
    \/ /\ unit = "promises" /\ Next
       /\ UNCHANGED <<unit, combVars, asyncVars, agenVars, genVars, iterVars>>
    \/ /\ unit = "finally" /\ Fin!Next
       /\ UNCHANGED <<unit, combVars, asyncVars, agenVars, genVars, iterVars>>
    \/ /\ unit = "combinators" /\ Comb!CNext
       /\ UNCHANGED <<unit, asyncVars, agenVars, genVars, iterVars>>
    \/ /\ unit = "async" /\ Async!ANext
       /\ UNCHANGED <<unit, combVars, agenVars, genVars, iterVars>>
    \/ /\ unit = "async generators" /\ AGen!GNext
       /\ UNCHANGED <<unit, combVars, asyncVars, genVars, iterVars>>
    \/ /\ unit = "generators" /\ GenNext
       /\ UNCHANGED <<unit, vars, combVars, asyncVars, agenVars, iterVars>>
    \/ /\ unit = "iterators" /\ IterNext
       /\ UNCHANGED <<unit, vars, combVars, asyncVars, agenVars, genVars>>

MCSpec == MCInit /\ [][MCNext]_allVars

-----------------------------------------------------------------------------
(* Correctness. *)

\* js_promise_all and js_promise_race: when all jobs have run, the promise of
\* each combinator has the outcome that its items call for, each value at the
\* index of its item, and what was delivered does not change any more.
CombinesAsLanguage ==
    /\ [](unit = "combinators" => Comb!CombinatorOutcome)
    /\ [][unit = "combinators" => Comb!DeliveredValuesStay]_allVars

\* js_async_generator_resume_next: while a request is served, exactly one
\* frame, job or reaction continues the generator, unless the constructor of an
\* awaited promise could not be read, which stops it for good; requests are
\* answered in order, none is left over at a yield, nor at the end unless it
\* was made while another one waited; and the assertions of the code hold.
ServesInOrder ==
    unit = "async generators" =>
        /\ AGen!OneContinuation /\ AGen!AnsweredInOrder
        /\ AGen!OwesOnlyOverlapping /\ AGen!GeneratorAsserts
=============================================================================
