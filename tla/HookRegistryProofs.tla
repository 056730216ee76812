-------------------------- MODULE HookRegistryProofs --------------------------
(***************************************************************************)
(* Proofs about HookRegistry, for every value of its constants.            *)
(*                                                                         *)
(* The invariant that makes dispatch right is Numbered: ids and function   *)
(* objects are handed out together, so putIfAbsent never meets an entry.   *)
(***************************************************************************)
EXTENDS HookRegistry, TLAPS

\* The f-th function object carries id f, under which its handler is found.
Numbered ==
    /\ nextId = created
    /\ \A f \in Functions :
          IF f <= created
          THEN funcData[f] = f /\ handlerMap[f] = madeFor[f]
               /\ madeFor[f] # NoHandler
          ELSE handlerMap[f] = NoHandler /\ madeFor[f] = NoHandler

\* JavaScript holds only functions that have been created, and it has none
\* before the native callback is registered.
OnlyCreated ==
    /\ \A x \in Properties : property[x] <= created
    /\ \A f \in kept : f <= created
    /\ outcome.fn <= created
    /\ instance = registered

HInv == HooksTypeOK /\ Numbered /\ OnlyCreated

\* A reachable function has been created.
LEMMA ReachableCreated ==
    ASSUME HInv, NEW f \in Functions, f \in Reachable
    PROVE  f <= created
BY DEF HInv, OnlyCreated, Reachable

\* Installing a function keeps the invariant.
LEMMA InstallStep ==
    ASSUME HInv, NEW handler \in AnyHandler, NEW x \in Properties,
           Install(handler, x), UNCHANGED <<kept, outcome>>,
           instance' = TRUE, registered' = TRUE
    PROVE  HInv' /\ (CallsOwnHandler => CallsOwnHandler')
<1> USE HandlersAssumption, MaxFunctionsAssumption
<1> DEFINE f == created + 1
<1>1. /\ created \in Nat /\ f \in Functions /\ created' = f /\ nextId' = f
      /\ funcData' = [funcData EXCEPT ![f] = f]
      /\ property' = [property EXCEPT ![x] = f]
      /\ madeFor' = [madeFor EXCEPT ![f] = handler]
      /\ handlerMap[f] = NoHandler
  BY DEF HInv, HooksTypeOK, Numbered, Install, Functions
<1>2. handlerMap' = [handlerMap EXCEPT ![f] = handler]
  <2>1. handlerMap' = [handlerMap EXCEPT ![f] =
                         IF handlerMap[f] = NoHandler THEN handler ELSE handlerMap[f]]
    BY DEF Install, HInv, Numbered
  <2> QED
    BY <1>1, <2>1
<1>3. handler # NoHandler
  BY DEF AnyHandler
<1> HIDE DEF f
<1>4. HooksTypeOK'
  <2>1. created' \in 0 .. MaxFunctions /\ nextId' \in Nat
    BY <1>1 DEF Functions
  <2>2. /\ handlerMap' \in [Functions -> AnyHandler \cup {NoHandler}]
        /\ funcData' \in [Functions -> Functions \cup {0}]
        /\ property' \in [Properties -> Functions \cup {NoFunction}]
        /\ madeFor' \in [Functions -> AnyHandler \cup {NoHandler}]
    BY <1>1, <1>2 DEF HInv, HooksTypeOK
  <2>3. \A g \in 1 .. created' : funcData'[g] \in Functions
    BY <1>1 DEF HInv, HooksTypeOK, Functions, f
  <2> QED
    BY <2>1, <2>2, <2>3 DEF HInv, HooksTypeOK
<1>5. Numbered'
  BY <1>1, <1>2, <1>3 DEF HInv, HooksTypeOK, Numbered, Functions, f
<1>6. OnlyCreated'
  <2>1. \A y \in Properties : property'[y] <= created'
    BY <1>1 DEF HInv, HooksTypeOK, OnlyCreated, Functions, NoFunction, f
  <2>2. \A g \in kept' : g <= created'
    BY <1>1 DEF HInv, HooksTypeOK, OnlyCreated, Functions, f
  <2>3. outcome'.fn <= created'
    BY <1>1 DEF HInv, HooksTypeOK, OnlyCreated, Functions, NoFunction, f
  <2> QED
    BY <2>1, <2>2, <2>3 DEF OnlyCreated
<1>7. CallsOwnHandler => CallsOwnHandler'
  <2>1. outcome.fn # NoFunction => outcome.fn \in Functions /\ outcome.fn # f
    BY <1>1 DEF HInv, HooksTypeOK, OnlyCreated, Functions, f
  <2> QED
    BY <1>1, <2>1 DEF CallsOwnHandler, HInv, HooksTypeOK
<1> QED
  BY <1>4, <1>5, <1>6, <1>7 DEF HInv

\* Every step keeps the invariant and dispatches right.
LEMMA HooksStep ==
    ASSUME HInv, CallsOwnHandler, DiesOnlyInItsHandler, [HooksNext]_hookVars
    PROVE  HInv' /\ CallsOwnHandler' /\ DiesOnlyInItsHandler'
<1> USE HandlersAssumption, PropertiesAssumption
<1>1. CASE UNCHANGED hookVars
  BY <1>1 DEF hookVars, HInv, HooksTypeOK, Numbered, OnlyCreated, CallsOwnHandler,
              DiesOnlyInItsHandler
<1>2. CASE NewEngine \/ InitAgain
  <2>1. /\ Install(Console, ConsoleProp) /\ UNCHANGED <<kept, outcome>>
        /\ instance' = TRUE /\ registered' = TRUE
    BY <1>2 DEF NewEngine, InitAgain, SetGlobalConsole, Alive
  <2> QED
    BY <2>1, InstallStep DEF AnyHandler, DiesOnlyInItsHandler
<1>3. ASSUME NEW handler \in Handlers, NEW x \in Properties,
             CreateNewFunction(handler, x)
      PROVE  HInv' /\ CallsOwnHandler' /\ DiesOnlyInItsHandler'
  <2>1. /\ Install(handler, x) /\ UNCHANGED <<kept, outcome>>
        /\ instance' = TRUE /\ registered' = TRUE
    BY <1>3 DEF CreateNewFunction, Alive, HInv, OnlyCreated, HooksTypeOK
  <2> QED
    BY <2>1, InstallStep DEF AnyHandler, DiesOnlyInItsHandler
<1>4. ASSUME NEW x \in Properties, JSKeep(x)
      PROVE  HInv' /\ CallsOwnHandler' /\ DiesOnlyInItsHandler'
  BY <1>4 DEF JSKeep, HInv, HooksTypeOK, Numbered, OnlyCreated, CallsOwnHandler,
              DiesOnlyInItsHandler, NoFunction
<1>5. ASSUME NEW f \in Functions, NEW x \in Properties, JSAssign(f, x)
      PROVE  HInv' /\ CallsOwnHandler' /\ DiesOnlyInItsHandler'
  BY <1>5 DEF JSAssign, HInv, HooksTypeOK, Numbered, OnlyCreated, CallsOwnHandler,
              DiesOnlyInItsHandler
<1>6. ASSUME NEW x \in Properties, JSDelete(x)
      PROVE  HInv' /\ CallsOwnHandler' /\ DiesOnlyInItsHandler'
  BY <1>6 DEF JSDelete, HInv, HooksTypeOK, Numbered, OnlyCreated, CallsOwnHandler,
              DiesOnlyInItsHandler, NoFunction
<1>7. ASSUME NEW f \in Functions, NEW argc \in 0 .. 2, NEW fits \in BOOLEAN,
             JSCall(f, argc, fits)
      PROVE  HInv' /\ CallsOwnHandler' /\ DiesOnlyInItsHandler'
  <2> DEFINE h == madeFor[f]
             r == HandlerEnds(h, argc, fits)
  <2>1. f <= created
    BY <1>7, ReachableCreated DEF JSCall
  <2>2. Dispatch(f) = h /\ h # NoHandler /\ h \in AnyHandler
    BY <2>1 DEF Dispatch, HInv, Numbered, HooksTypeOK
  <2>3. registered
    BY <1>7 DEF JSCall, Alive, HInv, OnlyCreated
  <2>4. outcome' = [fn |-> f, argc |-> argc, fits |-> fits, ran |-> h,
                   result |-> r]
    BY <1>7, <2>2, <2>3 DEF JSCall
  <2>5. r \in Results /\ r # "aborted"
    BY DEF HandlerEnds, Results
  <2>6. r = "crashed" => \/ h \in (ReadsArgs \cup {Console}) \ Async /\ argc = 0
                         \/ h = Console /\ ~fits
    BY DEF HandlerEnds, Args
  <2> HIDE DEF h, r
  <2>7. HInv'
    <3>1. HooksTypeOK'
      BY <1>7, <2>2, <2>4, <2>5 DEF JSCall, HInv, HooksTypeOK
    <3>2. Numbered' /\ OnlyCreated'
      BY <1>7, <2>1, <2>4 DEF JSCall, HInv, Numbered, OnlyCreated
    <3> QED
      BY <3>1, <3>2 DEF HInv
  <2>8. CallsOwnHandler'
    BY <1>7, <2>4 DEF JSCall, CallsOwnHandler, h
  <2>9. DiesOnlyInItsHandler'
    BY <2>4, <2>5, <2>6 DEF DiesOnlyInItsHandler
  <2> QED
    BY <2>7, <2>8, <2>9
<1> QED
  BY <1>1, <1>2, <1>3, <1>4, <1>5, <1>6, <1>7 DEF HooksNext

\* The invariant and the two dispatch properties hold initially.
LEMMA HooksStart ==
    HooksInit => HInv /\ CallsOwnHandler /\ DiesOnlyInItsHandler
<1> SUFFICES ASSUME HooksInit
             PROVE  HInv /\ CallsOwnHandler /\ DiesOnlyInItsHandler
  OBVIOUS
<1>1. /\ outcome.fn = NoFunction /\ outcome.result = "none"
      /\ outcome \in [fn : Functions \cup {NoFunction}, argc : Nat, fits : BOOLEAN,
                      ran : AnyHandler \cup {NoHandler}, result : Results]
  BY DEF HooksInit, NoCall, Results
<1>2. HooksTypeOK
  <2>1. instance \in BOOLEAN /\ registered \in BOOLEAN
    BY Zenon DEF HooksInit
  <2>2. /\ handlerMap \in [Functions -> AnyHandler \cup {NoHandler}]
        /\ funcData \in [Functions -> Functions \cup {0}]
        /\ property \in [Properties -> Functions \cup {NoFunction}]
        /\ madeFor \in [Functions -> AnyHandler \cup {NoHandler}]
    BY DEF HooksInit
  <2>3. /\ nextId \in Nat /\ created \in 0 .. MaxFunctions /\ kept \subseteq Functions
        /\ \A f \in 1 .. created : funcData[f] \in Functions
    BY MaxFunctionsAssumption DEF HooksInit
  <2> QED
    BY <1>1, <2>1, <2>2, <2>3 DEF HooksTypeOK
<1>3. Numbered
  BY DEF HooksInit, Numbered, Functions
<1>4. OnlyCreated
  <2>1. instance = registered
    BY Zenon DEF HooksInit
  <2>2. /\ \A x \in Properties : property[x] <= created
        /\ \A f \in kept : f <= created
        /\ outcome.fn <= created
    BY <1>1 DEF HooksInit, NoFunction
  <2> QED
    BY <2>1, <2>2 DEF OnlyCreated
<1> QED
  BY <1>1, <1>2, <1>3, <1>4 DEF HInv, CallsOwnHandler, DiesOnlyInItsHandler

\* All three are invariant.
LEMMA HooksInductive ==
    HooksSpec => [](HInv /\ CallsOwnHandler /\ DiesOnlyInItsHandler)
<1> DEFINE I == HInv /\ CallsOwnHandler /\ DiesOnlyInItsHandler
<1>1. HooksInit => I
  BY HooksStart
<1>2. I /\ [HooksNext]_hookVars => I'
  BY HooksStep
<1> HIDE DEF I
<1>3. HooksSpec => []I
  BY <1>1, <1>2, PTL DEF HooksSpec
<1> QED
  BY <1>3 DEF I

\* engine.dart: a function object always reaches the handler it was created
\* for (HookRegistry!CallsOwnHandler).
THEOREM DispatchIsRight == HooksSpec => []CallsOwnHandler
BY HooksInductive, PTL

\* quickjs-ffi.cpp: a hook call never meets an unset callback or an unknown
\* id: the process dies only in the handler that was called for, when it is
\* not async and was given no arguments or, the console's, unfit ones
\* (HookRegistry!DiesOnlyInItsHandler).
THEOREM DispatchNeverFails == HooksSpec => []DiesOnlyInItsHandler
BY HooksInductive, PTL

\* A step changes no entry of the map that a function object refers to.
LEMMA HandlersKept ==
    ASSUME HInv, [HooksNext]_hookVars, NEW f \in Functions,
           madeFor[f] # NoHandler
    PROVE  /\ handlerMap[funcData[f]] # NoHandler
           /\ handlerMap'[funcData'[f]] = handlerMap[funcData[f]]
<1>1. f <= created /\ funcData[f] = f /\ handlerMap[f] = madeFor[f]
  BY DEF HInv, Numbered
<1>2. UNCHANGED <<handlerMap, funcData>>
      \/ \E handler \in AnyHandler, x \in Properties : Install(handler, x)
  BY PropertiesAssumption
     DEF HooksNext, hookVars, NewEngine, InitAgain, SetGlobalConsole, AnyHandler,
         CreateNewFunction, JSKeep, JSAssign, JSDelete, JSCall
<1>3. ASSUME NEW handler \in AnyHandler, NEW x \in Properties, Install(handler, x)
      PROVE  handlerMap'[funcData'[f]] = handlerMap[funcData[f]]
  <2>1. created + 1 \in Functions /\ f # created + 1 /\ nextId + 1 = created + 1
    BY <1>1, <1>3, MaxFunctionsAssumption
       DEF Install, HInv, HooksTypeOK, Numbered, Functions
  <2>2. funcData'[f] = funcData[f] /\ handlerMap'[f] = handlerMap[f]
    BY <1>3, <2>1 DEF Install, HInv, HooksTypeOK
  <2> QED
    BY <1>1, <2>2
<1> QED
  BY <1>1, <1>2, <1>3

\* engine.dart: a handler stays registered, under the id that its function
\* object carries, for as long as the process runs (HookRegistry!HandlersStay).
THEOREM HandlersNeverLeave == HooksSpec => HandlersStay
<1> DEFINE A == \A f \in Functions : madeFor[f] # NoHandler =>
                   /\ handlerMap[funcData[f]] # NoHandler
                   /\ handlerMap'[funcData'[f]] = handlerMap[funcData[f]]
<1>1. HInv /\ [HooksNext]_hookVars => [A]_hookVars
  BY HandlersKept
<1>2. HooksSpec => []HInv
  BY HooksInductive, PTL
<1> HIDE DEF A
<1>3. HooksSpec => [][A]_hookVars
  BY <1>1, <1>2, PTL DEF HooksSpec
<1> QED
  BY <1>3 DEF HandlersStay, A
=============================================================================
