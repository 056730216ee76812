----------------------------- MODULE HookRegistry -----------------------------
(***************************************************************************)
(* How a call of a JavaScript function finds its Dart handler.             *)
(*                                                                         *)
(* createNewFunction gives each handler an id, enters it in the process    *)
(* wide dartHandlerMap and installs a native function object that carries  *)
(* the id.  JavaScript may keep, move, overwrite and delete such functions *)
(* like any other value, and call them with any number of arguments, long  *)
(* after the property they were installed under holds something else.      *)
(***************************************************************************)
EXTENDS Naturals

CONSTANTS
    Handlers,       \* Dart handlers of the application
    Console,        \* the handler of __console_write
    NoHandler,      \* null
    Async,          \* the handlers declared async
    ReadsArgs,      \* the handlers that index args without a null check
    Properties,     \* (object, name) pairs a function can be installed at
    ConsoleProp,    \* the global property __console_write
    MaxFunctions    \* bound: functions created

ASSUME HandlersAssumption ==
    /\ Console \notin Handlers /\ NoHandler \notin Handlers \cup {Console}
    /\ Async \subseteq Handlers /\ ReadsArgs \subseteq Handlers
ASSUME PropertiesAssumption == ConsoleProp \in Properties
ASSUME MaxFunctionsAssumption == MaxFunctions \in Nat \ {0}

Functions == 1 .. MaxFunctions
NoFunction == 0
AnyHandler == Handlers \cup {Console}

VARIABLES
    instance,       \* has the engine been created?
    registered,     \* dart_callback_ != nullptr
    nextId,         \* _nextFuncHandlerId, 0 for null
    handlerMap,     \* dartHandlerMap
    created,        \* number of function objects created
    funcData,       \* the id stored in a function object
    property,       \* the function a property holds
    kept,           \* functions JavaScript holds in variables
    madeFor,        \* history: the handler a function was created for
    outcome         \* of the last call: what the call did

hookVars == <<instance, registered, nextId, handlerMap, created, funcData,
              property, kept, madeFor, outcome>>

Results == {"none", "returned", "rejected", "aborted", "crashed"}
NoCall == [fn |-> NoFunction, argc |-> 0, fits |-> TRUE, ran |-> NoHandler,
           result |-> "none"]

HooksTypeOK ==
    /\ instance \in BOOLEAN /\ registered \in BOOLEAN
    /\ nextId \in Nat /\ created \in 0 .. MaxFunctions
    /\ handlerMap \in [Functions -> AnyHandler \cup {NoHandler}]
    /\ funcData \in [Functions -> Functions \cup {0}]
    /\ \A f \in 1 .. created : funcData[f] \in Functions
    /\ property \in [Properties -> Functions \cup {NoFunction}]
    /\ kept \subseteq Functions
    /\ madeFor \in [Functions -> AnyHandler \cup {NoHandler}]
    /\ outcome \in [fn : Functions \cup {NoFunction}, argc : Nat, fits : BOOLEAN,
                    ran : AnyHandler \cup {NoHandler}, result : Results]

HooksInit ==
    /\ instance = FALSE /\ registered = FALSE /\ nextId = 0 /\ created = 0
    /\ handlerMap = [i \in Functions |-> NoHandler]
    /\ funcData = [f \in Functions |-> 0]
    /\ property = [x \in Properties |-> NoFunction]
    /\ kept = {}
    /\ madeFor = [f \in Functions |-> NoHandler]
    /\ outcome = NoCall

Alive == instance /\ outcome.result \notin {"aborted", "crashed"}

-----------------------------------------------------------------------------
(* Creating functions. *)

\* Mutant: the id is not incremented for a property that has a function.
InstallReusesId(handler, x) ==
    LET id == IF property[x] # NoFunction THEN funcData[property[x]] ELSE nextId + 1
        f == created + 1
    IN /\ created < MaxFunctions
       /\ nextId' = IF property[x] # NoFunction THEN nextId ELSE id
       /\ handlerMap' = [handlerMap EXCEPT ![id] = handler]
       /\ created' = f
       /\ funcData' = [funcData EXCEPT ![f] = id]
       /\ property' = [property EXCEPT ![x] = f]
       /\ madeFor' = [madeFor EXCEPT ![f] = handler]

\* createNewFunction: the id is incremented first, the map keeps an entry it
\* already has (putIfAbsent), and installDartHook defines the property.
Install(handler, x) ==
    LET id == nextId + 1
        f == created + 1
    IN /\ created < MaxFunctions
       /\ nextId' = id
       /\ handlerMap' = [handlerMap EXCEPT ![id] =
                           IF @ = NoHandler THEN handler ELSE @]
       /\ created' = f
       /\ funcData' = [funcData EXCEPT ![f] = id]
       /\ property' = [property EXCEPT ![x] = f]
       /\ madeFor' = [madeFor EXCEPT ![f] = handler]

SetGlobalConsole == Install(Console, ConsoleProp)

\* JSEngine(): init registers the native callback and installs the console.
NewEngine ==
    /\ ~instance
    /\ instance' = TRUE /\ registered' = TRUE
    /\ SetGlobalConsole
    /\ UNCHANGED <<kept, outcome>>

\* init called once more by the application.
InitAgain ==
    /\ Alive
    /\ registered' = TRUE
    /\ SetGlobalConsole
    /\ UNCHANGED <<instance, kept, outcome>>

\* createNewFunction, JSValue.addCallback, or a handler inside a Map or List
\* given to toJSVal.
CreateNewFunction(handler, x) ==
    /\ Alive
    /\ Install(handler, x)
    /\ UNCHANGED <<instance, registered, kept, outcome>>

-----------------------------------------------------------------------------
(* JavaScript. *)

Reachable == (kept \cup {property[x] : x \in Properties}) \ {NoFunction}

\* A variable keeps the function a property holds.
JSKeep(x) ==
    /\ Alive /\ property[x] # NoFunction
    /\ kept' = kept \cup {property[x]}
    /\ UNCHANGED <<instance, registered, nextId, handlerMap, created, funcData,
                   property, madeFor, outcome>>

\* A kept function is assigned to a property, which is writable.
JSAssign(f, x) ==
    /\ Alive /\ f \in kept
    /\ property' = [property EXCEPT ![x] = f]
    /\ UNCHANGED <<instance, registered, nextId, handlerMap, created, funcData,
                   kept, madeFor, outcome>>

\* delete on a property, which is configurable.
JSDelete(x) ==
    /\ Alive
    /\ property' = [property EXCEPT ![x] = NoFunction]
    /\ UNCHANGED <<instance, registered, nextId, handlerMap, created, funcData,
                   kept, madeFor, outcome>>

\* callBackWrapper passes no list at all for a call without arguments.
Args(argc) == IF argc = 0 THEN "null" ELSE "list"

\* The end of a call of the handler: an async handler turns the exception
\* into a rejected Future; otherwise it leaves the native callback, which
\* then returns the null pointer that InvokeDartCallback reads. The
\* handler of the console indexes args too, casts what the first one converts
\* to to a String and prints the others as JSON: it throws as well when the
\* arguments do not fit, that is when one of them allows neither.
HandlerEnds(handler, argc, fits) ==
    LET throws == \/ handler \in ReadsArgs \cup {Console} /\ Args(argc) = "null"
                  \/ handler = Console /\ ~fits
    IN IF ~throws THEN "returned"
       ELSE IF handler \in Async THEN "rejected" ELSE "crashed"

\* Mutant: callBackWrapper dispatches on the newest id.
DispatchNewest(f) == handlerMap[nextId]

\* callBackWrapper looks the id of the function object up.
Dispatch(f) == handlerMap[funcData[f]]

\* InvokeDartCallback
JSCall(f, argc, fits) ==
    /\ Alive /\ f \in Reachable
    /\ LET handler == Dispatch(f)
       IN outcome' =
            [fn |-> f, argc |-> argc, fits |-> fits, ran |-> handler,
             result |-> IF ~registered THEN "aborted"
                        ELSE IF handler = NoHandler THEN "crashed"
                        ELSE HandlerEnds(handler, argc, fits)]
    /\ UNCHANGED <<instance, registered, nextId, handlerMap, created, funcData,
                   property, kept, madeFor>>

HooksNext ==
    \/ NewEngine
    \/ InitAgain
    \/ \E handler \in Handlers, x \in Properties : CreateNewFunction(handler, x)
    \/ \E x \in Properties : JSKeep(x)
    \/ \E f \in Functions, x \in Properties : JSAssign(f, x)
    \/ \E x \in Properties : JSDelete(x)
    \/ \E f \in Functions, argc \in 0 .. 2, fits \in BOOLEAN : JSCall(f, argc, fits)

HooksSpec == HooksInit /\ [][HooksNext]_hookVars

-----------------------------------------------------------------------------
(* Correctness. *)

\* engine.dart: a function object reaches the handler it was created for and
\* no other, whatever was installed, overwritten, moved or deleted since.
CallsOwnHandler ==
    outcome.fn # NoFunction => outcome.ran = madeFor[outcome.fn]

\* engine.dart: a handler stays registered for as long as JavaScript may
\* call its function, and is never replaced.
HandlersStay ==
    [][\A f \in Functions : madeFor[f] # NoHandler =>
          /\ handlerMap[funcData[f]] # NoHandler
          /\ handlerMap'[funcData'[f]] = handlerMap[funcData[f]]]_hookVars

\* InvokeDartCallback never meets an unset callback or an unknown id: the
\* process dies only inside the handler of the function that was called, when
\* that is not async and reads the arguments of a call that has none, or is
\* the console's and was given arguments it can not print.
DiesOnlyInItsHandler ==
    outcome.result \in {"aborted", "crashed"} =>
        /\ outcome.result = "crashed"
        /\ \/ outcome.ran \in (ReadsArgs \cup {Console}) \ Async /\ outcome.argc = 0
           \/ outcome.ran = Console /\ ~outcome.fits
=============================================================================
