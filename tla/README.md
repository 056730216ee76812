# quickjs_dart in TLA+

TLA+ specifications of quickjs_dart, a Dart binding of the QuickJS JavaScript
engine, and of the engine it carries: what is modelled, what TLC checks about it
on small instances, and what TLAPS proves for every instance. Paths are relative
to the repository, whose root is `src/`.

## 1. The system

The library proper:

| Part | State it keeps | Operations | Source |
|---|---|---|---|
| Engine | the singleton, runtime and context pointers | `JSEngine()`, `evalScript`, `loop`, `donePendingJobs`, `stop` | `lib/wrapper/engine.dart` |
| Callback bridge | a `createPromise()` object for each outstanding Future | `wrapperFunc`, its `then` and `catchError` callbacks | `lib/wrapper/function.dart` |
| Hook registry | `dartHandlerMap`, the next id, the registered callback, the id inside each function object | `createNewFunction`, `installDartHook`, `callBackWrapper`, `InvokeDartCallback` | `engine.dart`, `cpp/src/quickjs-ffi.cpp` |
| Job driver | none of its own | `executePendingJob`, `isJobPending` | `quickjs-ffi.cpp` |
| Wrapper class | a pointer, a context, `_isFreed` | properties, calls, `copy`, `free` | `lib/wrapper/value.dart` |
| Conversions | none | `toJSVal`, `createJSArray`, `createJSObject`, `fromJSVal` | `engine.dart`, `value.dart` |
| Texts | none | `toArray`, `trimQuote`, hexadecimal texts | `lib/wrapper/util.dart`, `extensions.dart` |
| Bindings | none | one declaration for each native symbol | `lib/bindings/*.dart` |
| Interrupt handler | the bound callback and the counter | `runtimeEnableInterruptHandler`, `js_poll_interrupts` | `quickjs-ffi.cpp`, `quickjs.c` |

The engine (`cpp/src/quickjs/`), which the library compiles and ships:

| Part | State it keeps | Source |
|---|---|---|
| Promises, async functions, async generators, generators, iterators | promises, reactions, the job list, suspended frames, request queues | `quickjs.c` |
| Memory | reference counts, lists of the cycle collector, the atom table, shapes, records of maps | `quickjs.c` |
| Objects | properties in two representations, proxies, array methods | `quickjs.c` |
| Modules | definitions, their requests, exports and state | `quickjs.c`, the loader of `quickjs-libc.c` |
| Compiler and interpreter | byte code, frames, closures, the operand stack | `quickjs.c` |
| Operators and conversions | none | `quickjs.c` |
| Texts | none, and the stack of the regular expression machine | `quickjs.c` (JSON), `libregexp.c` |
| Big numbers | none | `libbf.c` |

How the parts interact. Dart evaluates a script or calls a JavaScript function;
JavaScript calls a function object that carries a handler id; the native side
calls back into the one Dart function pointer; `callBackWrapper` finds the
handler and runs it. If the handler returns a Future, JavaScript gets the
promise of a `createPromise()` object, and when the Future completes a callback
settles that promise, frees the object and runs `JSEngine.loop`, which executes
the jobs that settling has queued. Those jobs are JavaScript again and may call
hooks again.

There are no threads. What makes the system hard is
- the Dart event loop, which completes Futures in any order and between any two
  calls of the application, also after `stop()`;
- re-entrancy: JavaScript in Dart in JavaScript, where any handler may drain the
  job queue in the middle of a job; and in the engine, every conversion, trap,
  callback or iterator method runs a script in the middle of a native function;
- errors that cross the language border as values (a script), as null pointers
  (a handler) or as an early return (a job), and exceptions that leave several
  loops, blocks and iterators at once;
- manual reference counts, with calls that duplicate, calls that consume and
  wrappers that only borrow; structures that are edited while they are walked;
- representations chosen for speed (ints beside doubles, vectors beside lists of
  properties, shared shapes, limbs) that a program must not be able to notice.

What makes each part correct is listed with the runs in section 3; the places
where it could go wrong are the hazards of `PROJECT.json`.

## 2. The modules

Modules of the library and of the asynchronous core:

| Module | Models |
|---|---|
| `AsyncCalls` | what asynchronous calls promise to JavaScript, abstractly |
| `JSEngine` | engine, callback bridge, job driver, promises and jobs as the Dart side sees them; implements `AsyncCalls` |
| `JSEngineProofs` | the proofs about it |
| `HookRegistry`, `HookRegistryProofs` | ids, handlers, function objects, hook calls; the proofs |
| `JSValueRefs`, `JSValueRefsProofs` | references to objects and who owns them; the proofs |
| `Conversions` | values crossing between Dart and JavaScript |
| `Encoding` | texts turned into bytes and back |
| `Interrupts` | the interrupt counter, its handler, the error that no script is to catch |

Modules of QuickJS:

| Module | Models |
|---|---|
| `Promises`, `PromisesProofs`, `PromiseOutcomes` | resolving functions, thenables, reactions, `then`, `catch`, `finally` and the jobs they queue; the proofs |
| `PromiseCombinators` | `all`, `allSettled`, `any`, `race` on that heap |
| `AsyncFunctions`, `AsyncGenerators` | `await`, and the request queue of an async generator, on that heap |
| `Generators` | one generator object and everybody who calls it, `yield*` included |
| `IteratorProtocol` | who closes an iterator, in loops and in native consumers |
| `CycleGC` | reference counts, the list of zero counts, the three phases of `JS_RunGC`, one list element a step |
| `Atoms` | the atom table with its chains and free list |
| `Shapes`, `PlainObjects` | shared hidden classes, and the plain objects they implement |
| `MapRecords` | records of maps and sets under iterators and `forEach` |
| `ObjectProperties` | defining, setting and deleting properties, beside the algorithms of ECMA-262 |
| `Proxies` | traps, the checks of their answers, and what a program has been told |
| `ArrayMethods` | methods that move, copy, search and sort |
| `Modules`, `ModuleExports` | loading, linking, running and freeing; resolution of exported names |
| `Scopes` | declarations, resolution of names, closures, `with`, direct eval |
| `Statements`, `Expressions` | byte code of statements and of expressions, and the machine that runs it |
| `ValueConversions`, `Operators` | conversions, and the operators in the builds with and without bigints |
| `JSON` | parsing, revivers, printing, replacers, and the reader of the Dart side |
| `RegExpMatch` | code generation and the backtracking machine of libregexp |
| `Limbs`, `BigFloat`, `BigDecimal` | arrays of limbs, binary and decimal numbers of libbf |
| `Rounding`, `BigFloatArithmetic`, `DecimalArithmetic` | what rounding means; calls of libbf against exact arithmetic |

Benches. `MCRuntime`, `MCPromises`, `MCObjects`, `MCText` and `MCCompiler` put
components side by side so that one run checks several. The components of a
bench share no state (those of `MCPromises` that share the heap of promises are
never active together): the variable `unit`, chosen in the initial state, says
which one a behaviour exercises, and the variables of the others are parked at
one value. The reachable states are therefore those of the components, one set
beside the other, and a property of a bench that starts with
`unit = "..." =>` says of the component exactly what its own definitions say.
Bounds that differ between components are given where the bench instantiates
them. Components with theorems about a property of a run are extended, not
instantiated (`Interrupts` in `MCRuntime`; `AsyncFunctions`, which extends
`Promises`, `Generators` and `IteratorProtocol` in `MCPromises`): the run and the
theorem speak of the same definition.

The map of `PROJECT.json` names the definitions that stand for code. A helper
whose lines a mapped definition already names has no entry of its own.

Definitions whose comment starts with "Mutant:" are wrong on purpose: each is a
plausible bug of the definition it stands before, used to show that a property
notices it. They are part of no specification.

### JSEngine

The state has the engine (`instance`, the context's reference count `ctxRefs`,
`rtFreed`, `stops`), the call stack of the isolate (`stack`, frames of kind
script, handler, job and drain), the promises (`promise`, `reactions`,
`parent`), the job list (`jobs`), and for each promise made for a hook the
Future behind it (`future`) and the references Dart holds on its
`createPromise()` object (`cap`). `enq`, `ran` and `late` are history variables.

A promise made by `p.then(f)` stands for its reaction: job `q` calls the handler
that was registered and then settles `q`. One action is one operation or one
step of a drain: `executePendingJob` is `DrainJob` (take the first job),
`JobReturn` or `JobRaise` (the job ends), and `DrainEnd` (limit reached or queue
empty), because JavaScript code runs in between. The Future callbacks are each
one step up to their call of `loop`, which pushes a drain frame if a job is
pending. `FutureDone` takes one of four outcomes; two of them (an unsupported
value and a `JSValue`) make the conversion in the then callback throw, so that
`catchError` runs. `LoopReturns` also says what would happen if
`donePendingJobs` threw: the code never does, and `NewPromiseFreedOnce` depends
on it. `HandlerThrow` ends the behaviour: the native callback returns a null
pointer, which `InvokeDartCallback` dereferences.

Thenables, values of promises and handlers that return promises are left to
`Promises`, which models the same job list from the side of JavaScript.

### HookRegistry

Function objects, the id each carries, the map from ids to handlers, and the
properties and variables of JavaScript that hold functions. JavaScript keeps,
assigns, deletes and calls functions in any order; Dart installs new ones over
old ones and may call `init` again. `outcome` records what the last call did,
including the ways the process can die: an unset callback, an unknown id, and a
handler that throws, as the console functions do without arguments and with a
first argument that is no string (`engine.dart:119`, `:162`).

### JSValueRefs

A heap of objects with one property each, wrappers and their kind: owned, moved
(its reference was consumed by `setPropertyString` or `setPropertyValue`),
borrowed (an argument of the running hook call), stale (borrowed from a call
that is over). The model follows one discipline, which the class does not
enforce: Dart code frees or gives away only references that it owns, and uses
borrowed wrappers only during the call. Giving a reference back is `dropped`,
and `JS_FreeValue` handles one reference a step: it lowers the count, and when
that was the last one it frees the object and goes on with what its property
held. The other operations wait until that is over. The result of a hook call
belongs to the VM until `UseResult` stores or drops it. `leaked` counts the
references that the library takes and can never give back (`installDartHook`,
the elements of `createJSArray`), so that counts can be stated exactly. Cycles
stay allocated here: `CycleGC` models their collector.

### The other modules

Every module begins with what it models, what its state stands for and what it
leaves out. Three forms occur.

- Machines: state of the engine and one action per operation (`Promises` and
  what is built on it, `CycleGC`, `Atoms`, `Shapes`, `MapRecords`, `Interrupts`,
  `Generators`, `IteratorProtocol`, `ObjectProperties`, `Proxies`, `Modules`).
  The operators they are made of carry the names of the C functions.
- Compilers with a machine: an initial state is a program from a family of small
  ones, with its compiled code; a step is an opcode (`Statements`, `Expressions`,
  `Scopes`, `RegExpMatch`). What user code does at each event is chosen when it
  happens, and what the machine did is compared with a second definition, of the
  language.
- Pure functions: a behaviour is one call, chosen from a set of arguments,
  followed by its result (`Operators`, `JSON`, `BigFloatArithmetic`,
  `DecimalArithmetic`, `ModuleExports`). The property compares the result with a
  reference: exact integer arithmetic, the JSON grammar, reachability.

Widths are scaled where they matter, never dropped: ints of 4 bits and doubles
with a mantissa of 5 in `Operators`, 3, 4 and 6 bits for 32, 53 and 64 in
`Conversions`, limbs of 4 bits (8 for two decimal digits) in libbf, 2^7 for 2^32
in `Atoms`.

## 3. What TLC checks

Deadlock is checked in `operators`, `scopes`, `compiler`, `bigfloats` and
`decimals`, where it says that the machine never gets stuck before the program
has ended. In the other runs the system may rest: the application or the script
decides whether to call again, and bounds end the behaviours.

| Run | Module | Properties |
|---|---|---|
| `engine` | `JSEngine` | `PromiseFollowsFuture`: a hook's promise follows its Future. `QueueFIFO`: jobs start in the order they were queued. `ReactionQueuedOnce`: a reaction is queued once, when its promise settles or, if later, when it is registered. `NewPromiseFreedOnce`: the object of `createPromise()` is released once, whichever callback runs. `ImplementsAsyncCalls`: refinement. |
| `engine_library` | `JSEngine` | `NoReactionLeftBehind`: the loop at the end of each Future callback empties the queue. `JobsRunToCompletion`: no job in the middle of a script, handler or job. `AsyncResultDelivered` (liveness): a reaction on a hook's promise runs in the end. |
| `engine_runtime` | `JSEngine` | `RuntimeReleased`, violated: see section 4. |
| `runtime` | `MCRuntime` | `CallsOwnHandler`, `HandlersStay`: a function object reaches the handler it was made for, and handlers keep their ids. `RefCountExact`, `NoDanglingReference`: counts are the references held, nothing points to freed memory. `ValuesCross`, `TextsCross`: which values and texts arrive unchanged, and that no others do. `InterruptStops`: a script ends within the budget once the host wants it to. `HeapSound`: the collector frees exactly what is unreachable. `AtomsAgree`, `ObjectsAreTheirOwn`, `MapWalksAsLanguage`: the shared structures behave like unshared ones. |
| `promises` | `MCPromises` | `OneWayToSettle`, `OutcomesArrive`: promises settle once and pass on what they should. `CombinesAsLanguage`: combinators. `AwaitsOnce`, `ServesInOrder`: a suspended function is resumed once, requests are answered in order. `GeneratorRunsAlone`: the body never runs twice at once, and only calls from the inner iterator of a `yield*` make the code go on in a frame that moved. `IteratorsClosed`: every iterator left early is closed once. |
| `objects` | `MCObjects` | `PropertiesAsLanguage`, `ProxiesKeepInvariants`, `ArraysAsLanguage`: against ECMA-262. `ModulesRunInOrder`, `ExportsResolve`: graphs with faults and circles; no dangling request outside circles. |
| `operators` | `Operators` | `NumbersAsLanguage`, `ComparesAsLanguage`: both builds against exact arithmetic. |
| `scopes` | `Scopes` | `VariablesAsLanguage`: compiled accesses against environments. |
| `compiler` | `MCCompiler` | `CompletesAsLanguage`, `ExpressionsAsLanguage`: byte code against completion records and the order of evaluation. |
| `bigfloats`, `decimals` | `BigFloatArithmetic`, `DecimalArithmetic` | `BigFloatsExact`, `DecimalsExact`: every result is the exact one, rounded once; products in the mode of faithful rounding are off by less than two units, and a division of unlimited precision is refused exactly when the quotient does not fit the limbs it asks for. |
| `text` | `MCText` | `JSONAsLanguage`, `RegExpAsLanguage`: against the grammar and against the matchers of the language. |

A property that compares the code with a reference says what the code does on
every input of its family. Where that is not what the reference asks for, the
property names the case by a definition of its own and says that the code
departs there and, for most of them, nowhere else; section 4 lists all of them.
None of these inputs is left out of a run.

What the runs do not reach, although the code does:
`JobsRunToCompletion` and `AsyncResultDelivered` are checked without drains
started by handlers (`Reentrant` is false), which do run jobs inside jobs; in
the run `engine` they are allowed. `TextsCross` promises arrival for ASCII only.
`JSValueRefs` never uses the wrapper of an argument after its call. The closures
of `CombinesAsLanguage` run after the loop over the items, since the promises of
the model call nobody back while it lasts.

Why the bounds are enough.

- Engine: four promises allow two reactions on each of two promises, a chain of
  three, and reactions registered before and after settling. Two hook calls and
  depth 4 allow script, handler, drain, job: a drain inside a handler, and a
  Future that completes between the two calls. A limit of 1 separates a limited
  from an unlimited drain. `engine_library` has three promises, because the
  graph of states is needed as a whole for liveness.
- Bridge: two objects beside the global one are the shortest chain that is
  freed in a cascade, and three wrappers let two wrappers and a property hold
  one object. Three functions and two properties let one function be kept while
  another takes its place. Texts have up to four code units of six kinds.
- Memory: three cells (two values and one other) with up to three references
  make every cycle shape the collector distinguishes, including one held from outside through
  another; atoms start with a table of 6 entries and 2 chains, so that it grows
  and is rehashed; shapes start with room for one property, so that arrays,
  tables and shapes all grow; two iterators and two keys put two walkers on one
  record.
- Promises: four promises and four operations allow a promise that follows a
  thenable that follows a promise. Combinators have two items; async functions
  two instances at a time; async generators three requests.
- Objects: an array with two indices and lengths up to 4, in both
  representations under two prototypes, where arrays inherit read-only
  elements, which block both the fast and the slow way to add one, and
  ordinary objects inherit all kinds of properties; every object may be
  closed; traps answer with any value and with accessors, and a target may be
  a proxy. Three modules with at most two faults and two imports; two
  namespaces exported by name.
- Numbers: each range has values on both sides of every border the code tests.
  Limbs of 4 bits with the thresholds at 2 and 3 send arrays of a few limbs
  through the basecase and through the recursive methods.
- Programs: families of programs are listed in the modules (`Programs`,
  `Matches`). Statements have up to six events with a free outcome, expressions
  four: enough for an exception on the way out of a finally block on the way
  out of an iterator.

- Patterns: loops over atoms that may be empty, that capture, that hold groups in
  their alternatives and that refer to them, greedy and lazy, with and without a
  limit. `MaxSteps` (400) stands for never: texts have up to three characters,
  and matches that end need far fewer steps.

Symmetry (`Runtime.cfg`) permutes model values that the specifications treat
alike, and the properties under it are invariants and action properties.

Fairness (`FairSpec`). Weak fairness of `Progress`: JavaScript and handlers
return, and a native loop goes on, since they are ordinary calls on one thread.
Strong fairness of each Future's completion: the event loop is idle again and
again, and a completed Future is never dropped; it assumes that the application's
Futures complete. Nothing is assumed of the application: it need not call `loop`.
The run leaves out jobs that raise, because after one of them a reaction may
stay queued until somebody calls `loop` again (section 4), and drains with a
limit, which the library itself never asks for.

## 4. Findings

`freeRuntime` is bound to `JS_SetMaxStackSize` (`lib/bindings/ffi_base.dart:78`),
against the declaration in its comment. `stop()` never releases the runtime, as
`engine_runtime` shows.

The other places where the code does not do what a comment, a document or the
language asks for are named inside the properties; the name in brackets is the
definition that tells them apart. The library side:

- a job that raises ends the drain (`quickjs-ffi.cpp:184`), so one call of `loop`
  need not execute all asynchronous results;
- `JSValue.isFreed` does not tell whether the value was released: argument
  wrappers outlive their call, and `setPropertyString` consumes the reference
  (`lib/wrapper/value.dart:34`, `:66`);
- `evalScript` passes a count of UTF-16 units as a length in bytes
  (`engine.dart:322`), against the precondition at `quickjs-ffi.cpp:304`;
- `createJSArray` drops elements that are doubles, and integers beyond int32 come
  back wrapped (`engine.dart:405`, `:511`; `Survives`);
- `toArray` writes code units from 128 to 255 as one byte, which the decoder of
  the scripts cannot tell from the start of a sequence (`util.dart:25`);
- a console function whose first argument is no string throws in Dart, which ends
  the process (`engine.dart:119`, `:162`).

The engine, in `quickjs.c` unless another file is named:

| Where | What happens | Property (definition) |
|---|---|---|
| 45364 | `forEach` reads the record it stands on after `js_map_clear` and an iterator released with it have given back both of its counts | `MapWalksAsLanguage` (`FreedOnlyByItself`) |
| 18966 | the inner iterator of a `yield*` calls the generator, and the outer call goes on in a frame that was moved or released | `GeneratorRunsAlone` (`MisuseNeedsReentry`) |
| 19403, 19486 | an awaited promise whose `constructor` throws: nobody looks at the failure, the async generator is never resumed | `ServesInOrder` (`OneContinuation`) |
| 19539 | the answer of a `return` on a completed async generator does not look at the requests behind it | `ServesInOrder` (`OwesOnlyOverlapping`) |
| 27904 | `import()` tests the wrong value after building the namespace | `ModulesRunInOrder` |
| 33187 | a module of a circle keeps its request to a module that failed and was released | `ModulesRunInOrder` (`NoDanglingRequest`) |
| 8874 | an element behind the end of a closed array is refused after the length has grown | `PropertiesAsLanguage` (`RefusedTooLate`, `Lengthened`) |
| 8573 | a writable data property of a prototype does not hide accessors and read-only properties of prototypes behind it | `PropertiesAsLanguage` (`HiddenBehind`) |
| 44263 | values and accessors in the answer of `getOwnPropertyDescriptor` are not compared with the target | `ProxiesKeepInvariants` (`Uncompared`) |
| 44046, 44240, 44351 | a closed target that is a proxy itself is taken for an open one | `ProxiesKeepInvariants` (`SeenAsOpen`) |
| 44371 | definitions of fixed but writable properties are refused | `ProxiesKeepInvariants` (`ValueRefused`) |
| 27182 | exports of namespaces are compared by the module that exports them and the local name `*` | `ExportsResolve` (`Mixed`, `TakenApart`) |
| 17853 | an exception of `+=` leaves the variable undefined | `NumbersAsLanguage` (`InPlaceAgrees`) |
| 14159 | `x++` rounds twice in the build without big numbers | `NumbersAsLanguage` (`RoundsTwice`) |
| 29404 | closures in default values do not find variables of destructured parameters | `VariablesAsLanguage` (`PatternHidden`) |
| 29400 | parameters and body share one scope | `VariablesAsLanguage` (`DefaultsSeeBody`, `PatternAndLet`) |
| 29242 | accesses in front of `const` and of functions in blocks, `var` in front of `let` | `VariablesAsLanguage` (`ConstTooEarly`, `FunctionAgain`, `VarBeforeLexical`) |
| 30189 | declarations of direct eval, and `delete` of a `let` | `VariablesAsLanguage` (`EvalMeetsName`, `EvalInCatch`, `EvalHoists`, `EvalDeclares`, `EvalDeletesLet`) |
| 25462 | a `break` without label leaves a labelled block instead of the loop around it | `CompletesAsLanguage` (`BreaksHere`) |
| 26007 | `continue` with the first of two labels of a loop is refused | `CompletesAsLanguage` (`ContinuesFirstLabel`) |
| 22102 | parts of a template are converted after all were evaluated | `ExpressionsAsLanguage` (`LateStrings`) |
| 22573 | a computed key is converted behind the evaluation of its value | `ExpressionsAsLanguage` (`LateKey`) |
| 24773, 24809 | `delete` of an optional chain deletes nothing; of `super.p` it reads the property first | `ExpressionsAsLanguage` (`DeleteMissed`) |
| 23364, 7864, 14771 | an undefined base is noticed after the right side was evaluated or the key converted | `ExpressionsAsLanguage` (`LateBase`, `LateTargets`, `KeyFirst`) |
| `libbf.c`:1562 | a product of truncated factors misses faithful rounding | `BigFloatsExact` (`Near`) |
| `libbf.c`:631 | `bf_can_round` says yes at the end of the interval it states | `BigFloatsExact` (`AtTurn`) |
| `libbf.c`:6865 | exact quotients of unlimited precision are refused when they are longer than a limb more than the divisor | `DecimalsExact` |
| 20327 | `JSON.parse` accepts the escapes of JavaScript | `JSONAsLanguage` (`LooseItem`) |
| 10225, 21245 | `JSON.parse` accepts `1.` and `-01` | `JSONAsLanguage` (`IsNumber`) |
| 43331 | `JSON.stringify` prints `NaN` for a Number object that holds it | `JSONAsLanguage` (`Mended`) |
| `libregexp.c`:1601 | groups are not set back at the start of a round | `RegExpAsLanguage` (`KeepsGroups`) |
| `libregexp.c`:1592 | empty rounds of lazy, limited and capturing loops are taken, some for ever | `RegExpAsLanguage` (`TakesEmpty`, `Never`) |

## 5. What TLAPS proves

All theorems hold for every value of the constants under the named assumptions
of the modules, which only say that bounds are numbers, flags are booleans, sets
are finite and special values are distinct.

`JSEngineProofs`:
- `TypeCorrect`: `TypeOK`. It needs `StackShape`: a job frame lies directly
  above the drain that started it, otherwise counting a finished job could hit
  a frame that does not count.
- `PromiseObjectFreedOnce` (`NewPromiseFreedOnce`) and `PromisesFollowFutures`
  (`PromiseFollowsFuture`): from `IInv`, which adds to
  the types that only derived promises are queued as reactions
  (`OnlyDerivedQueued`), only underived ones have a Future
  (`OnlyRootsHaveFutures`), and promises not yet created are blank (`Blank`).
  The first two keep a job from settling the promise of an outstanding Future.
- `JobsStartInOrder`: `QueueFIFO`, by one lemma per way of changing the queue.
- `NoJobInsideACall`: `JobsRunToCompletion`.

Its second part, from the invariant `Delivery`: a derived promise waits in the
reaction list of its parent, exactly once and nowhere else, while the parent is
pending (`OwnReactions`, `AllWait`), and is among the jobs ever queued, exactly
once, when the parent has settled (`OnlyReadyQueued`, `AllQueued`).
`ReactionQueuedOnce` alone is not inductive: it does not say that a queued
reaction has left the list that settling walks.
- `ReactionsQueuedOnce`: `ReactionQueuedOnce`.
- `EngineImplementsAsyncCalls`: the refinement, with one lemma per kind of step;
  `JobsStarted` adds that the job on the stack was delivered, so that a derived
  promise settles after its reaction ran.
- `NothingLeftBehind`: `NoReactionLeftBehind`, from `LeftForDrain`: as long as
  nothing raised and no drain has a limit, a queued reaction is a late one or an
  unlimited drain on the stack will reach it.

`HookRegistryProofs`, from `HInv`: ids are numbered like the function objects
that carry them (`Numbered`) and JavaScript only holds functions that were
created (`OnlyCreated`).
- `DispatchIsRight`: `CallsOwnHandler`; `DispatchNeverFails`: no unset callback
  and no unknown id, and the process dies only inside the handler that the
  function belongs to; `HandlersNeverLeave`: the action property `HandlersStay`.

`JSValueRefsProofs`, for any finite set of objects and wrappers, from `RefsInv`.
Exact counts alone are not inductive: a wrapper lent to a handler holds no
reference, so `Lent` says that it points to the argument of the running call,
which does; `Pointing` and `OnlyLiveHold` say who may point where.
- `CountsStayExact`: `RefCountExact`, at every single step of a cascade of
  releases. The count is a sum of cardinalities of finite sets (`RefsTo`), and
  the lemmas `Owners...` and `HoldersSet` say how each way of taking, moving or giving back a
  reference changes it.
- `NothingDangles`: `NoDanglingReference`.

`PromisesProofs`, about `Promises` and about `AsyncFunctions` on the same heap, for
any bounds and any choice of operations of user code, from
`PInv`. `OneWayToSettle` counts, and its two cardinalities only say something
when each set has at most one member; `OneWay` says the same in parts that each
operation can be checked against: unused pairs of one promise are the same pair
(`PairsDiffer`), so are its thenable jobs (`JobsDiffer`), a promise does not have
both (`PairOrJob`), only pending promises have either (`OnlyPending`) and all of
them do (`AllPending`). `Heaps` adds that whatever the heap holds refers to
promises and pairs that exist: a reaction whose capability is a pair not yet
created would become a second way as soon as that pair is. Each operator on
heaps has a lemma that it keeps a sound heap sound and settled promises as they
are (`Becomes`), each action one that strings those together (`Moves`).
- `PromisesSettleOneWay`: `OneWayToSettle`.
- `SettledOnlyOnce`: `late` stays false, that is, the early return of
  `fulfill_or_reject_promise` with the comment "should never happen"
  (`quickjs.c:45776`) is never taken.
- `OutcomesAreFinal`: no step changes the state or the result of a settled
  promise.
- `AsyncResumesOnce`: `AwaitsOnce`, that is, an async function resumes once for
  each await, with the outcome of what it waits for, and its own promise settles
  only when it has ended. The invariant `AInv` adds to `PInv` what an await leaves
  in the heap (`Awaits`): the two functions of the capability of a suspended
  function are in one place only, as the reaction of the pending promise it
  waits for or, once that has settled, as the one job with that outcome, and no
  script and no handler can reach them. `AwaitsOnce` alone is not inductive: it
  counts reactions and jobs, and does not say that those two settle together.

`PromiseOutcomes`, about `Promises` again and for any bounds, from `OInv`.
- `OutcomesAlwaysArrive`: `OutcomesArrive`. The property speaks of the moment when
  all jobs have run, so the invariant has to say where everything is until then.
  A reaction that was registered waits in the list of its promise or is a job
  (`Waits`), and has not been counted in `calls`. A promise that is to share an
  outcome of another one has it, or the outcome is on its way (`Shares`): by a
  reaction of the other, still pending promise, by a job that carries what that
  promise was settled with, or by a thenable job that will register such a
  reaction. A chain of promises needs no induction, because each link is a
  statement of its own about two neighbours. What `finally` passes on is promised
  by a second promise (`Promised`), which the first one follows.
  An outcome on its way could still be lost if somebody else settled the promise
  first. So every reaction claims the pairs of resolving functions it will call
  (`Claims`): they are unused, user code never got them (`Private`), and no other
  reaction and no running handler has them (`Apart`, `Free`, `FramesFit`).
  `Regular` adds that settled promises keep no reactions and that a job carries a
  value that resolving does not turn into something else (`Plain`). Each operator
  on heaps has a lemma that it loses nothing (`Advances`: what was on its way
  still is, the pairs claimed by new reactions are known, and so are the pairs
  that changed); each job has one that what it carried has arrived or is on its
  way in the new heap (`Arrives`).

`Interrupts`, `Generators` and `IteratorProtocol` hold their proofs at the end of
the module.
- `ScriptsStopWithinBudget`: `StopsWithinBudget` and `HandlerNeverUnbound`, for
  every positive `CounterInit`, the 10000 of the source included. From `Budget`
  (ignored polls and what is left of the counter add up to at most
  `CounterInit`) and `Bound` (only a bound callback is enabled): a poll that
  resets the counter asks, and whoever is asked stops.
- `InterruptAlwaysStops`: `InterruptStops`, for every positive counter and depth.
  `Stacked` says of the stack of frames that each one was called by the one below
  it and which of them may hold an exception back (`Calls`), so that the error
  of the handler leaves them in order (`LeftClean`).
- `InterruptionsPassThrough`: `InterruptNotCaught`. The invariant `PlainScript`
  has to say that only the first frame was called by the host and that no frame
  holds an exception back; for-of loops, `new Promise` and async functions break
  exactly that, which is why the property speaks of scripts without them.
- `BodyNeverNested`: `BodyRunsAlone`, that is, one body at most and one release
  of its frame, and `GeneratorAlwaysRunsAlone`: `GeneratorRunsAlone`, the formula
  that the run checks, both without any assumption on the iterator behind a
  `yield*`. From `GenInv`: a frame of the body is the last one, because a call
  made while it runs pushes nothing (`BodyOnTop`); frames below belong to methods
  of inner iterators (`Delegating`); the frame of the body is released with the
  end (`FreedAtEnd`); and as long as no such method has called the generator
  there is one frame, which is where the body left it (`Alone`).
- `IteratorsAlwaysClosed`: `IteratorsClosed`, for any nesting of loops and any
  choice of consumers. That an iterator left early has been closed once is not
  inductive: `OpenInLoops` says that the iterator of a loop is open and not yet
  closed, `OneLoopEach` that no two loops have the same one, so closing the
  innermost loop concerns no other. `OuterAreLoops` and `LeavesLoops` say that
  break and return leave loops only, never a native function, which would
  swallow a failing return.

Only model-checked:
- liveness (`AsyncResultDelivered`), which is out of the prover's reach;
- everything that computes by recursion over data: numbers, texts, compiled
  programs, properties, modules, conversions. What a recursive definition
  computes for every input cannot be proved here;
- the other machines of the engine: combinators and async generators, `CycleGC`,
  `Atoms`, `Shapes`, `MapRecords`, `Proxies`.
  Nothing forbids proofs about those without recursive operators; see the plan.

## 6. Not modelled

- Failing allocations, in every module.
- Overridden `Promise.resolve` and `then` methods of subclasses; delegation in
  async generators; weak collections and finalizers of native classes.
- `this`, `arguments`, private names and classes in the compiler; `yield` inside
  patterns; the passes over the byte code after the resolution of names.
- The reader of pattern text in libregexp, and the growth of its stack; number
  texts other than those of JSON, and the digits behind `js_strtod`; the constants of
  `divdq_base` and the transcendental functions of libbf; math mode and
  overloaded operators, which the library never enables.
- Unicode tables; Date, typed arrays, Atomics, string functions and Reflect;
  byte code files; workers and the os module.
- Platform plugins, the example application and build scripts; wording, logging
  and the formatting of console output.

## 7. Plan

1. `CycleGC`: counts between collections, then the invariant of the two walks.
2. The discipline of wrappers that `JSValueRefs` assumes, stated as a
   specification of its own that handlers of `JSEngine` implement.
