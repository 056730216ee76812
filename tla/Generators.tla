------------------------------ MODULE Generators ------------------------------
(***************************************************************************)
(* One generator object and everybody who calls its next, return and throw *)
(* methods: a script, the body of the generator itself while it runs, and  *)
(* the methods of the iterator that a yield* delegates to.                 *)
(***************************************************************************)
EXTENDS Integers, Sequences, FiniteSets, FiniteSetTheorems, TLAPS

CONSTANTS
    MaxCalls,       \* bound: calls of next, return and throw
    MaxFrames       \* bound: nested frames

VARIABLES
    state,      \* JSGeneratorStateEnum
    genStack,   \* frames above the script, the running one last
    genCalls,   \* calls so far
    result,     \* what the last call that returned gave its caller
    freed,      \* times the frame of the generator was released
    ended,      \* history: a call has reported the end of the generator
    nested,     \* history: results of calls made while another was active
    reentered,  \* history: a method of the inner iterator called the generator
    misused,    \* the frame was used where another call had moved or released it
    methods     \* methods of the inner iterator besides next
genVars == <<methods, state, genStack, genCalls, result, freed, ended, nested,
             reentered, misused>>

Magics == {"next", "return", "throw"}
Suspended == {"suspended_start", "suspended_yield", "suspended_yield_star"}
GenStates == Suspended \cup {"executing", "completed"}
Results == {"none", "value", "undefined done", "value done", "exception", "type error"}
GenTop == genStack[Len(genStack)]
GenPop == SubSeq(genStack, 1, Len(genStack) - 1)
\* stale: the body ran after this call of the inner iterator had started.
GenFrame(k, magic) == [k |-> k, magic |-> magic, stale |-> FALSE]
Outdated(frames) == [j \in DOMAIN frames |-> [frames[j] EXCEPT !.stale = TRUE]]
In(k) == genStack # <<>> /\ GenTop.k = k
\* Results of js_generator_next with pdone TRUE end the iteration.
IsDone(r) == r \in {"undefined done", "value done"}

GenInit ==
    /\ state = "suspended_start" /\ genStack = <<>> /\ genCalls = 0
    /\ result = "none" /\ freed = 0 /\ ended = FALSE /\ nested = {}
    /\ reentered = FALSE /\ misused = FALSE
    /\ methods \in SUBSET {"return", "throw"}

\* A call ends with r while below is the stack of its caller.
Give(r, below) ==
    /\ result' = r
    /\ ended' = (ended \/ IsDone(r))
    /\ nested' = IF below = <<>> THEN nested ELSE nested \cup {r}
    /\ genStack' = below
    /\ UNCHANGED misused

\* free_generator_stack: only the first call releases the frame.
FreeStack(s) == IF s = "completed" THEN freed ELSE freed + 1

\* The label done of js_generator_next.
FinishedResult(magic) ==
    CASE magic = "next" -> "undefined done"
      [] magic = "return" -> "value done"
      [] magic = "throw" -> "exception"

\* The body is resumed; magic is what it is resumed with.
Execute(magic, below) ==
    /\ state' = "executing"
    /\ genStack' = Append(Outdated(below), GenFrame("body", magic))
    /\ UNCHANGED <<result, freed, ended, nested, misused>>

\* The case SUSPENDED_YIELD_STAR: the method of the inner iterator is called,
\* and state keeps its value meanwhile.  An iterator without the method
\* resumes the body: with a return, or with a TypeError after closing it.
Delegate(magic, below) ==
    IF magic = "next" \/ magic \in methods
    THEN /\ genStack' = Append(below, GenFrame("inner", magic))
         /\ UNCHANGED <<state, result, freed, ended, nested, misused>>
    ELSE IF magic = "throw" /\ "return" \in methods
    THEN /\ genStack' = Append(below, GenFrame("close", magic))
         /\ UNCHANGED <<state, result, freed, ended, nested, misused>>
    ELSE Execute(magic, below)

\* Mutant: the case JS_GENERATOR_STATE_EXECUTING is missing.
RunningIsResumed(magic, below) ==
    CASE state = "suspended_start" /\ magic # "next" ->
           /\ Give(FinishedResult(magic), below)
           /\ state' = "completed" /\ freed' = FreeStack(state)
      [] state = "suspended_yield_star" -> Delegate(magic, below)
      [] state = "completed" ->
           Give(FinishedResult(magic), below) /\ UNCHANGED <<state, freed>>
      [] OTHER -> Execute(magic, below)

\* js_generator_next, up to the point where other code runs.
GeneratorNext(magic, below) ==
    CASE state = "suspended_start" /\ magic = "next" -> Execute(magic, below)
      [] state = "suspended_start" /\ magic # "next" ->
           /\ Give(FinishedResult(magic), below)
           /\ state' = "completed" /\ freed' = FreeStack(state)
      [] state = "suspended_yield" -> Execute(magic, below)
      [] state = "suspended_yield_star" -> Delegate(magic, below)
      [] state = "completed" ->
           Give(FinishedResult(magic), below) /\ UNCHANGED <<state, freed>>
      [] state = "executing" -> Give("type error", below) /\ UNCHANGED <<state, freed>>

\* A script, the body or a method of the inner iterator calls.
Call(magic) ==
    /\ genCalls < MaxCalls /\ Len(genStack) < MaxFrames
    /\ reentered' = (reentered \/ In("inner") \/ In("close"))
    /\ genCalls' = genCalls + 1
    /\ GeneratorNext(magic, genStack)

\* The body reaches a yield.
Yield ==
    /\ In("body")
    /\ state' = "suspended_yield"
    /\ Give("value", GenPop)
    /\ UNCHANGED <<genCalls, freed, reentered>>

\* The body reaches a yield*: the switch is entered again with the magic of
\* the call that resumed the body and an undefined argument.
YieldStar ==
    /\ In("body")
    /\ LET magic == GenTop.magic
       IN IF magic = "next" \/ magic \in methods
          THEN /\ state' = "suspended_yield_star"
               /\ genStack' = Append(GenPop, GenFrame("inner", magic))
          ELSE IF magic = "throw" /\ "return" \in methods
          THEN /\ state' = "suspended_yield_star"
               /\ genStack' = Append(GenPop, GenFrame("close", magic))
          ELSE /\ state' = "executing"
               /\ genStack' = Append(GenPop, GenFrame("body", magic))
    /\ UNCHANGED <<genCalls, result, freed, ended, nested, reentered, misused>>

\* The body ends: it throws, returns a value or runs to its end.
BodyThrows ==
    /\ In("body")
    /\ state' = "completed" /\ freed' = FreeStack("suspended_yield")
    /\ Give("exception", GenPop)
    /\ UNCHANGED <<genCalls, reentered>>
BodyReturns ==
    /\ In("body")
    /\ state' = "completed" /\ freed' = FreeStack("suspended_yield")
    /\ Give("value done", GenPop)
    /\ UNCHANGED <<genCalls, reentered>>

\* exec_arg and exec_throw after the inner iterator was called: the body is
\* resumed in the frame where yield* left it, with the magic of this call.  If
\* the frame has been resumed meanwhile, its stack is another one or it has been
\* released: what happens then is undefined, and nothing is said of it.
GoOn ==
    IF GenTop.stale
    THEN /\ misused' = TRUE
         /\ UNCHANGED <<state, genStack, genCalls, result, freed, ended, nested, reentered>>
    ELSE Execute(GenTop.magic, GenPop) /\ UNCHANGED <<genCalls, reentered>>

\* A method of the inner iterator returns: a value that is not the last goes
\* to the caller, the last one resumes the body.
InnerNotDone ==
    /\ In("inner")
    /\ Give("value", GenPop)
    /\ UNCHANGED <<state, genCalls, freed, reentered>>
InnerDone ==
    /\ In("inner")
    /\ GoOn
\* A method of the inner iterator throws, or the iterator has been closed.
InnerThrows ==
    /\ In("inner") \/ In("close")
    /\ GoOn

GenNext ==
  /\ ~misused
  /\ UNCHANGED methods
  /\ \/ \E magic \in Magics : Call(magic)
     \/ Yield \/ YieldStar \/ BodyThrows \/ BodyReturns
     \/ InnerNotDone \/ InnerDone \/ InnerThrows
GenSpec == GenInit /\ [][GenNext]_genVars

-----------------------------------------------------------------------------
(* Properties *)

Bodies == {k \in 1 .. Len(genStack) : genStack[k].k = "body"}

\* The body of a generator never runs twice at the same time, and it runs
\* exactly while the state says so.
OneBody == Cardinality(Bodies) = (IF state = "executing" THEN 1 ELSE 0)

\* Nor is its frame, which js_generator_next works on, released before the
\* generator is completed, or twice.
BodyRunsAlone == OneBody /\ freed = IF state = "completed" THEN 1 ELSE 0

\* The frame is misused only when a method of the inner iterator has called the
\* generator that delegates to it.
MisuseNeedsReentry == misused => reentered

\* An iteration that has reported its end never produces a value again.
EndIsFinal == ended => state' = "completed" /\ result' # "value"

\* "cannot invoke a running generator": a call made while another call of
\* the same generator is active is refused, and answers nothing else.
RunningIsRefused == nested \subseteq {"type error"}

\* js_generator_next: the body never runs twice at the same time, its frame is
\* released exactly when the generator is completed, whoever calls.  As long as
\* no method of the inner iterator of a yield* has called the generator, a
\* running generator refuses calls, after its end it produces nothing, and the
\* frame is used only where the body left it.
GeneratorRunsAlone ==
    /\ [](BodyRunsAlone /\ MisuseNeedsReentry /\ (~reentered => RunningIsRefused))
    /\ [][~reentered' => EndIsFinal]_genVars

-----------------------------------------------------------------------------
(* Proofs.  A body runs in the last frame only, because a call made while it *)
(* runs pushes nothing (BodyOnTop).  A call of the inner iterator that is    *)
(* not stale still finds the body where yield* left it (Delegating).  Until  *)
(* such a call enters the generator again, there is one frame at most        *)
(* (Alone).                                                                  *)

\* Where the body is.
Frames == [k : {"body", "inner", "close"}, magic : Magics, stale : BOOLEAN]
BodyOnTop ==
    /\ genStack \in Seq(Frames) /\ state \in GenStates
    /\ \A j \in 1 .. Len(genStack) : genStack[j].k = "body" => j = Len(genStack)
    /\ state = "executing" <=> In("body")
\* Where the frame is that an inner iterator returns to, and how often it was
\* released.
Delegating ==
    \A j \in 1 .. Len(genStack) :
        genStack[j].k # "body" /\ genStack[j].stale = FALSE => state = "suspended_yield_star"
FreedAtEnd == freed = (IF state = "completed" THEN 1 ELSE 0)
\* One frame at most, not stale, and an end that is final.
Single ==
    /\ \/ Len(genStack) = 0
       \/ /\ Len(genStack) = 1 /\ genStack[1].stale = FALSE
          /\ state \in {"executing", "suspended_yield_star"}
    /\ nested \subseteq {"type error"}
EndKnown == ended \in BOOLEAN /\ (ended = TRUE => state = "completed")
Alone == reentered = FALSE => Single /\ EndKnown /\ misused = FALSE
GenInv == BodyOnTop /\ Delegating /\ FreedAtEnd /\ reentered \in BOOLEAN /\ ended \in BOOLEAN /\ Alone

\* A prefix of a sequence.
LEMMA Prefix ==
    ASSUME NEW S, NEW s \in Seq(S), NEW n \in 0 .. Len(s)
    PROVE  /\ SubSeq(s, 1, n) \in Seq(S) /\ Len(SubSeq(s, 1, n)) = n
           /\ \A i \in 1 .. n : SubSeq(s, 1, n)[i] = s[i]
OBVIOUS

\* What is below the running frame.
LEMMA Below ==
    ASSUME BodyOnTop, Delegating, genStack # <<>>
    PROVE  /\ GenTop \in Frames /\ GenPop \in Seq(Frames) /\ Len(GenPop) = Len(genStack) - 1
           /\ \A j \in 1 .. Len(GenPop) : GenPop[j].k # "body"
           /\ \A j \in 1 .. Len(GenPop) : GenPop[j].stale = FALSE => state = "suspended_yield_star"
           /\ Len(genStack) \in Nat /\ Len(genStack) >= 1
<1>1. genStack \in Seq(Frames) /\ Len(genStack) \in Nat /\ Len(genStack) >= 1
  BY DEF BodyOnTop
<1>2. /\ GenPop \in Seq(Frames) /\ Len(GenPop) = Len(genStack) - 1
      /\ \A j \in 1 .. Len(GenPop) : GenPop[j] = genStack[j]
  <2>1. Len(genStack) - 1 \in 0 .. Len(genStack)
    BY <1>1
  <2> QED
    BY <1>1, <2>1, Prefix DEF GenPop
<1>3. \A j \in 1 .. Len(GenPop) : GenPop[j].k # "body"
  BY <1>1, <1>2 DEF BodyOnTop
<1>4. GenTop \in Frames
  BY <1>1 DEF GenTop
<1>5. \A j \in 1 .. Len(GenPop) : GenPop[j].stale = FALSE => state = "suspended_yield_star"
  BY <1>1, <1>2, <1>3 DEF Delegating
<1> QED
  BY <1>1, <1>2, <1>3, <1>4, <1>5

\* Outdated frames are frames.
LEMMA OutdatedFrames ==
    ASSUME NEW below \in Seq(Frames), \A j \in 1 .. Len(below) : below[j].k # "body"
    PROVE  /\ Outdated(below) \in Seq(Frames) /\ Len(Outdated(below)) = Len(below)
           /\ \A j \in 1 .. Len(Outdated(below)) :
                 Outdated(below)[j].k # "body" /\ Outdated(below)[j].stale = TRUE
<1> DEFINE n == Len(below)
           e(j) == [below[j] EXCEPT !.stale = TRUE]
<1>1. n \in Nat /\ DOMAIN below = 1 .. n
  OBVIOUS
<1>2. \A j \in 1 .. n : e(j) \in Frames /\ e(j).k # "body" /\ e(j).stale = TRUE
  <2> TAKE j \in 1 .. n
  <2>1. below[j] \in Frames /\ below[j].k # "body"
    BY <1>1
  <2> QED
    BY <2>1 DEF Frames
<1>3. Outdated(below) = [j \in 1 .. n |-> e(j)]
  BY <1>1 DEF Outdated
<1> HIDE DEF n, e
<1> QED
  BY <1>1, <1>2, <1>3 DEF n

\* A frame on top of frames that are no bodies.
LEMMA Pushed ==
    ASSUME NEW below \in Seq(Frames), \A j \in 1 .. Len(below) : below[j].k # "body",
           NEW k \in {"body", "inner", "close"}, NEW magic \in Magics,
           genStack' = Append(below, GenFrame(k, magic)), state' \in GenStates,
           k = "body" => /\ state' = "executing"
                         /\ \A j \in 1 .. Len(below) : below[j].stale = TRUE,
           k # "body" => state' = "suspended_yield_star"
    PROVE  BodyOnTop' /\ Delegating'
<1> DEFINE f == GenFrame(k, magic)
<1>1. f \in Frames /\ f.k = k
  BY DEF GenFrame, Frames
<1> HIDE DEF f
<1>2. /\ genStack' \in Seq(Frames) /\ Len(genStack') = Len(below) + 1
      /\ Len(below) \in Nat /\ genStack'[Len(below) + 1] = f
      /\ \A j \in 1 .. Len(below) : genStack'[j] = below[j]
  BY <1>1 DEF f
<1>3. genStack' # <<>> /\ genStack'[Len(genStack')] = f
  BY <1>2
<1>4. In("body")' <=> k = "body"
  BY <1>1, <1>3 DEF In, GenTop
<1>5. BodyOnTop'
  BY <1>1, <1>2, <1>4 DEF BodyOnTop
<1>6. Delegating'
  <2>1. CASE k = "body"
    <3> SUFFICES ASSUME NEW j \in 1 .. Len(genStack'), genStack'[j].k # "body"
                 PROVE  genStack'[j].stale # FALSE
      BY DEF Delegating
    <3>1. j \in 1 .. Len(below)
      BY <1>1, <1>2, <2>1
    <3> QED
      BY <1>2, <2>1, <3>1
  <2>2. CASE k # "body"
    BY <2>2 DEF Delegating
  <2> QED
    BY <2>1, <2>2
<1> QED
  BY <1>5, <1>6

\* The body is resumed on top of frames that are no bodies.
LEMMA Executed ==
    ASSUME NEW below \in Seq(Frames), \A j \in 1 .. Len(below) : below[j].k # "body",
           NEW magic \in Magics, Execute(magic, below)
    PROVE  BodyOnTop' /\ Delegating'
<1> DEFINE o == Outdated(below)
<1>1. /\ o \in Seq(Frames)
      /\ \A j \in 1 .. Len(o) : o[j].k # "body" /\ o[j].stale = TRUE
  BY OutdatedFrames
<1>2. genStack' = Append(o, GenFrame("body", magic)) /\ state' = "executing"
  BY DEF Execute
<1>3. state' \in GenStates
  BY <1>2 DEF GenStates
<1> HIDE DEF o
<1> QED
  BY <1>1, <1>2, <1>3, Pushed

\* A call has ended and no body runs.
LEMMA Uncovered ==
    ASSUME NEW below \in Seq(Frames), \A j \in 1 .. Len(below) : below[j].k # "body",
           \A j \in 1 .. Len(below) : below[j].stale = FALSE => state' = "suspended_yield_star",
           genStack' = below, state' \in GenStates, state' # "executing"
    PROVE  BodyOnTop' /\ Delegating'
<1>1. ~In("body")'
  BY DEF In, GenTop
<1> QED
  BY <1>1 DEF BodyOnTop, Delegating

\* Where no body runs, none is on the stack.
LEMMA NoBody ==
    ASSUME BodyOnTop, state # "executing"
    PROVE  /\ \A j \in 1 .. Len(genStack) : genStack[j].k # "body"
           /\ genStack \in Seq(Frames)
BY DEF BodyOnTop, In, GenTop

\* js_generator_next keeps the body on top, and its frame.
LEMMA NextOnTop ==
    ASSUME BodyOnTop, Delegating, FreedAtEnd, NEW magic \in Magics,
           GeneratorNext(magic, genStack)
    PROVE  BodyOnTop' /\ Delegating' /\ FreedAtEnd'
<1> USE DEF GenStates, Suspended, Magics
<1>1. CASE state = "executing"
  <2>1. genStack' = genStack /\ state' = state /\ freed' = freed
    BY <1>1 DEF GeneratorNext, Give
  <2> QED
    BY <2>1 DEF BodyOnTop, In, GenTop, Delegating, FreedAtEnd
<1>2. CASE state # "executing"
  <2>1. genStack \in Seq(Frames) /\ \A j \in 1 .. Len(genStack) : genStack[j].k # "body"
    BY <1>2, NoBody
  <2>2. CASE state # "completed" /\ Execute(magic, genStack)
    <3>1. freed' = freed /\ state' = "executing"
      BY <2>2 DEF Execute
    <3>2. FreedAtEnd'
      BY <2>2, <3>1 DEF FreedAtEnd
    <3> QED
      BY <2>1, <2>2, <3>2, Executed
  <2>3. CASE state = "suspended_yield_star" /\ Delegate(magic, genStack)
    <3>1. CASE Execute(magic, genStack)
      BY <2>2, <2>3, <3>1
    <3>2. CASE ~Execute(magic, genStack)
      <4>1. /\ \E k \in {"inner", "close"} : genStack' = Append(genStack, GenFrame(k, magic))
            /\ state' = "suspended_yield_star" /\ freed' = freed
        BY <2>3, <3>2 DEF Delegate
      <4>2. BodyOnTop' /\ Delegating'
        BY <2>1, <4>1, Pushed
      <4> QED
        BY <2>3, <4>1, <4>2 DEF FreedAtEnd
    <3> QED
      BY <3>1, <3>2
  <2>4. CASE /\ state \in {"suspended_start", "completed"} /\ freed' = FreeStack(state)
             /\ genStack' = genStack /\ state' = "completed"
    <3>1. \A j \in 1 .. Len(genStack) : genStack[j].stale # FALSE
      BY <2>1, <2>4 DEF Delegating
    <3>2. BodyOnTop' /\ Delegating'
      BY <2>1, <2>4, <3>1, Uncovered
    <3> QED
      BY <2>4, <3>2 DEF FreedAtEnd, FreeStack
  <2>5. \/ state # "completed" /\ Execute(magic, genStack)
        \/ state = "suspended_yield_star" /\ Delegate(magic, genStack)
        \/ /\ state \in {"suspended_start", "completed"} /\ freed' = FreeStack(state)
           /\ genStack' = genStack /\ state' = "completed"
    BY <1>2 DEF GeneratorNext, Give, BodyOnTop, FreeStack
  <2> QED
    BY <2>2, <2>3, <2>4, <2>5
<1> QED
  BY <1>1, <1>2

\* Every step keeps the body on top and releases its frame at the end.
LEMMA StepOnTop ==
    ASSUME BodyOnTop, Delegating, FreedAtEnd, [GenNext]_genVars
    PROVE  BodyOnTop' /\ Delegating' /\ FreedAtEnd'
<1> USE DEF GenStates, Suspended
<1>1. CASE \E magic \in Magics : Call(magic)
  BY <1>1, NextOnTop DEF Call
<1>2. CASE Yield \/ BodyThrows \/ BodyReturns
  <2>1. /\ genStack # <<>> /\ state = "executing" /\ genStack' = GenPop
        /\ \/ state' = "suspended_yield" /\ freed' = freed
           \/ state' = "completed" /\ freed' = FreeStack("suspended_yield")
    BY <1>2 DEF Yield, BodyThrows, BodyReturns, Give, In, BodyOnTop
  <2>2. /\ GenPop \in Seq(Frames) /\ \A j \in 1 .. Len(GenPop) : GenPop[j].k # "body"
        /\ \A j \in 1 .. Len(GenPop) : GenPop[j].stale # FALSE
    BY <2>1, Below
  <2>3. BodyOnTop' /\ Delegating'
    BY <2>1, <2>2, Uncovered
  <2> QED
    BY <2>1, <2>3 DEF FreedAtEnd, FreeStack
<1>3. CASE YieldStar
  <2>1. /\ GenPop \in Seq(Frames) /\ \A j \in 1 .. Len(GenPop) : GenPop[j].k # "body"
        /\ GenTop.magic \in Magics /\ state = "executing" /\ freed' = freed
        /\ \A j \in 1 .. Len(GenPop) : GenPop[j] \in Frames /\ GenPop[j].stale # FALSE
    <3>1. genStack # <<>> /\ state = "executing" /\ freed' = freed
      BY <1>3 DEF YieldStar, In, BodyOnTop
    <3>2. GenTop \in Frames /\ GenPop \in Seq(Frames)
      BY <3>1, Below
    <3>3. /\ \A j \in 1 .. Len(GenPop) : GenPop[j].k # "body"
          /\ \A j \in 1 .. Len(GenPop) : GenPop[j].stale = FALSE => state = "suspended_yield_star"
      BY <3>1, Below
    <3>4. \A j \in 1 .. Len(GenPop) : GenPop[j] \in Frames
      BY <3>2
    <3>5. GenTop.magic \in Magics
      BY <3>2 DEF Frames
    <3> QED
      BY <3>1, <3>2, <3>3, <3>4, <3>5
  <2>2. \A j \in 1 .. Len(GenPop) : GenPop[j].stale = TRUE
    BY <2>1 DEF Frames
  <2>3. \E k \in {"body", "inner", "close"} :
            /\ genStack' = Append(GenPop, GenFrame(k, GenTop.magic))
            /\ state' = IF k = "body" THEN "executing" ELSE "suspended_yield_star"
    BY <1>3 DEF YieldStar
  <2>4. BodyOnTop' /\ Delegating'
    BY <2>1, <2>2, <2>3, Pushed
  <2> QED
    BY <2>1, <2>3, <2>4 DEF FreedAtEnd
<1>4. CASE InnerNotDone
  <2>1. /\ state # "executing" /\ state' = state /\ genStack' = GenPop /\ genStack # <<>>
        /\ freed' = freed
    BY <1>4 DEF InnerNotDone, Give, In, BodyOnTop
  <2>2. BodyOnTop' /\ Delegating'
    BY <2>1, Below, Uncovered DEF BodyOnTop
  <2> QED
    BY <2>1, <2>2 DEF FreedAtEnd
<1>5. CASE (InnerDone \/ InnerThrows) /\ GenTop.stale = FALSE
  <2>1. genStack # <<>> /\ GenTop.k # "body" /\ Execute(GenTop.magic, GenPop)
    BY <1>5 DEF InnerDone, InnerThrows, In, GoOn
  <2>2. /\ GenPop \in Seq(Frames) /\ \A j \in 1 .. Len(GenPop) : GenPop[j].k # "body"
        /\ GenTop.magic \in Magics /\ Len(genStack) \in 1 .. Len(genStack)
    BY <2>1, Below DEF Frames
  <2>3. state = "suspended_yield_star"
    BY <1>5, <2>1, <2>2 DEF Delegating, GenTop
  <2>4. freed' = freed /\ state' = "executing"
    BY <2>1 DEF Execute
  <2>5. BodyOnTop' /\ Delegating'
    BY <2>1, <2>2, Executed
  <2> QED
    BY <2>3, <2>4, <2>5 DEF FreedAtEnd
<1>6. CASE UNCHANGED <<genStack, state, freed>>
  BY <1>6 DEF BodyOnTop, In, GenTop, Delegating, FreedAtEnd
<1>7. CASE (InnerDone \/ InnerThrows) /\ GenTop.stale # FALSE
  <2>1. genStack # <<>>
    BY <1>7 DEF InnerDone, InnerThrows, In
  <2>2. GenTop.stale = TRUE
    BY <1>7, <2>1, Below DEF Frames
  <2> QED
    BY <1>6, <1>7, <2>2 DEF InnerDone, InnerThrows, GoOn
<1> QED
  BY <1>1, <1>2, <1>3, <1>4, <1>5, <1>6, <1>7 DEF GenNext, genVars

\* A body on top and nowhere else is one body.
LEMMA OnTopIsOne == BodyOnTop => OneBody
<1> SUFFICES ASSUME BodyOnTop PROVE OneBody
  OBVIOUS
<1>1. CASE state = "executing"
  <2>1. Bodies = {Len(genStack)}
    BY <1>1 DEF Bodies, BodyOnTop, In, GenTop
  <2> QED
    BY <1>1, <2>1, FS_Singleton DEF OneBody
<1>2. CASE state # "executing"
  <2>1. Bodies = {}
    BY <1>2, NoBody DEF Bodies
  <2> QED
    BY <1>2, <2>1, FS_EmptySet DEF OneBody
<1> QED
  BY <1>1, <1>2

\* With one frame at most, below it is the script.
LEMMA OneFrame ==
    ASSUME BodyOnTop, Delegating, Single, genStack # <<>>
    PROVE  GenPop = <<>> /\ GenTop.stale = FALSE
<1>1. Len(genStack) \in Nat /\ Len(genStack) >= 1 /\ GenPop \in Seq(Frames)
      /\ Len(GenPop) = Len(genStack) - 1
  BY Below
<1>2. Len(genStack) = 1 /\ genStack[1].stale = FALSE
  <2>1. Len(genStack) # 0
    BY <1>1
  <2> QED
    BY <2>1 DEF Single
<1>3. Len(GenPop) = 0
  BY <1>1, <1>2
<1> QED
  BY <1>1, <1>2, <1>3 DEF GenTop

\* Unless the frame is that of the body, the body delegates.
LEMMA InInner ==
    ASSUME BodyOnTop, Delegating, Single, genStack # <<>>, ~In("body")
    PROVE  state = "suspended_yield_star"
<1>1. Len(genStack) # 0
  BY Below
<1>2. state \in {"executing", "suspended_yield_star"}
  BY <1>1 DEF Single
<1>3. state # "executing"
  BY DEF BodyOnTop
<1> QED
  BY <1>2, <1>3

\* A frame above the script.
LEMMA FirstFrame ==
    ASSUME NEW k, NEW magic, genStack' = Append(<<>>, GenFrame(k, magic))
    PROVE  Len(genStack') = 1 /\ genStack'[1].stale = FALSE
BY DEF GenFrame

\* The body is resumed as the first frame above the script.
LEMMA FirstBody ==
    ASSUME NEW below, below = <<>>, NEW magic, Execute(magic, below)
    PROVE  /\ genStack' = Append(<<>>, GenFrame("body", magic)) /\ state' = "executing"
           /\ UNCHANGED <<result, freed, ended, nested, misused>>
<1>1. Outdated(<<>>) = <<>>
  BY DEF Outdated
<1> QED
  BY <1>1 DEF Execute

\* What a step does about the end of the iteration and the frame.
EndsOnce ==
    \/ state # "completed" /\ state' # "completed" /\ ended' = ended /\ freed' = freed
    \/ /\ state' = "completed" /\ result' # "value"
       /\ ended' = ended \/ ended' = TRUE
       /\ freed' = FreeStack(state)

\* A result that does not end the iteration.
LEMMA NotDone ==
    ASSUME ended \in BOOLEAN, NEW r \in {"value", "exception", "type error"},
           NEW below, Give(r, below)
    PROVE  ended' = ended
<1>1. ~IsDone(r)
  BY DEF IsDone
<1>2. ended' = (ended \/ IsDone(r))
  BY DEF Give
<1> QED
  BY <1>1, <1>2

\* Any result.
LEMMA MaybeDone ==
    ASSUME ended \in BOOLEAN, NEW r, NEW below, Give(r, below)
    PROVE  ended' = ended \/ ended' = TRUE
<1>1. ended' = (ended \/ IsDone(r))
  BY DEF Give
<1> QED
  BY <1>1

\* js_generator_next, called by the script or refused.
LEMMA NextAlone ==
    ASSUME BodyOnTop, Delegating, Single, ended \in BOOLEAN, NEW magic \in Magics,
           genStack = <<>> \/ In("body"), GeneratorNext(magic, genStack)
    PROVE  Single' /\ EndsOnce
<1> USE DEF Magics
<1>1. CASE state = "executing"
  <2>1. Give("type error", genStack) /\ state' = state /\ freed' = freed
    BY <1>1 DEF GeneratorNext
  <2>2. genStack' = genStack /\ nested' \in {nested, nested \cup {"type error"}}
    BY <2>1 DEF Give
  <2>3. ended' = ended
    BY <2>1, NotDone
  <2>4. Single'
    BY <1>1, <2>1, <2>2 DEF Single
  <2> QED
    BY <1>1, <2>1, <2>3, <2>4 DEF EndsOnce
<1>2. CASE state # "executing"
  <2>1. genStack = <<>>
    BY <1>2 DEF BodyOnTop
  <2>2. CASE /\ state # "completed" /\ state' \in {"executing", "suspended_yield_star"}
             /\ \E k \in {"body", "inner", "close"} :
                   genStack' = Append(<<>>, GenFrame(k, magic))
             /\ UNCHANGED <<result, freed, ended, nested>>
    <3>1. Len(genStack') = 1 /\ genStack'[1].stale = FALSE
      BY <2>1, <2>2, FirstFrame
    <3>2. Single'
      BY <2>2, <3>1 DEF Single
    <3> QED
      BY <2>2, <3>2 DEF EndsOnce
  <2>3. CASE /\ state \in {"suspended_start", "completed"} /\ state' = "completed"
             /\ Give(FinishedResult(magic), genStack) /\ freed' = FreeStack(state)
    <3>1. genStack' = <<>> /\ nested' = nested /\ result' # "value"
      BY <2>1, <2>3 DEF Give, FinishedResult
    <3>2. ended' = ended \/ ended' = TRUE
      BY <2>3, MaybeDone
    <3>3. Len(genStack') = 0
      BY <3>1
    <3>4. Single'
      BY <3>1, <3>3 DEF Single
    <3> QED
      BY <2>3, <3>1, <3>2, <3>4 DEF EndsOnce
  <2>4. state \in Suspended \cup {"completed"}
    BY <1>2 DEF BodyOnTop, GenStates
  <2>5. CASE state = "suspended_yield_star"
    <3>1. Delegate(magic, genStack)
      BY <2>5 DEF GeneratorNext
    <3>2. CASE Execute(magic, genStack)
      <4>1. /\ genStack' = Append(<<>>, GenFrame("body", magic)) /\ state' = "executing"
            /\ UNCHANGED <<result, freed, ended, nested, misused>>
        BY <2>1, <3>2, FirstBody
      <4> QED
        BY <2>2, <2>5, <4>1
    <3>3. CASE ~Execute(magic, genStack)
      BY <2>1, <2>2, <2>5, <3>1, <3>3 DEF Delegate
    <3> QED
      BY <3>2, <3>3
  <2>6. CASE state # "suspended_yield_star"
    <3>1. CASE state # "completed" /\ Execute(magic, genStack)
      <4>1. /\ genStack' = Append(<<>>, GenFrame("body", magic)) /\ state' = "executing"
            /\ UNCHANGED <<result, freed, ended, nested, misused>>
        BY <2>1, <3>1, FirstBody
      <4> QED
        BY <2>2, <3>1, <4>1
    <3>2. \/ state # "completed" /\ Execute(magic, genStack)
          \/ /\ state \in {"suspended_start", "completed"} /\ state' = "completed"
             /\ Give(FinishedResult(magic), genStack) /\ freed' = FreeStack(state)
      BY <2>4, <2>6 DEF GeneratorNext, Suspended, FreeStack
    <3> QED
      BY <2>3, <3>1, <3>2
  <2> QED
    BY <2>5, <2>6
<1> QED
  BY <1>1, <1>2

\* The steps of the body and of the inner iterator.
LEMMA StepSingle ==
    ASSUME reentered' = FALSE, reentered \in BOOLEAN, BodyOnTop, Delegating, Single,
           ended \in BOOLEAN, GenNext
    PROVE  Single' /\ EndsOnce
<1>1. CASE \E magic \in Magics : Call(magic)
  <2>1. PICK magic \in Magics : Call(magic)
    BY <1>1
  <2>2. ~In("inner") /\ ~In("close") /\ GeneratorNext(magic, genStack)
    BY <2>1 DEF Call
  <2>3. genStack # <<>> => GenTop.k \in {"body", "inner", "close"}
    BY Below DEF Frames
  <2>4. genStack = <<>> \/ In("body")
    BY <2>2, <2>3 DEF In
  <2> QED
    BY <2>2, <2>4, NextAlone
<1>2. CASE Yield \/ BodyThrows \/ BodyReturns
  <2>1. In("body") /\ genStack # <<>> /\ state = "executing"
    BY <1>2 DEF Yield, BodyThrows, BodyReturns, In, BodyOnTop
  <2>2. GenPop = <<>> /\ genStack' = GenPop
    BY <1>2, <2>1, OneFrame DEF Yield, BodyThrows, BodyReturns, Give
  <2>3. Len(genStack') = 0 /\ genStack' = <<>> /\ nested' = nested
    BY <1>2, <2>2 DEF Yield, BodyThrows, BodyReturns, Give
  <2>4. Single'
    BY <2>3 DEF Single
  <2>5. CASE Yield
    <3>1. Give("value", GenPop) /\ state' = "suspended_yield" /\ freed' = freed
      BY <2>5 DEF Yield
    <3>2. ended' = ended
      BY <3>1, NotDone
    <3> QED
      BY <2>1, <2>4, <3>1, <3>2 DEF EndsOnce
  <2>6. CASE BodyThrows \/ BodyReturns
    <3>1. /\ state' = "completed" /\ freed' = FreeStack("suspended_yield")
          /\ \E r \in {"exception", "value done"} : Give(r, GenPop)
      BY <2>6 DEF BodyThrows, BodyReturns
    <3>2. (ended' = ended \/ ended' = TRUE) /\ result' # "value"
      BY <3>1, MaybeDone DEF Give
    <3>3. freed' = FreeStack(state)
      BY <2>1, <3>1 DEF FreeStack
    <3> QED
      BY <2>4, <3>1, <3>2, <3>3 DEF EndsOnce
  <2> QED
    BY <1>2, <2>5, <2>6
<1>3. CASE YieldStar
  <2>1. genStack # <<>> /\ state = "executing" /\ UNCHANGED <<freed, ended, nested>>
    BY <1>3 DEF YieldStar, In, BodyOnTop
  <2>2. /\ \E k \in {"body", "inner", "close"} :
              genStack' = Append(GenPop, GenFrame(k, GenTop.magic))
        /\ state' \in {"executing", "suspended_yield_star"}
    BY <1>3 DEF YieldStar
  <2>3. Len(genStack') = 1 /\ genStack'[1].stale = FALSE
    BY <2>1, <2>2, OneFrame, FirstFrame
  <2>4. Single'
    BY <2>1, <2>2, <2>3 DEF Single
  <2> QED
    BY <2>1, <2>2, <2>4 DEF EndsOnce
<1>4. CASE InnerNotDone
  <2>1. genStack # <<>> /\ ~In("body") /\ Give("value", GenPop) /\ UNCHANGED <<state, freed>>
    BY <1>4 DEF InnerNotDone, In
  <2>2. state = "suspended_yield_star"
    BY <2>1, InInner
  <2>3. GenPop = <<>>
    BY <2>1, OneFrame
  <2>4. genStack' = <<>> /\ Len(genStack') = 0 /\ nested' = nested
    BY <2>1, <2>3 DEF Give
  <2>5. ended' = ended
    BY <2>1, NotDone
  <2>6. Single'
    BY <2>4 DEF Single
  <2> QED
    BY <2>1, <2>2, <2>5, <2>6 DEF EndsOnce
<1>5. CASE InnerDone \/ InnerThrows
  <2>1. genStack # <<>> /\ ~In("body")
    BY <1>5 DEF InnerDone, InnerThrows, In
  <2>2. GenPop = <<>> /\ GenTop.stale = FALSE
    BY <2>1, OneFrame
  <2>3. Execute(GenTop.magic, GenPop)
    BY <1>5, <2>2 DEF InnerDone, InnerThrows, GoOn
  <2>4. /\ genStack' = Append(<<>>, GenFrame("body", GenTop.magic)) /\ state' = "executing"
        /\ UNCHANGED <<result, freed, ended, nested, misused>>
    BY <2>2, <2>3, FirstBody
  <2>5. Len(genStack') = 1 /\ genStack'[1].stale = FALSE
    BY <2>4, FirstFrame
  <2>6. state = "suspended_yield_star"
    BY <2>1, InInner
  <2>7. Single'
    BY <2>4, <2>5 DEF Single
  <2> QED
    BY <2>4, <2>6, <2>7 DEF EndsOnce
<1> QED
  BY <1>1, <1>2, <1>3, <1>4, <1>5 DEF GenNext

\* Nor does a step misuse the frame.
LEMMA StepInPlace ==
    ASSUME BodyOnTop, Delegating, Single, misused = FALSE, GenNext
    PROVE  misused' = FALSE
<1>1. CASE InnerDone \/ InnerThrows
  <2>1. genStack # <<>>
    BY <1>1 DEF InnerDone, InnerThrows, In
  <2>2. GenTop.stale = FALSE
    BY <2>1, OneFrame
  <2> QED
    BY <1>1, <2>2 DEF InnerDone, InnerThrows, GoOn, Execute
<1>2. CASE \E magic \in Magics : Call(magic)
  <2>1. PICK magic \in Magics : GeneratorNext(magic, genStack)
    BY <1>2 DEF Call
  <2>2. state \in GenStates
    BY DEF BodyOnTop
  <2> QED
    BY <2>1, <2>2 DEF GeneratorNext, Execute, Delegate, Give, GenStates, Suspended, Magics
<1>3. CASE Yield \/ YieldStar \/ BodyThrows \/ BodyReturns \/ InnerNotDone
  BY <1>3 DEF Yield, YieldStar, BodyThrows, BodyReturns, InnerNotDone, Give
<1> QED
  BY <1>1, <1>2, <1>3 DEF GenNext

\* What the steps keep about the history.
LEMMA StepHistory ==
    ASSUME reentered \in BOOLEAN, ended \in BOOLEAN, BodyOnTop, [GenNext]_genVars
    PROVE  reentered' \in BOOLEAN /\ ended' \in BOOLEAN /\ (reentered' = FALSE => reentered = FALSE)
<1>1. reentered' \in BOOLEAN /\ (reentered' = FALSE => reentered = FALSE)
  BY DEF GenNext, Call, Yield, YieldStar, BodyThrows, BodyReturns, InnerNotDone, InnerDone, InnerThrows,
         GoOn, genVars
<1>2. ended' = ended \/ \E r, below : Give(r, below)
  <2>1. CASE \E magic \in Magics : Call(magic)
    <3>1. PICK magic \in Magics : GeneratorNext(magic, genStack)
      BY <2>1 DEF Call
    <3>2. state \in GenStates
      BY DEF BodyOnTop
    <3> QED
      BY <3>1, <3>2 DEF GeneratorNext, Execute, Delegate, GenStates, Suspended
  <2>2. CASE Yield \/ YieldStar \/ BodyThrows \/ BodyReturns \/ InnerNotDone
    BY <2>2 DEF Yield, YieldStar, BodyThrows, BodyReturns, InnerNotDone
  <2>3. CASE InnerDone \/ InnerThrows
    BY <2>3 DEF InnerDone, InnerThrows, GoOn, Execute
  <2>4. CASE UNCHANGED genVars
    BY <2>4 DEF genVars
  <2> QED
    BY <2>1, <2>2, <2>3, <2>4 DEF GenNext
<1>3. ended' \in BOOLEAN
  BY <1>2, MaybeDone
<1> QED
  BY <1>1, <1>3

\* Every step keeps the invariant, and what the iteration has reported.
LEMMA StepInv ==
    ASSUME GenInv, [GenNext]_genVars
    PROVE  GenInv' /\ [reentered' = FALSE => EndIsFinal]_genVars
<1>1. BodyOnTop' /\ Delegating' /\ FreedAtEnd'
  BY StepOnTop DEF GenInv
<1>2. reentered' \in BOOLEAN /\ ended' \in BOOLEAN /\ (reentered' = FALSE => reentered = FALSE)
  BY StepHistory DEF GenInv
<1>3. CASE GenNext
  <2>1. CASE reentered' = FALSE
    <3>1. Single /\ EndKnown /\ misused = FALSE /\ ended \in BOOLEAN
      BY <1>2, <2>1 DEF GenInv, Alone
    <3>2. Single' /\ EndsOnce
      BY <1>3, <2>1, <3>1, StepSingle DEF GenInv
    <3>3. misused' = FALSE
      BY <1>3, <3>1, StepInPlace DEF GenInv
    <3>4. EndKnown' /\ (ended = TRUE => state' = "completed" /\ result' # "value")
      BY <3>1, <3>2 DEF EndKnown, EndsOnce
    <3>5. EndIsFinal
      BY <3>1, <3>4 DEF EndIsFinal
    <3> QED
      BY <1>1, <1>2, <3>2, <3>3, <3>4, <3>5 DEF GenInv, Alone
  <2>2. CASE reentered' # FALSE
    BY <1>1, <1>2, <2>2 DEF GenInv, Alone
  <2> QED
    BY <2>1, <2>2
<1>4. CASE UNCHANGED genVars
  <2>1. Alone'
    BY <1>4 DEF GenInv, genVars, Alone, Single, EndKnown
  <2> QED
    BY <1>1, <1>2, <1>4, <2>1 DEF GenInv
<1> QED
  BY <1>3, <1>4

\* The invariant holds in every reachable state.
LEMMA AlwaysGenInv == GenSpec => []GenInv
<1>1. GenInit => GenInv
  <2> SUFFICES ASSUME GenInit PROVE GenInv
    OBVIOUS
  <2>1. genStack = <<>> /\ Len(genStack) = 0 /\ state = "suspended_start" /\ freed = 0
        /\ ended = FALSE /\ reentered = FALSE /\ misused = FALSE /\ nested = {}
    BY DEF GenInit
  <2>2. BodyOnTop
    BY <2>1 DEF BodyOnTop, GenStates, Suspended, In
  <2>3. Delegating /\ FreedAtEnd
    BY <2>1 DEF Delegating, FreedAtEnd
  <2>4. Alone
    BY <2>1 DEF Alone, Single, EndKnown
  <2> QED
    BY <2>1, <2>2, <2>3, <2>4 DEF GenInv
<1>2. GenInv /\ [GenNext]_genVars => GenInv'
  BY StepInv
<1> QED
  BY <1>1, <1>2, PTL DEF GenSpec

\* js_generator_next never runs the body of a generator inside itself and
\* releases its frame exactly once, when the generator is completed, whoever
\* calls, the methods of the inner iterator of a yield* included.
THEOREM BodyNeverNested == GenSpec => []BodyRunsAlone
<1>1. GenInv => BodyRunsAlone
  BY OnTopIsOne DEF GenInv, FreedAtEnd, BodyRunsAlone
<1> QED
  BY <1>1, AlwaysGenInv, PTL

\* A generator keeps all that GeneratorRunsAlone says of js_generator_next, for
\* every number and every sequence of calls, by scripts, by its body and by the
\* inner iterator of a yield*.
THEOREM GeneratorAlwaysRunsAlone == GenSpec => GeneratorRunsAlone
<1>1. GenInv => BodyRunsAlone /\ MisuseNeedsReentry /\ (~reentered => RunningIsRefused)
  <2> SUFFICES ASSUME GenInv PROVE BodyRunsAlone /\ MisuseNeedsReentry /\ (~reentered => RunningIsRefused)
    OBVIOUS
  <2>1. BodyRunsAlone
    BY OnTopIsOne DEF GenInv, FreedAtEnd, BodyRunsAlone
  <2>2. CASE reentered = FALSE
    BY <2>1, <2>2 DEF GenInv, Alone, Single, MisuseNeedsReentry, RunningIsRefused
  <2>3. CASE reentered = TRUE
    BY <2>1, <2>3 DEF MisuseNeedsReentry
  <2> QED
    BY <2>2, <2>3 DEF GenInv
<1>2. GenInv /\ [GenNext]_genVars => [~reentered' => EndIsFinal]_genVars
  <2> SUFFICES ASSUME GenInv, [GenNext]_genVars PROVE [~reentered' => EndIsFinal]_genVars
    OBVIOUS
  <2>1. [reentered' = FALSE => EndIsFinal]_genVars /\ reentered' \in BOOLEAN
    BY StepInv DEF GenInv
  <2>2. ~reentered' => reentered' = FALSE
    BY <2>1
  <2> QED
    BY <2>1, <2>2
<1> QED
  BY <1>1, <1>2, AlwaysGenInv, PTL DEF GenSpec, GeneratorRunsAlone
================================================================================
