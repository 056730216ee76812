--------------------------- MODULE IteratorProtocol ----------------------------
(***************************************************************************)
(* Who closes an iterator.  Loops over iterators nest; an inner loop is    *)
(* left by break, return or an exception that leaves several loops at      *)
(* once, a native function consumes an iterator inside a loop, and every   *)
(* call of next and return may fail.                                       *)
(***************************************************************************)
EXTENDS Integers, Sequences, TLAPS

CONSTANTS
    MaxLoops,   \* bound: loops that are open at once
    MaxIters,   \* bound: iterators in a behaviour
    Consumers   \* the consumers of Policy that are exercised

\* Of each consumer: does it call JS_IteratorClose when next cannot be read, when
\* next has failed, and when the work on a value fails?
Closes(noNext, next, body) == [noNext |-> noNext, next |-> next, body |-> body]
ForOf == Closes(FALSE, FALSE, TRUE)
AppendEnumerate == Closes(FALSE, TRUE, TRUE)
FromEntries == Closes(TRUE, TRUE, TRUE)
IteratorToArray == Closes(FALSE, TRUE, TRUE)
ArrayFrom == Closes(FALSE, TRUE, TRUE)
MapConstructor == Closes(TRUE, TRUE, TRUE)
TypedArrayFrom == Closes(FALSE, TRUE, TRUE)
PromiseAll == Closes(FALSE, FALSE, TRUE)
ArrayFromIterator == Closes(FALSE, FALSE, FALSE)

Policy ==
    [forOf |-> ForOf, spread |-> AppendEnumerate, fromEntries |-> FromEntries, toArray |-> IteratorToArray,
     from |-> ArrayFrom, map |-> MapConstructor, typedFrom |-> TypedArrayFrom, promise |-> PromiseAll,
     typedArray |-> ArrayFromIterator]
ASSUME ConsumersAssumption == Consumers \subseteq DOMAIN Policy

VARIABLES
    loops,      \* open consumers, the innermost last: [kind, it, at]
    iters,      \* iterators: [ended, returns, ret]
    signal      \* [kind, n, exc]: "run", "throw" exc, "leave" n loops

iterVars == <<loops, iters, signal>>

\* What the method return of an iterator does.
ReturnKinds == {"none", "object", "primitive", "throws"}
Run == [kind |-> "run", n |-> 0, exc |-> "none"]
Throwing(e) == [kind |-> "throw", n |-> 0, exc |-> e]
Leaving(n) == [kind |-> "leave", n |-> n, exc |-> "none"]

IterInit == loops = <<>> /\ iters = <<>> /\ signal = Run

Inner == loops[Len(loops)]
Outer == SubSeq(loops, 1, Len(loops) - 1)
InnerIter == iters[Inner.it]
LoopAt(phase) == signal = Run /\ loops # <<>> /\ Inner.at = phase

-----------------------------------------------------------------------------
(* JS_IteratorClose. *)

Returned(i) == [iters EXCEPT ![i].returns = IF iters[i].ret = "none" THEN @ ELSE @ + 1]
\* A pending exception stays; otherwise one of return is thrown.
CloseResult(i, pending) ==
    CASE pending.kind = "throw" -> pending
      [] pending.kind # "throw" /\ iters[i].ret \in {"primitive", "throws"} -> Throwing("return")
      [] OTHER -> pending

-----------------------------------------------------------------------------
(* Starting to consume, JS_GetIterator and js_for_of_start.  A failure     *)
(* before there is an iterator leaves nothing to close; the constructors   *)
(* of maps and Object.fromEntries close it when its next cannot be read.   *)

MayStart == signal = Run /\ Len(loops) < MaxLoops /\ Len(iters) < MaxIters
            /\ (loops # <<>> => Inner.kind = "forOf" /\ Inner.at = "body")
Start(kind, ret) ==
    /\ MayStart
    /\ iters' = Append(iters, [ended |-> "open", returns |-> 0, ret |-> ret])
    /\ loops' = Append(loops, [kind |-> kind, it |-> Len(iters) + 1, at |-> "next"])
    /\ UNCHANGED signal
NoNext(kind, ret) ==
    /\ MayStart
    /\ iters' = Append(iters, [ended |-> "threw", ret |-> ret,
                               returns |-> IF Policy[kind].noNext /\ ret # "none" THEN 1 ELSE 0])
    /\ signal' = IF kind = "promise" THEN Run ELSE Throwing("next")
    /\ UNCHANGED loops

\* JS_IteratorNext.
NextValue ==
    /\ LoopAt("next")
    /\ loops' = [loops EXCEPT ![Len(loops)].at = "body"]
    /\ UNCHANGED <<iters, signal>>
NextDone ==
    /\ LoopAt("next")
    /\ iters' = [iters EXCEPT ![Inner.it].ended = "done"]
    /\ loops' = Outer
    /\ UNCHANGED signal
\* next throws, or gives no object, or the object cannot be read.  The loop
\* forgets its iterator; most native functions close theirs.  The functions of
\* Promise reject their promise and return.
NextThrows ==
    /\ LoopAt("next")
    /\ iters' = [iters EXCEPT ![Inner.it].ended = "threw",
                              ![Inner.it].returns = IF Policy[Inner.kind].next /\ InnerIter.ret # "none" THEN @ + 1 ELSE @]
    /\ loops' = Outer
    /\ signal' = IF Inner.kind = "promise" THEN Run ELSE Throwing("next")

-----------------------------------------------------------------------------
(* What is done with a value. *)

BodyEnds ==
    /\ LoopAt("body")
    /\ loops' = [loops EXCEPT ![Len(loops)].at = "next"]
    /\ UNCHANGED <<iters, signal>>
\* The body of a loop throws: JS_CallInternal unwinds in Unwind.  A native
\* function closes its iterator and throws; the constructor of typed arrays only
\* collects values, which does not fail.
LoopThrows ==
    /\ LoopAt("body")
    /\ Policy[Inner.kind].body
    /\ signal' = Throwing("body")
    /\ UNCHANGED <<loops, iters>>
\* break or continue with a label, or return: OP_iterator_close for each loop.
BodyLeaves(n) ==
    /\ LoopAt("body")
    /\ n <= Len(loops)
    /\ Inner.kind = "forOf"
    /\ signal' = Leaving(n)
    /\ UNCHANGED <<loops, iters>>

\* One loop is closed on the way out.
\* Mutant: the loop that failed is closed once more.
CloseTwice ==
    /\ signal.kind \in {"throw", "leave"} /\ loops # <<>>
    /\ iters' = [Returned(Inner.it) EXCEPT ![Inner.it].returns = IF signal.kind = "throw" THEN @ + 1 ELSE @]
    /\ loops' = Outer
    /\ signal' = IF Inner.kind = "promise" THEN Run ELSE CloseResult(Inner.it, signal)
CloseTop ==
    /\ signal.kind \in {"throw", "leave"} /\ loops # <<>>
    /\ iters' = Returned(Inner.it)
    /\ loops' = Outer
    /\ LET after == CloseResult(Inner.it, signal)
       IN signal' = IF Inner.kind = "promise" THEN Run
                    ELSE IF after.kind = "throw" THEN after
                    ELSE IF signal.n = 1 THEN Run ELSE Leaving(signal.n - 1)
Unwound ==
    /\ signal.kind # "run" /\ loops = <<>>
    /\ signal' = Run
    /\ UNCHANGED <<loops, iters>>
Done == signal = Run /\ loops = <<>> /\ Len(iters) = MaxIters /\ UNCHANGED iterVars

IterNext ==
    \/ \E k \in Consumers, r \in ReturnKinds : Start(k, r) \/ NoNext(k, r)
    \/ NextValue \/ NextDone \/ NextThrows
    \/ BodyEnds \/ LoopThrows \/ \E n \in 1 .. MaxLoops : BodyLeaves(n)
    \/ CloseTop \/ Unwound \/ Done

IterSpec == IterInit /\ [][IterNext]_iterVars

-----------------------------------------------------------------------------
(* Properties. *)

InUse == {loops[k].it : k \in DOMAIN loops}

\* The method return of an iterator is called once at most.
ClosedOnce == \A i \in DOMAIN iters : iters[i].returns <= 1

\* An iterator that a loop or a function has left early, by break, return or an
\* exception from anywhere inside, has been closed.
LeftEarlyIsClosed ==
    \A i \in DOMAIN iters :
        i \notin InUse /\ iters[i].ended = "open" /\ iters[i].ret # "none" => iters[i].returns = 1

\* An exception on its way out is not replaced by what return does to the
\* iterators it passes.
FirstErrorWins ==
    signal.kind = "throw" /\ loops # <<>> /\ Inner.kind # "promise" => signal' = signal

\* A failing return is not lost when the loop was left without an exception.
ReturnErrorsSeen ==
    signal.kind = "leave" /\ loops # <<>> /\ InnerIter.ret \in {"primitive", "throws"}
        => signal'.kind = "throw"

\* JS_IteratorClose: an iterator that is left early is closed once, the
\* exception on its way out is not replaced by one of the method return, and
\* an exception of return is seen when there is no other.
IteratorsClosed ==
    /\ [](ClosedOnce /\ LeftEarlyIsClosed)
    /\ [][FirstErrorWins /\ ReturnErrorsSeen]_iterVars

-----------------------------------------------------------------------------
(* Proofs.  A loop keeps an iterator that no other loop has, that is open    *)
(* and that nobody has closed (OpenInLoops, OneLoopEach), so what a step     *)
(* does to the innermost iterator concerns no other loop.  A native consumer *)
(* runs only innermost, and what is left by break or return is a loop        *)
(* (OuterAreLoops, LeavesLoops).                                             *)

Iters == [ended : {"open", "done", "threw"}, returns : Nat, ret : ReturnKinds]
IterTypeOK ==
    /\ loops \in Seq([kind : DOMAIN Policy, it : Nat, at : {"next", "body"}])
    /\ iters \in Seq(Iters)
OpenInLoops ==
    \A k \in 1 .. Len(loops) :
        /\ loops[k].it \in 1 .. Len(iters)
        /\ iters[loops[k].it].ended = "open" /\ iters[loops[k].it].returns = 0
OneLoopEach == \A j, k \in 1 .. Len(loops) : loops[j].it = loops[k].it => j = k
OuterAreLoops == \A k \in 1 .. Len(loops) - 1 : loops[k].kind = "forOf"
LeavesLoops ==
    /\ signal.kind = "leave" => signal.n \in 1 .. Len(loops) /\ Inner.kind = "forOf"
    /\ signal \in {Run} \union {Throwing(e) : e \in {"next", "body", "return"}} \union {Leaving(n) : n \in Nat}
LoopsOwn == IterTypeOK /\ OpenInLoops /\ OneLoopEach /\ OuterAreLoops
            /\ ClosedOnce /\ LeftEarlyIsClosed
IterInv == LoopsOwn /\ LeavesLoops

\* A sequence without its last elements.
LEMMA Shortened ==
    ASSUME NEW S, NEW s \in Seq(S), NEW n \in 0 .. Len(s)
    PROVE  /\ SubSeq(s, 1, n) \in Seq(S) /\ Len(SubSeq(s, 1, n)) = n
           /\ \A i \in 1 .. n : SubSeq(s, 1, n)[i] = s[i]
OBVIOUS

\* The innermost loop and the loops around it.
LEMMA Around ==
    ASSUME IterTypeOK, loops # <<>>
    PROVE  /\ Len(loops) \in Nat /\ Len(loops) >= 1
           /\ Inner \in [kind : DOMAIN Policy, it : Nat, at : {"next", "body"}]
           /\ Outer \in Seq([kind : DOMAIN Policy, it : Nat, at : {"next", "body"}])
           /\ Len(Outer) = Len(loops) - 1
           /\ \A k \in 1 .. Len(Outer) : Outer[k] = loops[k]
<1> DEFINE L == [kind : DOMAIN Policy, it : Nat, at : {"next", "body"}]
<1>1. loops \in Seq(L)
  BY DEF IterTypeOK
<1> HIDE DEF L
<1>2. Len(loops) \in Nat /\ Len(loops) >= 1
  BY <1>1
<1>3. Inner \in L
  BY <1>1, <1>2 DEF Inner
<1>4. Outer \in Seq(L) /\ Len(Outer) = Len(loops) - 1 /\ \A k \in 1 .. Len(Outer) : Outer[k] = loops[k]
  <2>1. Len(loops) - 1 \in 0 .. Len(loops)
    BY <1>2
  <2> QED
    BY <1>1, <2>1, Shortened DEF Outer
<1> QED
  BY <1>2, <1>3, <1>4 DEF L

\* The innermost loop ends: what becomes of its iterator is settled here, and
\* the iterators of the loops around it are others.
LEMMA InnermostEnds ==
    ASSUME LoopsOwn, loops # <<>>, NEW r \in Iters,
           r.returns <= 1, r.ended = "open" /\ r.ret # "none" => r.returns = 1,
           loops' = Outer, iters' = [iters EXCEPT ![Inner.it] = r]
    PROVE  LoopsOwn'
<1> DEFINE n == Len(loops)
           i == Inner.it
<1>1. /\ n \in Nat /\ n >= 1 /\ Len(loops') = n - 1
      /\ \A k \in 1 .. n - 1 : loops'[k] = loops[k]
      /\ loops' \in Seq([kind : DOMAIN Policy, it : Nat, at : {"next", "body"}])
      /\ Inner = loops[n]
  BY Around DEF LoopsOwn, Inner
<1>2. i \in 1 .. Len(iters) /\ Len(iters) \in Nat /\ iters \in Seq(Iters)
  BY <1>1 DEF LoopsOwn, OpenInLoops, IterTypeOK
<1>3. /\ iters' \in Seq(Iters) /\ Len(iters') = Len(iters) /\ DOMAIN iters' = DOMAIN iters
      /\ DOMAIN iters = 1 .. Len(iters)
      /\ iters'[i] = r /\ \A j \in DOMAIN iters : j # i => iters'[j] = iters[j]
  BY <1>2
<1>4. \A k \in 1 .. n - 1 : loops[k].it # i
  BY <1>1 DEF LoopsOwn, OneLoopEach
<1>5. IterTypeOK'
  BY <1>1, <1>3 DEF IterTypeOK
<1>6. OpenInLoops'
  BY <1>1, <1>3, <1>4 DEF LoopsOwn, OpenInLoops
<1>7. OneLoopEach'
  BY <1>1 DEF LoopsOwn, OneLoopEach
<1>8. OuterAreLoops'
  <2>1. \A k \in 1 .. n - 1 : loops[k].kind = "forOf"
    BY DEF LoopsOwn, OuterAreLoops
  <2>2. \A k \in 1 .. Len(loops') - 1 : k \in 1 .. n - 1
    BY <1>1
  <2> QED
    BY <1>1, <2>1, <2>2 DEF OuterAreLoops
<1>9. ClosedOnce' /\ LeftEarlyIsClosed'
  <2> SUFFICES ASSUME NEW j \in DOMAIN iters
               PROVE  /\ iters'[j].returns <= 1
                      /\ j \notin InUse' /\ iters'[j].ended = "open" /\ iters'[j].ret # "none"
                            => iters'[j].returns = 1
    BY <1>3 DEF ClosedOnce, LeftEarlyIsClosed
  <2>1. CASE j = i
    BY <1>3, <2>1
  <2>2. CASE j # i
    <3>1. j \notin InUse' => j \notin InUse
      <4>1. DOMAIN loops' = 1 .. n - 1 /\ DOMAIN loops = 1 .. n
        BY <1>1 DEF LoopsOwn, IterTypeOK
      <4> QED
        BY <1>1, <2>2, <4>1 DEF InUse
    <3> QED
      BY <1>3, <2>2, <3>1 DEF LoopsOwn, ClosedOnce, LeftEarlyIsClosed
  <2> QED
    BY <2>1, <2>2
<1> QED
  BY <1>5, <1>6, <1>7, <1>8, <1>9 DEF LoopsOwn

\* The iterator of the innermost loop is open, and not closed yet.
LEMMA InnermostIsOpen ==
    ASSUME LoopsOwn, loops # <<>>
    PROVE  /\ InnerIter \in Iters /\ InnerIter.ended = "open" /\ InnerIter.returns = 0
           /\ Inner.it \in DOMAIN iters /\ Inner.kind \in DOMAIN Policy
           /\ iters \in Seq(Iters)
<1>1. Len(loops) \in Nat /\ Len(loops) >= 1 /\ Inner \in [kind : DOMAIN Policy, it : Nat, at : {"next", "body"}]
  BY Around DEF LoopsOwn
<1>2. Inner.it \in 1 .. Len(iters) /\ iters[Inner.it].ended = "open" /\ iters[Inner.it].returns = 0
  BY <1>1 DEF LoopsOwn, OpenInLoops, Inner
<1> QED
  BY <1>1, <1>2 DEF LoopsOwn, IterTypeOK, InnerIter

\* JS_GetIterator opens an iterator of its own for the new loop.
LEMMA StartKeeps ==
    ASSUME IterInv, NEW kind \in DOMAIN Policy, NEW ret \in ReturnKinds, Start(kind, ret)
    PROVE  IterInv'
<1> DEFINE r == [ended |-> "open", returns |-> 0, ret |-> ret]
           l == [kind |-> kind, it |-> Len(iters) + 1, at |-> "next"]
           L == [kind : DOMAIN Policy, it : Nat, at : {"next", "body"}]
<1>1. loops \in Seq(L) /\ iters \in Seq(Iters) /\ signal = Run /\ signal' = signal
  BY DEF IterInv, LoopsOwn, IterTypeOK, Start, MayStart
<1>2. /\ iters' = Append(iters, r) /\ loops' = Append(loops, l)
      /\ Len(loops) \in Nat /\ Len(iters) \in Nat
  BY <1>1 DEF Start
<1>3. r \in Iters /\ r.returns = 0 /\ r.ended = "open"
  BY DEF Iters
<1>4. l \in L /\ l.it = Len(iters) + 1 /\ l.kind = kind
  BY <1>2
<1> HIDE DEF r, l, L
<1>5. /\ iters' \in Seq(Iters) /\ Len(iters') = Len(iters) + 1 /\ iters'[Len(iters) + 1] = r
      /\ \A j \in 1 .. Len(iters) : iters'[j] = iters[j]
      /\ loops' \in Seq(L) /\ Len(loops') = Len(loops) + 1 /\ loops'[Len(loops) + 1] = l
      /\ \A j \in 1 .. Len(loops) : loops'[j] = loops[j]
  BY <1>1, <1>2, <1>3, <1>4
<1>6. IterTypeOK'
  BY <1>5 DEF IterTypeOK, L
<1>7. OpenInLoops'
  BY <1>2, <1>3, <1>4, <1>5 DEF IterInv, LoopsOwn, OpenInLoops
<1>8. OneLoopEach'
  BY <1>2, <1>4, <1>5 DEF IterInv, LoopsOwn, OpenInLoops, OneLoopEach
<1>9. OuterAreLoops'
  <2>1. Len(loops) # 0 => loops[Len(loops)].kind = "forOf"
    BY <1>1 DEF Start, MayStart, Inner
  <2> QED
    BY <1>2, <1>5, <2>1 DEF IterInv, LoopsOwn, OuterAreLoops
<1>10. ClosedOnce' /\ LeftEarlyIsClosed'
  <2> SUFFICES ASSUME NEW j \in 1 .. Len(iters) + 1
               PROVE  /\ iters'[j].returns <= 1
                      /\ j \notin InUse' /\ iters'[j].ended = "open" /\ iters'[j].ret # "none"
                            => iters'[j].returns = 1
    BY <1>5 DEF ClosedOnce, LeftEarlyIsClosed
  <2>1. InUse' = InUse \union {Len(iters) + 1}
    <3>1. DOMAIN loops = 1 .. Len(loops) /\ DOMAIN loops' = 1 .. Len(loops) + 1
      BY <1>1, <1>5
    <3>2. \A k \in 1 .. Len(loops) : loops'[k].it = loops[k].it
      BY <1>5
    <3>3. loops'[Len(loops) + 1].it = Len(iters) + 1
      BY <1>4, <1>5
    <3>4. 1 .. Len(loops) + 1 = (1 .. Len(loops)) \union {Len(loops) + 1}
      BY <1>2
    <3> HIDE DEF L
    <3>5. InUse' = {loops'[k].it : k \in 1 .. Len(loops) + 1}
      BY <3>1 DEF InUse
    <3>6. InUse = {loops[k].it : k \in 1 .. Len(loops)}
      BY <3>1 DEF InUse
    <3> QED
      BY <3>2, <3>3, <3>4, <3>5, <3>6
  <2>2. CASE j = Len(iters) + 1
    BY <1>3, <1>5, <2>1, <2>2
  <2>3. CASE j # Len(iters) + 1
    <3>1. j \in 1 .. Len(iters) /\ j \in DOMAIN iters
      BY <1>1, <1>2, <2>3
    <3> QED
      BY <1>5, <2>1, <3>1 DEF IterInv, LoopsOwn, ClosedOnce, LeftEarlyIsClosed
  <2> QED
    BY <2>2, <2>3
<1>11. LeavesLoops'
  BY <1>1 DEF LeavesLoops, Run
<1> QED
  BY <1>6, <1>7, <1>8, <1>9, <1>10, <1>11 DEF IterInv, LoopsOwn

\* An iterator whose next cannot be read belongs to no loop.
LEMMA NoNextKeeps ==
    ASSUME IterInv, NEW kind \in DOMAIN Policy, NEW ret \in ReturnKinds, NoNext(kind, ret)
    PROVE  IterInv'
<1> DEFINE r == [ended |-> "threw", ret |-> ret,
                 returns |-> IF Policy[kind].noNext /\ ret # "none" THEN 1 ELSE 0]
<1>1. /\ loops' = loops /\ iters \in Seq(Iters) /\ iters' = Append(iters, r)
      /\ Len(iters) \in Nat /\ signal' \in {Run, Throwing("next")}
      /\ DOMAIN loops = 1 .. Len(loops) /\ Len(loops) \in Nat
  BY DEF IterInv, LoopsOwn, IterTypeOK, NoNext
<1>2. r \in Iters /\ r.returns <= 1 /\ r.ended = "threw"
  BY DEF Iters
<1> HIDE DEF r
<1>3. /\ iters' \in Seq(Iters) /\ Len(iters') = Len(iters) + 1 /\ iters'[Len(iters) + 1] = r
      /\ \A j \in 1 .. Len(iters) : iters'[j] = iters[j]
  BY <1>1, <1>2
<1>4. IterTypeOK' /\ OneLoopEach' /\ OuterAreLoops'
  BY <1>1, <1>3 DEF IterInv, LoopsOwn, IterTypeOK, OneLoopEach, OuterAreLoops
<1>5. OpenInLoops'
  BY <1>1, <1>3 DEF IterInv, LoopsOwn, OpenInLoops
<1>6. ClosedOnce' /\ LeftEarlyIsClosed'
  <2> SUFFICES ASSUME NEW j \in 1 .. Len(iters) + 1
               PROVE  /\ iters'[j].returns <= 1
                      /\ j \notin InUse' /\ iters'[j].ended = "open" /\ iters'[j].ret # "none"
                            => iters'[j].returns = 1
    BY <1>3 DEF ClosedOnce, LeftEarlyIsClosed
  <2>1. CASE j = Len(iters) + 1
    BY <1>2, <1>3, <2>1
  <2>2. CASE j # Len(iters) + 1
    <3>1. j \in 1 .. Len(iters) /\ j \in DOMAIN iters /\ InUse' = InUse
      BY <1>1, <2>2 DEF InUse
    <3> QED
      BY <1>3, <3>1 DEF IterInv, LoopsOwn, ClosedOnce, LeftEarlyIsClosed
  <2> QED
    BY <2>1, <2>2
<1>7. LeavesLoops'
  BY <1>1 DEF LeavesLoops, Throwing, Leaving, Run
<1> QED
  BY <1>4, <1>5, <1>6, <1>7 DEF IterInv, LoopsOwn

\* A step between next and the body moves the innermost loop only.
LEMMA MoveKeeps ==
    ASSUME IterInv, NEW at \in {"next", "body"}, loops # <<>>, signal = Run,
           loops' = [loops EXCEPT ![Len(loops)].at = at], UNCHANGED <<iters, signal>>
    PROVE  IterInv'
<1> DEFINE L == [kind : DOMAIN Policy, it : Nat, at : {"next", "body"}]
           n == Len(loops)
<1>1. loops \in Seq(L) /\ n \in Nat /\ n >= 1 /\ Inner = loops[n] /\ Inner \in L /\ IterTypeOK
  BY Around DEF IterInv, LoopsOwn, IterTypeOK, Inner
<1>2. /\ loops' = [loops EXCEPT ![n] = [Inner EXCEPT !.at = at]]
      /\ [Inner EXCEPT !.at = at] \in L
      /\ [Inner EXCEPT !.at = at].it = Inner.it /\ [Inner EXCEPT !.at = at].kind = Inner.kind
  BY <1>1
<1> HIDE DEF L
<1>3. /\ loops' \in Seq(L) /\ Len(loops') = n
      /\ DOMAIN loops = 1 .. n /\ DOMAIN loops' = 1 .. n
      /\ \A k \in 1 .. n : loops'[k].it = loops[k].it /\ loops'[k].kind = loops[k].kind
  BY <1>1, <1>2
<1>4. IterTypeOK'
  BY <1>1, <1>3 DEF IterTypeOK, L
<1>5. OpenInLoops' /\ OneLoopEach' /\ OuterAreLoops'
  BY <1>3 DEF IterInv, LoopsOwn, OpenInLoops, OneLoopEach, OuterAreLoops
<1>6. ClosedOnce' /\ LeftEarlyIsClosed'
  <2>1. InUse' = InUse
    BY <1>3 DEF InUse
  <2> QED
    BY <2>1 DEF IterInv, LoopsOwn, ClosedOnce, LeftEarlyIsClosed
<1>7. LeavesLoops'
  BY DEF LeavesLoops, Run
<1> QED
  BY <1>4, <1>5, <1>6, <1>7 DEF IterInv, LoopsOwn

\* A step that leaves loops and iterators alone.
LEMMA SignalKeeps ==
    ASSUME IterInv, UNCHANGED <<loops, iters>>, LeavesLoops'
    PROVE  IterInv'
BY DEF IterInv, LoopsOwn, IterTypeOK, OpenInLoops, OneLoopEach, OuterAreLoops,
       ClosedOnce, LeftEarlyIsClosed, InUse

\* JS_IteratorClose ends the innermost loop: its iterator is closed once, and a
\* failure of return is thrown unless another exception is on its way.
LEMMA CloseKeeps ==
    ASSUME IterInv, CloseTop
    PROVE  /\ IterInv'
           /\ FirstErrorWins /\ ReturnErrorsSeen
<1> DEFINE i == Inner.it
           r == [iters[i] EXCEPT !.returns = IF iters[i].ret = "none" THEN @ ELSE @ + 1]
<1>1. /\ LoopsOwn /\ loops # <<>> /\ LeavesLoops /\ signal.kind \in {"throw", "leave"}
      /\ loops' = Outer /\ iters' = [iters EXCEPT ![i] = r]
  BY DEF IterInv, CloseTop, Returned
<1>2. /\ iters[i] \in Iters /\ iters[i].ended = "open" /\ iters[i].returns = 0
      /\ i \in DOMAIN iters
  BY <1>1, InnermostIsOpen DEF InnerIter
<1>3. r \in Iters /\ r.returns <= 1 /\ (r.ended = "open" /\ r.ret # "none" => r.returns = 1)
  BY <1>2 DEF Iters
<1> HIDE DEF r
<1>4. LoopsOwn'
  BY <1>1, <1>3, InnermostEnds
<1>5. /\ Len(loops) \in Nat /\ Len(loops) >= 1 /\ Len(loops') = Len(loops) - 1
      /\ \A k \in 1 .. Len(loops) - 1 : loops'[k] = loops[k]
  BY <1>1, Around DEF LoopsOwn
<1>6. CASE signal.kind = "throw"
  <2>1. signal' = IF Inner.kind = "promise" THEN Run ELSE signal
    BY <1>6 DEF CloseTop, CloseResult
  <2>2. LeavesLoops'
    BY <1>1, <1>6, <2>1 DEF LeavesLoops, Run
  <2> QED
    BY <1>4, <1>6, <2>1, <2>2 DEF IterInv, FirstErrorWins, ReturnErrorsSeen
<1>7. CASE signal.kind = "leave"
  <2>1. /\ Inner.kind = "forOf" /\ signal.n \in 1 .. Len(loops)
        /\ \E n \in Nat : signal = Leaving(n)
    BY <1>1, <1>7 DEF LeavesLoops, Run, Throwing
  <2>2. /\ iters[i].ret \in {"primitive", "throws"} => signal' = Throwing("return")
        /\ iters[i].ret \notin {"primitive", "throws"} =>
              signal' = IF signal.n = 1 THEN Run ELSE Leaving(signal.n - 1)
    BY <1>7, <2>1 DEF CloseTop, CloseResult, Throwing
  <2>3. LeavesLoops'
    <3>1. CASE signal' = Throwing("return") \/ signal' = Run
      BY <3>1 DEF LeavesLoops, Run, Throwing
    <3>2. CASE signal.n # 1 /\ signal' = Leaving(signal.n - 1)
      <4>1. signal'.kind = "leave" /\ signal'.n = signal.n - 1
        BY <3>2 DEF Leaving
      <4>2. /\ signal.n - 1 \in 1 .. Len(loops') /\ signal.n - 1 \in Nat
            /\ Len(loops) - 1 \in 1 .. Len(loops) - 1
        BY <1>5, <2>1, <3>2
      <4>3. loops'[Len(loops')].kind = "forOf"
        BY <1>1, <1>5, <4>2 DEF LoopsOwn, OuterAreLoops
      <4> QED
        BY <3>2, <4>1, <4>2, <4>3 DEF LeavesLoops, Inner
    <3> QED
      BY <2>2, <3>1, <3>2
  <2>4. FirstErrorWins /\ ReturnErrorsSeen
    BY <1>7, <2>2 DEF FirstErrorWins, ReturnErrorsSeen, InnerIter, Throwing
  <2> QED
    BY <1>4, <2>3, <2>4 DEF IterInv
<1> QED
  BY <1>1, <1>6, <1>7

\* JS_IteratorNext ends the innermost loop, at the end or with an exception.
LEMMA NextEndsKeeps ==
    ASSUME IterInv, NextDone \/ NextThrows
    PROVE  IterInv'
<1> DEFINE i == Inner.it
           d == [iters[i] EXCEPT !.ended = "done"]
           t == [iters[i] EXCEPT !.ended = "threw",
                   !.returns = IF Policy[Inner.kind].next /\ InnerIter.ret # "none" THEN @ + 1 ELSE @]
<1>1. /\ LoopsOwn /\ loops # <<>> /\ LeavesLoops /\ signal = Run /\ loops' = Outer
  BY DEF IterInv, NextDone, NextThrows, LoopAt
<1>2. iters[i] \in Iters /\ iters[i].returns = 0 /\ i \in DOMAIN iters /\ iters \in Seq(Iters)
  BY <1>1, InnermostIsOpen DEF InnerIter
<1>3. /\ d \in Iters /\ d.returns <= 1 /\ d.ended # "open"
      /\ t \in Iters /\ t.returns <= 1 /\ t.ended # "open"
  <2>1. d \in Iters /\ d.returns <= 1 /\ d.ended # "open"
    BY <1>2 DEF Iters
  <2> DEFINE e == [iters[i] EXCEPT !.ended = "threw"]
             v == IF Policy[Inner.kind].next /\ InnerIter.ret # "none"
                  THEN iters[i].returns + 1 ELSE iters[i].returns
  <2>2. e \in Iters /\ e.ended = "threw" /\ v \in {0, 1} /\ t = [e EXCEPT !.returns = v]
    BY <1>2 DEF Iters
  <2>3. t \in Iters /\ t.returns <= 1 /\ t.ended # "open"
    <3> HIDE DEF t, e, v
    <3> QED
      BY <2>2 DEF Iters
  <2> QED
    BY <2>1, <2>3
<1>4. CASE NextDone
  <2>1. iters' = [iters EXCEPT ![i] = d]
    BY <1>2, <1>4 DEF NextDone
  <2>2. signal' = Run
    BY <1>1, <1>4 DEF NextDone
  <2> HIDE DEF d, t
  <2>3. LoopsOwn'
    BY <1>1, <1>3, <2>1, InnermostEnds
  <2> QED
    BY <2>2, <2>3 DEF IterInv, LeavesLoops, Run
<1>5. CASE NextThrows
  <2>1. iters' = [iters EXCEPT ![i] = t]
    BY <1>2, <1>5 DEF NextThrows
  <2>2. signal' = Run \/ signal' = Throwing("next")
    BY <1>5 DEF NextThrows
  <2> HIDE DEF d, t
  <2>3. LoopsOwn'
    BY <1>1, <1>3, <2>1, InnermostEnds
  <2> QED
    BY <2>2, <2>3 DEF IterInv, LeavesLoops, Run, Throwing
<1> QED
  BY <1>4, <1>5

\* Every step keeps the loops and their iterators in order, and treats an
\* exception on its way out as JS_IteratorClose must.
LEMMA IterStep ==
    ASSUME IterInv, [IterNext]_iterVars
    PROVE  IterInv' /\ [FirstErrorWins /\ ReturnErrorsSeen]_iterVars
<1>1. CASE \E k \in Consumers, ret \in ReturnKinds : Start(k, ret) \/ NoNext(k, ret)
  <2>1. IterInv'
    BY <1>1, StartKeeps, NoNextKeeps, ConsumersAssumption
  <2>2. signal.kind = "run"
    BY <1>1 DEF Start, NoNext, MayStart, Run
  <2> QED
    BY <2>1, <2>2 DEF FirstErrorWins, ReturnErrorsSeen
<1>2. CASE NextValue \/ BodyEnds
  <2>1. IterInv' /\ signal.kind = "run"
    BY <1>2, MoveKeeps DEF NextValue, BodyEnds, LoopAt, Run
  <2> QED
    BY <2>1 DEF FirstErrorWins, ReturnErrorsSeen
<1>3. CASE NextDone \/ NextThrows
  <2>1. IterInv' /\ signal.kind = "run"
    BY <1>3, NextEndsKeeps DEF NextDone, NextThrows, LoopAt, Run
  <2> QED
    BY <2>1 DEF FirstErrorWins, ReturnErrorsSeen
<1>4. CASE LoopThrows
  <2>1. UNCHANGED <<loops, iters>> /\ signal' = Throwing("body") /\ signal.kind = "run"
    BY <1>4 DEF LoopThrows, LoopAt, Run
  <2>2. LeavesLoops'
    BY <2>1 DEF LeavesLoops, Throwing
  <2> QED
    BY <2>1, <2>2, SignalKeeps DEF FirstErrorWins, ReturnErrorsSeen
<1>5. CASE \E n \in 1 .. MaxLoops : BodyLeaves(n)
  <2>1. PICK n \in 1 .. MaxLoops : BodyLeaves(n)
    BY <1>5
  <2>2. /\ UNCHANGED <<loops, iters>> /\ signal' = Leaving(n) /\ signal.kind = "run"
        /\ Inner.kind = "forOf" /\ n <= Len(loops) /\ n \in Nat /\ n >= 1
    BY <2>1 DEF BodyLeaves, LoopAt, Run
  <2>3. Len(loops) \in Nat
    BY DEF IterInv, LoopsOwn, IterTypeOK
  <2>4. LeavesLoops'
    BY <2>2, <2>3 DEF LeavesLoops, Leaving, Inner
  <2> QED
    BY <2>2, <2>4, SignalKeeps DEF FirstErrorWins, ReturnErrorsSeen
<1>6. CASE CloseTop
  BY <1>6, CloseKeeps
<1>7. CASE Unwound
  <2>1. UNCHANGED <<loops, iters>> /\ signal' = Run /\ loops = <<>>
    BY <1>7 DEF Unwound
  <2>2. LeavesLoops'
    BY <2>1 DEF LeavesLoops, Run
  <2> QED
    BY <2>1, <2>2, SignalKeeps DEF FirstErrorWins, ReturnErrorsSeen
<1>8. CASE UNCHANGED iterVars
  <2>1. UNCHANGED <<loops, iters, signal>>
    BY <1>8 DEF iterVars
  <2>2. LeavesLoops'
    BY <2>1 DEF IterInv, LeavesLoops, Inner
  <2> QED
    BY <1>8, <2>1, <2>2, SignalKeeps
<1> QED
  BY <1>1, <1>2, <1>3, <1>4, <1>5, <1>6, <1>7, <1>8 DEF IterNext, Done

\* In every reachable state loops and iterators are in order.
LEMMA AlwaysInOrder == IterSpec => []IterInv
<1>1. IterInit => IterInv
  BY DEF IterInit, IterInv, LoopsOwn, IterTypeOK, OpenInLoops, OneLoopEach, OuterAreLoops,
         ClosedOnce, LeftEarlyIsClosed, LeavesLoops, Run
<1>2. IterInv /\ [IterNext]_iterVars => IterInv'
  BY IterStep
<1> QED
  BY <1>1, <1>2, PTL DEF IterSpec

\* JS_IteratorClose, for loops nested to any depth and any number of iterators
\* and consumers: an iterator that is left early is closed exactly once, the
\* first exception is the one that is seen, and an exception of return is not
\* lost where there was none before.
THEOREM IteratorsAlwaysClosed == IterSpec => IteratorsClosed
<1>1. IterInv => ClosedOnce /\ LeftEarlyIsClosed
  BY DEF IterInv, LoopsOwn
<1>2. IterInv /\ [IterNext]_iterVars => [FirstErrorWins /\ ReturnErrorsSeen]_iterVars
  BY IterStep
<1> QED
  BY <1>1, <1>2, AlwaysInOrder, PTL DEF IterSpec, IteratorsClosed
================================================================================
