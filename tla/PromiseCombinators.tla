-------------------------- MODULE PromiseCombinators --------------------------
(***************************************************************************)
(* Promise.all, Promise.allSettled, Promise.any and Promise.race on top of *)
(* the promise heap.  A call creates one closure per item; the closures    *)
(* share the array of values and the counter of the remaining elements,    *)
(* and they run as jobs, between anything else user code does.             *)
(***************************************************************************)
EXTENDS Promises, SequencesExt

CONSTANTS Calls,    \* which of the four functions user code calls
          MaxItems, \* bound: items of the iterable
          MaxCombs  \* bound: calls of the four functions

VARIABLE combs  \* resolve_element_env and values of every call, in order
cvars == <<vars, combs>>

Absent == [state |-> "absent", v |-> Undefined]
ElementHandler(k, c, i) == Handler(k, c, Val("prim", i))
ArrayOf(c) == Val("array", c)
AggregateError(c) == Val("error", c)

\* The two functions js_promise_all and js_promise_race pass to then for item
\* i of call c, whose resolving functions are pair.
OnFulfil(kind, pair, c, i) ==
    CASE kind \in {"all", "allSettled"} -> ElementHandler("element", c, i)
      [] OTHER -> ResolveHandler(pair)
OnReject(kind, pair, c, i) ==
    CASE kind = "allSettled" -> ElementHandler("rejectElement", c, i)
      [] kind = "any" -> ElementHandler("element", c, i)
      [] OTHER -> RejectHandler(pair)

\* One turn of the loop over the iterable: Promise.resolve, then then.
Subscribe(kind, pair, c, m, item, i) ==
    LET m1 == PromiseResolve(m, FALSE, item)
        q == PromiseOf(m1, FALSE, item)
    IN Then(m1, q, OnFulfil(kind, pair, c, i), OnReject(kind, pair, c, i))

\* The last element is in: resolve with the values, or reject with all the
\* errors when none of Promise.any was fulfilled.
Deliver(m, kind, pair, c) ==
    IF kind = "any" THEN CallResolvingFunction(m, pair, TRUE, AggregateError(c))
    ELSE CallResolvingFunction(m, pair, FALSE, ArrayOf(c))

NewComb(kind, pair, items, cut, n) ==
    [kind |-> kind, pair |-> pair, items |-> items, cut |-> cut, remaining |-> n,
     values |-> [i \in 1 .. Len(items) |-> Absent], called |-> {}]

\* Mutant: remainingElementsCount starts at 0 instead of 1.
AllCountsFromZero(kind, items, cut) ==
    LET m0 == NewPromiseCapability(vm)
        pair == LastPair(m0)
        c == Len(combs) + 1
        m1 == FoldLeftDomain(LAMBDA m, i : Subscribe(kind, pair, c, m, items[i], i),
                             m0, items)
    IN /\ combs' = Append(combs, NewComb(kind, pair, items, cut, Len(items) - 1))
       /\ Act(m1)

\* js_promise_all (all, allSettled, any).  The counter starts at 1, so that it
\* cannot reach 0 before the loop has ended; cut is an iterator that throws
\* after the items it has given.
All(kind, items, cut) ==
    LET m0 == NewPromiseCapability(vm)
        pair == LastPair(m0)
        c == Len(combs) + 1
        m1 == FoldLeftDomain(LAMBDA m, i : Subscribe(kind, pair, c, m, items[i], i),
                             m0, items)
        n == 1 + Len(items) - (IF cut THEN 0 ELSE 1)
    IN /\ combs' = Append(combs, NewComb(kind, pair, items, cut, n))
       /\ Act(IF cut THEN CallResolvingFunction(m1, pair, TRUE, Error)
              ELSE IF n = 0 THEN Deliver(m1, kind, pair, c) ELSE m1)

\* js_promise_race: the items share the resolving functions themselves.
Race(items, cut) ==
    LET m0 == NewPromiseCapability(vm)
        pair == LastPair(m0)
        m1 == FoldLeftDomain(LAMBDA m, i : Subscribe("race", pair, 0, m, items[i], i),
                             m0, items)
    IN /\ combs' = Append(combs, NewComb("race", pair, items, cut, 0))
       /\ Act(IF cut THEN CallResolvingFunction(m1, pair, TRUE, Error) ELSE m1)

Items == {PromiseVal(p) : p \in 1 .. NP(vm)} \cup {Prim}
Prims(items) == Cardinality({i \in DOMAIN items : items[i] = Prim})

Combine(kind, items, cut) ==
    /\ ops < MaxOps /\ Len(combs) < MaxCombs /\ Idle
    /\ Room(1 + Len(items) + Prims(items))
    /\ IF kind = "race" THEN Race(items, cut) ELSE All(kind, items, cut)
    /\ UNCHANGED <<stack, history>>

\* js_promise_all_resolve_element: the value is stored at its own index, and
\* the call that brings the counter to 0 delivers the array.
Element(m, c, i, isReject, v) ==
    LET b == combs[c]
        f == <<i, isReject>>
        state == IF b.kind # "allSettled" THEN "value"
                 ELSE IF isReject THEN "rejected" ELSE "fulfilled"
        b1 == [b EXCEPT !.values[i] = [state |-> state, v |-> v],
                        !.remaining = @ - 1, !.called = @ \cup {f}]
    IN IF f \in b.called
       THEN combs' = combs /\ vm' = Complete(m, Job.cap, FALSE, Undefined)
       ELSE /\ combs' = [combs EXCEPT ![c] = b1]
            /\ vm' = Complete(IF b1.remaining = 0 THEN Deliver(m, b.kind, b.pair, c)
                              ELSE m, Job.cap, FALSE, Undefined)

RunElement ==
    /\ RunnableReaction({"element", "rejectElement"})
    /\ Element(Dequeued, Job.h.i, Job.h.v.n, Job.h.k = "rejectElement", Job.arg)
    /\ calls' = Ran
    /\ UNCHANGED <<stack, ops, history>>

CInit == Init /\ combs = <<>>
CNext ==
    \/ (UserNext \/ JobNext) /\ UNCHANGED combs
    \/ \E kind \in Calls, cut \in BOOLEAN, n \in 0 .. MaxItems :
         \E items \in [1 .. n -> Items] : Combine(kind, items, cut)
    \/ RunElement
CSpec == CInit /\ [][CNext]_cvars

-----------------------------------------------------------------------------
(* Properties *)

ResultOf(c) == vm.promises[vm.pairs[combs[c].pair].promise]
\* The outcome of item i, a primitive counting as a fulfilled promise.
ItemState(c, i) ==
    LET v == combs[c].items[i]
    IN IF v.t = "promise" THEN vm.promises[v.n].state ELSE "fulfilled"
ItemValue(c, i) ==
    LET v == combs[c].items[i]
    IN IF v.t = "promise" THEN vm.promises[v.n].result ELSE v
ItemsOf(c) == DOMAIN combs[c].items
AllHave(c, s) == \A i \in ItemsOf(c) : ItemState(c, i) = s
SomeHas(c, s) == \E i \in ItemsOf(c) : ItemState(c, i) = s

\* When all jobs have run, the promise of Promise.all is fulfilled exactly
\* when every item is, with every value at the index of its item; it is
\* rejected exactly when some item is or the iterator threw, with that item's
\* error.  Promise.allSettled never rejects and Promise.any is the mirror
\* image of Promise.all; each waits for exactly the items it must wait for.
CombinatorOutcome ==
    Quiescent => \A c \in 1 .. Len(combs) :
        LET b == combs[c]
            r == ResultOf(c)
            waits == CASE b.kind = "all" -> SomeHas(c, "pending") /\ ~SomeHas(c, "rejected")
                       [] b.kind = "any" -> SomeHas(c, "pending") /\ ~SomeHas(c, "fulfilled")
                       [] b.kind = "allSettled" -> SomeHas(c, "pending")
                       [] b.kind = "race" -> AllHave(c, "pending")
        IN /\ (r.state = "pending") <=> (waits /\ ~b.cut)
           /\ b.kind = "all" /\ ~b.cut /\ r.state = "fulfilled" =>
                /\ r.result = ArrayOf(c)
                /\ \A i \in ItemsOf(c) : b.values[i].v = ItemValue(c, i)
           /\ b.kind = "allSettled" /\ ~b.cut /\ r.state # "pending" =>
                /\ r.state = "fulfilled" /\ r.result = ArrayOf(c)
                /\ \A i \in ItemsOf(c) : b.values[i] = [state |-> ItemState(c, i),
                                                        v |-> ItemValue(c, i)]
           /\ b.kind = "any" /\ ~b.cut /\ r.state = "rejected" =>
                \A i \in ItemsOf(c) : b.values[i].v = ItemValue(c, i)
           /\ b.kind \in {"all", "race"} /\ r.state = "rejected" =>
                b.cut \/ \E i \in ItemsOf(c) : ItemState(c, i) = "rejected"
                                               /\ ItemValue(c, i) = r.result

\* The array that a fulfilled promise delivers does not change any more: no
\* closure writes to it after the counter has reached 0.
DeliveredValuesStay ==
    \A c \in 1 .. Len(combs) :
        combs[c].remaining = 0 => combs'[c].values = combs[c].values
================================================================================
