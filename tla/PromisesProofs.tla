---------------------------- MODULE PromisesProofs ----------------------------
(***************************************************************************)
(* Proofs about Promises, for any bounds and any operations of user code:  *)
(* a promise can be settled in exactly one way while it is pending and in  *)
(* none afterwards, so that what it was settled with stays.                *)
(*                                                                         *)
(* The inductive invariant is PInv.  OneWay says what OneWayToSettle says  *)
(* without counting; beside it, everything in the heap refers to promises  *)
(* and pairs that exist.                                                   *)
(*                                                                         *)
(* The second part is about AsyncFunctions on the same heap: a suspended   *)
(* function is resumed once for each await.  Its invariant AInv adds where *)
(* the functions that resume it are kept (Awaits).                         *)
(***************************************************************************)
EXTENDS AsyncFunctions, FiniteSetTheorems, SequenceTheorems, TLAPS

\* What heaps with n promises and k pairs of resolving functions are made of.
ValuesOf(n) == {v \in Values : v.t = "promise" => v.n \in 1 .. n}
HandlerKinds == {"undefined", "user", "resolve", "reject", "finally", "thunk",
                 "thrower"}
AllHandlers == HandlerKinds \cup {"await", "awaitThrow"}
HandlersOf(n, k) ==
    {h \in [k : AllHandlers, i : Nat, v : ValuesOf(n)] :
        h.k \in {"resolve", "reject"} => h.i \in 1 .. k}
ReactionsOf(n, k) ==
    [onFulfil : HandlersOf(n, k), onReject : HandlersOf(n, k), cap : 0 .. k]
PromisesOf(n, k) ==
    [state : States, result : ValuesOf(n), handled : BOOLEAN,
     reactions : Seq(ReactionsOf(n, k))]
PairsOf(n) == [promise : 1 .. n, already : BOOLEAN, exposed : BOOLEAN]
JobsOf(n, k) ==
    [k : {"reaction"}, h : HandlersOf(n, k), cap : 0 .. k, rej : BOOLEAN,
     arg : ValuesOf(n)]
    \cup [k : {"thenable"}, h : HandlersOf(n, k), cap : 1 .. n, rej : BOOLEAN,
          arg : ValuesOf(n)]
Heaps(n, k) ==
    {m \in [promises : Seq(PromisesOf(n, k)), pairs : Seq(PairsOf(n)),
            jobs : Seq(JobsOf(n, k)), late : BOOLEAN] :
        Len(m.promises) = n /\ Len(m.pairs) = k}

FrameKinds == {"executor", "handler", "finally", "then"}
FramesOf(n, k) ==
    [k : FrameKinds, pair : 0 .. k, magic : Nat, arg : ValuesOf(n)]
    \cup [k : {"async"}, pair : Nat, magic : Nat, arg : ValuesOf(n)]

\* The ways to settle a promise: unused pairs of resolving functions, and jobs
\* that will create the next pair.
Unused(m) == {i \in 1 .. Len(m.pairs) : ~m.pairs[i].already}
Following(m) == {j \in 1 .. Len(m.jobs) : m.jobs[j].k = "thenable"}

PairsDiffer(m) ==
    \A i, j \in Unused(m) : m.pairs[i].promise = m.pairs[j].promise => i = j
JobsDiffer(m) ==
    \A i, j \in Following(m) : m.jobs[i].cap = m.jobs[j].cap => i = j
PairOrJob(m) ==
    \A i \in Unused(m), j \in Following(m) : m.pairs[i].promise # m.jobs[j].cap
OnlyPending(m) ==
    /\ \A i \in Unused(m) : m.promises[m.pairs[i].promise].state = "pending"
    /\ \A j \in Following(m) : m.promises[m.jobs[j].cap].state = "pending"
AllPending(m) ==
    \A p \in 1 .. Len(m.promises) : m.promises[p].state = "pending" =>
        \/ \E i \in Unused(m) : m.pairs[i].promise = p
        \/ \E j \in Following(m) : m.jobs[j].cap = p
OneWay(m) ==
    /\ PairsDiffer(m) /\ JobsDiffer(m) /\ PairOrJob(m)
    /\ OnlyPending(m) /\ AllPending(m)

Sound(m, n, k) == m \in Heaps(n, k) /\ OneWay(m) /\ m.late = FALSE

PInv ==
    /\ Sound(vm, Len(vm.promises), Len(vm.pairs))
    /\ stack \in Seq(FramesOf(Len(vm.promises), Len(vm.pairs)))

\* The handlers of a reaction that resumes an async function.
IsAwait(h) == h.k \in {"await", "awaitThrow"}
Ordinary(r) == ~IsAwait(r.onFulfil) /\ ~IsAwait(r.onReject)
Resuming(r) ==
    /\ r.onFulfil.k = "await" /\ r.onReject.k = "awaitThrow"
    /\ r.onFulfil.i = r.onReject.i

\* F are the suspended functions and on[f] is what f awaits.  A reaction that
\* resumes f is kept by the awaited promise while that is pending; the job it
\* becomes carries the outcome.  No function has two, and every one has one.
ReactionsAwait(m, F, on) ==
    \A p \in 1 .. Len(m.promises) :
        /\ m.promises[p].state # "pending" => m.promises[p].reactions = <<>>
        /\ \A j \in 1 .. Len(m.promises[p].reactions) :
              \/ Ordinary(m.promises[p].reactions[j])
              \/ /\ Resuming(m.promises[p].reactions[j])
                 /\ m.promises[p].reactions[j].onFulfil.i \in F
                 /\ on[m.promises[p].reactions[j].onFulfil.i] = p
ReactionsDiffer(m) ==
    \A p \in 1 .. Len(m.promises) :
        \A i, j \in 1 .. Len(m.promises[p].reactions) :
            /\ Resuming(m.promises[p].reactions[i])
            /\ Resuming(m.promises[p].reactions[j])
            /\ m.promises[p].reactions[i].onFulfil.i
                = m.promises[p].reactions[j].onFulfil.i
            => i = j
JobsAwait(m, F, on) ==
    \A j \in 1 .. Len(m.jobs) : IsAwait(m.jobs[j].h) =>
        /\ m.jobs[j].k = "reaction" /\ m.jobs[j].h.i \in F
        /\ on[m.jobs[j].h.i] \in 1 .. Len(m.promises)
        /\ m.promises[on[m.jobs[j].h.i]].state
            = IF m.jobs[j].h.k = "awaitThrow" THEN "rejected" ELSE "fulfilled"
        /\ m.promises[on[m.jobs[j].h.i]].result = m.jobs[j].arg
WakesDiffer(m) ==
    \A i, j \in 1 .. Len(m.jobs) :
        /\ IsAwait(m.jobs[i].h) /\ IsAwait(m.jobs[j].h)
        /\ m.jobs[i].h.i = m.jobs[j].h.i
        => i = j
AllResumed(m, F, on) ==
    \A f \in F :
        \/ \E j \in 1 .. Len(m.jobs) : IsAwait(m.jobs[j].h) /\ m.jobs[j].h.i = f
        \/ /\ on[f] \in 1 .. Len(m.promises)
           /\ \E j \in 1 .. Len(m.promises[on[f]].reactions) :
                 /\ Resuming(m.promises[on[f]].reactions[j])
                 /\ m.promises[on[f]].reactions[j].onFulfil.i = f
Awaits(m, F, on) ==
    /\ ReactionsAwait(m, F, on) /\ ReactionsDiffer(m)
    /\ JobsAwait(m, F, on) /\ WakesDiffer(m) /\ AllResumed(m, F, on)

Suspended == {f \in 1 .. Len(afs) : afs[f].state = "awaiting"}
AwaitedBy == [f \in 1 .. Len(afs) |-> hist[f].on]

\* Exactly the running functions have a frame, and only one.
OneFrame ==
    /\ \A i \in 1 .. Len(stack) : stack[i].k = "async" =>
          /\ stack[i].pair \in 1 .. Len(afs)
          /\ afs[stack[i].pair].state = "running"
    /\ \A i, j \in 1 .. Len(stack) :
          /\ stack[i].k = "async" /\ stack[j].k = "async"
          /\ stack[i].pair = stack[j].pair
          => i = j
    /\ \A f \in 1 .. Len(afs) : afs[f].state = "running" =>
          \E i \in 1 .. Len(stack) : stack[i].k = "async" /\ stack[i].pair = f
EndedUsed ==
    \A f \in 1 .. Len(afs) :
        afs[f].state = "done" => vm.pairs[afs[f].pair].already
CallStates == {"running", "awaiting", "done"}
CallsOf(k) == [pair : 1 .. k, state : CallStates]
AInv ==
    /\ PInv
    /\ afs \in Seq(CallsOf(Len(vm.pairs)))
    /\ hist \in Seq([on : Nat, same : {TRUE}]) /\ Len(hist) = Len(afs)
    /\ Awaits(vm, Suspended, AwaitedBy)
    /\ OneFrame /\ EndedUsed

\* What was settled stays as it is.
Keeps(m1, m2) ==
    \A p \in 1 .. Len(m1.promises) : m1.promises[p].state # "pending" =>
        /\ p \in 1 .. Len(m2.promises)
        /\ m2.promises[p].state = m1.promises[p].state
        /\ m2.promises[p].result = m1.promises[p].result

-----------------------------------------------------------------------------
(* Heaps only grow. *)

\* A value, handler or reaction of a heap is one of every larger heap.
LEMMA WiderParts ==
    ASSUME NEW n \in Nat, NEW k \in Nat, NEW n2 \in Nat, NEW k2 \in Nat,
           n <= n2, k <= k2
    PROVE  /\ ValuesOf(n) \subseteq ValuesOf(n2)
           /\ HandlersOf(n, k) \subseteq HandlersOf(n2, k2)
           /\ ReactionsOf(n, k) \subseteq ReactionsOf(n2, k2)
<1>1. ValuesOf(n) \subseteq ValuesOf(n2)
  BY DEF ValuesOf
<1>2. HandlersOf(n, k) \subseteq HandlersOf(n2, k2)
  BY <1>1 DEF HandlersOf
<1>3. ReactionsOf(n, k) \subseteq ReactionsOf(n2, k2)
  BY <1>2 DEF ReactionsOf
<1> QED
  BY <1>1, <1>2, <1>3

\* A sequence over a set is one over every larger set.
LEMMA WiderSeq ==
    ASSUME NEW S, NEW T, S \subseteq T
    PROVE  Seq(S) \subseteq Seq(T)
<1> SUFFICES ASSUME NEW s \in Seq(S) PROVE s \in Seq(T)
  OBVIOUS
<1>1. s \in [1 .. Len(s) -> T] /\ Len(s) \in Nat
  OBVIOUS
<1> QED
  BY <1>1

\* The same of promises, pairs, jobs and frames.
LEMMA Wider ==
    ASSUME NEW n \in Nat, NEW k \in Nat, NEW n2 \in Nat, NEW k2 \in Nat,
           n <= n2, k <= k2
    PROVE  /\ PromisesOf(n, k) \subseteq PromisesOf(n2, k2)
           /\ PairsOf(n) \subseteq PairsOf(n2)
           /\ JobsOf(n, k) \subseteq JobsOf(n2, k2)
           /\ FramesOf(n, k) \subseteq FramesOf(n2, k2)
<1>1. /\ ValuesOf(n) \subseteq ValuesOf(n2)
      /\ HandlersOf(n, k) \subseteq HandlersOf(n2, k2)
      /\ ReactionsOf(n, k) \subseteq ReactionsOf(n2, k2)
  BY WiderParts
<1>2. Seq(ReactionsOf(n, k)) \subseteq Seq(ReactionsOf(n2, k2))
  BY <1>1, WiderSeq
<1>3. PromisesOf(n, k) \subseteq PromisesOf(n2, k2)
  BY <1>1, <1>2 DEF PromisesOf
<1>4. PairsOf(n) \subseteq PairsOf(n2)
  BY DEF PairsOf
<1>5. 0 .. k \subseteq 0 .. k2 /\ 1 .. n \subseteq 1 .. n2
  OBVIOUS
<1>6. JobsOf(n, k) \subseteq JobsOf(n2, k2)
  BY <1>1, <1>5 DEF JobsOf
<1>7. FramesOf(n, k) \subseteq FramesOf(n2, k2)
  BY <1>1, <1>5 DEF FramesOf
<1> QED
  BY <1>3, <1>4, <1>6, <1>7

-----------------------------------------------------------------------------
(* The operations on heaps. *)

\* The fields of a heap.
LEMMA HeapFields ==
    ASSUME NEW n \in Nat, NEW k \in Nat, NEW m \in Heaps(n, k)
    PROVE  /\ m.promises \in Seq(PromisesOf(n, k)) /\ Len(m.promises) = n
           /\ m.pairs \in Seq(PairsOf(n)) /\ Len(m.pairs) = k
           /\ m.jobs \in Seq(JobsOf(n, k)) /\ Len(m.jobs) \in Nat
           /\ m = [promises |-> m.promises, pairs |-> m.pairs, jobs |-> m.jobs,
                   late |-> m.late]
           /\ \A p \in 1 .. n : m.promises[p] \in PromisesOf(n, k)
           /\ \A i \in 1 .. k : m.pairs[i] \in PairsOf(n)
           /\ \A j \in 1 .. Len(m.jobs) : m.jobs[j] \in JobsOf(n, k)
<1>1. /\ m.promises \in Seq(PromisesOf(n, k)) /\ Len(m.promises) = n
      /\ m.pairs \in Seq(PairsOf(n)) /\ Len(m.pairs) = k
      /\ m.jobs \in Seq(JobsOf(n, k))
      /\ m = [promises |-> m.promises, pairs |-> m.pairs, jobs |-> m.jobs,
              late |-> m.late]
  BY DEF Heaps
<1> QED
  BY <1>1

\* A heap with another list of jobs.
LEMMA WithJobs ==
    ASSUME NEW n \in Nat, NEW k \in Nat, NEW m \in Heaps(n, k),
           NEW jobs \in Seq(JobsOf(n, k)), NEW m2, m2 = [m EXCEPT !.jobs = jobs]
    PROVE  /\ m2 \in Heaps(n, k) /\ m2.jobs = jobs
           /\ m2.promises = m.promises /\ m2.pairs = m.pairs
           /\ m2.late = m.late
BY DEF Heaps

\* What is behind the jobs of a list, and before it.
LEMMA Behind ==
    ASSUME NEW S, NEW a \in Seq(S), NEW b \in Seq(S)
    PROVE  /\ a \o b \in Seq(S) /\ Len(a \o b) = Len(a) + Len(b)
           /\ \A j \in 1 .. Len(a) : (a \o b)[j] = a[j]
           /\ \A j \in 1 .. Len(a \o b) : j > Len(a) =>
                 j - Len(a) \in 1 .. Len(b) /\ (a \o b)[j] = b[j - Len(a)]
<1>1. /\ a \o b \in Seq(S) /\ Len(a \o b) = Len(a) + Len(b)
      /\ \A i \in 1 .. Len(a) + Len(b) : (a \o b)[i] =
            IF i <= Len(a) THEN a[i] ELSE b[i - Len(a)]
  BY ConcatProperties, Zenon
<1>2. Len(a) \in Nat /\ Len(b) \in Nat
  OBVIOUS
<1> QED
  BY <1>1, <1>2

\* The promise has its outcome, and each of its reactions is a job.
Delivers(m, m2, p, v, isReject) ==
    /\ m2.promises[p].state = IF isReject THEN "rejected" ELSE "fulfilled"
    /\ m2.promises[p].result = v /\ m2.promises[p].reactions = <<>>
    /\ Len(m2.jobs) = Len(m.jobs) + Len(m.promises[p].reactions)
    /\ \A j \in 1 .. Len(m2.jobs) : j > Len(m.jobs) =>
          LET i == j - Len(m.jobs)
              r == m.promises[p].reactions[i]
          IN /\ i \in 1 .. Len(m.promises[p].reactions)
             /\ m2.jobs[j].k = "reaction" /\ m2.jobs[j].arg = v
             /\ m2.jobs[j].h = IF isReject THEN r.onReject ELSE r.onFulfil
             /\ m2.jobs[j].cap = r.cap /\ m2.jobs[j].rej = isReject

\* What Settle makes of a pending promise.
LEMMA SettleFields ==
    ASSUME NEW n \in Nat, NEW k \in Nat, NEW m \in Heaps(n, k),
           NEW p \in 1 .. n, NEW v \in ValuesOf(n), NEW isReject \in BOOLEAN,
           m.promises[p].state = "pending"
    PROVE  LET m2 == Settle(m, p, v, isReject)
               s == m2.promises[p]
           IN /\ m2 \in Heaps(n, k) /\ m2.pairs = m.pairs /\ m2.late = m.late
              /\ m2.promises = [m.promises EXCEPT ![p] = s]
              /\ s.state # "pending"
              /\ Len(m2.jobs) >= Len(m.jobs)
              /\ \A j \in 1 .. Len(m.jobs) : m2.jobs[j] = m.jobs[j]
              /\ \A j \in 1 .. Len(m2.jobs) :
                    j > Len(m.jobs) => m2.jobs[j].k = "reaction"
              /\ Delivers(m, m2, p, v, isReject)
<1> DEFINE s == m.promises[p]
           J(r) == ReactionJob(IF isReject THEN r.onReject ELSE r.onFulfil,
                               r.cap, isReject, v)
           new == [state |-> IF isReject THEN "rejected" ELSE "fulfilled",
                   result |-> v, handled |-> s.handled, reactions |-> <<>>]
           more == [j \in 1 .. Len(s.reactions) |-> J(s.reactions[j])]
           m2 == Settle(m, p, v, isReject)
<1>1. /\ s \in PromisesOf(n, k) /\ m.promises \in Seq(PromisesOf(n, k))
      /\ m.jobs \in Seq(JobsOf(n, k)) /\ Len(m.promises) = n
      /\ s.reactions \in Seq(ReactionsOf(n, k)) /\ Len(s.reactions) \in Nat
      /\ Len(m.jobs) \in Nat
  <2>1. /\ s \in PromisesOf(n, k) /\ m.promises \in Seq(PromisesOf(n, k))
        /\ m.jobs \in Seq(JobsOf(n, k)) /\ Len(m.promises) = n
    BY HeapFields
  <2>2. s.reactions \in Seq(ReactionsOf(n, k))
    BY <2>1 DEF PromisesOf
  <2> QED
    BY <2>1, <2>2
<1>2. \A r \in ReactionsOf(n, k) : J(r) \in JobsOf(n, k) /\ J(r).k = "reaction"
  BY DEF ReactionsOf, ReactionJob, JobsOf
<1>3. /\ more \in Seq(JobsOf(n, k)) /\ Len(more) = Len(s.reactions)
      /\ \A j \in 1 .. Len(more) : more[j].k = "reaction"
  BY <1>1, <1>2
<1>4. new \in PromisesOf(n, k) /\ new.state # "pending"
  BY <1>1 DEF PromisesOf, States
<1>5. m2 = [m EXCEPT !.promises[p] = new, !.jobs = @ \o more]
  BY DEF Settle
<1> HIDE DEF new, more, m2, J
<1>6. /\ m2.promises = [m.promises EXCEPT ![p] = new]
      /\ m2.jobs = m.jobs \o more /\ m2.pairs = m.pairs /\ m2.late = m.late
      /\ m2 = [promises |-> [m.promises EXCEPT ![p] = new], pairs |-> m.pairs,
               jobs |-> m.jobs \o more, late |-> m.late]
  BY <1>5 DEF Heaps
<1>7. /\ m2.promises \in Seq(PromisesOf(n, k)) /\ Len(m2.promises) = n
      /\ m2.promises[p] = new
  BY <1>1, <1>4, <1>6
<1>8. /\ m2.jobs \in Seq(JobsOf(n, k)) /\ Len(m2.jobs) = Len(m.jobs) + Len(more)
      /\ \A j \in 1 .. Len(m.jobs) : m2.jobs[j] = m.jobs[j]
      /\ \A j \in 1 .. Len(m2.jobs) : j > Len(m.jobs) =>
            /\ j - Len(m.jobs) \in 1 .. Len(more)
            /\ m2.jobs[j] = more[j - Len(m.jobs)]
  <2>1. /\ m.jobs \o more \in Seq(JobsOf(n, k))
        /\ Len(m.jobs \o more) = Len(m.jobs) + Len(more)
        /\ \A j \in 1 .. Len(m.jobs) : (m.jobs \o more)[j] = m.jobs[j]
        /\ \A j \in 1 .. Len(m.jobs \o more) : j > Len(m.jobs) =>
              /\ j - Len(m.jobs) \in 1 .. Len(more)
              /\ (m.jobs \o more)[j] = more[j - Len(m.jobs)]
    <3>1. m.jobs \in Seq(JobsOf(n, k)) /\ more \in Seq(JobsOf(n, k))
      BY <1>1, <1>3
    <3> QED
      BY <3>1, Behind, Zenon
  <2> QED
    BY <1>6, <2>1
<1>9. m2 \in Heaps(n, k)
  BY <1>6, <1>7, <1>8 DEF Heaps
<1>10. \A j \in 1 .. Len(m2.jobs) : j > Len(m.jobs) => m2.jobs[j].k = "reaction"
  BY <1>3, <1>8
<1>11. /\ m2.promises = [m.promises EXCEPT ![p] = m2.promises[p]]
       /\ m2.promises[p].state # "pending"
  BY <1>4, <1>6, <1>7, Zenon
<1>12. Len(m2.jobs) >= Len(m.jobs)
  <2>1. /\ Len(m2.jobs) = Len(m.jobs) + Len(more)
        /\ Len(more) \in Nat /\ Len(m.jobs) \in Nat
    BY <1>1, <1>3, <1>8, Zenon
  <2> QED
    BY <2>1
<1>13. Delivers(m, m2, p, v, isReject)
  <2>1. /\ new.state = IF isReject THEN "rejected" ELSE "fulfilled"
        /\ new.result = v /\ new.reactions = <<>>
    BY DEF new
  <2>2. \A j \in 1 .. Len(more) :
            /\ more[j].k = "reaction" /\ more[j].arg = v
            /\ more[j].h = IF isReject THEN s.reactions[j].onReject
                           ELSE s.reactions[j].onFulfil
            /\ more[j].cap = s.reactions[j].cap /\ more[j].rej = isReject
    BY <1>1, <1>3 DEF more, J, ReactionJob
  <2> QED
    BY <1>3, <1>7, <1>8, <2>1, <2>2 DEF Delivers
<1> QED
  BY <1>6, <1>8, <1>9, <1>10, <1>11, <1>12, <1>13 DEF m2


-----------------------------------------------------------------------------
(* How the ways to settle a promise change. *)

\* Every way leads to a promise of the heap.
LEMMA WayTargets ==
    ASSUME NEW n \in Nat, NEW k \in Nat, NEW m \in Heaps(n, k)
    PROVE  /\ Unused(m) \subseteq 1 .. k
           /\ \A i \in Unused(m) : m.pairs[i].promise \in 1 .. n
           /\ Following(m) \subseteq 1 .. Len(m.jobs)
           /\ \A j \in Following(m) : m.jobs[j].cap \in 1 .. n
<1>1. /\ Len(m.pairs) = k /\ \A i \in 1 .. k : m.pairs[i] \in PairsOf(n)
      /\ \A j \in 1 .. Len(m.jobs) : m.jobs[j] \in JobsOf(n, k)
  BY HeapFields
<1>2. \A i \in 1 .. k : m.pairs[i].promise \in 1 .. n
  BY <1>1 DEF PairsOf
<1>3. \A j \in 1 .. Len(m.jobs) :
            m.jobs[j].k = "thenable" => m.jobs[j].cap \in 1 .. n
  BY <1>1 DEF JobsOf
<1> QED
  BY <1>1, <1>2, <1>3 DEF Unused, Following

\* The jobs that follow an object are the same ones in both heaps.
SameFollowing(m, m2) ==
    /\ Following(m2) = Following(m)
    /\ \A j \in Following(m) : m2.jobs[j].cap = m.jobs[j].cap

\* Pair i has been used and its promise settled.
LEMMA WaySettled ==
    ASSUME NEW n \in Nat, NEW k \in Nat, NEW m \in Heaps(n, k), OneWay(m),
           NEW m2 \in Heaps(n, k), NEW i \in Unused(m),
           Unused(m2) = Unused(m) \ {i},
           \A a \in Unused(m2) : m2.pairs[a].promise = m.pairs[a].promise,
           SameFollowing(m, m2),
           \A q \in 1 .. n : q # m.pairs[i].promise =>
                m2.promises[q].state = m.promises[q].state,
           m2.promises[m.pairs[i].promise].state # "pending"
    PROVE  OneWay(m2)
<1>1. /\ \A a \in Unused(m) : m.pairs[a].promise \in 1 .. n
      /\ \A j \in Following(m) : m.jobs[j].cap \in 1 .. n
      /\ Len(m.promises) = n /\ Len(m2.promises) = n
  BY WayTargets, HeapFields
<1>2. PairsDiffer(m2)
  BY <1>1 DEF OneWay, PairsDiffer, SameFollowing
<1>3. JobsDiffer(m2)
  BY <1>1 DEF OneWay, JobsDiffer, SameFollowing
<1>4. PairOrJob(m2)
  BY <1>1 DEF OneWay, PairsDiffer, JobsDiffer, PairOrJob, SameFollowing
<1>5. OnlyPending(m2)
  <2>1. ASSUME NEW a \in Unused(m2)
        PROVE  m2.promises[m2.pairs[a].promise].state = "pending"
    <3>1. a \in Unused(m) /\ m.pairs[a].promise # m.pairs[i].promise
      BY DEF OneWay, PairsDiffer
    <3> QED
      BY <1>1, <3>1 DEF OneWay, OnlyPending
  <2>2. ASSUME NEW j \in Following(m2)
        PROVE  m2.promises[m2.jobs[j].cap].state = "pending"
    <3>1. j \in Following(m) /\ m.jobs[j].cap # m.pairs[i].promise
      BY DEF OneWay, PairOrJob, SameFollowing
    <3> QED
      BY <1>1, <3>1 DEF OneWay, OnlyPending, SameFollowing
  <2> QED
    BY <2>1, <2>2 DEF OnlyPending
<1>6. AllPending(m2)
  <2> SUFFICES ASSUME NEW q \in 1 .. n, m2.promises[q].state = "pending"
               PROVE  \/ \E a \in Unused(m2) : m2.pairs[a].promise = q
                      \/ \E j \in Following(m2) : m2.jobs[j].cap = q
    BY <1>1 DEF AllPending
  <2>1. q # m.pairs[i].promise /\ m.promises[q].state = "pending"
    OBVIOUS
  <2>2. \/ \E a \in Unused(m) : m.pairs[a].promise = q
        \/ \E j \in Following(m) : m.jobs[j].cap = q
    BY <1>1, <2>1 DEF OneWay, AllPending
  <2> QED
    BY <2>1, <2>2 DEF SameFollowing
<1> QED
  BY <1>2, <1>3, <1>4, <1>5, <1>6 DEF OneWay

\* Pair i has been used for an object with a then method.
LEMMA WayFollowed ==
    ASSUME NEW n \in Nat, NEW k \in Nat, NEW m \in Heaps(n, k), OneWay(m),
           NEW m2 \in Heaps(n, k), NEW i \in Unused(m),
           Unused(m2) = Unused(m) \ {i},
           \A a \in Unused(m2) : m2.pairs[a].promise = m.pairs[a].promise,
           NEW new, new \notin Following(m), Following(m2) = Following(m) \cup {new},
           \A j \in Following(m) : m2.jobs[j].cap = m.jobs[j].cap,
           m2.jobs[new].cap = m.pairs[i].promise,
           \A q \in 1 .. n : m2.promises[q].state = m.promises[q].state
    PROVE  OneWay(m2)
<1>1. /\ \A a \in Unused(m) : m.pairs[a].promise \in 1 .. n
      /\ \A j \in Following(m) : m.jobs[j].cap \in 1 .. n
      /\ Len(m.promises) = n /\ Len(m2.promises) = n
  BY WayTargets, HeapFields
<1>2. PairsDiffer(m2)
  BY <1>1 DEF OneWay, PairsDiffer
<1>3. JobsDiffer(m2)
  BY <1>1 DEF OneWay, JobsDiffer, PairOrJob
<1>4. PairOrJob(m2)
  BY <1>1 DEF OneWay, PairsDiffer, JobsDiffer, PairOrJob
<1>5. OnlyPending(m2)
  <2>1. \A a \in Unused(m2) : m2.promises[m2.pairs[a].promise].state = "pending"
    BY <1>1 DEF OneWay, OnlyPending
  <2>2. \A j \in Following(m) : m2.promises[m2.jobs[j].cap].state = "pending"
    BY <1>1 DEF OneWay, OnlyPending
  <2>3. m2.promises[m2.jobs[new].cap].state = "pending"
    BY <1>1 DEF OneWay, OnlyPending
  <2> QED
    BY <2>1, <2>2, <2>3 DEF OnlyPending
<1>6. AllPending(m2)
  BY <1>1 DEF OneWay, AllPending
<1> QED
  BY <1>2, <1>3, <1>4, <1>5, <1>6 DEF OneWay

\* Neither the pairs nor the jobs that count have changed.
LEMMA WaySame ==
    ASSUME NEW n \in Nat, NEW k \in Nat, NEW m \in Heaps(n, k), OneWay(m),
           NEW m2 \in Heaps(n, k), m2.pairs = m.pairs, SameFollowing(m, m2),
           \A q \in 1 .. n : m2.promises[q].state = m.promises[q].state
    PROVE  OneWay(m2)
<1>1. /\ \A a \in Unused(m) : m.pairs[a].promise \in 1 .. n
      /\ \A j \in Following(m) : m.jobs[j].cap \in 1 .. n
      /\ Len(m.promises) = n /\ Len(m2.promises) = n
  BY WayTargets, HeapFields
<1>2. Unused(m2) = Unused(m)
  BY DEF Unused
<1>3. PairsDiffer(m2)
  BY <1>1, <1>2 DEF OneWay, PairsDiffer, SameFollowing
<1>4. JobsDiffer(m2)
  BY <1>1, <1>2 DEF OneWay, JobsDiffer, SameFollowing
<1>5. PairOrJob(m2)
  BY <1>1, <1>2 DEF OneWay, PairsDiffer, JobsDiffer, PairOrJob, SameFollowing
<1>6. OnlyPending(m2)
  BY <1>1, <1>2 DEF OneWay, PairsDiffer, JobsDiffer, PairOrJob, OnlyPending, SameFollowing
<1>7. AllPending(m2)
  BY <1>1, <1>2 DEF OneWay, AllPending, SameFollowing
<1> QED
  BY <1>3, <1>4, <1>5, <1>6, <1>7 DEF OneWay

\* A promise was created with its first pair.
LEMMA WayNew ==
    ASSUME NEW n \in Nat, NEW k \in Nat, NEW m \in Heaps(n, k), OneWay(m),
           NEW m2 \in Heaps(n + 1, k + 1),
           Unused(m2) = Unused(m) \cup {k + 1},
           \A a \in Unused(m) : m2.pairs[a].promise = m.pairs[a].promise,
           m2.pairs[k + 1].promise = n + 1,
           SameFollowing(m, m2),
           \A q \in 1 .. n : m2.promises[q].state = m.promises[q].state,
           m2.promises[n + 1].state = "pending"
    PROVE  OneWay(m2)
<1>1. /\ \A a \in Unused(m) : m.pairs[a].promise \in 1 .. n
      /\ \A j \in Following(m) : m.jobs[j].cap \in 1 .. n
      /\ Unused(m) \subseteq 1 .. k
      /\ Len(m.promises) = n /\ Len(m2.promises) = n + 1
  BY WayTargets, HeapFields
<1>2. PairsDiffer(m2)
  BY <1>1 DEF OneWay, PairsDiffer, SameFollowing
<1>3. JobsDiffer(m2)
  BY <1>1 DEF OneWay, JobsDiffer, SameFollowing
<1>4. PairOrJob(m2)
  BY <1>1 DEF OneWay, PairsDiffer, JobsDiffer, PairOrJob, SameFollowing
<1>5. OnlyPending(m2)
  <2>1. \A a \in Unused(m) : m2.promises[m2.pairs[a].promise].state = "pending"
    BY <1>1 DEF OneWay, OnlyPending
  <2>2. \A j \in Following(m2) : m2.promises[m2.jobs[j].cap].state = "pending"
    BY <1>1 DEF OneWay, OnlyPending, SameFollowing
  <2> QED
    BY <2>1, <2>2 DEF OnlyPending
<1>6. AllPending(m2)
  <2> SUFFICES ASSUME NEW q \in 1 .. n + 1, m2.promises[q].state = "pending"
               PROVE  \/ \E a \in Unused(m2) : m2.pairs[a].promise = q
                      \/ \E j \in Following(m2) : m2.jobs[j].cap = q
    BY <1>1 DEF AllPending
  <2>1. CASE q = n + 1
    BY <2>1
  <2>2. CASE q \in 1 .. n
    <3>1. \/ \E a \in Unused(m) : m.pairs[a].promise = q
          \/ \E j \in Following(m) : m.jobs[j].cap = q
      BY <1>1, <2>2 DEF OneWay, AllPending
    <3> QED
      BY <3>1 DEF SameFollowing
  <2> QED
    BY <2>1, <2>2
<1> QED
  BY <1>2, <1>3, <1>4, <1>5, <1>6 DEF OneWay

\* The first job has left the list and was no way to settle a promise.
LEMMA WayShifted ==
    ASSUME NEW n \in Nat, NEW k \in Nat, NEW m \in Heaps(n, k), OneWay(m),
           NEW m2 \in Heaps(n, k), m2.pairs = m.pairs,
           m2.promises = m.promises, 1 \notin Following(m),
           Following(m2) = {j \in Nat : j + 1 \in Following(m)},
           \A j \in Following(m2) : m2.jobs[j] = m.jobs[j + 1]
    PROVE  OneWay(m2)
<1>1. /\ Following(m) \subseteq 1 .. Len(m.jobs) /\ Len(m.jobs) \in Nat
      /\ Len(m.promises) = n /\ Len(m2.promises) = n
  BY WayTargets, HeapFields
<1>2. Unused(m2) = Unused(m)
  BY DEF Unused
<1>3. \A j \in Following(m) : /\ j - 1 \in Following(m2)
                             /\ m2.jobs[j - 1] = m.jobs[j]
  BY <1>1
<1>4. \A j \in Following(m2) : /\ j + 1 \in Following(m) /\ j \in Nat
                              /\ m2.jobs[j] = m.jobs[j + 1]
  OBVIOUS
<1>5. PairsDiffer(m2)
  BY <1>2, <1>3, <1>4 DEF OneWay, PairsDiffer
<1>6. JobsDiffer(m2)
  BY <1>2, <1>3, <1>4 DEF OneWay, JobsDiffer
<1>7. PairOrJob(m2)
  BY <1>2, <1>3, <1>4 DEF OneWay, PairsDiffer, JobsDiffer, PairOrJob
<1>8. OnlyPending(m2)
  BY <1>2, <1>3, <1>4 DEF OneWay, PairsDiffer, JobsDiffer, PairOrJob, OnlyPending
<1>9. AllPending(m2)
  BY <1>2, <1>3, <1>4 DEF OneWay, AllPending
<1> QED
  BY <1>5, <1>6, <1>7, <1>8, <1>9 DEF OneWay

\* The first job was a way and has left the list for a new pair.
LEMMA WayTaken ==
    ASSUME NEW n \in Nat, NEW k \in Nat, NEW m \in Heaps(n, k), OneWay(m),
           NEW m2 \in Heaps(n, k + 1), m2.promises = m.promises,
           Unused(m2) = Unused(m) \cup {k + 1},
           \A a \in Unused(m) : m2.pairs[a].promise = m.pairs[a].promise,
           1 \in Following(m), m2.pairs[k + 1].promise = m.jobs[1].cap,
           Following(m2) = {j \in Nat \ {0} : j + 1 \in Following(m)},
           \A j \in Following(m2) : m2.jobs[j] = m.jobs[j + 1]
    PROVE  OneWay(m2)
<1>1. /\ Following(m) \subseteq 1 .. Len(m.jobs) /\ Len(m.jobs) \in Nat
      /\ Len(m.promises) = n /\ Len(m2.promises) = n
      /\ Unused(m) \subseteq 1 .. k
  BY WayTargets, HeapFields
<1>2. \A j \in Following(m) : j # 1 => /\ j - 1 \in Following(m2)
                                      /\ m2.jobs[j - 1] = m.jobs[j]
  BY <1>1
<1>3. \A j \in Following(m2) : /\ j + 1 \in Following(m) /\ j \in Nat /\ j # 0
                              /\ m2.jobs[j] = m.jobs[j + 1]
  OBVIOUS
<1>4. k + 1 \notin Unused(m)
  BY <1>1
<1>5. \A a \in Unused(m) : m.pairs[a].promise # m.jobs[1].cap
  BY DEF OneWay, PairOrJob
<1>6. \A j \in Following(m2) : m2.jobs[j].cap # m.jobs[1].cap
  BY <1>3 DEF OneWay, JobsDiffer
<1>7. PairsDiffer(m2)
  BY <1>4, <1>5 DEF OneWay, PairsDiffer
<1>8. JobsDiffer(m2)
  BY <1>3 DEF OneWay, JobsDiffer
<1>9. PairOrJob(m2)
  BY <1>3, <1>6 DEF OneWay, PairOrJob
<1>10. OnlyPending(m2)
  BY <1>3 DEF OneWay, OnlyPending
<1>11. AllPending(m2)
  <2> SUFFICES ASSUME NEW q \in 1 .. n, m2.promises[q].state = "pending"
               PROVE  \/ \E a \in Unused(m2) : m2.pairs[a].promise = q
                      \/ \E j \in Following(m2) : m2.jobs[j].cap = q
    BY <1>1 DEF AllPending
  <2>1. \/ \E a \in Unused(m) : m.pairs[a].promise = q
        \/ \E j \in Following(m) : m.jobs[j].cap = q
    BY <1>1 DEF OneWay, AllPending
  <2>2. CASE m.jobs[1].cap = q
    BY <2>2
  <2>3. CASE m.jobs[1].cap # q
    BY <1>2, <2>1, <2>3
  <2> QED
    BY <2>2, <2>3
<1> QED
  BY <1>7, <1>8, <1>9, <1>10, <1>11 DEF OneWay


-----------------------------------------------------------------------------
(* Each operation keeps a heap sound and what was settled as it is. *)
\* Resolving functions that were called stay so, and who awaits what stays.
StaysUsed(m, m2) ==
    \A i \in 1 .. Len(m.pairs) :
        /\ i \in 1 .. Len(m2.pairs)
        /\ m.pairs[i].already => m2.pairs[i].already
AwaitsKept(m, m2) == \A F, on : Awaits(m, F, on) => Awaits(m2, F, on)
Evolves(m, m2) == Keeps(m, m2) /\ StaysUsed(m, m2) /\ AwaitsKept(m, m2)

\* m2 comes after m and has n promises and k pairs; in Becomes, no function
\* was suspended or resumed.
Turns(m, m2, n, k) == Sound(m2, n, k) /\ Keeps(m, m2) /\ StaysUsed(m, m2)
Becomes(m, m2, n, k) == Sound(m2, n, k) /\ Evolves(m, m2)

\* Nothing has to change.
LEMMA EvolvesItself == ASSUME NEW m PROVE Evolves(m, m)
BY DEF Evolves, Keeps, StaysUsed, AwaitsKept

\* One step after the other.
LEMMA EvolvesThrough ==
    ASSUME NEW m1, NEW m2, NEW m3, Evolves(m1, m2), Evolves(m2, m3)
    PROVE  Evolves(m1, m3)
BY DEF Evolves, Keeps, StaysUsed, AwaitsKept

\* The same when functions are suspended or resumed.
LEMMA TurnsThrough ==
    ASSUME NEW m1, NEW m2, NEW m3, NEW n, NEW k, NEW n2, NEW k2,
           Turns(m1, m2, n, k), Turns(m2, m3, n2, k2)
    PROVE  Turns(m1, m3, n2, k2)
BY DEF Turns, Keeps, StaysUsed

-----------------------------------------------------------------------------
(* Who awaits what. *)

\* The reactions of a heap are typed sequences.
LEMMA ReactionsTyped ==
    ASSUME NEW n \in Nat, NEW k \in Nat, NEW m \in Heaps(n, k)
    PROVE  /\ Len(m.promises) = n /\ Len(m.jobs) \in Nat
           /\ \A p \in 1 .. n :
                /\ m.promises[p].reactions \in Seq(ReactionsOf(n, k))
                /\ Len(m.promises[p].reactions) \in Nat
<1>1. /\ Len(m.promises) = n /\ Len(m.jobs) \in Nat
      /\ \A p \in 1 .. n : m.promises[p] \in PromisesOf(n, k)
  BY HeapFields
<1>2. \A p \in 1 .. n : m.promises[p].reactions \in Seq(ReactionsOf(n, k))
  BY <1>1 DEF PromisesOf
<1> QED
  BY <1>1, <1>2

\* Sequence t is s with an element behind it.
OneMore(s, t) == Len(t) = Len(s) + 1 /\ \A j \in 1 .. Len(s) : t[j] = s[j]

\* Promise q has at most an ordinary reaction more, and that while pending.
OrdinaryMore(m, m2, q) ==
    /\ m2.promises[q].state = m.promises[q].state
    /\ \/ m2.promises[q].reactions = m.promises[q].reactions
       \/ /\ m.promises[q].state = "pending"
          /\ OneMore(m.promises[q].reactions, m2.promises[q].reactions)
          /\ Ordinary(m2.promises[q].reactions[Len(m.promises[q].reactions) + 1])

\* Job j + d of m is job j of m2; jobs that come or go resume nobody.
OrdinaryJobs(m, m2, d) ==
    /\ \A j \in 1 .. Len(m2.jobs) : IsAwait(m2.jobs[j].h) =>
          j + d \in 1 .. Len(m.jobs) /\ m2.jobs[j] = m.jobs[j + d]
    /\ \A j \in 1 .. Len(m.jobs) : IsAwait(m.jobs[j].h) =>
          j - d \in 1 .. Len(m2.jobs) /\ m2.jobs[j - d] = m.jobs[j]

\* A step that adds promises without reactions, ordinary reactions and
\* ordinary jobs, or takes an ordinary job.
LEMMA AwaitsQuiet ==
    ASSUME NEW n \in Nat, NEW k \in Nat, NEW m \in Heaps(n, k),
           NEW n2 \in Nat, NEW k2 \in Nat, NEW m2 \in Heaps(n2, k2), n <= n2,
           Keeps(m, m2), NEW d \in Nat, OrdinaryJobs(m, m2, d),
           \A q \in 1 .. n : OrdinaryMore(m, m2, q),
           \A q \in 1 .. n2 : q > n => m2.promises[q].reactions = <<>>
    PROVE  AwaitsKept(m, m2)
<1> SUFFICES ASSUME NEW F, NEW on, Awaits(m, F, on) PROVE Awaits(m2, F, on)
  BY DEF AwaitsKept
<1>1. /\ Len(m.promises) = n /\ Len(m.jobs) \in Nat
      /\ Len(m2.promises) = n2 /\ Len(m2.jobs) \in Nat
      /\ \A q \in 1 .. n : Len(m.promises[q].reactions) \in Nat
      /\ \A q \in 1 .. n2 : Len(m2.promises[q].reactions) \in Nat
  BY ReactionsTyped
<1>2. /\ ReactionsAwait(m, F, on) /\ ReactionsDiffer(m)
      /\ JobsAwait(m, F, on) /\ WakesDiffer(m) /\ AllResumed(m, F, on)
  BY DEF Awaits
\* The reactions of m2 are those of m or ordinary.
<1>3. ASSUME NEW q \in 1 .. n2, NEW j \in 1 .. Len(m2.promises[q].reactions)
      PROVE  \/ Ordinary(m2.promises[q].reactions[j])
             \/ /\ q \in 1 .. n /\ j \in 1 .. Len(m.promises[q].reactions)
                /\ m2.promises[q].reactions[j] = m.promises[q].reactions[j]
  <2>1. q \in 1 .. n
    <3>1. CASE q > n
      <4>1. m2.promises[q].reactions = <<>>
        BY <3>1
      <4> QED
        BY <4>1
    <3> QED
      BY <3>1
  <2>2. CASE m2.promises[q].reactions = m.promises[q].reactions
    BY <2>1, <2>2
  <2>3. CASE m2.promises[q].reactions # m.promises[q].reactions
    <3> DEFINE s == m.promises[q].reactions
               t == m2.promises[q].reactions
    <3>1. OneMore(s, t) /\ Ordinary(t[Len(s) + 1])
      BY <2>1, <2>3 DEF OrdinaryMore
    <3>2. Len(s) \in Nat
      BY <1>1, <2>1
    <3> HIDE DEF s, t
    <3>3. ASSUME NEW i \in 1 .. Len(t)
          PROVE  Ordinary(t[i]) \/ (i \in 1 .. Len(s) /\ t[i] = s[i])
      <4>1. i \in 1 .. Len(s) \/ i = Len(s) + 1
        BY <3>1, <3>2 DEF OneMore
      <4> QED
        BY <3>1, <4>1 DEF OneMore
    <3> QED
      BY <2>1, <3>3 DEF s, t
  <2> QED
    BY <2>2, <2>3
\* Those of m are still there.
<1>4. ASSUME NEW q \in 1 .. n, NEW j \in 1 .. Len(m.promises[q].reactions)
      PROVE  /\ q \in 1 .. n2 /\ j \in 1 .. Len(m2.promises[q].reactions)
             /\ m2.promises[q].reactions[j] = m.promises[q].reactions[j]
  <2>1. q \in 1 .. n2
    OBVIOUS
  <2>2. CASE m2.promises[q].reactions = m.promises[q].reactions
    BY <2>1, <2>2
  <2>3. CASE m2.promises[q].reactions # m.promises[q].reactions
    <3> DEFINE s == m.promises[q].reactions
               t == m2.promises[q].reactions
    <3>1. OneMore(s, t) /\ Len(s) \in Nat
      BY <1>1, <2>3 DEF OrdinaryMore
    <3> HIDE DEF s, t
    <3>2. \A i \in 1 .. Len(s) : i \in 1 .. Len(t) /\ t[i] = s[i]
      BY <3>1 DEF OneMore
    <3> QED
      BY <2>1, <3>2 DEF s, t
  <2> QED
    BY <2>2, <2>3
<1>5. ReactionsAwait(m2, F, on)
  <2>1. ASSUME NEW q \in 1 .. n2, m2.promises[q].state # "pending"
        PROVE  m2.promises[q].reactions = <<>>
    <3>1. CASE q \in 1 .. n
      <4>1. m.promises[q].state # "pending"
        BY <2>1, <3>1 DEF OrdinaryMore
      <4>2. m2.promises[q].reactions = m.promises[q].reactions
        BY <3>1, <4>1 DEF OrdinaryMore
      <4> QED
        BY <1>1, <1>2, <3>1, <4>1, <4>2 DEF ReactionsAwait
    <3>2. CASE q > n
      BY <3>2
    <3> QED
      BY <3>1, <3>2
  <2>2. ASSUME NEW q \in 1 .. n2, NEW j \in 1 .. Len(m2.promises[q].reactions)
        PROVE  \/ Ordinary(m2.promises[q].reactions[j])
               \/ /\ Resuming(m2.promises[q].reactions[j])
                  /\ m2.promises[q].reactions[j].onFulfil.i \in F
                  /\ on[m2.promises[q].reactions[j].onFulfil.i] = q
    BY <1>1, <1>2, <1>3 DEF ReactionsAwait
  <2> QED
    BY <1>1, <2>1, <2>2 DEF ReactionsAwait
<1>6. \A r : ~(Ordinary(r) /\ Resuming(r))
  BY DEF Ordinary, Resuming, IsAwait
<1>7. ReactionsDiffer(m2)
  <2> SUFFICES ASSUME NEW q \in 1 .. n2, NEW i \in 1 .. Len(m2.promises[q].reactions),
                      NEW j \in 1 .. Len(m2.promises[q].reactions),
                      Resuming(m2.promises[q].reactions[i]),
                      Resuming(m2.promises[q].reactions[j]),
                      m2.promises[q].reactions[i].onFulfil.i
                        = m2.promises[q].reactions[j].onFulfil.i
               PROVE  i = j
    BY <1>1 DEF ReactionsDiffer
  <2>1. /\ q \in 1 .. n /\ i \in 1 .. Len(m.promises[q].reactions)
        /\ j \in 1 .. Len(m.promises[q].reactions)
        /\ m2.promises[q].reactions[i] = m.promises[q].reactions[i]
        /\ m2.promises[q].reactions[j] = m.promises[q].reactions[j]
    BY <1>3, <1>6
  <2> QED
    BY <1>1, <1>2, <2>1 DEF ReactionsDiffer
<1>8. JobsAwait(m2, F, on)
  <2> SUFFICES ASSUME NEW j \in 1 .. Len(m2.jobs), IsAwait(m2.jobs[j].h)
               PROVE  /\ m2.jobs[j].k = "reaction" /\ m2.jobs[j].h.i \in F
                      /\ on[m2.jobs[j].h.i] \in 1 .. Len(m2.promises)
                      /\ m2.promises[on[m2.jobs[j].h.i]].state
                          = IF m2.jobs[j].h.k = "awaitThrow" THEN "rejected"
                            ELSE "fulfilled"
                      /\ m2.promises[on[m2.jobs[j].h.i]].result = m2.jobs[j].arg
    BY DEF JobsAwait
  <2>1. j + d \in 1 .. Len(m.jobs) /\ m2.jobs[j] = m.jobs[j + d]
    BY DEF OrdinaryJobs
  <2> DEFINE q == on[m2.jobs[j].h.i]
  <2>2. /\ m2.jobs[j].k = "reaction" /\ m2.jobs[j].h.i \in F /\ q \in 1 .. n
        /\ m.promises[q].state = IF m2.jobs[j].h.k = "awaitThrow"
                                 THEN "rejected" ELSE "fulfilled"
        /\ m.promises[q].result = m2.jobs[j].arg
    BY <1>1, <1>2, <2>1 DEF JobsAwait
  <2> HIDE DEF q
  <2>3. m.promises[q].state # "pending"
    BY <2>2
  <2>4. /\ m2.promises[q].state = m.promises[q].state
        /\ m2.promises[q].result = m.promises[q].result /\ q \in 1 .. n2
    BY <1>1, <2>2, <2>3 DEF Keeps
  <2> QED
    BY <1>1, <2>2, <2>4 DEF q
<1>9. WakesDiffer(m2)
  <2> SUFFICES ASSUME NEW i \in 1 .. Len(m2.jobs), NEW j \in 1 .. Len(m2.jobs),
                      IsAwait(m2.jobs[i].h), IsAwait(m2.jobs[j].h),
                      m2.jobs[i].h.i = m2.jobs[j].h.i
               PROVE  i = j
    BY DEF WakesDiffer
  <2>1. /\ i + d \in 1 .. Len(m.jobs) /\ m2.jobs[i] = m.jobs[i + d]
        /\ j + d \in 1 .. Len(m.jobs) /\ m2.jobs[j] = m.jobs[j + d]
    BY DEF OrdinaryJobs
  <2>2. i + d = j + d
    BY <1>2, <2>1 DEF WakesDiffer
  <2> QED
    BY <1>1, <2>2
<1>10. AllResumed(m2, F, on)
  <2> SUFFICES ASSUME NEW f \in F
               PROVE  \/ \E j \in 1 .. Len(m2.jobs) :
                            IsAwait(m2.jobs[j].h) /\ m2.jobs[j].h.i = f
                      \/ /\ on[f] \in 1 .. Len(m2.promises)
                         /\ \E j \in 1 .. Len(m2.promises[on[f]].reactions) :
                               /\ Resuming(m2.promises[on[f]].reactions[j])
                               /\ m2.promises[on[f]].reactions[j].onFulfil.i = f
    BY DEF AllResumed
  <2>1. CASE \E j \in 1 .. Len(m.jobs) : IsAwait(m.jobs[j].h) /\ m.jobs[j].h.i = f
    BY <2>1 DEF OrdinaryJobs
  <2>2. CASE /\ on[f] \in 1 .. Len(m.promises)
             /\ \E j \in 1 .. Len(m.promises[on[f]].reactions) :
                   /\ Resuming(m.promises[on[f]].reactions[j])
                   /\ m.promises[on[f]].reactions[j].onFulfil.i = f
    <3>1. PICK j \in 1 .. Len(m.promises[on[f]].reactions) :
                   /\ Resuming(m.promises[on[f]].reactions[j])
                   /\ m.promises[on[f]].reactions[j].onFulfil.i = f
      BY <2>2
    <3>2. /\ on[f] \in 1 .. n2 /\ j \in 1 .. Len(m2.promises[on[f]].reactions)
          /\ m2.promises[on[f]].reactions[j] = m.promises[on[f]].reactions[j]
      BY <1>1, <1>4, <2>2
    <3> QED
      BY <1>1, <3>1, <3>2
  <2> QED
    BY <1>2, <2>1, <2>2 DEF AllResumed
<1> QED
  BY <1>5, <1>7, <1>8, <1>9, <1>10 DEF Awaits

\* A job that resumes nobody was queued.
LEMMA AwaitsQueued ==
    ASSUME NEW n \in Nat, NEW k \in Nat, NEW m \in Heaps(n, k),
           NEW m2 \in Heaps(n, k), Keeps(m, m2),
           \A q \in 1 .. n : OrdinaryMore(m, m2, q),
           NEW job, ~IsAwait(job.h), m2.jobs = Append(m.jobs, job)
    PROVE  AwaitsKept(m, m2)
<1>1. m.jobs \in Seq(JobsOf(n, k)) /\ m2.jobs \in Seq(JobsOf(n, k))
      /\ Len(m.jobs) \in Nat
  BY HeapFields
<1>2. /\ Len(m2.jobs) = Len(m.jobs) + 1 /\ m2.jobs[Len(m.jobs) + 1] = job
      /\ \A j \in 1 .. Len(m.jobs) : m2.jobs[j] = m.jobs[j]
  BY <1>1
<1>3. OrdinaryJobs(m, m2, 0)
  <2>1. ASSUME NEW j \in 1 .. Len(m2.jobs), IsAwait(m2.jobs[j].h)
        PROVE  j + 0 \in 1 .. Len(m.jobs) /\ m2.jobs[j] = m.jobs[j + 0]
    <3>1. j # Len(m.jobs) + 1
      BY <1>2, <2>1
    <3>2. j \in 1 .. Len(m.jobs)
      BY <1>1, <1>2, <3>1
    <3>3. j + 0 = j
      BY <3>2
    <3> QED
      BY <1>2, <3>2, <3>3
  <2>2. ASSUME NEW j \in 1 .. Len(m.jobs)
        PROVE  j - 0 \in 1 .. Len(m2.jobs) /\ m2.jobs[j - 0] = m.jobs[j]
    <3>1. j - 0 = j /\ j \in 1 .. Len(m2.jobs)
      BY <1>1, <1>2
    <3> QED
      BY <1>2, <3>1
  <2> QED
    BY <2>1, <2>2 DEF OrdinaryJobs
<1> QED
  BY <1>3, AwaitsQuiet

\* The list of jobs is the same.
LEMMA JobsSame ==
    ASSUME NEW n \in Nat, NEW k \in Nat, NEW m \in Heaps(n, k), NEW m2,
           m2.jobs = m.jobs
    PROVE  OrdinaryJobs(m, m2, 0)
<1>1. Len(m.jobs) \in Nat
  BY HeapFields
<1>2. \A j \in 1 .. Len(m.jobs) : j + 0 = j /\ j - 0 = j
  BY <1>1
<1> QED
  BY <1>2 DEF OrdinaryJobs

\* The first job resumed nobody and has left the list.
LEMMA AwaitsShifted ==
    ASSUME NEW n \in Nat, NEW k \in Nat, NEW m \in Heaps(n, k), m.jobs # <<>>,
           ~IsAwait(m.jobs[1].h), NEW k2 \in Nat, NEW m2 \in Heaps(n, k2),
           m2.promises = m.promises, m2.jobs = Tail(m.jobs)
    PROVE  AwaitsKept(m, m2)
<1>1. m.jobs \in Seq(JobsOf(n, k)) /\ Len(m.jobs) \in Nat
  BY HeapFields
<1>2. /\ Len(m2.jobs) = Len(m.jobs) - 1 /\ Len(m.jobs) > 0
      /\ \A j \in 1 .. Len(m2.jobs) : m2.jobs[j] = m.jobs[j + 1]
  BY <1>1
<1>3. OrdinaryJobs(m, m2, 1)
  <2>1. \A j \in 1 .. Len(m2.jobs) : j + 1 \in 1 .. Len(m.jobs)
    BY <1>1, <1>2
  <2>2. ASSUME NEW j \in 1 .. Len(m.jobs), IsAwait(m.jobs[j].h)
        PROVE  j - 1 \in 1 .. Len(m2.jobs) /\ m2.jobs[j - 1] = m.jobs[j]
    <3>1. j # 1
      BY <2>2
    <3>2. j - 1 \in 1 .. Len(m2.jobs) /\ (j - 1) + 1 = j
      BY <1>1, <1>2, <3>1
    <3> QED
      BY <1>2, <3>2
  <2> QED
    BY <1>2, <2>1, <2>2 DEF OrdinaryJobs
<1>4. /\ \A q \in 1 .. n : OrdinaryMore(m, m2, q) /\ ~(q > n)
      /\ Keeps(m, m2) /\ n <= n
  BY DEF OrdinaryMore, Keeps
<1> QED
  BY <1>3, <1>4, AwaitsQuiet

\* The pairs do not matter.
LEMMA AwaitsSame ==
    ASSUME NEW m, NEW m2, m2.promises = m.promises, m2.jobs = m.jobs
    PROVE  AwaitsKept(m, m2)
<1> SUFFICES ASSUME NEW F, NEW on, Awaits(m, F, on)
             PROVE  Awaits(m2, F, on)
  BY DEF AwaitsKept
<1>1. ReactionsAwait(m2, F, on) /\ ReactionsDiffer(m2)
  BY DEF Awaits, ReactionsAwait, ReactionsDiffer
<1>2. JobsAwait(m2, F, on) /\ WakesDiffer(m2)
  BY DEF Awaits, JobsAwait, WakesDiffer
<1>3. AllResumed(m2, F, on)
  BY DEF Awaits, AllResumed
<1> QED
  BY <1>1, <1>2, <1>3 DEF Awaits

\* fulfill_or_reject_promise: the reactions of p that resume functions are now
\* jobs that carry its outcome.
LEMMA AwaitsSettled ==
    ASSUME NEW n \in Nat, NEW k \in Nat, NEW m \in Heaps(n, k),
           NEW m2 \in Heaps(n, k), NEW p \in 1 .. n, NEW v,
           NEW isReject \in BOOLEAN, m.promises[p].state = "pending",
           \A q \in 1 .. n : q # p => m2.promises[q] = m.promises[q],
           \A j \in 1 .. Len(m.jobs) : m2.jobs[j] = m.jobs[j],
           Delivers(m, m2, p, v, isReject)
    PROVE  AwaitsKept(m, m2)
<1> SUFFICES ASSUME NEW F, NEW on, Awaits(m, F, on) PROVE Awaits(m2, F, on)
  BY DEF AwaitsKept
<1> DEFINE rs == m.promises[p].reactions
           outcome == IF isReject THEN "rejected" ELSE "fulfilled"
<1>1. /\ Len(m.promises) = n /\ Len(m.jobs) \in Nat
      /\ Len(m2.promises) = n /\ Len(m2.jobs) \in Nat /\ Len(rs) \in Nat
  BY ReactionsTyped
<1>2. /\ ReactionsAwait(m, F, on) /\ ReactionsDiffer(m)
      /\ JobsAwait(m, F, on) /\ WakesDiffer(m) /\ AllResumed(m, F, on)
  BY DEF Awaits
<1>3. /\ m2.promises[p].state = outcome /\ m2.promises[p].result = v
      /\ m2.promises[p].reactions = <<>>
      /\ Len(m2.jobs) = Len(m.jobs) + Len(rs)
  BY DEF Delivers
\* What resumes a function was a job of m or a reaction of p.
<1>4. ASSUME NEW j \in 1 .. Len(m2.jobs), j > Len(m.jobs), IsAwait(m2.jobs[j].h)
      PROVE  LET r == rs[j - Len(m.jobs)]
             IN /\ j - Len(m.jobs) \in 1 .. Len(rs) /\ Resuming(r)
                /\ r.onFulfil.i \in F /\ on[r.onFulfil.i] = p
                /\ m2.jobs[j].k = "reaction" /\ m2.jobs[j].arg = v
                /\ m2.jobs[j].h.i = r.onFulfil.i
                /\ m2.jobs[j].h.k = IF isReject THEN "awaitThrow" ELSE "await"
  <2> DEFINE r == rs[j - Len(m.jobs)]
  <2>1. /\ j - Len(m.jobs) \in 1 .. Len(rs)
        /\ m2.jobs[j].k = "reaction" /\ m2.jobs[j].arg = v
        /\ m2.jobs[j].h = IF isReject THEN r.onReject ELSE r.onFulfil
    BY <1>4 DEF Delivers
  <2>2. \/ Ordinary(r)
        \/ Resuming(r) /\ r.onFulfil.i \in F /\ on[r.onFulfil.i] = p
    BY <1>1, <1>2, <2>1 DEF ReactionsAwait
  <2>3. ~Ordinary(r)
    BY <1>4, <2>1 DEF Ordinary
  <2> HIDE DEF r
  <2>4. /\ m2.jobs[j].h.i = r.onFulfil.i
        /\ m2.jobs[j].h.k = IF isReject THEN "awaitThrow" ELSE "await"
    BY <2>1, <2>2, <2>3 DEF Resuming
  <2> QED
    BY <2>1, <2>2, <2>3, <2>4 DEF r
\* A job of m resumes for a promise that had been settled before.
<1>5. ASSUME NEW j \in 1 .. Len(m.jobs), IsAwait(m2.jobs[j].h)
      PROVE  /\ m2.jobs[j] = m.jobs[j] /\ on[m2.jobs[j].h.i] # p
             /\ m2.jobs[j].k = "reaction" /\ m2.jobs[j].h.i \in F
             /\ on[m2.jobs[j].h.i] \in 1 .. n
             /\ m2.promises[on[m2.jobs[j].h.i]].state
                 = IF m2.jobs[j].h.k = "awaitThrow" THEN "rejected" ELSE "fulfilled"
             /\ m2.promises[on[m2.jobs[j].h.i]].result = m2.jobs[j].arg
  <2> DEFINE q == on[m2.jobs[j].h.i]
  <2>1. /\ m2.jobs[j] = m.jobs[j] /\ m2.jobs[j].k = "reaction"
        /\ m2.jobs[j].h.i \in F /\ q \in 1 .. n
        /\ m.promises[q].state = IF m2.jobs[j].h.k = "awaitThrow"
                                 THEN "rejected" ELSE "fulfilled"
        /\ m.promises[q].result = m2.jobs[j].arg
    BY <1>1, <1>2, <1>5 DEF JobsAwait
  <2> HIDE DEF q
  <2>2. q # p
    BY <2>1
  <2> QED
    BY <2>1, <2>2 DEF q
<1> HIDE DEF rs
<1>6. \A q \in 1 .. n : m2.promises[q] = m.promises[q]
                         \/ m2.promises[q].reactions = <<>>
  BY <1>3
<1>7. ReactionsAwait(m2, F, on) /\ ReactionsDiffer(m2)
  <2>1. ASSUME NEW q \in 1 .. n, m2.promises[q].reactions = <<>>
        PROVE  \A j \in 1 .. Len(m2.promises[q].reactions) : FALSE
    BY <2>1
  <2>2. ReactionsAwait(m2, F, on)
    <3>1. \A q \in 1 .. n : m2.promises[q].state # "pending" =>
              m2.promises[q].reactions = <<>>
      BY <1>1, <1>2, <1>6 DEF ReactionsAwait
    <3>2. ASSUME NEW q \in 1 .. n, NEW j \in 1 .. Len(m2.promises[q].reactions)
          PROVE  LET r == m2.promises[q].reactions[j]
                 IN \/ Ordinary(r)
                    \/ Resuming(r) /\ r.onFulfil.i \in F /\ on[r.onFulfil.i] = q
      <4>1. m2.promises[q] = m.promises[q]
        BY <1>6, <2>1
      <4> QED
        BY <1>1, <1>2, <4>1 DEF ReactionsAwait
    <3> QED
      BY <1>1, <3>1, <3>2 DEF ReactionsAwait
  <2>3. ReactionsDiffer(m2)
    BY <1>1, <1>2, <1>6, <2>1 DEF ReactionsDiffer
  <2> QED
    BY <2>2, <2>3
<1>8. JobsAwait(m2, F, on)
  <2> SUFFICES ASSUME NEW j \in 1 .. Len(m2.jobs), IsAwait(m2.jobs[j].h)
               PROVE  /\ m2.jobs[j].k = "reaction" /\ m2.jobs[j].h.i \in F
                      /\ on[m2.jobs[j].h.i] \in 1 .. n
                      /\ m2.promises[on[m2.jobs[j].h.i]].state
                          = IF m2.jobs[j].h.k = "awaitThrow" THEN "rejected"
                            ELSE "fulfilled"
                      /\ m2.promises[on[m2.jobs[j].h.i]].result = m2.jobs[j].arg
    BY <1>1 DEF JobsAwait
  <2>1. CASE j \in 1 .. Len(m.jobs)
    BY <1>5, <2>1
  <2>2. CASE j > Len(m.jobs)
    BY <1>3, <1>4, <2>2
  <2> QED
    BY <1>1, <2>1, <2>2
<1>9. WakesDiffer(m2)
  <2> SUFFICES ASSUME NEW i \in 1 .. Len(m2.jobs), NEW j \in 1 .. Len(m2.jobs),
                      IsAwait(m2.jobs[i].h), IsAwait(m2.jobs[j].h),
                      m2.jobs[i].h.i = m2.jobs[j].h.i
               PROVE  i = j
    BY DEF WakesDiffer
  <2>1. CASE i \in 1 .. Len(m.jobs) /\ j \in 1 .. Len(m.jobs)
    BY <1>2, <2>1 DEF WakesDiffer
  <2>2. CASE i > Len(m.jobs) /\ j > Len(m.jobs)
    <3> DEFINE a == i - Len(m.jobs)
               b == j - Len(m.jobs)
    <3>1. a \in 1 .. Len(rs) /\ Resuming(rs[a]) /\ m2.jobs[i].h.i = rs[a].onFulfil.i
      BY <1>4, <2>2
    <3>2. b \in 1 .. Len(rs) /\ Resuming(rs[b]) /\ m2.jobs[j].h.i = rs[b].onFulfil.i
      BY <1>4, <2>2
    <3> HIDE DEF a, b
    <3>3. a = b
      BY <1>1, <1>2, <3>1, <3>2 DEF ReactionsDiffer, rs
    <3> QED
      BY <1>1, <3>3 DEF a, b
  <2>3. ASSUME NEW x \in 1 .. Len(m.jobs), NEW y \in 1 .. Len(m2.jobs),
               y > Len(m.jobs), IsAwait(m2.jobs[x].h), IsAwait(m2.jobs[y].h)
        PROVE  m2.jobs[x].h.i # m2.jobs[y].h.i
    <3>1. on[m2.jobs[x].h.i] # p
      BY <1>5, <2>3
    <3>2. on[m2.jobs[y].h.i] = p
      BY <1>4, <2>3
    <3> QED
      BY <3>1, <3>2
  <2>4. /\ i \in 1 .. Len(m.jobs) \/ i > Len(m.jobs)
        /\ j \in 1 .. Len(m.jobs) \/ j > Len(m.jobs)
    BY <1>1
  <2>5. ~(i \in 1 .. Len(m.jobs) /\ j > Len(m.jobs))
    BY <2>3
  <2>6. ~(j \in 1 .. Len(m.jobs) /\ i > Len(m.jobs))
    BY <2>3
  <2> QED
    BY <2>1, <2>2, <2>4, <2>5, <2>6
<1>10. AllResumed(m2, F, on)
  <2> SUFFICES ASSUME NEW f \in F
               PROVE  \/ \E j \in 1 .. Len(m2.jobs) :
                            IsAwait(m2.jobs[j].h) /\ m2.jobs[j].h.i = f
                      \/ /\ on[f] \in 1 .. Len(m2.promises)
                         /\ \E j \in 1 .. Len(m2.promises[on[f]].reactions) :
                               /\ Resuming(m2.promises[on[f]].reactions[j])
                               /\ m2.promises[on[f]].reactions[j].onFulfil.i = f
    BY DEF AllResumed
  <2>1. CASE \E j \in 1 .. Len(m.jobs) : IsAwait(m.jobs[j].h) /\ m.jobs[j].h.i = f
    <3>1. PICK j \in 1 .. Len(m.jobs) : IsAwait(m.jobs[j].h) /\ m.jobs[j].h.i = f
      BY <2>1
    <3>2. j \in 1 .. Len(m2.jobs) /\ m2.jobs[j] = m.jobs[j]
      BY <1>1, <1>3
    <3> QED
      BY <3>1, <3>2
  <2>2. CASE /\ on[f] \in 1 .. Len(m.promises)
             /\ \E j \in 1 .. Len(m.promises[on[f]].reactions) :
                   /\ Resuming(m.promises[on[f]].reactions[j])
                   /\ m.promises[on[f]].reactions[j].onFulfil.i = f
    <3>1. CASE on[f] # p
      BY <1>1, <2>2, <3>1
    <3>2. CASE on[f] = p
      <4>1. PICK a \in 1 .. Len(rs) : Resuming(rs[a]) /\ rs[a].onFulfil.i = f
        BY <2>2, <3>2 DEF rs
      <4> DEFINE j == Len(m.jobs) + a
      <4>2. j \in 1 .. Len(m2.jobs) /\ j > Len(m.jobs) /\ j - Len(m.jobs) = a
        BY <1>1, <1>3
      <4>3. m2.jobs[j].h = IF isReject THEN rs[a].onReject ELSE rs[a].onFulfil
        BY <4>2 DEF Delivers, rs
      <4>4. IsAwait(m2.jobs[j].h) /\ m2.jobs[j].h.i = f
        BY <4>1, <4>3 DEF Resuming, IsAwait
      <4> QED
        BY <4>2, <4>4
    <3> QED
      BY <3>1, <3>2
  <2> QED
    BY <1>2, <2>1, <2>2 DEF AllResumed
<1> QED
  BY <1>7, <1>8, <1>9, <1>10 DEF Awaits

-----------------------------------------------------------------------------
(* The operations, one by one. *)

\* js_promise_resolve_function_call marks the pair.
Marked(m, i) == [m EXCEPT !.pairs[i].already = TRUE]

\* Marking changes the flag of one pair and nothing else.
LEMMA MarkedPair ==
    ASSUME NEW n \in Nat, NEW k \in Nat, NEW m \in Heaps(n, k), NEW i \in 1 .. k
    PROVE  LET m1 == Marked(m, i)
           IN /\ m1 \in Heaps(n, k) /\ m1.promises = m.promises
              /\ m1.jobs = m.jobs /\ m1.late = m.late
              /\ Unused(m1) = Unused(m) \ {i}
              /\ \A a \in 1 .. k : m1.pairs[a].promise = m.pairs[a].promise
              /\ StaysUsed(m, m1) /\ m1.pairs[i].already
              /\ m1.pairs[i].exposed = m.pairs[i].exposed
              /\ \A a \in 1 .. k : a # i => m1.pairs[a] = m.pairs[a]
<1> DEFINE pair == [m.pairs[i] EXCEPT !.already = TRUE]
           pairs == [m.pairs EXCEPT ![i] = pair]
           m1 == Marked(m, i)
<1>1. /\ m.pairs \in Seq(PairsOf(n)) /\ Len(m.pairs) = k
      /\ m.pairs[i] \in PairsOf(n)
      /\ m = [promises |-> m.promises, pairs |-> m.pairs, jobs |-> m.jobs,
              late |-> m.late]
  BY HeapFields
<1>2. /\ pair \in PairsOf(n) /\ pair.promise = m.pairs[i].promise
      /\ pair.already = TRUE /\ pair.exposed = m.pairs[i].exposed
  BY <1>1 DEF PairsOf
<1>3. /\ pairs \in Seq(PairsOf(n)) /\ Len(pairs) = k
      /\ \A a \in 1 .. k : pairs[a] = IF a = i THEN pair ELSE m.pairs[a]
  BY <1>1, <1>2
<1>4. m1 = [promises |-> m.promises, pairs |-> pairs, jobs |-> m.jobs,
            late |-> m.late]
  <2>1. m \in [promises : Seq(PromisesOf(n, k)), pairs : Seq(PairsOf(n)),
               jobs : Seq(JobsOf(n, k)), late : BOOLEAN]
    BY DEF Heaps
  <2>2. m1 = [m EXCEPT !.pairs = pairs]
    BY <2>1 DEF Marked
  <2> HIDE DEF m1, pairs
  <2> QED
    BY <2>1, <2>2
<1> HIDE DEF pair, pairs, m1
<1>5. m1.pairs = pairs /\ m1.promises = m.promises /\ m1.jobs = m.jobs
      /\ m1.late = m.late
  BY <1>4
<1>6. m1 \in Heaps(n, k)
  BY <1>3, <1>4 DEF Heaps
<1>7. Unused(m1) = Unused(m) \ {i}
  BY <1>1, <1>2, <1>3, <1>5 DEF Unused
<1>8. \A a \in 1 .. k : m1.pairs[a].promise = m.pairs[a].promise
  BY <1>2, <1>3, <1>5
<1>9. StaysUsed(m, m1) /\ m1.pairs[i].already
  BY <1>1, <1>2, <1>3, <1>5 DEF StaysUsed
<1>10. /\ m1.pairs[i].exposed = m.pairs[i].exposed
       /\ \A a \in 1 .. k : a # i => m1.pairs[a] = m.pairs[a]
  BY <1>2, <1>3, <1>5
<1> QED
  BY <1>5, <1>6, <1>7, <1>8, <1>9, <1>10 DEF m1

\* fulfill_or_reject_promise, called for a pair that has just been marked.
LEMMA SettleStep ==
    ASSUME NEW n \in Nat, NEW k \in Nat, NEW m, Sound(m, n, k),
           NEW i \in 1 .. k, ~m.pairs[i].already,
           NEW v \in ValuesOf(n), NEW isReject \in BOOLEAN
    PROVE  LET m2 == Settle(Marked(m, i), m.pairs[i].promise, v, isReject)
           IN Becomes(m, m2, n, k) /\ m2.pairs[i].already
<1> DEFINE m1 == Marked(m, i)
           p == m.pairs[i].promise
           m2 == Settle(m1, p, v, isReject)
<1>1. m \in Heaps(n, k) /\ OneWay(m) /\ m.late = FALSE /\ i \in Unused(m)
      /\ Len(m.promises) = n
  <2>1. m \in Heaps(n, k) /\ OneWay(m) /\ m.late = FALSE
    BY DEF Sound
  <2> QED
    BY <2>1, HeapFields DEF Unused
<1>2. /\ m1 \in Heaps(n, k) /\ m1.promises = m.promises
      /\ m1.jobs = m.jobs /\ m1.late = m.late
      /\ Unused(m1) = Unused(m) \ {i}
      /\ \A a \in 1 .. k : m1.pairs[a].promise = m.pairs[a].promise
      /\ StaysUsed(m, m1) /\ m1.pairs[i].already
  BY <1>1, MarkedPair
<1>3. p \in 1 .. n /\ m.promises[p].state = "pending"
  BY <1>1, WayTargets DEF OneWay, OnlyPending
<1> HIDE DEF m1, p
<1>4. /\ m2 \in Heaps(n, k) /\ m2.pairs = m1.pairs /\ m2.late = m1.late
      /\ m2.promises = [m1.promises EXCEPT ![p] = m2.promises[p]]
      /\ m2.promises[p].state # "pending"
      /\ Len(m2.jobs) >= Len(m1.jobs)
      /\ \A j \in 1 .. Len(m1.jobs) : m2.jobs[j] = m1.jobs[j]
      /\ \A j \in 1 .. Len(m2.jobs) :
            j > Len(m1.jobs) => m2.jobs[j].k = "reaction"
      /\ Delivers(m1, m2, p, v, isReject)
  BY <1>2, <1>3, SettleFields
<1> HIDE DEF m2
<1>5. SameFollowing(m, m2)
  <2>1. Len(m.jobs) \in Nat /\ Len(m2.jobs) \in Nat
    BY <1>1, <1>4, HeapFields
  <2> QED
    BY <1>2, <1>4, <2>1 DEF SameFollowing, Following
<1>6. Len(m2.promises) = n /\ \A q \in 1 .. n : q # p => m2.promises[q] = m.promises[q]
  <2>1. Len(m2.promises) = n
    BY <1>4, HeapFields
  <2> QED
    BY <1>1, <1>2, <1>4, <2>1
<1>7. Unused(m2) = Unused(m) \ {i}
  BY <1>2, <1>4 DEF Unused
<1>8. \A a \in Unused(m2) : m2.pairs[a].promise = m.pairs[a].promise
  <2>1. Unused(m) \subseteq 1 .. k
    BY <1>1, WayTargets
  <2> QED
    BY <1>2, <1>4, <1>7, <2>1
<1>9. OneWay(m2)
  BY <1>1, <1>4, <1>5, <1>6, <1>7, <1>8, WaySettled DEF p
<1>10. Keeps(m, m2)
  BY <1>1, <1>3, <1>6 DEF Keeps
<1>11. StaysUsed(m, m2) /\ m2.pairs[i].already
  BY <1>2, <1>4 DEF StaysUsed
<1>12. AwaitsKept(m, m2)
  <2>1. AwaitsKept(m, m1)
    BY <1>2, AwaitsSame
  <2>2. AwaitsKept(m1, m2)
    BY <1>2, <1>3, <1>4, <1>6, AwaitsSettled
  <2> QED
    BY <2>1, <2>2 DEF AwaitsKept
<1> QED
  BY <1>1, <1>2, <1>4, <1>9, <1>10, <1>11, <1>12
     DEF Becomes, Evolves, Sound, m2, m1, p

\* js_promise_resolve_function_call queues a job for an object with then.
LEMMA FollowStep ==
    ASSUME NEW n \in Nat, NEW k \in Nat, NEW m, Sound(m, n, k),
           NEW i \in 1 .. k, ~m.pairs[i].already, NEW v \in ValuesOf(n)
    PROVE  LET m1 == Marked(m, i)
               m2 == [m1 EXCEPT !.jobs =
                         Append(@, ThenableJob(m.pairs[i].promise, v))]
           IN Becomes(m, m2, n, k) /\ m2.pairs[i].already
<1> DEFINE m1 == Marked(m, i)
           p == m.pairs[i].promise
           job == ThenableJob(p, v)
           m2 == [m1 EXCEPT !.jobs = Append(@, job)]
           new == Len(m.jobs) + 1
<1>1. m \in Heaps(n, k) /\ OneWay(m) /\ m.late = FALSE /\ i \in Unused(m)
  <2>1. m \in Heaps(n, k) /\ OneWay(m) /\ m.late = FALSE
    BY DEF Sound
  <2> QED
    BY <2>1, HeapFields DEF Unused
<1>2. /\ m1 \in Heaps(n, k) /\ m1.promises = m.promises
      /\ m1.jobs = m.jobs /\ m1.late = m.late
      /\ Unused(m1) = Unused(m) \ {i}
      /\ \A a \in 1 .. k : m1.pairs[a].promise = m.pairs[a].promise
      /\ StaysUsed(m, m1) /\ m1.pairs[i].already
  BY <1>1, MarkedPair
<1>3. p \in 1 .. n
  BY <1>1, WayTargets
<1>4. job \in JobsOf(n, k) /\ job.k = "thenable" /\ job.cap = p
      /\ ~IsAwait(job.h)
  BY <1>3 DEF IsAwait, ThenableJob, JobsOf, NoHandler, Handler, HandlersOf, Undefined,
              Val, ValuesOf, Values, Kinds, AllHandlers, HandlerKinds
<1> HIDE DEF m1, p, job
<1>5. /\ m.jobs \in Seq(JobsOf(n, k)) /\ Len(m.jobs) \in Nat
      /\ Append(m.jobs, job) \in Seq(JobsOf(n, k))
      /\ Len(Append(m.jobs, job)) = new /\ Append(m.jobs, job)[new] = job
      /\ \A j \in 1 .. Len(m.jobs) : Append(m.jobs, job)[j] = m.jobs[j]
  <2>1. m.jobs \in Seq(JobsOf(n, k))
    BY <1>1, HeapFields
  <2> QED
    BY <1>4, <2>1
<1>6. m2 = [m1 EXCEPT !.jobs = Append(m.jobs, job)]
  BY <1>2
<1>7. /\ m2.jobs = Append(m.jobs, job) /\ m2.pairs = m1.pairs
      /\ m2.promises = m1.promises /\ m2.late = m1.late /\ m2 \in Heaps(n, k)
  <2> HIDE DEF m2
  <2> DEFINE jobs == Append(m.jobs, job)
  <2>1. m1 \in Heaps(n, k) /\ jobs \in Seq(JobsOf(n, k)) /\ m2 = [m1 EXCEPT !.jobs = jobs]
    BY <1>2, <1>5, <1>6
  <2> HIDE DEF jobs
  <2>2. /\ m2.jobs = jobs /\ m2.pairs = m1.pairs
        /\ m2.promises = m1.promises /\ m2.late = m1.late /\ m2 \in Heaps(n, k)
    BY <2>1, WithJobs
  <2> QED
    BY <2>2 DEF jobs
<1> HIDE DEF m2
<1>8. m2.promises = m.promises /\ m2.late = m.late /\ m2 \in Heaps(n, k)
  BY <1>2, <1>7
<1>9. Following(m2) = Following(m) \cup {new} /\ new \notin Following(m)
  BY <1>4, <1>5, <1>7 DEF Following
<1>10. \A j \in Following(m) : m2.jobs[j].cap = m.jobs[j].cap
  BY <1>5, <1>7 DEF Following
<1>11. Unused(m2) = Unused(m) \ {i}
  BY <1>2, <1>7 DEF Unused
<1>12. \A a \in Unused(m2) : m2.pairs[a].promise = m.pairs[a].promise
  <2>1. Unused(m) \subseteq 1 .. k
    BY <1>1, WayTargets
  <2> QED
    BY <1>2, <1>7, <1>11, <2>1
<1>13. m2.jobs[new].cap = p
  BY <1>4, <1>5, <1>7
<1>14. \A q \in 1 .. n : m2.promises[q].state = m.promises[q].state
  BY <1>8
<1> HIDE DEF new
<1>15. OneWay(m2)
  BY <1>1, <1>8, <1>9, <1>10, <1>11, <1>12, <1>13, <1>14, WayFollowed DEF p
<1>16. Keeps(m, m2)
  BY <1>8 DEF Keeps
<1>17. StaysUsed(m, m2) /\ m2.pairs[i].already
  BY <1>2, <1>7 DEF StaysUsed
<1>18. AwaitsKept(m, m2)
  <2>1. m2.jobs = Append(m.jobs, job) /\ m.jobs \in Seq(JobsOf(n, k))
    BY <1>5, <1>7
  <2>2. \A q \in 1 .. n : OrdinaryMore(m, m2, q)
    BY <1>8 DEF OrdinaryMore
  <2> QED
    BY <1>1, <1>4, <1>8, <1>16, <2>1, <2>2, AwaitsQueued
<1> QED
  BY <1>1, <1>8, <1>15, <1>16, <1>17, <1>18
     DEF Becomes, Evolves, Sound, m2, m1, p, job

\* The values that the engine makes itself.
LEMMA OwnValues ==
    ASSUME NEW n \in Nat, NEW k \in Nat
    PROVE  /\ Error \in ValuesOf(n) /\ Undefined \in ValuesOf(n)
           /\ Prim \in ValuesOf(n)
           /\ NoHandler \in HandlersOf(n, k) /\ UserHandler \in HandlersOf(n, k)
           /\ FinallyHandler(0) \in HandlersOf(n, k)
           /\ FinallyHandler(1) \in HandlersOf(n, k)
           /\ ~IsAwait(NoHandler) /\ ~IsAwait(UserHandler)
           /\ ~IsAwait(FinallyHandler(0)) /\ ~IsAwait(FinallyHandler(1))
<1>1. /\ Error \in ValuesOf(n) /\ Undefined \in ValuesOf(n)
      /\ Prim \in ValuesOf(n)
  BY DEF Error, Undefined, Prim, Val, ValuesOf, Values, Kinds
<1> QED
  BY <1>1 DEF NoHandler, UserHandler, FinallyHandler, Handler, HandlersOf,
              AllHandlers, HandlerKinds, IsAwait

\* js_promise_resolve_function_call.
LEMMA CallStep ==
    ASSUME NEW n \in Nat, NEW k \in Nat, NEW m, Sound(m, n, k),
           NEW i \in 1 .. k, NEW isReject \in BOOLEAN, NEW v \in ValuesOf(n)
    PROVE  /\ Becomes(m, CallResolvingFunction(m, i, isReject, v), n, k)
           /\ CallResolvingFunction(m, i, isReject, v).pairs[i].already
<1> DEFINE m1 == Marked(m, i)
           p == m.pairs[i].promise
<1>1. CASE m.pairs[i].already
  <2>1. CallResolvingFunction(m, i, isReject, v) = m
    BY <1>1 DEF CallResolvingFunction
  <2> QED
    BY <1>1, <2>1, EvolvesItself DEF Becomes
<1>2. CASE ~m.pairs[i].already
  <2> DEFINE Good(m2) == Becomes(m, m2, n, k) /\ m2.pairs[i].already
  <2>1. /\ Good(Settle(m1, p, v, isReject)) /\ Good(Settle(m1, p, Error, TRUE))
        /\ Good(Settle(m1, p, v, FALSE))
    BY <1>2, SettleStep, OwnValues
  <2>2. Good([m1 EXCEPT !.jobs = Append(@, ThenableJob(p, v))])
    BY <1>2, FollowStep
  <2>3. CallResolvingFunction(m, i, isReject, v) \in
            {Settle(m1, p, v, isReject), Settle(m1, p, Error, TRUE),
             Settle(m1, p, v, FALSE),
             [m1 EXCEPT !.jobs = Append(@, ThenableJob(p, v))]}
    BY <1>2, Zenon DEF CallResolvingFunction, Marked
  <2> HIDE DEF Good
  <2>4. Good(CallResolvingFunction(m, i, isReject, v))
    BY <2>1, <2>2, <2>3, Zenon
  <2> QED
    BY <2>4 DEF Good
<1> QED
  BY <1>1, <1>2

\* The end of promise_reaction_job.
LEMMA CompleteStep ==
    ASSUME NEW n \in Nat, NEW k \in Nat, NEW m, Sound(m, n, k),
           NEW cap \in 0 .. k, NEW isReject \in BOOLEAN, NEW v \in ValuesOf(n)
    PROVE  Becomes(m, Complete(m, cap, isReject, v), n, k)
<1>1. CASE cap = NoCap
  BY <1>1, EvolvesItself DEF Complete, Becomes
<1>2. CASE cap # NoCap
  <2>1. cap \in 1 .. k
    BY <1>2 DEF NoCap
  <2> QED
    BY <1>2, <2>1, CallStep DEF Complete
<1> QED
  BY <1>1, <1>2

\* A pair more, for promise p.
OnePair(m, m2, k, p, exposed) ==
    /\ \A a \in 1 .. k : m2.pairs[a] = m.pairs[a]
    /\ m2.pairs[k + 1].promise = p /\ ~m2.pairs[k + 1].already
    /\ m2.pairs[k + 1].exposed = exposed
\* A promise more, with its pair.
Created(m, m2, n, k, exposed) ==
    /\ OnePair(m, m2, k, n + 1, exposed) /\ m2.jobs = m.jobs
    /\ \A q \in 1 .. n : m2.promises[q] = m.promises[q]
    /\ m2.promises[n + 1].state = "pending" /\ m2.promises[n + 1].reactions = <<>>

\* js_promise_constructor and js_new_promise_capability.
LEMMA NewPromiseStep ==
    ASSUME NEW n \in Nat, NEW k \in Nat, NEW m, Sound(m, n, k),
           NEW exposed \in BOOLEAN
    PROVE  LET m2 == NewPromise(m, exposed)
           IN Becomes(m, m2, n + 1, k + 1) /\ Created(m, m2, n, k, exposed)
<1> DEFINE m2 == NewPromise(m, exposed)
           pair == [promise |-> n + 1, already |-> FALSE, exposed |-> exposed]
           promises == Append(m.promises, Pending)
           pairs == Append(m.pairs, pair)
<1>1. m \in Heaps(n, k) /\ OneWay(m) /\ m.late = FALSE
  BY DEF Sound
<1>2. /\ m.promises \in Seq(PromisesOf(n, k)) /\ Len(m.promises) = n
      /\ m.pairs \in Seq(PairsOf(n)) /\ Len(m.pairs) = k
      /\ m.jobs \in Seq(JobsOf(n, k))
  BY <1>1, HeapFields
<1>3. /\ m.promises \in Seq(PromisesOf(n + 1, k + 1))
      /\ m.pairs \in Seq(PairsOf(n + 1))
      /\ m.jobs \in Seq(JobsOf(n + 1, k + 1))
  <2>1. /\ PromisesOf(n, k) \subseteq PromisesOf(n + 1, k + 1)
        /\ PairsOf(n) \subseteq PairsOf(n + 1)
        /\ JobsOf(n, k) \subseteq JobsOf(n + 1, k + 1)
    BY Wider
  <2> QED
    BY <1>2, <2>1, WiderSeq
<1>4. Pending \in PromisesOf(n + 1, k + 1) /\ Pending.state = "pending"
      /\ Pending.reactions = <<>>
  <2>1. Undefined \in ValuesOf(n + 1)
    BY OwnValues
  <2> QED
    BY <2>1 DEF Pending, PromisesOf, States
<1>5. /\ pair \in PairsOf(n + 1) /\ pair.promise = n + 1 /\ ~pair.already
      /\ pair.exposed = exposed
  BY DEF PairsOf
<1> HIDE DEF pair
<1>6. /\ promises \in Seq(PromisesOf(n + 1, k + 1)) /\ Len(promises) = n + 1
      /\ \A q \in 1 .. n : promises[q] = m.promises[q]
      /\ promises[n + 1] = Pending
  BY <1>2, <1>3, <1>4
<1>7. /\ pairs \in Seq(PairsOf(n + 1)) /\ Len(pairs) = k + 1
      /\ \A a \in 1 .. k : pairs[a] = m.pairs[a]
      /\ pairs[k + 1] = pair
  BY <1>2, <1>3, <1>5
<1>8. m2 = [promises |-> promises, pairs |-> pairs, jobs |-> m.jobs, late |-> m.late]
  <2> DEFINE m1 == [m EXCEPT !.promises = Append(@, Pending)]
  <2>1. m1 = [promises |-> promises, pairs |-> m.pairs, jobs |-> m.jobs,
              late |-> m.late]
    <3>1. m \in [promises : Seq(PromisesOf(n, k)), pairs : Seq(PairsOf(n)),
                 jobs : Seq(JobsOf(n, k)), late : BOOLEAN]
      BY <1>1 DEF Heaps
    <3>2. m1 = [m EXCEPT !.promises = promises]
      OBVIOUS
    <3> HIDE DEF m1, promises
    <3> QED
      BY <3>1, <3>2
  <2>2. NP(m1) = n + 1
    BY <1>6, <2>1 DEF NP
  <2>3. m2 = [m1 EXCEPT !.pairs = Append(@, pair)]
    BY <2>2 DEF NewPromise, CreateResolvingFunctions, pair
  <2> HIDE DEF m1, promises, m2
  <2> QED
    BY <2>1, <2>3
<1> HIDE DEF m2, promises, pairs
<1>9. /\ m2.promises = promises /\ m2.pairs = pairs /\ m2.jobs = m.jobs
      /\ m2.late = m.late
  BY <1>8
<1>10. m2 \in Heaps(n + 1, k + 1)
  <2>1. m.late \in BOOLEAN
    BY <1>1
  <2> QED
    BY <1>3, <1>6, <1>7, <1>8, <2>1 DEF Heaps
<1>11. Unused(m2) = Unused(m) \cup {k + 1}
  BY <1>2, <1>5, <1>7, <1>9 DEF Unused
<1>12. SameFollowing(m, m2)
  BY <1>9 DEF SameFollowing, Following
<1>13. \A a \in Unused(m) : m2.pairs[a].promise = m.pairs[a].promise
  BY <1>2, <1>7, <1>9 DEF Unused
<1>14. m2.pairs[k + 1].promise = n + 1
  BY <1>5, <1>7, <1>9
<1>15. /\ \A q \in 1 .. n : m2.promises[q].state = m.promises[q].state
       /\ m2.promises[n + 1].state = "pending"
  BY <1>4, <1>6, <1>9
<1>16. OneWay(m2)
  BY <1>1, <1>10, <1>11, <1>12, <1>13, <1>14, <1>15, WayNew
<1>17. Keeps(m, m2)
  BY <1>2, <1>6, <1>9 DEF Keeps
<1>18. StaysUsed(m, m2)
  BY <1>2, <1>7, <1>9 DEF StaysUsed
<1>19. AwaitsKept(m, m2)
  <2>1. OrdinaryJobs(m, m2, 0)
    BY <1>1, <1>9, JobsSame
  <2>2. \A q \in 1 .. n : OrdinaryMore(m, m2, q)
    BY <1>6, <1>9 DEF OrdinaryMore
  <2>3. \A q \in 1 .. n + 1 : q > n => m2.promises[q].reactions = <<>>
    BY <1>4, <1>6, <1>9
  <2>4. n + 1 \in Nat /\ k + 1 \in Nat /\ n <= n + 1
    OBVIOUS
  <2> QED
    BY <1>1, <1>10, <1>17, <2>1, <2>2, <2>3, <2>4, AwaitsQuiet
<1>20. Created(m, m2, n, k, exposed)
  BY <1>4, <1>5, <1>6, <1>7, <1>9 DEF Created, OnePair
<1> QED
  BY <1>1, <1>9, <1>10, <1>16, <1>17, <1>18, <1>19, <1>20
     DEF Becomes, Evolves, Sound, m2

\* Promises may be marked as handled and may keep more reactions.
LEMMA WithPromises ==
    ASSUME NEW n \in Nat, NEW k \in Nat, NEW m, Sound(m, n, k),
           NEW m2 \in Heaps(n, k), m2.pairs = m.pairs, m2.jobs = m.jobs,
           m2.late = m.late,
           \A q \in 1 .. n : /\ m2.promises[q].state = m.promises[q].state
                            /\ m2.promises[q].result = m.promises[q].result
    PROVE  Turns(m, m2, n, k)
<1>1. m \in Heaps(n, k) /\ OneWay(m) /\ m.late = FALSE
  BY DEF Sound
<1>2. Len(m.promises) = n /\ Len(m2.promises) = n
  BY <1>1, HeapFields
<1>3. SameFollowing(m, m2)
  BY DEF SameFollowing, Following
<1>4. OneWay(m2)
  BY <1>1, <1>3, WaySame
<1>5. Keeps(m, m2)
  BY <1>2 DEF Keeps
<1>6. StaysUsed(m, m2)
  BY DEF StaysUsed
<1> QED
  BY <1>1, <1>4, <1>5, <1>6 DEF Turns, Sound

\* A heap with the job of a reaction at the end of the list.
LEMMA QueueStep ==
    ASSUME NEW n \in Nat, NEW k \in Nat, NEW m, Sound(m, n, k),
           NEW job \in JobsOf(n, k), job.k = "reaction", NEW m2,
           m2 = [m EXCEPT !.jobs = Append(@, job)]
    PROVE  /\ Turns(m, m2, n, k) /\ m2.promises = m.promises
           /\ m2.jobs = Append(m.jobs, job) /\ m2.pairs = m.pairs
<1> DEFINE jobs == Append(m.jobs, job)
<1>1. m \in Heaps(n, k) /\ OneWay(m) /\ m.late = FALSE
  BY DEF Sound
<1>2. job \in JobsOf(n, k) /\ job.k = "reaction"
  OBVIOUS
<1>3. /\ m.jobs \in Seq(JobsOf(n, k)) /\ Len(m.promises) = n
  BY <1>1, HeapFields
<1>4. /\ jobs \in Seq(JobsOf(n, k)) /\ Len(jobs) = Len(m.jobs) + 1
      /\ jobs[Len(m.jobs) + 1] = job /\ Len(m.jobs) \in Nat
      /\ \A j \in 1 .. Len(m.jobs) : jobs[j] = m.jobs[j]
  BY <1>2, <1>3
<1>5. m2 = [m EXCEPT !.jobs = jobs]
  OBVIOUS
<1> HIDE DEF jobs
<1>6. /\ m2 \in Heaps(n, k) /\ m2.jobs = jobs /\ m2.promises = m.promises
      /\ m2.pairs = m.pairs /\ m2.late = m.late
  <2>1. /\ m \in Heaps(n, k) /\ jobs \in Seq(JobsOf(n, k))
        /\ m2 = [m EXCEPT !.jobs = jobs]
    BY <1>1, <1>4, <1>5
  <2> QED
    BY <2>1 DEF Heaps
<1>7. SameFollowing(m, m2)
  BY <1>2, <1>4, <1>6 DEF SameFollowing, Following
<1>8. OneWay(m2)
  BY <1>1, <1>6, <1>7, WaySame
<1>9. Keeps(m, m2)
  BY <1>6 DEF Keeps
<1>10. StaysUsed(m, m2)
  BY <1>6 DEF StaysUsed
<1> QED
  BY <1>1, <1>6, <1>8, <1>9, <1>10 DEF Turns, Sound, jobs

\* What perform_promise_then does: a pending promise has a reaction more, for
\* a settled one there is a job more.
Performed(m, m2, p, onFulfil, onReject, cap) ==
    LET s == m.promises[p].reactions
        t == m2.promises[p].reactions
        r == t[Len(s) + 1]
    IN /\ \A q \in 1 .. Len(m.promises) : q # p => m2.promises[q] = m.promises[q]
       /\ m2.promises[p].state = m.promises[p].state
       /\ m2.promises[p].result = m.promises[p].result
       /\ m2.pairs = m.pairs
       /\ m.promises[p].state = "pending" =>
             /\ m2.jobs = m.jobs /\ OneMore(s, t)
             /\ r.onFulfil = onFulfil /\ r.onReject = onReject /\ r.cap = cap
       /\ m.promises[p].state # "pending" =>
             /\ t = s
             /\ \E job : /\ m2.jobs = Append(m.jobs, job) /\ job.k = "reaction"
                         /\ job.h = IF m.promises[p].state = "rejected"
                                    THEN onReject ELSE onFulfil
                         /\ job.arg = m.promises[p].result /\ job.cap = cap
                         /\ job.rej = (m.promises[p].state = "rejected")

\* perform_promise_then.
LEMMA PerformStep ==
    ASSUME NEW n \in Nat, NEW k \in Nat, NEW m, Sound(m, n, k), NEW p \in 1 .. n,
           NEW onFulfil \in HandlersOf(n, k), NEW onReject \in HandlersOf(n, k),
           NEW cap \in 0 .. k
    PROVE  LET m2 == PerformPromiseThen(m, p, onFulfil, onReject, cap)
           IN Turns(m, m2, n, k) /\ Performed(m, m2, p, onFulfil, onReject, cap)
<1> DEFINE s == m.promises[p]
           r == [onFulfil |-> onFulfil, onReject |-> onReject, cap |-> cap]
           handled == [s EXCEPT !.handled = TRUE]
           promises == [m.promises EXCEPT ![p] = handled]
           m1 == [m EXCEPT !.promises[p].handled = TRUE]
           m2 == PerformPromiseThen(m, p, onFulfil, onReject, cap)
<1>1. m \in Heaps(n, k) /\ s \in PromisesOf(n, k) /\ s.result \in ValuesOf(n)
      /\ s.state \in {"pending", "fulfilled", "rejected"}
  <2>1. m \in Heaps(n, k)
    BY DEF Sound
  <2>2. s \in PromisesOf(n, k)
    BY <2>1, HeapFields
  <2> QED
    BY <2>1, <2>2 DEF PromisesOf, States
<1>2. /\ handled \in PromisesOf(n, k) /\ handled.state = s.state
      /\ handled.result = s.result /\ handled.reactions = s.reactions
  BY <1>1 DEF PromisesOf
<1>3. m1 = [m EXCEPT !.promises = promises]
  OBVIOUS
<1> HIDE DEF handled
<1>4. /\ promises \in Seq(PromisesOf(n, k)) /\ Len(promises) = n
      /\ promises[p] = handled
      /\ \A q \in 1 .. n : q # p => promises[q] = m.promises[q]
  <2>1. m.promises \in Seq(PromisesOf(n, k)) /\ Len(m.promises) = n
    BY <1>1, HeapFields
  <2> QED
    BY <1>2, <2>1
<1> HIDE DEF m1, promises
<1>5. /\ m1 \in Heaps(n, k) /\ m1.promises = promises /\ m1.pairs = m.pairs
      /\ m1.jobs = m.jobs /\ m1.late = m.late
  BY <1>1, <1>3, <1>4 DEF Heaps
<1>6. Turns(m, m1, n, k) /\ Sound(m1, n, k)
  <2>1. \A q \in 1 .. n : /\ m1.promises[q].state = m.promises[q].state
                         /\ m1.promises[q].result = m.promises[q].result
    BY <1>2, <1>4, <1>5
  <2>2. Turns(m, m1, n, k)
    BY <1>5, <2>1, WithPromises
  <2> QED
    BY <2>2 DEF Turns
<1>7. CASE s.state = "pending"
  <2> DEFINE waiting == [handled EXCEPT !.reactions = Append(@, r)]
             kept == [promises EXCEPT ![p] = waiting]
  <2>1. r \in ReactionsOf(n, k)
    BY DEF ReactionsOf
  <2>2. handled.reactions \in Seq(ReactionsOf(n, k))
    BY <1>2 DEF PromisesOf
  <2> DEFINE more == Append(s.reactions, r)
  <2>3. /\ more \in Seq(ReactionsOf(n, k)) /\ more = Append(handled.reactions, r)
        /\ OneMore(s.reactions, more) /\ more[Len(s.reactions) + 1] = r
    <3>1. s.reactions \in Seq(ReactionsOf(n, k)) /\ handled.reactions = s.reactions
      BY <1>2, <2>2
    <3> DEFINE rs == s.reactions
    <3> HIDE DEF r, rs
    <3>2. /\ Append(rs, r) \in Seq(ReactionsOf(n, k))
          /\ OneMore(rs, Append(rs, r)) /\ Append(rs, r)[Len(rs) + 1] = r
      BY <2>1, <3>1 DEF OneMore, rs
    <3> QED
      BY <3>1, <3>2 DEF rs
  <2>4. /\ waiting \in PromisesOf(n, k) /\ waiting.state = handled.state
        /\ waiting.result = handled.result /\ waiting.reactions = more
    BY <1>2, <2>3 DEF PromisesOf
  <2>5. m2 = [m1 EXCEPT !.promises[p].reactions = Append(@, r)]
    BY <1>7 DEF PerformPromiseThen, m1
  <2>6. m2 = [m1 EXCEPT !.promises = kept]
    BY <1>4, <1>5, <2>5
  <2> HIDE DEF waiting, m2
  <2>7. /\ kept \in Seq(PromisesOf(n, k)) /\ Len(kept) = n /\ kept[p] = waiting
        /\ \A q \in 1 .. n : q # p => kept[q] = promises[q]
    BY <1>4, <2>4
  <2> HIDE DEF kept
  <2>8. /\ m2 \in Heaps(n, k) /\ m2.promises = kept /\ m2.pairs = m1.pairs
        /\ m2.jobs = m1.jobs /\ m2.late = m1.late
    BY <1>5, <2>6, <2>7 DEF Heaps
  <2>9. \A q \in 1 .. n : /\ m2.promises[q].state = m1.promises[q].state
                         /\ m2.promises[q].result = m1.promises[q].result
    BY <1>4, <1>5, <2>4, <2>7, <2>8
  <2>10. Turns(m1, m2, n, k)
    BY <1>6, <2>8, <2>9, WithPromises
  <2>11. Performed(m, m2, p, onFulfil, onReject, cap)
    <3>1. m2.promises[p] = waiting /\ m2.jobs = m.jobs /\ Len(m.promises) = n
      BY <1>1, <1>5, <2>7, <2>8, HeapFields
    <3>2. \A q \in 1 .. n : q # p => m2.promises[q] = m.promises[q]
      BY <1>4, <2>7, <2>8
    <3>3. r.onFulfil = onFulfil /\ r.onReject = onReject /\ r.cap = cap
      OBVIOUS
    <3> HIDE DEF more, r
    <3> QED
      BY <1>2, <1>5, <1>7, <2>3, <2>4, <2>8, <3>1, <3>2, <3>3 DEF Performed
  <2> QED
    BY <1>6, <2>10, <2>11, TurnsThrough DEF m2
<1>8. CASE s.state = "fulfilled"
  <2> DEFINE job == ReactionJob(onFulfil, cap, FALSE, s.result)
  <2>1. m2 = [m1 EXCEPT !.jobs = Append(@, job)]
    BY <1>8 DEF PerformPromiseThen, m1
  <2>2. /\ job.k = "reaction" /\ job.h = onFulfil /\ job.arg = s.result
        /\ job.cap = cap /\ job.rej = FALSE
    BY DEF ReactionJob
  <2> HIDE DEF m2, s
  <2>3. /\ Turns(m1, m2, n, k) /\ m2.promises = m1.promises
        /\ m2.jobs = Append(m1.jobs, job) /\ m2.pairs = m1.pairs
    <3>1. Sound(m1, n, k) /\ s.result \in ValuesOf(n)
      BY <1>1, <1>6
    <3>2. job \in JobsOf(n, k)
      BY <3>1 DEF ReactionJob, JobsOf
    <3> HIDE DEF job
    <3> QED
      BY <2>1, <2>2, <3>1, <3>2, QueueStep
  <2> HIDE DEF job
  <2>4. Performed(m, m2, p, onFulfil, onReject, cap)
    <3>1. m2.promises[p] = handled /\ m2.jobs = Append(m.jobs, job)
      BY <1>4, <1>5, <2>3
    <3>2. \A q \in 1 .. Len(m.promises) : q # p => m2.promises[q] = m.promises[q]
      BY <1>1, <1>4, <1>5, <2>3, HeapFields
    <3> QED
      BY <1>2, <1>5, <1>8, <2>2, <2>3, <3>1, <3>2 DEF Performed, s
  <2> QED
    BY <1>6, <2>3, <2>4, TurnsThrough DEF m2
<1>9. CASE s.state = "rejected"
  <2> DEFINE job == ReactionJob(onReject, cap, TRUE, s.result)
  <2>1. m2 = [m1 EXCEPT !.jobs = Append(@, job)]
    BY <1>9 DEF PerformPromiseThen, m1
  <2>2. /\ job.k = "reaction" /\ job.h = onReject /\ job.arg = s.result
        /\ job.cap = cap /\ job.rej = TRUE
    BY DEF ReactionJob
  <2> HIDE DEF m2, s
  <2>3. /\ Turns(m1, m2, n, k) /\ m2.promises = m1.promises
        /\ m2.jobs = Append(m1.jobs, job) /\ m2.pairs = m1.pairs
    <3>1. Sound(m1, n, k) /\ s.result \in ValuesOf(n)
      BY <1>1, <1>6
    <3>2. job \in JobsOf(n, k)
      BY <3>1 DEF ReactionJob, JobsOf
    <3> HIDE DEF job
    <3> QED
      BY <2>1, <2>2, <3>1, <3>2, QueueStep
  <2> HIDE DEF job
  <2>4. Performed(m, m2, p, onFulfil, onReject, cap)
    <3>1. m2.promises[p] = handled /\ m2.jobs = Append(m.jobs, job)
      BY <1>4, <1>5, <2>3
    <3>2. \A q \in 1 .. Len(m.promises) : q # p => m2.promises[q] = m.promises[q]
      BY <1>1, <1>4, <1>5, <2>3, HeapFields
    <3> QED
      BY <1>2, <1>5, <1>9, <2>2, <2>3, <3>1, <3>2 DEF Performed, s
  <2> QED
    BY <1>6, <2>3, <2>4, TurnsThrough DEF m2
<1> QED
  BY <1>1, <1>7, <1>8, <1>9

\* perform_promise_then with handlers that resume nobody.
LEMMA PerformQuiet ==
    ASSUME NEW n \in Nat, NEW k \in Nat, NEW m, Sound(m, n, k), NEW p \in 1 .. n,
           NEW onFulfil \in HandlersOf(n, k), NEW onReject \in HandlersOf(n, k),
           NEW cap \in 0 .. k, ~IsAwait(onFulfil), ~IsAwait(onReject)
    PROVE  Becomes(m, PerformPromiseThen(m, p, onFulfil, onReject, cap), n, k)
<1> DEFINE m2 == PerformPromiseThen(m, p, onFulfil, onReject, cap)
<1>1. Turns(m, m2, n, k) /\ Performed(m, m2, p, onFulfil, onReject, cap)
  BY PerformStep
<1> HIDE DEF m2
<1>2. /\ m \in Heaps(n, k) /\ m2 \in Heaps(n, k) /\ Keeps(m, m2)
      /\ Len(m.promises) = n
  BY <1>1, HeapFields DEF Turns, Sound
<1>3. \A q \in 1 .. n : OrdinaryMore(m, m2, q)
  BY <1>1, <1>2 DEF Performed, OrdinaryMore, Ordinary
<1>4. AwaitsKept(m, m2)
  <2>1. CASE m.promises[p].state = "pending"
    <3>1. m2.jobs = m.jobs
      BY <1>1, <2>1 DEF Performed
    <3>2. OrdinaryJobs(m, m2, 0)
      BY <1>2, <3>1, JobsSame
    <3>3. n <= n /\ \A q \in 1 .. n : ~(q > n)
      OBVIOUS
    <3> QED
      BY <1>2, <1>3, <3>2, <3>3, AwaitsQuiet
  <2>2. CASE m.promises[p].state # "pending"
    <3>1. PICK job : m2.jobs = Append(m.jobs, job) /\ ~IsAwait(job.h)
      BY <1>1, <2>2 DEF Performed
    <3> QED
      BY <1>2, <1>3, <3>1, AwaitsQueued
  <2> QED
    BY <2>1, <2>2
<1> QED
  BY <1>1, <1>4 DEF Turns, Becomes, Evolves, m2

\* The numbers of promises and of pairs.
LEMMA Numbers ==
    ASSUME NEW n \in Nat, NEW k \in Nat, NEW m, Sound(m, n, k)
    PROVE  NP(m) = n /\ LastPair(m) = k
BY DEF Sound, Heaps, NP, LastPair

\* js_promise_then.
LEMMA ThenStep ==
    ASSUME NEW n \in Nat, NEW k \in Nat, NEW m, Sound(m, n, k), NEW p \in 1 .. n,
           NEW onFulfil \in HandlersOf(n, k), NEW onReject \in HandlersOf(n, k),
           ~IsAwait(onFulfil), ~IsAwait(onReject)
    PROVE  Becomes(m, Then(m, p, onFulfil, onReject), n + 1, k + 1)
<1> DEFINE m1 == NewPromiseCapability(m)
           m2 == PerformPromiseThen(m1, p, onFulfil, onReject, LastPair(m1))
<1>1. Becomes(m, m1, n + 1, k + 1)
  BY NewPromiseStep DEF NewPromiseCapability
<1>2. /\ Sound(m1, n + 1, k + 1) /\ LastPair(m1) = k + 1
  BY <1>1, Numbers DEF Becomes
<1> HIDE DEF m1
<1>3. /\ onFulfil \in HandlersOf(n + 1, k + 1)
      /\ onReject \in HandlersOf(n + 1, k + 1)
  BY WiderParts
<1>4. Becomes(m1, m2, n + 1, k + 1)
  <2>1. p \in 1 .. n + 1 /\ LastPair(m1) \in 0 .. k + 1
    BY <1>2
  <2>2. n + 1 \in Nat /\ k + 1 \in Nat
    OBVIOUS
  <2> QED
    BY <1>2, <1>3, <2>1, <2>2, PerformQuiet
<1> QED
  BY <1>1, <1>4, EvolvesThrough DEF Becomes, Then, m1

\* Promise.resolve and Promise.reject: a promise more or the same heap.
LEMMA ResolveStep ==
    ASSUME NEW n \in Nat, NEW k \in Nat, NEW m, Sound(m, n, k),
           NEW isReject \in BOOLEAN, NEW v \in ValuesOf(n)
    PROVE  \/ Becomes(m, PromiseResolve(m, isReject, v), n, k)
           \/ Becomes(m, PromiseResolve(m, isReject, v), n + 1, k + 1)
<1>1. CASE IsKept(isReject, v)
  BY <1>1, EvolvesItself DEF PromiseResolve, Becomes
<1>2. CASE ~IsKept(isReject, v)
  <2> DEFINE m1 == NewPromiseCapability(m)
             m2 == CallResolvingFunction(m1, LastPair(m1), isReject, v)
  <2>1. Becomes(m, m1, n + 1, k + 1)
    BY NewPromiseStep DEF NewPromiseCapability
  <2>2. /\ Sound(m1, n + 1, k + 1) /\ LastPair(m1) = k + 1
    BY <2>1, Numbers DEF Becomes
  <2> HIDE DEF m1
  <2>3. v \in ValuesOf(n + 1)
    BY WiderParts
  <2>4. Becomes(m1, m2, n + 1, k + 1)
    BY <2>2, <2>3, CallStep
  <2>5. PromiseResolve(m, isReject, v) = m2
    BY <1>2 DEF PromiseResolve, m1
  <2> QED
    BY <2>1, <2>4, <2>5, EvolvesThrough DEF Becomes
<1> QED
  BY <1>1, <1>2

\* js_promise_then_finally_func: two promises more.
LEMMA ThenFinallyStep ==
    ASSUME NEW n \in Nat, NEW k \in Nat, NEW m, Sound(m, n, k),
           NEW res \in ValuesOf(n), NEW magic \in Nat, NEW arg \in ValuesOf(n)
    PROVE  Becomes(m, ThenFinally(m, res, magic, arg), n + 2, k + 2)
<1> DEFINE m1 == NewPromiseCapability(m)
           m2 == CallResolvingFunction(m1, LastPair(m1), FALSE, res)
           h == Handler(IF magic = 0 THEN "thunk" ELSE "thrower", 0, arg)
           m3 == Then(m2, NP(m1), h, NoHandler)
<1>1. Becomes(m, m1, n + 1, k + 1)
  BY NewPromiseStep DEF NewPromiseCapability
<1>2. /\ Sound(m1, n + 1, k + 1) /\ LastPair(m1) = k + 1 /\ NP(m1) = n + 1
  BY <1>1, Numbers DEF Becomes
<1> HIDE DEF m1
<1>3. res \in ValuesOf(n + 1) /\ arg \in ValuesOf(n + 1)
  BY WiderParts
<1>4. Becomes(m1, m2, n + 1, k + 1)
  <2>1. LastPair(m1) \in 1 .. k + 1 /\ n + 1 \in Nat /\ k + 1 \in Nat
    BY <1>2
  <2> QED
    BY <1>2, <1>3, <2>1, CallStep
<1>5. Sound(m2, n + 1, k + 1)
  BY <1>4 DEF Becomes
<1> HIDE DEF m2
<1>6. h \in HandlersOf(n + 1, k + 1) /\ ~IsAwait(h)
  BY <1>3 DEF Handler, HandlersOf, AllHandlers, HandlerKinds, IsAwait
<1>7. NoHandler \in HandlersOf(n + 1, k + 1) /\ ~IsAwait(NoHandler)
  BY OwnValues
<1> HIDE DEF h
<1>8. Becomes(m2, m3, n + 1 + 1, k + 1 + 1)
  <2>1. NP(m1) \in 1 .. n + 1 /\ n + 1 \in Nat /\ k + 1 \in Nat
    BY <1>2
  <2> QED
    BY <1>5, <1>6, <1>7, <2>1, ThenStep
<1>9. n + 1 + 1 = n + 2 /\ k + 1 + 1 = k + 2
  OBVIOUS
<1>10. ThenFinally(m, res, magic, arg) = m3
  BY DEF ThenFinally, m1, m2, h
<1> HIDE DEF m3
<1> QED
  BY <1>1, <1>4, <1>8, <1>9, <1>10, EvolvesThrough DEF Becomes

\* The heap without its first job.
Popped(m) == [m EXCEPT !.jobs = Tail(@)]

\* JS_ExecutePendingJob takes the first job, a reaction.
LEMMA DequeueStep ==
    ASSUME NEW n \in Nat, NEW k \in Nat, NEW m, Sound(m, n, k), m.jobs # <<>>,
           m.jobs[1].k = "reaction"
    PROVE  /\ Turns(m, Popped(m), n, k) /\ Popped(m).promises = m.promises
           /\ Popped(m).jobs = Tail(m.jobs) /\ Popped(m).pairs = m.pairs
           /\ ~IsAwait(m.jobs[1].h) => Becomes(m, Popped(m), n, k)
<1> DEFINE jobs == Tail(m.jobs)
           m2 == Popped(m)
<1>1. m \in Heaps(n, k) /\ OneWay(m) /\ m.late = FALSE
  BY DEF Sound
<1>2. m.jobs \in Seq(JobsOf(n, k)) /\ Len(m.jobs) \in Nat
  BY <1>1, HeapFields
<1>3. /\ jobs \in Seq(JobsOf(n, k)) /\ Len(jobs) = Len(m.jobs) - 1
      /\ Len(m.jobs) > 0
      /\ \A j \in 1 .. Len(jobs) : jobs[j] = m.jobs[j + 1]
  BY <1>2
<1>4. m2 = [m EXCEPT !.jobs = jobs]
  BY DEF Popped
<1> HIDE DEF jobs, m2
<1>5. /\ m2 \in Heaps(n, k) /\ m2.jobs = jobs /\ m2.promises = m.promises
      /\ m2.pairs = m.pairs /\ m2.late = m.late
  <2>1. /\ m \in Heaps(n, k) /\ jobs \in Seq(JobsOf(n, k))
        /\ m2 = [m EXCEPT !.jobs = jobs]
    BY <1>1, <1>3, <1>4
  <2> QED
    BY <2>1 DEF Heaps
<1>6. 1 \notin Following(m)
  BY DEF Following
<1>7. Following(m2) = {j \in Nat : j + 1 \in Following(m)}
  BY <1>2, <1>3, <1>5, <1>6 DEF Following
<1>8. \A j \in Following(m2) : m2.jobs[j] = m.jobs[j + 1]
  BY <1>3, <1>5 DEF Following
<1>9. OneWay(m2)
  BY <1>1, <1>5, <1>6, <1>7, <1>8, WayShifted
<1>10. Keeps(m, m2)
  BY <1>5 DEF Keeps
<1>11. StaysUsed(m, m2)
  BY <1>5 DEF StaysUsed
<1>12. ~IsAwait(m.jobs[1].h) => AwaitsKept(m, m2)
  BY <1>1, <1>5, AwaitsShifted DEF jobs
<1> QED
  BY <1>1, <1>5, <1>9, <1>10, <1>11, <1>12
     DEF Becomes, Turns, Evolves, Sound, m2, jobs

\* js_promise_resolve_thenable_job takes the first job and makes the next pair.
LEMMA TakeStep ==
    ASSUME NEW n \in Nat, NEW k \in Nat, NEW m, Sound(m, n, k), m.jobs # <<>>,
           m.jobs[1].k = "thenable", NEW exposed \in BOOLEAN
    PROVE  LET p == m.jobs[1].cap
               m2 == CreateResolvingFunctions(Popped(m), p, exposed)
           IN /\ Becomes(m, m2, n, k + 1) /\ OnePair(m, m2, k, p, exposed)
              /\ m2.promises = m.promises /\ m2.jobs = Tail(m.jobs)
<1> DEFINE jobs == Tail(m.jobs)
           m1 == Popped(m)
           pair == [promise |-> m.jobs[1].cap, already |-> FALSE,
                    exposed |-> exposed]
           pairs == Append(m.pairs, pair)
           m2 == CreateResolvingFunctions(m1, m.jobs[1].cap, exposed)
<1>1. m \in Heaps(n, k) /\ OneWay(m) /\ m.late = FALSE
  BY DEF Sound
<1>2. /\ m.promises \in Seq(PromisesOf(n, k)) /\ Len(m.promises) = n
      /\ m.pairs \in Seq(PairsOf(n)) /\ Len(m.pairs) = k
      /\ m.jobs \in Seq(JobsOf(n, k)) /\ Len(m.jobs) \in Nat
      /\ m = [promises |-> m.promises, pairs |-> m.pairs, jobs |-> m.jobs,
              late |-> m.late]
  BY <1>1, HeapFields
<1>3. /\ jobs \in Seq(JobsOf(n, k)) /\ Len(jobs) = Len(m.jobs) - 1
      /\ Len(m.jobs) > 0
      /\ \A j \in 1 .. Len(jobs) : jobs[j] = m.jobs[j + 1]
  BY <1>2
<1>4. m.jobs[1].cap \in 1 .. n
  <2>1. m.jobs[1] \in JobsOf(n, k)
    BY <1>2, <1>3
  <2> QED
    BY <2>1 DEF JobsOf
<1>5. /\ pair \in PairsOf(n) /\ pair.promise = m.jobs[1].cap /\ ~pair.already
      /\ pair.exposed = exposed
  BY <1>4 DEF PairsOf
<1> HIDE DEF pair, m2
<1>7. /\ pairs \in Seq(PairsOf(n)) /\ Len(pairs) = k + 1
      /\ \A a \in 1 .. k : pairs[a] = m.pairs[a]
      /\ pairs[k + 1] = pair
  BY <1>2, <1>5
<1>8. m2 = [promises |-> m.promises, pairs |-> pairs, jobs |-> jobs,
            late |-> m.late]
  <2>1. m1 = [m EXCEPT !.jobs = jobs]
    BY DEF Popped
  <2> HIDE DEF jobs, m1
  <2>2. m1 = [promises |-> m.promises, pairs |-> m.pairs, jobs |-> jobs,
              late |-> m.late]
    BY <1>2, <2>1
  <2>3. m1.pairs = m.pairs
    BY <2>2
  <2>4. m2 = [m1 EXCEPT !.pairs = pairs]
    BY <2>3, Zenon DEF CreateResolvingFunctions, m2, pairs, pair
  <2> HIDE DEF pairs
  <2> QED
    BY <2>2, <2>4
<1> HIDE DEF jobs, pairs
<1>9. /\ m2.promises = m.promises /\ m2.pairs = pairs /\ m2.jobs = jobs
      /\ m2.late = m.late
  BY <1>8
<1>10. m2 \in Heaps(n, k + 1)
  <2>1. /\ m.promises \in Seq(PromisesOf(n, k + 1))
        /\ jobs \in Seq(JobsOf(n, k + 1))
    <3>1. /\ PromisesOf(n, k) \subseteq PromisesOf(n, k + 1)
          /\ JobsOf(n, k) \subseteq JobsOf(n, k + 1)
      BY Wider
    <3> QED
      BY <1>2, <1>3, <3>1, WiderSeq
  <2>2. m.late \in BOOLEAN
    BY <1>1
  <2> QED
    BY <1>2, <1>7, <1>8, <2>1, <2>2 DEF Heaps
<1>11. Unused(m2) = Unused(m) \cup {k + 1}
  BY <1>2, <1>5, <1>7, <1>9 DEF Unused
<1>12. \A a \in Unused(m) : m2.pairs[a].promise = m.pairs[a].promise
  BY <1>2, <1>7, <1>9 DEF Unused
<1>13. 1 \in Following(m) /\ m2.pairs[k + 1].promise = m.jobs[1].cap
  BY <1>2, <1>3, <1>5, <1>7, <1>9 DEF Following
<1>14. Following(m2) = {j \in Nat \ {0} : j + 1 \in Following(m)}
  BY <1>2, <1>3, <1>9 DEF Following
<1>15. \A j \in Following(m2) : m2.jobs[j] = m.jobs[j + 1]
  BY <1>3, <1>9 DEF Following
<1>16. OneWay(m2)
  BY <1>1, <1>9, <1>10, <1>11, <1>12, <1>13, <1>14, <1>15, WayTaken
<1>17. Keeps(m, m2)
  BY <1>9 DEF Keeps
<1>18. StaysUsed(m, m2)
  BY <1>2, <1>7, <1>9 DEF StaysUsed
<1>19. AwaitsKept(m, m2)
  <2>1. CASE IsAwait(m.jobs[1].h)
    <3>1. 1 \in 1 .. Len(m.jobs)
      BY <1>2, <1>3
    <3>2. \A F, on : ~Awaits(m, F, on)
      BY <2>1, <3>1 DEF Awaits, JobsAwait
    <3> QED
      BY <3>2 DEF AwaitsKept
  <2>2. CASE ~IsAwait(m.jobs[1].h)
    <3>1. k + 1 \in Nat
      OBVIOUS
    <3> QED
      BY <1>1, <1>9, <1>10, <2>2, <3>1, AwaitsShifted DEF jobs
  <2> QED
    BY <2>1, <2>2
<1>20. OnePair(m, m2, k, m.jobs[1].cap, exposed)
  BY <1>5, <1>7, <1>9 DEF OnePair
<1> QED
  BY <1>1, <1>9, <1>10, <1>16, <1>17, <1>18, <1>19, <1>20
     DEF Becomes, Evolves, Sound, m1, m2, jobs

-----------------------------------------------------------------------------
(* The actions. *)

\* A step of the specification that ends in a sound heap.
Moves == \E n \in Nat, k \in Nat :
    /\ Becomes(vm, vm', n, k)
    /\ stack' \in Seq(FramesOf(n, k))

\* What the invariant says of the current heap and of the frames.
LEMMA CurrentHeap ==
    ASSUME PInv, NEW n, NEW k, n = NP(vm), k = LastPair(vm)
    PROVE  /\ n \in Nat /\ k \in Nat /\ Sound(vm, n, k)
           /\ vm \in Heaps(n, k)
           /\ stack \in Seq(FramesOf(n, k))
<1>1. /\ Sound(vm, n, k) /\ vm \in Heaps(n, k)
      /\ stack \in Seq(FramesOf(n, k))
  BY DEF PInv, Sound, NP, LastPair
<1>2. n \in Nat /\ k \in Nat
  BY <1>1 DEF Heaps, NP, LastPair
<1> QED
  BY <1>1, <1>2

\* Moves is what the invariant asks for.
LEMMA MovesKeep ==
    ASSUME Moves
    PROVE  PInv' /\ Evolves(vm, vm')
<1>1. PICK n \in Nat, k \in Nat : /\ Becomes(vm, vm', n, k)
                                 /\ stack' \in Seq(FramesOf(n, k))
  BY DEF Moves
<1>2. Sound(vm', n, k) /\ Evolves(vm, vm')
  BY <1>1 DEF Becomes
<1>3. Len(vm'.promises) = n /\ Len(vm'.pairs) = k
  BY <1>2 DEF Sound, Heaps
<1> QED
  BY <1>1, <1>2, <1>3 DEF PInv

\* The stack of a step that pushes no frame.
LEMMA StackWider ==
    ASSUME NEW n \in Nat, NEW k \in Nat, NEW n2 \in Nat, NEW k2 \in Nat,
           n <= n2, k <= k2, NEW s \in Seq(FramesOf(n, k))
    PROVE  /\ s \in Seq(FramesOf(n2, k2))
           /\ s # <<>> => SubSeq(s, 1, Len(s) - 1) \in Seq(FramesOf(n2, k2))
<1>1. FramesOf(n, k) \subseteq FramesOf(n2, k2)
  BY Wider
<1>2. s \in Seq(FramesOf(n2, k2))
  BY <1>1, WiderSeq
<1>3. ASSUME s # <<>> PROVE SubSeq(s, 1, Len(s) - 1) \in Seq(FramesOf(n2, k2))
  BY <1>2, <1>3
<1> QED
  BY <1>2, <1>3

\* The values user code has are values of the heap.
LEMMA UserValuesTyped ==
    ASSUME NEW n \in Nat, n = NP(vm)
    PROVE  UserValues \subseteq ValuesOf(n)
BY DEF UserValues, Prim, Val, PromiseVal, ValuesOf, Values, Kinds

\* A step that pushes no frame.
LEMMA Moved ==
    ASSUME PInv, NEW n \in Nat, NEW k \in Nat, NP(vm) <= n, LastPair(vm) <= k,
           Becomes(vm, vm', n, k), stack' = stack \/ (stack # <<>> /\ stack' = Pop)
    PROVE  Moves
<1>1. NP(vm) \in Nat /\ LastPair(vm) \in Nat
      /\ stack \in Seq(FramesOf(NP(vm), LastPair(vm)))
  BY CurrentHeap
<1>2. /\ stack \in Seq(FramesOf(n, k))
      /\ stack # <<>> => SubSeq(stack, 1, Len(stack) - 1) \in Seq(FramesOf(n, k))
  BY <1>1, StackWider
<1>3. stack' \in Seq(FramesOf(n, k))
  BY <1>2 DEF Pop
<1> QED
  BY <1>3 DEF Moves

\* new Promise(executor): a promise, its pair and the frame of the executor.
LEMMA MovedByNew == ASSUME PInv, New PROVE Moves
<1> DEFINE n == NP(vm)
           k == LastPair(vm)
           m == NewPromise(vm, TRUE)
           f == Frame("executor", LastPair(m), 0, Undefined)
<1>1. n \in Nat /\ k \in Nat /\ Sound(vm, n, k) /\ stack \in Seq(FramesOf(n, k))
  BY CurrentHeap
<1>2. vm' = m /\ stack' = Append(stack, f)
  BY DEF New, Act, Become
<1> HIDE DEF n, k
<1>3. Becomes(vm, m, n + 1, k + 1)
  BY <1>1, NewPromiseStep
<1> HIDE DEF m
<1>4. LastPair(m) = k + 1
  <2>1. Sound(m, n + 1, k + 1) /\ n + 1 \in Nat /\ k + 1 \in Nat
    BY <1>1, <1>3 DEF Becomes
  <2> QED
    BY <2>1, Numbers
<1>5. f \in FramesOf(n + 1, k + 1)
  <2>1. Undefined \in ValuesOf(n + 1)
    BY <1>1, OwnValues
  <2> QED
    BY <1>1, <1>4, <2>1 DEF Frame, FramesOf, FrameKinds
<1>6. stack \in Seq(FramesOf(n + 1, k + 1))
  BY <1>1, StackWider
<1> HIDE DEF f
<1>7. stack' \in Seq(FramesOf(n + 1, k + 1))
  BY <1>2, <1>5, <1>6
<1> QED
  BY <1>1, <1>2, <1>3, <1>7 DEF Moves

\* User code calls a resolving function, perhaps again.
LEMMA MovedByCallPair ==
    ASSUME PInv, NEW i \in 1 .. Len(vm.pairs), NEW r \in BOOLEAN,
           NEW v \in UserValues, CallPair(i, r, v)
    PROVE  Moves
<1> DEFINE n == NP(vm)
           k == LastPair(vm)
<1>1. n \in Nat /\ k \in Nat /\ Sound(vm, n, k)
  BY CurrentHeap
<1>2. vm' = CallResolvingFunction(vm, i, r, v) /\ stack' = stack
  BY DEF CallPair, Act, Become
<1>3. v \in ValuesOf(n) /\ i \in 1 .. k
  BY <1>1, UserValuesTyped DEF LastPair
<1> HIDE DEF n, k
<1>4. Becomes(vm, vm', n, k)
  BY <1>1, <1>2, <1>3, CallStep
<1> QED
  BY <1>1, <1>2, <1>4, Moved DEF n, k

\* p.then and p.catch.
LEMMA MovedByUserThen ==
    ASSUME PInv, NEW p \in 1 .. NP(vm), NEW f \in {NoHandler, UserHandler},
           NEW r \in {NoHandler, UserHandler}, UserThen(p, f, r)
    PROVE  Moves
<1> DEFINE n == NP(vm)
           k == LastPair(vm)
<1>1. n \in Nat /\ k \in Nat /\ Sound(vm, n, k)
  BY CurrentHeap
<1>2. vm' = Then(vm, p, f, r) /\ stack' = stack
  BY DEF UserThen, Act, Become
<1>3. /\ f \in HandlersOf(n, k) /\ r \in HandlersOf(n, k) /\ p \in 1 .. n
      /\ ~IsAwait(f) /\ ~IsAwait(r)
  BY <1>1, OwnValues
<1> HIDE DEF n, k
<1>4. Becomes(vm, vm', n + 1, k + 1)
  BY <1>1, <1>2, <1>3, ThenStep
<1>5. n <= n + 1 /\ k <= k + 1 /\ n + 1 \in Nat /\ k + 1 \in Nat
  BY <1>1
<1> QED
  BY <1>2, <1>4, <1>5, Moved DEF n, k

\* Promise.resolve and Promise.reject.
LEMMA MovedByUserResolve ==
    ASSUME PInv, NEW r \in BOOLEAN, NEW v \in UserValues, UserResolve(r, v)
    PROVE  Moves
<1> DEFINE n == NP(vm)
           k == LastPair(vm)
<1>1. n \in Nat /\ k \in Nat /\ Sound(vm, n, k)
  BY CurrentHeap
<1>2. vm' = PromiseResolve(vm, r, v) /\ stack' = stack
  BY DEF UserResolve, Act, Become
<1>3. v \in ValuesOf(n)
  BY <1>1, UserValuesTyped
<1> HIDE DEF n, k
<1>4. Becomes(vm, vm', n, k) \/ Becomes(vm, vm', n + 1, k + 1)
  BY <1>1, <1>2, <1>3, ResolveStep
<1>5. n <= n + 1 /\ k <= k + 1 /\ n + 1 \in Nat /\ k + 1 \in Nat
      /\ n <= n /\ k <= k
  BY <1>1
<1> QED
  BY <1>1, <1>2, <1>4, <1>5, Moved DEF n, k

\* p.finally.
LEMMA MovedByUserFinally ==
    ASSUME PInv, NEW p \in 1 .. NP(vm), NEW callable \in BOOLEAN,
           UserFinally(p, callable)
    PROVE  Moves
<1> DEFINE n == NP(vm)
           k == LastPair(vm)
<1>1. n \in Nat /\ k \in Nat /\ Sound(vm, n, k)
  BY CurrentHeap
<1>2. vm' = Finally(vm, p, callable) /\ stack' = stack
  BY DEF UserFinally, Act, Become
<1>3. /\ NoHandler \in HandlersOf(n, k) /\ FinallyHandler(0) \in HandlersOf(n, k)
      /\ FinallyHandler(1) \in HandlersOf(n, k) /\ p \in 1 .. n
      /\ ~IsAwait(NoHandler) /\ ~IsAwait(FinallyHandler(0))
      /\ ~IsAwait(FinallyHandler(1))
  BY <1>1, OwnValues
<1> HIDE DEF n, k
<1>4. /\ Becomes(vm, Then(vm, p, FinallyHandler(0), FinallyHandler(1)), n + 1, k + 1)
      /\ Becomes(vm, Then(vm, p, NoHandler, NoHandler), n + 1, k + 1)
  BY <1>1, <1>3, ThenStep
<1>5. Becomes(vm, vm', n + 1, k + 1)
  BY <1>2, <1>4 DEF Finally
<1>6. n <= n + 1 /\ k <= k + 1 /\ n + 1 \in Nat /\ k + 1 \in Nat
  BY <1>1
<1> QED
  BY <1>2, <1>5, <1>6, Moved DEF n, k

\* The frame that runs.
LEMMA TopTyped ==
    ASSUME PInv, InFrame, NEW n, NEW k, n = NP(vm), k = LastPair(vm)
    PROVE  /\ stack # <<>> /\ Top.pair \in 0 .. k /\ Top.magic \in Nat
           /\ Top.arg \in ValuesOf(n) /\ Top.k \in FrameKinds
<1>1. stack \in Seq(FramesOf(n, k)) /\ stack # <<>> /\ Top.k \in FrameKinds
  BY CurrentHeap DEF InFrame, Idle, FrameKinds
<1>2. Top \in FramesOf(n, k)
  BY <1>1 DEF Top
<1> QED
  BY <1>1, <1>2 DEF FramesOf, FrameKinds

\* The function of the last frame returns.
LEMMA MovedByReturn ==
    ASSUME PInv, NEW v \in UserValues, Return(v)
    PROVE  Moves
<1> DEFINE n == NP(vm)
           k == LastPair(vm)
<1>1. n \in Nat /\ k \in Nat /\ Sound(vm, n, k)
  BY CurrentHeap
<1>2. InFrame /\ stack' = Pop
  BY DEF Return
<1>3. v \in ValuesOf(n)
  BY <1>1, UserValuesTyped
<1>4. /\ stack # <<>> /\ Top.pair \in 0 .. k /\ Top.magic \in Nat
      /\ Top.arg \in ValuesOf(n) /\ Top.k \in FrameKinds
  BY <1>2, TopTyped
<1> HIDE DEF n, k
<1>5. n <= n + 2 /\ k <= k + 2 /\ n + 2 \in Nat /\ k + 2 \in Nat
      /\ n <= n /\ k <= k
  BY <1>1
<1>6. CASE Top.k \in {"executor", "then"}
  <2>1. vm' = vm
    BY <1>6 DEF Return, Become
  <2>2. Becomes(vm, vm', n, k)
    BY <1>1, <2>1, EvolvesItself DEF Becomes
  <2> QED
    BY <1>1, <1>2, <1>4, <1>5, <2>2, Moved DEF n, k
<1>7. CASE Top.k = "handler"
  <2>1. vm' = Complete(vm, Top.pair, FALSE, v)
    BY <1>7 DEF Return, Become
  <2>2. Becomes(vm, vm', n, k)
    BY <1>1, <1>3, <1>4, <2>1, CompleteStep
  <2> QED
    BY <1>1, <1>2, <1>4, <1>5, <2>2, Moved DEF n, k
<1>8. CASE Top.k = "finally"
  <2> DEFINE m == ThenFinally(vm, v, Top.magic, Top.arg)
  <2>1. vm' = Complete(m, Top.pair, FALSE, PromiseVal(NP(m)))
    BY <1>8 DEF Return, Become
  <2>2. Becomes(vm, m, n + 2, k + 2)
    BY <1>1, <1>3, <1>4, ThenFinallyStep
  <2> HIDE DEF m
  <2>3. Sound(m, n + 2, k + 2) /\ Evolves(vm, m) /\ Top.pair \in 0 .. k + 2
    BY <1>1, <1>4, <2>2 DEF Becomes
  <2>4. NP(m) = n + 2
    BY <1>5, <2>3, Numbers
  <2>5. PromiseVal(NP(m)) \in ValuesOf(n + 2)
    BY <1>1, <2>4 DEF PromiseVal, Val, ValuesOf, Values, Kinds
  <2>6. Becomes(m, vm', n + 2, k + 2)
    BY <1>5, <2>1, <2>3, <2>5, CompleteStep
  <2>7. Becomes(vm, vm', n + 2, k + 2)
    BY <2>3, <2>6, EvolvesThrough DEF Becomes
  <2> QED
    BY <1>2, <1>4, <1>5, <2>7, Moved DEF n, k
<1> QED
  BY <1>4, <1>6, <1>7, <1>8 DEF FrameKinds

\* The function of the last frame throws.
LEMMA MovedByThrow == ASSUME PInv, Throw PROVE Moves
<1> DEFINE n == NP(vm)
           k == LastPair(vm)
<1>1. n \in Nat /\ k \in Nat /\ Sound(vm, n, k)
  BY CurrentHeap
<1>2. InFrame /\ stack' = Pop /\ vm' = Complete(vm, Top.pair, TRUE, Error)
  BY DEF Throw, Become
<1>3. stack # <<>> /\ Top.pair \in 0 .. k /\ Error \in ValuesOf(n)
  BY <1>1, <1>2, TopTyped, OwnValues
<1> HIDE DEF n, k
<1>4. Becomes(vm, vm', n, k)
  BY <1>1, <1>2, <1>3, CompleteStep
<1>5. n <= n /\ k <= k
  BY <1>1
<1> QED
  BY <1>1, <1>2, <1>3, <1>4, <1>5, Moved DEF n, k

\* The job that is taken.
LEMMA JobTyped ==
    ASSUME PInv, vm.jobs # <<>>, NEW n, NEW k, n = NP(vm), k = LastPair(vm)
    PROVE  /\ Job.h \in HandlersOf(n, k) /\ Job.rej \in BOOLEAN
           /\ Job.arg \in ValuesOf(n) /\ Job.h.v \in ValuesOf(n)
           /\ Job.h.i \in Nat /\ Job.h.k \in AllHandlers
           /\ Job.h.k \in {"resolve", "reject"} => Job.h.i \in 1 .. k
           /\ Job.k = "reaction" => Job.cap \in 0 .. k
           /\ Job.arg.t = "promise" => Job.arg.n \in 1 .. n
           /\ Dequeued = Popped(vm)
<1>1. n \in Nat /\ k \in Nat /\ vm \in Heaps(n, k)
  BY CurrentHeap
<1>2. vm.jobs \in Seq(JobsOf(n, k))
  BY <1>1, HeapFields
<1>3. Job \in JobsOf(n, k)
  BY <1>2 DEF Job
<1>4. /\ Job.h \in HandlersOf(n, k) /\ Job.rej \in BOOLEAN
      /\ Job.arg \in ValuesOf(n) /\ (Job.k = "reaction" => Job.cap \in 0 .. k)
  BY <1>3 DEF JobsOf
<1>5. /\ Job.h.v \in ValuesOf(n) /\ Job.h.i \in Nat /\ Job.h.k \in AllHandlers
      /\ Job.h.k \in {"resolve", "reject"} => Job.h.i \in 1 .. k
  BY <1>4 DEF HandlersOf
<1>6. Job.arg.t = "promise" => Job.arg.n \in 1 .. n
  BY <1>4 DEF ValuesOf
<1>7. Dequeued = Popped(vm)
  BY DEF Dequeued, Popped
<1> QED
  BY <1>4, <1>5, <1>6, <1>7

\* promise_reaction_job with a native handler, which may be a resolving
\* function whose call counts or comes too late.
LEMMA MovedByNativeReaction == ASSUME PInv, RunNativeReaction PROVE Moves
<1> DEFINE n == NP(vm)
           k == LastPair(vm)
           m == Popped(vm)
<1>1. n \in Nat /\ k \in Nat /\ Sound(vm, n, k)
  BY CurrentHeap
<1>2. /\ vm.jobs # <<>> /\ Job.k = "reaction" /\ stack' = stack
      /\ Job.h.k \in {"undefined", "thunk", "thrower", "resolve", "reject"}
  BY DEF RunNativeReaction, RunnableReaction
<1>3. /\ Job.rej \in BOOLEAN
      /\ Job.arg \in ValuesOf(n) /\ Job.h.v \in ValuesOf(n)
      /\ Job.h.k \in {"resolve", "reject"} => Job.h.i \in 1 .. k
      /\ Job.k = "reaction" => Job.cap \in 0 .. k
      /\ Dequeued = m
  BY <1>2, JobTyped
<1> HIDE DEF n, k, m
<1>4. Becomes(vm, m, n, k)
  <2>1. ~IsAwait(Job.h)
    BY <1>2 DEF IsAwait
  <2> QED
    BY <1>1, <1>2, <2>1, DequeueStep DEF Job, m
<1>5. Sound(m, n, k) /\ Evolves(vm, m) /\ Job.cap \in 0 .. k
  BY <1>2, <1>3, <1>4 DEF Becomes
<1>6. Becomes(m, vm', n, k)
  <2>1. CASE Job.h.k = "undefined"
    <3>1. vm' = Complete(m, Job.cap, Job.rej, Job.arg)
      BY <1>3, <2>1 DEF RunNativeReaction
    <3> QED
      BY <1>1, <1>3, <1>5, <3>1, CompleteStep
  <2>2. CASE Job.h.k = "thunk"
    <3>1. vm' = Complete(m, Job.cap, FALSE, Job.h.v)
      BY <1>3, <2>2 DEF RunNativeReaction
    <3> QED
      BY <1>1, <1>3, <1>5, <3>1, CompleteStep
  <2>3. CASE Job.h.k = "thrower"
    <3>1. vm' = Complete(m, Job.cap, TRUE, Job.h.v)
      BY <1>3, <2>3 DEF RunNativeReaction
    <3> QED
      BY <1>1, <1>3, <1>5, <3>1, CompleteStep
  <2>4. CASE Job.h.k \in {"resolve", "reject"}
    <3> DEFINE isReject == Job.h.k = "reject"
               m2 == CallResolvingFunction(m, Job.h.i, isReject, Job.arg)
    <3>1. vm' = Complete(m2, Job.cap, FALSE, Undefined)
      BY <1>3, <2>4 DEF RunNativeReaction
    <3>2. isReject \in BOOLEAN /\ Job.h.i \in 1 .. k
      BY <1>3, <2>4
    <3> HIDE DEF isReject
    <3>3. Becomes(m, m2, n, k)
      BY <1>1, <1>3, <1>5, <3>2, CallStep
    <3> HIDE DEF m2
    <3>4. Sound(m2, n, k) /\ Evolves(m, m2) /\ Undefined \in ValuesOf(n)
      BY <1>1, <3>3, OwnValues DEF Becomes
    <3>5. Becomes(m2, vm', n, k)
      BY <1>1, <1>5, <3>1, <3>4, CompleteStep
    <3> QED
      BY <3>4, <3>5, EvolvesThrough DEF Becomes
  <2> QED
    BY <1>2, <2>1, <2>2, <2>3, <2>4
<1>7. Becomes(vm, vm', n, k)
  BY <1>5, <1>6, EvolvesThrough DEF Becomes
<1>8. n <= n /\ k <= k
  BY <1>1
<1> QED
  BY <1>1, <1>2, <1>7, <1>8, Moved DEF n, k

\* promise_reaction_job with a handler of user code.
LEMMA MovedByUserReaction == ASSUME PInv, RunUserReaction PROVE Moves
<1> DEFINE n == NP(vm)
           k == LastPair(vm)
           f == Frame(IF Job.h.k = "user" THEN "handler" ELSE "finally",
                      Job.cap, Job.h.i, Job.arg)
<1>1. n \in Nat /\ k \in Nat /\ Sound(vm, n, k)
  BY CurrentHeap
<1>2. /\ vm.jobs # <<>> /\ Job.k = "reaction" /\ ~IsAwait(Job.h)
      /\ vm' = Dequeued /\ stack' = <<f>>
  BY DEF RunUserReaction, RunnableReaction, IsAwait
<1>3. /\ Job.arg \in ValuesOf(n) /\ Job.h.i \in Nat
      /\ Job.k = "reaction" => Job.cap \in 0 .. k
      /\ Dequeued = Popped(vm)
  BY <1>2, JobTyped
<1> HIDE DEF n, k
<1>4. Becomes(vm, vm', n, k)
  BY <1>1, <1>2, <1>3, DequeueStep DEF Job
<1>5. f \in FramesOf(n, k)
  BY <1>2, <1>3 DEF Frame, FramesOf, FrameKinds
<1> HIDE DEF f
<1>6. stack' \in Seq(FramesOf(n, k))
  BY <1>2, <1>5
<1> QED
  BY <1>1, <1>4, <1>6 DEF Moves

\* js_promise_resolve_thenable_job.
LEMMA MovedByThenable == ASSUME PInv, RunThenable PROVE Moves
<1> DEFINE n == NP(vm)
           k == LastPair(vm)
           exposed == Job.arg.t = "thenable"
           m == CreateResolvingFunctions(Dequeued, Job.cap, exposed)
<1>1. n \in Nat /\ k \in Nat /\ Sound(vm, n, k)
  BY CurrentHeap
<1>2. vm.jobs # <<>> /\ Job.k = "thenable" /\ exposed \in BOOLEAN
  BY DEF RunThenable
<1>3. /\ Job.arg.t = "promise" => Job.arg.n \in 1 .. n
      /\ Dequeued = Popped(vm)
  BY <1>2, JobTyped
<1>4. IF Job.arg.t = "promise"
      THEN /\ vm' = Then(m, Job.arg.n, ResolveHandler(LastPair(m)),
                         RejectHandler(LastPair(m)))
           /\ stack' = stack
      ELSE vm' = m /\ stack' = <<Frame("then", LastPair(m), 0, Undefined)>>
  BY DEF RunThenable, Become
<1> HIDE DEF n, k, exposed
<1>5. Becomes(vm, m, n, k + 1)
  BY <1>1, <1>2, <1>3, TakeStep DEF Job
<1> HIDE DEF m
<1>6. Sound(m, n, k + 1) /\ Evolves(vm, m) /\ k + 1 \in Nat
  BY <1>1, <1>5 DEF Becomes
<1>7. LastPair(m) = k + 1 /\ Undefined \in ValuesOf(n)
  BY <1>1, <1>6, Numbers, OwnValues
<1>8. CASE Job.arg.t = "promise"
  <2> DEFINE f == ResolveHandler(LastPair(m))
             r == RejectHandler(LastPair(m))
  <2>1. /\ f \in HandlersOf(n, k + 1) /\ r \in HandlersOf(n, k + 1)
        /\ ~IsAwait(f) /\ ~IsAwait(r)
    BY <1>1, <1>7 DEF ResolveHandler, RejectHandler, Handler, HandlersOf,
                      AllHandlers, HandlerKinds, IsAwait
  <2>2. vm' = Then(m, Job.arg.n, f, r) /\ stack' = stack
    BY <1>4, <1>8
  <2> HIDE DEF f, r
  <2>3. Becomes(m, vm', n + 1, k + 1 + 1)
    BY <1>1, <1>3, <1>6, <1>8, <2>1, <2>2, ThenStep
  <2>4. Becomes(vm, vm', n + 1, k + 1 + 1)
    BY <1>6, <2>3, EvolvesThrough DEF Becomes
  <2>5. n <= n + 1 /\ k <= k + 1 + 1 /\ n + 1 \in Nat /\ k + 1 + 1 \in Nat
    BY <1>1
  <2> QED
    BY <2>2, <2>4, <2>5, Moved DEF n, k
<1>9. CASE Job.arg.t # "promise"
  <2> DEFINE f == Frame("then", LastPair(m), 0, Undefined)
  <2>1. f \in FramesOf(n, k + 1)
    BY <1>1, <1>7 DEF Frame, FramesOf, FrameKinds
  <2>2. vm' = m /\ stack' = <<f>>
    BY <1>4, <1>9
  <2> HIDE DEF f
  <2>3. stack' \in Seq(FramesOf(n, k + 1))
    BY <2>1, <2>2
  <2> QED
    BY <1>1, <1>5, <1>6, <2>2, <2>3 DEF Moves
<1> QED
  BY <1>8, <1>9

-----------------------------------------------------------------------------
(* The theorems. *)

\* Every step of the specification, the stuttering ones too.
LEMMA NextKeeps ==
    ASSUME PInv, [Next]_vars
    PROVE  PInv' /\ Evolves(vm, vm')
<1>1. ASSUME Next PROVE Moves
  <2>1. CASE New
    BY <2>1, MovedByNew
  <2>2. CASE \E i \in 1 .. Len(vm.pairs), r \in BOOLEAN, v \in UserValues :
                CallPair(i, r, v)
    BY <2>2, MovedByCallPair
  <2>3. CASE \E p \in 1 .. NP(vm), f \in {NoHandler, UserHandler},
                r \in {NoHandler, UserHandler} : UserThen(p, f, r)
    BY <2>3, MovedByUserThen
  <2>4. CASE \E r \in BOOLEAN, v \in UserValues : UserResolve(r, v)
    BY <2>4, MovedByUserResolve
  <2>5. CASE \E p \in 1 .. NP(vm), callable \in BOOLEAN : UserFinally(p, callable)
    BY <2>5, MovedByUserFinally
  <2>6. CASE \E v \in UserValues : Return(v)
    BY <2>6, MovedByReturn
  <2>7. CASE Throw
    BY <2>7, MovedByThrow
  <2>8. CASE RunNativeReaction
    BY <2>8, MovedByNativeReaction
  <2>9. CASE RunUserReaction
    BY <2>9, MovedByUserReaction
  <2>10. CASE RunThenable
    BY <2>10, MovedByThenable
  <2> QED
    BY <1>1, <2>1, <2>2, <2>3, <2>4, <2>5, <2>6, <2>7, <2>8, <2>9, <2>10
       DEF Next, UserNext, JobNext
<1>2. CASE Next
  BY <1>1, <1>2, MovesKeep
<1>3. CASE UNCHANGED vars
  BY <1>3, EvolvesItself DEF vars, PInv
<1> QED
  BY <1>2, <1>3

\* The empty heap.
LEMMA InitSound == ASSUME Init PROVE PInv
<1>1. /\ vm = [promises |-> <<>>, pairs |-> <<>>, jobs |-> <<>>, late |-> FALSE]
      /\ stack = <<>>
  BY DEF Init, EmptyVM
<1>2. Len(vm.promises) = 0 /\ Len(vm.pairs) = 0 /\ Len(vm.jobs) = 0
  BY <1>1
<1>3. vm \in Heaps(0, 0)
  BY <1>1 DEF Heaps
<1>4. Unused(vm) = {} /\ Following(vm) = {}
  BY <1>2 DEF Unused, Following
<1>5. OneWay(vm)
  BY <1>2, <1>4 DEF OneWay, PairsDiffer, JobsDiffer, PairOrJob, OnlyPending, AllPending
<1> QED
  BY <1>1, <1>2, <1>3, <1>5 DEF PInv, Sound

\* The heap, its pairs and its jobs are sound in every reachable state.
LEMMA AlwaysSound == Spec => []PInv
<1>1. Init => PInv
  BY InitSound
<1>2. PInv /\ [Next]_vars => PInv'
  BY NextKeeps
<1> QED
  BY <1>1, <1>2, PTL DEF Spec

\* A set of which two members are never different has at most one.
LEMMA AtMostOne ==
    ASSUME NEW S, \A a, b \in S : a = b
    PROVE  Cardinality(S) = IF S = {} THEN 0 ELSE 1
<1>1. CASE S = {}
  BY <1>1, FS_EmptySet
<1>2. CASE S # {}
  <2>1. PICK a \in S : TRUE
    BY <1>2
  <2>2. S = {a}
    BY <2>1
  <2> QED
    BY <1>2, <2>2, FS_Singleton
<1> QED
  BY <1>1, <1>2

\* The invariant counts the ways to settle a promise.
LEMMA SoundCounts == PInv => OneWayToSettle
<1> SUFFICES ASSUME PInv, NEW p \in 1 .. NP(vm)
             PROVE  Cardinality({i \in 1 .. LastPair(vm) :
                            vm.pairs[i].promise = p /\ ~vm.pairs[i].already})
                    + Cardinality({j \in 1 .. Len(vm.jobs) :
                            vm.jobs[j].k = "thenable" /\ vm.jobs[j].cap = p})
                    = IF vm.promises[p].state = "pending" THEN 1 ELSE 0
  BY DEF OneWayToSettle
<1> DEFINE P == {i \in 1 .. LastPair(vm) :
                    vm.pairs[i].promise = p /\ ~vm.pairs[i].already}
           J == {j \in 1 .. Len(vm.jobs) :
                    vm.jobs[j].k = "thenable" /\ vm.jobs[j].cap = p}
<1>1. OneWay(vm)
  BY DEF PInv, Sound
<1>2. P = {i \in Unused(vm) : vm.pairs[i].promise = p}
  BY DEF Unused, LastPair
<1>3. J = {j \in Following(vm) : vm.jobs[j].cap = p}
  BY DEF Following
<1> HIDE DEF P, J
<1>4. Cardinality(P) = IF P = {} THEN 0 ELSE 1
  <2>1. \A a, b \in P : a = b
    BY <1>1, <1>2 DEF OneWay, PairsDiffer
  <2> QED
    BY <2>1, AtMostOne
<1>5. Cardinality(J) = IF J = {} THEN 0 ELSE 1
  <2>1. \A a, b \in J : a = b
    BY <1>1, <1>3 DEF OneWay, JobsDiffer
  <2> QED
    BY <2>1, AtMostOne
<1>6. P = {} \/ J = {}
  BY <1>1, <1>2, <1>3 DEF OneWay, PairOrJob
<1>7. CASE vm.promises[p].state = "pending"
  <2>1. P # {} \/ J # {}
    BY <1>1, <1>2, <1>3, <1>7 DEF OneWay, AllPending, NP
  <2> QED
    BY <1>4, <1>5, <1>6, <1>7, <2>1 DEF P, J
<1>8. CASE vm.promises[p].state # "pending"
  <2>1. P = {} /\ J = {}
    BY <1>1, <1>2, <1>3, <1>8 DEF OneWay, OnlyPending
  <2> QED
    BY <1>4, <1>5, <1>8, <2>1 DEF P, J
<1> QED
  BY <1>7, <1>8

\* While a promise is pending exactly one pair of resolving functions or one
\* queued thenable job can settle it, and afterwards none can: this is what
\* the flag already_resolved of js_promise_resolve_function_call achieves,
\* whatever user code does with the functions it holds.
THEOREM PromisesSettleOneWay == Spec => []OneWayToSettle
BY AlwaysSound, SoundCounts, PTL

\* fulfill_or_reject_promise is never called for a promise that is not
\* pending: its early return, marked as one that should never happen, is
\* never taken.
THEOREM SettledOnlyOnce == Spec => [](vm.late = FALSE)
<1>1. PInv => vm.late = FALSE
  BY DEF PInv, Sound
<1> QED
  BY <1>1, AlwaysSound, PTL

\* No step, of user code or of a job, changes the state or the result of a
\* promise that is fulfilled or rejected.
THEOREM OutcomesAreFinal == Spec => [][Keeps(vm, vm')]_vars
<1>1. PInv /\ [Next]_vars => [Keeps(vm, vm')]_vars
  BY NextKeeps DEF Evolves
<1> QED
  BY <1>1, AlwaysSound, PTL DEF Spec

-----------------------------------------------------------------------------
(* Functions that are suspended and resumed. *)

\* Only what the suspended functions await matters.
LEMMA AwaitsAgree ==
    ASSUME NEW m, NEW F, NEW on, NEW on2, Awaits(m, F, on),
           \A f \in F : on2[f] = on[f]
    PROVE  Awaits(m, F, on2)
<1>1. ReactionsAwait(m, F, on2)
  BY DEF Awaits, ReactionsAwait
<1>2. JobsAwait(m, F, on2)
  BY DEF Awaits, JobsAwait
<1>3. AllResumed(m, F, on2)
  BY DEF Awaits, AllResumed
<1> QED
  BY <1>1, <1>2, <1>3 DEF Awaits

\* The awaited promise of a queued job is settled, that of a reaction is not.
LEMMA AwaitsEither ==
    ASSUME NEW m, NEW F, NEW on, Awaits(m, F, on),
           NEW i \in 1 .. Len(m.jobs), IsAwait(m.jobs[i].h),
           NEW p \in 1 .. Len(m.promises),
           NEW j \in 1 .. Len(m.promises[p].reactions),
           Resuming(m.promises[p].reactions[j])
    PROVE  m.promises[p].reactions[j].onFulfil.i # m.jobs[i].h.i
<1> DEFINE r == m.promises[p].reactions[j]
<1>1. ~Ordinary(r)
  BY DEF Ordinary, Resuming, IsAwait
<1>2. on[r.onFulfil.i] = p
  BY <1>1 DEF Awaits, ReactionsAwait
<1>3. m.promises[p].state = "pending"
  <2>1. m.promises[p].reactions # <<>>
    OBVIOUS
  <2> QED
    BY <2>1 DEF Awaits, ReactionsAwait
<1>4. m.promises[on[m.jobs[i].h.i]].state # "pending"
  BY DEF Awaits, JobsAwait
<1> QED
  BY <1>2, <1>3, <1>4

\* An await: function f is suspended and p is what it awaits.
LEMMA AwaitsMore ==
    ASSUME NEW n \in Nat, NEW k \in Nat, NEW m \in Heaps(n, k),
           NEW m2 \in Heaps(n, k), NEW F, NEW on, Awaits(m, F, on), NEW f,
           f \notin F, NEW p \in 1 .. n,
           m.promises[p].state \in States,
           Performed(m, m2, p, AwaitHandler(f, FALSE), AwaitHandler(f, TRUE), NoCap),
           NEW on2, on2[f] = p, \A g \in F : on2[g] = on[g]
    PROVE  Awaits(m2, F \cup {f}, on2)
<1> DEFINE s == m.promises[p].reactions
           t == m2.promises[p].reactions
           G == F \cup {f}
<1>1. /\ Len(m.promises) = n /\ Len(m2.promises) = n
      /\ Len(m.jobs) \in Nat /\ Len(m2.jobs) \in Nat /\ Len(s) \in Nat
      /\ m.jobs \in Seq(JobsOf(n, k))
  BY ReactionsTyped, HeapFields
<1>2. /\ \A q \in 1 .. n : q # p => m2.promises[q] = m.promises[q]
      /\ m2.promises[p].state = m.promises[p].state
      /\ m2.promises[p].result = m.promises[p].result
  BY <1>1 DEF Performed
<1>3. Awaits(m, F, on2)
  BY AwaitsAgree
<1>4. /\ ReactionsAwait(m, F, on2) /\ ReactionsDiffer(m)
      /\ JobsAwait(m, F, on2) /\ WakesDiffer(m) /\ AllResumed(m, F, on2)
  BY <1>3 DEF Awaits
<1>5. /\ AwaitHandler(f, FALSE).k = "await" /\ AwaitHandler(f, FALSE).i = f
      /\ AwaitHandler(f, TRUE).k = "awaitThrow" /\ AwaitHandler(f, TRUE).i = f
  BY DEF AwaitHandler, Handler
<1>6. /\ \A q \in 1 .. n : m2.promises[q].state = m.promises[q].state
      /\ \A q \in 1 .. n : m2.promises[q].result = m.promises[q].result
  BY <1>2
\* What resumes one of F carries the outcome in m2 as well.
<1>7. ASSUME NEW j \in 1 .. Len(m.jobs), IsAwait(m.jobs[j].h)
      PROVE  /\ m.jobs[j].k = "reaction" /\ m.jobs[j].h.i \in F
             /\ on2[m.jobs[j].h.i] \in 1 .. n
             /\ m2.promises[on2[m.jobs[j].h.i]].state
                 = IF m.jobs[j].h.k = "awaitThrow" THEN "rejected" ELSE "fulfilled"
             /\ m2.promises[on2[m.jobs[j].h.i]].result = m.jobs[j].arg
  <2> DEFINE q == on2[m.jobs[j].h.i]
  <2>1. /\ m.jobs[j].k = "reaction" /\ m.jobs[j].h.i \in F /\ q \in 1 .. n
        /\ m.promises[q].state
            = IF m.jobs[j].h.k = "awaitThrow" THEN "rejected" ELSE "fulfilled"
        /\ m.promises[q].result = m.jobs[j].arg
    BY <1>1, <1>4, <1>7 DEF JobsAwait
  <2> HIDE DEF q
  <2>2. /\ m2.promises[q].state = m.promises[q].state
        /\ m2.promises[q].result = m.promises[q].result
    BY <1>6, <2>1
  <2> QED
    BY <2>1, <2>2 DEF q
<1>8. CASE m.promises[p].state = "pending"
  <2>1. /\ m2.jobs = m.jobs /\ Len(t) = Len(s) + 1
        /\ \A j \in 1 .. Len(s) : t[j] = s[j]
        /\ t[Len(s) + 1].onFulfil = AwaitHandler(f, FALSE)
        /\ t[Len(s) + 1].onReject = AwaitHandler(f, TRUE)
    BY <1>8 DEF Performed, OneMore
  <2> HIDE DEF s, t
  <2>2. Resuming(t[Len(s) + 1]) /\ t[Len(s) + 1].onFulfil.i = f
    BY <1>5, <2>1 DEF Resuming
  <2>3. \A j \in 1 .. Len(t) : j \in 1 .. Len(s) \/ j = Len(s) + 1
    BY <1>1, <2>1
  \* Every reaction is an old one or the new one.
  <2>4. ASSUME NEW q \in 1 .. n, NEW j \in 1 .. Len(m2.promises[q].reactions)
        PROVE  \/ /\ j \in 1 .. Len(m.promises[q].reactions)
                  /\ m2.promises[q].reactions[j] = m.promises[q].reactions[j]
               \/ /\ q = p /\ j = Len(s) + 1 /\ Resuming(m2.promises[q].reactions[j])
                  /\ m2.promises[q].reactions[j].onFulfil.i = f
    BY <1>2, <2>1, <2>2, <2>3 DEF s, t
  <2>5. ReactionsAwait(m2, G, on2)
    <3>1. ASSUME NEW q \in 1 .. n, m2.promises[q].state # "pending"
          PROVE  m2.promises[q].reactions = <<>>
      BY <1>1, <1>2, <1>4, <1>8, <3>1 DEF ReactionsAwait
    <3>2. ASSUME NEW q \in 1 .. n, NEW j \in 1 .. Len(m2.promises[q].reactions)
          PROVE  LET r == m2.promises[q].reactions[j]
                 IN \/ Ordinary(r)
                    \/ Resuming(r) /\ r.onFulfil.i \in G /\ on2[r.onFulfil.i] = q
      <4>1. CASE /\ j \in 1 .. Len(m.promises[q].reactions)
                 /\ m2.promises[q].reactions[j] = m.promises[q].reactions[j]
        BY <1>1, <1>4, <4>1 DEF ReactionsAwait
      <4>2. CASE /\ q = p /\ Resuming(m2.promises[q].reactions[j])
                 /\ m2.promises[q].reactions[j].onFulfil.i = f
        BY <4>2
      <4> QED
        BY <2>4, <4>1, <4>2
    <3> QED
      BY <1>1, <3>1, <3>2 DEF ReactionsAwait
  \* No old reaction resumes f.
  <2>6. ASSUME NEW q \in 1 .. n, NEW j \in 1 .. Len(m.promises[q].reactions),
               Resuming(m.promises[q].reactions[j])
        PROVE  m.promises[q].reactions[j].onFulfil.i # f
    <3>1. ~Ordinary(m.promises[q].reactions[j])
      BY <2>6 DEF Ordinary, Resuming, IsAwait
    <3> QED
      BY <1>1, <1>4, <3>1 DEF ReactionsAwait
  <2>7. ReactionsDiffer(m2)
    <3> SUFFICES ASSUME NEW q \in 1 .. n,
                        NEW i \in 1 .. Len(m2.promises[q].reactions),
                        NEW j \in 1 .. Len(m2.promises[q].reactions),
                        Resuming(m2.promises[q].reactions[i]),
                        Resuming(m2.promises[q].reactions[j]),
                        m2.promises[q].reactions[i].onFulfil.i
                          = m2.promises[q].reactions[j].onFulfil.i
                 PROVE  i = j
      BY <1>1 DEF ReactionsDiffer
    <3>1. \/ /\ i \in 1 .. Len(m.promises[q].reactions)
             /\ m2.promises[q].reactions[i] = m.promises[q].reactions[i]
          \/ i = Len(s) + 1 /\ m2.promises[q].reactions[i].onFulfil.i = f
      BY <2>4
    <3>2. \/ /\ j \in 1 .. Len(m.promises[q].reactions)
             /\ m2.promises[q].reactions[j] = m.promises[q].reactions[j]
          \/ j = Len(s) + 1 /\ m2.promises[q].reactions[j].onFulfil.i = f
      BY <2>4
    <3> QED
      BY <1>1, <1>4, <2>6, <3>1, <3>2 DEF ReactionsDiffer
  <2>8. JobsAwait(m2, G, on2)
    BY <1>1, <1>7, <2>1 DEF JobsAwait
  <2>9. WakesDiffer(m2)
    BY <1>4, <2>1 DEF WakesDiffer
  <2>10. AllResumed(m2, G, on2)
    <3> SUFFICES ASSUME NEW g \in G
                 PROVE  \/ \E j \in 1 .. Len(m2.jobs) :
                              IsAwait(m2.jobs[j].h) /\ m2.jobs[j].h.i = g
                        \/ /\ on2[g] \in 1 .. Len(m2.promises)
                           /\ \E j \in 1 .. Len(m2.promises[on2[g]].reactions) :
                                 /\ Resuming(m2.promises[on2[g]].reactions[j])
                                 /\ m2.promises[on2[g]].reactions[j].onFulfil.i = g
      BY DEF AllResumed
    <3>1. CASE g = f
      <4>1. Len(s) + 1 \in 1 .. Len(t)
        BY <1>1, <2>1
      <4> QED
        BY <1>1, <2>2, <3>1, <4>1 DEF t
    <3>2. CASE g \in F
      <4>1. CASE \E j \in 1 .. Len(m.jobs) :
                    IsAwait(m.jobs[j].h) /\ m.jobs[j].h.i = g
        BY <2>1, <4>1
      <4>2. CASE /\ on2[g] \in 1 .. Len(m.promises)
                 /\ \E j \in 1 .. Len(m.promises[on2[g]].reactions) :
                       /\ Resuming(m.promises[on2[g]].reactions[j])
                       /\ m.promises[on2[g]].reactions[j].onFulfil.i = g
        <5>1. CASE on2[g] # p
          BY <1>1, <1>2, <4>2, <5>1
        <5>2. CASE on2[g] = p
          <6>1. PICK j \in 1 .. Len(s) : Resuming(s[j]) /\ s[j].onFulfil.i = g
            BY <4>2, <5>2 DEF s
          <6>2. j \in 1 .. Len(t) /\ t[j] = s[j]
            BY <1>1, <2>1
          <6> QED
            BY <1>1, <5>2, <6>1, <6>2 DEF t
        <5> QED
          BY <5>1, <5>2
      <4> QED
        BY <1>4, <3>2, <4>1, <4>2 DEF AllResumed
    <3> QED
      BY <3>1, <3>2
  <2> QED
    BY <2>5, <2>7, <2>8, <2>9, <2>10 DEF Awaits
<1>9. CASE m.promises[p].state # "pending"
  <2>1. t = s
    BY <1>9 DEF Performed
  <2>2. PICK job : /\ m2.jobs = Append(m.jobs, job) /\ job.k = "reaction"
                   /\ job.h = IF m.promises[p].state = "rejected"
                              THEN AwaitHandler(f, TRUE) ELSE AwaitHandler(f, FALSE)
                   /\ job.arg = m.promises[p].result
    BY <1>9 DEF Performed
  <2> DEFINE new == Len(m.jobs) + 1
  <2>3. /\ Len(m2.jobs) = new /\ m2.jobs[new] = job
        /\ \A j \in 1 .. Len(m.jobs) : m2.jobs[j] = m.jobs[j]
    BY <1>1, <2>2
  <2>4. /\ IsAwait(job.h) /\ job.h.i = f
        /\ m.promises[p].state = IF job.h.k = "awaitThrow" THEN "rejected"
                                 ELSE "fulfilled"
    BY <1>5, <1>9, <2>2 DEF IsAwait, States
  <2>5. \A j \in 1 .. Len(m2.jobs) : j \in 1 .. Len(m.jobs) \/ j = new
    BY <1>1, <2>3
  <2> HIDE DEF new, s, t
  <2>6. \A q \in 1 .. n : m2.promises[q].reactions = m.promises[q].reactions
    BY <1>2, <2>1 DEF s, t
  <2>7. ReactionsAwait(m2, G, on2)
    <3>1. \A q \in 1 .. n : m2.promises[q].state # "pending" =>
              m2.promises[q].reactions = <<>>
      BY <1>1, <1>4, <1>6, <2>6 DEF ReactionsAwait
    <3>2. ASSUME NEW q \in 1 .. n, NEW j \in 1 .. Len(m2.promises[q].reactions)
          PROVE  LET r == m2.promises[q].reactions[j]
                 IN \/ Ordinary(r)
                    \/ Resuming(r) /\ r.onFulfil.i \in G /\ on2[r.onFulfil.i] = q
      <4>1. m2.promises[q].reactions = m.promises[q].reactions
        BY <2>6
      <4> QED
        BY <1>1, <1>4, <4>1 DEF ReactionsAwait
    <3> QED
      BY <1>1, <3>1, <3>2 DEF ReactionsAwait
  <2>8. ReactionsDiffer(m2)
    BY <1>1, <1>4, <2>6 DEF ReactionsDiffer
  <2>9. ASSUME NEW j \in 1 .. Len(m.jobs), IsAwait(m.jobs[j].h)
        PROVE  m.jobs[j].h.i \in F /\ m.jobs[j].h.i # f
    BY <1>4, <2>9 DEF JobsAwait
  <2>10. JobsAwait(m2, G, on2)
    <3> SUFFICES ASSUME NEW j \in 1 .. Len(m2.jobs), IsAwait(m2.jobs[j].h)
                 PROVE  /\ m2.jobs[j].k = "reaction" /\ m2.jobs[j].h.i \in G
                        /\ on2[m2.jobs[j].h.i] \in 1 .. n
                        /\ m2.promises[on2[m2.jobs[j].h.i]].state
                            = IF m2.jobs[j].h.k = "awaitThrow" THEN "rejected"
                              ELSE "fulfilled"
                        /\ m2.promises[on2[m2.jobs[j].h.i]].result = m2.jobs[j].arg
      BY <1>1 DEF JobsAwait
    <3>1. CASE j \in 1 .. Len(m.jobs)
      BY <1>7, <2>3, <3>1
    <3>2. CASE j = new
      BY <1>6, <2>2, <2>3, <2>4, <3>2
    <3> QED
      BY <2>5, <3>1, <3>2
  <2>11. WakesDiffer(m2)
    <3> SUFFICES ASSUME NEW i \in 1 .. Len(m2.jobs), NEW j \in 1 .. Len(m2.jobs),
                        IsAwait(m2.jobs[i].h), IsAwait(m2.jobs[j].h),
                        m2.jobs[i].h.i = m2.jobs[j].h.i
                 PROVE  i = j
      BY DEF WakesDiffer
    <3>1. CASE i \in 1 .. Len(m.jobs) /\ j \in 1 .. Len(m.jobs)
      BY <1>4, <2>3, <3>1 DEF WakesDiffer
    <3>2. CASE i \notin 1 .. Len(m.jobs) \/ j \notin 1 .. Len(m.jobs)
      BY <2>3, <2>4, <2>5, <2>9, <3>2
    <3> QED
      BY <3>1, <3>2
  <2>12. AllResumed(m2, G, on2)
    <3> SUFFICES ASSUME NEW g \in G
                 PROVE  \/ \E j \in 1 .. Len(m2.jobs) :
                              IsAwait(m2.jobs[j].h) /\ m2.jobs[j].h.i = g
                        \/ /\ on2[g] \in 1 .. Len(m2.promises)
                           /\ \E j \in 1 .. Len(m2.promises[on2[g]].reactions) :
                                 /\ Resuming(m2.promises[on2[g]].reactions[j])
                                 /\ m2.promises[on2[g]].reactions[j].onFulfil.i = g
      BY DEF AllResumed
    <3>1. /\ new \in 1 .. Len(m2.jobs)
          /\ \A j \in 1 .. Len(m.jobs) : j \in 1 .. Len(m2.jobs)
      BY <1>1, <2>3 DEF new
    <3>2. CASE g = f
      BY <2>3, <2>4, <3>1, <3>2
    <3>3. CASE g \in F
      <4>1. CASE \E j \in 1 .. Len(m.jobs) :
                    IsAwait(m.jobs[j].h) /\ m.jobs[j].h.i = g
        BY <2>3, <3>1, <4>1
      <4>2. CASE /\ on2[g] \in 1 .. Len(m.promises)
                 /\ \E j \in 1 .. Len(m.promises[on2[g]].reactions) :
                       /\ Resuming(m.promises[on2[g]].reactions[j])
                       /\ m.promises[on2[g]].reactions[j].onFulfil.i = g
        BY <1>1, <2>6, <4>2
      <4> QED
        BY <1>4, <3>3, <4>1, <4>2 DEF AllResumed
    <3> QED
      BY <3>2, <3>3
  <2> QED
    BY <2>7, <2>8, <2>10, <2>11, <2>12 DEF Awaits
<1> QED
  BY <1>8, <1>9

\* The first job resumes its function, for which nothing else stands.
LEMMA AwaitsFewer ==
    ASSUME NEW n \in Nat, NEW k \in Nat, NEW m \in Heaps(n, k), m.jobs # <<>>,
           NEW F, NEW on, Awaits(m, F, on), IsAwait(m.jobs[1].h),
           NEW m2 \in Heaps(n, k), m2.promises = m.promises,
           m2.jobs = Tail(m.jobs)
    PROVE  Awaits(m2, F \ {m.jobs[1].h.i}, on)
<1> DEFINE f == m.jobs[1].h.i
           G == F \ {f}
<1>1. m.jobs \in Seq(JobsOf(n, k)) /\ Len(m.jobs) \in Nat
  BY HeapFields
<1>2. /\ Len(m2.jobs) = Len(m.jobs) - 1 /\ Len(m.jobs) > 0
      /\ \A j \in 1 .. Len(m2.jobs) : m2.jobs[j] = m.jobs[j + 1]
  BY <1>1
<1>3. /\ \A j \in 1 .. Len(m2.jobs) : j + 1 \in 1 .. Len(m.jobs) /\ j + 1 # 1
      /\ \A j \in 1 .. Len(m.jobs) : j # 1 =>
            /\ j - 1 \in 1 .. Len(m2.jobs) /\ m2.jobs[j - 1] = m.jobs[j]
      /\ 1 \in 1 .. Len(m.jobs) /\ Len(m2.jobs) \in Nat
  BY <1>1, <1>2
<1>4. /\ ReactionsAwait(m, F, on) /\ ReactionsDiffer(m)
      /\ JobsAwait(m, F, on) /\ WakesDiffer(m) /\ AllResumed(m, F, on)
  BY DEF Awaits
<1>5. ASSUME NEW j \in 1 .. Len(m2.jobs), IsAwait(m2.jobs[j].h)
      PROVE  m2.jobs[j].h.i # f
  <2>1. j + 1 \in 1 .. Len(m.jobs) /\ m2.jobs[j] = m.jobs[j + 1] /\ j + 1 # 1
    BY <1>2, <1>3
  <2> QED
    BY <1>3, <1>4, <1>5, <2>1 DEF WakesDiffer
<1>6. ASSUME NEW p \in 1 .. Len(m.promises),
             NEW j \in 1 .. Len(m.promises[p].reactions),
             Resuming(m.promises[p].reactions[j])
      PROVE  m.promises[p].reactions[j].onFulfil.i # f
  BY <1>3, <1>6, AwaitsEither
<1> HIDE DEF f
<1>7. ReactionsAwait(m2, G, on)
  BY <1>4, <1>6 DEF ReactionsAwait
<1>8. ReactionsDiffer(m2)
  BY <1>4 DEF ReactionsDiffer
<1>9. JobsAwait(m2, G, on)
  <2> SUFFICES ASSUME NEW j \in 1 .. Len(m2.jobs), IsAwait(m2.jobs[j].h)
               PROVE  /\ m2.jobs[j].k = "reaction" /\ m2.jobs[j].h.i \in G
                      /\ on[m2.jobs[j].h.i] \in 1 .. Len(m2.promises)
                      /\ m2.promises[on[m2.jobs[j].h.i]].state
                          = IF m2.jobs[j].h.k = "awaitThrow" THEN "rejected"
                            ELSE "fulfilled"
                      /\ m2.promises[on[m2.jobs[j].h.i]].result = m2.jobs[j].arg
    BY DEF JobsAwait
  <2>1. j + 1 \in 1 .. Len(m.jobs) /\ m2.jobs[j] = m.jobs[j + 1]
    BY <1>2, <1>3
  <2> QED
    BY <1>4, <1>5, <2>1 DEF JobsAwait
<1>10. WakesDiffer(m2)
  <2> SUFFICES ASSUME NEW i \in 1 .. Len(m2.jobs), NEW j \in 1 .. Len(m2.jobs),
                      IsAwait(m2.jobs[i].h), IsAwait(m2.jobs[j].h),
                      m2.jobs[i].h.i = m2.jobs[j].h.i
               PROVE  i = j
    BY DEF WakesDiffer
  <2>1. i + 1 = j + 1
    BY <1>2, <1>3, <1>4 DEF WakesDiffer
  <2> QED
    BY <1>3, <2>1
<1>11. AllResumed(m2, G, on)
  <2> SUFFICES ASSUME NEW g \in G
               PROVE  \/ \E j \in 1 .. Len(m2.jobs) :
                            IsAwait(m2.jobs[j].h) /\ m2.jobs[j].h.i = g
                      \/ /\ on[g] \in 1 .. Len(m2.promises)
                         /\ \E j \in 1 .. Len(m2.promises[on[g]].reactions) :
                               /\ Resuming(m2.promises[on[g]].reactions[j])
                               /\ m2.promises[on[g]].reactions[j].onFulfil.i = g
    BY DEF AllResumed
  <2>1. CASE \E j \in 1 .. Len(m.jobs) : IsAwait(m.jobs[j].h) /\ m.jobs[j].h.i = g
    <3>1. PICK j \in 1 .. Len(m.jobs) : IsAwait(m.jobs[j].h) /\ m.jobs[j].h.i = g
      BY <2>1
    <3>2. j # 1
      BY <3>1 DEF f
    <3> QED
      BY <1>3, <3>1, <3>2
  <2>2. CASE /\ on[g] \in 1 .. Len(m.promises)
             /\ \E j \in 1 .. Len(m.promises[on[g]].reactions) :
                   /\ Resuming(m.promises[on[g]].reactions[j])
                   /\ m.promises[on[g]].reactions[j].onFulfil.i = g
    BY <2>2
  <2> QED
    BY <1>4, <2>1, <2>2 DEF AllResumed
<1> QED
  BY <1>7, <1>8, <1>9, <1>10, <1>11 DEF Awaits, f

-----------------------------------------------------------------------------
(* The frames of async functions. *)

\* Both stacks have the frames of async functions at the same places.
SameFrames(s, t) ==
    /\ \A i \in 1 .. Len(t) : t[i].k = "async" => i \in 1 .. Len(s) /\ t[i] = s[i]
    /\ \A i \in 1 .. Len(s) : s[i].k = "async" => i \in 1 .. Len(t) /\ t[i] = s[i]

\* A frame of another kind is pushed, on the empty stack too.
LEMMA FramesPushed ==
    ASSUME NEW S, NEW s \in Seq(S), NEW fr \in S, fr.k # "async"
    PROVE  SameFrames(s, Append(s, fr)) /\ SameFrames(<<>>, <<fr>>)
<1> DEFINE t == Append(s, fr)
<1>1. /\ Len(t) = Len(s) + 1 /\ t[Len(s) + 1] = fr /\ Len(s) \in Nat
      /\ \A i \in 1 .. Len(s) : t[i] = s[i]
  OBVIOUS
<1> HIDE DEF t
<1>2. \A i \in 1 .. Len(t) : i \in 1 .. Len(s) \/ i = Len(s) + 1
  BY <1>1
<1>3. \A i \in 1 .. Len(s) : i \in 1 .. Len(t)
  BY <1>1
<1>4. SameFrames(s, t)
  BY <1>1, <1>2, <1>3 DEF SameFrames
<1>5. SameFrames(<<>>, <<fr>>)
  BY DEF SameFrames
<1> QED
  BY <1>4, <1>5 DEF t

\* The stack after a return.
LEMMA WithoutLast ==
    ASSUME NEW S, NEW s \in Seq(S), s # <<>>
    PROVE  LET t == SubSeq(s, 1, Len(s) - 1)
           IN /\ Len(s) \in Nat /\ Len(s) > 0 /\ Len(t) = Len(s) - 1
              /\ \A i \in 1 .. Len(t) : t[i] = s[i]
<1>1. Len(s) \in Nat /\ Len(s) > 0
  OBVIOUS
<1>2. /\ 1 \in Int /\ Len(s) - 1 \in Int
      /\ \A i \in 1 .. Len(s) - 1 : s[i] \in S
  BY <1>1
<1>3. Len(SubSeq(s, 1, Len(s) - 1))
        = IF 1 <= Len(s) - 1 THEN (Len(s) - 1) - 1 + 1 ELSE 0
  BY <1>2, SubSeqProperties
<1> DEFINE a == Len(s)
           l == Len(SubSeq(s, 1, Len(s) - 1))
<1>4. a \in Nat /\ a > 0 /\ l = IF 1 <= a - 1 THEN (a - 1) - 1 + 1 ELSE 0
  BY <1>1, <1>3
<1> HIDE DEF a, l
<1>5. CASE a = 1
  BY <1>1, <1>4, <1>5 DEF a, l
<1>6. CASE a # 1
  <2>1. 1 <= a - 1 /\ (a - 1) - 1 + 1 = a - 1
    BY <1>4, <1>6
  <2>2. l = a - 1
    BY <1>4, <2>1
  <2> QED
    BY <1>1, <2>2 DEF a, l
<1> QED
  BY <1>5, <1>6

\* A frame of another kind is popped.
LEMMA FramesPopped ==
    ASSUME NEW S, NEW s \in Seq(S), s # <<>>, s[Len(s)].k # "async"
    PROVE  SameFrames(s, SubSeq(s, 1, Len(s) - 1))
<1> DEFINE t == SubSeq(s, 1, Len(s) - 1)
<1>1. /\ Len(s) \in Nat /\ Len(s) > 0 /\ Len(t) = Len(s) - 1
      /\ \A i \in 1 .. Len(t) : t[i] = s[i]
  BY WithoutLast
<1> HIDE DEF t
<1>2. \A i \in 1 .. Len(s) : i \in 1 .. Len(t) \/ i = Len(s)
  BY <1>1
<1>3. \A i \in 1 .. Len(t) : i \in 1 .. Len(s)
  BY <1>1
<1>4. SameFrames(s, t)
  BY <1>1, <1>2, <1>3 DEF SameFrames
<1> QED
  BY <1>4 DEF t

\* The steps of Promises leave the frames of async functions alone.
LEMMA NextFrames ==
    ASSUME PInv, [Next]_vars
    PROVE  SameFrames(stack, stack')
<1>1. PICK S : stack \in Seq(S)
  BY DEF PInv
<1>2. CASE stack' = stack
  BY <1>2 DEF SameFrames
<1>3. ASSUME stack # <<>>, Top.k # "async", stack' = Pop
      PROVE  SameFrames(stack, stack')
  BY <1>1, <1>3, FramesPopped DEF Top, Pop
<1>4. ASSUME NEW fr, fr.k # "async",
             stack' = Append(stack, fr) \/ (Idle /\ stack' = <<fr>>)
      PROVE  SameFrames(stack, stack')
  <2>1. stack \in Seq(S \cup {fr}) /\ fr \in S \cup {fr}
    BY <1>1, WiderSeq
  <2> QED
    BY <1>4, <2>1, FramesPushed DEF Idle
<1>5. CASE New
  <2> DEFINE fr == Frame("executor", LastPair(NewPromise(vm, TRUE)), 0, Undefined)
  <2>1. stack' = Append(stack, fr) /\ fr.k = "executor"
    BY <1>5 DEF New, Frame
  <2> HIDE DEF fr
  <2> QED
    BY <1>4, <2>1
<1>6. ASSUME NEW v \in UserValues, Return(v) PROVE SameFrames(stack, stack')
  <2>1. stack # <<>> /\ Top.k # "async" /\ stack' = Pop
    BY <1>6 DEF Return, InFrame, Idle
  <2> QED
    BY <1>3, <2>1
<1>7. CASE Throw
  <2>1. stack # <<>> /\ Top.k # "async" /\ stack' = Pop
    BY <1>7 DEF Throw, InFrame, Idle
  <2> QED
    BY <1>3, <2>1
<1>8. CASE RunUserReaction
  <2> DEFINE fr == Frame(IF Job.h.k = "user" THEN "handler" ELSE "finally",
                         Job.cap, Job.h.i, Job.arg)
  <2>1. Idle /\ stack' = <<fr>> /\ fr.k # "async"
    BY <1>8 DEF RunUserReaction, RunnableReaction, Frame
  <2> HIDE DEF fr
  <2> QED
    BY <1>4, <2>1
<1>9. CASE RunThenable
  <2> DEFINE m == CreateResolvingFunctions(Dequeued, Job.cap, Job.arg.t = "thenable")
             fr == Frame("then", LastPair(m), 0, Undefined)
  <2>1. Idle /\ (stack' = stack \/ stack' = <<fr>>) /\ fr.k # "async"
    BY <1>9 DEF RunThenable, Frame
  <2> HIDE DEF fr
  <2> QED
    BY <1>2, <1>4, <2>1
<1>10. ASSUME NEW i, NEW r, NEW v, CallPair(i, r, v) PROVE stack' = stack
  BY <1>10 DEF CallPair
<1>11. ASSUME NEW q, NEW f, NEW r, UserThen(q, f, r) PROVE stack' = stack
  BY <1>11 DEF UserThen
<1>12. ASSUME NEW r, NEW v, UserResolve(r, v) PROVE stack' = stack
  BY <1>12 DEF UserResolve
<1>13. ASSUME NEW q, NEW c, UserFinally(q, c) PROVE stack' = stack
  BY <1>13 DEF UserFinally
<1>14. ASSUME RunNativeReaction PROVE stack' = stack
  BY <1>14 DEF RunNativeReaction
<1>15. CASE UNCHANGED vars
  BY <1>2, <1>15 DEF vars
<1> QED
  BY <1>2, <1>5, <1>6, <1>7, <1>8, <1>9, <1>10, <1>11, <1>12, <1>13, <1>14, <1>15
     DEF Next, UserNext, JobNext

-----------------------------------------------------------------------------
(* The actions of async functions. *)

\* What the invariant says of the calls.
LEMMA AsyncState ==
    ASSUME AInv
    PROVE  /\ PInv /\ afs \in Seq(CallsOf(LastPair(vm))) /\ Len(afs) \in Nat
           /\ \A f \in 1 .. Len(afs) : afs[f] \in CallsOf(LastPair(vm))
           /\ hist \in Seq([on : Nat, same : {TRUE}]) /\ Len(hist) = Len(afs)
           /\ Awaits(vm, Suspended, AwaitedBy) /\ OneFrame /\ EndedUsed
<1>1. /\ PInv /\ afs \in Seq(CallsOf(LastPair(vm)))
      /\ hist \in Seq([on : Nat, same : {TRUE}]) /\ Len(hist) = Len(afs)
      /\ Awaits(vm, Suspended, AwaitedBy) /\ OneFrame /\ EndedUsed
  BY DEF AInv, LastPair
<1> QED
  BY <1>1

\* Calls stay calls when there are more pairs.
LEMMA CallsWider ==
    ASSUME NEW k \in Nat, NEW k2 \in Nat, k <= k2, NEW s \in Seq(CallsOf(k))
    PROVE  s \in Seq(CallsOf(k2))
<1>1. CallsOf(k) \subseteq CallsOf(k2)
  BY DEF CallsOf
<1> QED
  BY <1>1, WiderSeq

\* The state of one call changes.
InState(s, f, st) == [s EXCEPT ![f].state = st]

\* One function changes its state, the others keep theirs.
LEMMA CallChanged ==
    ASSUME NEW k \in Nat, NEW s \in Seq(CallsOf(k)), NEW f \in 1 .. Len(s),
           NEW st \in CallStates
    PROVE  LET t == InState(s, f, st)
           IN /\ t \in Seq(CallsOf(k)) /\ Len(t) = Len(s)
              /\ t[f].state = st /\ t[f].pair = s[f].pair
              /\ \A g \in 1 .. Len(s) : g # f => t[g] = s[g]
<1> DEFINE t == InState(s, f, st)
           c == [s[f] EXCEPT !.state = st]
<1>1. s[f] \in CallsOf(k)
  OBVIOUS
<1>2. c \in CallsOf(k) /\ c.state = st /\ c.pair = s[f].pair
  BY <1>1 DEF CallsOf
<1>3. t = [s EXCEPT ![f] = c]
  BY DEF InState
<1> HIDE DEF c, t
<1>4. /\ t \in Seq(CallsOf(k)) /\ Len(t) = Len(s) /\ t[f] = c
      /\ \A g \in 1 .. Len(s) : g # f => t[g] = s[g]
  BY <1>2, <1>3
<1> QED
  BY <1>2, <1>4 DEF t

\* Every step of Promises, with which no function is suspended or resumed.
LEMMA OthersRun ==
    ASSUME AInv, [Next]_vars, afs' = afs, hist' = hist
    PROVE  AInv'
<1>1. /\ PInv /\ afs \in Seq(CallsOf(LastPair(vm))) /\ Len(afs) \in Nat
      /\ \A f \in 1 .. Len(afs) : afs[f] \in CallsOf(LastPair(vm))
      /\ hist \in Seq([on : Nat, same : {TRUE}]) /\ Len(hist) = Len(afs)
      /\ Awaits(vm, Suspended, AwaitedBy) /\ OneFrame /\ EndedUsed
  BY AsyncState
<1>2. PInv' /\ Evolves(vm, vm') /\ SameFrames(stack, stack')
  BY <1>1, NextKeeps, NextFrames
<1>3. /\ Suspended' = Suspended /\ AwaitedBy' = AwaitedBy
  BY DEF Suspended, AwaitedBy
<1>4. Awaits(vm, Suspended, AwaitedBy)' <=> Awaits(vm', Suspended, AwaitedBy)
  BY <1>3
<1>5. Awaits(vm', Suspended, AwaitedBy)
  BY <1>1, <1>2 DEF Evolves, AwaitsKept
<1>6. afs' \in Seq(CallsOf(LastPair(vm)))'
  <2>1. /\ LastPair(vm) \in Nat /\ LastPair(vm') \in Nat
        /\ LastPair(vm) <= LastPair(vm')
    <3>1. LastPair(vm) \in Nat /\ LastPair(vm') \in Nat
      BY <1>1, <1>2 DEF PInv, Sound, Heaps, LastPair
    <3>2. \A i \in 1 .. LastPair(vm) : i \in 1 .. LastPair(vm')
      BY <1>2 DEF Evolves, StaysUsed, LastPair
    <3> QED
      BY <3>1, <3>2
  <2> QED
    BY <1>1, <2>1, CallsWider
<1>7. OneFrame'
  BY <1>1, <1>2 DEF OneFrame, SameFrames
<1>8. EndedUsed'
  <2>1. \A f \in 1 .. Len(afs) : afs[f].pair \in 1 .. LastPair(vm)
    BY <1>1 DEF CallsOf
  <2> QED
    BY <1>1, <1>2, <2>1 DEF EndedUsed, Evolves, StaysUsed, LastPair
<1> QED
  BY <1>1, <1>2, <1>4, <1>5, <1>6, <1>7, <1>8 DEF AInv, LastPair

\* The frame of a function on another heap.
LEMMA RunningTyped ==
    ASSUME NEW n \in Nat, NEW k \in Nat, NEW f \in Nat
    PROVE  Running(f) \in FramesOf(n, k) /\ Running(f).k = "async"
           /\ Running(f).pair = f
<1>1. Undefined \in ValuesOf(n)
  BY OwnValues
<1> QED
  BY <1>1 DEF Running, Frame, FramesOf

\* A step that ends in a sound heap.
LEMMA SoundAgain ==
    ASSUME NEW n \in Nat, NEW k \in Nat, Sound(vm', n, k),
           stack' \in Seq(FramesOf(n, k))
    PROVE  PInv' /\ LastPair(vm') = k /\ NP(vm') = n
<1>1. Len(vm'.promises) = n /\ Len(vm'.pairs) = k
  BY DEF Sound, Heaps
<1> QED
  BY <1>1 DEF PInv, LastPair, NP

\* js_async_function_call.
LEMMA CalledByAsync == ASSUME AInv, AsyncCall PROVE AInv'
<1> DEFINE n == NP(vm)
           k == LastPair(vm)
           m == NewPromise(vm, FALSE)
           new == Len(afs) + 1
           call == [pair |-> LastPair(m), state |-> "running"]
           h == [on |-> 0, same |-> TRUE]
<1>1. /\ PInv /\ afs \in Seq(CallsOf(k)) /\ Len(afs) \in Nat
      /\ \A f \in 1 .. Len(afs) : afs[f] \in CallsOf(k)
      /\ hist \in Seq([on : Nat, same : {TRUE}]) /\ Len(hist) = Len(afs)
      /\ Awaits(vm, Suspended, AwaitedBy) /\ OneFrame /\ EndedUsed
  BY AsyncState
<1>2. n \in Nat /\ k \in Nat /\ Sound(vm, n, k) /\ stack \in Seq(FramesOf(n, k))
  BY <1>1, CurrentHeap
<1>3. /\ vm' = m /\ afs' = Append(afs, call) /\ hist' = Append(hist, h)
      /\ stack' = Append(stack, Running(new))
  BY DEF AsyncCall, Act, Become, NewPromiseCapability
<1> HIDE DEF n, k
<1>4. Becomes(vm, m, n + 1, k + 1)
  BY <1>2, NewPromiseStep
<1> HIDE DEF m
<1>5. Sound(vm', n + 1, k + 1) /\ Evolves(vm, vm') /\ n + 1 \in Nat /\ k + 1 \in Nat
  BY <1>2, <1>3, <1>4 DEF Becomes
<1>6. /\ Running(new) \in FramesOf(n + 1, k + 1) /\ Running(new).k = "async"
      /\ Running(new).pair = new
  BY <1>1, <1>5, RunningTyped
<1>7. /\ stack' \in Seq(FramesOf(n + 1, k + 1)) /\ Len(stack') = Len(stack) + 1
      /\ stack'[Len(stack) + 1] = Running(new) /\ Len(stack) \in Nat
      /\ \A i \in 1 .. Len(stack) : stack'[i] = stack[i]
  <2>1. stack \in Seq(FramesOf(n + 1, k + 1))
    BY <1>2, StackWider
  <2> QED
    BY <1>3, <1>6, <2>1
<1>8. PInv' /\ LastPair(vm') = k + 1
  BY <1>5, <1>7, SoundAgain
<1>9. call \in CallsOf(k + 1) /\ call.state = "running" /\ call.pair = k + 1
  BY <1>2, <1>3, <1>8 DEF CallsOf, CallStates
<1> HIDE DEF call, new
<1>10. /\ afs' \in Seq(CallsOf(k + 1)) /\ Len(afs') = new
       /\ \A f \in 1 .. Len(afs) : afs'[f] = afs[f]
       /\ afs'[new].state = "running"
  <2>1. afs \in Seq(CallsOf(k + 1))
    BY <1>1, <1>2, <1>5, CallsWider
  <2> QED
    BY <1>3, <1>9, <2>1 DEF new
<1>11. /\ hist' \in Seq([on : Nat, same : {TRUE}]) /\ Len(hist') = new
       /\ \A f \in 1 .. Len(afs) : hist'[f] = hist[f]
  <2> DEFINE H == [on : Nat, same : {TRUE}]
  <2>1. h \in H /\ hist \in Seq(H)
    BY <1>1
  <2> HIDE DEF h, H
  <2>2. /\ Append(hist, h) \in Seq(H) /\ Len(Append(hist, h)) = Len(hist) + 1
        /\ \A f \in 1 .. Len(hist) : Append(hist, h)[f] = hist[f]
    BY <2>1
  <2> QED
    BY <1>1, <1>3, <2>2 DEF new, H
<1>12. /\ \A f \in 1 .. new : f \in 1 .. Len(afs) \/ f = new
       /\ \A f \in 1 .. Len(afs) : f \in 1 .. new /\ f # new
       /\ new \in 1 .. new
  BY <1>1 DEF new
<1>13. Suspended' = Suspended /\ \A f \in Suspended : AwaitedBy'[f] = AwaitedBy[f]
  BY <1>10, <1>11, <1>12 DEF Suspended, AwaitedBy
<1>14. Awaits(vm', Suspended, AwaitedBy')
  <2>1. Awaits(vm', Suspended, AwaitedBy)
    BY <1>1, <1>5 DEF Evolves, AwaitsKept
  <2> QED
    BY <1>13, <2>1, AwaitsAgree
<1>15. OneFrame'
  <2>1. \A i \in 1 .. Len(stack') : i \in 1 .. Len(stack) \/ i = Len(stack) + 1
    BY <1>7
  <2>2. /\ \A i \in 1 .. Len(stack) : i \in 1 .. Len(stack')
        /\ Len(stack) + 1 \in 1 .. Len(stack')
    BY <1>7
  <2>3. \A i \in 1 .. Len(stack') : stack'[i].k = "async" =>
            /\ stack'[i].pair \in 1 .. Len(afs')
            /\ afs'[stack'[i].pair].state = "running"
    <3>1. ASSUME NEW i \in 1 .. Len(stack), stack[i].k = "async"
          PROVE  /\ stack[i].pair \in 1 .. Len(afs')
                 /\ afs'[stack[i].pair].state = "running"
      BY <1>1, <1>10, <1>12, <3>1 DEF OneFrame
    <3> QED
      BY <1>6, <1>7, <1>10, <1>12, <2>1, <3>1
  <2>4. \A i, j \in 1 .. Len(stack') :
            /\ stack'[i].k = "async" /\ stack'[j].k = "async"
            /\ stack'[i].pair = stack'[j].pair
            => i = j
    <3>1. \A i \in 1 .. Len(stack) : stack[i].k = "async" => stack[i].pair # new
      BY <1>1, <1>12 DEF OneFrame
    <3> QED
      BY <1>1, <1>6, <1>7, <2>1, <3>1 DEF OneFrame
  <2>5. \A f \in 1 .. Len(afs') : afs'[f].state = "running" =>
            \E i \in 1 .. Len(stack') : stack'[i].k = "async" /\ stack'[i].pair = f
    BY <1>1, <1>6, <1>7, <1>10, <1>12, <2>2 DEF OneFrame
  <2> QED
    BY <2>3, <2>4, <2>5 DEF OneFrame
<1>16. EndedUsed'
  <2>1. \A f \in 1 .. Len(afs) : afs[f].pair \in 1 .. k
    BY <1>1 DEF CallsOf
  <2> QED
    BY <1>1, <1>5, <1>10, <1>12, <2>1 DEF EndedUsed, Evolves, StaysUsed, k, LastPair
<1> QED
  BY <1>8, <1>10, <1>11, <1>13, <1>14, <1>15, <1>16 DEF AInv, LastPair

\* The function that runs.
LEMMA AsyncTop ==
    ASSUME AInv, InAsync
    PROVE  /\ stack # <<>> /\ Current \in 1 .. Len(afs)
           /\ afs[Current].state = "running"
           /\ afs[Current].pair \in 1 .. LastPair(vm)
           /\ Len(stack) \in Nat \ {0} /\ Len(Pop) = Len(stack) - 1
           /\ \A i \in 1 .. Len(Pop) : i \in 1 .. Len(stack) /\ Pop[i] = stack[i]
           /\ \A i \in 1 .. Len(stack) : i \in 1 .. Len(Pop) \/ i = Len(stack)
           /\ \A i \in 1 .. Len(Pop) : stack[i].k = "async" => stack[i].pair # Current
           /\ Top = stack[Len(stack)] /\ Len(stack) \in 1 .. Len(stack)
<1>1. /\ PInv /\ OneFrame
      /\ \A f \in 1 .. Len(afs) : afs[f] \in CallsOf(LastPair(vm))
  BY AsyncState
<1>2. stack # <<>> /\ Top.k = "async" /\ Top = stack[Len(stack)]
  BY DEF InAsync, Idle, Top
<1>3. PICK S : stack \in Seq(S)
  BY <1>1 DEF PInv
<1>4. /\ Len(stack) \in Nat \ {0} /\ Len(Pop) = Len(stack) - 1
      /\ \A i \in 1 .. Len(Pop) : Pop[i] = stack[i]
  BY <1>2, <1>3, WithoutLast DEF Pop
<1> HIDE DEF Pop
<1>5. Len(Pop) = Len(stack) - 1
  BY <1>4
<1>6. \A i \in 1 .. Len(Pop) : i \in 1 .. Len(stack) /\ Pop[i] = stack[i]
  BY <1>4
<1>7. /\ Len(stack) \in 1 .. Len(stack)
      /\ \A i \in 1 .. Len(stack) : i \in 1 .. Len(Pop) \/ i = Len(stack)
      /\ \A i \in 1 .. Len(Pop) : i # Len(stack)
  BY <1>4, <1>5
<1>8. Current \in 1 .. Len(afs) /\ afs[Current].state = "running"
  BY <1>1, <1>2, <1>7 DEF OneFrame, Current
<1>9. afs[Current].pair \in 1 .. LastPair(vm)
  BY <1>1, <1>8 DEF CallsOf
<1>10. \A i \in 1 .. Len(Pop) : stack[i].k = "async" => stack[i].pair # Current
  BY <1>1, <1>2, <1>6, <1>7 DEF OneFrame, Current
<1> QED
  BY <1>2, <1>4, <1>5, <1>6, <1>7, <1>8, <1>9, <1>10

\* The function that runs ends or is suspended, and its frame is left.
LEMMA FrameLeft ==
    ASSUME AInv, InAsync, stack' = Pop, Len(afs') = Len(afs),
           afs'[Current].state # "running",
           \A g \in 1 .. Len(afs) : g # Current => afs'[g] = afs[g]
    PROVE  OneFrame'
<1>1. /\ Current \in 1 .. Len(afs)
      /\ \A i \in 1 .. Len(Pop) : i \in 1 .. Len(stack) /\ Pop[i] = stack[i]
      /\ \A i \in 1 .. Len(stack) : i \in 1 .. Len(Pop) \/ i = Len(stack)
      /\ \A i \in 1 .. Len(Pop) : stack[i].k = "async" => stack[i].pair # Current
      /\ stack[Len(stack)].pair = Current
  BY AsyncTop DEF Current
<1>2. OneFrame
  BY AsyncState
<1> HIDE DEF Current
<1>3. \A i \in 1 .. Len(stack') : stack'[i].k = "async" =>
          /\ stack'[i].pair \in 1 .. Len(afs')
          /\ afs'[stack'[i].pair].state = "running"
  BY <1>1, <1>2 DEF OneFrame
<1>4. \A i, j \in 1 .. Len(stack') :
          /\ stack'[i].k = "async" /\ stack'[j].k = "async"
          /\ stack'[i].pair = stack'[j].pair
          => i = j
  BY <1>1, <1>2 DEF OneFrame
<1>5. ASSUME NEW f \in 1 .. Len(afs'), afs'[f].state = "running"
      PROVE  \E i \in 1 .. Len(stack') : stack'[i].k = "async" /\ stack'[i].pair = f
  <2>1. f # Current /\ afs[f].state = "running"
    BY <1>5
  <2>2. PICK i \in 1 .. Len(stack) : stack[i].k = "async" /\ stack[i].pair = f
    BY <1>2, <2>1 DEF OneFrame
  <2> QED
    BY <1>1, <2>1, <2>2
<1> QED
  BY <1>3, <1>4, <1>5 DEF OneFrame

\* The body returns or throws, or the value it awaits cannot be read: its
\* promise is resolved and the frame released.
LEMMA EndedByAsync ==
    ASSUME AInv, InAsync, NEW isReject \in BOOLEAN, NEW v \in ValuesOf(NP(vm)),
           vm' = CallResolvingFunction(vm, afs[Current].pair, isReject, v),
           Terminate(Current), stack' = Pop, hist' = hist
    PROVE  AInv'
<1> DEFINE n == NP(vm)
           k == LastPair(vm)
<1>1. /\ PInv /\ afs \in Seq(CallsOf(k)) /\ Len(afs) \in Nat
      /\ \A f \in 1 .. Len(afs) : afs[f] \in CallsOf(k)
      /\ hist \in Seq([on : Nat, same : {TRUE}]) /\ Len(hist) = Len(afs)
      /\ Awaits(vm, Suspended, AwaitedBy) /\ OneFrame /\ EndedUsed
  BY AsyncState
<1>2. n \in Nat /\ k \in Nat /\ Sound(vm, n, k) /\ stack \in Seq(FramesOf(n, k))
  BY <1>1, CurrentHeap
<1>3. /\ stack # <<>> /\ Current \in 1 .. Len(afs)
      /\ afs[Current].state = "running" /\ afs[Current].pair \in 1 .. k
  BY AsyncTop
<1> HIDE DEF n, k, Current
<1>4. v \in ValuesOf(n)
  BY DEF n
<1>5. Becomes(vm, vm', n, k) /\ vm'.pairs[afs[Current].pair].already
  BY <1>2, <1>3, <1>4, CallStep
<1>6. Sound(vm', n, k) /\ Evolves(vm, vm')
  BY <1>5 DEF Becomes
<1>7. stack' \in Seq(FramesOf(n, k))
  <2>1. n <= n /\ k <= k
    BY <1>2
  <2> QED
    BY <1>2, <1>3, <2>1, StackWider DEF Pop
<1>8. PInv' /\ LastPair(vm') = k
  BY <1>2, <1>6, <1>7, SoundAgain
<1>9. /\ afs' \in Seq(CallsOf(k)) /\ Len(afs') = Len(afs)
      /\ afs'[Current].state = "done" /\ afs'[Current].pair = afs[Current].pair
      /\ \A g \in 1 .. Len(afs) : g # Current => afs'[g] = afs[g]
  <2>1. "done" \in CallStates /\ afs' = InState(afs, Current, "done")
    BY DEF CallStates, Terminate, InState
  <2> QED
    BY <1>1, <1>2, <1>3, <2>1, CallChanged
<1>10. Suspended' = Suspended /\ AwaitedBy' = AwaitedBy
  BY <1>3, <1>9 DEF Suspended, AwaitedBy
<1>11. Awaits(vm', Suspended, AwaitedBy)
  BY <1>1, <1>6 DEF Evolves, AwaitsKept
<1>12. OneFrame'
  BY <1>9, FrameLeft
<1>13. EndedUsed'
  <2>1. \A f \in 1 .. Len(afs) : afs[f].pair \in 1 .. k
    BY <1>1 DEF CallsOf
  <2>2. ASSUME NEW f \in 1 .. Len(afs), f # Current, afs'[f].state = "done"
        PROVE  vm'.pairs[afs'[f].pair].already
    BY <1>1, <1>6, <1>9, <2>1, <2>2 DEF EndedUsed, Evolves, StaysUsed, k, LastPair
  <2> QED
    BY <1>5, <1>9, <2>2 DEF EndedUsed
<1> QED
  BY <1>1, <1>8, <1>9, <1>10, <1>11, <1>12, <1>13 DEF AInv, LastPair

\* js_promise_resolve as the await uses it: the awaited promise is the value
\* itself or a new promise.
LEMMA AwaitedPromise ==
    ASSUME NEW n \in Nat, NEW k \in Nat, NEW m, Sound(m, n, k),
           NEW v \in ValuesOf(n)
    PROVE  LET m1 == PromiseResolve(m, FALSE, v)
               q == PromiseOf(m1, FALSE, v)
           IN \E n1, k1 \in Nat : /\ Becomes(m, m1, n1, k1)
                                  /\ n <= n1 /\ k <= k1 /\ q \in 1 .. n1
<1> DEFINE m1 == PromiseResolve(m, FALSE, v)
           q == PromiseOf(m1, FALSE, v)
<1>1. FALSE \in BOOLEAN
  OBVIOUS
<1>2. CASE IsKept(FALSE, v)
  <2>1. m1 = m /\ q = v.n /\ v.t = "promise"
    BY <1>2 DEF PromiseResolve, PromiseOf, IsKept
  <2>2. q \in 1 .. n
    BY <2>1 DEF ValuesOf
  <2> HIDE DEF m1, q
  <2>3. Becomes(m, m1, n, k)
    BY <2>1, EvolvesItself DEF Becomes
  <2>4. n <= n /\ k <= k
    OBVIOUS
  <2>5. \E n1, k1 \in Nat : /\ Becomes(m, m1, n1, k1)
                            /\ n <= n1 /\ k <= k1 /\ q \in 1 .. n1
    BY <2>2, <2>3, <2>4
  <2> QED
    BY <2>5 DEF m1, q
<1>3. CASE ~IsKept(FALSE, v)
  <2>1. q = NP(m1)
    BY <1>3 DEF PromiseOf
  <2>2. Becomes(m, m1, n + 1, k + 1)
    <3> DEFINE a == NewPromiseCapability(m)
    <3>1. Becomes(m, a, n + 1, k + 1)
      BY NewPromiseStep DEF NewPromiseCapability
    <3>2. /\ Sound(a, n + 1, k + 1) /\ LastPair(a) = k + 1 /\ n + 1 \in Nat
          /\ k + 1 \in Nat /\ k + 1 \in 1 .. k + 1
      BY <3>1, Numbers DEF Becomes
    <3>3. m1 = CallResolvingFunction(a, LastPair(a), FALSE, v)
      BY <1>3 DEF PromiseResolve
    <3> HIDE DEF a, m1
    <3>4. v \in ValuesOf(n + 1)
      BY WiderParts
    <3>5. Becomes(a, m1, n + 1, k + 1)
      BY <1>1, <3>2, <3>3, <3>4, CallStep
    <3> QED
      BY <3>1, <3>5, EvolvesThrough DEF Becomes
  <2> HIDE DEF m1, q
  <2>3. NP(m1) = n + 1 /\ n + 1 \in Nat /\ k + 1 \in Nat
    BY <2>2, Numbers DEF Becomes
  <2>4. q \in 1 .. n + 1 /\ n <= n + 1 /\ k <= k + 1
    BY <2>1, <2>3
  <2>5. \E n1, k1 \in Nat : /\ Becomes(m, m1, n1, k1)
                            /\ n <= n1 /\ k <= k1 /\ q \in 1 .. n1
    BY <2>2, <2>3, <2>4
  <2> QED
    BY <2>5 DEF m1, q
<1> QED
  BY <1>2, <1>3

\* The handlers of an await.
LEMMA AwaitHandlers ==
    ASSUME NEW n \in Nat, NEW k \in Nat, NEW f \in Nat
    PROVE  /\ AwaitHandler(f, FALSE) \in HandlersOf(n, k)
           /\ AwaitHandler(f, TRUE) \in HandlersOf(n, k)
<1>1. Undefined \in ValuesOf(n)
  BY OwnValues
<1> QED
  BY <1>1 DEF AwaitHandler, Handler, HandlersOf, AllHandlers

\* The await branch of js_async_function_resume, for a value that can be read.
LEMMA SuspendedByAwait ==
    ASSUME AInv, InAsync, NEW v \in UserValues, v # BadConstructor, Await(v)
    PROVE  AInv'
<1> DEFINE n == NP(vm)
           k == LastPair(vm)
           f == Current
           m1 == PromiseResolve(vm, FALSE, v)
           q == PromiseOf(m1, FALSE, v)
           m2 == PerformPromiseThen(m1, q, AwaitHandler(f, FALSE),
                                    AwaitHandler(f, TRUE), NoCap)
<1>1. /\ PInv /\ afs \in Seq(CallsOf(k)) /\ Len(afs) \in Nat
      /\ \A g \in 1 .. Len(afs) : afs[g] \in CallsOf(k)
      /\ hist \in Seq([on : Nat, same : {TRUE}]) /\ Len(hist) = Len(afs)
      /\ Awaits(vm, Suspended, AwaitedBy) /\ OneFrame /\ EndedUsed
  BY AsyncState
<1>2. n \in Nat /\ k \in Nat /\ Sound(vm, n, k) /\ stack \in Seq(FramesOf(n, k))
  BY <1>1, CurrentHeap
<1>3. stack # <<>> /\ f \in 1 .. Len(afs) /\ afs[f].state = "running"
  BY AsyncTop
<1>4. /\ vm' = m2 /\ afs' = InState(afs, f, "awaiting")
      /\ hist' = [hist EXCEPT ![f].on = q] /\ stack' = Pop
  BY DEF Await, Suspend, Become, InState
<1>5. v \in ValuesOf(n)
  BY <1>2, UserValuesTyped
<1> HIDE DEF n, k, f
<1>6. PICK n1, k1 \in Nat : /\ Becomes(vm, m1, n1, k1)
                            /\ n <= n1 /\ k <= k1 /\ q \in 1 .. n1
  BY <1>2, <1>5, AwaitedPromise
<1> HIDE DEF m1, q
<1>7. /\ Sound(m1, n1, k1) /\ Evolves(vm, m1) /\ m1 \in Heaps(n1, k1)
  BY <1>6 DEF Becomes, Sound
<1>8. /\ Turns(m1, m2, n1, k1)
      /\ Performed(m1, m2, q, AwaitHandler(f, FALSE), AwaitHandler(f, TRUE), NoCap)
  <2>1. f \in Nat /\ NoCap \in 0 .. k1
    BY <1>1, <1>3, <1>6 DEF NoCap
  <2>2. /\ AwaitHandler(f, FALSE) \in HandlersOf(n1, k1)
        /\ AwaitHandler(f, TRUE) \in HandlersOf(n1, k1)
    BY <1>6, <2>1, AwaitHandlers
  <2> QED
    BY <1>6, <1>7, <2>1, <2>2, PerformStep
<1> HIDE DEF m2
<1>9. /\ Sound(m2, n1, k1) /\ StaysUsed(m1, m2) /\ m2 \in Heaps(n1, k1)
      /\ StaysUsed(vm, m2)
  BY <1>7, <1>8 DEF Turns, Sound, Evolves, StaysUsed
<1>10. stack' \in Seq(FramesOf(n1, k1))
  BY <1>2, <1>3, <1>4, <1>6, StackWider DEF Pop
<1>11. PInv' /\ LastPair(vm') = k1
  BY <1>4, <1>6, <1>9, <1>10, SoundAgain
<1>12. /\ afs' \in Seq(CallsOf(k1)) /\ Len(afs') = Len(afs)
       /\ afs'[f].state = "awaiting"
       /\ \A g \in 1 .. Len(afs) : g # f => afs'[g] = afs[g]
  <2>1. "awaiting" \in CallStates /\ afs \in Seq(CallsOf(k1))
    BY <1>1, <1>2, <1>6, CallsWider DEF CallStates
  <2> QED
    BY <1>3, <1>4, <1>6, <2>1, CallChanged
<1>13. /\ hist' \in Seq([on : Nat, same : {TRUE}]) /\ Len(hist') = Len(afs)
       /\ hist'[f].on = q
       /\ \A g \in 1 .. Len(afs) : g # f => hist'[g] = hist[g]
  <2> DEFINE H == [on : Nat, same : {TRUE}]
             h == [hist[f] EXCEPT !.on = q]
  <2>1. hist[f] \in H /\ q \in Nat
    <3>1. hist \in Seq(H) /\ f \in 1 .. Len(hist)
      BY <1>1, <1>3
    <3> HIDE DEF H
    <3> QED
      BY <1>6, <3>1
  <2>2. h \in H /\ h.on = q
    BY <2>1
  <2>3. hist' = [hist EXCEPT ![f] = h] /\ hist \in Seq(H)
    BY <1>1, <1>4
  <2> HIDE DEF h, H
  <2>4. /\ hist' \in Seq(H) /\ Len(hist') = Len(hist) /\ hist'[f] = h
        /\ \A g \in 1 .. Len(hist) : g # f => hist'[g] = hist[g]
    BY <1>1, <1>3, <2>2, <2>3
  <2> QED
    BY <1>1, <2>2, <2>4 DEF H
<1>14. /\ Suspended' = Suspended \cup {f} /\ f \notin Suspended
       /\ AwaitedBy'[f] = q
       /\ \A g \in Suspended : AwaitedBy'[g] = AwaitedBy[g]
  BY <1>3, <1>12, <1>13 DEF Suspended, AwaitedBy
<1>15. Awaits(vm', Suspended', AwaitedBy')
  <2>1. Awaits(m1, Suspended, AwaitedBy)
    BY <1>1, <1>7 DEF Evolves, AwaitsKept
  <2>2. m1.promises[q].state \in States
    <3>1. m1.promises[q] \in PromisesOf(n1, k1)
      BY <1>6, <1>7, HeapFields
    <3> QED
      BY <3>1 DEF PromisesOf
  <2> DEFINE on2 == AwaitedBy'
  <2>3. on2[f] = q /\ \A g \in Suspended : on2[g] = AwaitedBy[g]
    BY <1>14
  <2> HIDE DEF on2
  <2>4. Awaits(m2, Suspended \cup {f}, on2)
    BY <1>6, <1>7, <1>8, <1>9, <1>14, <2>1, <2>2, <2>3, AwaitsMore
  <2> QED
    BY <1>4, <1>14, <2>4 DEF on2
<1>16. OneFrame'
  BY <1>4, <1>12, FrameLeft DEF f
<1>17. EndedUsed'
  <2>1. \A g \in 1 .. Len(afs) : afs[g].pair \in 1 .. k
    BY <1>1 DEF CallsOf
  <2> QED
    BY <1>1, <1>4, <1>9, <1>12, <2>1 DEF EndedUsed, StaysUsed, k, LastPair
<1> QED
  BY <1>11, <1>12, <1>13, <1>15, <1>16, <1>17 DEF AInv, LastPair

\* js_async_function_resolve_call.
LEMMA ResumedByJob == ASSUME AInv, RunAwait PROVE AInv'
<1> DEFINE n == NP(vm)
           k == LastPair(vm)
           f == Job.h.i
           m == Popped(vm)
<1>1. /\ PInv /\ afs \in Seq(CallsOf(k)) /\ Len(afs) \in Nat
      /\ \A g \in 1 .. Len(afs) : afs[g] \in CallsOf(k)
      /\ hist \in Seq([on : Nat, same : {TRUE}]) /\ Len(hist) = Len(afs)
      /\ Awaits(vm, Suspended, AwaitedBy) /\ OneFrame /\ EndedUsed
  BY AsyncState
<1>2. n \in Nat /\ k \in Nat /\ Sound(vm, n, k) /\ vm \in Heaps(n, k)
  BY <1>1, CurrentHeap
<1>3. /\ stack = <<>> /\ vm.jobs # <<>> /\ vm.jobs[1].k = "reaction"
      /\ IsAwait(vm.jobs[1].h) /\ stack' = <<Running(f)>>
      /\ vm' = m /\ afs' = InState(afs, f, "running")
  BY DEF RunAwait, RunnableReaction, Idle, Job, IsAwait, Dequeued, Popped,
         Resume, InState
<1>4. /\ f \in 1 .. Len(afs) /\ afs[f].state = "awaiting"
      /\ hist[f].on \in 1 .. n
      /\ vm.promises[hist[f].on].state
          = IF Job.h.k = "awaitThrow" THEN "rejected" ELSE "fulfilled"
      /\ vm.promises[hist[f].on].result = Job.arg
  <2>1. 1 \in 1 .. Len(vm.jobs)
    <3>1. vm.jobs \in Seq(JobsOf(n, k)) /\ Len(vm.jobs) \in Nat
      BY <1>2, HeapFields
    <3> QED
      BY <1>3, <3>1
  <2>2. /\ f \in Suspended /\ AwaitedBy[f] \in 1 .. n
        /\ vm.promises[AwaitedBy[f]].state
            = IF Job.h.k = "awaitThrow" THEN "rejected" ELSE "fulfilled"
        /\ vm.promises[AwaitedBy[f]].result = Job.arg
    BY <1>1, <1>3, <2>1 DEF Awaits, JobsAwait, Job, n, NP
  <2>3. f \in 1 .. Len(afs) /\ afs[f].state = "awaiting"
    BY <2>2 DEF Suspended
  <2>4. AwaitedBy[f] = hist[f].on
    BY <2>3 DEF AwaitedBy
  <2> QED
    BY <2>2, <2>3, <2>4
\* The body is given what the awaited promise came to.
<1>5. hist' = [hist EXCEPT ![f].same = TRUE]
  <2> DEFINE same == /\ vm.promises[hist[f].on].state
                        = (IF Job.h.k = "awaitThrow" THEN "rejected" ELSE "fulfilled")
                     /\ vm.promises[hist[f].on].result = Job.arg
  <2>1. hist' = [hist EXCEPT ![f].same = same]
    BY Zenon DEF RunAwait, Resume
  <2>2. same = TRUE
    BY <1>4
  <2> HIDE DEF same
  <2> QED
    BY <2>1, <2>2, Zenon
<1>6. /\ Turns(vm, m, n, k) /\ m.promises = vm.promises
      /\ m.jobs = Tail(vm.jobs) /\ m.pairs = vm.pairs
  BY <1>2, <1>3, DequeueStep
<1> HIDE DEF n, k, f, m
<1>7. Sound(vm', n, k) /\ m \in Heaps(n, k)
  BY <1>3, <1>6 DEF Turns, Sound
<1>8. /\ Running(f) \in FramesOf(n, k) /\ Running(f).k = "async"
      /\ Running(f).pair = f
  BY <1>1, <1>2, <1>4, RunningTyped
<1>9. /\ stack' \in Seq(FramesOf(n, k)) /\ Len(stack') = 1
      /\ stack'[1] = Running(f)
  <2> DEFINE fr == Running(f)
  <2>1. stack' = <<fr>> /\ fr \in FramesOf(n, k)
    BY <1>3, <1>8
  <2> HIDE DEF fr
  <2>2. <<fr>> \in Seq(FramesOf(n, k)) /\ Len(<<fr>>) = 1 /\ <<fr>>[1] = fr
    BY <2>1
  <2> QED
    BY <2>1, <2>2 DEF fr
<1>10. PInv' /\ LastPair(vm') = k
  BY <1>2, <1>7, <1>9, SoundAgain
<1>11. /\ afs' \in Seq(CallsOf(k)) /\ Len(afs') = Len(afs)
       /\ afs'[f].state = "running"
       /\ \A g \in 1 .. Len(afs) : g # f => afs'[g] = afs[g]
  <2>1. "running" \in CallStates
    BY DEF CallStates
  <2> QED
    BY <1>1, <1>2, <1>3, <1>4, <2>1, CallChanged
<1>12. /\ hist' \in Seq([on : Nat, same : {TRUE}]) /\ Len(hist') = Len(afs)
       /\ \A g \in 1 .. Len(afs) : g # f => hist'[g] = hist[g]
  <2> DEFINE H == [on : Nat, same : {TRUE}]
             h == [hist[f] EXCEPT !.same = TRUE]
  <2>1. hist[f] \in H
    <3>1. hist \in Seq(H) /\ f \in 1 .. Len(hist)
      BY <1>1, <1>4
    <3> HIDE DEF H
    <3> QED
      BY <3>1
  <2>2. h \in H
    BY <2>1
  <2>3. hist' = [hist EXCEPT ![f] = h] /\ hist \in Seq(H)
    BY <1>1, <1>5
  <2> HIDE DEF h, H
  <2>4. /\ hist' \in Seq(H) /\ Len(hist') = Len(hist)
        /\ \A g \in 1 .. Len(hist) : g # f => hist'[g] = hist[g]
    BY <1>1, <1>4, <2>2, <2>3
  <2> QED
    BY <1>1, <2>4 DEF H
<1>13. /\ Suspended' = Suspended \ {f}
       /\ \A g \in Suspended' : AwaitedBy'[g] = AwaitedBy[g]
  BY <1>4, <1>11, <1>12 DEF Suspended, AwaitedBy
<1>14. Awaits(vm', Suspended', AwaitedBy')
  <2>1. Awaits(m, Suspended \ {f}, AwaitedBy)
    BY <1>1, <1>2, <1>3, <1>6, <1>7, AwaitsFewer DEF f, Job
  <2> QED
    BY <1>3, <1>13, <2>1, AwaitsAgree
<1>15. OneFrame'
  <2>1. \A g \in 1 .. Len(afs) : afs[g].state # "running"
    <3>1. \A i \in 1 .. Len(stack) : FALSE
      BY <1>3
    <3> QED
      BY <1>1, <3>1 DEF OneFrame
  <2>2. \A i \in 1 .. Len(stack') : i = 1
    BY <1>9
  <2>3. 1 \in 1 .. Len(stack')
    BY <1>9
  <2>4. \A g \in 1 .. Len(afs') : afs'[g].state = "running" => g = f
    BY <1>11, <2>1
  <2>5. stack'[1].k = "async" /\ stack'[1].pair = f
    BY <1>8, <1>9
  <2> QED
    BY <1>4, <1>11, <2>2, <2>3, <2>4, <2>5 DEF OneFrame
<1>16. EndedUsed'
  BY <1>1, <1>3, <1>6, <1>11 DEF EndedUsed
<1> QED
  BY <1>10, <1>11, <1>12, <1>14, <1>15, <1>16 DEF AInv, LastPair

\* Every step of the specification with async functions.
LEMMA AsyncKeeps == ASSUME AInv, [ANext]_avars PROVE AInv'
<1>1. NP(vm) \in Nat /\ LastPair(vm) \in Nat
  <2>1. PInv
    BY DEF AInv
  <2> QED
    BY <2>1, CurrentHeap
<1>2. Error \in ValuesOf(NP(vm)) /\ UserValues \subseteq ValuesOf(NP(vm))
  BY <1>1, OwnValues, UserValuesTyped
<1>3. CASE (UserNext \/ JobNext) /\ UNCHANGED <<afs, hist>>
  BY <1>3, OthersRun DEF Next
<1>4. CASE AsyncCall
  BY <1>4, CalledByAsync
<1>5. ASSUME NEW v \in UserValues, AsyncReturn(v) PROVE AInv'
  <2>1. /\ InAsync /\ Terminate(Current) /\ stack' = Pop /\ hist' = hist
        /\ vm' = CallResolvingFunction(vm, afs[Current].pair, FALSE, v)
    BY <1>5 DEF AsyncReturn, Become
  <2>2. v \in ValuesOf(NP(vm)) /\ FALSE \in BOOLEAN
    BY <1>2
  <2> QED
    BY <2>1, <2>2, EndedByAsync
<1>6. CASE AsyncThrow
  <2>1. /\ InAsync /\ Terminate(Current) /\ stack' = Pop /\ hist' = hist
        /\ vm' = CallResolvingFunction(vm, afs[Current].pair, TRUE, Error)
    BY <1>6 DEF AsyncThrow, Become
  <2>2. TRUE \in BOOLEAN
    OBVIOUS
  <2> QED
    BY <1>2, <2>1, <2>2, EndedByAsync
<1>7. ASSUME NEW v \in UserValues \cup {BadConstructor}, Await(v) PROVE AInv'
  <2>1. InAsync /\ stack' = Pop
    BY <1>7 DEF Await
  <2>2. CASE v = BadConstructor
    <3>1. /\ Terminate(Current) /\ hist' = hist
          /\ vm' = CallResolvingFunction(vm, afs[Current].pair, TRUE, Error)
      BY <1>7, <2>2 DEF Await, Suspend, Become
    <3>2. TRUE \in BOOLEAN
      OBVIOUS
    <3> QED
      BY <1>2, <2>1, <3>1, <3>2, EndedByAsync
  <2>3. CASE v # BadConstructor
    BY <1>7, <2>1, <2>3, SuspendedByAwait
  <2> QED
    BY <2>2, <2>3
<1>8. CASE RunAwait
  BY <1>8, ResumedByJob
<1>9. CASE UNCHANGED avars
  <2>1. [Next]_vars /\ afs' = afs /\ hist' = hist
    BY <1>9 DEF avars
  <2> QED
    BY <2>1, OthersRun
<1> QED
  BY <1>3, <1>4, <1>5, <1>6, <1>7, <1>8, <1>9 DEF ANext

\* No call has been made.
LEMMA AsyncInit == ASSUME AInit PROVE AInv
<1>1. /\ vm = [promises |-> <<>>, pairs |-> <<>>, jobs |-> <<>>, late |-> FALSE]
      /\ stack = <<>> /\ afs = <<>> /\ hist = <<>>
  BY DEF AInit, Init, EmptyVM
<1>2. PInv
  BY InitSound DEF AInit
<1>3. /\ Len(vm.promises) = 0 /\ Len(vm.jobs) = 0 /\ Len(afs) = 0
      /\ Len(hist) = 0 /\ Len(stack) = 0
  BY <1>1
<1>4. \A i \in 1 .. 0 : FALSE
  OBVIOUS
<1>5. afs \in Seq(CallsOf(Len(vm.pairs))) /\ hist \in Seq([on : Nat, same : {TRUE}])
  BY <1>1
<1>6. Suspended = {}
  BY <1>3, <1>4 DEF Suspended
<1>7. Awaits(vm, Suspended, AwaitedBy)
  BY <1>3, <1>4, <1>6 DEF Awaits, ReactionsAwait, ReactionsDiffer, JobsAwait,
                          WakesDiffer, AllResumed
<1>8. OneFrame /\ EndedUsed
  BY <1>3, <1>4 DEF OneFrame, EndedUsed
<1> QED
  BY <1>2, <1>3, <1>5, <1>7, <1>8 DEF AInv

\* The invariant counts what stands for a suspended function.
LEMMA AsyncCounts == AInv => OneResumption
<1> SUFFICES ASSUME AInv, NEW f \in 1 .. Len(afs)
             PROVE  Cardinality(Waiting(f)) + Cardinality(Waking(f))
                    = IF afs[f].state = "awaiting" THEN 1 ELSE 0
  BY DEF OneResumption
<1> DEFINE on == AwaitedBy
           Reaction(p, j) == vm.promises[p].reactions[j]
<1>1. Awaits(vm, Suspended, on)
  BY AsyncState
<1>2. /\ ReactionsAwait(vm, Suspended, on) /\ ReactionsDiffer(vm)
      /\ JobsAwait(vm, Suspended, on) /\ WakesDiffer(vm)
      /\ AllResumed(vm, Suspended, on)
  BY <1>1 DEF Awaits
<1> HIDE DEF on
<1>3. ASSUME NEW w \in Waiting(f)
      PROVE  \E p \in 1 .. NP(vm) : \E j \in 1 .. Len(vm.promises[p].reactions) :
                /\ w = <<p, j>> /\ p = on[f] /\ f \in Suspended
                /\ Resuming(Reaction(p, j)) /\ Reaction(p, j).onFulfil.i = f
  <2>0. PICK p \in 1 .. NP(vm) : \E j \in 1 .. Len(vm.promises[p].reactions) :
            w = <<p, j>> /\ WaitsFor(Reaction(p, j), f)
    BY DEF Waiting
  <2>1. PICK j \in 1 .. Len(vm.promises[p].reactions) :
            w = <<p, j>> /\ WaitsFor(Reaction(p, j), f)
    BY <2>0
  <2>2. ~Ordinary(Reaction(p, j)) /\ Reaction(p, j).onFulfil.i = f
    BY <2>1 DEF WaitsFor, Ordinary, IsAwait
  <2>3. Resuming(Reaction(p, j)) /\ f \in Suspended /\ on[f] = p
    BY <1>2, <2>2 DEF ReactionsAwait, NP
  <2> QED
    BY <2>1, <2>2, <2>3
<1>4. ASSUME NEW p \in 1 .. NP(vm), NEW j \in 1 .. Len(vm.promises[p].reactions),
             Resuming(Reaction(p, j)), Reaction(p, j).onFulfil.i = f
      PROVE  <<p, j>> \in Waiting(f)
  <2>1. WaitsFor(Reaction(p, j), f)
    BY <1>4 DEF WaitsFor, Resuming
  <2> QED
    BY <2>1 DEF Waiting
<1>5. Waking(f) = {j \in 1 .. Len(vm.jobs) : IsAwait(vm.jobs[j].h)
                                             /\ vm.jobs[j].h.i = f}
  BY DEF Waking, Wakes, IsAwait
<1>6. \A a, b \in Waiting(f) : a = b
  <2> SUFFICES ASSUME NEW a \in Waiting(f), NEW b \in Waiting(f) PROVE a = b
    OBVIOUS
  <2>1. PICK p \in 1 .. NP(vm) : \E i \in 1 .. Len(vm.promises[p].reactions) :
            /\ a = <<p, i>> /\ p = on[f]
            /\ Resuming(Reaction(p, i)) /\ Reaction(p, i).onFulfil.i = f
    BY <1>3
  <2>2. PICK q \in 1 .. NP(vm) : \E j \in 1 .. Len(vm.promises[q].reactions) :
            /\ b = <<q, j>> /\ q = on[f]
            /\ Resuming(Reaction(q, j)) /\ Reaction(q, j).onFulfil.i = f
    BY <1>3
  <2>3. p = q
    BY <2>1, <2>2
  <2>4. PICK i \in 1 .. Len(vm.promises[p].reactions) :
            /\ a = <<p, i>>
            /\ Resuming(Reaction(p, i)) /\ Reaction(p, i).onFulfil.i = f
    BY <2>1
  <2>5. PICK j \in 1 .. Len(vm.promises[p].reactions) :
            /\ b = <<p, j>>
            /\ Resuming(Reaction(p, j)) /\ Reaction(p, j).onFulfil.i = f
    BY <2>2, <2>3
  <2>6. i = j
    BY <1>2, <2>4, <2>5 DEF ReactionsDiffer, NP
  <2> QED
    BY <2>4, <2>5, <2>6
<1>7. \A a, b \in Waking(f) : a = b
  BY <1>2, <1>5 DEF WakesDiffer
<1>8. Waiting(f) = {} \/ Waking(f) = {}
  <2> SUFFICES ASSUME NEW w \in Waiting(f), NEW i \in Waking(f) PROVE FALSE
    OBVIOUS
  <2>0. PICK p \in 1 .. NP(vm) : \E j \in 1 .. Len(vm.promises[p].reactions) :
            Resuming(Reaction(p, j)) /\ Reaction(p, j).onFulfil.i = f
    BY <1>3
  <2>1. PICK j \in 1 .. Len(vm.promises[p].reactions) :
            Resuming(Reaction(p, j)) /\ Reaction(p, j).onFulfil.i = f
    BY <2>0
  <2>2. i \in 1 .. Len(vm.jobs) /\ IsAwait(vm.jobs[i].h) /\ vm.jobs[i].h.i = f
    BY <1>5
  <2> QED
    BY <1>1, <2>1, <2>2, AwaitsEither DEF NP
<1>9. /\ Cardinality(Waiting(f)) = IF Waiting(f) = {} THEN 0 ELSE 1
      /\ Cardinality(Waking(f)) = IF Waking(f) = {} THEN 0 ELSE 1
  BY <1>6, <1>7, AtMostOne
<1>10. CASE afs[f].state = "awaiting"
  <2>1. f \in Suspended
    BY <1>10 DEF Suspended
  <2>2. Waiting(f) # {} \/ Waking(f) # {}
    <3>1. CASE \E j \in 1 .. Len(vm.jobs) :
                  IsAwait(vm.jobs[j].h) /\ vm.jobs[j].h.i = f
      BY <1>5, <3>1
    <3>2. CASE /\ on[f] \in 1 .. Len(vm.promises)
               /\ \E j \in 1 .. Len(vm.promises[on[f]].reactions) :
                     /\ Resuming(vm.promises[on[f]].reactions[j])
                     /\ vm.promises[on[f]].reactions[j].onFulfil.i = f
      BY <1>4, <3>2 DEF NP
    <3> QED
      BY <1>2, <2>1, <3>1, <3>2 DEF AllResumed
  <2> QED
    BY <1>8, <1>9, <1>10, <2>2
<1>11. CASE afs[f].state # "awaiting"
  <2>1. f \notin Suspended
    BY <1>11 DEF Suspended
  <2>2. Waiting(f) = {}
    BY <1>3, <2>1
  <2>3. Waking(f) = {}
    BY <1>2, <1>5, <2>1 DEF JobsAwait
  <2> QED
    BY <1>9, <1>11, <2>2, <2>3
<1> QED
  BY <1>10, <1>11

\* The rest of what AwaitsOnce says.
LEMMA AsyncOutcomes == AInv => AwaitGivesOutcome /\ SuspendedOnPending
<1> SUFFICES ASSUME AInv PROVE AwaitGivesOutcome /\ SuspendedOnPending
  OBVIOUS
<1>1. /\ hist \in Seq([on : Nat, same : {TRUE}]) /\ Len(hist) = Len(afs)
      /\ \A f \in 1 .. Len(afs) : afs[f] \in CallsOf(LastPair(vm))
      /\ Awaits(vm, Suspended, AwaitedBy) /\ OneFrame /\ EndedUsed
  BY AsyncState
<1>2. AwaitGivesOutcome
  <2> DEFINE H == [on : Nat, same : {TRUE}]
  <2>1. hist \in Seq(H) /\ \A h \in H : h.same
    BY <1>1
  <2> HIDE DEF H
  <2>2. \A f \in 1 .. Len(hist) : hist[f] \in H
    BY <2>1
  <2> QED
    BY <1>1, <2>1, <2>2 DEF AwaitGivesOutcome
<1>3. ASSUME Quiescent, NEW f \in 1 .. Len(afs), afs[f].state = "awaiting"
      PROVE  ~IsSettled(hist[f].on)
  <2>1. f \in Suspended /\ AwaitedBy[f] = hist[f].on
    BY <1>3 DEF Suspended, AwaitedBy
  <2>2. \A j \in 1 .. Len(vm.jobs) : FALSE
    BY <1>3 DEF Quiescent
  <2>3. /\ hist[f].on \in 1 .. Len(vm.promises)
        /\ \E j \in 1 .. Len(vm.promises[hist[f].on].reactions) : TRUE
    BY <1>1, <2>1, <2>2 DEF Awaits, AllResumed
  <2>4. vm.promises[hist[f].on].reactions # <<>>
    BY <2>3
  <2> QED
    BY <1>1, <2>3, <2>4 DEF Awaits, ReactionsAwait, IsSettled
<1>4. ASSUME Quiescent, NEW f \in 1 .. Len(afs), afs[f].state # "awaiting"
      PROVE  vm.pairs[afs[f].pair].already
  <2>1. \A i \in 1 .. Len(stack) : FALSE
    BY <1>4 DEF Quiescent, Idle
  <2>2. afs[f].state # "running"
    BY <1>1, <2>1 DEF OneFrame
  <2>3. afs[f].state = "done"
    BY <1>1, <1>4, <2>2 DEF CallsOf, CallStates
  <2> QED
    BY <1>1, <2>3 DEF EndedUsed
<1>5. SuspendedOnPending
  BY <1>3, <1>4 DEF SuspendedOnPending
<1> QED
  BY <1>2, <1>5

\* A function that js_async_function_resume suspends in an await is resumed by
\* exactly one reaction or job, and by none when it runs or has ended; the
\* body is given the value or the error of the awaited promise; and when all
\* jobs have run, only functions that await a pending promise are left.
THEOREM AsyncResumesOnce == ASpec => []AwaitsOnce
<1>1. AInit => AInv
  BY AsyncInit
<1>2. AInv /\ [ANext]_avars => AInv'
  BY AsyncKeeps
<1>3. AInv => AwaitsOnce
  BY AsyncCounts, AsyncOutcomes DEF AwaitsOnce
<1> QED
  BY <1>1, <1>2, <1>3, PTL DEF ASpec
=============================================================================
