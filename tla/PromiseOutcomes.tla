---------------------------- MODULE PromiseOutcomes ----------------------------
(***************************************************************************)
(* Proof that outcomes arrive: when all jobs have run, every reaction of a *)
(* settled promise has run once, a promise that follows another one has    *)
(* its outcome, and finally has passed on what it was given.               *)
(*                                                                         *)
(* OutcomesArrive speaks of the end, so the invariant OInv says where an   *)
(* outcome is on its way: in a reaction of a pending promise, in a job     *)
(* that carries it, or in a job that will follow the promise.  It arrives  *)
(* because the functions that will deliver it are claimed: nobody else     *)
(* calls them first.                                                       *)
(***************************************************************************)
EXTENDS PromisesProofs

\* A value that resolving a promise fulfils it with.
Plain(v) == v.t \notin {"thenable", "promise", "getter"}
StateOf(isReject) == IF isReject THEN "rejected" ELSE "fulfilled"

\* The places where reactions wait: <<p, j>> is reaction j of promise p, and
\* <<0, j>> the reaction that has become job j.
Slots(m) ==
    {<<0, j>> : j \in {i \in 1 .. Len(m.jobs) : m.jobs[i].k = "reaction"}}
    \cup UNION {{<<p, j>> : j \in 1 .. Len(m.promises[p].reactions)} :
                   p \in 1 .. Len(m.promises)}

\* The pairs of resolving functions that a reaction will call: its capability,
\* and the pair of a handler that is a resolving function itself.
Relay(h) == IF h.k \in {"resolve", "reject"} THEN {h.i} ELSE {}
CapAt(m, x) ==
    IF x[1] = 0 THEN m.jobs[x[2]].cap ELSE m.promises[x[1]].reactions[x[2]].cap
RelaysAt(m, x) ==
    IF x[1] = 0 THEN Relay(m.jobs[x[2]].h)
    ELSE Relay(m.promises[x[1]].reactions[x[2]].onFulfil)
         \cup Relay(m.promises[x[1]].reactions[x[2]].onReject)
Claims(m, x) == {CapAt(m, x)} \cup RelaysAt(m, x)

\* A pair that nobody can call but who claims it.
Private(m, c) ==
    /\ c \in 1 .. Len(m.pairs)
    /\ ~m.pairs[c].already /\ ~m.pairs[c].exposed
Apart(m) ==
    \A x, y \in Slots(m) :
        \A c \in Claims(m, x) : c \in Claims(m, y) => x = y
Owned(m) ==
    \A x \in Slots(m) :
        /\ \A c \in Claims(m, x) : Private(m, c)
        /\ CapAt(m, x) \notin RelaysAt(m, x)
Free(m, c) == \A x \in Slots(m) : c \notin Claims(m, x)

\* What settled promises and jobs are like.
Regular(m) ==
    /\ \A p \in 1 .. Len(m.promises) :
         /\ m.promises[p].state # "pending" => m.promises[p].reactions = <<>>
         /\ m.promises[p].state = "fulfilled" => Plain(m.promises[p].result)
         /\ \A j \in 1 .. Len(m.promises[p].reactions) :
              m.promises[p].reactions[j].onReject.k = "finally" =>
                  m.promises[p].reactions[j].onReject.i # 0
    /\ \A j \in 1 .. Len(m.jobs) :
         /\ m.jobs[j].k = "thenable" => HasThen(m.jobs[j].arg)
         /\ m.jobs[j].k = "reaction" =>
              IF m.jobs[j].rej THEN m.jobs[j].h.k = "finally" => m.jobs[j].h.i # 0
              ELSE Plain(m.jobs[j].arg)
Linked(m) == Apart(m) /\ Owned(m) /\ Regular(m)

-----------------------------------------------------------------------------
\* The reaction of d, made by a then of p, is still to run.
Waits(m, d, p) ==
    \/ \E j \in 1 .. Len(m.promises[p].reactions) :
          m.pairs[m.promises[p].reactions[j].cap].promise = d
    \/ \E j \in 1 .. Len(m.jobs) :
          m.jobs[j].k = "reaction" /\ m.pairs[m.jobs[j].cap].promise = d

\* A reaction with capability cap and handler h passes outcome o on to d.
PassesOn(m, h, cap, d, o) ==
    \/ h = NoHandler /\ m.pairs[cap].promise = d
    \/ /\ h.k = IF o = "rejected" THEN "reject" ELSE "resolve"
       /\ m.pairs[h.i].promise = d
ByReaction(m, d, p, o) ==
    /\ m.promises[p].state = "pending"
    /\ \E j \in 1 .. Len(m.promises[p].reactions) :
          LET r == m.promises[p].reactions[j]
          IN PassesOn(m, IF o = "rejected" THEN r.onReject ELSE r.onFulfil,
                      r.cap, d, o)
\* Job j carries outcome o of p to d.
ByJob(m, j, d, p, o) ==
    /\ m.promises[p].state = o
    /\ m.jobs[j].k = "reaction" /\ m.jobs[j].arg = m.promises[p].result
    /\ m.jobs[j].rej = (o = "rejected")
    /\ PassesOn(m, m.jobs[j].h, m.jobs[j].cap, d, o)
\* Job j will make d follow p.
ByFollowing(m, j, d, p) ==
    m.jobs[j].k = "thenable" /\ m.jobs[j].cap = d /\ m.jobs[j].arg = PromiseVal(p)
Same(m, d, p, o) ==
    m.promises[p].state = o =>
        m.promises[d].state = o /\ m.promises[d].result = m.promises[p].result

\* Promise d has outcome o of p if p has it, or will have it.
Shares(m, d, p, o) ==
    \/ m.promises[p].state # "pending" /\ Same(m, d, p, o)
    \/ ByReaction(m, d, p, o)
    \/ \E j \in 1 .. Len(m.jobs) : ByJob(m, j, d, p, o) \/ ByFollowing(m, j, d, p)

\* Job j will settle q with outcome o and value v, which finally passes on.
ByFinally(m, j, q, o, v) ==
    /\ m.jobs[j].k = "reaction" /\ m.pairs[m.jobs[j].cap].promise = q
    /\ m.jobs[j].h.k = IF o = "rejected" THEN "thrower" ELSE "thunk"
    /\ m.jobs[j].h.v = v /\ (o = "fulfilled" => Plain(v))
Promised(m, q, o, v) ==
    \/ m.promises[q].state = o /\ m.promises[q].result = v
    \/ \E j \in 1 .. Len(m.jobs) : ByFinally(m, j, q, o, v)

-----------------------------------------------------------------------------
\* Functions given to user code are exposed; a handler runs for a capability
\* that nothing else claims, and only at the bottom of the stack.
FramesFit(m, s) ==
    \A f \in 1 .. Len(s) :
        /\ s[f].k \in {"executor", "then"} =>
             s[f].pair \in 1 .. Len(m.pairs) /\ m.pairs[s[f].pair].exposed
        /\ s[f].k \in {"handler", "finally"} =>
             f = 1 /\ Private(m, s[f].pair) /\ Free(m, s[f].pair)
        /\ s[f].k = "finally" /\ s[f].magic = 0 => Plain(s[f].arg)

CallsFit(m, c) ==
    /\ c \in Seq({0, 1}) /\ Len(c) = Len(m.promises)
    /\ \A x \in Slots(m) : c[m.pairs[CapAt(m, x)].promise] = 0
DerivedFit(m, c, D) ==
    \A t \in D : /\ t[1] \in 1 .. Len(m.promises) /\ t[2] \in 1 .. Len(m.promises)
                 /\ c[t[1]] = 1 \/ Waits(m, t[1], t[2])
MirrorFit(m, M) ==
    \A t \in M : /\ t[1] \in 1 .. Len(m.promises) /\ t[2] \in 1 .. Len(m.promises)
                 /\ t[3] \in Outcomes /\ Shares(m, t[1], t[2], t[3])
DueFit(m, U) ==
    \A t \in U : /\ t[1] \in 1 .. Len(m.promises) /\ t[2] \in Outcomes
                 /\ \E q \in 1 .. Len(m.promises) :
                       Shares(m, t[1], q, t[2]) /\ Promised(m, q, t[2], t[3])

OInv ==
    /\ PInv /\ Linked(vm) /\ FramesFit(vm, stack)
    /\ CallsFit(vm, calls) /\ DerivedFit(vm, calls, derived)
    /\ MirrorFit(vm, mirror) /\ DueFit(vm, due)

-----------------------------------------------------------------------------
(* Where reactions wait, and which resolving functions they claim. *)

\* The places of a heap.
LEMMA SlotIs ==
    ASSUME NEW m
    PROVE  /\ \A j \in 1 .. Len(m.jobs) :
                m.jobs[j].k = "reaction" => <<0, j>> \in Slots(m)
           /\ \A p \in 1 .. Len(m.promises) :
                \A j \in 1 .. Len(m.promises[p].reactions) : <<p, j>> \in Slots(m)
           /\ \A x \in Slots(m) :
                \/ \E j \in 1 .. Len(m.jobs) :
                      x = <<0, j>> /\ m.jobs[j].k = "reaction"
                \/ \E p \in 1 .. Len(m.promises) :
                      \E j \in 1 .. Len(m.promises[p].reactions) : x = <<p, j>>
BY DEF Slots

\* The same for one place.
LEMMA SlotCases ==
    ASSUME NEW m, NEW x \in Slots(m)
    PROVE  \/ \E j \in 1 .. Len(m.jobs) : x = <<0, j>> /\ m.jobs[j].k = "reaction"
           \/ \E p \in 1 .. Len(m.promises) :
                 \E j \in 1 .. Len(m.promises[p].reactions) : x = <<p, j>>
BY SlotIs

\* What is claimed there.
LEMMA JobSlot ==
    ASSUME NEW m, NEW j
    PROVE  /\ CapAt(m, <<0, j>>) = m.jobs[j].cap
           /\ RelaysAt(m, <<0, j>>) = Relay(m.jobs[j].h)
BY DEF CapAt, RelaysAt

\* A reaction that is kept claims what its two handlers may call.
LEMMA ReactionSlot ==
    ASSUME NEW m, NEW p, p # 0, NEW j
    PROVE  /\ CapAt(m, <<p, j>>) = m.promises[p].reactions[j].cap
           /\ RelaysAt(m, <<p, j>>)
                = Relay(m.promises[p].reactions[j].onFulfil)
                  \cup Relay(m.promises[p].reactions[j].onReject)
BY DEF CapAt, RelaysAt

\* The reaction at x of m2 was at F[x], except for at most one that is new.
LEMMA StillApart ==
    ASSUME NEW m, NEW m2, Apart(m), NEW F, NEW Z, \A x, y \in Z : x = y,
           \A x \in Slots(m2) \ Z :
               F[x] \in Slots(m) /\ Claims(m2, x) \subseteq Claims(m, F[x]),
           \A x, y \in Slots(m2) \ Z : F[x] = F[y] => x = y,
           \A x \in Z : \A c \in Claims(m2, x) : Free(m, c)
    PROVE  Apart(m2)
<1> SUFFICES ASSUME NEW x \in Slots(m2), NEW y \in Slots(m2),
                    NEW c \in Claims(m2, x), c \in Claims(m2, y)
             PROVE  x = y
  BY DEF Apart
<1>1. CASE x \notin Z /\ y \notin Z
  <2>1. F[x] \in Slots(m) /\ F[y] \in Slots(m)
        /\ c \in Claims(m, F[x]) /\ c \in Claims(m, F[y])
    BY <1>1
  <2>2. F[x] = F[y]
    BY <2>1 DEF Apart
  <2> QED
    BY <1>1, <2>2
<1>2. CASE x \in Z /\ y \notin Z
  <2>1. F[y] \in Slots(m) /\ c \in Claims(m, F[y]) /\ Free(m, c)
    BY <1>2
  <2> QED
    BY <2>1 DEF Free
<1>3. CASE x \notin Z /\ y \in Z
  <2>1. F[x] \in Slots(m) /\ c \in Claims(m, F[x]) /\ Free(m, c)
    BY <1>3
  <2> QED
    BY <2>1 DEF Free
<1> QED
  BY <1>1, <1>2, <1>3

-----------------------------------------------------------------------------
(* What is on its way stays on its way. *)

\* Resolving functions stay what they are.
PairsStay(m, m2) ==
    \A c \in 1 .. Len(m.pairs) :
        /\ c \in 1 .. Len(m2.pairs)
        /\ m2.pairs[c].promise = m.pairs[c].promise
        /\ m2.pairs[c].exposed = m.pairs[c].exposed

\* Reaction j of q is kept, or is the job of the outcome that q now has.
ReactionGoes(m, m2, q, j) ==
    LET r == m.promises[q].reactions[j]
        s == m2.promises[q]
    IN \/ s.state = "pending" /\ \E i \in 1 .. Len(s.reactions) : s.reactions[i] = r
       \/ /\ s.state \in Outcomes
          /\ \E i \in 1 .. Len(m2.jobs) :
                /\ m2.jobs[i].k = "reaction" /\ m2.jobs[i].cap = r.cap
                /\ m2.jobs[i].h = IF s.state = "rejected" THEN r.onReject
                                  ELSE r.onFulfil
                /\ m2.jobs[i].arg = s.result
                /\ m2.jobs[i].rej = (s.state = "rejected")

\* Nothing is lost on the way from m to m2 except with the jobs in gone.
Onward(m, m2, gone) ==
    LET P == 1 .. Len(m.promises)
    IN /\ Keeps(m, m2)
       /\ \A d, p \in P : Waits(m, d, p) =>
             \/ Waits(m2, d, p)
             \/ \E j \in gone : /\ m.jobs[j].k = "reaction"
                               /\ m.pairs[m.jobs[j].cap].promise = d
       /\ \A d, p \in P, o \in Outcomes : Shares(m, d, p, o) =>
             \/ Shares(m2, d, p, o)
             \/ \E j \in gone : ByJob(m, j, d, p, o) \/ ByFollowing(m, j, d, p)
       /\ \A q \in P, o \in Outcomes : \A v : Promised(m, q, o, v) =>
             \/ Promised(m2, q, o, v)
             \/ \E j \in gone : ByFinally(m, j, q, o, v)

\* The parts of a heap whose reactions are linked.
ReactionsFit(m, n, k) ==
    \A p \in 1 .. n :
        /\ m.promises[p].state \in States
        /\ Len(m.promises[p].reactions) \in Nat
        /\ \A j \in 1 .. Len(m.promises[p].reactions) :
             /\ m.promises[p].state = "pending" /\ <<p, j>> \in Slots(m)
             /\ m.promises[p].reactions[j].cap \in 1 .. k
             /\ m.promises[p].reactions[j].onFulfil \in HandlersOf(n, k)
             /\ m.promises[p].reactions[j].onReject \in HandlersOf(n, k)
JobsFit(m, n, k) ==
    \A j \in 1 .. Len(m.jobs) :
        /\ m.jobs[j].h \in HandlersOf(n, k)
        /\ m.jobs[j].k = "reaction" =>
             m.jobs[j].cap \in 1 .. k /\ <<0, j>> \in Slots(m)
        /\ m.jobs[j].k = "thenable" => m.jobs[j].cap \in 1 .. n
        /\ m.jobs[j].k \in {"reaction", "thenable"}
        /\ m.jobs[j].rej \in BOOLEAN /\ m.jobs[j].arg \in ValuesOf(n)

\* A linked heap is made of them.
LEMMA LinkedPairs ==
    ASSUME NEW n \in Nat, NEW k \in Nat, NEW m \in Heaps(n, k), Linked(m)
    PROVE  /\ Len(m.promises) = n /\ Len(m.pairs) = k /\ Len(m.jobs) \in Nat
           /\ ReactionsFit(m, n, k) /\ JobsFit(m, n, k)
<1>1. /\ Len(m.promises) = n /\ Len(m.pairs) = k /\ Len(m.jobs) \in Nat
      /\ \A p \in 1 .. n : m.promises[p] \in PromisesOf(n, k)
      /\ \A j \in 1 .. Len(m.jobs) : m.jobs[j] \in JobsOf(n, k)
  BY HeapFields
<1>2. \A p \in 1 .. n : /\ m.promises[p].state \in States
                        /\ m.promises[p].reactions \in Seq(ReactionsOf(n, k))
  BY <1>1 DEF PromisesOf
<1>3. \A x \in Slots(m) : CapAt(m, x) \in 1 .. k
  BY <1>1 DEF Linked, Owned, Claims, Private
<1>4. ASSUME NEW p \in 1 .. n, NEW j \in 1 .. Len(m.promises[p].reactions)
      PROVE  /\ m.promises[p].state = "pending" /\ <<p, j>> \in Slots(m)
             /\ m.promises[p].reactions[j].cap \in 1 .. k
             /\ m.promises[p].reactions[j].onFulfil \in HandlersOf(n, k)
             /\ m.promises[p].reactions[j].onReject \in HandlersOf(n, k)
  <2>1. <<p, j>> \in Slots(m) /\ CapAt(m, <<p, j>>) = m.promises[p].reactions[j].cap
    <3>1. <<p, j>> \in Slots(m)
      BY <1>1, SlotIs
    <3>2. p # 0
      OBVIOUS
    <3> QED
      BY <3>1, <3>2, ReactionSlot
  <2>2. m.promises[p].reactions[j] \in ReactionsOf(n, k)
    BY <1>2
  <2>3. m.promises[p].reactions # <<>>
    OBVIOUS
  <2>4. m.promises[p].state = "pending"
    BY <1>1, <2>3 DEF Linked, Regular
  <2> QED
    BY <1>3, <2>1, <2>2, <2>4 DEF ReactionsOf
<1>5. ASSUME NEW j \in 1 .. Len(m.jobs), m.jobs[j].k = "reaction"
      PROVE  m.jobs[j].cap \in 1 .. k /\ <<0, j>> \in Slots(m)
  BY <1>3, <1>5, SlotIs, JobSlot
<1>6. \A j \in 1 .. Len(m.jobs) :
         /\ m.jobs[j].h \in HandlersOf(n, k)
         /\ m.jobs[j].k \in {"reaction", "thenable"}
         /\ m.jobs[j].k = "thenable" => m.jobs[j].cap \in 1 .. n
         /\ m.jobs[j].rej \in BOOLEAN /\ m.jobs[j].arg \in ValuesOf(n)
  BY <1>1 DEF JobsOf
<1>7. ReactionsFit(m, n, k)
  <2>1. \A p \in 1 .. n : Len(m.promises[p].reactions) \in Nat
    BY <1>2
  <2> QED
    BY <1>2, <1>4, <2>1, Zenon DEF ReactionsFit
<1>8. JobsFit(m, n, k)
  BY <1>5, <1>6 DEF JobsFit
<1> QED
  BY <1>1, <1>7, <1>8

\* A reaction that passes an outcome on does so in the later heap.
LEMMA PassesStill ==
    ASSUME NEW n \in Nat, NEW k \in Nat, NEW m, Len(m.pairs) = k, NEW m2,
           PairsStay(m, m2), NEW h \in HandlersOf(n, k), NEW cap \in 1 .. k,
           NEW d, NEW o, PassesOn(m, h, cap, d, o)
    PROVE  PassesOn(m2, h, cap, d, o)
<1>1. h.k \in {"resolve", "reject"} => h.i \in 1 .. k
  BY DEF HandlersOf
<1>2. \A c \in 1 .. k : m2.pairs[c].promise = m.pairs[c].promise
  BY DEF PairsStay
<1> QED
  BY <1>1, <1>2 DEF PassesOn

\* The general case: every reaction and every job is accounted for.
LEMMA GoesOn ==
    ASSUME NEW n \in Nat, NEW k \in Nat, NEW m \in Heaps(n, k), Linked(m),
           NEW n2 \in Nat, NEW k2 \in Nat, NEW m2 \in Heaps(n2, k2), n <= n2,
           Keeps(m, m2), PairsStay(m, m2), NEW gone,
           \A q \in 1 .. n : \A j \in 1 .. Len(m.promises[q].reactions) :
               ReactionGoes(m, m2, q, j),
           \A j \in 1 .. Len(m.jobs) :
               j \in gone \/ \E i \in 1 .. Len(m2.jobs) : m2.jobs[i] = m.jobs[j]
    PROVE  Onward(m, m2, gone)
<1>1. /\ Len(m.promises) = n /\ Len(m.pairs) = k
      /\ \A p \in 1 .. n : m.promises[p].state \in States
      /\ \A p \in 1 .. n : \A j \in 1 .. Len(m.promises[p].reactions) :
           /\ m.promises[p].state = "pending"
           /\ m.promises[p].reactions[j].cap \in 1 .. k
           /\ m.promises[p].reactions[j].onFulfil \in HandlersOf(n, k)
           /\ m.promises[p].reactions[j].onReject \in HandlersOf(n, k)
      /\ \A j \in 1 .. Len(m.jobs) :
           /\ m.jobs[j].h \in HandlersOf(n, k)
           /\ m.jobs[j].k = "reaction" => m.jobs[j].cap \in 1 .. k
  <2>1. /\ Len(m.promises) = n /\ Len(m.pairs) = k
        /\ ReactionsFit(m, n, k) /\ JobsFit(m, n, k)
    BY LinkedPairs
  <2> QED
    BY <2>1 DEF ReactionsFit, JobsFit
<1>2. \A c \in 1 .. k : m2.pairs[c].promise = m.pairs[c].promise
  BY <1>1 DEF PairsStay
<1>3. ASSUME NEW d \in 1 .. n, NEW p \in 1 .. n, Waits(m, d, p)
      PROVE  \/ Waits(m2, d, p)
             \/ \E j \in gone : /\ m.jobs[j].k = "reaction"
                               /\ m.pairs[m.jobs[j].cap].promise = d
  <2>1. CASE \E j \in 1 .. Len(m.promises[p].reactions) :
                m.pairs[m.promises[p].reactions[j].cap].promise = d
    <3>1. PICK j \in 1 .. Len(m.promises[p].reactions) :
             m.pairs[m.promises[p].reactions[j].cap].promise = d
      BY <2>1
    <3> DEFINE r == m.promises[p].reactions[j]
    <3>2. m2.pairs[r.cap].promise = d
      BY <1>1, <1>2, <3>1
    <3>3. ReactionGoes(m, m2, p, j)
      OBVIOUS
    <3> QED
      BY <3>2, <3>3 DEF ReactionGoes, Waits
  <2>2. CASE \E j \in 1 .. Len(m.jobs) :
                m.jobs[j].k = "reaction" /\ m.pairs[m.jobs[j].cap].promise = d
    <3>1. PICK j \in 1 .. Len(m.jobs) :
             m.jobs[j].k = "reaction" /\ m.pairs[m.jobs[j].cap].promise = d
      BY <2>2
    <3>2. m2.pairs[m.jobs[j].cap].promise = d
      BY <1>1, <1>2, <3>1
    <3>3. j \in gone \/ \E i \in 1 .. Len(m2.jobs) : m2.jobs[i] = m.jobs[j]
      OBVIOUS
    <3> QED
      BY <3>1, <3>2, <3>3 DEF Waits
  <2> QED
    BY <1>3, <2>1, <2>2 DEF Waits
<1>4. ASSUME NEW q \in 1 .. n, NEW o \in Outcomes, NEW v, Promised(m, q, o, v)
      PROVE  \/ Promised(m2, q, o, v)
             \/ \E j \in gone : ByFinally(m, j, q, o, v)
  <2>1. CASE m.promises[q].state = o /\ m.promises[q].result = v
    <3>1. o # "pending"
      BY DEF Outcomes
    <3> QED
      BY <1>1, <2>1, <3>1 DEF Keeps, Promised
  <2>2. CASE \E j \in 1 .. Len(m.jobs) : ByFinally(m, j, q, o, v)
    <3>1. PICK j \in 1 .. Len(m.jobs) : ByFinally(m, j, q, o, v)
      BY <2>2
    <3>2. m.jobs[j].k = "reaction" /\ m.pairs[m.jobs[j].cap].promise = q
      BY <3>1 DEF ByFinally
    <3>3. m2.pairs[m.jobs[j].cap].promise = q
      BY <1>1, <1>2, <3>2
    <3>4. CASE j \in gone
      BY <3>1, <3>4
    <3>5. CASE \E i \in 1 .. Len(m2.jobs) : m2.jobs[i] = m.jobs[j]
      <4>1. PICK i \in 1 .. Len(m2.jobs) : m2.jobs[i] = m.jobs[j]
        BY <3>5
      <4>2. ByFinally(m2, i, q, o, v)
        BY <3>1, <3>3, <4>1 DEF ByFinally
      <4> QED
        BY <4>2 DEF Promised
    <3> QED
      BY <3>4, <3>5
  <2> QED
    BY <1>4, <2>1, <2>2 DEF Promised
<1>5. ASSUME NEW d \in 1 .. n, NEW p \in 1 .. n, NEW o \in Outcomes,
             Shares(m, d, p, o)
      PROVE  \/ Shares(m2, d, p, o)
             \/ \E j \in gone : ByJob(m, j, d, p, o) \/ ByFollowing(m, j, d, p)
  <2>1. CASE m.promises[p].state # "pending" /\ Same(m, d, p, o)
    <3>1. o # "pending"
      BY DEF Outcomes
    <3>2. /\ m2.promises[p].state = m.promises[p].state
          /\ m2.promises[p].result = m.promises[p].result
      BY <1>1, <2>1 DEF Keeps
    <3>3. Same(m2, d, p, o)
      BY <1>1, <2>1, <3>1, <3>2 DEF Keeps, Same
    <3> QED
      BY <2>1, <3>2, <3>3 DEF Shares
  <2>2. CASE ByReaction(m, d, p, o)
    <3>1. PICK j \in 1 .. Len(m.promises[p].reactions) :
             LET r == m.promises[p].reactions[j]
             IN PassesOn(m, IF o = "rejected" THEN r.onReject ELSE r.onFulfil,
                         r.cap, d, o)
      BY <2>2 DEF ByReaction
    <3> DEFINE r == m.promises[p].reactions[j]
               h == IF o = "rejected" THEN r.onReject ELSE r.onFulfil
    <3>2. PassesOn(m2, h, r.cap, d, o)
      <4>1. h \in HandlersOf(n, k) /\ r.cap \in 1 .. k /\ PassesOn(m, h, r.cap, d, o)
        BY <1>1, <3>1
      <4> HIDE DEF h, r
      <4> QED
        BY <1>1, <4>1, PassesStill
    <3>3. ReactionGoes(m, m2, p, j)
      OBVIOUS
    <3> DEFINE s == m2.promises[p]
    <3>4. CASE /\ s.state = "pending"
               /\ \E i \in 1 .. Len(s.reactions) : s.reactions[i] = r
      <4>1. ByReaction(m2, d, p, o)
        BY <3>2, <3>4 DEF ByReaction
      <4> QED
        BY <4>1 DEF Shares
    <3>5. CASE /\ s.state \in Outcomes
               /\ \E i \in 1 .. Len(m2.jobs) :
                     /\ m2.jobs[i].k = "reaction" /\ m2.jobs[i].cap = r.cap
                     /\ m2.jobs[i].h = IF s.state = "rejected" THEN r.onReject
                                       ELSE r.onFulfil
                     /\ m2.jobs[i].arg = s.result
                     /\ m2.jobs[i].rej = (s.state = "rejected")
      <4>1. CASE s.state = o
        <5>1. PICK i \in 1 .. Len(m2.jobs) :
                 /\ m2.jobs[i].k = "reaction" /\ m2.jobs[i].cap = r.cap
                 /\ m2.jobs[i].h = h /\ m2.jobs[i].arg = s.result
                 /\ m2.jobs[i].rej = (o = "rejected")
          BY <3>5, <4>1
        <5>2. ByJob(m2, i, d, p, o)
          BY <3>2, <4>1, <5>1 DEF ByJob
        <5> QED
          BY <5>2 DEF Shares
      <4>2. CASE s.state # o
        BY <3>5, <4>2 DEF Shares, Same, Outcomes
      <4> QED
        BY <4>1, <4>2
    <3> QED
      BY <3>3, <3>4, <3>5 DEF ReactionGoes
  <2>3. CASE \E j \in 1 .. Len(m.jobs) :
                ByJob(m, j, d, p, o) \/ ByFollowing(m, j, d, p)
    <3>1. PICK j \in 1 .. Len(m.jobs) :
             ByJob(m, j, d, p, o) \/ ByFollowing(m, j, d, p)
      BY <2>3
    <3>2. CASE j \in gone
      BY <3>1, <3>2
    <3>3. CASE \E i \in 1 .. Len(m2.jobs) : m2.jobs[i] = m.jobs[j]
      <4>1. PICK i \in 1 .. Len(m2.jobs) : m2.jobs[i] = m.jobs[j]
        BY <3>3
      <4>2. CASE ByJob(m, j, d, p, o)
        <5>1. PassesOn(m2, m.jobs[j].h, m.jobs[j].cap, d, o)
          <6>1. /\ m.jobs[j].h \in HandlersOf(n, k) /\ m.jobs[j].cap \in 1 .. k
                /\ PassesOn(m, m.jobs[j].h, m.jobs[j].cap, d, o)
            BY <1>1, <4>2 DEF ByJob
          <6> QED
            BY <1>1, <6>1, PassesStill
        <5>2. /\ m2.promises[p].state = o
              /\ m2.promises[p].result = m.promises[p].result
          BY <1>1, <4>2 DEF ByJob, Keeps, Outcomes
        <5>3. ByJob(m2, i, d, p, o)
          BY <4>1, <4>2, <5>1, <5>2 DEF ByJob
        <5> QED
          BY <5>3 DEF Shares
      <4>3. CASE ByFollowing(m, j, d, p)
        <5>1. ByFollowing(m2, i, d, p)
          BY <4>1, <4>3 DEF ByFollowing
        <5> QED
          BY <5>1 DEF Shares
      <4> QED
        BY <3>1, <4>2, <4>3
    <3> QED
      BY <3>2, <3>3
  <2> QED
    BY <1>5, <2>1, <2>2, <2>3 DEF Shares
<1> QED
  BY <1>1, <1>3, <1>4, <1>5 DEF Onward

-----------------------------------------------------------------------------
(* How the places of reactions change. *)

\* The reactions of m2 are reactions of m, or new ones with a capability in C
\* and with handlers that call pairs in R.
SlotsFrom(m, m2, C, R) ==
    \A x \in Slots(m2) :
        \/ \E y \in Slots(m) : /\ CapAt(m2, x) = CapAt(m, y)
                              /\ RelaysAt(m2, x) \subseteq RelaysAt(m, y)
        \/ CapAt(m2, x) \in C /\ RelaysAt(m2, x) \subseteq R

\* Pairs that reactions claim stay private.
ClaimsStay(m, m2) == \A c : ~Free(m, c) /\ Private(m, c) => Private(m2, c)

\* A pair that new reactions do not claim stays free.
LEMMA StillFree ==
    ASSUME NEW m, NEW m2, NEW C, NEW R, SlotsFrom(m, m2, C, R),
           NEW c, Free(m, c), c \notin C, c \notin R
    PROVE  Free(m2, c)
BY DEF SlotsFrom, Free, Claims

\* Reactions still claim only private pairs.
LEMMA StillOwned ==
    ASSUME NEW m, NEW m2, NEW C, NEW R, SlotsFrom(m, m2, C, R), Owned(m),
           ClaimsStay(m, m2), \A c \in C \cup R : Private(m2, c),
           \A c \in C : c \notin R
    PROVE  Owned(m2)
<1> SUFFICES ASSUME NEW x \in Slots(m2)
             PROVE  /\ \A c \in Claims(m2, x) : Private(m2, c)
                    /\ CapAt(m2, x) \notin RelaysAt(m2, x)
  BY DEF Owned
<1>1. CASE \E y \in Slots(m) : /\ CapAt(m2, x) = CapAt(m, y)
                              /\ RelaysAt(m2, x) \subseteq RelaysAt(m, y)
  <2>1. PICK y \in Slots(m) : /\ CapAt(m2, x) = CapAt(m, y)
                             /\ RelaysAt(m2, x) \subseteq RelaysAt(m, y)
    BY <1>1
  <2>2. /\ \A c \in Claims(m, y) : Private(m, c) /\ ~Free(m, c)
        /\ CapAt(m, y) \notin RelaysAt(m, y)
    BY DEF Owned, Free
  <2>3. Claims(m2, x) \subseteq Claims(m, y)
    BY <2>1 DEF Claims
  <2> QED
    BY <2>1, <2>2, <2>3 DEF ClaimsStay
<1>2. CASE CapAt(m2, x) \in C /\ RelaysAt(m2, x) \subseteq R
  BY <1>2 DEF Claims
<1> QED
  BY <1>1, <1>2 DEF SlotsFrom

\* Where reactions come from, one operation after another.
LEMMA FromThrough ==
    ASSUME NEW m1, NEW m2, NEW m3, NEW C, NEW R, NEW C2, NEW R2,
           SlotsFrom(m1, m2, C, R), SlotsFrom(m2, m3, C2, R2)
    PROVE  SlotsFrom(m1, m3, C \cup C2, R \cup R2)
<1> SUFFICES ASSUME NEW x \in Slots(m3)
             PROVE  \/ \E z \in Slots(m1) : /\ CapAt(m3, x) = CapAt(m1, z)
                                           /\ RelaysAt(m3, x) \subseteq RelaysAt(m1, z)
                    \/ /\ CapAt(m3, x) \in C \cup C2
                       /\ RelaysAt(m3, x) \subseteq R \cup R2
  BY DEF SlotsFrom
<1>1. CASE \E y \in Slots(m2) : /\ CapAt(m3, x) = CapAt(m2, y)
                               /\ RelaysAt(m3, x) \subseteq RelaysAt(m2, y)
  <2>1. PICK y \in Slots(m2) : /\ CapAt(m3, x) = CapAt(m2, y)
                              /\ RelaysAt(m3, x) \subseteq RelaysAt(m2, y)
    BY <1>1
  <2>2. \/ \E z \in Slots(m1) : /\ CapAt(m2, y) = CapAt(m1, z)
                               /\ RelaysAt(m2, y) \subseteq RelaysAt(m1, z)
        \/ CapAt(m2, y) \in C /\ RelaysAt(m2, y) \subseteq R
    BY DEF SlotsFrom
  <2> QED
    BY <2>1, <2>2
<1>2. CASE CapAt(m3, x) \in C2 /\ RelaysAt(m3, x) \subseteq R2
  BY <1>2
<1> QED
  BY <1>1, <1>2 DEF SlotsFrom

\* One step after the other.
LEMMA OnwardThrough ==
    ASSUME NEW m1, NEW m2, NEW m3, NEW gone, Len(m1.promises) \in Nat,
           Len(m2.promises) \in Nat, Len(m1.promises) <= Len(m2.promises),
           Onward(m1, m2, gone), Onward(m2, m3, {})
    PROVE  Onward(m1, m3, gone)
<1>1. 1 .. Len(m1.promises) \subseteq 1 .. Len(m2.promises)
  OBVIOUS
<1>2. Keeps(m1, m3)
  BY <1>1 DEF Onward, Keeps
<1>3. \A d, p \in 1 .. Len(m2.promises) : Waits(m2, d, p) => Waits(m3, d, p)
  BY DEF Onward
<1>4. \A d, p \in 1 .. Len(m2.promises), o \in Outcomes :
         Shares(m2, d, p, o) => Shares(m3, d, p, o)
  BY DEF Onward
<1>5. \A q \in 1 .. Len(m2.promises), o \in Outcomes : \A v :
         Promised(m2, q, o, v) => Promised(m3, q, o, v)
  BY DEF Onward
<1> QED
  BY <1>1, <1>2, <1>3, <1>4, <1>5, Zenon DEF Onward

-----------------------------------------------------------------------------
(* The operations on heaps, one by one. *)

\* fulfill_or_reject_promise: the reactions of p move to the jobs.
LEMMA LinkedSettled ==
    ASSUME NEW n \in Nat, NEW k \in Nat, NEW m \in Heaps(n, k), Linked(m),
           NEW m2 \in Heaps(n, k), NEW p \in 1 .. n, NEW v,
           NEW isReject \in BOOLEAN, m.promises[p].state = "pending",
           \A q \in 1 .. n : q # p => m2.promises[q] = m.promises[q],
           \A j \in 1 .. Len(m.jobs) : m2.jobs[j] = m.jobs[j],
           Delivers(m, m2, p, v, isReject), isReject \/ Plain(v),
           PairsStay(m, m2), ClaimsStay(m, m2)
    PROVE  Linked(m2) /\ SlotsFrom(m, m2, {}, {}) /\ Onward(m, m2, {})
<1> DEFINE L == Len(m.jobs)
           rs == m.promises[p].reactions
           F == [x \in Slots(m2) |-> IF x[1] = 0 /\ x[2] > L
                                     THEN <<p, x[2] - L>> ELSE x]
<1>1. /\ Len(m.promises) = n /\ Len(m.pairs) = k /\ L \in Nat
      /\ ReactionsFit(m, n, k) /\ JobsFit(m, n, k)
      /\ Len(m2.promises) = n /\ Len(m2.pairs) = k /\ Len(m2.jobs) \in Nat
  BY LinkedPairs, HeapFields
<1>2. /\ m2.promises[p].state = StateOf(isReject) /\ m2.promises[p].result = v
      /\ m2.promises[p].reactions = <<>>
      /\ Len(m2.jobs) = L + Len(rs) /\ Len(rs) \in Nat
  BY <1>1 DEF Delivers, StateOf, ReactionsFit
\* Where the reaction at a place of m2 was.
<1>3. ASSUME NEW j \in 1 .. Len(m2.jobs), j > L
      PROVE  /\ j - L \in 1 .. Len(rs) /\ <<p, j - L>> \in Slots(m)
             /\ m2.jobs[j].k = "reaction" /\ m2.jobs[j].arg = v
             /\ m2.jobs[j].rej = isReject
             /\ m2.jobs[j].h = IF isReject THEN rs[j - L].onReject
                               ELSE rs[j - L].onFulfil
             /\ m2.jobs[j].cap = rs[j - L].cap
             /\ CapAt(m2, <<0, j>>) = CapAt(m, <<p, j - L>>)
             /\ RelaysAt(m2, <<0, j>>) \subseteq RelaysAt(m, <<p, j - L>>)
  <2>1. /\ j - L \in 1 .. Len(rs) /\ m2.jobs[j].k = "reaction"
        /\ m2.jobs[j].arg = v /\ m2.jobs[j].rej = isReject
        /\ m2.jobs[j].h = IF isReject THEN rs[j - L].onReject
                          ELSE rs[j - L].onFulfil
        /\ m2.jobs[j].cap = rs[j - L].cap
    BY <1>3 DEF Delivers
  <2>2. <<p, j - L>> \in Slots(m)
    BY <1>1, <2>1 DEF ReactionsFit
  <2>3. /\ CapAt(m, <<p, j - L>>) = rs[j - L].cap
        /\ RelaysAt(m, <<p, j - L>>)
             = Relay(rs[j - L].onFulfil) \cup Relay(rs[j - L].onReject)
    <3>1. p # 0
      OBVIOUS
    <3> QED
      BY <3>1 DEF CapAt, RelaysAt
  <2>4. /\ CapAt(m2, <<0, j>>) = m2.jobs[j].cap
        /\ RelaysAt(m2, <<0, j>>) = Relay(m2.jobs[j].h)
    BY JobSlot
  <2> QED
    BY <2>1, <2>2, <2>3, <2>4
<1>4. ASSUME NEW j \in 1 .. L, m2.jobs[j].k = "reaction"
      PROVE  /\ <<0, j>> \in Slots(m) /\ CapAt(m2, <<0, j>>) = CapAt(m, <<0, j>>)
             /\ RelaysAt(m2, <<0, j>>) = RelaysAt(m, <<0, j>>)
  <2>1. m2.jobs[j] = m.jobs[j] /\ <<0, j>> \in Slots(m)
    BY <1>1, <1>4 DEF JobsFit
  <2> QED
    BY <2>1, JobSlot
<1>5. ASSUME NEW q \in 1 .. n, NEW j \in 1 .. Len(m2.promises[q].reactions)
      PROVE  /\ q # p /\ <<q, j>> \in Slots(m)
             /\ CapAt(m2, <<q, j>>) = CapAt(m, <<q, j>>)
             /\ RelaysAt(m2, <<q, j>>) = RelaysAt(m, <<q, j>>)
  <2>1. q # p
    BY <1>2
  <2>2. m2.promises[q] = m.promises[q]
    BY <2>1
  <2> QED
    <3>1. q # 0 /\ <<q, j>> \in Slots(m)
      BY <1>1, <2>2 DEF ReactionsFit
    <3> QED
      BY <2>1, <2>2, <3>1 DEF CapAt, RelaysAt
<1> HIDE DEF rs, L
<1>6. \A x \in Slots(m2) :
         /\ F[x] \in Slots(m) /\ CapAt(m2, x) = CapAt(m, F[x])
         /\ RelaysAt(m2, x) \subseteq RelaysAt(m, F[x])
  <2> SUFFICES ASSUME NEW x \in Slots(m2)
               PROVE  /\ F[x] \in Slots(m) /\ CapAt(m2, x) = CapAt(m, F[x])
                      /\ RelaysAt(m2, x) \subseteq RelaysAt(m, F[x])
    OBVIOUS
  <2>1. CASE \E j \in 1 .. Len(m2.jobs) : x = <<0, j>> /\ m2.jobs[j].k = "reaction"
    <3>1. PICK j \in 1 .. Len(m2.jobs) : x = <<0, j>> /\ m2.jobs[j].k = "reaction"
      BY <2>1
    <3>2. CASE j > L
      <4>1. F[x] = <<p, j - L>>
        BY <3>1, <3>2
      <4> QED
        BY <1>3, <3>1, <3>2, <4>1
    <3>3. CASE ~(j > L)
      <4>1. F[x] = x /\ j \in 1 .. L
        BY <1>1, <3>1, <3>3
      <4> QED
        BY <1>4, <3>1, <4>1
    <3> QED
      BY <3>2, <3>3
  <2>2. CASE \E q \in 1 .. n :
                \E j \in 1 .. Len(m2.promises[q].reactions) : x = <<q, j>>
    <3>1. PICK q \in 1 .. n :
             \E j \in 1 .. Len(m2.promises[q].reactions) : x = <<q, j>>
      BY <2>2
    <3>2. PICK j \in 1 .. Len(m2.promises[q].reactions) : x = <<q, j>>
      BY <3>1
    <3>3. F[x] = x
      BY <3>2
    <3> QED
      BY <1>5, <3>2, <3>3
  <2> QED
    BY <1>1, <2>1, <2>2, SlotCases
<1>7. ASSUME NEW x \in Slots(m2), NEW y \in Slots(m2), F[x] = F[y]
      PROVE  x = y
  <2> DEFINE Old(z, q, j) == z = <<q, j>> /\ q # p /\ F[z] = z
             Queued(z, j) == z = <<0, j>> /\ j \in Nat /\ F[z] = <<p, j - L>>
  <2>1. ASSUME NEW z \in Slots(m2)
        PROVE  \/ \E q, j : Old(z, q, j)
               \/ \E j : Queued(z, j)
    <3>1. CASE \E j \in 1 .. Len(m2.jobs) : z = <<0, j>>
      <4>1. PICK j \in 1 .. Len(m2.jobs) : z = <<0, j>>
        BY <3>1
      <4>2. 0 # p /\ j \in Nat
        BY <1>1
      <4> QED
        BY <4>1, <4>2
    <3>2. CASE \E q \in 1 .. n :
                  \E j \in 1 .. Len(m2.promises[q].reactions) : z = <<q, j>>
      BY <1>5, <3>2
    <3> QED
      BY <1>1, <2>1, <3>1, <3>2, SlotCases
  <2> HIDE DEF F
  <2>2. CASE \E q, j, a, b : Old(x, q, j) /\ Old(y, a, b)
    BY <1>7, <2>2
  <2>3. CASE \E i, j : Queued(x, i) /\ Queued(y, j)
    <3>1. PICK i, j : Queued(x, i) /\ Queued(y, j)
      BY <2>3
    <3>2. i - L = j - L /\ i \in Nat /\ j \in Nat
      BY <1>7, <3>1
    <3> QED
      BY <1>1, <3>1, <3>2
  <2>4. ~\E q, j, i : Old(x, q, j) /\ Queued(y, i)
    BY <1>7
  <2>5. ~\E q, j, i : Old(y, q, j) /\ Queued(x, i)
    BY <1>7
  <2> QED
    BY <2>1, <2>2, <2>3, <2>4, <2>5
<1> HIDE DEF F
<1>8. SlotsFrom(m, m2, {}, {})
  BY <1>6 DEF SlotsFrom
<1>9. Apart(m2)
  <2>1. \A x \in Slots(m2) : F[x] \in Slots(m) /\ Claims(m2, x) \subseteq Claims(m, F[x])
    BY <1>6 DEF Claims
  <2>2. Apart(m)
    BY DEF Linked
  <2>3. \A x, y \in Slots(m2) : F[x] = F[y] => x = y
    BY <1>7
  <2> DEFINE Z == {}
  <2>4. /\ \A x, y \in Z : x = y
        /\ \A x \in Z : \A c \in Claims(m2, x) : Free(m, c)
        /\ Slots(m2) \ Z = Slots(m2)
    OBVIOUS
  <2>5. /\ \A x \in Slots(m2) \ Z :
             F[x] \in Slots(m) /\ Claims(m2, x) \subseteq Claims(m, F[x])
        /\ \A x, y \in Slots(m2) \ Z : F[x] = F[y] => x = y
    BY <2>1, <2>3
  <2> HIDE DEF Z
  <2>6. /\ \A x, y \in Z : x = y
        /\ \A x \in Z : \A c \in Claims(m2, x) : Free(m, c)
    BY <2>4
  <2> QED
    BY ONLY <2>2, <2>5, <2>6, StillApart
<1>10. Owned(m2)
  BY <1>8, StillOwned DEF Linked
<1>11. Regular(m2)
  <2>1. ASSUME NEW q \in 1 .. n
        PROVE  /\ m2.promises[q].state # "pending" => m2.promises[q].reactions = <<>>
               /\ m2.promises[q].state = "fulfilled" => Plain(m2.promises[q].result)
               /\ \A j \in 1 .. Len(m2.promises[q].reactions) :
                    m2.promises[q].reactions[j].onReject.k = "finally" =>
                        m2.promises[q].reactions[j].onReject.i # 0
    <3>1. CASE q = p
      BY <1>2, <3>1 DEF StateOf
    <3>2. CASE q # p
      BY <1>1, <3>2 DEF Linked, Regular
    <3> QED
      BY <3>1, <3>2
  <2>2. ASSUME NEW j \in 1 .. Len(m2.jobs)
        PROVE  /\ m2.jobs[j].k = "thenable" => HasThen(m2.jobs[j].arg)
               /\ m2.jobs[j].k = "reaction" =>
                    IF m2.jobs[j].rej
                    THEN m2.jobs[j].h.k = "finally" => m2.jobs[j].h.i # 0
                    ELSE Plain(m2.jobs[j].arg)
    <3>1. CASE j \in 1 .. L
      BY <3>1 DEF Linked, Regular, L
    <3>2. CASE j > L
      <4>1. \A i \in 1 .. Len(rs) :
               rs[i].onReject.k = "finally" => rs[i].onReject.i # 0
        BY <1>1 DEF Linked, Regular, rs
      <4> QED
        BY <1>3, <3>2, <4>1
    <3> QED
      BY <1>1, <3>1, <3>2
  <2> QED
    BY <1>1, <2>1, <2>2 DEF Regular
<1>12. Onward(m, m2, {})
  <2>1. Keeps(m, m2)
    BY <1>1 DEF Keeps
  <2>2. ASSUME NEW q \in 1 .. n, NEW j \in 1 .. Len(m.promises[q].reactions)
        PROVE  ReactionGoes(m, m2, q, j)
    <3>1. CASE q # p
      BY <1>1, <3>1 DEF ReactionGoes, ReactionsFit
    <3>2. CASE q = p
      <4> DEFINE i == L + j
      <4>1. i \in 1 .. Len(m2.jobs) /\ i > L /\ i - L = j
        BY <1>1, <1>2, <3>2 DEF rs
      <4>2. /\ m2.jobs[i].k = "reaction" /\ m2.jobs[i].arg = v
            /\ m2.jobs[i].rej = isReject /\ m2.jobs[i].cap = rs[j].cap
            /\ m2.jobs[i].h = IF isReject THEN rs[j].onReject ELSE rs[j].onFulfil
        BY <1>3, <4>1
      <4> HIDE DEF i
      <4>3. /\ m2.promises[q].state \in Outcomes
            /\ isReject = (m2.promises[q].state = "rejected")
        BY <1>2, <3>2 DEF StateOf, Outcomes
      <4> QED
        BY <1>2, <3>2, <4>1, <4>2, <4>3 DEF ReactionGoes, rs
    <3> QED
      BY <3>1, <3>2
  <2>3. \A j \in 1 .. Len(m.jobs) :
           \E i \in 1 .. Len(m2.jobs) : m2.jobs[i] = m.jobs[j]
    BY <1>1, <1>2 DEF L
  <2> QED
    BY <2>1, <2>2, <2>3, GoesOn
<1> QED
  BY <1>8, <1>9, <1>10, <1>11, <1>12 DEF Linked

\* A step that leaves the reactions alone: promises without reactions, pairs
\* and jobs that follow an object may come.
LEMMA LinkedSame ==
    ASSUME NEW n \in Nat, NEW k \in Nat, NEW m \in Heaps(n, k), Linked(m),
           NEW n2 \in Nat, NEW k2 \in Nat, NEW m2 \in Heaps(n2, k2), n <= n2,
           \A q \in 1 .. n : /\ m2.promises[q].state = m.promises[q].state
                            /\ m2.promises[q].result = m.promises[q].result
                            /\ m2.promises[q].reactions = m.promises[q].reactions,
           \A q \in 1 .. n2 : q > n => /\ m2.promises[q].state = "pending"
                                      /\ m2.promises[q].reactions = <<>>,
           Len(m.jobs) <= Len(m2.jobs),
           \A j \in 1 .. Len(m.jobs) : m2.jobs[j] = m.jobs[j],
           \A j \in 1 .. Len(m2.jobs) : j > Len(m.jobs) =>
               m2.jobs[j].k = "thenable" /\ HasThen(m2.jobs[j].arg),
           PairsStay(m, m2), ClaimsStay(m, m2)
    PROVE  Linked(m2) /\ SlotsFrom(m, m2, {}, {}) /\ Onward(m, m2, {})
<1>1. /\ Len(m.promises) = n /\ Len(m.pairs) = k /\ Len(m.jobs) \in Nat
      /\ ReactionsFit(m, n, k) /\ JobsFit(m, n, k)
      /\ Len(m2.promises) = n2 /\ Len(m2.pairs) = k2 /\ Len(m2.jobs) \in Nat
  BY LinkedPairs, HeapFields
<1>2. ASSUME NEW q \in 1 .. n2
      PROVE  \/ q \in 1 .. n
             \/ q > n /\ \A j \in 1 .. Len(m2.promises[q].reactions) : FALSE
  BY <1>2
<1>3. ASSUME NEW j \in 1 .. Len(m2.jobs)
      PROVE  \/ j \in 1 .. Len(m.jobs) /\ m2.jobs[j] = m.jobs[j]
             \/ /\ j > Len(m.jobs) /\ m2.jobs[j].k = "thenable"
                /\ HasThen(m2.jobs[j].arg)
  BY <1>1
<1>4. ASSUME NEW x \in Slots(m2)
      PROVE  /\ x \in Slots(m) /\ CapAt(m2, x) = CapAt(m, x)
             /\ RelaysAt(m2, x) = RelaysAt(m, x)
  <2>1. CASE \E j \in 1 .. Len(m2.jobs) : x = <<0, j>> /\ m2.jobs[j].k = "reaction"
    <3>1. PICK j \in 1 .. Len(m2.jobs) : x = <<0, j>> /\ m2.jobs[j].k = "reaction"
      BY <2>1
    <3>2. j \in 1 .. Len(m.jobs) /\ m2.jobs[j] = m.jobs[j]
      BY <1>3, <3>1
    <3> QED
      <4>1. <<0, j>> \in Slots(m)
        BY <1>1, <3>1, <3>2 DEF JobsFit
      <4> QED
        BY <3>1, <3>2, <4>1 DEF CapAt, RelaysAt
  <2>2. CASE \E q \in 1 .. n2 :
                \E j \in 1 .. Len(m2.promises[q].reactions) : x = <<q, j>>
    <3>1. PICK q \in 1 .. n2 :
             \E j \in 1 .. Len(m2.promises[q].reactions) : x = <<q, j>>
      BY <2>2
    <3>2. PICK j \in 1 .. Len(m2.promises[q].reactions) : x = <<q, j>>
      BY <3>1
    <3>3. q \in 1 .. n /\ m2.promises[q].reactions = m.promises[q].reactions /\ q # 0
      BY <1>2
    <3>4. <<q, j>> \in Slots(m)
      BY <1>1, <3>3 DEF ReactionsFit
    <3> QED
      BY <3>2, <3>3, <3>4 DEF CapAt, RelaysAt
  <2> QED
    BY <1>1, <2>1, <2>2, SlotCases
<1>5. SlotsFrom(m, m2, {}, {})
  BY <1>4 DEF SlotsFrom
<1>6. Apart(m2)
  BY <1>4 DEF Linked, Apart, Claims
<1>7. Owned(m2)
  BY <1>5, StillOwned DEF Linked
<1>8. Regular(m2)
  <2>1. ASSUME NEW q \in 1 .. n2
        PROVE  /\ m2.promises[q].state # "pending" => m2.promises[q].reactions = <<>>
               /\ m2.promises[q].state = "fulfilled" => Plain(m2.promises[q].result)
               /\ \A j \in 1 .. Len(m2.promises[q].reactions) :
                    m2.promises[q].reactions[j].onReject.k = "finally" =>
                        m2.promises[q].reactions[j].onReject.i # 0
    <3>1. CASE q \in 1 .. n
      <4>1. /\ m.promises[q].state # "pending" => m.promises[q].reactions = <<>>
            /\ m.promises[q].state = "fulfilled" => Plain(m.promises[q].result)
            /\ \A j \in 1 .. Len(m.promises[q].reactions) :
                 m.promises[q].reactions[j].onReject.k = "finally" =>
                     m.promises[q].reactions[j].onReject.i # 0
        BY <1>1, <3>1 DEF Linked, Regular
      <4> QED
        BY <3>1, <4>1
    <3>2. CASE q > n
      BY <1>2, <3>2
    <3> QED
      BY <1>2, <3>1, <3>2
  <2>2. ASSUME NEW j \in 1 .. Len(m2.jobs)
        PROVE  /\ m2.jobs[j].k = "thenable" => HasThen(m2.jobs[j].arg)
               /\ m2.jobs[j].k = "reaction" =>
                    IF m2.jobs[j].rej
                    THEN m2.jobs[j].h.k = "finally" => m2.jobs[j].h.i # 0
                    ELSE Plain(m2.jobs[j].arg)
    BY <1>3 DEF Linked, Regular
  <2> QED
    BY <1>1, <2>1, <2>2 DEF Regular
<1>9. Onward(m, m2, {})
  <2>1. Keeps(m, m2)
    BY <1>1 DEF Keeps
  <2>2. \A q \in 1 .. n : \A j \in 1 .. Len(m.promises[q].reactions) :
           ReactionGoes(m, m2, q, j)
    BY <1>1 DEF ReactionGoes, ReactionsFit
  <2>3. \A j \in 1 .. Len(m.jobs) :
           \E i \in 1 .. Len(m2.jobs) : m2.jobs[i] = m.jobs[j]
    BY <1>1
  <2> QED
    BY <2>1, <2>2, <2>3, GoesOn
<1> QED
  BY <1>5, <1>6, <1>7, <1>8, <1>9 DEF Linked

\* JS_ExecutePendingJob takes the first job; what it claimed is free.
LEMMA LinkedShifted ==
    ASSUME NEW n \in Nat, NEW k \in Nat, NEW m \in Heaps(n, k), Linked(m),
           NEW k2 \in Nat, NEW m2 \in Heaps(n, k2), m.jobs # <<>>,
           m2.promises = m.promises, m2.jobs = Tail(m.jobs),
           PairsStay(m, m2), ClaimsStay(m, m2)
    PROVE  /\ Linked(m2) /\ SlotsFrom(m, m2, {}, {}) /\ Onward(m, m2, {1})
           /\ m.jobs[1].k = "reaction" =>
                \A c \in Claims(m, <<0, 1>>) : Free(m2, c)
<1> DEFINE F == [x \in Slots(m2) |-> IF x[1] = 0 THEN <<0, x[2] + 1>> ELSE x]
<1>1. /\ Len(m.promises) = n /\ Len(m.pairs) = k /\ Len(m.jobs) \in Nat
      /\ ReactionsFit(m, n, k) /\ JobsFit(m, n, k)
      /\ Len(m2.promises) = n /\ Len(m2.pairs) = k2
      /\ m.jobs \in Seq(JobsOf(n, k))
  BY LinkedPairs, HeapFields
<1>2. /\ Len(m.jobs) >= 1 /\ Len(m2.jobs) = Len(m.jobs) - 1
      /\ \A j \in 1 .. Len(m2.jobs) :
            j + 1 \in 1 .. Len(m.jobs) /\ m2.jobs[j] = m.jobs[j + 1]
  BY <1>1
<1>3. ASSUME NEW j \in 1 .. Len(m2.jobs), m2.jobs[j].k = "reaction"
      PROVE  /\ <<0, j + 1>> \in Slots(m)
             /\ CapAt(m2, <<0, j>>) = CapAt(m, <<0, j + 1>>)
             /\ RelaysAt(m2, <<0, j>>) = RelaysAt(m, <<0, j + 1>>)
  <2>1. m2.jobs[j] = m.jobs[j + 1] /\ <<0, j + 1>> \in Slots(m)
    BY <1>1, <1>2, <1>3 DEF JobsFit
  <2> QED
    BY <2>1 DEF CapAt, RelaysAt
<1>4. ASSUME NEW q \in 1 .. n, NEW j \in 1 .. Len(m2.promises[q].reactions)
      PROVE  /\ q # 0 /\ <<q, j>> \in Slots(m)
             /\ CapAt(m2, <<q, j>>) = CapAt(m, <<q, j>>)
             /\ RelaysAt(m2, <<q, j>>) = RelaysAt(m, <<q, j>>)
  <2>1. q # 0 /\ <<q, j>> \in Slots(m)
    BY <1>1 DEF ReactionsFit
  <2> QED
    BY <2>1 DEF CapAt, RelaysAt
<1> DEFINE Old(z, q, j) == z = <<q, j>> /\ q # 0 /\ F[z] = z
           Queued(z, j) == z = <<0, j>> /\ j \in Nat \ {0} /\ F[z] = <<0, j + 1>>
<1>5. ASSUME NEW x \in Slots(m2)
      PROVE  /\ F[x] \in Slots(m) /\ CapAt(m2, x) = CapAt(m, F[x])
             /\ RelaysAt(m2, x) = RelaysAt(m, F[x])
             /\ (\E q, j : Old(x, q, j)) \/ (\E j : Queued(x, j))
  <2>1. CASE \E j \in 1 .. Len(m2.jobs) : x = <<0, j>> /\ m2.jobs[j].k = "reaction"
    <3>1. PICK j \in 1 .. Len(m2.jobs) : x = <<0, j>> /\ m2.jobs[j].k = "reaction"
      BY <2>1
    <3>2. F[x] = <<0, j + 1>> /\ j \in Nat \ {0}
      BY <1>1, <1>2, <3>1
    <3> QED
      BY <1>3, <3>1, <3>2
  <2>2. CASE \E q \in 1 .. n :
                \E j \in 1 .. Len(m2.promises[q].reactions) : x = <<q, j>>
    <3>1. PICK q \in 1 .. n :
             \E j \in 1 .. Len(m2.promises[q].reactions) : x = <<q, j>>
      BY <2>2
    <3>2. PICK j \in 1 .. Len(m2.promises[q].reactions) : x = <<q, j>>
      BY <3>1
    <3>3. F[x] = x /\ q # 0
      BY <3>2
    <3> QED
      BY <1>4, <3>2, <3>3
  <2> QED
    <3>1. \/ \E j \in 1 .. Len(m2.jobs) : x = <<0, j>> /\ m2.jobs[j].k = "reaction"
          \/ \E q \in 1 .. n :
                \E j \in 1 .. Len(m2.promises[q].reactions) : x = <<q, j>>
      <4>1. Len(m2.promises) = n
        BY <1>1
      <4> HIDE DEF F
      <4> QED
        BY <4>1, SlotCases, Zenon
    <3> QED
      BY <2>1, <2>2, <3>1
<1>6. ASSUME NEW x \in Slots(m2), NEW y \in Slots(m2), F[x] = F[y]
      PROVE  x = y
  <2>1. /\ (\E q, j : Old(x, q, j)) \/ (\E j : Queued(x, j))
        /\ (\E q, j : Old(y, q, j)) \/ (\E j : Queued(y, j))
    BY <1>5
  <2> HIDE DEF F
  <2>2. CASE \E q, j, a, b : Old(x, q, j) /\ Old(y, a, b)
    BY <1>6, <2>2
  <2>3. CASE \E i, j : Queued(x, i) /\ Queued(y, j)
    <3>1. PICK i, j : Queued(x, i) /\ Queued(y, j)
      BY <2>3
    <3>2. i + 1 = j + 1 /\ i \in Nat /\ j \in Nat
      BY <1>6, <3>1
    <3> QED
      BY <3>1, <3>2
  <2>4. ~\E q, j, i : Old(x, q, j) /\ Queued(y, i)
    BY <1>6
  <2>5. ~\E q, j, i : Old(y, q, j) /\ Queued(x, i)
    BY <1>6
  <2> QED
    BY <2>1, <2>2, <2>3, <2>4, <2>5
<1>7. \A x \in Slots(m2) : F[x] # <<0, 1>>
  <2> SUFFICES ASSUME NEW x \in Slots(m2) PROVE F[x] # <<0, 1>>
    OBVIOUS
  <2>1. (\E q, j : Old(x, q, j)) \/ (\E j : Queued(x, j))
    BY <1>5
  <2> HIDE DEF F
  <2>2. \A j \in Nat \ {0} : j + 1 # 1
    OBVIOUS
  <2> QED
    BY <2>1, <2>2
<1> HIDE DEF F, Old, Queued
<1>8. SlotsFrom(m, m2, {}, {})
  BY <1>5 DEF SlotsFrom
<1>9. Apart(m2)
  <2>1. \A x \in Slots(m2) : F[x] \in Slots(m) /\ Claims(m2, x) \subseteq Claims(m, F[x])
    BY <1>5 DEF Claims
  <2>2. Apart(m)
    BY DEF Linked
  <2>3. \A x, y \in Slots(m2) : F[x] = F[y] => x = y
    BY <1>6
  <2> DEFINE Z == {}
  <2>4. /\ \A x, y \in Z : x = y
        /\ \A x \in Z : \A c \in Claims(m2, x) : Free(m, c)
        /\ Slots(m2) \ Z = Slots(m2)
    OBVIOUS
  <2>5. /\ \A x \in Slots(m2) \ Z :
             F[x] \in Slots(m) /\ Claims(m2, x) \subseteq Claims(m, F[x])
        /\ \A x, y \in Slots(m2) \ Z : F[x] = F[y] => x = y
    BY <2>1, <2>3
  <2> HIDE DEF Z
  <2>6. /\ \A x, y \in Z : x = y
        /\ \A x \in Z : \A c \in Claims(m2, x) : Free(m, c)
    BY <2>4
  <2> QED
    BY ONLY <2>2, <2>5, <2>6, StillApart
<1>10. Owned(m2)
  BY <1>8, StillOwned DEF Linked
<1>11. Regular(m2)
  BY <1>2 DEF Linked, Regular
<1>12. Onward(m, m2, {1})
  <2>1. Keeps(m, m2)
    BY DEF Keeps
  <2>2. \A q \in 1 .. n : \A j \in 1 .. Len(m.promises[q].reactions) :
           ReactionGoes(m, m2, q, j)
    BY <1>1 DEF ReactionGoes, ReactionsFit
  <2>3. ASSUME NEW j \in 1 .. Len(m.jobs)
        PROVE  j \in {1} \/ \E i \in 1 .. Len(m2.jobs) : m2.jobs[i] = m.jobs[j]
    <3>1. CASE j # 1
      <4>1. j - 1 \in 1 .. Len(m2.jobs) /\ (j - 1) + 1 = j
        BY <1>1, <1>2, <3>1
      <4> QED
        BY <1>2, <4>1
    <3> QED
      BY <3>1
  <2>4. n <= n
    OBVIOUS
  <2> QED
    BY <2>1, <2>2, <2>3, <2>4, GoesOn
<1>13. ASSUME m.jobs[1].k = "reaction", NEW c \in Claims(m, <<0, 1>>),
              NEW x \in Slots(m2)
       PROVE  c \notin Claims(m2, x)
  <2>1. <<0, 1>> \in Slots(m)
    BY <1>1, <1>2, <1>13 DEF JobsFit
  <2>2. F[x] \in Slots(m) /\ F[x] # <<0, 1>> /\ Claims(m2, x) = Claims(m, F[x])
    BY <1>5, <1>7 DEF Claims
  <2> QED
    BY <2>1, <2>2 DEF Linked, Apart
<1> QED
  BY <1>8, <1>9, <1>10, <1>11, <1>12, <1>13 DEF Linked, Free

\* A reaction is at a new place z; the others are where they were.
LEMMA LinkedMore ==
    ASSUME NEW m, NEW m2, Linked(m), ClaimsStay(m, m2), NEW z,
           NEW cap, NEW R, CapAt(m2, z) = cap, RelaysAt(m2, z) \subseteq R,
           \A c \in {cap} \cup R : Private(m2, c) /\ Free(m, c), cap \notin R,
           \A x \in Slots(m2) : x # z =>
               /\ x \in Slots(m) /\ CapAt(m2, x) = CapAt(m, x)
               /\ RelaysAt(m2, x) = RelaysAt(m, x)
    PROVE  Apart(m2) /\ Owned(m2) /\ SlotsFrom(m, m2, {cap}, R)
<1>1. SlotsFrom(m, m2, {cap}, R)
  BY DEF SlotsFrom
<1>2. Owned(m2)
  <2>1. /\ \A c \in {cap} \cup R : Private(m2, c)
        /\ \A c \in {cap} : c \notin R
    OBVIOUS
  <2> QED
    BY <1>1, <2>1, StillOwned DEF Linked
<1>3. Apart(m2)
  <2> SUFFICES ASSUME NEW x \in Slots(m2), NEW y \in Slots(m2),
                      NEW c \in Claims(m2, x), c \in Claims(m2, y)
               PROVE  x = y
    BY DEF Apart
  <2>1. \A u \in Slots(m2) : u # z => u \in Slots(m) /\ Claims(m2, u) = Claims(m, u)
    BY DEF Claims
  <2>2. \A e \in Claims(m2, z) : \A u \in Slots(m) : e \notin Claims(m, u)
    BY DEF Claims, Free
  <2>3. CASE x # z /\ y # z
    BY <2>1, <2>3 DEF Linked, Apart
  <2>4. CASE x = z \/ y = z
    BY <2>1, <2>2, <2>4
  <2> QED
    BY <2>3, <2>4
<1> QED
  BY <1>1, <1>2, <1>3

\* The regular parts after perform_promise_then.
LEMMA RegularMore ==
    ASSUME NEW n \in Nat, NEW k \in Nat, NEW m \in Heaps(n, k), Linked(m),
           NEW m2 \in Heaps(n, k), NEW p \in 1 .. n,
           NEW onFulfil, NEW onReject, NEW cap,
           Performed(m, m2, p, onFulfil, onReject, cap),
           onReject.k = "finally" => onReject.i # 0
    PROVE  Regular(m2)
<1> DEFINE s == m.promises[p].reactions
           t == m2.promises[p].reactions
<1>1. /\ Len(m.promises) = n /\ Len(m.jobs) \in Nat /\ ReactionsFit(m, n, k)
      /\ Len(m2.promises) = n /\ Len(m2.jobs) \in Nat
      /\ m.jobs \in Seq(JobsOf(n, k)) /\ Regular(m)
      /\ m.promises[p].state \in States
  <2>1. /\ Len(m.promises) = n /\ Len(m.jobs) \in Nat /\ ReactionsFit(m, n, k)
    BY LinkedPairs
  <2>2. /\ Len(m2.promises) = n /\ Len(m2.jobs) \in Nat
        /\ m.jobs \in Seq(JobsOf(n, k))
    BY HeapFields
  <2> QED
    BY <2>1, <2>2 DEF Linked, ReactionsFit
<1>2. /\ \A q \in 1 .. n : q # p => m2.promises[q] = m.promises[q]
      /\ m2.promises[p].state = m.promises[p].state
      /\ m2.promises[p].result = m.promises[p].result
      /\ m.promises[p].state = "pending" =>
            /\ m2.jobs = m.jobs /\ OneMore(s, t)
            /\ t[Len(s) + 1].onReject = onReject
      /\ m.promises[p].state # "pending" =>
            /\ t = s
            /\ \E job : /\ m2.jobs = Append(m.jobs, job) /\ job.k = "reaction"
                        /\ job.h = IF m.promises[p].state = "rejected"
                                   THEN onReject ELSE onFulfil
                        /\ job.arg = m.promises[p].result
                        /\ job.rej = (m.promises[p].state = "rejected")
  BY <1>1 DEF Performed
<1>3. ASSUME NEW q \in 1 .. n
      PROVE  /\ m2.promises[q].state # "pending" => m2.promises[q].reactions = <<>>
             /\ m2.promises[q].state = "fulfilled" => Plain(m2.promises[q].result)
             /\ \A j \in 1 .. Len(m2.promises[q].reactions) :
                  m2.promises[q].reactions[j].onReject.k = "finally" =>
                      m2.promises[q].reactions[j].onReject.i # 0
  <2>1. /\ m.promises[q].state # "pending" => m.promises[q].reactions = <<>>
        /\ m.promises[q].state = "fulfilled" => Plain(m.promises[q].result)
        /\ \A j \in 1 .. Len(m.promises[q].reactions) :
             m.promises[q].reactions[j].onReject.k = "finally" =>
                 m.promises[q].reactions[j].onReject.i # 0
    BY <1>1 DEF Regular
  <2>2. CASE q # p
    BY <1>2, <2>1, <2>2
  <2>3. CASE q = p /\ m.promises[p].state # "pending"
    BY <1>2, <2>1, <2>3
  <2>4. CASE q = p /\ m.promises[p].state = "pending"
    <3>1. \A j \in 1 .. Len(t) : j \in 1 .. Len(s) \/ j = Len(s) + 1
      BY <1>1, <1>2, <2>4 DEF OneMore, ReactionsFit
    <3>2. \A j \in 1 .. Len(s) : t[j] = s[j]
      BY <1>2, <2>4 DEF OneMore
    <3> QED
      BY <1>2, <2>1, <2>4, <3>1, <3>2
  <2> QED
    BY <2>2, <2>3, <2>4
<1>4. ASSUME NEW j \in 1 .. Len(m2.jobs)
      PROVE  /\ m2.jobs[j].k = "thenable" => HasThen(m2.jobs[j].arg)
             /\ m2.jobs[j].k = "reaction" =>
                  IF m2.jobs[j].rej
                  THEN m2.jobs[j].h.k = "finally" => m2.jobs[j].h.i # 0
                  ELSE Plain(m2.jobs[j].arg)
  <2>1. CASE m.promises[p].state = "pending"
    BY <1>1, <1>2, <2>1 DEF Regular
  <2>2. CASE m.promises[p].state # "pending"
    <3>1. PICK job : /\ m2.jobs = Append(m.jobs, job) /\ job.k = "reaction"
                     /\ job.h = IF m.promises[p].state = "rejected"
                                THEN onReject ELSE onFulfil
                     /\ job.arg = m.promises[p].result
                     /\ job.rej = (m.promises[p].state = "rejected")
      BY <1>2, <2>2
    <3>2. \/ j \in 1 .. Len(m.jobs) /\ m2.jobs[j] = m.jobs[j]
          \/ j = Len(m.jobs) + 1 /\ m2.jobs[j] = job
      BY <1>1, <3>1
    <3>3. m.promises[p].state # "rejected" => Plain(m.promises[p].result)
      BY <1>1, <2>2 DEF Regular, States
    <3>4. CASE j \in 1 .. Len(m.jobs) /\ m2.jobs[j] = m.jobs[j]
      BY <1>1, <3>4 DEF Regular
    <3>5. CASE m2.jobs[j] = job
      BY <3>1, <3>3, <3>5
    <3> QED
      BY <3>2, <3>4, <3>5
  <2> QED
    BY <2>1, <2>2
<1> QED
  BY <1>1, <1>3, <1>4 DEF Regular

\* perform_promise_then: one reaction more, as a reaction or as a job.
LEMMA LinkedPerformed ==
    ASSUME NEW n \in Nat, NEW k \in Nat, NEW m \in Heaps(n, k), Linked(m),
           NEW m2 \in Heaps(n, k), NEW p \in 1 .. n,
           NEW onFulfil, NEW onReject, NEW cap,
           Performed(m, m2, p, onFulfil, onReject, cap),
           onReject.k = "finally" => onReject.i # 0,
           Private(m, cap), Free(m, cap),
           \A c \in Relay(onFulfil) \cup Relay(onReject) :
               Private(m, c) /\ Free(m, c) /\ c # cap
    PROVE  /\ Linked(m2) /\ Onward(m, m2, {})
           /\ SlotsFrom(m, m2, {cap}, Relay(onFulfil) \cup Relay(onReject))
<1> DEFINE s == m.promises[p].reactions
           t == m2.promises[p].reactions
           L == Len(m.jobs)
           R == Relay(onFulfil) \cup Relay(onReject)
<1>1. /\ Len(m.promises) = n /\ L \in Nat
      /\ ReactionsFit(m, n, k) /\ JobsFit(m, n, k)
      /\ Len(m2.promises) = n /\ Len(m2.jobs) \in Nat
      /\ m.jobs \in Seq(JobsOf(n, k)) /\ Len(s) \in Nat
  <2>1. /\ Len(m.promises) = n /\ L \in Nat
        /\ ReactionsFit(m, n, k) /\ JobsFit(m, n, k)
    BY LinkedPairs
  <2>2. /\ Len(m2.promises) = n /\ Len(m2.jobs) \in Nat
        /\ m.jobs \in Seq(JobsOf(n, k))
    BY HeapFields
  <2> QED
    BY <2>1, <2>2 DEF ReactionsFit
<1>2. /\ \A q \in 1 .. n : q # p => m2.promises[q] = m.promises[q]
      /\ m2.promises[p].state = m.promises[p].state
      /\ m2.promises[p].result = m.promises[p].result /\ m2.pairs = m.pairs
  BY <1>1 DEF Performed
<1>3. /\ ClaimsStay(m, m2) /\ PairsStay(m, m2)
      /\ \A c \in {cap} \cup R : Private(m2, c) /\ Free(m, c)
      /\ cap \notin R
  BY <1>2 DEF ClaimsStay, PairsStay, Private
<1>4. Regular(m2)
  BY RegularMore
<1>5. Keeps(m, m2)
  BY <1>1, <1>2 DEF Keeps
<1> HIDE DEF R, s, t, L
<1>6. CASE m.promises[p].state = "pending"
  <2> DEFINE z == <<p, Len(s) + 1>>
  <2>1. /\ m2.jobs = m.jobs /\ OneMore(s, t)
        /\ t[Len(s) + 1].onFulfil = onFulfil /\ t[Len(s) + 1].onReject = onReject
        /\ t[Len(s) + 1].cap = cap
    BY <1>6 DEF Performed, s, t
  <2>2. CapAt(m2, z) = cap /\ RelaysAt(m2, z) \subseteq R
    BY <2>1 DEF CapAt, RelaysAt, t, R
  <2>3. ASSUME NEW x \in Slots(m2), x # z
        PROVE  /\ x \in Slots(m) /\ CapAt(m2, x) = CapAt(m, x)
               /\ RelaysAt(m2, x) = RelaysAt(m, x)
    <3>1. CASE \E j \in 1 .. Len(m2.jobs) : x = <<0, j>> /\ m2.jobs[j].k = "reaction"
      <4>1. PICK j \in 1 .. Len(m2.jobs) : x = <<0, j>> /\ m2.jobs[j].k = "reaction"
        BY <3>1
      <4>2. <<0, j>> \in Slots(m)
        BY <1>1, <2>1, <4>1 DEF JobsFit, L
      <4> QED
        BY <2>1, <4>1, <4>2 DEF CapAt, RelaysAt
    <3>2. CASE \E q \in 1 .. n :
                  \E j \in 1 .. Len(m2.promises[q].reactions) : x = <<q, j>>
      <4>1. PICK q \in 1 .. n :
               \E j \in 1 .. Len(m2.promises[q].reactions) : x = <<q, j>>
        BY <3>2
      <4>2. PICK j \in 1 .. Len(m2.promises[q].reactions) : x = <<q, j>>
        BY <4>1
      <4>3. /\ j \in 1 .. Len(m.promises[q].reactions) /\ q # 0
            /\ m2.promises[q].reactions[j] = m.promises[q].reactions[j]
        <5>1. CASE q # p
          BY <1>2, <5>1
        <5>2. CASE q = p
          <6>1. j # Len(s) + 1 /\ j \in 1 .. Len(t)
            BY <2>3, <4>2, <5>2 DEF t
          <6> QED
            BY <1>1, <2>1, <5>2, <6>1 DEF OneMore, s, t
        <5> QED
          BY <5>1, <5>2
      <4>4. <<q, j>> \in Slots(m)
        BY <1>1, <4>3 DEF ReactionsFit
      <4> QED
        BY <4>2, <4>3, <4>4 DEF CapAt, RelaysAt
    <3>3. \/ \E j \in 1 .. Len(m2.jobs) : x = <<0, j>> /\ m2.jobs[j].k = "reaction"
          \/ \E q \in 1 .. n :
                \E j \in 1 .. Len(m2.promises[q].reactions) : x = <<q, j>>
      <4>1. Len(m2.promises) = n
        BY <1>1
      <4> QED
        BY <4>1, SlotCases, Zenon
    <3> QED
      BY <3>1, <3>2, <3>3
  <2> HIDE DEF z
  <2>4. Apart(m2) /\ Owned(m2) /\ SlotsFrom(m, m2, {cap}, R)
    BY <1>3, <2>2, <2>3, LinkedMore
  <2>5. ASSUME NEW q \in 1 .. n, NEW j \in 1 .. Len(m.promises[q].reactions)
        PROVE  ReactionGoes(m, m2, q, j)
    <3>1. m.promises[q].state = "pending" /\ m2.promises[q].state = "pending"
      BY <1>1, <1>2, <1>6 DEF ReactionsFit
    <3>2. /\ j \in 1 .. Len(m2.promises[q].reactions)
          /\ m2.promises[q].reactions[j] = m.promises[q].reactions[j]
      <4>1. CASE q # p
        BY <1>2, <4>1
      <4>2. CASE q = p
        BY <1>1, <2>1, <4>2 DEF OneMore, s, t
      <4> QED
        BY <4>1, <4>2
    <3> QED
      BY <3>1, <3>2 DEF ReactionGoes
  <2>6. /\ \A j \in 1 .. Len(m.jobs) :
             \E i \in 1 .. Len(m2.jobs) : m2.jobs[i] = m.jobs[j]
        /\ n <= n
    BY <2>1
  <2>7. Onward(m, m2, {})
    BY <1>3, <1>5, <2>5, <2>6, GoesOn
  <2> QED
    BY <1>4, <2>4, <2>7 DEF Linked, R
<1>7. CASE m.promises[p].state # "pending"
  <2> DEFINE z == <<0, L + 1>>
  <2>1. /\ t = s
        /\ \E job : /\ m2.jobs = Append(m.jobs, job) /\ job.k = "reaction"
                    /\ job.h \in {onFulfil, onReject} /\ job.cap = cap
    BY <1>7 DEF Performed, s, t
  <2>2. PICK job : /\ m2.jobs = Append(m.jobs, job) /\ job.k = "reaction"
                   /\ job.h \in {onFulfil, onReject} /\ job.cap = cap
    BY <2>1
  <2>3. /\ Len(m2.jobs) = L + 1 /\ m2.jobs[L + 1] = job
        /\ \A j \in 1 .. L : m2.jobs[j] = m.jobs[j]
    BY <1>1, <2>2 DEF L
  <2>4. CapAt(m2, z) = cap /\ RelaysAt(m2, z) \subseteq R
    BY <2>2, <2>3 DEF CapAt, RelaysAt, R
  <2>5. ASSUME NEW x \in Slots(m2), x # z
        PROVE  /\ x \in Slots(m) /\ CapAt(m2, x) = CapAt(m, x)
               /\ RelaysAt(m2, x) = RelaysAt(m, x)
    <3>1. CASE \E j \in 1 .. Len(m2.jobs) : x = <<0, j>> /\ m2.jobs[j].k = "reaction"
      <4>1. PICK j \in 1 .. Len(m2.jobs) : x = <<0, j>> /\ m2.jobs[j].k = "reaction"
        BY <3>1
      <4>2. j \in 1 .. L /\ m2.jobs[j] = m.jobs[j]
        BY <1>1, <2>3, <2>5, <4>1
      <4>3. <<0, j>> \in Slots(m)
        BY <1>1, <4>1, <4>2 DEF JobsFit, L
      <4> QED
        BY <4>1, <4>2, <4>3 DEF CapAt, RelaysAt
    <3>2. CASE \E q \in 1 .. n :
                  \E j \in 1 .. Len(m2.promises[q].reactions) : x = <<q, j>>
      <4>1. PICK q \in 1 .. n :
               \E j \in 1 .. Len(m2.promises[q].reactions) : x = <<q, j>>
        BY <3>2
      <4>2. PICK j \in 1 .. Len(m2.promises[q].reactions) : x = <<q, j>>
        BY <4>1
      <4>3. m2.promises[q].reactions = m.promises[q].reactions /\ q # 0
        BY <1>2, <2>1 DEF s, t
      <4>4. <<q, j>> \in Slots(m)
        BY <1>1, <4>3 DEF ReactionsFit
      <4> QED
        BY <4>2, <4>3, <4>4 DEF CapAt, RelaysAt
    <3>3. \/ \E j \in 1 .. Len(m2.jobs) : x = <<0, j>> /\ m2.jobs[j].k = "reaction"
          \/ \E q \in 1 .. n :
                \E j \in 1 .. Len(m2.promises[q].reactions) : x = <<q, j>>
      <4>1. Len(m2.promises) = n
        BY <1>1
      <4> QED
        BY <4>1, SlotCases, Zenon
    <3> QED
      BY <3>1, <3>2, <3>3
  <2> HIDE DEF z
  <2>6. Apart(m2) /\ Owned(m2) /\ SlotsFrom(m, m2, {cap}, R)
    BY <1>3, <2>4, <2>5, LinkedMore
  <2>7. ASSUME NEW q \in 1 .. n, NEW j \in 1 .. Len(m.promises[q].reactions)
        PROVE  ReactionGoes(m, m2, q, j)
    <3>1. m.promises[q].state = "pending"
      BY <1>1 DEF ReactionsFit
    <3>2. m2.promises[q] = m.promises[q]
      BY <1>2, <1>7, <3>1
    <3> QED
      BY <3>1, <3>2 DEF ReactionGoes
  <2>8. /\ \A j \in 1 .. Len(m.jobs) :
             \E i \in 1 .. Len(m2.jobs) : m2.jobs[i] = m.jobs[j]
        /\ n <= n
    BY <1>1, <2>3 DEF L
  <2>9. Onward(m, m2, {})
    BY <1>3, <1>5, <2>7, <2>8, GoesOn
  <2> QED
    BY <1>4, <2>6, <2>9 DEF Linked, R
<1> QED
  BY <1>6, <1>7

\* The new reaction is still to run, and passes on what its handlers say.
LEMMA PerformedCarries ==
    ASSUME NEW n \in Nat, NEW k \in Nat, NEW m \in Heaps(n, k),
           NEW m2 \in Heaps(n, k), NEW p \in 1 .. n,
           NEW onFulfil, NEW onReject, NEW cap \in 1 .. k,
           Performed(m, m2, p, onFulfil, onReject, cap)
    PROVE  /\ Waits(m2, m.pairs[cap].promise, p)
           /\ \A d : \A o \in Outcomes :
                PassesOn(m, IF o = "rejected" THEN onReject ELSE onFulfil, cap, d, o)
                    => Shares(m2, d, p, o)
           /\ \A o \in Outcomes : \A v :
                /\ m.promises[p].state = "fulfilled"
                /\ onFulfil.k = IF o = "rejected" THEN "thrower" ELSE "thunk"
                /\ onFulfil.v = v /\ (o = "fulfilled" => Plain(v))
                => Promised(m2, m.pairs[cap].promise, o, v)
<1> DEFINE s == m.promises[p].reactions
           t == m2.promises[p].reactions
           L == Len(m.jobs)
<1>1. /\ L \in Nat /\ m.jobs \in Seq(JobsOf(n, k)) /\ Len(s) \in Nat
      /\ m.promises[p].state \in {"pending", "fulfilled", "rejected"}
  <2>1. L \in Nat /\ m.jobs \in Seq(JobsOf(n, k)) /\ m.promises[p] \in PromisesOf(n, k)
    BY HeapFields
  <2> QED
    BY <2>1 DEF PromisesOf, States
<1>2. /\ m2.promises[p].state = m.promises[p].state
      /\ m2.promises[p].result = m.promises[p].result /\ m2.pairs = m.pairs
  BY DEF Performed
<1>3. CASE m.promises[p].state = "pending"
  <2> DEFINE i == Len(s) + 1
  <2>1. /\ i \in 1 .. Len(t) /\ t[i].onFulfil = onFulfil
        /\ t[i].onReject = onReject /\ t[i].cap = cap
    BY <1>1, <1>3 DEF Performed, OneMore
  <2> HIDE DEF i
  <2>2. Waits(m2, m.pairs[cap].promise, p)
    BY <1>2, <2>1 DEF Waits
  <2>3. ASSUME NEW d, NEW o \in Outcomes,
               PassesOn(m, IF o = "rejected" THEN onReject ELSE onFulfil, cap, d, o)
        PROVE  Shares(m2, d, p, o)
    <3>1. PassesOn(m2, IF o = "rejected" THEN onReject ELSE onFulfil, cap, d, o)
      BY <1>2, <2>3 DEF PassesOn
    <3>2. ByReaction(m2, d, p, o)
      BY <1>2, <1>3, <2>1, <3>1 DEF ByReaction
    <3> QED
      BY <3>2 DEF Shares
  <2> QED
    BY <1>3, <2>2, <2>3
<1>4. CASE m.promises[p].state # "pending"
  <2>1. PICK job : /\ m2.jobs = Append(m.jobs, job) /\ job.k = "reaction"
                   /\ job.h = IF m.promises[p].state = "rejected"
                              THEN onReject ELSE onFulfil
                   /\ job.arg = m.promises[p].result /\ job.cap = cap
                   /\ job.rej = (m.promises[p].state = "rejected")
    BY <1>4 DEF Performed
  <2> DEFINE i == L + 1
  <2>2. i \in 1 .. Len(m2.jobs) /\ m2.jobs[i] = job
    BY <1>1, <2>1
  <2> HIDE DEF i
  <2>3. Waits(m2, m.pairs[cap].promise, p)
    BY <1>2, <2>1, <2>2 DEF Waits
  <2>4. ASSUME NEW d, NEW o \in Outcomes,
               PassesOn(m, IF o = "rejected" THEN onReject ELSE onFulfil, cap, d, o)
        PROVE  Shares(m2, d, p, o)
    <3>1. CASE m.promises[p].state = o
      <4>1. PassesOn(m2, job.h, cap, d, o)
        BY <1>2, <2>1, <2>4, <3>1 DEF PassesOn
      <4>2. ByJob(m2, i, d, p, o)
        BY <1>2, <2>1, <2>2, <3>1, <4>1 DEF ByJob
      <4> QED
        BY <2>2, <4>2 DEF Shares
    <3>2. CASE m.promises[p].state # o
      BY <1>2, <1>4, <3>2 DEF Shares, Same
    <3> QED
      BY <3>1, <3>2
  <2>5. ASSUME NEW o \in Outcomes, NEW v, m.promises[p].state = "fulfilled",
               onFulfil.k = IF o = "rejected" THEN "thrower" ELSE "thunk",
               onFulfil.v = v, o = "fulfilled" => Plain(v)
        PROVE  Promised(m2, m.pairs[cap].promise, o, v)
    <3>1. ByFinally(m2, i, m.pairs[cap].promise, o, v)
      BY <1>2, <2>1, <2>2, <2>5 DEF ByFinally
    <3> QED
      BY <2>2, <3>1 DEF Promised
  <2> QED
    BY <2>3, <2>4, <2>5
<1> QED
  BY <1>3, <1>4

-----------------------------------------------------------------------------
(* What the operations do to what is on its way. *)

\* Nothing is lost except with the jobs in gone; new reactions claim the pairs
\* in C and R, and only pairs in U change.
Advances(m, m2, gone, C, R, U) ==
    /\ Linked(m2) /\ Onward(m, m2, gone) /\ SlotsFrom(m, m2, C, R)
    /\ PairsStay(m, m2)
    /\ \A c \in 1 .. Len(m.pairs) : c \in U \/ m2.pairs[c] = m.pairs[c]

\* Where nothing happens, reactions stay.
LEMMA SlotsStay == ASSUME NEW m PROVE SlotsFrom(m, m, {}, {})
BY DEF SlotsFrom

\* Where nothing happens, nothing is lost.
LEMMA AdvancesItself ==
    ASSUME NEW m, Linked(m), NEW U
    PROVE  Advances(m, m, {}, {}, {}, U)
<1>1. Onward(m, m, {}) /\ PairsStay(m, m)
  BY DEF Onward, Keeps, PairsStay
<1> QED
  BY <1>1, SlotsStay DEF Advances

\* One operation after another.
LEMMA AdvancesThrough ==
    ASSUME NEW n \in Nat, NEW n2 \in Nat, n <= n2, NEW k \in Nat, NEW k2 \in Nat,
           NEW m1 \in Heaps(n, k), NEW m2 \in Heaps(n2, k2), NEW m3, NEW gone,
           NEW C, NEW R, NEW U, NEW C2, NEW R2, NEW U2,
           Advances(m1, m2, gone, C, R, U), Advances(m2, m3, {}, C2, R2, U2)
    PROVE  Advances(m1, m3, gone, C \cup C2, R \cup R2, U \cup U2)
<1>1. Len(m1.promises) = n /\ Len(m2.promises) = n2
  BY HeapFields
<1>2. Onward(m1, m3, gone)
  BY <1>1, OnwardThrough DEF Advances
<1>3. SlotsFrom(m1, m3, C \cup C2, R \cup R2)
  BY FromThrough DEF Advances
<1>4. \A c \in 1 .. Len(m1.pairs) :
         /\ c \in 1 .. Len(m2.pairs) /\ c \in 1 .. Len(m3.pairs)
         /\ m3.pairs[c].promise = m1.pairs[c].promise
         /\ m3.pairs[c].exposed = m1.pairs[c].exposed
  BY DEF Advances, PairsStay
<1>5. PairsStay(m1, m3)
  BY <1>4 DEF PairsStay
<1>6. \A c \in 1 .. Len(m1.pairs) : c \in U \cup U2 \/ m3.pairs[c] = m1.pairs[c]
  BY <1>4 DEF Advances
<1> QED
  BY <1>2, <1>3, <1>5, <1>6 DEF Advances

\* A pair that keeps its functions for itself.
LEMMA PrivateStill ==
    ASSUME NEW m, NEW m2, PairsStay(m, m2), NEW c, Private(m, c),
           m2.pairs[c] = m.pairs[c]
    PROVE  Private(m2, c)
BY DEF PairsStay, Private

\* Marking a pair that no reaction claims.
LEMMA MarkGoes ==
    ASSUME NEW n \in Nat, NEW k \in Nat, NEW m \in Heaps(n, k), Linked(m),
           NEW i \in 1 .. k, Free(m, i)
    PROVE  Advances(m, Marked(m, i), {}, {}, {}, {i})
<1> DEFINE m1 == Marked(m, i)
<1>1. /\ m1 \in Heaps(n, k) /\ m1.promises = m.promises /\ m1.jobs = m.jobs
      /\ \A a \in 1 .. k : m1.pairs[a].promise = m.pairs[a].promise
      /\ m1.pairs[i].exposed = m.pairs[i].exposed
      /\ \A a \in 1 .. k : a # i => m1.pairs[a] = m.pairs[a]
  BY MarkedPair
<1> HIDE DEF m1
<1>2. Len(m.pairs) = k /\ Len(m1.pairs) = k /\ Len(m.jobs) \in Nat
      /\ Len(m.promises) = n
  BY <1>1, HeapFields
<1>3. PairsStay(m, m1)
  BY <1>1, <1>2 DEF PairsStay
<1>4. ClaimsStay(m, m1)
  <2> SUFFICES ASSUME NEW c, ~Free(m, c), Private(m, c) PROVE Private(m1, c)
    BY DEF ClaimsStay
  <2>1. c # i /\ c \in 1 .. k
    BY <1>2 DEF Private
  <2> QED
    BY <1>1, <1>3, <2>1, PrivateStill
<1>5. Linked(m1) /\ SlotsFrom(m, m1, {}, {}) /\ Onward(m, m1, {})
  <2>1. /\ \A j \in 1 .. Len(m.jobs) : m1.jobs[j] = m.jobs[j]
        /\ \A j \in 1 .. Len(m1.jobs) : j > Len(m.jobs) =>
             m1.jobs[j].k = "thenable" /\ HasThen(m1.jobs[j].arg)
        /\ Len(m.jobs) <= Len(m1.jobs)
    BY <1>1, <1>2
  <2>2. /\ \A q \in 1 .. n : /\ m1.promises[q].state = m.promises[q].state
                            /\ m1.promises[q].result = m.promises[q].result
                            /\ m1.promises[q].reactions = m.promises[q].reactions
        /\ \A q \in 1 .. n : q > n => /\ m1.promises[q].state = "pending"
                                     /\ m1.promises[q].reactions = <<>>
    BY <1>1
  <2> QED
    BY <1>1, <1>3, <1>4, <2>1, <2>2, LinkedSame
<1>6. \A c \in 1 .. Len(m.pairs) : c \in {i} \/ m1.pairs[c] = m.pairs[c]
  BY <1>1, <1>2
<1> QED
  BY <1>3, <1>5, <1>6 DEF Advances, m1

\* What resolving or rejecting promise d with v has led to.
Ends(m, d, isReject, v) ==
    m.promises[d].state = StateOf(isReject) /\ m.promises[d].result = v
Resolved(m, d, isReject, v) ==
    /\ isReject \/ Plain(v) => Ends(m, d, isReject, v)
    /\ ~isReject /\ v.t = "promise" /\ v.n # d =>
         \E j \in 1 .. Len(m.jobs) : ByFollowing(m, j, d, v.n)

\* fulfill_or_reject_promise.
LEMMA SettleGoes ==
    ASSUME NEW n \in Nat, NEW k \in Nat, NEW m, Sound(m, n, k), Linked(m),
           NEW i \in 1 .. k, Free(m, i), ~m.pairs[i].already,
           NEW v \in ValuesOf(n), NEW isReject \in BOOLEAN, isReject \/ Plain(v)
    PROVE  LET p == m.pairs[i].promise
               m2 == Settle(Marked(m, i), p, v, isReject)
           IN /\ Advances(m, m2, {}, {}, {}, {i})
              /\ Ends(m2, p, isReject, v)
<1> DEFINE m1 == Marked(m, i)
           p == m.pairs[i].promise
           m2 == Settle(m1, p, v, isReject)
<1>1. m \in Heaps(n, k) /\ OneWay(m) /\ i \in Unused(m)
  <2>1. m \in Heaps(n, k) /\ OneWay(m)
    BY DEF Sound
  <2> QED
    BY <2>1, HeapFields DEF Unused
<1>2. Advances(m, m1, {}, {}, {}, {i})
  BY <1>1, MarkGoes
<1>3. m1 \in Heaps(n, k) /\ m1.promises = m.promises
  BY <1>1, MarkedPair
<1>4. p \in 1 .. n /\ m.promises[p].state = "pending"
  BY <1>1, WayTargets DEF OneWay, OnlyPending
<1> HIDE DEF m1, p
<1>5. /\ m2 \in Heaps(n, k) /\ m2.pairs = m1.pairs
      /\ m2.promises = [m1.promises EXCEPT ![p] = m2.promises[p]]
      /\ \A j \in 1 .. Len(m1.jobs) : m2.jobs[j] = m1.jobs[j]
      /\ Delivers(m1, m2, p, v, isReject)
  BY <1>3, <1>4, SettleFields
<1> HIDE DEF m2
<1>6. \A q \in 1 .. n : q # p => m2.promises[q] = m1.promises[q]
  <2>1. Len(m1.promises) = n /\ m1.promises \in Seq(PromisesOf(n, k))
    BY <1>3, HeapFields
  <2> QED
    BY <1>5, <2>1
<1>7. PairsStay(m1, m2) /\ ClaimsStay(m1, m2)
  BY <1>5 DEF PairsStay, ClaimsStay, Private
<1>8. Linked(m2) /\ SlotsFrom(m1, m2, {}, {}) /\ Onward(m1, m2, {})
  <2>1. Linked(m1) /\ m1.promises[p].state = "pending"
    BY <1>2, <1>3, <1>4 DEF Advances
  <2> QED
    BY <1>3, <1>4, <1>5, <1>6, <1>7, <2>1, LinkedSettled
<1>9. Advances(m1, m2, {}, {}, {}, {})
  BY <1>5, <1>7, <1>8 DEF Advances
<1>10. Advances(m, m2, {}, {}, {}, {i})
  <2>1. Advances(m, m2, {}, {} \cup {}, {} \cup {}, {i} \cup {})
    BY <1>1, <1>2, <1>3, <1>9, AdvancesThrough
  <2>2. {} \cup {} = {} /\ {i} \cup {} = {i}
    OBVIOUS
  <2> QED
    BY <2>1, <2>2
<1>11. Ends(m2, p, isReject, v)
  BY <1>5 DEF Delivers, StateOf, Ends
<1> QED
  BY <1>10, <1>11 DEF m2, m1, p

\* A job that will follow an object with a then method.
WithFollower(m, p, v) == [m EXCEPT !.jobs = Append(@, ThenableJob(p, v))]

\* js_promise_resolve_function_call with a thenable: a job will follow it.
LEMMA FollowGoes ==
    ASSUME NEW n \in Nat, NEW k \in Nat, NEW m, Sound(m, n, k), Linked(m),
           NEW i \in 1 .. k, Free(m, i), ~m.pairs[i].already,
           NEW v \in ValuesOf(n), HasThen(v)
    PROVE  LET p == m.pairs[i].promise
               m2 == WithFollower(Marked(m, i), p, v)
           IN /\ Advances(m, m2, {}, {}, {}, {i})
              /\ v.t = "promise" =>
                   \E j \in 1 .. Len(m2.jobs) : ByFollowing(m2, j, p, v.n)
<1> DEFINE m1 == Marked(m, i)
           p == m.pairs[i].promise
           job == ThenableJob(p, v)
           jobs == Append(m1.jobs, job)
           m2 == WithFollower(m1, p, v)
<1>1. m \in Heaps(n, k) /\ OneWay(m) /\ i \in Unused(m)
  <2>1. m \in Heaps(n, k) /\ OneWay(m)
    BY DEF Sound
  <2> QED
    BY <2>1, HeapFields DEF Unused
<1>2. Advances(m, m1, {}, {}, {}, {i})
  BY <1>1, MarkGoes
<1>3. m1 \in Heaps(n, k)
  BY <1>1, MarkedPair
<1>4. p \in 1 .. n
  BY <1>1, WayTargets
<1>5. /\ job \in JobsOf(n, k) /\ job.k = "thenable" /\ job.cap = p /\ job.arg = v
  BY <1>4 DEF ThenableJob, JobsOf, NoHandler, Handler, HandlersOf, Undefined,
              Val, ValuesOf, Values, Kinds, AllHandlers, HandlerKinds
<1>6. m2 = [m1 EXCEPT !.jobs = jobs]
  BY DEF WithFollower
<1> HIDE DEF m1, p, job, m2
<1>7. /\ Len(m1.jobs) \in Nat /\ jobs \in Seq(JobsOf(n, k))
      /\ Len(jobs) = Len(m1.jobs) + 1 /\ jobs[Len(m1.jobs) + 1] = job
      /\ \A j \in 1 .. Len(m1.jobs) : jobs[j] = m1.jobs[j]
  <2>1. m1.jobs \in Seq(JobsOf(n, k))
    BY <1>3, HeapFields
  <2> QED
    BY <1>5, <2>1
<1> HIDE DEF jobs
<1>8. /\ m2 \in Heaps(n, k) /\ m2.jobs = jobs
      /\ m2.promises = m1.promises /\ m2.pairs = m1.pairs
  BY <1>3, <1>6, <1>7, WithJobs
<1>9. PairsStay(m1, m2) /\ ClaimsStay(m1, m2)
  BY <1>8 DEF PairsStay, ClaimsStay, Private
<1>10. Linked(m2) /\ SlotsFrom(m1, m2, {}, {}) /\ Onward(m1, m2, {})
  <2>1. /\ \A j \in 1 .. Len(m1.jobs) : m2.jobs[j] = m1.jobs[j]
        /\ \A j \in 1 .. Len(m2.jobs) : j > Len(m1.jobs) =>
             m2.jobs[j].k = "thenable" /\ HasThen(m2.jobs[j].arg)
        /\ Len(m1.jobs) <= Len(m2.jobs)
    <3>1. \A j \in 1 .. Len(jobs) : j > Len(m1.jobs) => j = Len(m1.jobs) + 1
      BY <1>7
    <3> QED
      BY <1>5, <1>7, <1>8, <3>1
  <2>2. /\ \A q \in 1 .. n : /\ m2.promises[q].state = m1.promises[q].state
                            /\ m2.promises[q].result = m1.promises[q].result
                            /\ m2.promises[q].reactions = m1.promises[q].reactions
        /\ \A q \in 1 .. n : q > n => /\ m2.promises[q].state = "pending"
                                     /\ m2.promises[q].reactions = <<>>
    BY <1>8
  <2>3. Linked(m1)
    BY <1>2 DEF Advances
  <2> QED
    BY <1>3, <1>8, <1>9, <2>1, <2>2, <2>3, LinkedSame
<1>11. Advances(m1, m2, {}, {}, {}, {})
  BY <1>8, <1>9, <1>10 DEF Advances
<1>12. Advances(m, m2, {}, {}, {}, {i})
  <2>1. Advances(m, m2, {}, {} \cup {}, {} \cup {}, {i} \cup {})
    BY <1>1, <1>2, <1>3, <1>11, AdvancesThrough
  <2>2. {} \cup {} = {} /\ {i} \cup {} = {i}
    OBVIOUS
  <2> QED
    BY <2>1, <2>2
<1>13. ASSUME v.t = "promise"
       PROVE  \E j \in 1 .. Len(m2.jobs) : ByFollowing(m2, j, p, v.n)
  <2> DEFINE j == Len(m1.jobs) + 1
  <2>1. j \in 1 .. Len(m2.jobs) /\ m2.jobs[j] = job
    BY <1>7, <1>8
  <2>2. v = PromiseVal(v.n)
    BY <1>13 DEF ValuesOf, Values, PromiseVal, Val
  <2> HIDE DEF j
  <2>3. ByFollowing(m2, j, p, v.n)
    BY <1>5, <2>1, <2>2 DEF ByFollowing
  <2> QED
    BY <2>1, <2>3
<1> QED
  BY <1>12, <1>13 DEF m2, m1, p

\* js_promise_resolve_function_call of a pair that no reaction claims.
LEMMA CallGoes ==
    ASSUME NEW n \in Nat, NEW k \in Nat, NEW m, Sound(m, n, k), Linked(m),
           NEW i \in 1 .. k, Free(m, i),
           NEW isReject \in BOOLEAN, NEW v \in ValuesOf(n)
    PROVE  LET m2 == CallResolvingFunction(m, i, isReject, v)
           IN /\ Advances(m, m2, {}, {}, {}, {i})
              /\ ~m.pairs[i].already =>
                   Resolved(m2, m.pairs[i].promise, isReject, v)
<1> DEFINE m1 == Marked(m, i)
           p == m.pairs[i].promise
           m2 == CallResolvingFunction(m, i, isReject, v)
<1>1. CASE m.pairs[i].already
  <2>1. m2 = m
    BY <1>1 DEF CallResolvingFunction
  <2> QED
    BY <1>1, <2>1, AdvancesItself
<1>2. CASE ~m.pairs[i].already
  <2>0. m2 = IF isReject \/ ~IsObject(v) THEN Settle(m1, p, v, isReject)
             ELSE IF v = PromiseVal(p) \/ v.t = "getter"
                  THEN Settle(m1, p, Error, TRUE)
             ELSE IF ~HasThen(v) THEN Settle(m1, p, v, FALSE)
             ELSE WithFollower(m1, p, v)
    BY <1>2, Zenon DEF CallResolvingFunction, Marked, WithFollower
  <2>1. v.t \in Kinds /\ Error \in ValuesOf(n)
    BY OwnValues DEF ValuesOf, Values
  <2>2. CASE isReject \/ ~IsObject(v)
    <3>1. m2 = Settle(m1, p, v, isReject)
      BY <2>0, <2>2
    <3>2. isReject \/ Plain(v)
      BY <2>2 DEF IsObject, Plain
    <3>3. /\ Advances(m, m2, {}, {}, {}, {i})
          /\ Ends(m2, p, isReject, v)
      <4>1. LET x == Settle(m1, p, v, isReject)
            IN /\ Advances(m, x, {}, {}, {}, {i})
               /\ Ends(x, p, isReject, v)
        BY <1>2, <3>2, SettleGoes, Zenon
      <4> QED
        BY <3>1, <4>1, Zenon
    <3>4. isReject \/ v.t # "promise"
      BY <2>2 DEF IsObject
    <3> QED
      BY <3>3, <3>4 DEF Resolved
  <2>3. CASE ~isReject /\ IsObject(v) /\ (v = PromiseVal(p) \/ v.t = "getter")
    <3>1. m2 = Settle(m1, p, Error, TRUE)
      BY <2>0, <2>3
    <3>2. Advances(m, m2, {}, {}, {}, {i})
      <4>1. Advances(m, Settle(m1, p, Error, TRUE), {}, {}, {}, {i})
        <5>1. TRUE \in BOOLEAN /\ (TRUE \/ Plain(Error))
          OBVIOUS
        <5> QED
          BY <1>2, <2>1, <5>1, SettleGoes, Zenon
      <4> QED
        BY <3>1, <4>1, Zenon
    <3>3. ~Plain(v) /\ (v.t # "promise" \/ v.n = p)
      BY <2>3 DEF Plain, PromiseVal, Val
    <3> QED
      BY <2>3, <3>2, <3>3 DEF Resolved
  <2>4. CASE /\ ~isReject /\ IsObject(v) /\ v # PromiseVal(p)
             /\ v.t # "getter" /\ ~HasThen(v)
    <3>1. m2 = Settle(m1, p, v, FALSE)
      BY <2>0, <2>4
    <3>2. Plain(v) /\ v.t # "promise"
      BY <2>4 DEF Plain, HasThen
    <3>3. /\ Advances(m, m2, {}, {}, {}, {i})
          /\ Ends(m2, p, FALSE, v)
      <4>1. LET x == Settle(m1, p, v, FALSE)
            IN /\ Advances(m, x, {}, {}, {}, {i})
               /\ Ends(x, p, FALSE, v)
        <5>1. FALSE \in BOOLEAN /\ (FALSE \/ Plain(v))
          BY <3>2
        <5> QED
          BY <1>2, <5>1, SettleGoes, Zenon
      <4> QED
        BY <3>1, <4>1, Zenon
    <3>4. isReject = FALSE
      BY <2>4
    <3> QED
      BY <3>2, <3>3, <3>4 DEF Resolved
  <2>5. CASE /\ ~isReject /\ IsObject(v) /\ v # PromiseVal(p)
             /\ v.t # "getter" /\ HasThen(v)
    <3>1. m2 = WithFollower(m1, p, v)
      BY <2>0, <2>5
    <3>2. /\ Advances(m, m2, {}, {}, {}, {i})
          /\ v.t = "promise" =>
               \E j \in 1 .. Len(m2.jobs) : ByFollowing(m2, j, p, v.n)
      BY <1>2, <2>5, <3>1, FollowGoes
    <3>3. ~Plain(v)
      BY <2>5 DEF Plain, HasThen
    <3> QED
      BY <2>5, <3>2, <3>3 DEF Resolved
  <2> QED
    BY <2>2, <2>3, <2>4, <2>5
<1> QED
  BY <1>1, <1>2

\* No reaction claims a pair that is not there yet.
LEMMA FreshFree ==
    ASSUME NEW n \in Nat, NEW k \in Nat, NEW m \in Heaps(n, k), Linked(m),
           NEW c, c \notin 1 .. k
    PROVE  Free(m, c)
<1>1. Len(m.pairs) = k
  BY HeapFields
<1> QED
  BY <1>1 DEF Linked, Owned, Private, Free

\* Pairs that are only added to.
LEMMA PairsMore ==
    ASSUME NEW k \in Nat, NEW m, NEW m2, Len(m.pairs) = k, Len(m2.pairs) = k + 1,
           \A a \in 1 .. k : m2.pairs[a] = m.pairs[a]
    PROVE  PairsStay(m, m2) /\ ClaimsStay(m, m2)
BY DEF PairsStay, ClaimsStay, Private

\* js_promise_constructor and js_new_promise_capability.
LEMMA NewGoes ==
    ASSUME NEW n \in Nat, NEW k \in Nat, NEW m, Sound(m, n, k), Linked(m),
           NEW exposed \in BOOLEAN
    PROVE  LET m2 == NewPromise(m, exposed)
           IN Advances(m, m2, {}, {}, {}, {}) /\ Free(m2, k + 1)
<1> DEFINE m2 == NewPromise(m, exposed)
<1>1. Becomes(m, m2, n + 1, k + 1) /\ Created(m, m2, n, k, exposed)
  BY NewPromiseStep
<1> HIDE DEF m2
<1>2. m \in Heaps(n, k) /\ m2 \in Heaps(n + 1, k + 1)
  BY <1>1 DEF Becomes, Sound
<1>3. /\ Len(m.pairs) = k /\ Len(m.jobs) \in Nat
  BY <1>2, HeapFields
<1>4. Len(m2.pairs) = k + 1
  BY <1>2 DEF Heaps
<1>5. PairsStay(m, m2) /\ ClaimsStay(m, m2)
  BY <1>1, <1>3, <1>4, PairsMore DEF Created, OnePair
<1>6. Linked(m2) /\ SlotsFrom(m, m2, {}, {}) /\ Onward(m, m2, {})
  <2>1. /\ \A j \in 1 .. Len(m.jobs) : m2.jobs[j] = m.jobs[j]
        /\ \A j \in 1 .. Len(m2.jobs) : j > Len(m.jobs) =>
             m2.jobs[j].k = "thenable" /\ HasThen(m2.jobs[j].arg)
        /\ Len(m.jobs) <= Len(m2.jobs)
    BY <1>1, <1>3 DEF Created
  <2>2. \A q \in 1 .. n : /\ m2.promises[q].state = m.promises[q].state
                         /\ m2.promises[q].result = m.promises[q].result
                         /\ m2.promises[q].reactions = m.promises[q].reactions
    BY <1>1 DEF Created
  <2>3. \A q \in 1 .. n + 1 : q > n => /\ m2.promises[q].state = "pending"
                                      /\ m2.promises[q].reactions = <<>>
    <3>1. \A q \in 1 .. n + 1 : q > n => q = n + 1
      OBVIOUS
    <3> QED
      BY <1>1, <3>1 DEF Created
  <2>4. n + 1 \in Nat /\ k + 1 \in Nat /\ n <= n + 1
    OBVIOUS
  <2> QED
    BY <1>2, <1>5, <2>1, <2>2, <2>3, <2>4, LinkedSame
<1>7. Advances(m, m2, {}, {}, {}, {})
  BY <1>1, <1>3, <1>5, <1>6 DEF Advances, Created, OnePair
<1>8. Free(m, k + 1)
  BY <1>2, FreshFree
<1>9. Free(m2, k + 1)
  BY <1>6, <1>8, StillFree
<1> QED
  BY <1>7, <1>9 DEF m2

\* The reaction made by a then of p, with capability cap for promise d.
Reacts(m2, p, onFulfil, onReject, cap, d) ==
    /\ Waits(m2, d, p)
    /\ \A e : \A o \in Outcomes :
         PassesOn(m2, IF o = "rejected" THEN onReject ELSE onFulfil, cap, e, o)
             => Shares(m2, e, p, o)
    /\ \A o \in Outcomes : \A v :
         /\ m2.promises[p].state = "fulfilled"
         /\ onFulfil.k = IF o = "rejected" THEN "thrower" ELSE "thunk"
         /\ onFulfil.v = v /\ (o = "fulfilled" => Plain(v))
         => Promised(m2, d, o, v)

\* Who may be a handler of the new reaction.
Usable(m, h) == \A c \in Relay(h) : Private(m, c) /\ Free(m, c)

\* js_promise_then.
LEMMA ThenGoes ==
    ASSUME NEW n \in Nat, NEW k \in Nat, NEW m, Sound(m, n, k), Linked(m),
           NEW p \in 1 .. n,
           NEW onFulfil \in HandlersOf(n, k), NEW onReject \in HandlersOf(n, k),
           Usable(m, onFulfil), Usable(m, onReject),
           onReject.k = "finally" => onReject.i # 0
    PROVE  LET m2 == Then(m, p, onFulfil, onReject)
           IN /\ Sound(m2, n + 1, k + 1)
              /\ Advances(m, m2, {}, {k + 1}, Relay(onFulfil) \cup Relay(onReject), {})
              /\ OnePair(m, m2, k, n + 1, FALSE)
              /\ Reacts(m2, p, onFulfil, onReject, k + 1, n + 1)
<1> DEFINE m1 == NewPromiseCapability(m)
           m2 == PerformPromiseThen(m1, p, onFulfil, onReject, k + 1)
           R == Relay(onFulfil) \cup Relay(onReject)
           N == n + 1
           K == k + 1
<1>1. /\ Becomes(m, m1, n + 1, k + 1) /\ Created(m, m1, n, k, FALSE)
      /\ Advances(m, m1, {}, {}, {}, {}) /\ Free(m1, k + 1)
  BY NewPromiseStep, NewGoes DEF NewPromiseCapability
<1>2. /\ Sound(m1, N, K) /\ LastPair(m1) = K /\ m \in Heaps(n, k)
      /\ m1 \in Heaps(N, K) /\ Linked(m1)
  <2>1. Sound(m1, N, K) /\ Linked(m1) /\ N \in Nat /\ K \in Nat
    BY <1>1 DEF Becomes, Advances
  <2> HIDE DEF N, K, m1
  <2>2. LastPair(m1) = K
    BY <2>1, Numbers
  <2> QED
    BY <2>1, <2>2 DEF Sound
<1>3. Then(m, p, onFulfil, onReject) = m2
  BY <1>2 DEF Then
<1> HIDE DEF m1
<1>4. onFulfil \in HandlersOf(N, K) /\ onReject \in HandlersOf(N, K)
  BY WiderParts
<1>5. N \in Nat /\ K \in Nat /\ K \in 0 .. K /\ p \in 1 .. N /\ K \in 1 .. K
      /\ K \notin 1 .. k /\ n <= N
  OBVIOUS
<1> HIDE DEF N, K
<1>6. Turns(m1, m2, N, K) /\ Performed(m1, m2, p, onFulfil, onReject, K)
  BY <1>2, <1>4, <1>5, PerformStep DEF K
<1> HIDE DEF m2
<1>7. m2 \in Heaps(N, K) /\ Sound(m2, N, K)
  BY <1>6 DEF Turns, Sound
<1>8. Len(m.pairs) = k /\ Len(m1.pairs) = K
  BY <1>2, <1>5, HeapFields
<1>9. Private(m1, K) /\ Free(m1, K) /\ m1.pairs[K].promise = N
  BY <1>1, <1>5, <1>8 DEF Created, OnePair, Private, K, N
<1>10. ASSUME NEW c \in R PROVE Private(m1, c) /\ Free(m1, c) /\ c # K
  <2>1. Private(m, c) /\ Free(m, c)
    BY DEF Usable
  <2>2. c \in 1 .. k
    BY <1>8, <2>1 DEF Private
  <2>3. Private(m1, c)
    BY <1>1, <1>8, <2>1, <2>2, PrivateStill DEF Advances, Created, OnePair
  <2>4. Free(m1, c)
    BY <1>1, <2>1, StillFree DEF Advances
  <2> QED
    BY <1>5, <2>2, <2>3, <2>4
<1>11. /\ Linked(m2) /\ Onward(m1, m2, {}) /\ SlotsFrom(m1, m2, {K}, R)
  BY <1>2, <1>5, <1>6, <1>7, <1>9, <1>10, LinkedPerformed
<1>12. m2.pairs = m1.pairs /\ m2.promises[p].state = m1.promises[p].state
  BY <1>6 DEF Performed
<1>13. Advances(m1, m2, {}, {K}, R, {})
  BY <1>11, <1>12 DEF Advances, PairsStay
<1>14. Advances(m, m2, {}, {K}, R, {})
  <2>1. Advances(m, m2, {}, {} \cup {K}, {} \cup R, {} \cup {})
    BY <1>1, <1>2, <1>5, <1>13, AdvancesThrough
  <2>2. {} \cup {K} = {K} /\ {} \cup R = R /\ {} \cup {} = {}
    OBVIOUS
  <2> HIDE DEF R
  <2> QED
    BY <2>1, <2>2
<1>15. OnePair(m, m2, k, N, FALSE)
  BY <1>1, <1>12 DEF Created, OnePair, N
<1>16. Reacts(m2, p, onFulfil, onReject, K, N)
  <2>1. /\ Waits(m2, m1.pairs[K].promise, p)
        /\ \A d : \A o \in Outcomes :
             PassesOn(m1, IF o = "rejected" THEN onReject ELSE onFulfil, K, d, o)
                 => Shares(m2, d, p, o)
        /\ \A o \in Outcomes : \A v :
             /\ m1.promises[p].state = "fulfilled"
             /\ onFulfil.k = IF o = "rejected" THEN "thrower" ELSE "thunk"
             /\ onFulfil.v = v /\ (o = "fulfilled" => Plain(v))
             => Promised(m2, m1.pairs[K].promise, o, v)
    BY <1>2, <1>5, <1>6, <1>7, PerformedCarries
  <2> QED
    BY <1>9, <1>12, <2>1 DEF Reacts, PassesOn
<1> QED
  BY <1>3, <1>7, <1>14, <1>15, <1>16 DEF K, N

\* JS_ExecutePendingJob takes a reaction: what it claims is free now.
LEMMA DequeueGoes ==
    ASSUME NEW n \in Nat, NEW k \in Nat, NEW m, Sound(m, n, k), Linked(m),
           m.jobs # <<>>, m.jobs[1].k = "reaction"
    PROVE  LET m2 == Popped(m)
           IN /\ Sound(m2, n, k) /\ Advances(m, m2, {1}, {}, {}, {})
              /\ m2.promises = m.promises /\ m2.pairs = m.pairs
              /\ m.jobs[1].cap \notin Relay(m.jobs[1].h)
              /\ \A c \in {m.jobs[1].cap} \cup Relay(m.jobs[1].h) :
                   Private(m2, c) /\ Free(m2, c)
<1> DEFINE m2 == Popped(m)
<1>1. /\ Sound(m2, n, k) /\ m2.promises = m.promises
      /\ m2.jobs = Tail(m.jobs) /\ m2.pairs = m.pairs
  BY DequeueStep DEF Turns
<1> HIDE DEF m2
<1>2. m \in Heaps(n, k) /\ m2 \in Heaps(n, k)
  BY <1>1 DEF Sound
<1>3. PairsStay(m, m2) /\ ClaimsStay(m, m2)
  BY <1>1 DEF PairsStay, ClaimsStay, Private
<1>4. /\ Linked(m2) /\ SlotsFrom(m, m2, {}, {}) /\ Onward(m, m2, {1})
      /\ \A c \in Claims(m, <<0, 1>>) : Free(m2, c)
  BY <1>1, <1>2, <1>3, LinkedShifted
<1>5. Advances(m, m2, {1}, {}, {}, {})
  BY <1>1, <1>3, <1>4 DEF Advances
<1>6. <<0, 1>> \in Slots(m)
  <2>1. m.jobs \in Seq(JobsOf(n, k))
    BY <1>2, HeapFields
  <2>2. 1 \in 1 .. Len(m.jobs)
    BY <2>1
  <2> QED
    BY <2>2, SlotIs
<1>7. Claims(m, <<0, 1>>) = {m.jobs[1].cap} \cup Relay(m.jobs[1].h)
  BY JobSlot DEF Claims
<1>8. \A c \in Claims(m, <<0, 1>>) : Private(m2, c)
  BY <1>1, <1>6 DEF Linked, Owned, Private
<1>9. m.jobs[1].cap \notin Relay(m.jobs[1].h)
  BY <1>6, JobSlot DEF Linked, Owned
<1> QED
  BY <1>1, <1>4, <1>5, <1>7, <1>8, <1>9 DEF m2

\* js_promise_resolve_thenable_job takes its job and makes a pair.
LEMMA TakeGoes ==
    ASSUME NEW n \in Nat, NEW k \in Nat, NEW m, Sound(m, n, k), Linked(m),
           m.jobs # <<>>, m.jobs[1].k = "thenable", NEW exposed \in BOOLEAN
    PROVE  LET p == m.jobs[1].cap
               m2 == CreateResolvingFunctions(Popped(m), p, exposed)
           IN /\ Sound(m2, n, k + 1) /\ Advances(m, m2, {1}, {}, {}, {})
              /\ OnePair(m, m2, k, p, exposed) /\ Free(m2, k + 1)
<1> DEFINE p == m.jobs[1].cap
           m2 == CreateResolvingFunctions(Popped(m), p, exposed)
<1>1. /\ Becomes(m, m2, n, k + 1) /\ OnePair(m, m2, k, p, exposed)
      /\ m2.promises = m.promises /\ m2.jobs = Tail(m.jobs)
  BY TakeStep
<1> HIDE DEF m2, p
<1>2. m \in Heaps(n, k) /\ m2 \in Heaps(n, k + 1) /\ Sound(m2, n, k + 1)
  BY <1>1 DEF Becomes, Sound
<1>3. Len(m.pairs) = k /\ k + 1 \in Nat
  BY <1>2, HeapFields
<1>4. Len(m2.pairs) = k + 1
  BY <1>2 DEF Heaps
<1>5. PairsStay(m, m2) /\ ClaimsStay(m, m2)
  BY <1>1, <1>3, <1>4, PairsMore DEF OnePair
<1>6. /\ Linked(m2) /\ SlotsFrom(m, m2, {}, {}) /\ Onward(m, m2, {1})
  BY <1>1, <1>2, <1>3, <1>5, LinkedShifted
<1>7. Advances(m, m2, {1}, {}, {}, {})
  BY <1>1, <1>3, <1>5, <1>6 DEF Advances, OnePair
<1>8. Free(m, k + 1)
  BY <1>2, FreshFree
<1>9. Free(m2, k + 1)
  BY <1>6, <1>8, StillFree
<1> QED
  BY <1>1, <1>2, <1>7, <1>9 DEF m2, p

-----------------------------------------------------------------------------
(* What the history says stays true. *)

\* Every reaction of derived is still to run or has run.
LEMMA DerivedGoes ==
    ASSUME NEW n \in Nat, NEW n2 \in Nat, n <= n2, NEW m, NEW m2,
           Len(m.promises) = n, Len(m2.promises) = n2,
           NEW c, NEW c2, NEW D, NEW D2, DerivedFit(m, c, D),
           NEW gone, Onward(m, m2, gone),
           \A d \in 1 .. n : c[d] = 1 => c2[d] = 1,
           \A j \in gone : m.jobs[j].k = "reaction" =>
               c2[m.pairs[m.jobs[j].cap].promise] = 1,
           \A t \in D2 : t \in D \/ /\ t[1] \in 1 .. n2 /\ t[2] \in 1 .. n2
                                    /\ Waits(m2, t[1], t[2])
    PROVE  DerivedFit(m2, c2, D2)
<1> SUFFICES ASSUME NEW t \in D2
             PROVE  /\ t[1] \in 1 .. n2 /\ t[2] \in 1 .. n2
                    /\ c2[t[1]] = 1 \/ Waits(m2, t[1], t[2])
  BY DEF DerivedFit
<1>1. CASE t \in D
  <2>1. /\ t[1] \in 1 .. n /\ t[2] \in 1 .. n
        /\ c[t[1]] = 1 \/ Waits(m, t[1], t[2])
    BY <1>1 DEF DerivedFit
  <2>2. Waits(m, t[1], t[2]) =>
           \/ Waits(m2, t[1], t[2])
           \/ \E j \in gone : /\ m.jobs[j].k = "reaction"
                             /\ m.pairs[m.jobs[j].cap].promise = t[1]
    BY <2>1 DEF Onward
  <2> QED
    BY <2>1, <2>2
<1> QED
  BY <1>1

\* Every outcome of mirror is shared or on its way.
LEMMA MirrorGoes ==
    ASSUME NEW n \in Nat, NEW n2 \in Nat, n <= n2, NEW m, NEW m2,
           Len(m.promises) = n, Len(m2.promises) = n2,
           NEW M, NEW M2, MirrorFit(m, M), NEW gone, Onward(m, m2, gone),
           \A j \in gone : \A d, p \in 1 .. n : \A o \in Outcomes :
               ByJob(m, j, d, p, o) \/ ByFollowing(m, j, d, p)
                   => Shares(m2, d, p, o),
           \A t \in M2 : t \in M \/ /\ t[1] \in 1 .. n2 /\ t[2] \in 1 .. n2
                                    /\ t[3] \in Outcomes
                                    /\ Shares(m2, t[1], t[2], t[3])
    PROVE  MirrorFit(m2, M2)
<1> SUFFICES ASSUME NEW t \in M2
             PROVE  /\ t[1] \in 1 .. n2 /\ t[2] \in 1 .. n2
                    /\ t[3] \in Outcomes /\ Shares(m2, t[1], t[2], t[3])
  BY DEF MirrorFit
<1>1. CASE t \in M
  <2>1. /\ t[1] \in 1 .. n /\ t[2] \in 1 .. n /\ t[3] \in Outcomes
        /\ Shares(m, t[1], t[2], t[3])
    BY <1>1 DEF MirrorFit
  <2>2. \/ Shares(m2, t[1], t[2], t[3])
        \/ \E j \in gone : \/ ByJob(m, j, t[1], t[2], t[3])
                           \/ ByFollowing(m, j, t[1], t[2])
    BY <2>1 DEF Onward
  <2> QED
    BY <2>1, <2>2
<1> QED
  BY <1>1

\* Every outcome of due is promised.
LEMMA DueGoes ==
    ASSUME NEW n \in Nat, NEW n2 \in Nat, n <= n2, NEW m, NEW m2,
           Len(m.promises) = n, Len(m2.promises) = n2,
           NEW U, NEW U2, DueFit(m, U), NEW gone, Onward(m, m2, gone),
           \A j \in gone : \A d, p \in 1 .. n : \A o \in Outcomes :
               ByJob(m, j, d, p, o) \/ ByFollowing(m, j, d, p)
                   => Shares(m2, d, p, o),
           \A j \in gone : \A q \in 1 .. n : \A o \in Outcomes : \A v :
               ByFinally(m, j, q, o, v) => Promised(m2, q, o, v),
           \A t \in U2 : t \in U \/
               /\ t[1] \in 1 .. n2 /\ t[2] \in Outcomes
               /\ \E q \in 1 .. n2 :
                     Shares(m2, t[1], q, t[2]) /\ Promised(m2, q, t[2], t[3])
    PROVE  DueFit(m2, U2)
<1> SUFFICES ASSUME NEW t \in U2
             PROVE  /\ t[1] \in 1 .. n2 /\ t[2] \in Outcomes
                    /\ \E q \in 1 .. n2 :
                          Shares(m2, t[1], q, t[2]) /\ Promised(m2, q, t[2], t[3])
  BY DEF DueFit
<1>1. CASE t \in U
  <2>1. t[1] \in 1 .. n /\ t[2] \in Outcomes
    BY <1>1 DEF DueFit
  <2>2. PICK q \in 1 .. n : Shares(m, t[1], q, t[2]) /\ Promised(m, q, t[2], t[3])
    BY <1>1 DEF DueFit
  <2>3. \/ Shares(m2, t[1], q, t[2])
        \/ \E j \in gone : ByJob(m, j, t[1], q, t[2]) \/ ByFollowing(m, j, t[1], q)
    BY <2>1, <2>2 DEF Onward
  <2>4. Shares(m2, t[1], q, t[2])
    BY <2>1, <2>3
  <2>5. \/ Promised(m2, q, t[2], t[3])
        \/ \E j \in gone : ByFinally(m, j, q, t[2], t[3])
    BY <2>1, <2>2 DEF Onward
  <2>6. Promised(m2, q, t[2], t[3])
    BY <2>1, <2>5
  <2>7. q \in 1 .. n2 /\ t[1] \in 1 .. n2
    BY <2>1
  <2> QED
    BY <2>1, <2>4, <2>6, <2>7
<1> QED
  BY <1>1

-----------------------------------------------------------------------------
(* Frames, and the reactions that have run. *)

\* Pairs that user code calls or that are new.
Open(m, c) == c \notin 1 .. Len(m.pairs) \/ m.pairs[c].exposed

\* No frame loses its pair to a step of user code.
LEMMA FramesGo ==
    ASSUME NEW m, NEW m2, NEW s, FramesFit(m, s), NEW gone, NEW C, NEW R, NEW U,
           Advances(m, m2, gone, C, R, U), \A c \in C \cup R \cup U : Open(m, c)
    PROVE  FramesFit(m2, s)
<1> SUFFICES ASSUME NEW f \in 1 .. Len(s)
             PROVE  /\ s[f].k \in {"executor", "then"} =>
                         s[f].pair \in 1 .. Len(m2.pairs) /\ m2.pairs[s[f].pair].exposed
                    /\ s[f].k \in {"handler", "finally"} =>
                         f = 1 /\ Private(m2, s[f].pair) /\ Free(m2, s[f].pair)
                    /\ s[f].k = "finally" /\ s[f].magic = 0 => Plain(s[f].arg)
  BY DEF FramesFit
<1>1. /\ s[f].k \in {"executor", "then"} =>
           s[f].pair \in 1 .. Len(m.pairs) /\ m.pairs[s[f].pair].exposed
      /\ s[f].k \in {"handler", "finally"} =>
           f = 1 /\ Private(m, s[f].pair) /\ Free(m, s[f].pair)
      /\ s[f].k = "finally" /\ s[f].magic = 0 => Plain(s[f].arg)
  BY DEF FramesFit
<1>2. ASSUME s[f].k \in {"executor", "then"}
      PROVE  s[f].pair \in 1 .. Len(m2.pairs) /\ m2.pairs[s[f].pair].exposed
  BY <1>1, <1>2 DEF Advances, PairsStay
<1>3. ASSUME s[f].k \in {"handler", "finally"}
      PROVE  Private(m2, s[f].pair) /\ Free(m2, s[f].pair)
  <2> DEFINE c == s[f].pair
  <2>1. Private(m, c) /\ Free(m, c)
    BY <1>1, <1>3
  <2>2. c \in 1 .. Len(m.pairs) /\ ~m.pairs[c].exposed
    BY <2>1 DEF Private
  <2>3. c \notin C /\ c \notin R /\ c \notin U
    BY <2>2 DEF Open
  <2>4. m2.pairs[c] = m.pairs[c]
    BY <2>2, <2>3 DEF Advances
  <2> HIDE DEF c
  <2>5. Private(m2, c)
    BY <2>1, <2>4, PrivateStill DEF Advances
  <2>6. Free(m2, c)
    BY <2>1, <2>3, StillFree DEF Advances
  <2> QED
    BY <2>5, <2>6 DEF c
<1> QED
  BY <1>1, <1>2, <1>3

\* The frames below the running one; a handler has none below it.
LEMMA FramesBelow ==
    ASSUME NEW m, NEW S, NEW s \in Seq(S), s # <<>>, FramesFit(m, s)
    PROVE  /\ FramesFit(m, SubSeq(s, 1, Len(s) - 1))
           /\ s[Len(s)].k \in {"handler", "finally"} =>
                SubSeq(s, 1, Len(s) - 1) = <<>>
<1> DEFINE t == SubSeq(s, 1, Len(s) - 1)
<1>1. Len(s) \in Nat /\ Len(s) \in 1 .. Len(s)
  OBVIOUS
<1>2. t \in Seq(S) /\ Len(t) = Len(s) - 1 /\ \A f \in 1 .. Len(t) : t[f] = s[f]
  <2>1. t \in Seq(S)
    BY <1>1
  <2> QED
    BY <2>1, WithoutLast
<1> HIDE DEF t
<1>3. \A f \in 1 .. Len(t) : f \in 1 .. Len(s)
  BY <1>1, <1>2
<1>4. FramesFit(m, t)
  BY <1>2, <1>3 DEF FramesFit
<1>5. s[Len(s)].k \in {"handler", "finally"} => Len(s) = 1
  BY <1>1 DEF FramesFit
<1>6. Len(s) = 1 => t = <<>>
  BY <1>2
<1> QED
  BY <1>4, <1>5, <1>6 DEF t

\* The empty stack.
LEMMA NoFrames == ASSUME NEW m PROVE FramesFit(m, <<>>)
BY DEF FramesFit

\* Reactions of new promises have not run.
WithZeros(c, l) == c \o [j \in 1 .. l |-> 0]

\* No reaction of a new promise has been counted.
LEMMA CallsGo ==
    ASSUME NEW n \in Nat, NEW n2 \in Nat, n <= n2, NEW k \in Nat,
           NEW m \in Heaps(n, k), Linked(m), NEW m2, Len(m2.promises) = n2,
           NEW c, CallsFit(m, c), NEW C, NEW R, SlotsFrom(m, m2, C, R),
           PairsStay(m, m2), \A x \in C : m2.pairs[x].promise \in n + 1 .. n2,
           NEW c2, c2 = WithZeros(c, n2 - n)
    PROVE  /\ CallsFit(m2, c2)
           /\ \A d \in 1 .. n : c2[d] = c[d]
<1> DEFINE z == [j \in 1 .. n2 - n |-> 0]
<1>1. c \in Seq({0, 1}) /\ Len(c) = n /\ Len(m.promises) = n /\ Len(m.pairs) = k
  BY HeapFields DEF CallsFit
<1>2. z \in Seq({0, 1}) /\ Len(z) = n2 - n /\ \A j \in 1 .. n2 - n : z[j] = 0
  <2>1. n2 - n \in Nat
    OBVIOUS
  <2> QED
    BY <2>1
<1> HIDE DEF z
<1>3. /\ c2 \in Seq({0, 1}) /\ Len(c2) = n2
      /\ \A d \in 1 .. n : c2[d] = c[d]
      /\ \A d \in n + 1 .. n2 : c2[d] = 0
  <2>1. c2 = c \o z
    BY DEF z, WithZeros
  <2>2. /\ c2 \in Seq({0, 1}) /\ Len(c2) = n + (n2 - n)
        /\ \A j \in 1 .. n : c2[j] = c[j]
        /\ \A j \in 1 .. n + (n2 - n) : j > n =>
             j - n \in 1 .. n2 - n /\ c2[j] = z[j - n]
    <3> DEFINE b == c \o z
    <3>0. c \in Seq({0, 1}) /\ z \in Seq({0, 1})
      BY <1>1, <1>2
    <3>1. /\ b \in Seq({0, 1}) /\ Len(b) = Len(c) + Len(z)
          /\ \A j \in 1 .. Len(c) : b[j] = c[j]
          /\ \A j \in 1 .. Len(b) : j > Len(c) =>
               j - Len(c) \in 1 .. Len(z) /\ b[j] = z[j - Len(c)]
      BY ONLY <3>0, Behind
    <3> HIDE DEF b
    <3>2. c2 = b
      BY <2>1 DEF b
    <3> QED
      BY <1>1, <1>2, <3>1, <3>2
  <2>3. n + (n2 - n) = n2
    OBVIOUS
  <2>4. ASSUME NEW d \in n + 1 .. n2 PROVE c2[d] = 0
    <3>1. d \in 1 .. n + (n2 - n) /\ d > n
      OBVIOUS
    <3> QED
      BY <1>2, <2>2, <3>1
  <2> QED
    BY <2>2, <2>3, <2>4
<1>4. ASSUME NEW x \in Slots(m2) PROVE c2[m2.pairs[CapAt(m2, x)].promise] = 0
  <2>1. CASE CapAt(m2, x) \in C
    BY <1>3, <2>1
  <2>2. CASE \E y \in Slots(m) : CapAt(m2, x) = CapAt(m, y)
    <3>1. PICK y \in Slots(m) : CapAt(m2, x) = CapAt(m, y)
      BY <2>2
    <3>2. CapAt(m, y) \in 1 .. k
      BY <1>1 DEF Linked, Owned, Claims, Private
    <3>3. m2.pairs[CapAt(m2, x)].promise = m.pairs[CapAt(m, y)].promise
      BY <1>1, <3>1, <3>2 DEF PairsStay
    <3>4. m.pairs[CapAt(m, y)].promise \in 1 .. n
      <4>1. m.pairs[CapAt(m, y)] \in PairsOf(n)
        BY <3>2, HeapFields
      <4> QED
        BY <4>1 DEF PairsOf
    <3>5. c[m.pairs[CapAt(m, y)].promise] = 0
      BY DEF CallsFit
    <3> QED
      BY <1>3, <3>3, <3>4, <3>5
  <2> QED
    BY <2>1, <2>2 DEF SlotsFrom
<1> QED
  BY <1>3, <1>4 DEF CallsFit

\* A reaction that runs is counted, and was not counted before.
CountedAt(c, d) == [c EXCEPT ![d] = @ + 1]

\* The promise of the reaction that runs is counted for the first time.
LEMMA CallsRan ==
    ASSUME NEW n \in Nat, NEW k \in Nat, NEW m, Sound(m, n, k), Linked(m),
           NEW m2, Len(m2.promises) = n, m.jobs # <<>>, m.jobs[1].k = "reaction",
           NEW c, CallsFit(m, c), SlotsFrom(m, m2, {}, {}), PairsStay(m, m2),
           Free(m2, m.jobs[1].cap), NEW d, d = m.pairs[m.jobs[1].cap].promise,
           NEW c2, c2 = CountedAt(c, d)
    PROVE  /\ CallsFit(m2, c2) /\ c2[d] = 1
           /\ \A e \in 1 .. n : c[e] = 1 => c2[e] = 1
<1> DEFINE cap == m.jobs[1].cap
<1>1. /\ m \in Heaps(n, k) /\ OneWay(m)
  BY DEF Sound
<1>2. c \in Seq({0, 1}) /\ Len(c) = n /\ Len(m.promises) = n /\ Len(m.pairs) = k
  BY <1>1, HeapFields DEF CallsFit
<1>3. <<0, 1>> \in Slots(m) /\ CapAt(m, <<0, 1>>) = cap
  <2>1. m.jobs \in Seq(JobsOf(n, k))
    BY <1>1, HeapFields
  <2>2. 1 \in 1 .. Len(m.jobs)
    BY <2>1
  <2> QED
    BY <2>2, SlotIs, JobSlot
<1>4. \A y \in Slots(m) : CapAt(m, y) \in Unused(m) /\ CapAt(m, y) \in 1 .. k
  BY <1>2 DEF Linked, Owned, Claims, Private, Unused
<1>5. \A a \in 1 .. k : m.pairs[a].promise \in 1 .. n
  <2>1. \A a \in 1 .. k : m.pairs[a] \in PairsOf(n)
    BY <1>1, HeapFields
  <2> QED
    BY <2>1 DEF PairsOf
<1>6. d \in 1 .. n /\ c[d] = 0
  BY <1>3, <1>4, <1>5 DEF CallsFit
<1>7. /\ c2 \in Seq({0, 1}) /\ Len(c2) = n
      /\ \A e \in 1 .. n : c2[e] = IF e = d THEN 1 ELSE c[e]
  BY <1>2, <1>6 DEF CountedAt
<1>8. ASSUME NEW x \in Slots(m2) PROVE c2[m2.pairs[CapAt(m2, x)].promise] = 0
  <2>1. PICK y \in Slots(m) : CapAt(m2, x) = CapAt(m, y)
    BY DEF SlotsFrom
  <2> DEFINE a == CapAt(m, y)
  <2>2. a # cap
    <3>1. CapAt(m2, x) \in Claims(m2, x)
      BY DEF Claims
    <3> QED
      BY <2>1, <3>1 DEF Free
  <2>3. a \in Unused(m) /\ cap \in Unused(m) /\ a \in 1 .. k
    BY <1>3, <1>4
  <2>4. m.pairs[a].promise # d
    BY <1>1, <2>2, <2>3 DEF OneWay, PairsDiffer
  <2>5. m2.pairs[a].promise = m.pairs[a].promise
    BY <1>2, <2>3 DEF PairsStay
  <2>6. c[m.pairs[a].promise] = 0
    BY DEF CallsFit
  <2> QED
    BY <1>5, <1>7, <2>1, <2>3, <2>4, <2>5, <2>6
<1> QED
  BY <1>6, <1>7, <1>8 DEF CallsFit

-----------------------------------------------------------------------------
(* The actions. *)

\* What the jobs in gone carried has arrived or is on its way again.
Arrives(m, m2, gone) ==
    LET P == 1 .. Len(m.promises)
    IN \A j \in gone :
          /\ \A d, p \in P, o \in Outcomes :
                ByJob(m, j, d, p, o) \/ ByFollowing(m, j, d, p)
                    => Shares(m2, d, p, o)
          /\ \A q \in P, o \in Outcomes : \A v :
                ByFinally(m, j, q, o, v) => Promised(m2, q, o, v)
\* The reactions in gone have run.
Counted(m, gone, c, c2) ==
    /\ \A d \in 1 .. Len(m.promises) : c[d] = 1 => c2[d] = 1
    /\ \A j \in gone : m.jobs[j].k = "reaction" =>
          c2[m.pairs[m.jobs[j].cap].promise] = 1
\* What is added to the history is true.
DerivedMore(m2, D, D2) ==
    \A t \in D2 : t \in D \/ /\ t[1] \in 1 .. Len(m2.promises)
                             /\ t[2] \in 1 .. Len(m2.promises)
                             /\ Waits(m2, t[1], t[2])
MirrorMore(m2, M, M2) ==
    \A t \in M2 : t \in M \/ /\ t[1] \in 1 .. Len(m2.promises)
                             /\ t[2] \in 1 .. Len(m2.promises)
                             /\ t[3] \in Outcomes
                             /\ Shares(m2, t[1], t[2], t[3])
DueMore(m2, U, U2) ==
    \A t \in U2 : t \in U \/
        /\ t[1] \in 1 .. Len(m2.promises) /\ t[2] \in Outcomes
        /\ \E q \in 1 .. Len(m2.promises) :
              Shares(m2, t[1], q, t[2]) /\ Promised(m2, q, t[2], t[3])

\* Where nothing is added, nothing has to be shown.
LEMMA NothingMore ==
    ASSUME NEW m2, NEW S
    PROVE  DerivedMore(m2, S, S) /\ MirrorMore(m2, S, S) /\ DueMore(m2, S, S)
BY DEF DerivedMore, MirrorMore, DueMore

\* A step keeps the invariant.
LEMMA Continues ==
    ASSUME OInv, PInv', NEW gone, NEW C, NEW R, NEW U,
           Advances(vm, vm', gone, C, R, U), NP(vm) <= NP(vm'),
           FramesFit(vm', stack'), CallsFit(vm', calls'),
           Counted(vm, gone, calls, calls'), Arrives(vm, vm', gone),
           DerivedMore(vm', derived, derived'), MirrorMore(vm', mirror, mirror'),
           DueMore(vm', due, due')
    PROVE  OInv'
<1> DEFINE n == Len(vm.promises)
           n2 == Len(vm'.promises)
<1>1. n \in Nat /\ n2 \in Nat /\ n <= n2
  <2>1. n \in Nat
    BY DEF OInv, PInv, Sound, Heaps
  <2>2. n2 \in Nat
    BY DEF PInv, Sound, Heaps
  <2> QED
    BY <2>1, <2>2 DEF NP
<1>2. Linked(vm') /\ Onward(vm, vm', gone)
  BY DEF Advances
<1>3. DerivedFit(vm', calls', derived')
  <2>1. DerivedFit(vm, calls, derived)
    BY DEF OInv
  <2> QED
    BY <1>1, <1>2, <2>1, DerivedGoes DEF Counted, DerivedMore
<1>4. MirrorFit(vm', mirror')
  <2>1. MirrorFit(vm, mirror)
    BY DEF OInv
  <2> QED
    BY <1>1, <1>2, <2>1, MirrorGoes DEF Arrives, MirrorMore
<1>5. DueFit(vm', due')
  <2>1. DueFit(vm, due)
    BY DEF OInv
  <2> QED
    BY <1>1, <1>2, <2>1, DueGoes DEF Arrives, DueMore
<1> QED
  BY <1>2, <1>3, <1>4, <1>5 DEF OInv

\* A step that runs no reaction; its new reactions are of new promises.
LEMMA OtherContinues ==
    ASSUME OInv, PInv', NEW gone, NEW C, NEW R, NEW U, Become(vm'),
           Advances(vm, vm', gone, C, R, U), NP(vm) <= NP(vm'),
           \A j \in gone : vm.jobs[j].k # "reaction", Arrives(vm, vm', gone),
           \A x \in C : vm'.pairs[x].promise \in NP(vm) + 1 .. NP(vm'),
           FramesFit(vm', stack'),
           DerivedMore(vm', derived, derived'), MirrorMore(vm', mirror, mirror'),
           DueMore(vm', due, due')
    PROVE  OInv'
<1> DEFINE n == NP(vm)
           n2 == NP(vm')
           k == LastPair(vm)
<1>1. n \in Nat /\ k \in Nat /\ vm \in Heaps(n, k) /\ Linked(vm)
  BY CurrentHeap DEF OInv
<1>2. n2 \in Nat /\ Len(vm'.promises) = n2
  BY DEF PInv, Sound, Heaps, NP
<1>3. CallsFit(vm, calls) /\ Len(calls) = n
  BY DEF OInv, CallsFit, NP
<1>4. calls' = WithZeros(calls, n2 - n)
  BY <1>3 DEF Become, WithZeros
<1>5. SlotsFrom(vm, vm', C, R) /\ PairsStay(vm, vm')
  BY DEF Advances
<1> HIDE DEF n, n2, k
<1>6. CallsFit(vm', calls') /\ \A d \in 1 .. n : calls'[d] = calls[d]
  <2>1. n <= n2 /\ \A x \in C : vm'.pairs[x].promise \in n + 1 .. n2
    BY DEF n, n2
  <2> QED
    BY <1>1, <1>2, <1>3, <1>4, <1>5, <2>1, CallsGo
<1>7. Counted(vm, gone, calls, calls')
  BY <1>6 DEF Counted, n, NP
<1> QED
  BY <1>6, <1>7, Continues

\* A step of user code takes no job.
LEMMA UserContinues ==
    ASSUME OInv, PInv', NEW C, NEW R, NEW U, Become(vm'),
           Advances(vm, vm', {}, C, R, U), NP(vm) <= NP(vm'),
           \A x \in C : vm'.pairs[x].promise \in NP(vm) + 1 .. NP(vm'),
           FramesFit(vm', stack'),
           DerivedMore(vm', derived, derived'), MirrorMore(vm', mirror, mirror'),
           DueMore(vm', due, due')
    PROVE  OInv'
<1>1. Arrives(vm, vm', {}) /\ \A j \in {} : vm.jobs[j].k # "reaction"
  BY DEF Arrives
<1> QED
  BY <1>1, OtherContinues

\* The frame of an executor or of a then method.
LEMMA FrameAbove ==
    ASSUME NEW m, NEW S, NEW s \in Seq(S), FramesFit(m, s), NEW f,
           f.k \in {"executor", "then"}, f.pair \in 1 .. Len(m.pairs),
           m.pairs[f.pair].exposed
    PROVE  FramesFit(m, Append(s, f))
<1> DEFINE t == Append(s, f)
<1>1. /\ Len(s) \in Nat /\ Len(t) = Len(s) + 1 /\ t[Len(s) + 1] = f
      /\ \A i \in 1 .. Len(s) : t[i] = s[i]
  OBVIOUS
<1> HIDE DEF t
<1>2. ASSUME NEW i \in 1 .. Len(t)
      PROVE  (i \in 1 .. Len(s) /\ t[i] = s[i]) \/ t[i] = f
  BY <1>1
<1>3. FramesFit(m, t)
  BY <1>2 DEF FramesFit
<1> QED
  BY <1>3 DEF t

\* No reaction claims functions that user code has.
LEMMA ExposedFree ==
    ASSUME NEW m, Linked(m), NEW i, m.pairs[i].exposed
    PROVE  Free(m, i)
BY DEF Linked, Owned, Private, Free

\* A promise that was resolved with another one shares its outcome.
LEMMA FollowsShared ==
    ASSUME NEW n \in Nat, NEW m, Len(m.promises) = n, NEW d \in 1 .. n,
           NEW v \in ValuesOf(n), Resolved(m, d, FALSE, v), NEW M
    PROVE  MirrorMore(m, M, M \cup Follows(d, v))
<1> SUFFICES ASSUME NEW t \in Follows(d, v)
             PROVE  /\ t[1] \in 1 .. n /\ t[2] \in 1 .. n /\ t[3] \in Outcomes
                    /\ Shares(m, t[1], t[2], t[3])
  BY DEF MirrorMore
<1>1. /\ v.t = "promise" /\ v.n # d
      /\ \E o \in Outcomes : t = <<d, v.n, o>>
  BY DEF Follows
<1>2. t[1] = d /\ t[2] = v.n /\ t[3] \in Outcomes
  BY <1>1
<1>3. v.n \in 1 .. n
  BY <1>1 DEF ValuesOf
<1>4. \E j \in 1 .. Len(m.jobs) : ByFollowing(m, j, d, v.n)
  BY <1>1 DEF Resolved
<1>5. Shares(m, d, v.n, t[3])
  BY <1>4 DEF Shares
<1> QED
  BY <1>2, <1>3, <1>5

\* new Promise(executor).
LEMMA ArrivesByNew == ASSUME OInv, PInv', New PROVE OInv'
<1> DEFINE n == NP(vm)
           k == LastPair(vm)
           m == NewPromise(vm, TRUE)
           f == Frame("executor", LastPair(m), 0, Undefined)
<1>1. n \in Nat /\ k \in Nat /\ Sound(vm, n, k) /\ stack \in Seq(FramesOf(n, k))
      /\ Linked(vm) /\ FramesFit(vm, stack)
  BY CurrentHeap DEF OInv
<1>2. /\ vm' = m /\ stack' = Append(stack, f) /\ Become(vm')
      /\ derived' = derived /\ mirror' = mirror /\ due' = due
  BY DEF New, Act, Become, history
<1> HIDE DEF n, k
<1>3. /\ Becomes(vm, m, n + 1, k + 1) /\ Created(vm, m, n, k, TRUE)
      /\ Advances(vm, m, {}, {}, {}, {})
  BY <1>1, NewPromiseStep, NewGoes
<1> HIDE DEF m
<1>4. LastPair(m) = k + 1 /\ NP(m) = n + 1
  <2>1. Sound(m, n + 1, k + 1) /\ n + 1 \in Nat /\ k + 1 \in Nat
    BY <1>1, <1>3 DEF Becomes
  <2> QED
    BY <2>1, Numbers
<1>5. FramesFit(m, stack)
  BY <1>1, <1>3, FramesGo
<1>6. f.k = "executor" /\ f.pair = k + 1
  BY <1>4 DEF Frame
<1>7. k + 1 \in 1 .. Len(m.pairs) /\ m.pairs[k + 1].exposed
  BY <1>1, <1>3, <1>4 DEF LastPair, Created, OnePair
<1> HIDE DEF f
<1>8. FramesFit(vm', stack')
  BY <1>1, <1>2, <1>5, <1>6, <1>7, FrameAbove
<1>9. NP(vm) <= NP(vm')
  BY <1>1, <1>2, <1>4 DEF n
<1>10. /\ DerivedMore(vm', derived, derived') /\ MirrorMore(vm', mirror, mirror')
       /\ DueMore(vm', due, due')
  BY <1>2, NothingMore
<1> QED
  BY <1>2, <1>3, <1>8, <1>9, <1>10, UserContinues

\* User code calls a function it has been given.
LEMMA ArrivesByCallPair ==
    ASSUME OInv, PInv', NEW i \in 1 .. Len(vm.pairs), NEW r \in BOOLEAN,
           NEW v \in UserValues, CallPair(i, r, v)
    PROVE  OInv'
<1> DEFINE n == NP(vm)
           k == LastPair(vm)
           d == vm.pairs[i].promise
<1>1. n \in Nat /\ k \in Nat /\ Sound(vm, n, k) /\ Linked(vm)
      /\ FramesFit(vm, stack) /\ vm \in Heaps(n, k)
  BY CurrentHeap DEF OInv
<1>2. /\ vm' = CallResolvingFunction(vm, i, r, v) /\ Become(vm')
      /\ stack' = stack /\ vm.pairs[i].exposed
      /\ derived' = derived /\ due' = due
      /\ mirror' = IF r \/ vm.pairs[i].already THEN mirror
                   ELSE mirror \cup Follows(d, v)
  BY DEF CallPair, Act, Become
<1>3. v \in ValuesOf(n) /\ i \in 1 .. k
  BY <1>1, UserValuesTyped DEF LastPair
<1>4. d \in 1 .. n
  <2>1. vm.pairs[i] \in PairsOf(n)
    BY <1>1, <1>3, HeapFields
  <2> QED
    BY <2>1 DEF PairsOf
<1> HIDE DEF n, k, d
<1>5. Free(vm, i)
  BY <1>1, <1>2, ExposedFree
<1>6. Becomes(vm, vm', n, k)
  BY <1>1, <1>2, <1>3, CallStep
<1>7. /\ Advances(vm, vm', {}, {}, {}, {i})
      /\ ~vm.pairs[i].already => Resolved(vm', d, r, v)
  BY <1>1, <1>2, <1>3, <1>5, CallGoes DEF d
<1>8. NP(vm') = n
  BY <1>1, <1>6, Numbers DEF Becomes
<1>9. FramesFit(vm', stack')
  <2>1. \A c \in {} \cup {} \cup {i} : Open(vm, c)
    BY <1>2 DEF Open
  <2> QED
    BY <1>1, <1>2, <1>7, <2>1, FramesGo
<1>10. MirrorMore(vm', mirror, mirror')
  <2>1. CASE r \/ vm.pairs[i].already
    BY <1>2, <2>1, NothingMore
  <2>2. CASE ~(r \/ vm.pairs[i].already)
    <3>1. r = FALSE /\ mirror' = mirror \cup Follows(d, v)
      BY <1>2, <2>2
    <3>2. Resolved(vm', d, FALSE, v)
      BY <1>7, <2>2, <3>1
    <3>3. Len(vm'.promises) = n
      BY <1>8 DEF NP
    <3> QED
      BY <1>1, <1>3, <1>4, <3>1, <3>2, <3>3, FollowsShared
  <2> QED
    BY <2>1, <2>2
<1>11. DerivedMore(vm', derived, derived') /\ DueMore(vm', due, due')
  BY <1>2, NothingMore
<1>12. NP(vm) <= NP(vm')
  BY <1>1, <1>8 DEF n
<1>13. \A x \in {} : vm'.pairs[x].promise \in NP(vm) + 1 .. NP(vm')
  OBVIOUS
<1>14. Become(vm') /\ Advances(vm, vm', {}, {}, {}, {i})
  BY <1>2, <1>7
<1> QED
  BY <1>9, <1>10, <1>11, <1>12, <1>13, <1>14, UserContinues

\* p.then, p.catch and p.finally make one promise more, which shares the
\* outcomes of p for which there is no handler.
LEMMA ThenContinues ==
    ASSUME OInv, PInv', Become(vm'), NEW n, NEW k, n = NP(vm), k = LastPair(vm),
           NEW p \in 1 .. n, NEW f \in HandlersOf(n, k), NEW r \in HandlersOf(n, k),
           Relay(f) = {}, Relay(r) = {}, r.k = "finally" => r.i # 0,
           vm' = Then(vm, p, f, r), stack' = stack, due' = due,
           derived' = derived \cup {<<n + 1, p>>},
           \A t \in mirror' : \/ t \in mirror
                              \/ f = NoHandler /\ t = <<n + 1, p, "fulfilled">>
                              \/ r = NoHandler /\ t = <<n + 1, p, "rejected">>
    PROVE  OInv'
<1>1. n \in Nat /\ k \in Nat /\ Sound(vm, n, k) /\ Linked(vm)
      /\ FramesFit(vm, stack) /\ Len(vm.pairs) = k
  BY CurrentHeap DEF OInv, LastPair
<1>2. Usable(vm, f) /\ Usable(vm, r) /\ Relay(f) \cup Relay(r) = {}
  BY DEF Usable
<1>3. /\ Sound(vm', n + 1, k + 1) /\ OnePair(vm, vm', k, n + 1, FALSE)
      /\ Advances(vm, vm', {}, {k + 1}, Relay(f) \cup Relay(r), {})
      /\ Reacts(vm', p, f, r, k + 1, n + 1)
  BY <1>1, <1>2, ThenGoes
<1>4. Advances(vm, vm', {}, {k + 1}, {}, {})
  BY <1>2, <1>3
<1>5. NP(vm') = n + 1 /\ Len(vm'.promises) = n + 1
  <2>1. n + 1 \in Nat /\ k + 1 \in Nat
    BY <1>1
  <2> QED
    BY <1>3, <2>1, Numbers DEF NP
<1>6. FramesFit(vm', stack')
  <2>1. \A c \in {k + 1} \cup {} \cup {} : Open(vm, c)
    BY <1>1 DEF Open
  <2>2. FramesFit(vm', stack)
    BY <1>1, <1>4, <2>1, FramesGo
  <2> QED
    BY <2>2
<1>7. p \in 1 .. n + 1 /\ n + 1 \in 1 .. n + 1 /\ NP(vm) <= NP(vm')
  BY <1>1, <1>5
<1>8. \A x \in {k + 1} : vm'.pairs[x].promise \in NP(vm) + 1 .. NP(vm')
  BY <1>1, <1>3, <1>5 DEF OnePair
<1>9. DerivedMore(vm', derived, derived')
  BY <1>3, <1>5, <1>7 DEF DerivedMore, Reacts
<1>10. MirrorMore(vm', mirror, mirror')
  <2>1. vm'.pairs[k + 1].promise = n + 1 /\ {"fulfilled", "rejected"} = Outcomes
    BY <1>3 DEF OnePair, Outcomes
  <2>2. f = NoHandler => PassesOn(vm', f, k + 1, n + 1, "fulfilled")
    BY <2>1 DEF PassesOn
  <2>3. r = NoHandler => PassesOn(vm', r, k + 1, n + 1, "rejected")
    BY <2>1 DEF PassesOn
  <2>4. /\ f = NoHandler => Shares(vm', n + 1, p, "fulfilled")
        /\ r = NoHandler => Shares(vm', n + 1, p, "rejected")
    <3>1. \A o \in Outcomes :
             PassesOn(vm', IF o = "rejected" THEN r ELSE f, k + 1, n + 1, o)
                 => Shares(vm', n + 1, p, o)
      BY <1>3 DEF Reacts
    <3>2. "fulfilled" \in Outcomes /\ "rejected" \in Outcomes
      BY <2>1
    <3>3. /\ PassesOn(vm', f, k + 1, n + 1, "fulfilled")
                => Shares(vm', n + 1, p, "fulfilled")
          /\ PassesOn(vm', r, k + 1, n + 1, "rejected")
                => Shares(vm', n + 1, p, "rejected")
      BY <3>1, <3>2
    <3> QED
      BY <2>2, <2>3, <3>3
  <2> QED
    BY <1>5, <1>7, <2>1, <2>4 DEF MirrorMore
<1>11. DueMore(vm', due, due')
  BY NothingMore
<1> QED
  BY <1>4, <1>6, <1>7, <1>8, <1>9, <1>10, <1>11, UserContinues

\* p.then and p.catch.
LEMMA ArrivesByUserThen ==
    ASSUME OInv, PInv', NEW p \in 1 .. NP(vm), NEW f \in {NoHandler, UserHandler},
           NEW r \in {NoHandler, UserHandler}, UserThen(p, f, r)
    PROVE  OInv'
<1> DEFINE n == NP(vm)
           k == LastPair(vm)
           m == Then(vm, p, f, r)
<1>1. n \in Nat /\ k \in Nat /\ Sound(vm, n, k)
  BY CurrentHeap DEF OInv
<1>2. /\ vm' = m /\ stack' = stack /\ due' = due /\ Become(vm')
      /\ derived' = derived \cup {<<NP(m), p>>}
      /\ mirror' = mirror
           \cup (IF f = NoHandler THEN {<<NP(m), p, "fulfilled">>} ELSE {})
           \cup (IF r = NoHandler THEN {<<NP(m), p, "rejected">>} ELSE {})
  BY DEF UserThen, Act, Become
<1>3. /\ f \in HandlersOf(n, k) /\ r \in HandlersOf(n, k) /\ p \in 1 .. n
      /\ ~IsAwait(f) /\ ~IsAwait(r)
  BY <1>1, OwnValues
<1>4. Relay(f) = {} /\ Relay(r) = {} /\ r.k # "finally"
  BY DEF Relay, NoHandler, UserHandler, Handler
<1> HIDE DEF n, k, m
<1>5. Becomes(vm, m, n + 1, k + 1) /\ n + 1 \in Nat /\ k + 1 \in Nat
  BY <1>1, <1>3, ThenStep DEF m
<1>6. NP(m) = n + 1
  BY <1>5, Numbers DEF Becomes
<1>7. /\ derived' = derived \cup {<<n + 1, p>>}
      /\ \A t \in mirror' : \/ t \in mirror
                            \/ f = NoHandler /\ t = <<n + 1, p, "fulfilled">>
                            \/ r = NoHandler /\ t = <<n + 1, p, "rejected">>
  BY <1>2, <1>6
<1>8. vm' = Then(vm, p, f, r) /\ stack' = stack /\ due' = due /\ Become(vm')
  BY <1>2 DEF m
<1> QED
  BY <1>3, <1>4, <1>7, <1>8, ThenContinues DEF n, k

\* p.finally.
LEMMA ArrivesByUserFinally ==
    ASSUME OInv, PInv', NEW p \in 1 .. NP(vm), NEW callable \in BOOLEAN,
           UserFinally(p, callable)
    PROVE  OInv'
<1> DEFINE n == NP(vm)
           k == LastPair(vm)
           f == IF callable THEN FinallyHandler(0) ELSE NoHandler
           r == IF callable THEN FinallyHandler(1) ELSE NoHandler
<1>1. n \in Nat /\ k \in Nat
  BY CurrentHeap DEF OInv
<1>2. /\ vm' = Finally(vm, p, callable) /\ stack' = stack /\ due' = due
      /\ Become(vm') /\ derived' = derived \cup {<<n + 1, p>>}
      /\ mirror' = mirror \cup (IF callable THEN {}
                                ELSE {<<n + 1, p, o>> : o \in Outcomes})
  BY DEF UserFinally, Act, Become
<1>3. vm' = Then(vm, p, f, r)
  BY <1>2 DEF Finally
<1>4. /\ f \in HandlersOf(n, k) /\ r \in HandlersOf(n, k) /\ p \in 1 .. n
  BY <1>1, OwnValues
<1>5. Relay(f) = {} /\ Relay(r) = {} /\ (r.k = "finally" => r.i # 0)
  BY DEF Relay, NoHandler, FinallyHandler, Handler
<1>6. \A t \in mirror' : \/ t \in mirror
                         \/ f = NoHandler /\ t = <<n + 1, p, "fulfilled">>
                         \/ r = NoHandler /\ t = <<n + 1, p, "rejected">>
  BY <1>2 DEF Outcomes
<1> HIDE DEF n, k, f, r
<1> QED
  BY <1>2, <1>3, <1>4, <1>5, <1>6, ThenContinues DEF n, k

\* A new promise that is resolved or rejected at once.
LEMMA ResolvedGoes ==
    ASSUME NEW n \in Nat, NEW k \in Nat, NEW m, Sound(m, n, k), Linked(m),
           NEW isReject \in BOOLEAN, NEW v \in ValuesOf(n)
    PROVE  LET m1 == NewPromiseCapability(m)
               m2 == CallResolvingFunction(m1, LastPair(m1), isReject, v)
           IN /\ Sound(m2, n + 1, k + 1) /\ NP(m1) = n + 1
              /\ Advances(m, m2, {}, {}, {}, {k + 1})
              /\ Resolved(m2, n + 1, isReject, v)
<1> DEFINE m1 == NewPromiseCapability(m)
           m2 == CallResolvingFunction(m1, LastPair(m1), isReject, v)
           N == n + 1
           K == k + 1
<1>1. /\ Becomes(m, m1, n + 1, k + 1) /\ Created(m, m1, n, k, FALSE)
      /\ Advances(m, m1, {}, {}, {}, {}) /\ Free(m1, k + 1)
  BY NewPromiseStep, NewGoes DEF NewPromiseCapability
<1> HIDE DEF m1
<1>2. N \in Nat /\ K \in Nat /\ n <= N /\ K \in 1 .. K
  OBVIOUS
<1>3. Sound(m1, N, K) /\ Linked(m1) /\ Free(m1, K) /\ m1 \in Heaps(N, K)
      /\ m \in Heaps(n, k)
  BY <1>1 DEF Becomes, Advances, Sound
<1>4. ~m1.pairs[K].already /\ m1.pairs[K].promise = N
  BY <1>1 DEF Created, OnePair
<1> HIDE DEF N, K
<1>5. LastPair(m1) = K /\ NP(m1) = N
  BY <1>2, <1>3, Numbers
<1>6. v \in ValuesOf(N)
  BY WiderParts DEF N
<1>7. Becomes(m1, m2, N, K)
  BY <1>2, <1>3, <1>5, <1>6, CallStep
<1>8. Advances(m1, m2, {}, {}, {}, {K}) /\ Resolved(m2, N, isReject, v)
  BY <1>2, <1>3, <1>4, <1>5, <1>6, CallGoes
<1> HIDE DEF m2
<1>9. Advances(m, m2, {}, {}, {}, {K})
  <2>1. Advances(m, m1, {}, {}, {}, {})
    BY <1>1
  <2>2. Advances(m, m2, {}, {} \cup {}, {} \cup {}, {} \cup {K})
    BY <1>2, <1>3, <1>8, <2>1, AdvancesThrough
  <2>3. {} \cup {} = {} /\ {} \cup {K} = {K}
    OBVIOUS
  <2> QED
    BY <2>2, <2>3
<1> QED
  BY <1>5, <1>7, <1>8, <1>9 DEF Becomes, N, K, m2, m1

\* Promise.resolve and Promise.reject.
LEMMA ArrivesByUserResolve ==
    ASSUME OInv, PInv', NEW r \in BOOLEAN, NEW v \in UserValues, UserResolve(r, v)
    PROVE  OInv'
<1> DEFINE n == NP(vm)
           k == LastPair(vm)
<1>1. n \in Nat /\ k \in Nat /\ Sound(vm, n, k) /\ Linked(vm)
      /\ FramesFit(vm, stack) /\ Len(vm.pairs) = k
  BY CurrentHeap DEF OInv, LastPair
<1>2. /\ vm' = PromiseResolve(vm, r, v) /\ stack' = stack /\ Become(vm')
      /\ derived' = derived /\ due' = due
      /\ mirror' = IF r \/ v.t = "promise" THEN mirror
                   ELSE mirror \cup Follows(n + 1, v)
  BY DEF UserResolve, Act, Become
<1>3. v \in ValuesOf(n)
  BY <1>1, UserValuesTyped
<1>4. mirror' = mirror
  BY <1>2 DEF Follows
<1> HIDE DEF n, k
<1>5. \E c : /\ Advances(vm, vm', {}, {}, {}, {c}) /\ Open(vm, c)
             /\ NP(vm) <= NP(vm')
  <2>1. CASE IsKept(r, v)
    <3>1. vm' = vm
      BY <1>2, <2>1 DEF PromiseResolve
    <3>2. Advances(vm, vm', {}, {}, {}, {k + 1})
      BY <1>1, <3>1, AdvancesItself
    <3>3. Open(vm, k + 1)
      BY <1>1 DEF Open
    <3>4. NP(vm) <= NP(vm')
      BY <1>1, <3>1 DEF n
    <3> QED
      BY <3>2, <3>3, <3>4
  <2>2. CASE ~IsKept(r, v)
    <3> DEFINE m1 == NewPromiseCapability(vm)
    <3>1. vm' = CallResolvingFunction(m1, LastPair(m1), r, v)
      BY <1>2, <2>2 DEF PromiseResolve
    <3>2. /\ Sound(vm', n + 1, k + 1)
          /\ Advances(vm, vm', {}, {}, {}, {k + 1})
      BY <1>1, <1>3, <3>1, ResolvedGoes
    <3>3. n + 1 \in Nat /\ k + 1 \in Nat
      BY <1>1
    <3>4. NP(vm') = n + 1
      BY <3>2, <3>3, Numbers
    <3>5. Open(vm, k + 1)
      BY <1>1 DEF Open
    <3>6. NP(vm) <= NP(vm')
      BY <1>1, <3>4 DEF n
    <3> QED
      BY <3>2, <3>5, <3>6
  <2> QED
    BY <2>1, <2>2
<1>6. PICK c : /\ Advances(vm, vm', {}, {}, {}, {c}) /\ Open(vm, c)
               /\ NP(vm) <= NP(vm')
  BY <1>5
<1>7. FramesFit(vm', stack')
  <2>1. \A a \in {} \cup {} \cup {c} : Open(vm, a)
    BY <1>6
  <2>2. FramesFit(vm', stack)
    BY <1>1, <1>6, <2>1, FramesGo
  <2> QED
    BY <1>2, <2>2
<1>8. /\ DerivedMore(vm', derived, derived') /\ MirrorMore(vm', mirror, mirror')
      /\ DueMore(vm', due, due')
  BY <1>2, <1>4, NothingMore
<1>9. \A x \in {} : vm'.pairs[x].promise \in NP(vm) + 1 .. NP(vm')
  OBVIOUS
<1>10. Become(vm') /\ Advances(vm, vm', {}, {}, {}, {c})
  BY <1>2, <1>6
<1> QED
  BY <1>6, <1>7, <1>8, <1>9, <1>10, UserContinues

\* The frame that runs, and those below it.
LEMMA TopFits ==
    ASSUME OInv, InFrame, NEW n, NEW k, n = NP(vm), k = LastPair(vm)
    PROVE  /\ Top.k \in {"executor", "then"} =>
                Top.pair \in 1 .. k /\ vm.pairs[Top.pair].exposed
           /\ Top.k \in {"handler", "finally"} =>
                /\ Top.pair \in 1 .. k /\ Private(vm, Top.pair)
                /\ Free(vm, Top.pair) /\ Pop = <<>>
           /\ Top.k = "finally" /\ Top.magic = 0 => Plain(Top.arg)
           /\ FramesFit(vm, Pop)
<1>1. stack \in Seq(FramesOf(n, k)) /\ stack # <<>> /\ FramesFit(vm, stack)
      /\ Len(vm.pairs) = k
  BY CurrentHeap DEF OInv, InFrame, Idle, LastPair
<1>2. Len(stack) \in 1 .. Len(stack)
  BY <1>1
<1>3. FramesFit(vm, Pop) /\ (Top.k \in {"handler", "finally"} => Pop = <<>>)
  BY <1>1, FramesBelow DEF Pop, Top
<1>4. /\ Top.k \in {"executor", "then"} =>
           Top.pair \in 1 .. Len(vm.pairs) /\ vm.pairs[Top.pair].exposed
      /\ Top.k \in {"handler", "finally"} =>
           Private(vm, Top.pair) /\ Free(vm, Top.pair)
      /\ Top.k = "finally" /\ Top.magic = 0 => Plain(Top.arg)
  BY <1>1, <1>2 DEF FramesFit, Top
<1>5. Private(vm, Top.pair) => Top.pair \in 1 .. k
  BY <1>1 DEF Private
<1> QED
  BY <1>1, <1>3, <1>4, <1>5

\* A frame ends: its pair is called, or nothing happens.
LEMMA EndContinues ==
    ASSUME OInv, PInv', InFrame, NEW n, NEW k, n = NP(vm), k = LastPair(vm),
           NEW r \in BOOLEAN, NEW v \in ValuesOf(n), Become(vm'),
           vm' = Complete(vm, Top.pair, r, v), stack' = Pop,
           derived' = derived, due' = due,
           \/ mirror' = mirror
           \/ /\ r = FALSE /\ Top.k = "handler"
              /\ mirror' = mirror \cup Follows(vm.pairs[Top.pair].promise, v)
    PROVE  OInv'
<1> DEFINE c == Top.pair
           d == vm.pairs[c].promise
<1>1. n \in Nat /\ k \in Nat /\ Sound(vm, n, k) /\ Linked(vm)
      /\ vm \in Heaps(n, k)
  BY CurrentHeap DEF OInv
<1>2. /\ Top.k \in {"executor", "then"} => c \in 1 .. k /\ vm.pairs[c].exposed
      /\ Top.k \in {"handler", "finally"} =>
           c \in 1 .. k /\ Private(vm, c) /\ Free(vm, c) /\ Pop = <<>>
      /\ FramesFit(vm, Pop)
  BY TopFits
<1>3. c \in 1 .. k /\ Free(vm, c)
  <2>1. Top.k \in FrameKinds
    BY TopTyped DEF OInv
  <2>2. CASE Top.k \in {"executor", "then"}
    BY <1>1, <1>2, <2>2, ExposedFree
  <2>3. CASE Top.k \in {"handler", "finally"}
    BY <1>2, <2>3
  <2> QED
    BY <2>1, <2>2, <2>3 DEF FrameKinds
<1>4. d \in 1 .. n
  <2>1. vm.pairs[c] \in PairsOf(n)
    BY <1>1, <1>3, HeapFields
  <2> QED
    BY <2>1 DEF PairsOf
<1> HIDE DEF c, d
<1>5. vm' = CallResolvingFunction(vm, c, r, v)
  BY <1>1, <1>3 DEF Complete, NoCap, c
<1>6. /\ Advances(vm, vm', {}, {}, {}, {c})
      /\ ~vm.pairs[c].already => Resolved(vm', d, r, v)
  BY <1>1, <1>3, <1>5, CallGoes DEF d
<1>7. Becomes(vm, vm', n, k)
  BY <1>1, <1>3, <1>5, CallStep
<1>8. NP(vm') = n /\ Len(vm'.promises) = n
  BY <1>1, <1>7, Numbers DEF Becomes, NP
<1>9. FramesFit(vm', stack')
  <2>1. CASE Top.k \in {"executor", "then"}
    <3>1. \A a \in {} \cup {} \cup {c} : Open(vm, a)
      BY <1>2, <2>1 DEF Open
    <3>2. FramesFit(vm', Pop)
      BY <1>2, <1>6, <3>1, FramesGo
    <3> QED
      BY <3>2
  <2>2. CASE Top.k \notin {"executor", "then"}
    <3>1. stack' = <<>>
      <4>1. Top.k \in FrameKinds
        BY TopTyped DEF OInv
      <4> QED
        BY <1>2, <2>2, <4>1 DEF FrameKinds
    <3> QED
      BY <3>1, NoFrames
  <2> QED
    BY <2>1, <2>2
<1>10. MirrorMore(vm', mirror, mirror')
  <2>1. CASE mirror' = mirror
    BY <2>1, NothingMore
  <2>2. CASE /\ r = FALSE /\ Top.k = "handler"
             /\ mirror' = mirror \cup Follows(d, v)
    <3>1. ~vm.pairs[c].already
      BY <1>2, <2>2 DEF Private
    <3>2. Resolved(vm', d, FALSE, v)
      BY <1>6, <2>2, <3>1
    <3>3. MirrorMore(vm', mirror, mirror \cup Follows(d, v))
      BY <1>1, <1>4, <1>8, <3>2, FollowsShared
    <3> QED
      BY <2>2, <3>3
  <2> QED
    BY <2>1, <2>2 DEF d, c
<1>11. DerivedMore(vm', derived, derived') /\ DueMore(vm', due, due')
  BY NothingMore
<1>12. NP(vm) <= NP(vm')
  BY <1>1, <1>8
<1>13. \A x \in {} : vm'.pairs[x].promise \in NP(vm) + 1 .. NP(vm')
  OBVIOUS
<1> QED
  BY <1>6, <1>9, <1>10, <1>11, <1>12, <1>13, UserContinues

\* The function of the last frame throws.
LEMMA ArrivesByThrow == ASSUME OInv, PInv', Throw PROVE OInv'
<1> DEFINE n == NP(vm)
           k == LastPair(vm)
<1>1. n \in Nat /\ k \in Nat
  BY CurrentHeap DEF OInv
<1>2. /\ InFrame /\ stack' = Pop /\ vm' = Complete(vm, Top.pair, TRUE, Error)
      /\ Become(vm') /\ derived' = derived /\ due' = due /\ mirror' = mirror
  BY DEF Throw, Become, history
<1>3. Error \in ValuesOf(n) /\ TRUE \in BOOLEAN
  BY <1>1, OwnValues
<1> HIDE DEF n, k
<1> QED
  BY <1>2, <1>3, EndContinues DEF n, k

\* js_promise_then_finally_func: the value or the error will be passed on.
OutcomeOf(magic) == IF magic = 0 THEN "fulfilled" ELSE "rejected"

\* The promise that js_promise_then_finally_func returns will have the outcome
\* that finally was called with.
LEMMA ThenFinallyGoes ==
    ASSUME NEW n \in Nat, NEW k \in Nat, NEW m, Sound(m, n, k), Linked(m),
           NEW res \in ValuesOf(n), NEW magic \in Nat, NEW arg \in ValuesOf(n)
    PROVE  LET m3 == ThenFinally(m, res, magic, arg)
           IN /\ Sound(m3, n + 2, k + 2)
              /\ Advances(m, m3, {}, {k + 2}, {}, {k + 1})
              /\ m3.pairs[k + 2].promise = n + 2
              /\ res = Prim /\ (magic = 0 => Plain(arg)) =>
                   Promised(m3, n + 2, OutcomeOf(magic), arg)
<1> DEFINE m1 == NewPromiseCapability(m)
           m2 == CallResolvingFunction(m1, LastPair(m1), FALSE, res)
           h == Handler(IF magic = 0 THEN "thunk" ELSE "thrower", 0, arg)
           m3 == Then(m2, NP(m1), h, NoHandler)
           N == n + 1
           K == k + 1
<1>1. /\ Sound(m2, N, K) /\ NP(m1) = N /\ Advances(m, m2, {}, {}, {}, {K})
      /\ Resolved(m2, N, FALSE, res)
  BY ResolvedGoes, Zenon
<1>2. ThenFinally(m, res, magic, arg) = m3
  BY DEF ThenFinally
<1> HIDE DEF m1, m2
<1>3. N \in Nat /\ K \in Nat /\ n <= N /\ k <= K /\ N \in 1 .. N
      /\ N + 1 = n + 2 /\ K + 1 = k + 2
  OBVIOUS
<1>4. /\ h.k = (IF magic = 0 THEN "thunk" ELSE "thrower") /\ h.v = arg
      /\ h \in [k : AllHandlers, i : Nat, v : ValuesOf(n)] /\ Relay(h) = {}
  BY DEF Handler, AllHandlers, HandlerKinds, Relay
<1> HIDE DEF h
<1>5. h \in HandlersOf(n, k) /\ Usable(m2, h)
  BY <1>4 DEF HandlersOf, Usable
<1>6. /\ NoHandler \in HandlersOf(N, K) /\ Relay(NoHandler) = {}
      /\ Usable(m2, NoHandler) /\ NoHandler.k # "finally"
  <2>1. Relay(NoHandler) = {} /\ NoHandler.k # "finally"
    BY DEF NoHandler, Handler, Relay
  <2> QED
    BY <1>3, <2>1, OwnValues DEF Usable
<1>7. h \in HandlersOf(N, K)
  BY <1>3, <1>5, WiderParts
<1> HIDE DEF N, K
<1>8. Linked(m2) /\ m \in Heaps(n, k) /\ m2 \in Heaps(N, K)
  BY <1>1 DEF Advances, Sound
<1>9. /\ Sound(m3, N + 1, K + 1)
      /\ Advances(m2, m3, {}, {K + 1}, Relay(h) \cup Relay(NoHandler), {})
      /\ OnePair(m2, m3, K, N + 1, FALSE)
      /\ Reacts(m3, N, h, NoHandler, K + 1, N + 1)
  BY <1>1, <1>3, <1>5, <1>6, <1>7, <1>8, ThenGoes
<1> HIDE DEF m3
<1>10. Advances(m2, m3, {}, {K + 1}, {}, {})
  <2>1. Relay(h) \cup Relay(NoHandler) = {}
    BY <1>4, <1>6
  <2> QED
    BY <1>9, <2>1
<1>11. Advances(m, m3, {}, {K + 1}, {}, {K})
  <2>1. Advances(m, m3, {}, {} \cup {K + 1}, {} \cup {}, {K} \cup {})
    BY <1>1, <1>3, <1>8, <1>10, AdvancesThrough
  <2>2. {} \cup {} = {} /\ {} \cup {K + 1} = {K + 1} /\ {K} \cup {} = {K}
    OBVIOUS
  <2> QED
    BY <2>1, <2>2
<1>12. m3.pairs[K + 1].promise = N + 1
  BY <1>9 DEF OnePair
<1>13. ASSUME res = Prim, magic = 0 => Plain(arg)
       PROVE  Promised(m3, N + 1, OutcomeOf(magic), arg)
  <2>1. Ends(m2, N, FALSE, res)
    <3>1. Plain(res)
      BY <1>13 DEF Plain, Prim, Val
    <3> QED
      BY <1>1, <3>1 DEF Resolved
  <2>2. m3.promises[N].state = "fulfilled"
    <3>1. m2.promises[N].state = "fulfilled" /\ Keeps(m2, m3)
      BY <1>10, <2>1 DEF Ends, StateOf, Advances, Onward
    <3>2. N \in 1 .. Len(m2.promises)
      BY <1>3, <1>8, HeapFields
    <3> QED
      BY <3>1, <3>2 DEF Keeps
  <2> DEFINE o == OutcomeOf(magic)
  <2>3. /\ o \in Outcomes /\ h.k = IF o = "rejected" THEN "thrower" ELSE "thunk"
        /\ o = "fulfilled" => Plain(arg)
    BY <1>4, <1>13 DEF OutcomeOf, Outcomes
  <2> HIDE DEF o
  <2>4. Promised(m3, N + 1, o, arg)
    BY <1>4, <1>9, <2>2, <2>3 DEF Reacts
  <2> QED
    BY <2>4 DEF o
<1> QED
  BY <1>2, <1>3, <1>9, <1>11, <1>12, <1>13 DEF K

\* The promise of pair c follows promise p.
Followed(m, c, p) == CallResolvingFunction(m, c, FALSE, PromiseVal(p))

\* What js_promise_then_finally_func comes to: promise d of pair c follows a new
\* promise, which will have the outcome that finally was called with.
FinallyDone(m, x, y, n, k, c, d, res, magic, arg) ==
    /\ Sound(x, n + 2, k + 2) /\ Sound(y, n + 2, k + 2)
    /\ Advances(m, y, {}, {k + 2}, {}, {k + 1, c})
    /\ y.pairs[k + 2].promise = n + 2
    /\ \E j \in 1 .. Len(y.jobs) : ByFollowing(y, j, d, n + 2)
    /\ res = Prim /\ (magic = 0 => Plain(arg)) =>
         Promised(y, n + 2, OutcomeOf(magic), arg)

\* js_promise_then_finally_func returns a promise that the reaction's own one
\* follows.
LEMMA FinallyGoes ==
    ASSUME NEW n \in Nat, NEW k \in Nat, NEW m, Sound(m, n, k), Linked(m),
           NEW c \in 1 .. k, Private(m, c), Free(m, c),
           NEW res \in ValuesOf(n), NEW magic \in Nat, NEW arg \in ValuesOf(n),
           NEW d, d = m.pairs[c].promise,
           NEW x, x = ThenFinally(m, res, magic, arg),
           NEW y, y = Followed(x, c, n + 2)
    PROVE  FinallyDone(m, x, y, n, k, c, d, res, magic, arg)
<1> DEFINE m3 == ThenFinally(m, res, magic, arg)
           N == n + 2
           K == k + 2
           o == OutcomeOf(magic)
           m4 == CallResolvingFunction(m3, c, FALSE, PromiseVal(N))
<1>1. /\ Sound(m3, N, K) /\ Advances(m, m3, {}, {K}, {}, {k + 1})
      /\ m3.pairs[K].promise = N
      /\ res = Prim /\ (magic = 0 => Plain(arg)) => Promised(m3, N, o, arg)
  BY ThenFinallyGoes, Zenon
<1> HIDE DEF m3
<1>2. N \in Nat /\ K \in Nat /\ n <= N /\ c \in 1 .. K /\ c # k + 1 /\ c # K
      /\ K \in 1 .. K /\ N \in 1 .. N /\ \A e \in 1 .. n : e # N
  OBVIOUS
<1>3. o \in Outcomes
  BY DEF OutcomeOf, Outcomes
<1> HIDE DEF N, K, o
<1>4. m \in Heaps(n, k) /\ m3 \in Heaps(N, K) /\ Linked(m3)
  BY <1>1 DEF Sound, Advances
<1>5. Len(m.pairs) = k /\ Len(m3.pairs) = K /\ Len(m3.promises) = N
  BY <1>2, <1>4, HeapFields
<1>6. m3.pairs[c] = m.pairs[c] /\ SlotsFrom(m, m3, {K}, {})
  BY <1>1, <1>2, <1>5 DEF Advances
<1>7. Free(m3, c)
  BY <1>2, <1>6, StillFree
<1>8. ~m3.pairs[c].already /\ m3.pairs[c].promise = d
  BY <1>6 DEF Private
<1>9. d # N
  <2>1. m.pairs[c] \in PairsOf(n)
    BY <1>4, HeapFields
  <2>2. d \in 1 .. n
    BY <2>1 DEF PairsOf
  <2> QED
    BY <1>2, <2>2
<1>10. /\ PromiseVal(N) \in ValuesOf(N) /\ PromiseVal(N).t = "promise"
       /\ PromiseVal(N).n = N
  BY <1>2 DEF PromiseVal, Val, ValuesOf, Values, Kinds
<1>11. FALSE \in BOOLEAN
  OBVIOUS
<1>12. Sound(m4, N, K)
  BY <1>1, <1>2, <1>10, <1>11, CallStep DEF Becomes
<1>13. Advances(m3, m4, {}, {}, {}, {c}) /\ Resolved(m4, d, FALSE, PromiseVal(N))
  BY <1>1, <1>2, <1>4, <1>7, <1>8, <1>10, <1>11, CallGoes
<1> HIDE DEF m4
<1>14. Advances(m, m4, {}, {K}, {}, {k + 1, c})
  <2>1. Advances(m, m3, {}, {K}, {}, {k + 1}) /\ Advances(m3, m4, {}, {}, {}, {c})
    BY <1>1, <1>13
  <2>2. Advances(m, m4, {}, {K} \cup {}, {} \cup {}, {k + 1} \cup {c})
    BY <1>2, <1>4, <2>1, AdvancesThrough
  <2>3. {} \cup {} = {} /\ {K} \cup {} = {K} /\ {k + 1} \cup {c} = {k + 1, c}
    OBVIOUS
  <2> QED
    BY <2>2, <2>3
<1>15. m4.pairs[K].promise = N
  <2>1. PairsStay(m3, m4)
    BY <1>13 DEF Advances
  <2> QED
    BY <1>1, <1>2, <1>5, <2>1 DEF PairsStay
<1>16. \E j \in 1 .. Len(m4.jobs) : ByFollowing(m4, j, d, N)
  BY <1>9, <1>10, <1>13 DEF Resolved
<1>17. res = Prim /\ (magic = 0 => Plain(arg)) => Promised(m4, N, o, arg)
  <2>1. Onward(m3, m4, {})
    BY <1>13 DEF Advances
  <2>2. Promised(m3, N, o, arg) => Promised(m4, N, o, arg)
    BY <1>2, <1>3, <1>5, <2>1 DEF Onward
  <2> QED
    BY <1>1, <2>2
<1> QED
  BY <1>1, <1>12, <1>14, <1>15, <1>16, <1>17 DEF m3, m4, N, K, o, Followed, FinallyDone

\* The callback of finally returns: its promise follows one that will have the
\* outcome that finally was called with.
LEMMA FinallyContinues ==
    ASSUME OInv, PInv', InFrame, Top.k = "finally", NEW n, NEW k, n = NP(vm),
           k = LastPair(vm), NEW v \in ValuesOf(n), NEW m,
           m = ThenFinally(vm, v, Top.magic, Top.arg), Become(vm'),
           vm' = Complete(m, Top.pair, FALSE, PromiseVal(NP(m))), stack' = Pop,
           derived' = derived, mirror' = mirror,
           NEW d, d = vm.pairs[Top.pair].promise, NEW o, o = OutcomeOf(Top.magic),
           due' = IF v # Prim THEN due ELSE due \cup {<<d, o, Top.arg>>}
    PROVE  OInv'
<1> DEFINE c == Top.pair
           N == n + 2
           K == k + 2
<1>1. n \in Nat /\ k \in Nat /\ Sound(vm, n, k) /\ Linked(vm)
      /\ vm \in Heaps(n, k)
  BY CurrentHeap DEF OInv
<1>2. /\ Top.magic \in Nat /\ Top.arg \in ValuesOf(n)
  BY TopTyped DEF OInv
<1>3. /\ c \in 1 .. k /\ Private(vm, c) /\ Free(vm, c) /\ Pop = <<>>
      /\ Top.magic = 0 => Plain(Top.arg)
  BY TopFits
<1>4. d \in 1 .. n
  <2>1. vm.pairs[c] \in PairsOf(n)
    BY <1>1, <1>3, HeapFields
  <2> QED
    BY <2>1 DEF PairsOf
<1> DEFINE m3 == ThenFinally(vm, v, Top.magic, Top.arg)
           m4 == CallResolvingFunction(m3, c, FALSE, PromiseVal(N))
<1>5. /\ Sound(m3, N, K) /\ Sound(m4, N, K)
      /\ Advances(vm, m4, {}, {K}, {}, {k + 1, c})
      /\ m4.pairs[K].promise = N
      /\ \E j \in 1 .. Len(m4.jobs) : ByFollowing(m4, j, d, N)
      /\ v = Prim /\ (Top.magic = 0 => Plain(Top.arg)) =>
           Promised(m4, N, o, Top.arg)
  <2>1. c \in 1 .. k /\ Private(vm, c) /\ Free(vm, c) /\ d = vm.pairs[c].promise
    BY <1>3
  <2>2. OutcomeOf(Top.magic) = o
    OBVIOUS
  <2> HIDE DEF c
  <2>3. /\ Sound(m3, N, K) /\ Sound(m4, N, K)
        /\ Advances(vm, m4, {}, {K}, {}, {k + 1, c})
        /\ m4.pairs[K].promise = N
        /\ \E j \in 1 .. Len(m4.jobs) : ByFollowing(m4, j, d, N)
        /\ v = Prim /\ (Top.magic = 0 => Plain(Top.arg)) =>
             Promised(m4, N, OutcomeOf(Top.magic), Top.arg)
    <3> DEFINE magic == Top.magic
               arg == Top.arg
    <3>1. /\ m3 = ThenFinally(vm, v, magic, arg) /\ m4 = Followed(m3, c, n + 2)
          /\ magic \in Nat /\ arg \in ValuesOf(n)
      BY <1>2 DEF Followed
    <3> HIDE DEF m3, m4, magic, arg
    <3>2. FinallyDone(vm, m3, m4, n, k, c, d, v, magic, arg)
      BY ONLY <1>1, <2>1, <3>1, v \in ValuesOf(n), FinallyGoes
    <3> QED
      BY <3>2 DEF magic, arg, FinallyDone
  <2> QED
    BY <2>2, <2>3
<1>6. N \in Nat /\ K \in Nat /\ n <= N /\ N \in n + 1 .. N /\ d \in 1 .. N
      /\ N \in 1 .. N /\ c # 0
  BY <1>1, <1>3, <1>4
<1>7. o \in Outcomes
  BY DEF OutcomeOf, Outcomes
<1>8. m = m3
  OBVIOUS
<1> HIDE DEF N, K, m3, c
<1>9. NP(m) = N
  BY <1>5, <1>6, <1>8, Numbers
<1>10. vm' = m4
  BY <1>6, <1>8, <1>9 DEF Complete, NoCap, c
<1> HIDE DEF m4
<1>11. NP(vm') = N /\ Len(vm'.promises) = N
  <2>1. Sound(vm', N, K)
    BY <1>5, <1>10
  <2> QED
    BY <1>6, <2>1, Numbers DEF NP
<1>12. Advances(vm, vm', {}, {K}, {}, {k + 1, c})
  BY <1>5, <1>10
<1>13. \A x \in {K} : vm'.pairs[x].promise \in NP(vm) + 1 .. NP(vm')
  BY <1>5, <1>6, <1>10, <1>11
<1>14. FramesFit(vm', stack')
  BY <1>3, NoFrames
<1>15. DueMore(vm', due, due')
  <2>1. CASE v # Prim
    BY <2>1, NothingMore
  <2>2. CASE v = Prim
    <3>1. Promised(vm', N, o, Top.arg)
      BY <1>3, <1>5, <1>10, <2>2
    <3>2. Shares(vm', d, N, o)
      BY <1>5, <1>10 DEF Shares
    <3> DEFINE u == <<d, o, Top.arg>>
    <3>3. u[1] = d /\ u[2] = o /\ u[3] = Top.arg
      OBVIOUS
    <3>4. \A t \in due' : t \in due \/ t = u
      BY <2>2
    <3> HIDE DEF u
    <3>5. /\ u[1] \in 1 .. N /\ u[2] \in Outcomes
          /\ \E q \in 1 .. N : Shares(vm', u[1], q, u[2]) /\ Promised(vm', q, u[2], u[3])
      BY <1>6, <1>7, <3>1, <3>2, <3>3
    <3> QED
      BY <1>11, <3>4, <3>5, Zenon DEF DueMore
  <2> QED
    BY <2>1, <2>2
<1>16. DerivedMore(vm', derived, derived') /\ MirrorMore(vm', mirror, mirror')
  BY NothingMore
<1>17. NP(vm) <= NP(vm')
  BY <1>6, <1>11
<1> QED
  BY <1>12, <1>13, <1>14, <1>15, <1>16, <1>17, UserContinues

\* The function of the last frame returns.
LEMMA ArrivesByReturn ==
    ASSUME OInv, PInv', NEW v \in UserValues, Return(v)
    PROVE  OInv'
<1> DEFINE n == NP(vm)
           k == LastPair(vm)
<1>1. n \in Nat /\ k \in Nat /\ Linked(vm)
  BY CurrentHeap DEF OInv
<1>2. InFrame /\ stack' = Pop
  BY DEF Return
<1>3. v \in ValuesOf(n) /\ FALSE \in BOOLEAN
  BY <1>1, UserValuesTyped
<1>4. Top.k \in FrameKinds
  BY <1>2, TopTyped DEF OInv
<1>5. CASE Top.k \in {"executor", "then"}
  <2>1. /\ vm' = vm /\ Become(vm') /\ derived' = derived /\ mirror' = mirror
        /\ due' = due
    BY <1>5 DEF Return, Become, history
  <2>2. Advances(vm, vm', {}, {}, {}, {})
    BY <1>1, <2>1, AdvancesItself
  <2>3. FramesFit(vm', stack')
    BY <1>2, <2>1, TopFits
  <2>4. /\ DerivedMore(vm', derived, derived') /\ MirrorMore(vm', mirror, mirror')
        /\ DueMore(vm', due, due')
    BY <2>1, NothingMore
  <2>5. /\ NP(vm) <= NP(vm')
        /\ \A x \in {} : vm'.pairs[x].promise \in NP(vm) + 1 .. NP(vm')
    BY <1>1, <2>1
  <2>6. Become(vm')
    BY <2>1
  <2> QED
    BY <2>2, <2>3, <2>4, <2>5, <2>6, UserContinues
<1>6. CASE Top.k = "handler"
  <2>1. /\ vm' = Complete(vm, Top.pair, FALSE, v) /\ Become(vm')
        /\ derived' = derived /\ due' = due
        /\ mirror' = IF Top.pair = NoCap THEN mirror
                     ELSE mirror \cup Follows(vm.pairs[Top.pair].promise, v)
    BY <1>6 DEF Return, Become
  <2>2. \/ mirror' = mirror
        \/ /\ FALSE = FALSE /\ Top.k = "handler"
           /\ mirror' = mirror \cup Follows(vm.pairs[Top.pair].promise, v)
    BY <1>6, <2>1
  <2> HIDE DEF n, k
  <2> QED
    BY <1>2, <1>3, <2>1, <2>2, EndContinues DEF n, k
<1>7. CASE Top.k = "finally"
  <2> DEFINE m == ThenFinally(vm, v, Top.magic, Top.arg)
  <2>1. /\ vm' = Complete(m, Top.pair, FALSE, PromiseVal(NP(m))) /\ Become(vm')
        /\ derived' = derived /\ mirror' = mirror
        /\ due' = IF v # Prim THEN due
                  ELSE due \cup {<<vm.pairs[Top.pair].promise,
                                   OutcomeOf(Top.magic), Top.arg>>}
    BY <1>7 DEF Return, Become, OutcomeOf
  <2>2. m = ThenFinally(vm, v, Top.magic, Top.arg)
    OBVIOUS
  <2> HIDE DEF m, n, k
  <2> QED
    BY <1>2, <1>3, <1>7, <2>1, <2>2, FinallyContinues DEF n, k
<1> QED
  BY <1>4, <1>5, <1>6, <1>7 DEF FrameKinds

\* Promise d has been settled, and job 1 was to settle it.
Has(m, d, o, v) == m.promises[d].state = o /\ m.promises[d].result = v

\* If job 1 settles whatever it was to settle, all it carried has arrived.
LEMMA ArrivesAt ==
    ASSUME NEW m, NEW m2, Keeps(m, m2), m.jobs[1].k = "reaction",
           \A o \in Outcomes : \A d :
               /\ m.jobs[1].rej = (o = "rejected")
               /\ PassesOn(m, m.jobs[1].h, m.jobs[1].cap, d, o)
               => Has(m2, d, o, m.jobs[1].arg),
           \A o \in Outcomes :
               /\ m.jobs[1].h.k = IF o = "rejected" THEN "thrower" ELSE "thunk"
               /\ o = "fulfilled" => Plain(m.jobs[1].h.v)
               => Has(m2, m.pairs[m.jobs[1].cap].promise, o, m.jobs[1].h.v)
    PROVE  Arrives(m, m2, {1})
<1> DEFINE P == 1 .. Len(m.promises)
<1>1. ASSUME NEW d \in P, NEW p \in P, NEW o \in Outcomes, ByJob(m, 1, d, p, o)
      PROVE  Shares(m2, d, p, o)
  <2>1. /\ m.promises[p].state = o /\ m.jobs[1].arg = m.promises[p].result
        /\ Has(m2, d, o, m.jobs[1].arg)
    BY <1>1 DEF ByJob
  <2>2. o # "pending"
    BY DEF Outcomes
  <2>3. m2.promises[p].state = o /\ m2.promises[p].result = m.promises[p].result
    BY <2>1, <2>2 DEF Keeps
  <2> QED
    BY <2>1, <2>2, <2>3 DEF Shares, Same, Has
<1>2. \A d, p : ~ByFollowing(m, 1, d, p)
  BY DEF ByFollowing
<1>3. ASSUME NEW q \in P, NEW o \in Outcomes, NEW v, ByFinally(m, 1, q, o, v)
      PROVE  Promised(m2, q, o, v)
  <2>1. Has(m2, q, o, v)
    BY <1>3 DEF ByFinally
  <2> QED
    BY <2>1 DEF Promised, Has
<1> QED
  BY <1>1, <1>2, <1>3 DEF Arrives

\* The functions that job 1 calls, and what a call of one of them does.
Claimed(m) == {m.jobs[1].cap} \cup Relay(m.jobs[1].h)
Called(m, m2, n, k, c, isReject, v) ==
    /\ Sound(m2, n, k) /\ Advances(m, m2, {1}, {}, {}, {c})
    /\ Resolved(m2, m.pairs[c].promise, isReject, v)
    /\ \A e \in Claimed(m) : Free(m2, e) /\ (e # c => Private(m2, e))

\* Whoever runs job 1 may call one of the functions it claimed.
LEMMA JobCalls ==
    ASSUME NEW n \in Nat, NEW k \in Nat, NEW m, Sound(m, n, k), Linked(m),
           m.jobs # <<>>, m.jobs[1].k = "reaction",
           NEW c \in Claimed(m), NEW isReject \in BOOLEAN, NEW v \in ValuesOf(n),
           NEW m2, m2 = CallResolvingFunction(Popped(m), c, isReject, v)
    PROVE  Called(m, m2, n, k, c, isReject, v)
<1> DEFINE m1 == Popped(m)
<1>1. /\ Sound(m1, n, k) /\ Advances(m, m1, {1}, {}, {}, {})
      /\ m1.pairs = m.pairs
      /\ \A e \in Claimed(m) : Private(m1, e) /\ Free(m1, e)
  BY DequeueGoes DEF Claimed
<1>2. m2 = CallResolvingFunction(m1, c, isReject, v)
  OBVIOUS
<1> HIDE DEF m1
<1>3. m \in Heaps(n, k) /\ m1 \in Heaps(n, k) /\ Linked(m1)
  BY <1>1 DEF Sound, Advances
<1>4. Len(m1.pairs) = k
  BY <1>3, HeapFields
<1>5. c \in 1 .. k /\ ~m1.pairs[c].already /\ Free(m1, c)
      /\ m1.pairs[c].promise = m.pairs[c].promise
  BY <1>1, <1>4 DEF Private
<1>6. Sound(m2, n, k)
  BY <1>1, <1>2, <1>5, CallStep DEF Becomes
<1>7. Advances(m1, m2, {}, {}, {}, {c})
      /\ Resolved(m2, m1.pairs[c].promise, isReject, v)
  BY <1>1, <1>2, <1>3, <1>5, CallGoes
<1>8. Advances(m, m2, {1}, {}, {}, {c})
  <2>1. Advances(m, m1, {1}, {}, {}, {}) /\ n <= n
    BY <1>1
  <2>2. Advances(m, m2, {1}, {} \cup {}, {} \cup {}, {} \cup {c})
    BY <1>3, <1>7, <2>1, AdvancesThrough
  <2>3. {} \cup {} = {} /\ {} \cup {c} = {c}
    OBVIOUS
  <2> QED
    BY <2>2, <2>3
<1>9. ASSUME NEW e \in Claimed(m) PROVE Free(m2, e) /\ (e # c => Private(m2, e))
  <2>1. Private(m1, e) /\ Free(m1, e) /\ SlotsFrom(m1, m2, {}, {})
        /\ PairsStay(m1, m2)
    BY <1>1, <1>7 DEF Advances
  <2>2. Free(m2, e)
    BY <2>1, StillFree
  <2>3. e \in 1 .. Len(m1.pairs)
    BY <2>1 DEF Private
  <2>4. e # c => m2.pairs[e] = m1.pairs[e]
    BY <1>7, <2>3 DEF Advances
  <2> QED
    BY <2>1, <2>2, <2>4, PrivateStill
<1> QED
  BY <1>5, <1>6, <1>7, <1>8, <1>9 DEF Called

\* What job 1 was to bring has arrived.
Carried(m, m2, n, k) ==
    /\ Sound(m2, n, k) /\ Arrives(m, m2, {1}) /\ Free(m2, m.jobs[1].cap)
    /\ \E U : Advances(m, m2, {1}, {}, {}, U)

\* The pair of the reaction is called at once.
LEMMA NativeEnds ==
    ASSUME NEW n \in Nat, NEW k \in Nat, NEW m, Sound(m, n, k), Linked(m),
           m.jobs # <<>>, m.jobs[1].k = "reaction",
           NEW m2, NEW isReject \in BOOLEAN, NEW v \in ValuesOf(n),
           m2 = CallResolvingFunction(Popped(m), m.jobs[1].cap, isReject, v),
           \/ /\ m.jobs[1].h.k = "undefined" /\ isReject = m.jobs[1].rej
              /\ v = m.jobs[1].arg
           \/ m.jobs[1].h.k = "thunk" /\ isReject = FALSE /\ v = m.jobs[1].h.v
           \/ m.jobs[1].h.k = "thrower" /\ isReject = TRUE /\ v = m.jobs[1].h.v
    PROVE  Carried(m, m2, n, k)
<1> DEFINE c == m.jobs[1].cap
           d == m.pairs[c].promise
<1>1. c \in Claimed(m)
  BY DEF Claimed
<1>2. Called(m, m2, n, k, c, isReject, v)
  BY <1>1, JobCalls
<1>3. /\ Sound(m2, n, k) /\ Advances(m, m2, {1}, {}, {}, {c}) /\ Free(m2, c)
      /\ Resolved(m2, d, isReject, v)
  BY <1>1, <1>2 DEF Called
<1>4. isReject \/ Plain(v) => Has(m2, d, StateOf(isReject), v)
  BY <1>3 DEF Resolved, Ends, Has
<1>5. Keeps(m, m2)
  BY <1>3 DEF Advances, Onward
<1>6. m.jobs[1].rej \/ Plain(m.jobs[1].arg)
  <2>1. m \in Heaps(n, k)
    BY DEF Sound
  <2>2. m.jobs \in Seq(JobsOf(n, k))
    BY <2>1, HeapFields
  <2>3. 1 \in 1 .. Len(m.jobs)
    BY <2>2
  <2> QED
    BY <2>3 DEF Linked, Regular
<1>7. ASSUME NEW o \in Outcomes, NEW e, m.jobs[1].rej = (o = "rejected"),
             PassesOn(m, m.jobs[1].h, c, e, o)
      PROVE  Has(m2, e, o, m.jobs[1].arg)
  <2>1. m.jobs[1].h.k = "undefined" /\ isReject = m.jobs[1].rej
        /\ v = m.jobs[1].arg
    BY <1>7 DEF PassesOn, NoHandler, Handler
  <2>2. e = d
    BY <1>7, <2>1 DEF PassesOn
  <2>3. StateOf(isReject) = o
    BY <1>7, <2>1 DEF StateOf, Outcomes
  <2> QED
    BY <1>4, <1>6, <2>1, <2>2, <2>3
<1>8. ASSUME NEW o \in Outcomes,
             m.jobs[1].h.k = IF o = "rejected" THEN "thrower" ELSE "thunk",
             o = "fulfilled" => Plain(m.jobs[1].h.v)
      PROVE  Has(m2, d, o, m.jobs[1].h.v)
  <2>1. v = m.jobs[1].h.v /\ isReject = (o = "rejected")
    BY <1>8
  <2>2. StateOf(isReject) = o /\ (isReject \/ Plain(v))
    BY <1>8, <2>1 DEF StateOf, Outcomes
  <2> QED
    BY <1>4, <2>1, <2>2
<1> HIDE DEF c, d
<1>9. Arrives(m, m2, {1})
  BY <1>5, <1>7, <1>8, ArrivesAt DEF c, d
<1> QED
  BY <1>3, <1>9 DEF Carried, c

\* The handler of the reaction is a resolving function of another promise.
LEMMA NativeRelays ==
    ASSUME NEW n \in Nat, NEW k \in Nat, NEW m, Sound(m, n, k), Linked(m),
           m.jobs # <<>>, m.jobs[1].k = "reaction",
           NEW isReject \in BOOLEAN,
           m.jobs[1].h.k = IF isReject THEN "reject" ELSE "resolve",
           m.jobs[1].arg \in ValuesOf(n),
           NEW m1, NEW m2,
           m1 = CallResolvingFunction(Popped(m), m.jobs[1].h.i, isReject,
                                      m.jobs[1].arg),
           m2 = CallResolvingFunction(m1, m.jobs[1].cap, FALSE, Undefined)
    PROVE  Carried(m, m2, n, k)
<1> DEFINE c == m.jobs[1].cap
           i == m.jobs[1].h.i
           v == m.jobs[1].arg
           d == m.pairs[i].promise
<1>1. i \in Claimed(m) /\ c \in Claimed(m) /\ v \in ValuesOf(n)
  BY DEF Claimed, Relay
<1>2. c # i
  BY DequeueGoes DEF Relay
<1>3. Called(m, m1, n, k, i, isReject, v)
  BY <1>1, JobCalls
<1> HIDE DEF c, i, v
<1>4. /\ Sound(m1, n, k) /\ Advances(m, m1, {1}, {}, {}, {i})
      /\ Resolved(m1, d, isReject, v) /\ Free(m1, c) /\ Private(m1, c)
  BY <1>1, <1>2, <1>3 DEF Called
<1>5. /\ m \in Heaps(n, k) /\ m1 \in Heaps(n, k) /\ Linked(m1)
  BY <1>4 DEF Sound, Advances
<1>6. Len(m1.pairs) = k /\ Len(m1.promises) = n /\ Len(m.pairs) = k
      /\ Len(m.promises) = n
  BY <1>5, HeapFields
<1>7. c \in 1 .. k /\ ~m1.pairs[c].already
  BY <1>4, <1>6 DEF Private
<1>8. Undefined \in ValuesOf(n) /\ FALSE \in BOOLEAN
  BY OwnValues
<1>9. m2 = CallResolvingFunction(m1, c, FALSE, Undefined)
  BY DEF c
<1>10. Sound(m2, n, k)
  BY <1>4, <1>7, <1>8, <1>9, CallStep DEF Becomes
<1>11. Advances(m1, m2, {}, {}, {}, {c})
  BY <1>4, <1>5, <1>7, <1>8, <1>9, CallGoes
<1>12. Advances(m, m2, {1}, {}, {}, {i, c})
  <2>1. Advances(m, m1, {1}, {}, {}, {i}) /\ n <= n
    BY <1>4
  <2>2. Advances(m, m2, {1}, {} \cup {}, {} \cup {}, {i} \cup {c})
    BY ONLY n \in Nat, k \in Nat, <1>5, <1>11, <2>1, AdvancesThrough
  <2>3. {} \cup {} = {} /\ {i} \cup {c} = {i, c}
    OBVIOUS
  <2> QED
    BY <2>2, <2>3
<1>13. Free(m2, c)
  <2>1. SlotsFrom(m1, m2, {}, {})
    BY <1>11 DEF Advances
  <2>2. Free(m1, c) /\ c \notin {}
    BY <1>4
  <2> QED
    BY ONLY <2>1, <2>2, StillFree
<1>14. Keeps(m, m2) /\ Keeps(m1, m2)
  BY <1>11, <1>12 DEF Advances, Onward
<1>15. isReject \/ Plain(v) => Has(m2, d, StateOf(isReject), v)
  <2>1. ASSUME isReject \/ Plain(v) PROVE Has(m1, d, StateOf(isReject), v)
    BY <1>4, <2>1 DEF Resolved, Ends, Has
  <2>2. d \in 1 .. n
    <3>1. \A e \in 1 .. k : m.pairs[e] \in PairsOf(n)
      BY <1>5, HeapFields
    <3>2. i \in 1 .. k
      <4>1. Private(Popped(m), i)
        BY <1>1, DequeueGoes DEF Claimed
      <4>2. Popped(m).pairs = m.pairs
        BY DequeueGoes
      <4> QED
        BY <1>6, <4>1, <4>2 DEF Private
    <3> QED
      BY <3>1, <3>2 DEF PairsOf
  <2>3. StateOf(isReject) # "pending"
    BY DEF StateOf
  <2> QED
    BY <1>6, <1>14, <2>1, <2>2, <2>3 DEF Keeps, Has
<1>16. m.jobs[1].rej \/ Plain(v)
  <2>1. m.jobs \in Seq(JobsOf(n, k))
    BY <1>5, HeapFields
  <2>2. 1 \in 1 .. Len(m.jobs)
    BY <2>1
  <2> QED
    BY <2>2 DEF Linked, Regular, v
<1>17. ASSUME NEW o \in Outcomes, NEW e, m.jobs[1].rej = (o = "rejected"),
              PassesOn(m, m.jobs[1].h, c, e, o)
       PROVE  Has(m2, e, o, v)
  <2>1. m.jobs[1].h # NoHandler
    BY DEF NoHandler, Handler
  <2>2. /\ m.jobs[1].h.k = IF o = "rejected" THEN "reject" ELSE "resolve"
        /\ e = d
    BY <1>17, <2>1 DEF PassesOn, i
  <2>3. isReject = (o = "rejected")
    BY <2>2
  <2>4. StateOf(isReject) = o
    BY <2>3 DEF StateOf, Outcomes
  <2> QED
    BY <1>15, <1>16, <1>17, <2>2, <2>3, <2>4
<1>18. ASSUME NEW o \in Outcomes,
              m.jobs[1].h.k = IF o = "rejected" THEN "thrower" ELSE "thunk"
       PROVE  FALSE
  BY <1>18
<1>19. Arrives(m, m2, {1})
  BY <1>14, <1>17, <1>18, ArrivesAt DEF c, v
<1> QED
  BY <1>10, <1>12, <1>13, <1>19 DEF Carried, c

\* A step that runs a reaction keeps the invariant.
LEMMA JobContinues ==
    ASSUME OInv, PInv', vm.jobs # <<>>, Job.k = "reaction", NEW U,
           Advances(vm, vm', {1}, {}, {}, U), NP(vm') = NP(vm),
           Free(vm', Job.cap), calls' = Ran, FramesFit(vm', stack'),
           Arrives(vm, vm', {1}),
           derived' = derived, mirror' = mirror, due' = due
    PROVE  OInv'
<1> DEFINE n == NP(vm)
           k == LastPair(vm)
           d == vm.pairs[Job.cap].promise
<1>1. n \in Nat /\ k \in Nat /\ Sound(vm, n, k) /\ Linked(vm)
      /\ CallsFit(vm, calls) /\ Len(vm.pairs) = k
  BY CurrentHeap DEF OInv, LastPair
<1>2. Job.cap # NoCap
  <2>1. Private(Popped(vm), Job.cap) /\ Popped(vm).pairs = vm.pairs
    BY <1>1, DequeueGoes DEF Job
  <2> QED
    BY <1>1, <2>1 DEF Private, NoCap
<1>3. calls' = CountedAt(calls, d)
  BY <1>2 DEF Ran, CountedAt
<1>4. SlotsFrom(vm, vm', {}, {}) /\ PairsStay(vm, vm') /\ Len(vm'.promises) = n
  BY DEF Advances, NP
<1> HIDE DEF n, k
<1>5. /\ CallsFit(vm', calls') /\ calls'[d] = 1
      /\ \A e \in 1 .. n : calls[e] = 1 => calls'[e] = 1
  <2>1. /\ vm.jobs # <<>> /\ vm.jobs[1].k = "reaction" /\ Free(vm', vm.jobs[1].cap)
        /\ d = vm.pairs[vm.jobs[1].cap].promise
    BY DEF Job
  <2> HIDE DEF d
  <2> QED
    BY ONLY <1>1, <1>3, <1>4, <2>1, CallsRan
<1>6. Counted(vm, {1}, calls, calls')
  BY <1>5 DEF Counted, Job, n, NP
<1>7. NP(vm) <= NP(vm')
  BY <1>1 DEF n
<1>8. /\ DerivedMore(vm', derived, derived') /\ MirrorMore(vm', mirror, mirror')
      /\ DueMore(vm', due, due')
  BY NothingMore
<1> QED
  BY <1>5, <1>6, <1>7, <1>8, Continues

\* promise_reaction_job with a native handler.
LEMMA ArrivesByNativeReaction ==
    ASSUME OInv, PInv', RunNativeReaction PROVE OInv'
<1> DEFINE n == NP(vm)
           k == LastPair(vm)
           m == Popped(vm)
<1>1. n \in Nat /\ k \in Nat /\ Sound(vm, n, k) /\ Linked(vm) /\ Len(vm.pairs) = k
  BY CurrentHeap DEF OInv, LastPair
<1>2. /\ vm.jobs # <<>> /\ Job.k = "reaction" /\ stack' = <<>> /\ calls' = Ran
      /\ Job.h.k \in {"undefined", "thunk", "thrower", "resolve", "reject"}
      /\ derived' = derived /\ mirror' = mirror /\ due' = due
  BY DEF RunNativeReaction, RunnableReaction, Idle, history
<1>3. /\ Job.rej \in BOOLEAN /\ Job.arg \in ValuesOf(n) /\ Job.h.v \in ValuesOf(n)
      /\ Dequeued = m
  BY <1>2, JobTyped DEF OInv
<1>4. Job.cap # NoCap
  <2>1. Private(m, Job.cap) /\ m.pairs = vm.pairs
    BY <1>1, <1>2, DequeueGoes DEF Job
  <2> QED
    BY <1>1, <2>1 DEF Private, NoCap
<1> HIDE DEF n, k, m
<1>5. Carried(vm, vm', n, k)
  <2>1. CASE Job.h.k = "undefined"
    <3>1. vm' = CallResolvingFunction(m, Job.cap, Job.rej, Job.arg)
      BY <1>3, <1>4, <2>1 DEF RunNativeReaction, Complete
    <3> QED
      BY <1>1, <1>2, <1>3, <2>1, <3>1, NativeEnds DEF Job, m
  <2>2. CASE Job.h.k = "thunk"
    <3>1. vm' = CallResolvingFunction(m, Job.cap, FALSE, Job.h.v) /\ FALSE \in BOOLEAN
      BY <1>3, <1>4, <2>2 DEF RunNativeReaction, Complete
    <3> QED
      BY <1>1, <1>2, <1>3, <2>2, <3>1, NativeEnds DEF Job, m
  <2>3. CASE Job.h.k = "thrower"
    <3>1. vm' = CallResolvingFunction(m, Job.cap, TRUE, Job.h.v) /\ TRUE \in BOOLEAN
      BY <1>3, <1>4, <2>3 DEF RunNativeReaction, Complete
    <3> QED
      BY <1>1, <1>2, <1>3, <2>3, <3>1, NativeEnds DEF Job, m
  <2>4. CASE Job.h.k \in {"resolve", "reject"}
    <3> DEFINE isReject == Job.h.k = "reject"
               m1 == CallResolvingFunction(m, Job.h.i, isReject, Job.arg)
    <3>1. vm' = CallResolvingFunction(m1, Job.cap, FALSE, Undefined)
      BY <1>3, <1>4, <2>4 DEF RunNativeReaction, Complete
    <3>2. isReject \in BOOLEAN /\ Job.h.k = IF isReject THEN "reject" ELSE "resolve"
      BY <2>4
    <3> HIDE DEF isReject
    <3>3. m1 = CallResolvingFunction(Popped(vm), Job.h.i, isReject, Job.arg)
      BY DEF m
    <3> HIDE DEF m1
    <3> QED
      BY <1>1, <1>2, <1>3, <3>1, <3>2, <3>3, NativeRelays DEF Job
  <2> QED
    BY <1>2, <2>1, <2>2, <2>3, <2>4
<1>6. PICK U : Advances(vm, vm', {1}, {}, {}, U)
  BY <1>5 DEF Carried
<1>7. Arrives(vm, vm', {1}) /\ Free(vm', Job.cap) /\ Sound(vm', n, k)
  BY <1>5 DEF Carried, Job
<1>8. NP(vm') = NP(vm)
  BY <1>1, <1>7, Numbers DEF n
<1>9. FramesFit(vm', stack')
  BY <1>2, NoFrames
<1> QED
  BY <1>2, <1>6, <1>7, <1>8, <1>9, JobContinues

\* promise_reaction_job with a handler of user code, whose frame has the pair
\* of the reaction now.
LEMMA ArrivesByUserReaction ==
    ASSUME OInv, PInv', RunUserReaction PROVE OInv'
<1> DEFINE n == NP(vm)
           k == LastPair(vm)
           f == Frame(IF Job.h.k = "user" THEN "handler" ELSE "finally",
                      Job.cap, Job.h.i, Job.arg)
<1>1. n \in Nat /\ k \in Nat /\ Sound(vm, n, k) /\ Linked(vm)
      /\ vm \in Heaps(n, k)
  BY CurrentHeap DEF OInv
<1>2. /\ vm.jobs # <<>> /\ Job.k = "reaction" /\ calls' = Ran /\ stack' = <<f>>
      /\ Job.h.k \in {"user", "finally"} /\ vm' = Dequeued
      /\ derived' = derived /\ mirror' = mirror /\ due' = due
  BY DEF RunUserReaction, RunnableReaction, history
<1>3. vm' = Popped(vm) /\ Job.rej \in BOOLEAN
  BY <1>2, JobTyped DEF OInv
<1> HIDE DEF n, k
<1>4. /\ Sound(vm', n, k) /\ Advances(vm, vm', {1}, {}, {}, {})
      /\ Private(vm', Job.cap) /\ Free(vm', Job.cap)
  BY <1>1, <1>2, <1>3, DequeueGoes DEF Job
<1>5. NP(vm') = NP(vm)
  BY <1>1, <1>4, Numbers DEF n
<1>6. Job.h.k = "finally" /\ Job.h.i = 0 => Plain(Job.arg)
  <2>1. vm.jobs \in Seq(JobsOf(n, k))
    BY <1>1, HeapFields
  <2>2. 1 \in 1 .. Len(vm.jobs)
    BY <1>2, <2>1
  <2> QED
    BY <1>1, <1>2, <2>2 DEF Linked, Regular, Job
<1>7. FramesFit(vm', stack')
  <2>1. /\ f.k = (IF Job.h.k = "user" THEN "handler" ELSE "finally")
        /\ f.pair = Job.cap /\ f.magic = Job.h.i /\ f.arg = Job.arg
    BY DEF Frame
  <2> HIDE DEF f
  <2>2. Len(stack') = 1 /\ stack'[1] = f
    BY <1>2
  <2>3. \A g \in 1 .. Len(stack') : g = 1 /\ stack'[g] = f
    BY <2>2
  <2>4. /\ f.k \in {"handler", "finally"} /\ Private(vm', f.pair) /\ Free(vm', f.pair)
        /\ f.k = "finally" /\ f.magic = 0 => Plain(f.arg)
    BY <1>2, <1>4, <1>6, <2>1
  <2> QED
    BY <2>3, <2>4 DEF FramesFit
<1>8. Arrives(vm, vm', {1})
  <2>1. Keeps(vm, vm')
    BY <1>4 DEF Advances, Onward
  <2>2. \A o \in Outcomes : \A d : ~PassesOn(vm, Job.h, Job.cap, d, o)
    BY <1>2 DEF PassesOn, NoHandler, Handler
  <2>3. \A o \in Outcomes : Job.h.k # IF o = "rejected" THEN "thrower" ELSE "thunk"
    BY <1>2
  <2> QED
    BY <1>2, <2>1, <2>2, <2>3, ArrivesAt DEF Job
<1> QED
  BY <1>2, <1>4, <1>5, <1>7, <1>8, JobContinues

\* js_promise_resolve_thenable_job calls then of a promise: the promise of the
\* job has its outcome when the reaction has run.
Taken(m, m2, n, k) ==
    /\ Sound(m2, n + 1, k + 2) /\ Advances(m, m2, {1}, {k + 2}, {k + 1}, {})
    /\ m2.pairs[k + 2].promise = n + 1 /\ Waits(m2, n + 1, m.jobs[1].arg.n)
    /\ Arrives(m, m2, {1})

\* The thenable job of a promise.
LEMMA ThenableGoes ==
    ASSUME NEW n \in Nat, NEW k \in Nat, NEW m, Sound(m, n, k), Linked(m),
           m.jobs # <<>>, m.jobs[1].k = "thenable", NEW p \in 1 .. n,
           m.jobs[1].arg.n = p, NEW m1, NEW m2,
           m1 = CreateResolvingFunctions(Popped(m), m.jobs[1].cap, FALSE),
           m2 = Then(m1, p, ResolveHandler(k + 1), RejectHandler(k + 1))
    PROVE  Taken(m, m2, n, k)
<1> DEFINE d == m.jobs[1].cap
           f == ResolveHandler(k + 1)
           r == RejectHandler(k + 1)
           K == k + 1
<1>1. FALSE \in BOOLEAN
  OBVIOUS
<1>2. /\ Sound(m1, n, K) /\ Advances(m, m1, {1}, {}, {}, {})
      /\ OnePair(m, m1, k, d, FALSE) /\ Free(m1, K)
  BY <1>1, TakeGoes
<1>3. /\ K \in Nat /\ n <= n + 1 /\ K \in 1 .. K /\ K + 1 = k + 2 /\ n \in Nat
      /\ K # K + 1 /\ n <= n
  OBVIOUS
<1>4. /\ f.k = "resolve" /\ f.i = K /\ r.k = "reject" /\ r.i = K
      /\ f \in HandlersOf(n, K) /\ r \in HandlersOf(n, K)
  <2>1. Undefined \in ValuesOf(n)
    BY OwnValues
  <2> QED
    BY <1>3, <2>1 DEF ResolveHandler, RejectHandler, Handler, HandlersOf,
                      AllHandlers, HandlerKinds
<1>5. m1.pairs[K].promise = d /\ ~m1.pairs[K].already /\ m1.pairs[K].exposed = FALSE
  BY <1>2 DEF OnePair
<1>6. m2 = Then(m1, p, f, r)
  OBVIOUS
<1> HIDE DEF K, f, r
<1>7. m \in Heaps(n, k) /\ m1 \in Heaps(n, K) /\ Linked(m1)
  BY <1>2 DEF Sound, Advances
<1>8. Len(m1.pairs) = K
  BY ONLY <1>3, <1>7, HeapFields
<1>9. Private(m1, K)
  BY <1>3, <1>5, <1>8 DEF Private
<1>10. Relay(f) = {K} /\ Relay(r) = {K} /\ r.k # "finally"
  BY <1>4 DEF Relay
<1>11. Usable(m1, f) /\ Usable(m1, r)
  BY <1>2, <1>9, <1>10 DEF Usable
<1>12. /\ Sound(m2, n + 1, K + 1)
       /\ Advances(m1, m2, {}, {K + 1}, Relay(f) \cup Relay(r), {})
       /\ OnePair(m1, m2, K, n + 1, FALSE)
       /\ Reacts(m2, p, f, r, K + 1, n + 1)
  <2>1. Sound(m1, n, K) /\ n \in Nat /\ K \in Nat
    BY <1>2, <1>3
  <2>2. r.k = "finally" => r.i # 0
    BY <1>10
  <2> QED
    BY ONLY p \in 1 .. n, <2>1, <2>2, <1>4, <1>6, <1>7, <1>11, ThenGoes
<1>13. Advances(m1, m2, {}, {K + 1}, {K}, {})
  <2>1. Relay(f) \cup Relay(r) = {K}
    BY <1>10
  <2> QED
    BY <1>12, <2>1
<1>14. Advances(m, m2, {1}, {K + 1}, {K}, {})
  <2>1. Advances(m, m1, {1}, {}, {}, {})
    BY <1>2
  <2>2. Advances(m, m2, {1}, {} \cup {K + 1}, {} \cup {K}, {} \cup {})
    BY ONLY k \in Nat, <1>3, <1>7, <1>13, <2>1, AdvancesThrough
  <2>3. {} \cup {K + 1} = {K + 1} /\ {} \cup {K} = {K} /\ {} \cup {} = {}
    OBVIOUS
  <2> QED
    BY <2>2, <2>3
<1>15. m2.pairs[K + 1].promise = n + 1 /\ m2.pairs[K].promise = d
  BY <1>3, <1>5, <1>12 DEF OnePair
<1>16. ASSUME NEW o \in Outcomes PROVE Shares(m2, d, p, o)
  <2> DEFINE h == IF o = "rejected" THEN r ELSE f
  <2>1. h.k = (IF o = "rejected" THEN "reject" ELSE "resolve") /\ h.i = K
    BY <1>4
  <2>2. PassesOn(m2, h, K + 1, d, o)
    BY <1>15, <2>1 DEF PassesOn
  <2> QED
    BY <1>12, <2>2 DEF Reacts
<1>17. Arrives(m, m2, {1})
  <2>1. \A e, q, o : ~ByJob(m, 1, e, q, o)
    BY DEF ByJob
  <2>2. \A q, o, v : ~ByFinally(m, 1, q, o, v)
    BY DEF ByFinally
  <2>3. \A e, q : ByFollowing(m, 1, e, q) => e = d /\ q = p
    BY DEF ByFollowing, PromiseVal, Val
  <2> HIDE DEF d
  <2> QED
    BY <1>16, <2>1, <2>2, <2>3 DEF Arrives
<1>18. Waits(m2, n + 1, p)
  BY <1>12 DEF Reacts
<1>19. K = k + 1 /\ K + 1 = k + 2
  BY <1>3 DEF K
<1> QED
  BY <1>12, <1>14, <1>15, <1>17, <1>18, <1>19 DEF Taken

\* js_promise_resolve_thenable_job.
LEMMA ArrivesByThenable ==
    ASSUME OInv, PInv', RunThenable PROVE OInv'
<1> DEFINE n == NP(vm)
           k == LastPair(vm)
           exposed == Job.arg.t = "thenable"
           m == CreateResolvingFunctions(Dequeued, Job.cap, exposed)
<1>1. n \in Nat /\ k \in Nat /\ Sound(vm, n, k) /\ Linked(vm)
      /\ vm \in Heaps(n, k)
  BY CurrentHeap DEF OInv
<1>2. /\ vm.jobs # <<>> /\ Job.k = "thenable" /\ exposed \in BOOLEAN
      /\ mirror' = mirror /\ due' = due /\ stack = <<>> /\ Become(vm')
  BY DEF RunThenable, Idle, Become
<1>3. /\ Job.arg.t = "promise" => Job.arg.n \in 1 .. n
      /\ Dequeued = Popped(vm)
  BY <1>2, JobTyped DEF OInv
<1>4. IF Job.arg.t = "promise"
      THEN /\ vm' = Then(m, Job.arg.n, ResolveHandler(LastPair(m)),
                         RejectHandler(LastPair(m)))
           /\ stack' = stack /\ derived' = derived \cup {<<NP(m) + 1, Job.arg.n>>}
      ELSE /\ vm' = m /\ stack' = <<Frame("then", LastPair(m), 0, Undefined)>>
           /\ derived' = derived
  BY DEF RunThenable, Become
<1>5. HasThen(Job.arg)
  <2>1. vm.jobs \in Seq(JobsOf(n, k))
    BY <1>1, HeapFields
  <2>2. 1 \in 1 .. Len(vm.jobs)
    BY <1>2, <2>1
  <2> QED
    BY <1>1, <1>2, <2>2 DEF Linked, Regular, Job
<1>6. \A j \in {1} : vm.jobs[j].k # "reaction"
  BY <1>2 DEF Job
<1>7. MirrorMore(vm', mirror, mirror') /\ DueMore(vm', due, due')
  BY <1>2, NothingMore
<1> HIDE DEF n, k, exposed
<1>8. /\ Sound(m, n, k + 1) /\ Advances(vm, m, {1}, {}, {}, {})
      /\ OnePair(vm, m, k, Job.cap, exposed)
  BY <1>1, <1>2, <1>3, TakeGoes DEF Job
<1>9. LastPair(m) = k + 1 /\ NP(m) = n /\ Len(m.pairs) = k + 1
      /\ k + 1 \in 1 .. k + 1 /\ Len(m.promises) = n
  <2>1. k + 1 \in Nat /\ k + 1 \in 1 .. k + 1
    BY <1>1
  <2> QED
    BY <1>1, <1>8, <2>1, Numbers DEF LastPair, NP
<1>10. CASE Job.arg.t = "promise"
  <2> DEFINE p == Job.arg.n
  <2>1. exposed = FALSE
    BY <1>10 DEF exposed
  <2>2. m = CreateResolvingFunctions(Popped(vm), vm.jobs[1].cap, FALSE)
    BY <1>3, <2>1 DEF Job
  <2>3. /\ vm' = Then(m, p, ResolveHandler(k + 1), RejectHandler(k + 1))
        /\ stack' = <<>> /\ derived' = derived \cup {<<n + 1, p>>} /\ p \in 1 .. n
    BY <1>2, <1>3, <1>4, <1>9, <1>10
  <2>4. /\ vm.jobs[1].k = "thenable" /\ vm.jobs[1].arg.n = p
    BY <1>2 DEF Job
  <2> HIDE DEF m, p
  <2>5. Taken(vm, vm', n, k)
    BY <1>1, <1>2, <2>2, <2>3, <2>4, ThenableGoes
  <2>6. /\ Sound(vm', n + 1, k + 2) /\ Advances(vm, vm', {1}, {k + 2}, {k + 1}, {})
        /\ vm'.pairs[k + 2].promise = n + 1 /\ Waits(vm', n + 1, p)
        /\ Arrives(vm, vm', {1})
    BY <2>4, <2>5 DEF Taken
  <2>7. n + 1 \in Nat /\ k + 2 \in Nat /\ n + 1 \in 1 .. n + 1 /\ p \in 1 .. n + 1
    BY <1>1, <2>3
  <2>8. NP(vm') = n + 1 /\ Len(vm'.promises) = n + 1
    BY <2>6, <2>7, Numbers DEF NP
  <2>9. NP(vm) <= NP(vm')
    BY <1>1, <2>8 DEF n
  <2>10. \A x \in {k + 2} : vm'.pairs[x].promise \in NP(vm) + 1 .. NP(vm')
    BY <1>1, <2>6, <2>8 DEF n
  <2>11. FramesFit(vm', stack')
    BY <2>3, NoFrames
  <2>12. DerivedMore(vm', derived, derived')
    BY <2>3, <2>6, <2>7, <2>8 DEF DerivedMore
  <2>13. Become(vm') /\ Advances(vm, vm', {1}, {k + 2}, {k + 1}, {})
    BY <1>2, <2>6
  <2> QED
    BY <1>6, <1>7, <2>6, <2>9, <2>10, <2>11, <2>12, <2>13, OtherContinues
<1>11. CASE Job.arg.t # "promise"
  <2> DEFINE f == Frame("then", k + 1, 0, Undefined)
  <2>1. exposed = TRUE
    BY <1>5, <1>11 DEF HasThen, exposed
  <2>2. vm' = m /\ stack' = <<f>> /\ derived' = derived
    BY <1>4, <1>9, <1>11
  <2>3. f.k = "then" /\ f.pair = k + 1
    BY DEF Frame
  <2> HIDE DEF f, m
  <2>4. FramesFit(vm', stack')
    <3>1. k + 1 \in 1 .. Len(vm'.pairs) /\ vm'.pairs[k + 1].exposed
      BY <1>8, <1>9, <2>1, <2>2 DEF OnePair
    <3>2. \A g \in 1 .. Len(stack') : stack'[g] = f
      BY <2>2
    <3> QED
      BY <2>3, <3>1, <3>2 DEF FramesFit
  <2>5. Arrives(vm, vm', {1})
    <3>1. \A e, q, o : ~ByJob(vm, 1, e, q, o)
      BY <1>2 DEF ByJob, Job
    <3>2. \A q, o, v : ~ByFinally(vm, 1, q, o, v)
      BY <1>2 DEF ByFinally, Job
    <3>3. \A e, q : ~ByFollowing(vm, 1, e, q)
      BY <1>11 DEF ByFollowing, PromiseVal, Val, Job
    <3> QED
      BY <3>1, <3>2, <3>3 DEF Arrives
  <2>6. NP(vm) <= NP(vm')
    BY <1>1, <1>9, <2>2 DEF n
  <2>7. \A x \in {} : vm'.pairs[x].promise \in NP(vm) + 1 .. NP(vm')
    OBVIOUS
  <2>8. DerivedMore(vm', derived, derived')
    BY <2>2, NothingMore
  <2>9. Become(vm') /\ Advances(vm, vm', {1}, {}, {}, {})
    BY <1>2, <1>8, <2>2
  <2> QED
    BY <1>6, <1>7, <2>4, <2>5, <2>6, <2>7, <2>8, <2>9, OtherContinues
<1> QED
  BY <1>10, <1>11

-----------------------------------------------------------------------------
(* The theorem. *)

\* Every step of the specification, the stuttering ones too.
LEMMA NextArrives ==
    ASSUME OInv, [Next]_vars
    PROVE  OInv'
<1>1. PInv'
  BY NextKeeps DEF OInv
<1>2. CASE UNCHANGED vars
  <2>1. /\ vm' = vm /\ stack' = stack /\ calls' = calls
        /\ derived' = derived /\ mirror' = mirror /\ due' = due
    BY <1>2 DEF vars, history
  <2> QED
    BY <1>1, <2>1 DEF OInv
<1>3. CASE New
  BY <1>1, <1>3, ArrivesByNew
<1>4. CASE \E i \in 1 .. Len(vm.pairs), r \in BOOLEAN, v \in UserValues :
              CallPair(i, r, v)
  BY <1>1, <1>4, ArrivesByCallPair
<1>5. CASE \E p \in 1 .. NP(vm), f \in {NoHandler, UserHandler},
              r \in {NoHandler, UserHandler} : UserThen(p, f, r)
  BY <1>1, <1>5, ArrivesByUserThen
<1>6. CASE \E r \in BOOLEAN, v \in UserValues : UserResolve(r, v)
  BY <1>1, <1>6, ArrivesByUserResolve
<1>7. CASE \E p \in 1 .. NP(vm), callable \in BOOLEAN : UserFinally(p, callable)
  BY <1>1, <1>7, ArrivesByUserFinally
<1>8. CASE \E v \in UserValues : Return(v)
  BY <1>1, <1>8, ArrivesByReturn
<1>9. CASE Throw
  BY <1>1, <1>9, ArrivesByThrow
<1>10. CASE RunNativeReaction
  BY <1>1, <1>10, ArrivesByNativeReaction
<1>11. CASE RunUserReaction
  BY <1>1, <1>11, ArrivesByUserReaction
<1>12. CASE RunThenable
  BY <1>1, <1>12, ArrivesByThenable
<1> QED
  BY <1>2, <1>3, <1>4, <1>5, <1>6, <1>7, <1>8, <1>9, <1>10, <1>11, <1>12
     DEF Next, UserNext, JobNext

\* In the empty heap nothing is on its way.
LEMMA InitArrives == ASSUME Init PROVE OInv
<1>1. /\ vm.promises = <<>> /\ vm.pairs = <<>> /\ vm.jobs = <<>>
      /\ stack = <<>> /\ calls = <<>> /\ derived = {} /\ mirror = {} /\ due = {}
  BY DEF Init, EmptyVM
<1>2. Len(vm.promises) = 0 /\ Len(vm.jobs) = 0 /\ 1 .. 0 = {}
  BY <1>1
<1>3. Slots(vm) = {}
  BY <1>2 DEF Slots
<1>4. Linked(vm)
  BY <1>2, <1>3 DEF Linked, Apart, Owned, Regular
<1>5. FramesFit(vm, stack)
  BY <1>1, NoFrames
<1>6. CallsFit(vm, calls)
  BY <1>1, <1>3 DEF CallsFit
<1>7. DerivedFit(vm, calls, derived) /\ MirrorFit(vm, mirror) /\ DueFit(vm, due)
  BY <1>1 DEF DerivedFit, MirrorFit, DueFit
<1> QED
  BY <1>4, <1>5, <1>6, <1>7, InitSound DEF OInv

\* What the invariant says of types.
LEMMA TypesArrive == ASSUME OInv PROVE PromisesTypeOK
<1> DEFINE n == NP(vm)
           k == LastPair(vm)
<1>1. n \in Nat /\ k \in Nat /\ vm \in Heaps(n, k)
  BY CurrentHeap DEF OInv
<1>2. /\ \A p \in 1 .. n : vm.promises[p] \in PromisesOf(n, k)
      /\ \A i \in 1 .. k : vm.pairs[i] \in PairsOf(n)
      /\ vm.jobs \in Seq(JobsOf(n, k))
  BY <1>1, HeapFields
<1> HIDE DEF n, k
<1>3. ASSUME NEW p \in 1 .. n
      PROVE  /\ vm.promises[p].state \in States /\ vm.promises[p].result \in Values
             /\ \A j \in 1 .. Len(vm.promises[p].reactions) :
                  vm.promises[p].reactions[j].cap \in 0 .. k
  <2>1. /\ vm.promises[p].state \in States /\ vm.promises[p].result \in ValuesOf(n)
        /\ vm.promises[p].reactions \in Seq(ReactionsOf(n, k))
    BY <1>2 DEF PromisesOf
  <2>2. ASSUME NEW j \in 1 .. Len(vm.promises[p].reactions)
        PROVE  vm.promises[p].reactions[j].cap \in 0 .. k
    <3>1. vm.promises[p].reactions[j] \in ReactionsOf(n, k)
      BY <2>1
    <3> QED
      BY <3>1 DEF ReactionsOf
  <2> QED
    BY <2>1, <2>2 DEF ValuesOf
<1>4. \A i \in 1 .. k : vm.pairs[i].promise \in 1 .. n
  BY <1>2 DEF PairsOf
<1>5. ASSUME NEW j \in 1 .. Len(vm.jobs)
      PROVE  /\ vm.jobs[j].arg \in Values
             /\ vm.jobs[j].cap \in 0 .. IF vm.jobs[j].k = "reaction" THEN k ELSE n
  <2>1. vm.jobs[j] \in JobsOf(n, k)
    BY <1>2
  <2>2. vm.jobs[j].arg \in ValuesOf(n)
    BY <2>1 DEF JobsOf
  <2>3. \/ vm.jobs[j].k = "reaction" /\ vm.jobs[j].cap \in 0 .. k
        \/ vm.jobs[j].k = "thenable" /\ vm.jobs[j].cap \in 1 .. n
    BY <2>1 DEF JobsOf
  <2> QED
    BY <1>1, <2>2, <2>3 DEF ValuesOf
<1>6. Len(calls) = n
  BY DEF OInv, CallsFit, NP, n
<1> QED
  BY <1>3, <1>4, <1>5, <1>6 DEF PromisesTypeOK, n, k

\* When nothing is on its way any more, everything has arrived.
LEMMA ArrivedAtLast == OInv => OutcomesArrive
<1> SUFFICES ASSUME OInv PROVE OutcomesArrive
  OBVIOUS
<1>1. Linked(vm) /\ CallsFit(vm, calls) /\ DerivedFit(vm, calls, derived)
      /\ MirrorFit(vm, mirror) /\ DueFit(vm, due)
  BY DEF OInv
<1>2. ASSUME Quiescent, NEW d, NEW p \in 1 .. Len(vm.promises), IsSettled(p)
      PROVE  /\ ~Waits(vm, d, p)
             /\ \A o : Shares(vm, d, p, o) => Same(vm, d, p, o)
             /\ \A o, v : Promised(vm, p, o, v) => Has(vm, p, o, v)
  <2>1. vm.promises[p].reactions = <<>> /\ vm.promises[p].state # "pending"
    BY <1>1, <1>2 DEF Linked, Regular, IsSettled
  <2>2. Len(vm.jobs) = 0 /\ Len(vm.promises[p].reactions) = 0 /\ 1 .. 0 = {}
    BY <1>2, <2>1 DEF Quiescent
  <2> QED
    BY <2>1, <2>2 DEF Waits, Shares, ByReaction, Promised, Has
<1>3. OutcomesMirrored
  <2> SUFFICES ASSUME Quiescent, NEW t \in mirror, vm.promises[t[2]].state = t[3]
               PROVE  /\ vm.promises[t[1]].state = t[3]
                      /\ vm.promises[t[1]].result = vm.promises[t[2]].result
    BY DEF OutcomesMirrored
  <2>1. /\ t[2] \in 1 .. Len(vm.promises) /\ t[3] \in Outcomes
        /\ Shares(vm, t[1], t[2], t[3])
    BY <1>1 DEF MirrorFit
  <2>2. IsSettled(t[2])
    BY <2>1 DEF IsSettled, Outcomes
  <2>3. Same(vm, t[1], t[2], t[3])
    BY <1>2, <2>1, <2>2
  <2> QED
    BY <2>3 DEF Same
<1>4. ReactionsRunOnce
  <2>1. ASSUME NEW p \in 1 .. NP(vm) PROVE calls[p] <= 1
    BY <1>1 DEF CallsFit, NP
  <2>2. ASSUME Quiescent, NEW t \in derived, IsSettled(t[2]) PROVE calls[t[1]] = 1
    <3>1. /\ t[2] \in 1 .. Len(vm.promises)
          /\ calls[t[1]] = 1 \/ Waits(vm, t[1], t[2])
      BY <1>1 DEF DerivedFit
    <3> QED
      BY <1>2, <2>2, <3>1
  <2> QED
    BY <2>1, <2>2 DEF ReactionsRunOnce
<1>5. FinallyTransparent
  <2> SUFFICES ASSUME Quiescent, NEW t \in due
               PROVE  /\ vm.promises[t[1]].state = t[2]
                      /\ vm.promises[t[1]].result = t[3]
    BY DEF FinallyTransparent
  <2>1. PICK q \in 1 .. Len(vm.promises) :
           /\ t[2] \in Outcomes
           /\ Shares(vm, t[1], q, t[2]) /\ Promised(vm, q, t[2], t[3])
    BY <1>1 DEF DueFit
  <2>2. Has(vm, q, t[2], t[3])
    <3>1. Len(vm.jobs) = 0 /\ 1 .. 0 = {}
      BY DEF Quiescent
    <3> QED
      BY <2>1, <3>1 DEF Promised, Has
  <2>3. IsSettled(q)
    BY <2>1, <2>2 DEF Has, IsSettled, Outcomes
  <2>4. Same(vm, t[1], q, t[2])
    BY <1>2, <2>1, <2>3
  <2> QED
    BY <2>2, <2>4 DEF Same, Has
<1> QED
  BY <1>3, <1>4, <1>5, TypesArrive DEF OutcomesArrive

\* js_promise_resolve_function_call, perform_promise_then, promise_reaction_job
\* and js_promise_resolve_thenable_job lose no outcome: whatever user code does,
\* when all jobs have run every reaction of a settled promise has run exactly
\* once, a promise that follows another one has its outcome and value, and
\* finally has passed on what it was given.
THEOREM OutcomesAlwaysArrive == Spec => []OutcomesArrive
<1>1. Init => OInv
  BY InitArrives
<1>2. OInv /\ [Next]_vars => OInv'
  BY NextArrives
<1> QED
  BY <1>1, <1>2, ArrivedAtLast, PTL DEF Spec

================================================================================
