--------------------------- MODULE JSValueRefsProofs ---------------------------
(***************************************************************************)
(* Proofs about JSValueRefs, for any set of objects and of wrappers: the   *)
(* counts are exact, and nothing dangles.                                  *)
(*                                                                         *)
(* The inductive invariant is RefsInv.  That the counts are exact is not   *)
(* enough by itself: a wrapper lent to a handler holds no reference, so it *)
(* must be known to point to the argument of the running call, which does. *)
(***************************************************************************)
EXTENDS JSValueRefs, FiniteSetTheorems, TLAPS

\* Wrappers that Dart code has been given point to an object.
Pointing == \A w \in Wrappers : wkind[w] # "unused" => wobj[w] \in Objects

\* Wrappers lent to a handler point to the argument of the running call.
Lent == \A w \in Wrappers : wkind[w] = "borrowed" => inCall /\ wobj[w] = arg

\* Only live objects have properties.
OnlyLiveHold ==
    \A o \in Objects : heap.status[o] # "live" => heap.slot[o] = None

RefsInv ==
    /\ RefsTypeOK /\ ~heap.bad /\ RefCountExact
    /\ Pointing /\ Lent /\ OnlyLiveHold

-----------------------------------------------------------------------------
(* The operators on heaps. *)

\* What the operators make of a heap.
LEMMA AllocFields ==
    ASSUME NEW h \in Heaps, NEW o \in Objects, NEW n \in Int,
           NEW value \in Objects \cup {None}
    PROVE  /\ Alloc(h, o, n, value) \in Heaps
           /\ Alloc(h, o, n, value).status = [h.status EXCEPT ![o] = "live"]
           /\ Alloc(h, o, n, value).rc = [h.rc EXCEPT ![o] = n]
           /\ Alloc(h, o, n, value).slot = [h.slot EXCEPT ![o] = value]
           /\ Alloc(h, o, n, value).bad = h.bad
BY DEF Alloc, Heaps

\* A new object with one or two references and without a property.
LEMMA AllocNew ==
    ASSUME NEW h \in Heaps, NEW o \in Objects, NEW n \in {1, 2}
    PROVE  /\ Alloc(h, o, n, None) \in Heaps
           /\ Alloc(h, o, n, None).status = [h.status EXCEPT ![o] = "live"]
           /\ Alloc(h, o, n, None).rc = [h.rc EXCEPT ![o] = n]
           /\ Alloc(h, o, n, None).slot = [h.slot EXCEPT ![o] = None]
           /\ Alloc(h, o, n, None).bad = h.bad
<1> DEFINE status == [h.status EXCEPT ![o] = "live"]
           rc == [h.rc EXCEPT ![o] = n]
           slot == [h.slot EXCEPT ![o] = None]
<1>1. /\ status \in [Objects -> {"none", "live", "freed"}]
      /\ rc \in [Objects -> Int] /\ slot \in [Objects -> Objects \cup {None}]
  BY DEF Heaps
<1>2. Alloc(h, o, n, None) = [h EXCEPT !.status = status, !.rc = rc, !.slot = slot]
  BY DEF Alloc, Heaps
<1> HIDE DEF status, rc, slot
<1> DEFINE new == Alloc(h, o, n, None)
<1>3. /\ new \in Heaps /\ new.status = status /\ new.rc = rc
      /\ new.slot = slot /\ new.bad = h.bad
  BY <1>1, <1>2 DEF Heaps
<1> QED
  BY <1>3 DEF status, rc, slot

LEMMA DupFields ==
    ASSUME NEW h \in Heaps, NEW o \in Objects
    PROVE  /\ JS_DupValue(h, o) \in Heaps
           /\ JS_DupValue(h, o).status = h.status
           /\ JS_DupValue(h, o).rc = [h.rc EXCEPT ![o] = h.rc[o] + 1]
           /\ JS_DupValue(h, o).slot = h.slot
           /\ JS_DupValue(h, o).bad = h.bad
BY DEF JS_DupValue, Heaps

LEMMA SetFields ==
    ASSUME NEW h \in Heaps, NEW c \in Objects, NEW o \in Objects \cup {None}
    PROVE  /\ SetValue(h, c, o) \in Heaps
           /\ SetValue(h, c, o).status = h.status
           /\ SetValue(h, c, o).rc = h.rc
           /\ SetValue(h, c, o).slot = [h.slot EXCEPT ![c] = o]
           /\ SetValue(h, c, o).bad = h.bad
BY DEF SetValue, Heaps

LEMMA FreedFields ==
    ASSUME NEW h \in Heaps, NEW o \in Objects
    PROVE  /\ Freed(h, o) \in Heaps
           /\ Freed(h, o).status = [h.status EXCEPT ![o] = "freed"]
           /\ Freed(h, o).rc = [h.rc EXCEPT ![o] = 0]
           /\ Freed(h, o).slot = [h.slot EXCEPT ![o] = None]
           /\ Freed(h, o).bad = h.bad
<1> DEFINE status == [h.status EXCEPT ![o] = "freed"]
           rc == [h.rc EXCEPT ![o] = 0]
           slot == [h.slot EXCEPT ![o] = None]
<1>1. /\ status \in [Objects -> {"none", "live", "freed"}]
      /\ rc \in [Objects -> Int] /\ slot \in [Objects -> Objects \cup {None}]
  BY DEF Heaps
<1>2. Freed(h, o) = [h EXCEPT !.status = status, !.rc = rc, !.slot = slot]
  BY DEF Freed, Heaps
<1> HIDE DEF status, rc, slot
<1>3. /\ Freed(h, o) \in Heaps /\ Freed(h, o).status = status
      /\ Freed(h, o).rc = rc /\ Freed(h, o).slot = slot /\ Freed(h, o).bad = h.bad
  BY <1>1, <1>2 DEF Heaps
<1> QED
  BY <1>3 DEF status, rc, slot

-----------------------------------------------------------------------------
(* Counting references. *)

\* Counts are numbers.
LEMMA CountTypes ==
    ASSUME NEW o
    PROVE  /\ IsFiniteSet(Owners(o)) /\ Cardinality(Owners(o)) \in Nat
           /\ IsFiniteSet(Holders(o)) /\ Cardinality(Holders(o)) \in Nat
<1>1. Owners(o) \subseteq Wrappers /\ Holders(o) \subseteq Objects
  BY DEF Owners, Holders
<1> QED
  BY <1>1, FS_Subset, FS_CardinalityType, ObjectsAssumption, WrappersAssumption

\* One more and one less.
LEMMA CountChange ==
    ASSUME NEW S, NEW T, NEW e, IsFiniteSet(S), e \notin S, T = S \cup {e}
    PROVE  IsFiniteSet(T) /\ Cardinality(T) = Cardinality(S) + 1
BY FS_AddElement

\* A wrapper that did not own anything becomes an owner of o.
LEMMA OwnersWrap ==
    ASSUME RefsTypeOK, NEW w \in Wrappers, ~Owned(w), NEW o \in Objects,
           Wrap(w, o, "owned"), NEW x
    PROVE  Cardinality(Owners(x)') = Cardinality(Owners(x)) + Hold(o, x)
<1>1. \A v \in Wrappers : Owned(v)' /\ wobj'[v] = x
                             <=> (Owned(v) /\ wobj[v] = x) \/ (v = w /\ x = o)
  BY DEF RefsTypeOK, Wrap, Owned
<1>2. w \notin Owners(x)
  BY DEF Owners
<1>3. CASE x = o
  <2>1. Owners(x)' = Owners(x) \cup {w}
    BY <1>1, <1>3 DEF Owners
  <2> QED
    BY <1>2, <1>3, <2>1, CountTypes, CountChange DEF Hold
<1>4. CASE x # o
  <2>1. Owners(x)' = Owners(x)
    BY <1>1, <1>4 DEF Owners
  <2> QED
    BY <1>4, <2>1, CountTypes DEF Hold
<1> QED
  BY <1>3, <1>4

\* A wrapper that did not own anything is lent.
LEMMA OwnersLend ==
    ASSUME RefsTypeOK, NEW w \in Wrappers, ~Owned(w), NEW o \in Objects,
           Wrap(w, o, "borrowed"), NEW x
    PROVE  Owners(x)' = Owners(x)
BY DEF RefsTypeOK, Wrap, Owned, Owners

\* An owner gives its reference away.
LEMMA OwnersGive ==
    ASSUME RefsTypeOK, NEW w \in Wrappers, Owned(w), UNCHANGED wobj,
           \A v \in Wrappers : Owned(v)' <=> Owned(v) /\ v # w, NEW x
    PROVE  Cardinality(Owners(x)') = Cardinality(Owners(x)) - Hold(wobj[w], x)
<1>1. CASE x = wobj[w]
  <2>1. Owners(x) = Owners(x)' \cup {w} /\ w \notin Owners(x)' /\ w \in Owners(x)
    BY <1>1 DEF Owners
  <2>2. IsFiniteSet(Owners(x)')
    BY <2>1, CountTypes, FS_Subset
  <2>3. Cardinality(Owners(x)) = Cardinality(Owners(x)') + 1
    BY <2>1, <2>2, CountChange
  <2> QED
    BY <1>1, <2>2, <2>3, FS_CardinalityType DEF Hold
<1>2. CASE x # wobj[w]
  <2>1. Owners(x)' = Owners(x)
    BY <1>2 DEF Owners
  <2> QED
    BY <1>2, <2>1, CountTypes DEF Hold
<1> QED
  BY <1>1, <1>2

\* A property is given another value.
LEMMA HoldersSet ==
    ASSUME heap \in Heaps, NEW c \in Objects, NEW v,
           heap'.slot = [heap.slot EXCEPT ![c] = v], NEW x
    PROVE  Cardinality(Holders(x)') =
              Cardinality(Holders(x)) - Hold(heap.slot[c], x) + Hold(v, x)
<1>1. \A d \in Objects : heap'.slot[d] = x <=> (IF d = c THEN v = x ELSE heap.slot[d] = x)
  BY DEF Heaps
<1> DEFINE Rest == Holders(x) \ {c}
<1>2. IsFiniteSet(Rest) /\ Cardinality(Rest) \in Nat /\ c \notin Rest
  BY CountTypes, FS_Subset, FS_CardinalityType
<1>3. Cardinality(Holders(x)) = Cardinality(Rest) + Hold(heap.slot[c], x)
  <2>1. CASE heap.slot[c] = x
    <3>1. Holders(x) = Rest \cup {c}
      BY <2>1 DEF Holders
    <3> QED
      BY <1>2, <2>1, <3>1, CountChange DEF Hold
  <2>2. CASE heap.slot[c] # x
    <3>1. Holders(x) = Rest
      BY <2>2 DEF Holders
    <3> HIDE DEF Rest
    <3> QED
      BY <1>2, <2>2, <3>1 DEF Hold
  <2> QED
    BY <2>1, <2>2
<1>4. Cardinality(Holders(x)') = Cardinality(Rest) + Hold(v, x)
  <2>1. CASE v = x
    <3>1. Holders(x)' = Rest \cup {c}
      BY <1>1, <2>1 DEF Holders
    <3> QED
      BY <1>2, <2>1, <3>1, CountChange DEF Hold
  <2>2. CASE v # x
    <3>1. Holders(x)' = Rest
      BY <1>1, <2>2 DEF Holders
    <3> QED
      BY <1>2, <2>2, <3>1 DEF Hold
  <2> QED
    BY <2>1, <2>2
<1> QED
  BY <1>2, <1>3, <1>4 DEF Hold

\* What a reference is held on is alive.
LEMMA ReferencedIsLive ==
    ASSUME RefsInv
    PROVE  /\ \A w \in Wrappers : Owned(w) \/ wkind[w] = "borrowed" =>
                 wobj[w] \in Objects /\ heap.status[wobj[w]] = "live"
           /\ \A c \in Objects : heap.slot[c] # None =>
                 heap.slot[c] \in Objects /\ heap.status[heap.slot[c]] = "live"
           /\ arg # None => arg \in Objects /\ heap.status[arg] = "live"
           /\ result # None => result \in Objects /\ heap.status[result] = "live"
           /\ dropped # None => dropped \in Objects /\ heap.status[dropped] = "live"
           /\ heap.status[Global] = "live"
<1>t. /\ leaked \in [Objects -> Nat] /\ arg \in Objects \cup {None}
      /\ result \in Objects \cup {None} /\ dropped \in Objects \cup {None}
      /\ heap.slot \in [Objects -> Objects \cup {None}] /\ inCall = (arg # None)
      /\ heap.rc \in [Objects -> Int] /\ Global \in Objects
  BY ObjectsAssumption DEF RefsInv, RefsTypeOK, Heaps
<1>e. \A o \in Objects : /\ heap.rc[o] = RefsTo(o)
                         /\ heap.status[o] = "live" <=> heap.rc[o] > 0
  BY DEF RefsInv, RefCountExact
<1>1. \A o \in Objects :
         (\/ Cardinality(Owners(o)) > 0 \/ Cardinality(Holders(o)) > 0
          \/ arg = o \/ result = o \/ dropped = o \/ o = Global)
         => heap.status[o] = "live"
  BY <1>t, <1>e, CountTypes DEF RefsTo, Hold, GlobalRefs
<1>p. ASSUME NEW S, IsFiniteSet(S), NEW e \in S
      PROVE  Cardinality(S) > 0
  <2>1. Cardinality(S) \in Nat /\ (Cardinality(S) = 0 <=> S = {})
    BY <1>p, FS_CardinalityType, FS_EmptySet
  <2> QED
    BY <2>1
<1>2. ASSUME NEW w \in Wrappers, Owned(w)
      PROVE  wobj[w] \in Objects /\ heap.status[wobj[w]] = "live"
  <2>1. wobj[w] \in Objects
    BY <1>2 DEF RefsInv, Pointing, Owned
  <2>2. w \in Owners(wobj[w])
    BY <1>2 DEF Owners
  <2> QED
    BY <1>1, <1>p, <2>1, <2>2, CountTypes
<1>3. ASSUME NEW w \in Wrappers, wkind[w] = "borrowed"
      PROVE  wobj[w] \in Objects /\ heap.status[wobj[w]] = "live"
  BY <1>1, <1>3, <1>t DEF RefsInv, Lent
<1>4. ASSUME NEW c \in Objects, heap.slot[c] # None
      PROVE  heap.slot[c] \in Objects /\ heap.status[heap.slot[c]] = "live"
  <2>1. heap.slot[c] \in Objects
    BY <1>t, <1>4
  <2>2. c \in Holders(heap.slot[c])
    BY DEF Holders
  <2> QED
    BY <1>1, <1>p, <2>1, <2>2, CountTypes
<1> QED
  BY <1>t, <1>1, <1>2, <1>3, <1>4

-----------------------------------------------------------------------------
(* What the steps have in common. *)

\* A wrapper is taken for a reference of its own or lent.
LEMMA WrapTypes ==
    ASSUME RefsTypeOK, Pointing, Lent, NEW w \in Wrappers, NEW o \in Objects,
           NEW kind \in {"owned", "borrowed"}, Wrap(w, o, kind),
           \/ kind = "owned" /\ UNCHANGED <<inCall, arg>>
           \/ kind = "borrowed" /\ ~inCall /\ inCall' /\ arg' = o
    PROVE  /\ wobj' \in [Wrappers -> Objects \cup {None}]
           /\ wkind' \in [Wrappers -> {"unused", "owned", "moved", "borrowed", "stale"}]
           /\ isFreed' \in [Wrappers -> BOOLEAN]
           /\ Pointing' /\ Lent'
<1>1. /\ wobj \in [Wrappers -> Objects \cup {None}]
      /\ wkind \in [Wrappers -> {"unused", "owned", "moved", "borrowed", "stale"}]
      /\ isFreed \in [Wrappers -> BOOLEAN]
  BY DEF RefsTypeOK
<1>2. /\ wobj' = [wobj EXCEPT ![w] = o] /\ wkind' = [wkind EXCEPT ![w] = kind]
      /\ isFreed' = [isFreed EXCEPT ![w] = FALSE]
  BY DEF Wrap
<1>3. Pointing'
  BY <1>1, <1>2 DEF Pointing
<1>4. Lent'
  BY <1>1, <1>2 DEF Lent
<1> QED
  BY <1>1, <1>2, <1>3, <1>4

\* Code that uses a wrapper finds its object alive.
LEMMA UsingLive ==
    ASSUME RefsInv, NEW w \in Wrappers, Usable(w)
    PROVE  /\ wobj[w] \in Objects /\ heap.status[wobj[w]] = "live"
           /\ \A h : Using(w, h) = h
BY ReferencedIsLive DEF Usable, Using

\* The types of the state and what exactness says, in one place.
LEMMA Unfolded ==
    ASSUME RefsInv
    PROVE  /\ heap \in Heaps /\ heap.rc \in [Objects -> Int] /\ heap.bad = FALSE
           /\ heap.status \in [Objects -> {"none", "live", "freed"}]
           /\ heap.slot \in [Objects -> Objects \cup {None}]
           /\ leaked \in [Objects -> Nat] /\ Global \in Objects /\ None \notin Objects
           /\ \A x \in Objects : /\ heap.rc[x] = RefsTo(x) /\ RefsTo(x) \in Nat
                                 /\ heap.status[x] = "live" <=> heap.rc[x] > 0
<1>1. /\ heap \in Heaps /\ heap.rc \in [Objects -> Int] /\ heap.bad = FALSE
      /\ heap.status \in [Objects -> {"none", "live", "freed"}]
      /\ heap.slot \in [Objects -> Objects \cup {None}]
      /\ leaked \in [Objects -> Nat] /\ Global \in Objects /\ None \notin Objects
  BY ObjectsAssumption DEF RefsInv, RefsTypeOK, Heaps
<1>2. \A x \in Objects : RefsTo(x) \in Nat
  BY <1>1, CountTypes DEF RefsTo, Hold, GlobalRefs
<1> QED
  BY <1>1, <1>2 DEF RefsInv, RefCountExact

\* Steps that only take a reference for a new wrapper: from the object itself
\* (GlobalObject, Copy), from a property (GetProperty), with callJS.
LEMMA TakeStep ==
    ASSUME RefsInv, Ready, NEW v \in Wrappers, ~Owned(v), NEW o \in Objects,
           heap.status[o] = "live", heap' = JS_DupValue(heap, o),
           Wrap(v, o, "owned"), UNCHANGED <<callVars, leaked, dropped>>
    PROVE  RefsInv'
<1>1. /\ heap' \in Heaps /\ heap'.status = heap.status /\ heap'.slot = heap.slot
      /\ heap'.rc = [heap.rc EXCEPT ![o] = heap.rc[o] + 1] /\ heap'.bad = FALSE
  BY Unfolded, DupFields
<1>2. /\ wobj' \in [Wrappers -> Objects \cup {None}]
      /\ wkind' \in [Wrappers -> {"unused", "owned", "moved", "borrowed", "stale"}]
      /\ isFreed' \in [Wrappers -> BOOLEAN]
      /\ Pointing' /\ Lent'
  BY WrapTypes DEF RefsInv, callVars
<1>3. RefsTypeOK'
  BY <1>1, <1>2 DEF RefsInv, RefsTypeOK, callVars
<1>4. ASSUME NEW x \in Objects
      PROVE  /\ (heap.rc[x])' = RefsTo(x)'
             /\ (heap.status[x])' = "live" <=> (heap.rc[x])' > 0
  <2>1. Cardinality(Owners(x)') = Cardinality(Owners(x)) + Hold(o, x)
    BY OwnersWrap DEF RefsInv
  <2>2. Holders(x)' = Holders(x)
    BY <1>1 DEF Holders
  <2>3. leaked[x] \in Nat /\ arg' = arg /\ result' = result /\ dropped' = dropped
        /\ leaked' = leaked /\ Hold(o, x) \in Nat
    BY Unfolded DEF callVars, Hold
  <2>4. RefsTo(x)' = RefsTo(x) + Hold(o, x)
    BY <2>1, <2>2, <2>3, CountTypes DEF RefsTo, Hold, GlobalRefs
  <2> QED
    BY <1>1, <2>4, Unfolded DEF Hold
<1>5. OnlyLiveHold'
  BY <1>1 DEF RefsInv, OnlyLiveHold
<1> QED
  BY <1>1, <1>2, <1>3, <1>4, <1>5 DEF RefsInv, RefCountExact

\* How the number of references to an object changes with its parts.
LEMMA Balance ==
    ASSUME RefsInv, NEW x \in Objects, NEW a \in Int, NEW b \in Int, NEW l \in Int,
           Cardinality(Owners(x)') = Cardinality(Owners(x)) + a,
           Cardinality(Holders(x)') = Cardinality(Holders(x)) + b,
           (leaked[x])' = leaked[x] + l
    PROVE  RefsTo(x)' = RefsTo(x) + a + b + l + Hold(arg', x) - Hold(arg, x)
                        + Hold(result', x) - Hold(result, x)
                        + Hold(dropped', x) - Hold(dropped, x)
<1>1. leaked[x] \in Nat
  BY Unfolded
<1> QED
  BY <1>1, CountTypes DEF RefsTo, Hold, GlobalRefs

\* A wrapper stops owning what it points to: freed, or moved.
LEMMA GiveTypes ==
    ASSUME RefsInv, NEW w \in Wrappers, Owned(w), UNCHANGED <<wobj, inCall, arg>>,
           \/ wkind' = [wkind EXCEPT ![w] = "moved"] /\ UNCHANGED isFreed
           \/ isFreed' = [isFreed EXCEPT ![w] = TRUE] /\ UNCHANGED wkind
    PROVE  /\ wkind' \in [Wrappers -> {"unused", "owned", "moved", "borrowed", "stale"}]
           /\ isFreed' \in [Wrappers -> BOOLEAN]
           /\ Pointing' /\ Lent'
           /\ \A v \in Wrappers : Owned(v)' <=> Owned(v) /\ v # w
<1>1. /\ wkind \in [Wrappers -> {"unused", "owned", "moved", "borrowed", "stale"}]
      /\ isFreed \in [Wrappers -> BOOLEAN]
  BY DEF RefsInv, RefsTypeOK
<1>2. CASE wkind' = [wkind EXCEPT ![w] = "moved"] /\ UNCHANGED isFreed
  BY <1>1, <1>2 DEF Owned, RefsInv, Pointing, Lent
<1>3. CASE isFreed' = [isFreed EXCEPT ![w] = TRUE] /\ UNCHANGED wkind
  BY <1>1, <1>3 DEF Owned, RefsInv, Pointing, Lent
<1> QED
  BY <1>2, <1>3

\* A new object that a wrapper owns.
LEMMA NewObjectStep ==
    ASSUME RefsInv, NEW w \in Wrappers, NEW o \in Objects, NewObject(w, o)
    PROVE  RefsInv'
<1>0. /\ ~Owned(w) /\ heap.status[o] = "none" /\ heap' = Alloc(heap, o, 1, None)
      /\ Wrap(w, o, "owned")
      /\ UNCHANGED <<inCall, arg, result, storing, leaked, dropped>>
  BY DEF NewObject, Fresh, Owned, callVars
<1>u. /\ heap \in Heaps /\ heap.rc \in [Objects -> Int] /\ heap.bad = FALSE
      /\ heap.status \in [Objects -> {"none", "live", "freed"}]
      /\ heap.slot \in [Objects -> Objects \cup {None}]
      /\ leaked \in [Objects -> Nat] /\ Global \in Objects /\ None \notin Objects
  BY Unfolded
<1>1. /\ heap' \in Heaps /\ heap'.status = [heap.status EXCEPT ![o] = "live"]
      /\ heap'.slot = [heap.slot EXCEPT ![o] = None]
      /\ heap'.rc = [heap.rc EXCEPT ![o] = 1] /\ heap'.bad = FALSE
  BY <1>0, <1>u, AllocNew
<1>2. /\ wobj' \in [Wrappers -> Objects \cup {None}]
      /\ wkind' \in [Wrappers -> {"unused", "owned", "moved", "borrowed", "stale"}]
      /\ isFreed' \in [Wrappers -> BOOLEAN]
      /\ Pointing' /\ Lent'
  BY <1>0, WrapTypes DEF RefsInv
<1>3. RefsTypeOK'
  BY <1>0, <1>1, <1>2 DEF RefsInv, RefsTypeOK
<1>4. heap.slot[o] = None /\ heap.rc[o] = 0
  <2>1. heap.rc[o] \in Nat /\ ~(heap.rc[o] > 0)
    BY <1>0, Unfolded
  <2> QED
    BY <1>0, <2>1 DEF RefsInv, OnlyLiveHold
<1>5. ASSUME NEW x \in Objects
      PROVE  /\ (heap.rc[x])' = RefsTo(x)'
             /\ (heap.status[x])' = "live" <=> (heap.rc[x])' > 0
  <2>1. Cardinality(Owners(x)') = Cardinality(Owners(x)) + Hold(o, x)
    BY <1>0, OwnersWrap DEF RefsInv
  <2>2. Cardinality(Holders(x)') = Cardinality(Holders(x)) + 0
    <3>1. Cardinality(Holders(x)') =
             Cardinality(Holders(x)) - Hold(heap.slot[o], x) + Hold(None, x)
      BY <1>1, <1>u, HoldersSet
    <3> QED
      BY <1>4, <1>u, <3>1, CountTypes DEF Hold
  <2>3. RefsTo(x)' = RefsTo(x) + Hold(o, x)
    <3>1. /\ Hold(o, x) \in Int
          /\ (leaked[x])' = leaked[x] + 0
      BY <1>0, <1>u DEF Hold
    <3>2. RefsTo(x)' = RefsTo(x) + Hold(o, x) + 0 + 0
                       + Hold(arg', x) - Hold(arg, x)
                       + Hold(result', x) - Hold(result, x)
                       + Hold(dropped', x) - Hold(dropped, x)
      BY <2>1, <2>2, <3>1, Balance
    <3>3. RefsTo(x) \in Nat
      BY Unfolded
    <3> QED
      BY <1>0, <1>u, <3>2, <3>3 DEF Hold
  <2> QED
    BY <1>1, <1>4, <2>3, Unfolded DEF Hold
<1>6. OnlyLiveHold'
  BY <1>1, Unfolded DEF RefsInv, OnlyLiveHold
<1> QED
  BY <1>1, <1>2, <1>3, <1>5, <1>6 DEF RefsInv, RefCountExact

\* setProperty: the property takes a new reference, its old one is dropped.
LEMMA SetPropertyStep ==
    ASSUME RefsInv, NEW w \in Wrappers, NEW y \in Wrappers, SetProperty(w, y)
    PROVE  RefsInv'
<1> DEFINE c == wobj[w]
           o == wobj[y]
<1>0. /\ c \in Objects /\ heap.status[c] = "live" /\ o \in Objects
      /\ heap.status[o] = "live" /\ dropped = None /\ dropped' = heap.slot[c]
      /\ heap' = SetValue(JS_DupValue(heap, o), c, o)
      /\ UNCHANGED <<wobj, wkind, isFreed, inCall, arg, result, storing, leaked>>
  BY UsingLive DEF SetProperty, Usable, Ready, wrapperVars, callVars
<1> HIDE DEF c, o
<1>u. /\ heap \in Heaps /\ heap.rc \in [Objects -> Int] /\ heap.bad = FALSE
      /\ heap.status \in [Objects -> {"none", "live", "freed"}]
      /\ heap.slot \in [Objects -> Objects \cup {None}]
      /\ leaked \in [Objects -> Nat] /\ Global \in Objects /\ None \notin Objects
  BY Unfolded
<1>1. /\ heap' \in Heaps /\ heap'.status = heap.status
      /\ heap'.slot = [heap.slot EXCEPT ![c] = o]
      /\ heap'.rc = [heap.rc EXCEPT ![o] = heap.rc[o] + 1] /\ heap'.bad = FALSE
  <2>1. LET h == JS_DupValue(heap, o)
        IN  /\ h \in Heaps /\ h.status = heap.status /\ h.slot = heap.slot
            /\ h.rc = [heap.rc EXCEPT ![o] = heap.rc[o] + 1] /\ h.bad = FALSE
    BY <1>0, <1>u, DupFields
  <2> QED
    BY <1>0, <2>1, SetFields
<1>3. RefsTypeOK' /\ Pointing' /\ Lent'
  BY <1>0, <1>1, Unfolded DEF RefsInv, RefsTypeOK, Pointing, Lent
<1>4. ASSUME NEW x \in Objects
      PROVE  /\ (heap.rc[x])' = RefsTo(x)'
             /\ (heap.status[x])' = "live" <=> (heap.rc[x])' > 0
  <2>1. Cardinality(Owners(x)') = Cardinality(Owners(x)) + 0
    <3>1. Owners(x)' = Owners(x)
      BY <1>0 DEF Owners, Owned
    <3> QED
      BY <3>1, CountTypes
  <2>2. Cardinality(Holders(x)') =
           Cardinality(Holders(x)) + (Hold(o, x) - Hold(heap.slot[c], x))
    <3>1. Cardinality(Holders(x)') =
             Cardinality(Holders(x)) - Hold(heap.slot[c], x) + Hold(o, x)
      BY <1>0, <1>1, <1>u, HoldersSet
    <3> QED
      BY <3>1, CountTypes DEF Hold
  <2>3. RefsTo(x)' = RefsTo(x) + Hold(o, x)
    <3>1. /\ Hold(o, x) \in Int /\ Hold(o, x) - Hold(heap.slot[c], x) \in Int
          /\ (leaked[x])' = leaked[x] + 0
      BY <1>0, <1>u DEF Hold
    <3>2. RefsTo(x)' = RefsTo(x) + 0 + (Hold(o, x) - Hold(heap.slot[c], x)) + 0
                       + Hold(arg', x) - Hold(arg, x)
                       + Hold(result', x) - Hold(result, x)
                       + Hold(dropped', x) - Hold(dropped, x)
      BY <2>1, <2>2, <3>1, Balance
    <3>3. RefsTo(x) \in Nat
      BY Unfolded
    <3> QED
      BY <1>0, <1>u, <3>2, <3>3 DEF Hold
  <2> QED
    BY <1>0, <1>1, <2>3, Unfolded DEF Hold
<1>5. OnlyLiveHold'
  BY <1>0, <1>1, Unfolded DEF RefsInv, OnlyLiveHold
<1> QED
  BY <1>1, <1>3, <1>4, <1>5 DEF RefsInv, RefCountExact

\* setPropertyString and setPropertyValue: the property takes over the
\* reference of the wrapper.
LEMMA MoveIntoStep ==
    ASSUME RefsInv, NEW w \in Wrappers, NEW y \in Wrappers, MoveInto(w, y)
    PROVE  RefsInv'
<1> DEFINE c == wobj[w]
           o == wobj[y]
<1>0. /\ c \in Objects /\ heap.status[c] = "live" /\ o \in Objects
      /\ heap.status[o] = "live" /\ dropped = None /\ dropped' = heap.slot[c]
      /\ heap' = SetValue(heap, c, o) /\ Owned(y)
      /\ wkind' = [wkind EXCEPT ![y] = "moved"]
      /\ UNCHANGED <<wobj, isFreed, inCall, arg, result, storing, leaked>>
  BY UsingLive DEF MoveInto, Usable, Ready, callVars
<1>u. /\ heap \in Heaps /\ heap.rc \in [Objects -> Int] /\ heap.bad = FALSE
      /\ heap.status \in [Objects -> {"none", "live", "freed"}]
      /\ heap.slot \in [Objects -> Objects \cup {None}]
      /\ leaked \in [Objects -> Nat] /\ Global \in Objects /\ None \notin Objects
  BY Unfolded
<1>o. /\ wkind' \in [Wrappers -> {"unused", "owned", "moved", "borrowed", "stale"}]
      /\ Pointing' /\ Lent'
      /\ \A v \in Wrappers : Owned(v)' <=> Owned(v) /\ v # y
  BY <1>0, GiveTypes
<1>g. \A x : Cardinality(Owners(x)') = Cardinality(Owners(x)) - Hold(wobj[y], x)
  BY <1>0, <1>o, OwnersGive DEF RefsInv
<1> HIDE DEF c
<1>1. /\ heap' \in Heaps /\ heap'.status = heap.status
      /\ heap'.slot = [heap.slot EXCEPT ![c] = o]
      /\ heap'.rc = heap.rc /\ heap'.bad = FALSE
  BY <1>0, <1>u, SetFields
<1>3. RefsTypeOK' /\ Pointing' /\ Lent'
  BY <1>0, <1>1, <1>o, <1>u DEF RefsInv, RefsTypeOK
<1>4. ASSUME NEW x \in Objects
      PROVE  /\ (heap.rc[x])' = RefsTo(x)'
             /\ (heap.status[x])' = "live" <=> (heap.rc[x])' > 0
  <2>1. Cardinality(Owners(x)') = Cardinality(Owners(x)) + (0 - Hold(o, x))
    BY <1>g, CountTypes DEF Hold
  <2>2. Cardinality(Holders(x)') =
           Cardinality(Holders(x)) + (Hold(o, x) - Hold(heap.slot[c], x))
    <3>1. Cardinality(Holders(x)') =
             Cardinality(Holders(x)) - Hold(heap.slot[c], x) + Hold(o, x)
      BY <1>0, <1>1, <1>u, HoldersSet
    <3> QED
      BY <3>1, CountTypes DEF Hold
  <2> HIDE DEF o
  <2>3. RefsTo(x)' = RefsTo(x)
    <3>1. /\ (0 - Hold(o, x)) \in Int /\ (Hold(o, x) - Hold(heap.slot[c], x)) \in Int /\ 0 \in Int
          /\ (leaked[x])' = leaked[x] + 0
      BY <1>0, <1>u DEF Hold
    <3>2. RefsTo(x)' = RefsTo(x) + (0 - Hold(o, x)) + (Hold(o, x) - Hold(heap.slot[c], x)) + 0
                       + Hold(arg', x) - Hold(arg, x)
                       + Hold(result', x) - Hold(result, x)
                       + Hold(dropped', x) - Hold(dropped, x)
      BY <2>1, <2>2, <3>1, Balance
    <3>3. RefsTo(x) \in Nat
      BY Unfolded
    <3> QED
      BY <1>0, <1>u, <3>2, <3>3 DEF Hold
  <2> QED
    BY <1>0, <1>1, <2>3, Unfolded DEF Hold
<1>5. OnlyLiveHold'
  BY <1>0, <1>1, <1>u DEF RefsInv, OnlyLiveHold
<1> QED
  BY <1>1, <1>3, <1>4, <1>5 DEF RefsInv, RefCountExact

\* free(): the reference of the wrapper is the one to give back.
LEMMA FreeStep ==
    ASSUME RefsInv, NEW w \in Wrappers, Free(w)
    PROVE  RefsInv'
<1> DEFINE o == wobj[w]
<1>0. /\ o \in Objects /\ dropped = None /\ dropped' = o /\ Owned(w)
      /\ isFreed' = [isFreed EXCEPT ![w] = TRUE]
      /\ UNCHANGED <<heap, wobj, wkind, inCall, arg, result, storing, leaked>>
  BY UsingLive DEF Free, Usable, Ready, callVars
<1>u. /\ heap \in Heaps /\ heap.rc \in [Objects -> Int] /\ heap.bad = FALSE
      /\ heap.status \in [Objects -> {"none", "live", "freed"}]
      /\ heap.slot \in [Objects -> Objects \cup {None}]
      /\ leaked \in [Objects -> Nat] /\ Global \in Objects /\ None \notin Objects
  BY Unfolded
<1>o. /\ isFreed' \in [Wrappers -> BOOLEAN]
      /\ Pointing' /\ Lent'
      /\ \A v \in Wrappers : Owned(v)' <=> Owned(v) /\ v # w
  BY <1>0, GiveTypes
<1>g. \A x : Cardinality(Owners(x)') = Cardinality(Owners(x)) - Hold(wobj[w], x)
  BY <1>0, <1>o, OwnersGive DEF RefsInv
<1>1. heap' = heap /\ heap'.bad = FALSE
  BY <1>0, <1>u
<1>3. RefsTypeOK' /\ Pointing' /\ Lent'
  BY <1>0, <1>1, <1>o, <1>u DEF RefsInv, RefsTypeOK
<1>4. ASSUME NEW x \in Objects
      PROVE  /\ (heap.rc[x])' = RefsTo(x)'
             /\ (heap.status[x])' = "live" <=> (heap.rc[x])' > 0
  <2>1. Cardinality(Owners(x)') = Cardinality(Owners(x)) + (0 - Hold(o, x))
    BY <1>g, CountTypes DEF Hold
  <2>2. Cardinality(Holders(x)') = Cardinality(Holders(x)) + 0
    <3>1. Holders(x)' = Holders(x)
      BY <1>0, <1>1 DEF Holders
    <3> QED
      BY <3>1, CountTypes
  <2> HIDE DEF o
  <2>3. RefsTo(x)' = RefsTo(x)
    <3>1. /\ (0 - Hold(o, x)) \in Int /\ 0 \in Int
          /\ (leaked[x])' = leaked[x] + 0
      BY <1>0, <1>u DEF Hold
    <3>2. RefsTo(x)' = RefsTo(x) + (0 - Hold(o, x)) + 0 + 0
                       + Hold(arg', x) - Hold(arg, x)
                       + Hold(result', x) - Hold(result, x)
                       + Hold(dropped', x) - Hold(dropped, x)
      BY <2>1, <2>2, <3>1, Balance
    <3>3. RefsTo(x) \in Nat
      BY Unfolded
    <3> QED
      BY <1>0, <1>u, <3>2, <3>3 DEF Hold
  <2> QED
    BY <1>0, <1>1, <2>3, Unfolded DEF Hold
<1>5. OnlyLiveHold'
  BY <1>0, <1>1, <1>u DEF RefsInv, OnlyLiveHold
<1> QED
  BY <1>1, <1>3, <1>4, <1>5 DEF RefsInv, RefCountExact

\* callJS when JavaScript keeps the argument and returns it.
LEMMA CallJSKeepStep ==
    ASSUME RefsInv, NEW y \in Wrappers, NEW v \in Wrappers, CallJS(y, v, TRUE)
    PROVE  RefsInv'
<1> DEFINE o == wobj[y]
           c == Global
<1>u0. c \in Objects
  BY ObjectsAssumption
<1>0. /\ o \in Objects /\ heap.status[o] = "live" /\ dropped = None /\ ~Owned(v)
      /\ heap.status[c] = "live" /\ c \in Objects
      /\ dropped' = heap.slot[c] /\ Wrap(v, o, "owned")
      /\ heap' = SetValue(JS_DupValue(JS_DupValue(heap, o), o), c, o)
      /\ UNCHANGED <<inCall, arg, result, storing, leaked>>
  BY <1>u0, UsingLive, ReferencedIsLive DEF CallJS, Usable, Fresh, Owned, Ready, callVars
<1>u. /\ heap \in Heaps /\ heap.rc \in [Objects -> Int] /\ heap.bad = FALSE
      /\ heap.status \in [Objects -> {"none", "live", "freed"}]
      /\ heap.slot \in [Objects -> Objects \cup {None}]
      /\ leaked \in [Objects -> Nat] /\ Global \in Objects /\ None \notin Objects
  BY Unfolded
<1> HIDE DEF o, c
<1>1. /\ heap' \in Heaps /\ heap'.status = heap.status
      /\ heap'.slot = [heap.slot EXCEPT ![c] = o]
      /\ heap'.rc = [heap.rc EXCEPT ![o] = heap.rc[o] + 2] /\ heap'.bad = FALSE
  <2> DEFINE h1 == JS_DupValue(heap, o)
             h2 == JS_DupValue(h1, o)
  <2>1. /\ h1 \in Heaps /\ h1.status = heap.status /\ h1.slot = heap.slot
        /\ h1.rc = [heap.rc EXCEPT ![o] = heap.rc[o] + 1] /\ h1.bad = FALSE
    BY <1>0, <1>u, DupFields
  <2>k. heap' = SetValue(h2, c, o)
    BY <1>0
  <2> HIDE DEF h1
  <2>2. /\ h2 \in Heaps /\ h2.status = heap.status /\ h2.slot = heap.slot
        /\ h2.rc = [h1.rc EXCEPT ![o] = h1.rc[o] + 1] /\ h2.bad = FALSE
    BY <1>0, <2>1, DupFields
  <2>3. [h1.rc EXCEPT ![o] = h1.rc[o] + 1] = [heap.rc EXCEPT ![o] = heap.rc[o] + 2]
    BY <1>0, <1>u, <2>1
  <2> HIDE DEF h2
  <2> QED
    BY <1>0, <2>2, <2>3, <2>k, SetFields
<1>2. /\ wobj' \in [Wrappers -> Objects \cup {None}]
      /\ wkind' \in [Wrappers -> {"unused", "owned", "moved", "borrowed", "stale"}]
      /\ isFreed' \in [Wrappers -> BOOLEAN]
      /\ Pointing' /\ Lent'
  BY <1>0, WrapTypes DEF RefsInv
<1>3. RefsTypeOK' /\ Pointing' /\ Lent'
  BY <1>0, <1>1, <1>2, <1>u DEF RefsInv, RefsTypeOK
<1>4. ASSUME NEW x \in Objects
      PROVE  /\ (heap.rc[x])' = RefsTo(x)'
             /\ (heap.status[x])' = "live" <=> (heap.rc[x])' > 0
  <2>1. Cardinality(Owners(x)') = Cardinality(Owners(x)) + Hold(o, x)
    BY <1>0, OwnersWrap DEF RefsInv
  <2>2. Cardinality(Holders(x)') =
           Cardinality(Holders(x)) + (Hold(o, x) - Hold(heap.slot[c], x))
    <3>1. Cardinality(Holders(x)') =
             Cardinality(Holders(x)) - Hold(heap.slot[c], x) + Hold(o, x)
      BY <1>0, <1>1, <1>u, HoldersSet
    <3> QED
      BY <3>1, CountTypes DEF Hold
  <2>3. RefsTo(x)' = RefsTo(x) + 2 * Hold(o, x)
    <3>1. /\ Hold(o, x) \in Int /\ (Hold(o, x) - Hold(heap.slot[c], x)) \in Int /\ 0 \in Int
          /\ (leaked[x])' = leaked[x] + 0
      BY <1>0, <1>u DEF Hold
    <3>2. RefsTo(x)' = RefsTo(x) + Hold(o, x) + (Hold(o, x) - Hold(heap.slot[c], x)) + 0
                       + Hold(arg', x) - Hold(arg, x)
                       + Hold(result', x) - Hold(result, x)
                       + Hold(dropped', x) - Hold(dropped, x)
      BY <2>1, <2>2, <3>1, Balance
    <3>3. RefsTo(x) \in Nat
      BY Unfolded
    <3> QED
      BY <1>0, <1>u, <3>2, <3>3 DEF Hold
  <2> QED
    BY <1>0, <1>1, <2>3, Unfolded DEF Hold
<1>5. OnlyLiveHold'
  BY <1>0, <1>1, <1>u DEF RefsInv, OnlyLiveHold
<1> QED
  BY <1>1, <1>3, <1>4, <1>5 DEF RefsInv, RefCountExact

\* createJSArray: a new object that a wrapper owns, and its element, which
\* the array holds and the library leaks.
LEMMA CreateJSArrayStep ==
    ASSUME RefsInv, NEW w \in Wrappers, NEW o \in Objects, NEW e \in Objects,
           CreateJSArray(w, o, e)
    PROVE  RefsInv'
<1>0. /\ ~Owned(w) /\ o # e /\ heap.status[o] = "none" /\ heap.status[e] = "none"
      /\ heap' = Alloc(Alloc(heap, e, 2, None), o, 1, e)
      /\ leaked' = [leaked EXCEPT ![e] = leaked[e] + 1]
      /\ Wrap(w, o, "owned")
      /\ UNCHANGED <<inCall, arg, result, storing, dropped>>
  BY DEF CreateJSArray, Fresh, Owned, callVars
<1>u. /\ heap \in Heaps /\ heap.rc \in [Objects -> Int] /\ heap.bad = FALSE
      /\ heap.status \in [Objects -> {"none", "live", "freed"}]
      /\ heap.slot \in [Objects -> Objects \cup {None}]
      /\ leaked \in [Objects -> Nat] /\ Global \in Objects /\ None \notin Objects
  BY Unfolded
<1>n. heap.slot[o] = None /\ heap.rc[o] = 0 /\ heap.slot[e] = None /\ heap.rc[e] = 0
  <2>1. /\ heap.rc[o] \in Nat /\ ~(heap.rc[o] > 0)
        /\ heap.rc[e] \in Nat /\ ~(heap.rc[e] > 0)
    BY <1>0, Unfolded
  <2> QED
    BY <1>0, <2>1 DEF RefsInv, OnlyLiveHold
<1>1. /\ heap' \in Heaps /\ heap'.bad = FALSE
      /\ heap'.status = [[heap.status EXCEPT ![e] = "live"] EXCEPT ![o] = "live"]
      /\ heap'.slot = [heap.slot EXCEPT ![o] = e]
      /\ heap'.rc = [[heap.rc EXCEPT ![e] = 2] EXCEPT ![o] = 1]
  <2> DEFINE h == Alloc(heap, e, 2, None)
  <2>1. /\ h \in Heaps /\ h.status = [heap.status EXCEPT ![e] = "live"]
        /\ h.rc = [heap.rc EXCEPT ![e] = 2]
        /\ h.slot = [heap.slot EXCEPT ![e] = None] /\ h.bad = FALSE
    BY <1>u, AllocNew
  <2>2. h.slot = heap.slot
    BY <1>n, <1>u, <2>1
  <2>k. heap' = Alloc(h, o, 1, e) /\ 1 \in Int /\ e \in Objects \cup {None}
    BY <1>0
  <2> HIDE DEF h
  <2> QED
    BY <2>1, <2>2, <2>k, AllocFields
<1>2. /\ wobj' \in [Wrappers -> Objects \cup {None}]
      /\ wkind' \in [Wrappers -> {"unused", "owned", "moved", "borrowed", "stale"}]
      /\ isFreed' \in [Wrappers -> BOOLEAN]
      /\ Pointing' /\ Lent'
  BY <1>0, WrapTypes DEF RefsInv
<1>3. RefsTypeOK' /\ Pointing' /\ Lent'
  BY <1>0, <1>1, <1>2, <1>u DEF RefsInv, RefsTypeOK
<1>4. ASSUME NEW x \in Objects
      PROVE  /\ (heap.rc[x])' = RefsTo(x)'
             /\ (heap.status[x])' = "live" <=> (heap.rc[x])' > 0
  <2>1. Cardinality(Owners(x)') = Cardinality(Owners(x)) + Hold(o, x)
    BY <1>0, OwnersWrap DEF RefsInv
  <2>2. Cardinality(Holders(x)') =
           Cardinality(Holders(x)) + (Hold(e, x) - Hold(heap.slot[o], x))
    <3>1. Cardinality(Holders(x)') =
             Cardinality(Holders(x)) - Hold(heap.slot[o], x) + Hold(e, x)
      BY <1>0, <1>1, <1>u, HoldersSet
    <3> QED
      BY <3>1, CountTypes DEF Hold
  <2>3. RefsTo(x)' = RefsTo(x) + Hold(o, x) + 2 * Hold(e, x)
    <3>1. /\ Hold(o, x) \in Int /\ (Hold(e, x) - Hold(heap.slot[o], x)) \in Int /\ Hold(e, x) \in Int
          /\ (leaked[x])' = leaked[x] + Hold(e, x)
      BY <1>0, <1>u DEF Hold
    <3>2. RefsTo(x)' = RefsTo(x) + Hold(o, x) + (Hold(e, x) - Hold(heap.slot[o], x)) + Hold(e, x)
                       + Hold(arg', x) - Hold(arg, x)
                       + Hold(result', x) - Hold(result, x)
                       + Hold(dropped', x) - Hold(dropped, x)
      BY <2>1, <2>2, <3>1, Balance
    <3>3. RefsTo(x) \in Nat
      BY Unfolded
    <3> QED
      BY <1>0, <1>n, <1>u, <3>2, <3>3 DEF Hold
  <2> QED
    BY <1>0, <1>1, <1>n, <2>3, Unfolded DEF Hold
<1>5. OnlyLiveHold'
  BY <1>0, <1>1, <1>n, <1>u DEF RefsInv, OnlyLiveHold
<1> QED
  BY <1>1, <1>3, <1>4, <1>5 DEF RefsInv, RefCountExact

\* installDartHook: the property holds the new function, and the library
\* leaks another reference to it.
LEMMA InstallStep ==
    ASSUME RefsInv, NEW w \in Wrappers, NEW o \in Objects, InstallDartHook(w, o)
    PROVE  RefsInv'
<1> DEFINE c == wobj[w]
<1>0. /\ c \in Objects /\ heap.status[c] = "live" /\ heap.status[o] = "none"
      /\ heap' = SetValue(Alloc(heap, o, 2, None), c, o)
      /\ dropped = None /\ dropped' = heap.slot[c]
      /\ leaked' = [leaked EXCEPT ![o] = leaked[o] + 1]
      /\ UNCHANGED <<wobj, wkind, isFreed, inCall, arg, result, storing>>
  BY UsingLive DEF InstallDartHook, Usable, Ready, wrapperVars, callVars
<1> HIDE DEF c
<1>u. /\ heap \in Heaps /\ heap.rc \in [Objects -> Int] /\ heap.bad = FALSE
      /\ heap.status \in [Objects -> {"none", "live", "freed"}]
      /\ heap.slot \in [Objects -> Objects \cup {None}]
      /\ leaked \in [Objects -> Nat] /\ Global \in Objects /\ None \notin Objects
  BY Unfolded
<1>n. heap.slot[o] = None /\ heap.rc[o] = 0
  <2>1. heap.rc[o] \in Nat /\ ~(heap.rc[o] > 0)
    BY <1>0, Unfolded
  <2> QED
    BY <1>0, <2>1 DEF RefsInv, OnlyLiveHold
<1>1. /\ heap' \in Heaps /\ heap'.bad = FALSE
      /\ heap'.status = [heap.status EXCEPT ![o] = "live"]
      /\ heap'.slot = [heap.slot EXCEPT ![c] = o]
      /\ heap'.rc = [heap.rc EXCEPT ![o] = 2]
  <2> DEFINE h == Alloc(heap, o, 2, None)
  <2>1. /\ h \in Heaps /\ h.status = [heap.status EXCEPT ![o] = "live"]
        /\ h.rc = [heap.rc EXCEPT ![o] = 2]
        /\ h.slot = [heap.slot EXCEPT ![o] = None] /\ h.bad = FALSE
    BY <1>u, AllocNew
  <2>2. h.slot = heap.slot
    BY <1>n, <1>u, <2>1
  <2>k. heap' = SetValue(h, c, o)
    BY <1>0
  <2> HIDE DEF h
  <2> QED
    BY <1>0, <2>1, <2>2, <2>k, SetFields
<1>2. Pointing' /\ Lent'
  BY <1>0 DEF RefsInv, Pointing, Lent
<1>3. RefsTypeOK' /\ Pointing' /\ Lent'
  BY <1>0, <1>1, <1>2, <1>u DEF RefsInv, RefsTypeOK
<1>4. ASSUME NEW x \in Objects
      PROVE  /\ (heap.rc[x])' = RefsTo(x)'
             /\ (heap.status[x])' = "live" <=> (heap.rc[x])' > 0
  <2>1. Cardinality(Owners(x)') = Cardinality(Owners(x)) + 0
    <3>1. Owners(x)' = Owners(x)
      BY <1>0 DEF Owners, Owned
    <3> QED
      BY <3>1, CountTypes
  <2>2. Cardinality(Holders(x)') =
           Cardinality(Holders(x)) + (Hold(o, x) - Hold(heap.slot[c], x))
    <3>1. Cardinality(Holders(x)') =
             Cardinality(Holders(x)) - Hold(heap.slot[c], x) + Hold(o, x)
      BY <1>0, <1>1, <1>u, HoldersSet
    <3> QED
      BY <3>1, CountTypes DEF Hold
  <2>3. RefsTo(x)' = RefsTo(x) + 2 * Hold(o, x)
    <3>1. /\ 0 \in Int /\ (Hold(o, x) - Hold(heap.slot[c], x)) \in Int /\ Hold(o, x) \in Int
          /\ (leaked[x])' = leaked[x] + Hold(o, x)
      BY <1>0, <1>u DEF Hold
    <3>2. RefsTo(x)' = RefsTo(x) + 0 + (Hold(o, x) - Hold(heap.slot[c], x)) + Hold(o, x)
                       + Hold(arg', x) - Hold(arg, x)
                       + Hold(result', x) - Hold(result, x)
                       + Hold(dropped', x) - Hold(dropped, x)
      BY <2>1, <2>2, <3>1, Balance
    <3>3. RefsTo(x) \in Nat
      BY Unfolded
    <3> QED
      BY <1>0, <1>u, <3>2, <3>3 DEF Hold
  <2> QED
    BY <1>0, <1>1, <1>n, <2>3, Unfolded DEF Hold
<1>5. OnlyLiveHold'
  BY <1>0, <1>1, <1>n, <1>u DEF RefsInv, OnlyLiveHold
<1> QED
  BY <1>1, <1>3, <1>4, <1>5 DEF RefsInv, RefCountExact

\* callBackWrapper: the argument list holds the object, the wrapper is lent.
LEMMA CallHookStep ==
    ASSUME RefsInv, NEW v \in Wrappers, NEW o \in Objects, CallHook(v, o)
    PROVE  RefsInv'
<1>0. /\ ~inCall /\ ~Owned(v) /\ inCall' = TRUE /\ arg' = o /\ arg = None
      /\ Wrap(v, o, "borrowed")
      /\ UNCHANGED <<result, storing, leaked, dropped>>
  BY DEF CallHook, Fresh, Owned, RefsInv, RefsTypeOK
<1>u. /\ heap \in Heaps /\ heap.rc \in [Objects -> Int] /\ heap.bad = FALSE
      /\ heap.status \in [Objects -> {"none", "live", "freed"}]
      /\ heap.slot \in [Objects -> Objects \cup {None}]
      /\ leaked \in [Objects -> Nat] /\ Global \in Objects /\ None \notin Objects
  BY Unfolded
<1>1. /\ heap' \in Heaps /\ heap'.bad = FALSE /\ heap'.slot = heap.slot
      /\ heap'.status = [heap.status EXCEPT ![o] = "live"]
      /\ heap'.rc = [heap.rc EXCEPT ![o] = heap.rc[o] + 1]
  <2>1. CASE heap.status[o] = "none" /\ heap' = Alloc(heap, o, 1, None)
    <3>1. heap.slot[o] = None /\ heap.rc[o] = 0
      <4>1. heap.rc[o] \in Nat /\ ~(heap.rc[o] > 0)
        BY <2>1, Unfolded
      <4> QED
        BY <2>1, <4>1 DEF RefsInv, OnlyLiveHold
    <3>2. /\ heap' \in Heaps /\ heap'.status = [heap.status EXCEPT ![o] = "live"]
          /\ heap'.rc = [heap.rc EXCEPT ![o] = 1]
          /\ heap'.slot = [heap.slot EXCEPT ![o] = None] /\ heap'.bad = FALSE
      BY <1>u, <2>1, AllocNew
    <3>3. heap.slot = [heap.slot EXCEPT ![o] = None]
      BY <1>u, <3>1
    <3> QED
      BY <3>1, <3>2, <3>3
  <2>2. CASE o \in {Global, heap.slot[Global]} /\ heap' = JS_DupValue(heap, o)
    <3>1. heap.status[o] = "live"
      BY <1>u, <2>2, ReferencedIsLive
    <3>2. heap.status = [heap.status EXCEPT ![o] = "live"]
      BY <1>u, <3>1
    <3>3. /\ heap' \in Heaps /\ heap'.status = heap.status /\ heap'.slot = heap.slot
          /\ heap'.rc = [heap.rc EXCEPT ![o] = heap.rc[o] + 1] /\ heap'.bad = FALSE
      BY <1>u, <2>2, DupFields
    <3> QED
      BY <3>2, <3>3
  <2> QED
    BY <2>1, <2>2 DEF CallHook
<1>2. /\ wobj' \in [Wrappers -> Objects \cup {None}]
      /\ wkind' \in [Wrappers -> {"unused", "owned", "moved", "borrowed", "stale"}]
      /\ isFreed' \in [Wrappers -> BOOLEAN]
      /\ Pointing' /\ Lent'
  BY <1>0, WrapTypes DEF RefsInv
<1>3. RefsTypeOK' /\ Pointing' /\ Lent'
  BY <1>0, <1>1, <1>2, <1>u DEF RefsInv, RefsTypeOK
<1>4. ASSUME NEW x \in Objects
      PROVE  /\ (heap.rc[x])' = RefsTo(x)'
             /\ (heap.status[x])' = "live" <=> (heap.rc[x])' > 0
  <2>1. Cardinality(Owners(x)') = Cardinality(Owners(x)) + 0
    <3>1. Owners(x)' = Owners(x)
      BY <1>0, OwnersLend DEF RefsInv
    <3> QED
      BY <3>1, CountTypes
  <2>2. Cardinality(Holders(x)') = Cardinality(Holders(x)) + 0
    <3>1. Holders(x)' = Holders(x)
      BY <1>0, <1>1 DEF Holders
    <3> QED
      BY <3>1, CountTypes
  <2>3. RefsTo(x)' = RefsTo(x) + Hold(o, x)
    <3>1. 0 \in Int /\ (leaked[x])' = leaked[x] + 0
      BY <1>0, <1>u DEF Hold
    <3>2. RefsTo(x)' = RefsTo(x) + 0 + 0 + 0
                       + Hold(arg', x) - Hold(arg, x)
                       + Hold(result', x) - Hold(result, x)
                       + Hold(dropped', x) - Hold(dropped, x)
      BY <2>1, <2>2, <3>1, Balance
    <3>3. RefsTo(x) \in Nat
      BY Unfolded
    <3> QED
      BY <1>0, <1>u, <3>2, <3>3 DEF Hold
  <2> QED
    BY <1>0, <1>1, <2>3, Unfolded DEF Hold
<1>5. OnlyLiveHold'
  BY <1>0, <1>1, <1>u DEF RefsInv, OnlyLiveHold
<1> QED
  BY <1>1, <1>3, <1>4, <1>5 DEF RefsInv, RefCountExact

\* The end of a hook call: owners stay owners, and nothing is lent.
LEMMA EndCallTypes ==
    ASSUME RefsInv, EndCall
    PROVE  /\ wkind' \in [Wrappers -> {"unused", "owned", "moved", "borrowed", "stale"}]
           /\ Pointing' /\ Lent' /\ UNCHANGED <<wobj, isFreed, leaked>>
           /\ \A x : Owners(x)' = Owners(x)
           /\ inCall' = FALSE /\ arg' = None /\ dropped' = arg
<1>1. /\ wkind \in [Wrappers -> {"unused", "owned", "moved", "borrowed", "stale"}]
      /\ wkind' = [w \in Wrappers |-> IF wkind[w] = "borrowed" THEN "stale" ELSE wkind[w]]
      /\ UNCHANGED <<wobj, isFreed, leaked>>
      /\ inCall' = FALSE /\ arg' = None /\ dropped' = arg
  BY DEF RefsInv, RefsTypeOK, EndCall
<1>2. \A w \in Wrappers : /\ wkind'[w] # "borrowed" /\ Owned(w)' <=> Owned(w)
                          /\ wkind'[w] # "unused" => wkind[w] # "unused"
  BY <1>1 DEF Owned
<1>3. Pointing' /\ Lent'
  BY <1>1, <1>2 DEF RefsInv, Pointing, Lent
<1>4. \A x : Owners(x)' = Owners(x)
  BY <1>1, <1>2 DEF Owners
<1> QED
  BY <1>1, <1>3, <1>4

\* A handler returns nothing: the argument is the reference to give back.
LEMMA ReturnsNullStep ==
    ASSUME RefsInv, HandlerReturnsNull
    PROVE  RefsInv'
<1>0. /\ dropped = None /\ inCall' = FALSE /\ arg' = None /\ dropped' = arg
      /\ UNCHANGED <<heap, wobj, isFreed, result, storing, leaked>>
  BY EndCallTypes DEF HandlerReturnsNull, Ready
<1>u. /\ heap \in Heaps /\ heap.rc \in [Objects -> Int] /\ heap.bad = FALSE
      /\ heap.status \in [Objects -> {"none", "live", "freed"}]
      /\ heap.slot \in [Objects -> Objects \cup {None}]
      /\ leaked \in [Objects -> Nat] /\ Global \in Objects /\ None \notin Objects
  BY Unfolded
<1>2. /\ wkind' \in [Wrappers -> {"unused", "owned", "moved", "borrowed", "stale"}]
      /\ Pointing' /\ Lent' /\ \A x : Owners(x)' = Owners(x)
  BY EndCallTypes DEF HandlerReturnsNull
<1>1. heap' = heap /\ heap'.bad = FALSE
  BY <1>0, <1>u
<1>3. RefsTypeOK' /\ Pointing' /\ Lent'
  BY <1>0, <1>1, <1>2, <1>u DEF RefsInv, RefsTypeOK
<1>4. ASSUME NEW x \in Objects
      PROVE  /\ (heap.rc[x])' = RefsTo(x)'
             /\ (heap.status[x])' = "live" <=> (heap.rc[x])' > 0
  <2>1. Cardinality(Owners(x)') = Cardinality(Owners(x)) + 0
    BY <1>2, CountTypes
  <2>2. Cardinality(Holders(x)') = Cardinality(Holders(x)) + 0
    <3>1. Holders(x)' = Holders(x)
      BY <1>0, <1>1 DEF Holders
    <3> QED
      BY <3>1, CountTypes
  <2>3. RefsTo(x)' = RefsTo(x)
    <3>1. 0 \in Int /\ (leaked[x])' = leaked[x] + 0
      BY <1>0, <1>u DEF Hold
    <3>2. RefsTo(x)' = RefsTo(x) + 0 + 0 + 0
                       + Hold(arg', x) - Hold(arg, x)
                       + Hold(result', x) - Hold(result, x)
                       + Hold(dropped', x) - Hold(dropped, x)
      BY <2>1, <2>2, <3>1, Balance
    <3>3. RefsTo(x) \in Nat
      BY Unfolded
    <3> QED
      BY <1>0, <1>u, <3>2, <3>3 DEF Hold
  <2> QED
    BY <1>0, <1>1, <2>3, Unfolded DEF Hold
<1>5. OnlyLiveHold'
  BY <1>0, <1>1, <1>u DEF RefsInv, OnlyLiveHold
<1> QED
  BY <1>1, <1>3, <1>4, <1>5 DEF RefsInv, RefCountExact

\* A handler returns a wrapper: JavaScript owns another reference.
LEMMA ReturnsJSValueStep ==
    ASSUME RefsInv, NEW w \in Wrappers, NEW keep \in BOOLEAN,
           HandlerReturnsJSValue(w, keep)
    PROVE  RefsInv'
<1> DEFINE o == wobj[w]
<1>0. /\ o \in Objects /\ heap.status[o] = "live"
      /\ dropped = None /\ result = None /\ result' = o /\ storing' = keep
      /\ inCall' = FALSE /\ arg' = None /\ dropped' = arg
      /\ heap' = JS_DupValue(heap, o)
      /\ UNCHANGED <<wobj, isFreed, leaked>>
  BY UsingLive, EndCallTypes DEF HandlerReturnsJSValue, Usable, Ready
<1>u. /\ heap \in Heaps /\ heap.rc \in [Objects -> Int] /\ heap.bad = FALSE
      /\ heap.status \in [Objects -> {"none", "live", "freed"}]
      /\ heap.slot \in [Objects -> Objects \cup {None}]
      /\ leaked \in [Objects -> Nat] /\ Global \in Objects /\ None \notin Objects
  BY Unfolded
<1>2. /\ wkind' \in [Wrappers -> {"unused", "owned", "moved", "borrowed", "stale"}]
      /\ Pointing' /\ Lent' /\ \A x : Owners(x)' = Owners(x)
  BY EndCallTypes DEF HandlerReturnsJSValue
<1> HIDE DEF o
<1>1. /\ heap' \in Heaps /\ heap'.status = heap.status /\ heap'.slot = heap.slot
      /\ heap'.rc = [heap.rc EXCEPT ![o] = heap.rc[o] + 1] /\ heap'.bad = FALSE
  BY <1>0, <1>u, DupFields
<1>3. RefsTypeOK' /\ Pointing' /\ Lent'
  BY <1>0, <1>1, <1>2, <1>u DEF RefsInv, RefsTypeOK
<1>4. ASSUME NEW x \in Objects
      PROVE  /\ (heap.rc[x])' = RefsTo(x)'
             /\ (heap.status[x])' = "live" <=> (heap.rc[x])' > 0
  <2>1. Cardinality(Owners(x)') = Cardinality(Owners(x)) + 0
    BY <1>2, CountTypes
  <2>2. Cardinality(Holders(x)') = Cardinality(Holders(x)) + 0
    <3>1. Holders(x)' = Holders(x)
      BY <1>0, <1>1 DEF Holders
    <3> QED
      BY <3>1, CountTypes
  <2>3. RefsTo(x)' = RefsTo(x) + Hold(o, x)
    <3>1. 0 \in Int /\ (leaked[x])' = leaked[x] + 0
      BY <1>0, <1>u DEF Hold
    <3>2. RefsTo(x)' = RefsTo(x) + 0 + 0 + 0
                       + Hold(arg', x) - Hold(arg, x)
                       + Hold(result', x) - Hold(result, x)
                       + Hold(dropped', x) - Hold(dropped, x)
      BY <2>1, <2>2, <3>1, Balance
    <3>3. RefsTo(x) \in Nat
      BY Unfolded
    <3> QED
      BY <1>0, <1>u, <3>2, <3>3 DEF Hold
  <2> QED
    BY <1>0, <1>1, <2>3, Unfolded DEF Hold
<1>5. OnlyLiveHold'
  BY <1>0, <1>1, <1>u DEF RefsInv, OnlyLiveHold
<1> QED
  BY <1>1, <1>3, <1>4, <1>5 DEF RefsInv, RefCountExact

\* JavaScript uses up the result of a hook call.
LEMMA UseResultStep ==
    ASSUME RefsInv, UseResult
    PROVE  RefsInv'
<1> DEFINE c == Global
           o == result
<1>0. /\ dropped = None /\ o \in Objects /\ result' = None /\ storing' = FALSE
      /\ c \in Objects /\ heap.status[c] = "live"
      /\ IF storing THEN heap' = SetValue(heap, c, o) /\ dropped' = heap.slot[c]
                    ELSE UNCHANGED heap /\ dropped' = o
      /\ UNCHANGED <<wobj, wkind, isFreed, inCall, arg, leaked>>
  BY ReferencedIsLive, ObjectsAssumption DEF UseResult, wrapperVars
<1>r. result = o
  OBVIOUS
<1> HIDE DEF c, o
<1>u. /\ heap \in Heaps /\ heap.rc \in [Objects -> Int] /\ heap.bad = FALSE
      /\ heap.status \in [Objects -> {"none", "live", "freed"}]
      /\ heap.slot \in [Objects -> Objects \cup {None}]
      /\ leaked \in [Objects -> Nat] /\ Global \in Objects /\ None \notin Objects
  BY Unfolded
<1>2. Pointing' /\ Lent'
  BY <1>0 DEF RefsInv, Pointing, Lent
<1>own. ASSUME NEW x
        PROVE  Cardinality(Owners(x)') = Cardinality(Owners(x)) + 0
  <2>1. Owners(x)' = Owners(x)
    BY <1>0 DEF Owners, Owned
  <2> QED
    BY <2>1, CountTypes
<1>1. /\ heap' \in Heaps /\ heap'.status = heap.status /\ heap'.rc = heap.rc
      /\ heap'.bad = FALSE /\ dropped' \in Objects \cup {None}
  <2>1. CASE storing
    <3>1. heap' = SetValue(heap, c, o) /\ dropped' = heap.slot[c]
      BY <1>0, <2>1
    <3>2. /\ heap' \in Heaps /\ heap'.status = heap.status /\ heap'.rc = heap.rc
          /\ heap'.bad = FALSE
      <4> DEFINE h == SetValue(heap, c, o)
      <4>1. /\ h \in Heaps /\ h.status = heap.status /\ h.rc = heap.rc
            /\ h.slot = [heap.slot EXCEPT ![c] = o] /\ h.bad = heap.bad
        BY <1>0, <1>u, SetFields
      <4>2. heap' = h
        BY <3>1
      <4> HIDE DEF h
      <4> QED
        BY <1>u, <4>1, <4>2
    <3> QED
      BY <1>0, <1>u, <3>1, <3>2
  <2>2. CASE ~storing
    BY <1>0, <1>u, <2>2
  <2> QED
    BY <2>1, <2>2
<1>3. RefsTypeOK'
  BY <1>0, <1>1, <1>2, <1>u DEF RefsInv, RefsTypeOK
<1>4. ASSUME NEW x \in Objects
      PROVE  RefsTo(x)' = RefsTo(x)
  <2> DEFINE b == IF storing THEN Hold(o, x) - Hold(heap.slot[c], x) ELSE 0
  <2>1. Cardinality(Holders(x)') = Cardinality(Holders(x)) + b
    <3>1. CASE storing
      <4>1. heap'.slot = [heap.slot EXCEPT ![c] = o]
        BY <1>0, <1>u, <3>1, SetFields
      <4>2. Cardinality(Holders(x)') =
               Cardinality(Holders(x)) - Hold(heap.slot[c], x) + Hold(o, x)
        BY <1>0, <1>u, <4>1, HoldersSet
      <4> QED
        BY <3>1, <4>2, CountTypes DEF Hold
    <3>2. CASE ~storing
      <4>1. Holders(x)' = Holders(x)
        BY <1>0, <3>2 DEF Holders
      <4> QED
        BY <3>2, <4>1, CountTypes
    <3> QED
      BY <3>1, <3>2
  <2>2. b \in Int /\ 0 \in Int /\ (leaked[x])' = leaked[x] + 0 /\ RefsTo(x) \in Nat
    BY <1>0, <1>u, Unfolded DEF Hold
  <2>k. b = IF storing THEN Hold(o, x) - Hold(heap.slot[c], x) ELSE 0
    OBVIOUS
  <2> HIDE DEF b
  <2>3. RefsTo(x)' = RefsTo(x) + 0 + b + 0
                     + Hold(arg', x) - Hold(arg, x)
                     + Hold(result', x) - Hold(result, x)
                     + Hold(dropped', x) - Hold(dropped, x)
    BY <1>own, <2>1, <2>2, Balance
  <2> QED
    BY <1>0, <1>r, <1>u, <2>2, <2>3, <2>k DEF Hold
<1>5. OnlyLiveHold'
  <2>1. ASSUME NEW x \in Objects, heap.status[x] # "live"
        PROVE  heap'.slot[x] = None
    <3>1. heap.slot[x] = None /\ x # c
      BY <1>0, <2>1 DEF RefsInv, OnlyLiveHold
    <3>2. CASE storing
      <4>1. heap' = SetValue(heap, c, o)
        BY <1>0, <3>2
      <4>2. heap'.slot = [heap.slot EXCEPT ![c] = o]
        BY <1>0, <1>u, <4>1, SetFields
      <4> QED
        BY <1>0, <1>u, <3>1, <4>2
    <3>3. CASE ~storing
      BY <1>0, <3>1, <3>3
    <3> QED
      BY <3>2, <3>3
  <2> QED
    BY <1>1, <2>1 DEF OnlyLiveHold
<1> QED
  BY <1>1, <1>2, <1>3, <1>4, <1>5 DEF RefsInv, RefCountExact

\* JS_FreeValue: one reference less, or an object less.
LEMMA FreeValueStep ==
    ASSUME RefsInv, JS_FreeValue
    PROVE  RefsInv'
<1> DEFINE c == dropped
<1>0. /\ c \in Objects /\ heap.status[c] = "live" /\ heap.rc[c] \in Nat \ {0}
      /\ \/ /\ heap.rc[c] > 1 /\ dropped' = None
            /\ heap' = [heap EXCEPT !.rc[c] = heap.rc[c] - 1]
         \/ heap.rc[c] = 1 /\ heap' = Freed(heap, c) /\ dropped' = heap.slot[c]
      /\ UNCHANGED <<wobj, wkind, isFreed, inCall, arg, result, storing, leaked>>
  <2>1. c \in Objects /\ heap.status[c] = "live"
    BY ReferencedIsLive DEF JS_FreeValue
  <2>2. heap.rc[c] \in Nat /\ heap.rc[c] > 0
    BY <2>1, Unfolded
  <2> QED
    BY <2>1, <2>2 DEF JS_FreeValue, wrapperVars, callVars
<1>r. dropped = c
  OBVIOUS
<1> HIDE DEF c
<1>u. /\ heap \in Heaps /\ heap.rc \in [Objects -> Int] /\ heap.bad = FALSE
      /\ heap.status \in [Objects -> {"none", "live", "freed"}]
      /\ heap.slot \in [Objects -> Objects \cup {None}]
      /\ leaked \in [Objects -> Nat] /\ Global \in Objects /\ None \notin Objects
  BY Unfolded
<1>2. Pointing' /\ Lent'
  BY <1>0 DEF RefsInv, Pointing, Lent
<1>a. CASE heap.rc[c] > 1
  <2>h. heap' = [heap EXCEPT !.rc = [heap.rc EXCEPT ![c] = heap.rc[c] - 1]] /\ dropped' = None
    BY <1>0, <1>a
  <2>t. [heap.rc EXCEPT ![c] = heap.rc[c] - 1] \in [Objects -> Int]
    BY <1>0, <1>u
  <2>1. /\ heap' \in Heaps /\ heap'.status = heap.status /\ heap'.slot = heap.slot
        /\ heap'.rc = [heap.rc EXCEPT ![c] = heap.rc[c] - 1] /\ heap'.bad = FALSE
    BY <1>u, <2>h, <2>t DEF Heaps
  <2>3. RefsTypeOK'
    BY <1>0, <1>u, <2>1, <2>h DEF RefsInv, RefsTypeOK
  <2>4. ASSUME NEW x \in Objects
        PROVE  /\ (heap.rc[x])' = RefsTo(x)'
               /\ (heap.status[x])' = "live" <=> (heap.rc[x])' > 0
    <3>1. Owners(x)' = Owners(x) /\ Holders(x)' = Holders(x)
      BY <1>0, <2>1 DEF Owners, Owned, Holders
    <3>2. /\ Cardinality(Owners(x)') = Cardinality(Owners(x)) + 0
          /\ Cardinality(Holders(x)') = Cardinality(Holders(x)) + 0
          /\ (leaked[x])' = leaked[x] + 0 /\ RefsTo(x) \in Nat
      BY <1>0, <1>u, <3>1, CountTypes, Unfolded
    <3>3. RefsTo(x)' = RefsTo(x) + 0 + 0 + 0
                       + Hold(arg', x) - Hold(arg, x)
                       + Hold(result', x) - Hold(result, x)
                       + Hold(dropped', x) - Hold(dropped, x)
      BY <3>2, Balance
    <3>4. RefsTo(x)' = RefsTo(x) - Hold(c, x)
      BY <1>0, <1>r, <1>u, <2>h, <3>2, <3>3 DEF Hold
    <3> QED
      BY <1>0, <1>a, <1>u, <2>1, <3>4, Unfolded DEF Hold
  <2>5. OnlyLiveHold'
    BY <2>1 DEF RefsInv, OnlyLiveHold
  <2> QED
    BY <1>2, <2>1, <2>3, <2>4, <2>5 DEF RefsInv, RefCountExact
<1>b. CASE heap.rc[c] = 1
  <2>h. heap' = Freed(heap, c) /\ dropped' = heap.slot[c]
    BY <1>0, <1>b
  <2>1. /\ heap' \in Heaps /\ heap'.status = [heap.status EXCEPT ![c] = "freed"]
        /\ heap'.slot = [heap.slot EXCEPT ![c] = None]
        /\ heap'.rc = [heap.rc EXCEPT ![c] = 0] /\ heap'.bad = FALSE
    BY <1>0, <1>u, <2>h, FreedFields
  <2>3. RefsTypeOK'
    BY <1>0, <1>u, <2>1, <2>h DEF RefsInv, RefsTypeOK
  <2>4. ASSUME NEW x \in Objects
        PROVE  /\ (heap.rc[x])' = RefsTo(x)'
               /\ (heap.status[x])' = "live" <=> (heap.rc[x])' > 0
    <3>1. Owners(x)' = Owners(x)
      BY <1>0 DEF Owners, Owned
    <3>2. Cardinality(Holders(x)') =
             Cardinality(Holders(x)) - Hold(heap.slot[c], x) + Hold(None, x)
      BY <1>0, <1>u, <2>1, HoldersSet
    <3> DEFINE b == 0 - Hold(heap.slot[c], x)
    <3>3. /\ Cardinality(Owners(x)') = Cardinality(Owners(x)) + 0
          /\ Cardinality(Holders(x)') =
                Cardinality(Holders(x)) + b
          /\ b \in Int /\ 0 \in Int
          /\ (leaked[x])' = leaked[x] + 0 /\ RefsTo(x) \in Nat
      BY <1>0, <1>u, <3>1, <3>2, CountTypes, Unfolded DEF Hold
    <3>k. b = 0 - Hold(heap.slot[c], x)
      OBVIOUS
    <3> HIDE DEF b
    <3>4. RefsTo(x)' = RefsTo(x) + 0 + b + 0
                       + Hold(arg', x) - Hold(arg, x)
                       + Hold(result', x) - Hold(result, x)
                       + Hold(dropped', x) - Hold(dropped, x)
      BY <3>3, Balance
    <3>5. RefsTo(x)' = RefsTo(x) - Hold(c, x)
      BY <1>0, <1>r, <1>u, <2>h, <3>3, <3>4, <3>k DEF Hold
    <3> QED
      BY <1>0, <1>b, <1>u, <2>1, <3>5, Unfolded DEF Hold
  <2>5. OnlyLiveHold'
    BY <1>0, <1>u, <2>1 DEF RefsInv, OnlyLiveHold
  <2> QED
    BY <1>2, <2>1, <2>3, <2>4, <2>5 DEF RefsInv, RefCountExact
<1> QED
  BY <1>0, <1>a, <1>b

-----------------------------------------------------------------------------
(* The theorems. *)

\* After init only the global object exists.
LEMMA RefsInitInv == RefsInit => RefsInv
<1> SUFFICES ASSUME RefsInit PROVE RefsInv
  OBVIOUS
<1>1. /\ heap \in Heaps /\ heap.bad = FALSE /\ None \notin Objects /\ Global \in Objects
      /\ heap.status = [o \in Objects |-> IF o = Global THEN "live" ELSE "none"]
      /\ heap.rc = [o \in Objects |-> IF o = Global THEN GlobalRefs ELSE 0]
      /\ heap.slot = [o \in Objects |-> None]
  BY ObjectsAssumption DEF RefsInit, Heaps, GlobalRefs
<1>2. RefsTypeOK /\ Pointing /\ Lent /\ OnlyLiveHold
  BY <1>1 DEF RefsInit, RefsTypeOK, Pointing, Lent, OnlyLiveHold
<1>3. ASSUME NEW x \in Objects
      PROVE  /\ heap.rc[x] = RefsTo(x)
             /\ heap.status[x] = "live" <=> heap.rc[x] > 0
  <2>1. Owners(x) = {} /\ Holders(x) = {}
    BY <1>1 DEF RefsInit, Owners, Owned, Holders
  <2>2. Cardinality(Owners(x)) = 0 /\ Cardinality(Holders(x)) = 0
    BY <2>1, FS_EmptySet
  <2>3. RefsTo(x) = IF x = Global THEN GlobalRefs ELSE 0
    BY <1>1, <2>2 DEF RefsInit, RefsTo, Hold, GlobalRefs
  <2> QED
    BY <1>1, <2>3 DEF GlobalRefs
<1> QED
  BY <1>1, <1>2, <1>3 DEF RefsInv, RefCountExact

\* Every step keeps the counts exact.
LEMMA RefsStep ==
    ASSUME RefsInv, [RefsNext]_refVars
    PROVE  RefsInv'
<1>1. CASE UNCHANGED refVars
  BY <1>1 DEF refVars, wrapperVars, callVars, RefsInv, RefsTypeOK, RefCountExact, Pointing,
              Lent, OnlyLiveHold, RefsTo, Owners, Owned, Holders
<1>2. ASSUME NEW w \in Wrappers, NEW o \in Objects, NewObject(w, o)
      PROVE  RefsInv'
  BY <1>2, NewObjectStep
<1>3. ASSUME NEW w \in Wrappers, GlobalObject(w)
      PROVE  RefsInv'
  BY <1>3, TakeStep, ReferencedIsLive, ObjectsAssumption DEF GlobalObject, Fresh, Owned
<1>4. ASSUME NEW w \in Wrappers, NEW v \in Wrappers, GetProperty(w, v)
      PROVE  RefsInv'
  <2>1. /\ heap.slot[wobj[w]] \in Objects /\ heap.status[heap.slot[wobj[w]]] = "live"
        /\ heap' = JS_DupValue(heap, heap.slot[wobj[w]])
    BY <1>4, UsingLive, ReferencedIsLive DEF GetProperty
  <2> QED
    BY <1>4, <2>1, TakeStep DEF GetProperty, Fresh, Owned
<1>5. ASSUME NEW w \in Wrappers, NEW v \in Wrappers, Copy(w, v)
      PROVE  RefsInv'
  <2>1. /\ wobj[w] \in Objects /\ heap.status[wobj[w]] = "live"
        /\ heap' = JS_DupValue(heap, wobj[w])
    BY <1>5, UsingLive DEF Copy
  <2> QED
    BY <1>5, <2>1, TakeStep DEF Copy, Fresh, Owned
<1>6. ASSUME NEW y \in Wrappers, NEW v \in Wrappers, NEW keep \in BOOLEAN,
             CallJS(y, v, keep)
      PROVE  RefsInv'
  <2>1. CASE keep
    <3>1. keep = TRUE
      BY <2>1
    <3> QED
      BY <1>6, <3>1, CallJSKeepStep
  <2>2. CASE ~keep
    <3>1. /\ wobj[y] \in Objects /\ heap.status[wobj[y]] = "live" /\ Ready /\ ~Owned(v)
          /\ heap' = JS_DupValue(heap, wobj[y]) /\ dropped' = dropped
          /\ Wrap(v, wobj[y], "owned") /\ UNCHANGED <<callVars, leaked>>
      BY <1>6, <2>2, UsingLive DEF CallJS, Fresh, Owned, Ready
    <3> QED
      BY <3>1, TakeStep
  <2> QED
    BY <2>1, <2>2
<1>7. ASSUME NEW w \in Wrappers, NEW y \in Wrappers, SetProperty(w, y)
      PROVE  RefsInv'
  BY <1>7, SetPropertyStep
<1>8. ASSUME NEW w \in Wrappers, NEW y \in Wrappers,
             SetPropertyString(w, y) \/ SetPropertyValue(w, y)
      PROVE  RefsInv'
  BY <1>8, MoveIntoStep DEF SetPropertyString, SetPropertyValue
<1>9. ASSUME NEW w \in Wrappers, Free(w)
      PROVE  RefsInv'
  BY <1>9, FreeStep
<1>10. ASSUME NEW w \in Wrappers, NEW o \in Objects, NEW e \in Objects,
              CreateJSArray(w, o, e)
       PROVE  RefsInv'
  BY <1>10, CreateJSArrayStep
<1>11. ASSUME NEW w \in Wrappers, NEW o \in Objects, InstallDartHook(w, o)
       PROVE  RefsInv'
  BY <1>11, InstallStep
<1>12. ASSUME NEW v \in Wrappers, NEW o \in Objects, CallHook(v, o)
       PROVE  RefsInv'
  BY <1>12, CallHookStep
<1>13. ASSUME NEW w \in Wrappers, NEW keep \in BOOLEAN, HandlerReturnsJSValue(w, keep)
       PROVE  RefsInv'
  BY <1>13, ReturnsJSValueStep
<1> QED
  BY <1>1, <1>2, <1>3, <1>4, <1>5, <1>6, <1>7, <1>8, <1>9, <1>10, <1>11, <1>12, <1>13,
     ReturnsNullStep, UseResultStep, FreeValueStep DEF RefsNext

\* RefsInv holds in every reachable state.
LEMMA RefsInductive == RefsSpec => []RefsInv
<1>1. RefsInv /\ [RefsNext]_refVars => RefsInv'
  BY RefsStep
<1> QED
  BY <1>1, RefsInitInv, PTL DEF RefsSpec

\* quickjs-ffi.cpp and value.dart: whatever sequence of calls Dart code and
\* hooks make, the count of every object is the number of references to it,
\* and it lives exactly as long as there are any (JSValueRefs!RefCountExact).
THEOREM CountsStayExact == RefsSpec => []RefCountExact
<1>1. RefsInv => RefCountExact
  BY DEF RefsInv
<1> QED
  BY <1>1, RefsInductive, PTL

\* No wrapper that may be used, no property, argument or result ever points
\* to a freed object (JSValueRefs!NoDanglingReference).
THEOREM NothingDangles == RefsSpec => []NoDanglingReference
<1>1. RefsInv => NoDanglingReference
  <2> SUFFICES ASSUME RefsInv PROVE NoDanglingReference
    OBVIOUS
  <2>1. ~heap.bad /\ inCall = (arg # None)
    BY DEF RefsInv, RefsTypeOK
  <2> QED
    BY <2>1, ReferencedIsLive DEF NoDanglingReference
<1> QED
  BY <1>1, RefsInductive, PTL
=============================================================================
