----------------------------- MODULE JSValueRefs ------------------------------
(***************************************************************************)
(* Who owns a reference to a JavaScript object: the JSValue wrappers of    *)
(* the Dart side, the properties of other objects, the argument list of a  *)
(* hook call, and nobody (references that the library takes and can never  *)
(* give back).                                                             *)
(*                                                                         *)
(* An object has one property of interest, slot.  The global object is     *)
(* alive throughout.  A wrapper that Dart code has stopped using may be    *)
(* taken for a new one: wrappers have no finalizer, so forgetting one      *)
(* releases nothing, and only freed, moved and stale ones are recycled.    *)
(*                                                                         *)
(* Giving a reference back may free an object, then what its property      *)
(* held, and so on.  One step gives back one reference, and nothing else   *)
(* happens before the last of them.                                        *)
(***************************************************************************)
EXTENDS Integers, FiniteSets

CONSTANTS
    Objects,        \* JavaScript objects
    Global,         \* the global object
    Wrappers,       \* instances of the Dart class JSValue
    None            \* no object: undefined

ASSUME ObjectsAssumption ==
    Global \in Objects /\ None \notin Objects /\ IsFiniteSet(Objects)
ASSUME WrappersAssumption == IsFiniteSet(Wrappers)

VARIABLES
    heap,       \* the object heap, see Heaps
    wobj,       \* the object a wrapper points to
    wkind,      \* "unused", "owned", "moved", "borrowed" or "stale"
    isFreed,    \* the wrapper's _isFreed
    inCall,     \* is a Dart handler running?
    arg,        \* the argument of that hook call, held by the VM
    leaked,     \* references that no wrapper or object can give back
    dropped,    \* the object whose reference is being given back
    result,     \* the result of a hook call, owned by the VM
    storing     \* will JavaScript keep that result?

wrapperVars == <<wobj, wkind, isFreed>>
callVars == <<inCall, arg, result, storing>>
refVars == <<heap, wrapperVars, callVars, leaked, dropped>>

Heaps == [status : [Objects -> {"none", "live", "freed"}],
          rc : [Objects -> Int],
          slot : [Objects -> Objects \cup {None}],
          bad : BOOLEAN]    \* has freed memory been touched?

RefsTypeOK ==
    /\ heap \in Heaps
    /\ wobj \in [Wrappers -> Objects \cup {None}]
    /\ wkind \in [Wrappers -> {"unused", "owned", "moved", "borrowed", "stale"}]
    /\ isFreed \in [Wrappers -> BOOLEAN]
    /\ inCall \in BOOLEAN /\ arg \in Objects \cup {None}
    /\ inCall = (arg # None)
    /\ leaked \in [Objects -> Nat]
    /\ dropped \in Objects \cup {None}
    /\ result \in Objects \cup {None} /\ storing \in BOOLEAN

\* After init: the context, the properties globalThis and global, and the
\* wrappers that _setGlobalPromiseGetter and setGlobalConsole drop.
GlobalRefs == 5

RefsInit ==
    /\ heap = [status |-> [o \in Objects |-> IF o = Global THEN "live" ELSE "none"],
               rc |-> [o \in Objects |-> IF o = Global THEN GlobalRefs ELSE 0],
               slot |-> [o \in Objects |-> None],
               bad |-> FALSE]
    /\ wobj = [w \in Wrappers |-> None]
    /\ wkind = [w \in Wrappers |-> "unused"]
    /\ isFreed = [w \in Wrappers |-> FALSE]
    /\ inCall = FALSE /\ arg = None
    /\ leaked = [o \in Objects |-> 0]
    /\ dropped = None /\ result = None /\ storing = FALSE

-----------------------------------------------------------------------------
(* Reference counting in QuickJS. *)

\* A new object with n references and a property.
Alloc(h, o, n, value) ==
    [h EXCEPT !.status[o] = "live",
              !.rc[o] = n,
              !.slot[o] = value]

JS_DupValue(h, o) == [h EXCEPT !.rc[o] = @ + 1]

\* JS_FreeValue and free_zero_refcount give back one reference to o: at zero
\* the object is freed, and what its property held is given back in turn.
Freed(h, o) ==
    [h EXCEPT !.status[o] = "freed",
              !.rc[o] = 0,
              !.slot[o] = None]

JS_FreeValue ==
    /\ dropped # None /\ ~heap.bad
    /\ \/ /\ heap.status[dropped] # "live"
          /\ heap' = [heap EXCEPT !.bad = TRUE]
          /\ dropped' = None
       \/ /\ heap.status[dropped] = "live" /\ heap.rc[dropped] > 1
          /\ heap' = [heap EXCEPT !.rc[dropped] = @ - 1]
          /\ dropped' = None
       \/ /\ heap.status[dropped] = "live" /\ heap.rc[dropped] <= 1
          /\ heap' = Freed(heap, dropped)
          /\ dropped' = heap.slot[dropped]
    /\ UNCHANGED <<wrapperVars, callVars, leaked>>

\* set_value: the property takes over the caller's reference to o, then the
\* old value is released.
SetValue(h, c, o) == [h EXCEPT !.slot[c] = o]

-----------------------------------------------------------------------------
(* The wrapper class JSValue. *)

\* Once freed memory has been touched, the program has no meaning.
Ready == ~heap.bad /\ dropped = None /\ result = None

\* Dart code uses the wrappers it owns and those it was lent for the running
\* hook call, and frees or gives away only what it owns.
Owned(w) == wkind[w] = "owned" /\ ~isFreed[w]
Usable(w) == Ready /\ (Owned(w) \/ wkind[w] = "borrowed")
Fresh(w) == Ready /\ (wkind[w] \in {"unused", "moved", "stale"} \/ isFreed[w])

\* The heap h, unless the object behind w has been freed.
Using(w, h) ==
    IF heap.status[wobj[w]] = "freed" THEN [heap EXCEPT !.bad = TRUE] ELSE h

Wrap(w, o, kind) ==
    /\ wobj' = [wobj EXCEPT ![w] = o]
    /\ wkind' = [wkind EXCEPT ![w] = kind]
    /\ isFreed' = [isFreed EXCEPT ![w] = FALSE]

\* JSValue.newObject and the other constructors, and the result of a script.
NewObject(w, o) ==
    /\ Fresh(w) /\ heap.status[o] = "none"
    /\ heap' = Alloc(heap, o, 1, None)
    /\ Wrap(w, o, "owned")
    /\ UNCHANGED <<callVars, leaked, dropped>>

\* JSEngine.global: every use of the getter takes another reference.
GlobalObject(w) ==
    /\ Fresh(w)
    /\ heap' = JS_DupValue(heap, Global)
    /\ Wrap(w, Global, "owned")
    /\ UNCHANGED <<callVars, leaked, dropped>>

GetProperty(w, v) ==
    /\ Usable(w) /\ Fresh(v) /\ heap.slot[wobj[w]] # None
    /\ heap' = Using(w, JS_DupValue(heap, heap.slot[wobj[w]]))
    /\ Wrap(v, heap.slot[wobj[w]], "owned")
    /\ UNCHANGED <<callVars, leaked, dropped>>

\* Mutant: setProp without JS_DupValue.
SetPropertyNoDup(w, x) ==
    /\ Usable(w) /\ Usable(x)
    /\ heap' = Using(w, Using(x, SetValue(heap, wobj[w], wobj[x])))
    /\ dropped' = heap.slot[wobj[w]]
    /\ UNCHANGED <<wrapperVars, callVars, leaked>>

\* setProperty goes through setProp, which duplicates the value.
SetProperty(w, x) ==
    /\ Usable(w) /\ Usable(x)
    /\ heap' = Using(w, Using(x, SetValue(JS_DupValue(heap, wobj[x]), wobj[w], wobj[x])))
    /\ dropped' = heap.slot[wobj[w]]
    /\ UNCHANGED <<wrapperVars, callVars, leaked>>

\* The native call consumes the reference of the wrapper, which goes on
\* pointing to the object with isFreed unchanged.
MoveInto(w, x) ==
    /\ Usable(w) /\ Usable(x) /\ Owned(x)
    /\ heap' = Using(w, Using(x, SetValue(heap, wobj[w], wobj[x])))
    /\ dropped' = heap.slot[wobj[w]]
    /\ wkind' = [wkind EXCEPT ![x] = "moved"]
    /\ UNCHANGED <<wobj, isFreed, callVars, leaked>>

SetPropertyString(w, x) == MoveInto(w, x)
SetPropertyValue(w, x) == MoveInto(w, x)

\* copy() and dupValue.
Copy(w, v) ==
    /\ Usable(w) /\ Fresh(v)
    /\ heap' = Using(w, JS_DupValue(heap, wobj[w]))
    /\ Wrap(v, wobj[w], "owned")
    /\ UNCHANGED <<callVars, leaked, dropped>>

\* free() and dispose(): isFreed is set and never consulted.
Free(w) ==
    /\ Usable(w) /\ Owned(w)
    /\ dropped' = wobj[w]
    /\ isFreed' = [isFreed EXCEPT ![w] = TRUE]
    /\ UNCHANGED <<heap, wobj, wkind, callVars, leaked>>

-----------------------------------------------------------------------------
(* JSEngine. *)

\* createJSArray, createJSObject: the wrapper of each element is dropped
\* after setProperty has duplicated its reference.
CreateJSArray(w, o, e) ==
    /\ Fresh(w) /\ o # e /\ heap.status[o] = "none" /\ heap.status[e] = "none"
    /\ heap' = Alloc(Alloc(heap, e, 2, None), o, 1, e)
    /\ leaked' = [leaked EXCEPT ![e] = @ + 1]
    /\ Wrap(w, o, "owned")
    /\ UNCHANGED <<callVars, dropped>>

\* addCallback and installDartHook: the property gets a duplicate of the new
\* function, and the first reference is dropped.
InstallDartHook(w, o) ==
    /\ Usable(w) /\ heap.status[o] = "none"
    /\ heap' = Using(w, SetValue(Alloc(heap, o, 2, None), wobj[w], o))
    /\ dropped' = heap.slot[wobj[w]]
    /\ leaked' = [leaked EXCEPT ![o] = @ + 1]
    /\ UNCHANGED <<wrapperVars, callVars>>

\* callJS with argument x: JavaScript may keep the argument in a property of
\* the global object, and may return it.
CallJS(x, v, keep) ==
    /\ Usable(x) /\ Fresh(v)
    /\ LET returned == JS_DupValue(heap, wobj[x])
           stored == SetValue(JS_DupValue(returned, wobj[x]), Global, wobj[x])
       IN heap' = Using(x, IF keep THEN stored ELSE returned)
    /\ dropped' = IF keep THEN heap.slot[Global] ELSE None
    /\ Wrap(v, wobj[x], "owned")
    /\ UNCHANGED <<callVars, leaked>>

-----------------------------------------------------------------------------
(* A hook call. *)

\* callBackWrapper: JavaScript passes a new object, or one it reaches through
\* the global object. The wrapper points into the VM's argument list.
CallHook(v, o) ==
    /\ ~inCall /\ Fresh(v)
    /\ \/ heap.status[o] = "none" /\ heap' = Alloc(heap, o, 1, None)
       \/ o \in {Global, heap.slot[Global]} /\ heap' = JS_DupValue(heap, o)
    /\ inCall' = TRUE /\ arg' = o
    /\ Wrap(v, o, "borrowed")
    /\ UNCHANGED <<result, storing, leaked, dropped>>

\* The call is over: the VM releases the argument, and the wrappers lent for
\* the call are stale.
EndCall ==
    /\ inCall' = FALSE /\ arg' = None
    /\ dropped' = arg
    /\ wkind' = [w \in Wrappers |->
                   IF wkind[w] = "borrowed" THEN "stale" ELSE wkind[w]]
    /\ UNCHANGED <<wobj, isFreed, leaked>>

HandlerReturnsNull ==
    /\ inCall /\ Ready
    /\ EndCall
    /\ UNCHANGED <<heap, result, storing>>

\* Mutant: wrapperFunc returns the wrapper's pointer without dupValue.
HandlerReturnsNoDup(w, keep) ==
    /\ inCall /\ Usable(w)
    /\ heap' = Using(w, heap)
    /\ result' = wobj[w] /\ storing' = keep
    /\ EndCall

\* wrapperFunc duplicates a JSValue result; JavaScript owns the duplicate.
HandlerReturnsJSValue(w, keep) ==
    /\ inCall /\ Usable(w)
    /\ heap' = Using(w, JS_DupValue(heap, wobj[w]))
    /\ result' = wobj[w] /\ storing' = keep
    /\ EndCall

\* The arguments are released. JavaScript keeps the result in a property of
\* the global object, or releases it.
UseResult ==
    /\ ~heap.bad /\ dropped = None /\ result # None
    /\ IF storing
       THEN heap' = SetValue(heap, Global, result) /\ dropped' = heap.slot[Global]
       ELSE UNCHANGED heap /\ dropped' = result
    /\ result' = None /\ storing' = FALSE
    /\ UNCHANGED <<wrapperVars, inCall, arg, leaked>>

-----------------------------------------------------------------------------
RefsNext ==
    \/ \E w \in Wrappers, o \in Objects : NewObject(w, o)
    \/ \E w \in Wrappers : GlobalObject(w)
    \/ \E w, v \in Wrappers : GetProperty(w, v)
    \/ \E w, x \in Wrappers : SetProperty(w, x)
    \/ \E w, x \in Wrappers : SetPropertyString(w, x)
    \/ \E w, x \in Wrappers : SetPropertyValue(w, x)
    \/ \E w, v \in Wrappers : Copy(w, v)
    \/ \E w \in Wrappers : Free(w)
    \/ \E w \in Wrappers, o, e \in Objects : CreateJSArray(w, o, e)
    \/ \E w \in Wrappers, o \in Objects : InstallDartHook(w, o)
    \/ \E x, v \in Wrappers, keep \in BOOLEAN : CallJS(x, v, keep)
    \/ \E v \in Wrappers, o \in Objects : CallHook(v, o)
    \/ HandlerReturnsNull
    \/ \E w \in Wrappers, keep \in BOOLEAN : HandlerReturnsJSValue(w, keep)
    \/ UseResult
    \/ JS_FreeValue

RefsSpec == RefsInit /\ [][RefsNext]_refVars

-----------------------------------------------------------------------------
(* Correctness. *)

Owners(o) == {w \in Wrappers : Owned(w) /\ wobj[w] = o}
Holders(o) == {c \in Objects : heap.slot[c] = o}
Hold(place, o) == IF place = o THEN 1 ELSE 0
RefsTo(o) ==
    Cardinality(Owners(o)) + Cardinality(Holders(o))
        + Hold(arg, o) + Hold(result, o) + Hold(dropped, o)
        + (IF o = Global THEN GlobalRefs ELSE 0) + leaked[o]

\* quickjs-ffi.cpp: every native call of the wrapper class leaves an object's
\* count equal to the references held on it: by wrappers, by properties, by
\* the argument list and the result of a hook call, by the reference that is
\* being given back, and by the library's own leaks. An object is alive
\* exactly as long as there is one.
RefCountExact ==
    \A o \in Objects :
        /\ heap.rc[o] = RefsTo(o)
        /\ heap.status[o] = "live" <=> heap.rc[o] > 0

\* Nothing that may still be followed points to a freed object: neither a
\* wrapper that owns its reference or was lent it for the running call, nor
\* a property, nor the argument list, nor a result.
NoDanglingReference ==
    /\ ~heap.bad
    /\ \A w \in Wrappers :
          Owned(w) \/ wkind[w] = "borrowed" => heap.status[wobj[w]] = "live"
    /\ \A c \in Objects : heap.slot[c] # None => heap.status[heap.slot[c]] = "live"
    /\ inCall => heap.status[arg] = "live"
    /\ result # None => heap.status[result] = "live"
=============================================================================
