---------------------------- MODULE ObjectProperties ---------------------------
(***************************************************************************)
(* The properties of an array, the richest of the ordinary objects: a fast *)
(* representation (a vector of values) or a list of properties with flags, *)
(* a length of its own, two prototypes.  Defining, setting and deleting    *)
(* are compared with the algorithms of ECMA-262 on the plain view of the   *)
(* object as a set of properties.                                          *)
(***************************************************************************)
EXTENDS Integers, Sequences, FiniteSets, SequencesExt

CONSTANTS
    Keys,       \* property keys: an index from 0, Length, NameA or NameB
    Values,     \* values that are stored
    Lengths,    \* values that length is set to; Undefined is no length
    Attrs,      \* of "configurable" and "enumerable", what descriptors give
    Accessors,  \* are getters and setters defined?
    Freezing,   \* may the object be made not extensible?
    Inherited   \* what a prototype has under a key: "none", "data" (writable),
                \* "readonly", "setter" or "nosetter"; under one key at a time

Length == 100
NameA == 101
NameB == 102
Undefined == 50
Function == 51
VARIABLES
    o,          \* the object
    protos      \* per key, what the two prototypes have

vars == <<o, protos>>

IsIndex(k) == k < Length
Count == Len(o.vals)

\* Descriptors: the fields that are given.
Has(d, f) == f \in DOMAIN d
Flag(d, f) == Has(d, f) /\ d[f]
IsAccessor(d) == Has(d, "get") \/ Has(d, "set")
Optional(f, S) == {<<>>} \cup [{f} -> S]
Merged(A, B) == {a @@ b : a \in A, b \in B}
Attributes ==
    Merged(IF "configurable" \in Attrs THEN Optional("configurable", BOOLEAN) ELSE {<<>>},
           IF "enumerable" \in Attrs THEN Optional("enumerable", BOOLEAN) ELSE {<<>>})
DataDescs(vs) == Merged(Attributes, Merged(Optional("value", vs), Optional("writable", BOOLEAN)))
AccessorDescs ==
    Merged(Attributes, Merged(Optional("get", {Undefined, Function}), Optional("set", {Undefined, Function})))
AllDescs == DataDescs(Values) \cup (IF Accessors THEN AccessorDescs ELSE {})
LengthDescs == DataDescs(Lengths)
DescsFor(k) == IF k = Length THEN LengthDescs ELSE AllDescs
ValuesFor(k) == IF k = Length THEN Lengths ELSE Values

Init ==
    /\ o = [fast |-> TRUE, vals |-> <<>>, props |-> <<>>, len |-> 0, lenW |-> TRUE, ext |-> TRUE]
    /\ protos \in [Keys \ {Length} -> Inherited \X Inherited]
    /\ \A j, k \in DOMAIN protos :
          j = k \/ <<"none", "none">> \in {protos[j], protos[k]}

-----------------------------------------------------------------------------
(* The implementation.  An operation gives the object and how it ended:    *)
(* "true", "false", "throw", or "setter" when a setter is called.          *)

End(obj, res) == [o |-> obj, res |-> res]

DataProp(k, c, w, e, v) ==
    [key |-> k, c |-> c, w |-> w, e |-> e, acc |-> FALSE, val |-> v, get |-> Undefined, set |-> Undefined]
AccessorProp(k, c, e) ==
    [key |-> k, c |-> c, w |-> FALSE, e |-> e, acc |-> TRUE,
     val |-> Undefined, get |-> Undefined, set |-> Undefined]

PropAt(obj, k) == {i \in DOMAIN obj.props : obj.props[i].key = k}
InShape(obj, k) == k = Length \/ PropAt(obj, k) # {}
\* find_own_property; length is the first property of the shape.
FindOwn(obj, k) ==
    IF k = Length THEN DataProp(Length, FALSE, obj.lenW, FALSE, obj.len)
    ELSE obj.props[CHOOSE i \in PropAt(obj, k) : TRUE]
Store(obj, p) ==
    IF p.key = Length THEN [obj EXCEPT !.len = p.val, !.lenW = p.w]
    ELSE [obj EXCEPT !.props[CHOOSE i \in PropAt(obj, p.key) : TRUE] = p]
AddProperty(obj, p) == [obj EXCEPT !.props = Append(@, p)]

\* convert_fast_array_to_array.
ConvertFastArray(obj) ==
    [obj EXCEPT !.fast = FALSE, !.vals = <<>>,
                !.props = @ \o [i \in DOMAIN obj.vals |-> DataProp(i - 1, TRUE, TRUE, TRUE, obj.vals[i])]]

\* delete_property.
DeleteFound(obj, k) ==
    IF ~FindOwn(obj, k).c THEN End(obj, "false")
    ELSE End([obj EXCEPT !.props = SelectSeq(@, LAMBDA p : p.key # k)], "true")
DeleteProperty(obj, k) ==
    CASE InShape(obj, k) -> DeleteFound(obj, k)
      [] ~InShape(obj, k) /\ obj.fast /\ IsIndex(k) /\ k < Len(obj.vals) ->
            IF k = Len(obj.vals) - 1 THEN End([obj EXCEPT !.vals = Front(@)], "true")
            ELSE DeleteFound(ConvertFastArray(obj), k)
      [] OTHER -> End(obj, "true")

\* set_array_length: element by element from the end, or in two passes over the
\* properties when there are fewer of these.
DeleteFrom(obj, from) ==
    [obj EXCEPT !.props = SelectSeq(@, LAMBDA p : ~IsIndex(p.key) \/ p.key < from)]
\* Mutant: elements that are not configurable go too.
SetArrayLength(obj, v) ==
    LET fixed == {obj.props[i].key : i \in {j \in DOMAIN obj.props : ~obj.props[j].c}}
        Stuck(i) == i \in fixed /\ i >= v
        fromEnd == CHOOSE n \in v .. obj.len :
                      (n > v => Stuck(n - 1)) /\ \A i \in n .. obj.len - 1 : ~Stuck(i)
        passes == FoldLeft(LAMBDA acc, p : IF IsIndex(p.key) /\ p.key >= acc /\ ~p.c THEN p.key + 1 ELSE acc,
                           v, obj.props)
        stop == IF obj.len - v <= Len(obj.props) + 1 THEN fromEnd ELSE passes
    IN CASE v = Undefined -> End(obj, "throw")
         [] v # Undefined /\ obj.fast ->
               End([obj EXCEPT !.vals = IF v < Len(@) THEN SubSeq(@, 1, v) ELSE @, !.len = v], "true")
         [] v # Undefined /\ ~obj.fast /\ v >= obj.len -> End([obj EXCEPT !.len = v], "true")
         [] OTHER -> End([DeleteFrom(obj, stop) EXCEPT !.len = stop], IF stop > v THEN "false" ELSE "true")

AddFastElement(obj, v) ==
    IF Len(obj.vals) + 1 > obj.len /\ ~obj.lenW THEN End(obj, "false")
    ELSE End([obj EXCEPT !.vals = Append(@, v),
                         !.len = IF Len(obj.vals) + 1 > @ THEN Len(obj.vals) + 1 ELSE @], "true")

\* JS_CreateProperty.  A plain array element goes to the vector when it is the
\* next one; anything else makes a list of the vector.
NewProp(k, d) ==
    IF IsAccessor(d)
    THEN [AccessorProp(k, Flag(d, "configurable"), Flag(d, "enumerable")) EXCEPT
             !.get = IF Has(d, "get") THEN d.get ELSE @, !.set = IF Has(d, "set") THEN d.set ELSE @]
    ELSE DataProp(k, Flag(d, "configurable"), Flag(d, "writable"), Flag(d, "enumerable"),
                  IF Has(d, "value") THEN d.value ELSE Undefined)
AllFlags(d, default) ==
    \A f \in {"configurable", "writable", "enumerable"} : IF Has(d, f) THEN d[f] ELSE default
CreateInShape(obj, k, d) ==
    LET long == IF IsIndex(k) /\ k + 1 > obj.len THEN [obj EXCEPT !.len = k + 1] ELSE obj
    IN CASE IsIndex(k) /\ k + 1 > obj.len /\ ~obj.lenW -> End(obj, "false")
         [] ~(IsIndex(k) /\ k + 1 > obj.len /\ ~obj.lenW) /\ ~obj.ext -> End(long, "false")
         [] OTHER -> End(AddProperty(long, NewProp(k, d)), "true")
\* Mutant: an element beyond the vector goes to the list beside it.
CreateProperty(obj, k, d) ==
    CASE obj.fast /\ k = Len(obj.vals) /\ ~obj.ext -> End(obj, "false")
      [] obj.fast /\ k = Len(obj.vals) /\ obj.ext /\ ~IsAccessor(d) /\ AllFlags(d, FALSE) ->
            AddFastElement(obj, NewProp(k, d).val)
      [] obj.fast /\ k = Len(obj.vals) /\ obj.ext /\ (IsAccessor(d) \/ ~AllFlags(d, FALSE)) ->
            CreateInShape(ConvertFastArray(obj), k, d)
      [] obj.fast /\ IsIndex(k) /\ k # Len(obj.vals) -> CreateInShape(ConvertFastArray(obj), k, d)
      [] OTHER -> CreateInShape(obj, k, d)

\* check_define_prop_flags.
\* Mutant: writable may be set again.
CheckWithoutWritable(p, d) ==
    p.c \/ /\ ~Flag(d, "configurable")
           /\ Has(d, "enumerable") => d.enumerable = p.e
           /\ (IsAccessor(d) \/ Has(d, "value") \/ Has(d, "writable")) => IsAccessor(d) = p.acc
CheckDefinePropFlags(p, d) ==
    p.c \/ /\ ~Flag(d, "configurable")
           /\ Has(d, "enumerable") => d.enumerable = p.e
           /\ (IsAccessor(d) \/ Has(d, "value") \/ Has(d, "writable")) =>
                 /\ IsAccessor(d) = p.acc
                 /\ ~p.acc /\ ~p.w => ~Flag(d, "writable")

\* JS_DefineProperty on a property of the shape.
WithAttributes(p, d) ==
    [p EXCEPT !.c = IF Has(d, "configurable") THEN d.configurable ELSE @,
              !.e = IF Has(d, "enumerable") THEN d.enumerable ELSE @]
DefineAccessor(obj, p, d) ==
    LET q == IF p.acc THEN p ELSE AccessorProp(p.key, p.c, p.e)
        fixed == p.acc /\ ~p.c /\ ((Has(d, "get") /\ d.get # p.get) \/ (Has(d, "set") /\ d.set # p.set))
        r == [q EXCEPT !.get = IF Has(d, "get") THEN d.get ELSE @, !.set = IF Has(d, "set") THEN d.set ELSE @]
    IN IF fixed THEN End(obj, "false") ELSE End(Store(obj, WithAttributes(r, d)), "true")
DefineLength(obj, d) ==
    LET r == IF Has(d, "value") THEN SetArrayLength(obj, d.value) ELSE End(obj, "true")
    IN IF Has(d, "writable") /\ ~d.writable THEN End([r.o EXCEPT !.lenW = FALSE], r.res) ELSE r
DefineData(obj, p, d) ==
    LET q == IF p.acc THEN DataProp(p.key, p.c, FALSE, p.e, Undefined) ELSE p
        r == [q EXCEPT !.val = IF Has(d, "value") THEN d.value ELSE @, !.w = IF Has(d, "writable") THEN d.writable ELSE @]
    IN CASE ~p.acc /\ ~p.c /\ ~p.w /\ Has(d, "value") /\ d.value # p.val -> End(obj, "false")
         [] ~(~p.acc /\ ~p.c /\ ~p.w /\ Has(d, "value") /\ d.value # p.val) /\ p.key = Length /\ p.w ->
               DefineLength(obj, d)
         [] OTHER -> End(Store(obj, WithAttributes(r, d)), "true")
DefineInShape(obj, k, d) ==
    LET p == FindOwn(obj, k)
    IN CASE ~CheckDefinePropFlags(p, d) -> End(obj, "false")
         [] CheckDefinePropFlags(p, d) /\ IsAccessor(d) -> DefineAccessor(obj, p, d)
         [] CheckDefinePropFlags(p, d) /\ (Has(d, "value") \/ Has(d, "writable")) /\ ~IsAccessor(d) ->
               DefineData(obj, p, d)
         [] OTHER -> End(Store(obj, WithAttributes(p, d)), "true")
DefineProperty(obj, k, d) ==
    CASE InShape(obj, k) -> DefineInShape(obj, k, d)
      [] ~InShape(obj, k) /\ obj.fast /\ IsIndex(k) /\ k < Len(obj.vals) ->
            IF AllFlags(d, TRUE) /\ ~IsAccessor(d)
            THEN End([obj EXCEPT !.vals[k + 1] = IF Has(d, "value") THEN d.value ELSE @], "true")
            ELSE DefineInShape(ConvertFastArray(obj), k, d)
      [] OTHER -> CreateProperty(obj, k, d)

-----------------------------------------------------------------------------
(* The three ways to set a property. *)

Fresh(v) == [value |-> v, configurable |-> TRUE, writable |-> TRUE, enumerable |-> TRUE]
InheritedAt(k) == IF k = Length THEN <<"none", "none">> ELSE protos[k]
Setter(s) == IF s = Undefined THEN "false" ELSE "setter"

\* What the prototypes say to JS_SetPropertyInternal: the loop goes on behind a
\* property that can be written.
RefusedBy(k) ==
    LET in == SelectSeq(InheritedAt(k), LAMBDA x : x \in {"readonly", "setter", "nosetter"})
    IN IF in = <<>> THEN "true" ELSE IF in[1] = "setter" THEN "setter" ELSE "false"
SetOwn(obj, k, v) ==
    LET p == FindOwn(obj, k)
    IN CASE p.acc -> End(obj, Setter(p.set))
         [] ~p.acc /\ ~p.w -> End(obj, "false")
         [] ~p.acc /\ p.w /\ k = Length -> SetArrayLength(obj, v)
         [] OTHER -> End(Store(obj, [p EXCEPT !.val = v]), "true")
SetPropertyInternal(obj, k, v) ==
    CASE InShape(obj, k) -> SetOwn(obj, k, v)
      [] ~InShape(obj, k) /\ obj.fast /\ IsIndex(k) /\ k < Len(obj.vals) ->
            End([obj EXCEPT !.vals[k + 1] = v], "true")
      [] OTHER ->
            CASE RefusedBy(k) # "true" -> End(obj, RefusedBy(k))
              [] RefusedBy(k) = "true" /\ ~obj.ext -> End(obj, "false")
              [] RefusedBy(k) = "true" /\ obj.ext /\ obj.fast /\ k = Len(obj.vals) -> AddFastElement(obj, v)
              [] OTHER -> CreateProperty(obj, k, Fresh(v))

\* JS_SetPropertyValue: an element that exists, or the next one when no
\* prototype has an index.
\* Mutant: the prototypes are not looked at.
SetPropertyValue(obj, k, v) ==
    CASE k < Len(obj.vals) -> End([obj EXCEPT !.vals[k + 1] = v], "true")
      [] k = Len(obj.vals) /\ obj.fast /\ obj.ext
            /\ \A i \in Keys : IsIndex(i) => protos[i] = <<"none", "none">> -> AddFastElement(obj, v)
      [] OTHER -> SetPropertyInternal(obj, k, v)

\* JS_GetOwnPropertyInternal.
GetOwn(obj, k) ==
    CASE InShape(obj, k) -> {FindOwn(obj, k)}
      [] ~InShape(obj, k) /\ obj.fast /\ IsIndex(k) /\ k < Len(obj.vals) ->
            {DataProp(k, TRUE, TRUE, TRUE, obj.vals[k + 1])}
      [] OTHER -> {}
\* JS_SetPropertyGeneric, for Reflect.set.
SetPropertyGeneric(obj, k, v) ==
    LET own == GetOwn(obj, k)
        found == SelectSeq(InheritedAt(k), LAMBDA x : x # "none")
        in == IF own # {} \/ found = <<>> THEN "data" ELSE found[1]
    IN CASE \E p \in own : p.acc -> End(obj, Setter((CHOOSE p \in own : TRUE).set))
         [] \E p \in own : ~p.acc /\ ~p.w -> End(obj, "false")
         [] \E p \in own : ~p.acc /\ p.w -> DefineProperty(obj, k, [value |-> v])
         [] own = {} /\ in = "setter" -> End(obj, "setter")
         [] own = {} /\ in \in {"nosetter", "readonly"} -> End(obj, "false")
         [] OTHER -> CreateProperty(obj, k, Fresh(v))

\* JS_GetOwnPropertyNamesInternal: indexes in order, then names as they were
\* added.
OwnNames(obj) ==
    LET inList == SelectSeq([i \in DOMAIN obj.props |-> obj.props[i].key], IsIndex)
    IN SortSeq(inList, <) \o [i \in DOMAIN obj.vals |-> i - 1]
         \o <<Length>> \o SelectSeq([i \in DOMAIN obj.props |-> obj.props[i].key], LAMBDA k : ~IsIndex(k))

-----------------------------------------------------------------------------

Take(r) == o' = r.o /\ UNCHANGED protos
Define(k, d) == Take(DefineProperty(o, k, d))
SetAtom(k, v) == Take(SetPropertyInternal(o, k, v))
SetElement(k, v) == IsIndex(k) /\ Take(SetPropertyValue(o, k, v))
ReflectSet(k, v) == Take(SetPropertyGeneric(o, k, v))
Delete(k) == Take(DeleteProperty(o, k))
PreventExtensions == Freezing /\ o.ext /\ o' = [o EXCEPT !.ext = FALSE] /\ UNCHANGED protos

Next ==
    \/ \E k \in Keys : \E d \in DescsFor(k) : Define(k, d)
    \/ \E k \in Keys : \E v \in ValuesFor(k) : SetAtom(k, v) \/ SetElement(k, v) \/ ReflectSet(k, v)
    \/ \E k \in Keys : Delete(k)
    \/ PreventExtensions

Spec == Init /\ [][Next]_vars

-----------------------------------------------------------------------------
(* The algorithms of ECMA-262 on a view of the object: its properties by   *)
(* key, in the order of the names, and whether it can be extended.         *)

View(obj) ==
    [props |-> [k \in {j \in Keys \cup {Length} : GetOwn(obj, j) # {}} |-> CHOOSE p \in GetOwn(obj, k) : TRUE],
     ext |-> obj.ext]
Gives(view, res) == [view |-> view, res |-> res]
Given(d, f, old) == IF Has(d, f) THEN d[f] ELSE old

\* ValidateAndApplyPropertyDescriptor.
Allowed(p, d) ==
    p.c \/ /\ ~Flag(d, "configurable") /\ Given(d, "enumerable", p.e) = p.e
           /\ IsAccessor(d) => p.acc /\ Given(d, "get", p.get) = p.get /\ Given(d, "set", p.set) = p.set
           /\ Has(d, "value") \/ Has(d, "writable") =>
                 /\ ~p.acc
                 /\ ~p.w => ~Flag(d, "writable") /\ Given(d, "value", p.val) = p.val
Applied(p, d) ==
    [key |-> p.key, c |-> Given(d, "configurable", p.c), e |-> Given(d, "enumerable", p.e),
     acc |-> IsAccessor(d) \/ (p.acc /\ ~Has(d, "value") /\ ~Has(d, "writable")),
     w |-> IF IsAccessor(d) THEN FALSE ELSE Given(d, "writable", p.w),
     val |-> IF IsAccessor(d) THEN Undefined ELSE Given(d, "value", p.val),
     get |-> IF Has(d, "value") \/ Has(d, "writable") THEN Undefined ELSE Given(d, "get", p.get),
     set |-> IF Has(d, "value") \/ Has(d, "writable") THEN Undefined ELSE Given(d, "set", p.set)]
OrdinaryDefine(v, k, d) ==
    IF k \notin DOMAIN v.props
    THEN IF v.ext THEN Gives([v EXCEPT !.props = (k :> NewProp(k, d)) @@ @], "true") ELSE Gives(v, "false")
    ELSE IF Allowed(v.props[k], d) THEN Gives([v EXCEPT !.props[k] = Applied(@, d)], "true") ELSE Gives(v, "false")

\* ArraySetLength and the [[DefineOwnProperty]] of arrays.
LenOf(v) == v.props[Length].val
ArraySetLength(v, d) ==
    LET first == OrdinaryDefine(v, Length,
                    [f \in DOMAIN d |-> IF f = "writable" THEN TRUE ELSE d[f]])
        stuck == {i \in DOMAIN v.props : IsIndex(i) /\ i >= d.value /\ ~v.props[i].c}
        stop == IF stuck = {} THEN d.value ELSE 1 + CHOOSE i \in stuck : \A j \in stuck : j <= i
        cut == [k \in {j \in DOMAIN first.view.props : ~IsIndex(j) \/ j < stop} |->
                   IF k = Length THEN [first.view.props[k] EXCEPT
                                          !.val = stop, !.w = @ /\ (Has(d, "writable") => d.writable)]
                   ELSE first.view.props[k]]
    IN CASE ~Has(d, "value") -> OrdinaryDefine(v, Length, d)
         [] Has(d, "value") /\ d.value = Undefined -> Gives(v, "throw")
         [] Has(d, "value") /\ d.value # Undefined /\ d.value >= LenOf(v) -> OrdinaryDefine(v, Length, d)
         [] OTHER -> IF ~v.props[Length].w \/ first.res = "false" THEN Gives(v, "false")
                     ELSE Gives([v EXCEPT !.props = cut], IF stuck = {} THEN "true" ELSE "false")
ArrayDefine(v, k, d) ==
    LET r == OrdinaryDefine(v, k, d)
    IN CASE k = Length -> ArraySetLength(v, d)
         [] IsIndex(k) /\ k >= LenOf(v) /\ ~v.props[Length].w -> Gives(v, "false")
         [] IsIndex(k) /\ k >= LenOf(v) /\ v.props[Length].w /\ r.res = "true" ->
               Gives([r.view EXCEPT !.props[Length].val = k + 1], "true")
         [] OTHER -> r

\* OrdinarySet with the object as receiver.
ArraySet(v, k, x) ==
    LET found == SelectSeq(InheritedAt(k), LAMBDA y : y # "none")
    IN CASE k \in DOMAIN v.props /\ v.props[k].acc -> Gives(v, Setter(v.props[k].set))
         [] k \in DOMAIN v.props /\ ~v.props[k].acc /\ ~v.props[k].w -> Gives(v, "false")
         [] k \in DOMAIN v.props /\ ~v.props[k].acc /\ v.props[k].w -> ArrayDefine(v, k, [value |-> x])
         [] k \notin DOMAIN v.props /\ found # <<>> /\ found[1] # "data" ->
               Gives(v, IF found[1] = "setter" THEN "setter" ELSE "false")
         [] OTHER -> ArrayDefine(v, k, Fresh(x))
OrdinaryDelete(v, k) ==
    CASE k \notin DOMAIN v.props -> Gives(v, "true")
      [] k \in DOMAIN v.props /\ ~v.props[k].c -> Gives(v, "false")
      [] OTHER -> Gives([v EXCEPT !.props = [j \in DOMAIN @ \ {k} |-> @[j]]], "true")

-----------------------------------------------------------------------------
(* Where the code departs from these algorithms, and what it does there.   *)

\* JS_CreateProperty updates length before it looks whether the array can be
\* extended: a refused element leaves the array longer.  Only the element right
\* behind a vector is refused in time.
RefusedTooLate(k) ==
    /\ IsIndex(k) /\ k >= o.len /\ o.lenW /\ ~o.ext
    /\ ~(o.fast /\ k = Len(o.vals))
Lengthened(v, k) == [v EXCEPT !.props[Length].val = k + 1]

\* JS_SetPropertyInternal goes on past a prototype that has a writable data
\* property, to one behind it that refuses the assignment or has a setter.
FoundIn(k) == SelectSeq(InheritedAt(k), LAMBDA y : y # "none")
HiddenBehind(k) ==
    LET found == FoundIn(k)
    IN IF GetOwn(o, k) = {} /\ Len(found) = 2 /\ found[1] = "data" /\ found[2] # "data"
       THEN {found[2]} ELSE {}

Agrees(impl, spec) == View(impl.o) = spec.view /\ impl.res = spec.res

-----------------------------------------------------------------------------
(* Properties. *)

\* JS_DefineProperty and delete_property do what the language says, for every
\* object that can be reached and every descriptor, whichever representation
\* the object has; only a new element that is refused because the array is not
\* extensible may leave the array longer.
DefineAsTheLanguage ==
    /\ \A k \in Keys : \A d \in DescsFor(k) :
          Agrees(DefineProperty(o, k, d),
                 IF RefusedTooLate(k) THEN Gives(Lengthened(View(o), k), "false")
                 ELSE ArrayDefine(View(o), k, d))
    /\ \A k \in Keys : Agrees(DeleteProperty(o, k), OrdinaryDelete(View(o), k))

\* The quick ways to set a property do what OrdinarySet says, except that they
\* obey what stands behind an inherited data property; Reflect.set does, except
\* that it may leave an array longer, as a definition does.
SetAsTheLanguage ==
    \A k \in Keys : \A v \in ValuesFor(k) :
        LET want == ArraySet(View(o), k, v)
            quick == IF HiddenBehind(k) = {} THEN want
                     ELSE Gives(View(o), IF "setter" \in HiddenBehind(k) THEN "setter" ELSE "false")
        IN /\ Agrees(SetPropertyInternal(o, k, v), quick)
           /\ IsIndex(k) => Agrees(SetPropertyValue(o, k, v), quick)
           /\ Agrees(SetPropertyGeneric(o, k, v),
                     IF RefusedTooLate(k) /\ (FoundIn(k) = <<>> \/ FoundIn(k)[1] = "data")
                     THEN Gives(Lengthened(View(o), k), "false") ELSE want)

\* The representation: no key twice, elements of the vector below length, and
\* no index in the list while there is a vector; keys are listed in the order
\* of the language.
Representation ==
    /\ \A i, j \in DOMAIN o.props : i # j => o.props[i].key # o.props[j].key
    /\ o.fast => \A i \in DOMAIN o.props : ~IsIndex(o.props[i].key)
    /\ o.vals # <<>> => o.fast
    /\ \A k \in Keys : IsIndex(k) /\ GetOwn(o, k) # {} => k < o.len
    /\ LET names == OwnNames(o)
       IN /\ Range(names) = DOMAIN View(o).props
          /\ \A i, j \in DOMAIN names : i < j /\ IsIndex(names[j]) => names[i] \in 0 .. names[j] - 1
================================================================================
