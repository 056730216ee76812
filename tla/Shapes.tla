-------------------------------- MODULE Shapes --------------------------------
(***************************************************************************)
(* The hidden classes of QuickJS.  An object keeps its property values in  *)
(* an array of its own; the names, the flags and the prototype are in a    *)
(* JSShape that objects built the same way share.  Shared shapes are found *)
(* through a hash table of shapes, the properties inside a shape through a *)
(* second one.  A shape in the table may be shared at any time, so that it *)
(* must be cloned before one object alone changes.                         *)
(*                                                                         *)
(* Sizes are scaled (InitialSize for JS_PROP_INITIAL_SIZE, CompactMin for  *)
(* the 8 of delete_property, HashMod for 2^32).  Object identifiers are    *)
(* addresses: one that has been freed may be used again.  An allocation    *)
(* does not fail.                                                          *)
(***************************************************************************)
EXTENDS Naturals, Sequences, FiniteSets, SequencesExt, FiniteSetsExt, Functions

CONSTANTS
    ObjectIds,      \* addresses, 1 .. n
    ArrayProto,     \* Array.prototype, alive from the start
    Names,          \* atoms of properties; Length is the one of arrays
    Length,
    Flags, Values,
    Configurable,   \* the flags with JS_PROP_CONFIGURABLE
    InitialSize, InitialHash, InitialTable, CompactMin,
    HashMod, HashMul,
    MaxShape,       \* bound: shape identifiers
    MaxProps,       \* bound: entries of a shape, deleted ones included
    MaxSteps        \* bound: operations of the program

VARIABLES
    heap,       \* [sh, tab, obj, arrayShape]
    seen,       \* the objects as the program sees them: View(heap)
    steps       \* operations done so far

vars == <<heap, seen, steps>>

NoObject == 0
NullAtom == 0
NoValue == 0
ShapeIds == 1 .. MaxShape

(***************************************************************************)
(* The table of shapes: tab[b] is the chain of bucket b, head first.       *)
(***************************************************************************)
ShapeHash(h, val) == ((h + val) * HashMul) % HashMod
InitialShapeHash(proto) == ShapeHash(ShapeHash(1, proto), 0)
HashProp(h, atom, flags) == ShapeHash(ShapeHash(h, atom), flags)
Bucket(tab, h) == (h \div (HashMod \div Len(tab))) + 1
Count(tab) == Len(FlattenSeq(tab))

Link(hp, s) ==
    LET b == Bucket(hp.tab, hp.sh[s].hash)
    IN  [hp EXCEPT !.tab[b] = <<s>> \o @]

(* Mutant of Unlink: the chain is the one of another hash.                 *)
Unlink(hp, s) ==
    LET b == Bucket(hp.tab, hp.sh[s].hash)
    IN  [hp EXCEPT !.tab[b] = SelectSeq(@, LAMBDA x : x # s)]

RECURSIVE LinkAll(_, _)
LinkAll(hp, ss) == IF ss = <<>> THEN hp ELSE LinkAll(Link(hp, Head(ss)), Tail(ss))
ResizeShapeHash(hp) == LinkAll([hp EXCEPT !.tab = [b \in 1 .. 2 * Len(@) |-> <<>>]], FlattenSeq(hp.tab))

(***************************************************************************)
(* One shape: props is the array of properties, hash heads the chains.     *)
(***************************************************************************)
Slot(sh, atom) == (atom % Len(sh.heads)) + 1

(* Insert property i in the chains of its shape.                           *)
Chain(sh, i) ==
    LET b == Slot(sh, sh.props[i].atom)
    IN  [sh EXCEPT !.props[i].next = sh.heads[b], !.heads[b] = i]

RECURSIVE ChainFrom(_, _)
ChainFrom(sh, i) ==
    CASE i > Len(sh.props) -> sh
      [] i <= Len(sh.props) /\ sh.props[i].atom = NullAtom -> ChainFrom(sh, i + 1)
      [] OTHER -> ChainFrom(Chain(sh, i), i + 1)
Rehash(sh, n) == ChainFrom([sh EXCEPT !.heads = [b \in 1 .. n |-> 0]], 1)

(* find_own_property1: the index of the property, or 0.                    *)
RECURSIVE Follow(_, _, _)
Follow(sh, atom, i) == IF i = 0 \/ sh.props[i].atom = atom THEN i ELSE Follow(sh, atom, sh.props[i].next)
FindOwn(sh, atom) == Follow(sh, atom, sh.heads[Slot(sh, atom)])

RECURSIVE PowerTo(_, _)
PowerTo(h, n) == IF h >= n THEN h ELSE PowerTo(2 * h, n)
RECURSIVE HalveTo(_, _)
HalveTo(h, n) == IF h \div 2 >= n THEN HalveTo(h \div 2, n) ELSE h

(* resize_properties: o = 0 when no object owns the shape yet.  The array  *)
(* of the object and the one of the shape get the same size.               *)
Resized(sh, size, n) == [IF n = Len(sh.heads) THEN sh ELSE Rehash(sh, n) EXCEPT !.size = size]
ResizeTo(hp, s, o, size) ==
    LET g == [hp EXCEPT !.sh[s] = Resized(@, size, PowerTo(Len(@.heads), size))]
    IN  IF o = NoObject THEN g ELSE [g EXCEPT !.obj[o].alloc = size]
ResizeProperties(hp, s, o, count) == ResizeTo(hp, s, o, Max({count, (hp.sh[s].size * 3) \div 2}))

(* Mutant of KeepProto: the prototype is not counted.                      *)
KeepProto(hp, proto) == IF proto = NoObject THEN hp ELSE [hp EXCEPT !.obj[proto].ref = @ + 1]
FreeId(hp) == Min(ShapeIds \ DOMAIN hp.sh)
AddShape(hp, s, sh) == KeepProto([hp EXCEPT !.sh = (s :> sh) @@ @], sh.proto)
NewShapeAs(hp, proto, size, s) ==
    [heap |-> Link(AddShape(hp, s, [ref |-> 1, proto |-> proto, hashed |-> TRUE,
                                    hash |-> InitialShapeHash(proto), props |-> <<>>,
                                    heads |-> [b \in 1 .. InitialHash |-> 0],
                                    size |-> size, deleted |-> 0]), s),
     id |-> s]
NewShape(hp, proto, size) ==
    NewShapeAs(IF 2 * (Count(hp.tab) + 1) > Len(hp.tab) THEN ResizeShapeHash(hp) ELSE hp, proto, size, FreeId(hp))

CloneAs(hp, s1, s) == [heap |-> AddShape(hp, s, [hp.sh[s1] EXCEPT !.ref = 1, !.hashed = FALSE]), id |-> s]
CloneShape(hp, s1) == CloneAs(hp, s1, FreeId(hp))

(***************************************************************************)
(* Freeing: a shape gives back its prototype, an object its shape, until   *)
(* nothing is left without references (free_zero_refcount).                *)
(***************************************************************************)
RECURSIVE FreeShape(_, _)
RECURSIVE FreeObjectRef(_, _)
RemoveShape(hp, s) == [IF hp.sh[s].hashed THEN Unlink(hp, s) ELSE hp EXCEPT !.sh = Restrict(@, DOMAIN @ \ {s})]
GiveBack(hp, o) == IF o = NoObject THEN hp ELSE FreeObjectRef(hp, o)
FreeShape(hp, s) ==
    IF hp.sh[s].ref > 1 THEN [hp EXCEPT !.sh[s].ref = @ - 1]
    ELSE GiveBack(RemoveShape(hp, s), hp.sh[s].proto)
FreeObjectRef(hp, o) ==
    IF hp.obj[o].ref > 1 THEN [hp EXCEPT !.obj[o].ref = @ - 1]
    ELSE FreeShape([hp EXCEPT !.obj = Restrict(@, DOMAIN @ \ {o})], hp.obj[o].shape)

(***************************************************************************)
(* Adding, changing and deleting properties of an object.                  *)
(***************************************************************************)
MoreRoom(hp, s, o) ==
    IF Len(hp.sh[s].props) >= hp.sh[s].size THEN ResizeProperties(hp, s, o, Len(hp.sh[s].props) + 1) ELSE hp
AppendProp(sh, atom, flags) ==
    Chain([sh EXCEPT !.props = Append(@, [atom |-> atom, flags |-> flags, next |-> 0])], Len(sh.props) + 1)
AddToShape(hp, s, atom, flags) == [hp EXCEPT !.sh[s] = AppendProp(@, atom, flags)]
AddShapeProperty(hp, s, o, atom, flags) ==
    IF ~hp.sh[s].hashed THEN AddToShape(MoreRoom(hp, s, o), s, atom, flags)
    ELSE AddToShape(Link([MoreRoom(Unlink(hp, s), s, o) EXCEPT !.sh[s].hash = HashProp(@, atom, flags)], s),
                    s, atom, flags)

FirstOrNone(c) == IF c = <<>> THEN 0 ELSE c[1]
(* Mutant of FindHashedShapeProp: only the hash and the count are compared.*)
SameProps(ps, qs) ==
    [i \in DOMAIN ps |-> <<ps[i].atom, ps[i].flags>>]
      = [i \in DOMAIN qs |-> <<qs[i].atom, qs[i].flags>>]

FindHashedShapeProp(hp, s, atom, flags) ==
    LET sh == hp.sh[s]
        h == HashProp(sh.hash, atom, flags)
        want == Append(sh.props, [atom |-> atom, flags |-> flags, next |-> 0])
        m(x) == /\ hp.sh[x].hash = h /\ hp.sh[x].proto = sh.proto
                /\ SameProps(hp.sh[x].props, want)
    IN  FirstOrNone(SelectSeq(hp.tab[Bucket(hp.tab, h)], m))

FindHashedShapeProto(hp, proto) ==
    LET h == InitialShapeHash(proto)
        m(x) == hp.sh[x].hash = h /\ hp.sh[x].proto = proto /\ hp.sh[x].props = <<>>
    IN  FirstOrNone(SelectSeq(hp.tab[Bucket(hp.tab, h)], m))

(* Write the value of the last property of o.                              *)
SetLast(hp, o, v) ==
    LET n == Len(hp.sh[hp.obj[o].shape].props)
    IN  [hp EXCEPT !.obj[o].vals = [i \in 1 .. n |-> IF i = n THEN v ELSE @[i]]]

(* Mutant of MoveTo: the array of the object keeps its size.               *)
MoveTo(hp, o, s) ==
    FreeShape([hp EXCEPT !.sh[s].ref = @ + 1, !.obj[o].shape = s, !.obj[o].alloc = hp.sh[s].size], hp.obj[o].shape)
UseHashedClone(c, o, s) ==
    FreeShape(Link([c.heap EXCEPT !.sh[c.id].hashed = TRUE, !.obj[o].shape = c.id], c.id), s)
OwnShape(hp, o, s) == IF hp.sh[s].hashed /\ hp.sh[s].ref # 1 THEN UseHashedClone(CloneShape(hp, s), o, s) ELSE hp
AddTo(hp, o, atom, flags) == AddShapeProperty(hp, hp.obj[o].shape, o, atom, flags)
AddOrMove(hp, o, s, atom, flags, found) ==
    IF found # 0 THEN MoveTo(hp, o, found) ELSE AddTo(OwnShape(hp, o, s), o, atom, flags)
AddAs(hp, o, s, atom, flags) ==
    AddOrMove(hp, o, s, atom, flags, IF hp.sh[s].hashed THEN FindHashedShapeProp(hp, s, atom, flags) ELSE 0)
AddProperty(hp, o, atom, flags, v) == SetLast(AddAs(hp, o, hp.obj[o].shape, atom, flags), o, v)

UseClone(c, o, s) == FreeShape([c.heap EXCEPT !.obj[o].shape = c.id], s)
(* Mutant of PrepareUpdate: a shape of one object stays in the table.      *)
PrepareUpdate(hp, o) ==
    LET s == hp.obj[o].shape
    IN  CASE ~hp.sh[s].hashed -> hp
          [] hp.sh[s].hashed /\ hp.sh[s].ref # 1 -> UseClone(CloneShape(hp, s), o, s)
          [] OTHER -> [Unlink(hp, s) EXCEPT !.sh[s].hashed = FALSE]

CompactShape(sh, keep, size) ==
    Rehash([sh EXCEPT !.props = [j \in 1 .. Len(keep) |-> sh.props[keep[j]]], !.size = size, !.deleted = 0],
           HalveTo(Len(sh.heads), size))
CompactTo(hp, o, s, keep, size) ==
    [hp EXCEPT !.sh[s] = CompactShape(@, keep, size),
               !.obj[o].vals = [j \in 1 .. Len(keep) |-> @[keep[j]]],
               !.obj[o].alloc = size]
CompactKeeping(hp, o, keep) == CompactTo(hp, o, hp.obj[o].shape, keep, Max({InitialSize, Len(keep)}))
Kept(sh) == SelectSeq([i \in 1 .. Len(sh.props) |-> i], LAMBDA i : sh.props[i].atom # NullAtom)
CompactProperties(hp, o) == CompactKeeping(hp, o, Kept(hp.sh[hp.obj[o].shape]))

(* delete_property of a configurable property that is in the shape.        *)
Previous(sh, i) == CHOOSE j \in DOMAIN sh.props : sh.props[j].next = i /\ sh.props[j].atom # NullAtom
CutProp(sh, i, b) ==
    IF sh.heads[b] = i THEN [sh EXCEPT !.heads[b] = sh.props[i].next]
    ELSE [sh EXCEPT !.props[Previous(sh, i)].next = sh.props[i].next]
DeleteAt(sh, i) ==
    [CutProp(sh, i, Slot(sh, sh.props[i].atom))
        EXCEPT !.deleted = @ + 1, !.props[i].flags = 0, !.props[i].atom = NullAtom]
CompactIfMany(hp, o, sh) ==
    IF sh.deleted >= CompactMin /\ sh.deleted >= Len(sh.props) \div 2 THEN CompactProperties(hp, o) ELSE hp
CompactAfter(hp, o) == CompactIfMany(hp, o, hp.sh[hp.obj[o].shape])
DeleteIn(hp, o, i) == CompactAfter([hp EXCEPT !.sh[hp.obj[o].shape] = DeleteAt(@, i), !.obj[o].vals[i] = NoValue], o)
DeleteProperty(hp, o, atom) == DeleteIn(PrepareUpdate(hp, o), o, FindOwn(hp.sh[hp.obj[o].shape], atom))

SetFlags(hp, o, i, flags) == [hp EXCEPT !.sh[hp.obj[o].shape].props[i].flags = flags]
UpdateFlags(hp, o, i, flags) ==
    IF hp.sh[hp.obj[o].shape].props[i].flags = flags THEN hp ELSE SetFlags(PrepareUpdate(hp, o), o, i, flags)

NewObjectFromShape(hp, o, s) ==
    [hp EXCEPT !.obj = (o :> [shape |-> s, alloc |-> hp.sh[s].size, ref |-> 1,
                              held |-> TRUE, vals |-> <<>>]) @@ @]

(***************************************************************************)
(* Actions: what a program does to its objects.                            *)
(***************************************************************************)
EmptyHeap == [sh |-> <<>>, tab |-> [b \in 1 .. InitialTable |-> <<>>], obj |-> <<>>,
              arrayShape |-> 0]

ArrayFlags == CHOOSE f \in Flags : f \notin Configurable

(* JS_AddIntrinsicBaseObjects: Array.prototype, then the shape all arrays  *)
(* begin with, which the context keeps and which has one property.         *)
StartArrays(n) ==
    [AddShapeProperty(n.heap, n.id, NoObject, Length, ArrayFlags) EXCEPT !.arrayShape = n.id]
StartObjects(n) == StartArrays(NewShape(NewObjectFromShape(n.heap, ArrayProto, n.id), ArrayProto, 1))
Start == StartObjects(NewShape(EmptyHeap, NoObject, InitialSize))

(* What the program finds: looking a name up in the chains of the shape    *)
(* gives the entry that holds it.                                          *)
View(hp) ==
    LET entries(sh) == SelectSeq([i \in 1 .. Len(sh.props) |-> i],
                           LAMBDA i : /\ sh.props[i].atom # NullAtom
                                      /\ FindOwn(sh, sh.props[i].atom) = i)
        see(ob, sh, e) ==
            [proto |-> sh.proto, held |-> ob.held,
             props |-> [j \in DOMAIN e |-> [name |-> sh.props[e[j]].atom,
                                            flags |-> sh.props[e[j]].flags,
                                            value |-> ob.vals[e[j]]]]]
    IN  [o \in DOMAIN hp.obj |->
            see(hp.obj[o], hp.sh[hp.obj[o].shape], entries(hp.sh[hp.obj[o].shape]))]

Init == heap = Start /\ seen = View(heap) /\ steps = 0

Room == Cardinality(DOMAIN heap.sh) + 1 < MaxShape
Own(o) == heap.sh[heap.obj[o].shape]
Usable(o) == o \in DOMAIN heap.obj /\ heap.obj[o].held
Fits(o, n) == Len(Own(o).props) + n <= MaxProps

NewObjectAs(o, n) == NewObjectFromShape(n.heap, o, n.id)
NewObjectWith(o, proto, s) ==
    IF s # 0 THEN NewObjectFromShape([heap EXCEPT !.sh[s].ref = @ + 1], o, s)
    ELSE NewObjectAs(o, NewShape(heap, proto, InitialSize))
NewObject(o, proto) ==
    /\ o \notin DOMAIN heap.obj /\ Room
    /\ heap' = NewObjectWith(o, proto, FindHashedShapeProto(heap, proto))

(* Mutant of NewArray: the shape of the context is not counted.            *)
NewArray(o, v) ==
    /\ o \notin DOMAIN heap.obj
    /\ LET s == heap.arrayShape
       IN  heap' = SetLast(NewObjectFromShape([heap EXCEPT !.sh[s].ref = @ + 1], o, s), o, v)

Add(o, n, f, v) ==
    /\ Usable(o) /\ Room /\ Fits(o, 1)
    /\ FindOwn(Own(o), n) = 0
    /\ heap' = AddProperty(heap, o, n, f, v)

(* convert_fast_array_to_array: room for all the elements at once, then    *)
(* one property for each.                                                  *)
RoomFor(hp, s, o, count) == IF count > hp.sh[s].size THEN ResizeProperties(hp, s, o, count) ELSE hp
RoomForTwo(hp, o) == RoomFor(hp, hp.obj[o].shape, o, Len(hp.sh[hp.obj[o].shape].props) + 2)
Convert(o, n1, n2, f, v) ==
    /\ Usable(o) /\ Room /\ Fits(o, 2)
    /\ n1 < n2 /\ FindOwn(Own(o), n1) = 0 /\ FindOwn(Own(o), n2) = 0
    /\ heap' = AddProperty(AddProperty(RoomForTwo(PrepareUpdate(heap, o), o), o, n1, f, v), o, n2, f, v)

Delete(o, n) ==
    /\ Usable(o) /\ Room
    /\ FindOwn(Own(o), n) # 0
    /\ Own(o).props[FindOwn(Own(o), n)].flags \in Configurable
    /\ heap' = DeleteProperty(heap, o, n)

Update(o, n, f, v) ==
    /\ Usable(o) /\ Room
    /\ LET i == FindOwn(Own(o), n)
       IN  i # 0 /\ heap' = [UpdateFlags(heap, o, i, f) EXCEPT !.obj[o].vals[i] = v]

(* JS_SetPrototypeInternal; a cycle of prototypes is refused.              *)
RECURSIVE OnChain(_, _)
OnChain(x, o) == x # NoObject /\ (x = o \/ OnChain(heap.sh[heap.obj[x].shape].proto, o))

SetProto(hp, o, proto) ==
    GiveBack([hp EXCEPT !.sh[hp.obj[o].shape].proto = proto], hp.sh[hp.obj[o].shape].proto)
(* Mutant of SetPrototype: the shape is changed where it is.               *)
SetPrototypeShared(o, proto) ==
    /\ Usable(o) /\ Room
    /\ Own(o).proto # proto /\ ~OnChain(proto, o)
    /\ heap' = SetProto(KeepProto(heap, proto), o, proto)

SetPrototype(o, proto) ==
    /\ Usable(o) /\ Room
    /\ Own(o).proto # proto /\ ~OnChain(proto, o)
    /\ heap' = SetProto(PrepareUpdate(KeepProto(heap, proto), o), o, proto)

Drop(o) ==
    /\ Usable(o) /\ o # ArrayProto
    /\ heap' = FreeObjectRef([heap EXCEPT !.obj[o].held = FALSE], o)

Step ==
    \/ \E o \in ObjectIds : \/ \E p \in {x \in ObjectIds : Usable(x)} \cup {NoObject} : NewObject(o, p)
                            \/ \E v \in Values : NewArray(o, v)
                            \/ Drop(o)
    \/ \E o \in ObjectIds, p \in {x \in ObjectIds : Usable(x)} \cup {NoObject} : SetPrototype(o, p)
    \/ \E o \in ObjectIds, n \in Names, f \in Flags, v \in Values : Add(o, n, f, v) \/ Update(o, n, f, v)
    \/ \E o \in ObjectIds, n \in Names : Delete(o, n)
    \/ \E o \in ObjectIds, n1, n2 \in Names, f \in Configurable, v \in Values : Convert(o, n1, n2, f, v)

Next == steps < MaxSteps /\ Step /\ seen' = View(heap') /\ steps' = steps + 1

Spec == Init /\ [][Next]_vars

-----------------------------------------------------------------------------
Live == DOMAIN heap.obj
Shapes == DOMAIN heap.sh

ShapesTypeOK ==
    /\ Live \subseteq ObjectIds /\ Shapes \subseteq ShapeIds
    /\ \A o \in Live : heap.obj[o].shape \in Shapes
    /\ \A s \in Shapes : heap.sh[s].proto \in Live \cup {NoObject}

(* Every count is exact: a shape is kept by the objects that have it and   *)
(* by the context, an object by the program and by the shapes it is the    *)
(* prototype of.                                                           *)
CountsExact ==
    /\ \A s \in Shapes : heap.sh[s].ref =
           Cardinality({o \in Live : heap.obj[o].shape = s})
             + (IF heap.arrayShape = s THEN 1 ELSE 0)
    /\ \A s \in Shapes : heap.sh[s].ref > 0
    /\ \A o \in Live : heap.obj[o].ref =
           Cardinality({s \in Shapes : heap.sh[s].proto = o})
             + (IF heap.obj[o].held THEN 1 ELSE 0)

(* A shape that more than one object or the context may use is in the      *)
(* table, once, in the bucket of the hash of what it holds; a shape        *)
(* outside of the table belongs to one object.  Otherwise the next object  *)
(* built the same way would get properties it does not have.               *)
TableIsTrue ==
    LET hashOf(sh) == FoldLeft(LAMBDA h, p : HashProp(h, p.atom, p.flags),
                               InitialShapeHash(sh.proto), sh.props)
    IN  \A s \in Shapes :
          LET sh == heap.sh[s]
              places == {<<b, i>> \in (1 .. Len(heap.tab)) \X (1 .. MaxShape) :
                            i <= Len(heap.tab[b]) /\ heap.tab[b][i] = s}
          IN  IF sh.hashed
              THEN /\ Cardinality(places) = 1
                   /\ \A pl \in places : pl[1] = Bucket(heap.tab, sh.hash)
                   /\ sh.hash = hashOf(sh)
                   /\ sh.deleted = 0
              ELSE places = {} /\ sh.ref = 1

(* The array of values of an object has the size its shape says, and there *)
(* is room in both for the properties there are.                           *)
ArraysFit ==
    \A o \in Live :
        LET sh == heap.sh[heap.obj[o].shape]
        IN  /\ heap.obj[o].alloc = sh.size
            /\ Len(heap.obj[o].vals) = Len(sh.props)
            /\ Len(sh.props) <= sh.size
            /\ sh.size <= Max({Len(sh.heads), InitialHash})

(* Whatever is shared, found again, cloned, grown or compacted, a program  *)
(* sees objects that own their prototype and their properties: every step  *)
(* is to be a step of PlainObjects.                                        *)
Plain == INSTANCE PlainObjects WITH objects <- seen
=============================================================================
