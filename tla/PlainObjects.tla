----------------------------- MODULE PlainObjects -----------------------------
(***************************************************************************)
(* What the objects of a program are, whatever they share inside the       *)
(* engine: each one has a prototype of its own and a list of properties of *)
(* its own, in the order they were added, each with a name, flags and a    *)
(* value.  An operation on one object changes that object and no other.    *)
(***************************************************************************)
EXTENDS Naturals, Sequences

CONSTANTS ObjectIds, Names, Flags, Values, NoObject

VARIABLE objects      \* the live objects: [proto, props, held]

Property(n, f, v) == [name |-> n, flags |-> f, value |-> v]
NamesOf(o) == {objects[o].props[i].name : i \in DOMAIN objects[o].props}

Init == \E roots \in SUBSET ObjectIds :
            objects = [o \in roots |-> [proto |-> NoObject, props |-> <<>>, held |-> TRUE]]

(* The objects become `new', less those that nothing refers to any more.   *)
Become(new) ==
    LET held == {x \in DOMAIN new : new[x].held}
        protos(S) == {new[x].proto : x \in S} \ {NoObject}
    IN  \E kept \in SUBSET DOMAIN new :
            kept = held \cup protos(kept) /\ objects' = [x \in kept |-> new[x]]

Create(o, proto, props) ==
    /\ o \notin DOMAIN objects
    /\ objects' = [x \in DOMAIN objects \cup {o} |->
                      IF x = o THEN [proto |-> proto, props |-> props, held |-> TRUE]
                      ELSE objects[x]]

Change(o, props, proto) ==
    Become([objects EXCEPT ![o].props = props, ![o].proto = proto])

AddAll(o, new) ==
    /\ \A i \in DOMAIN new : new[i].name \notin NamesOf(o)
    /\ Change(o, objects[o].props \o new, objects[o].proto)

Delete(o, n) ==
    LET keep(p) == p.name # n
    IN  n \in NamesOf(o) /\ Change(o, SelectSeq(objects[o].props, keep), objects[o].proto)

Update(o, n, f, v) ==
    \E i \in DOMAIN objects[o].props :
        /\ objects[o].props[i].name = n
        /\ Change(o, [objects[o].props EXCEPT ![i] = Property(n, f, v)], objects[o].proto)

SetProto(o, proto) == Change(o, objects[o].props, proto)

(* The program lets go of an object.                                       *)
Drop(o) == objects[o].held /\ Become([objects EXCEPT ![o].held = FALSE])

Some == {Property(n, f, v) : n \in Names, f \in Flags, v \in Values}

Next ==
    \/ \E o \in ObjectIds, proto \in DOMAIN objects \cup {NoObject} :
           Create(o, proto, <<>>) \/ \E p \in Some : Create(o, proto, <<p>>)
    \/ \E o \in DOMAIN objects :
           \/ \E p \in Some : AddAll(o, <<p>>)
           \/ \E p, q \in Some : p.name # q.name /\ AddAll(o, <<p, q>>)
           \/ \E n \in Names : Delete(o, n)
           \/ \E n \in Names, f \in Flags, v \in Values : Update(o, n, f, v)
           \/ \E proto \in DOMAIN objects \cup {NoObject} : SetProto(o, proto)
           \/ Drop(o)

Spec == Init /\ [][Next]_objects
=============================================================================
