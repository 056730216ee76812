-------------------------------- MODULE CycleGC --------------------------------
(***************************************************************************)
(* The memory management of the engine: reference counts, the list of      *)
(* objects whose count reached zero, and the cycle collector JS_RunGC,     *)
(* which subtracts the references between objects, keeps what is still     *)
(* referenced from outside together with its children, and frees the rest. *)
(*                                                                         *)
(* The collector edits the intrusive lists it walks; one step handles one  *)
(* list element.  The program changes the graph between collections.       *)
(* Values are objects and function bytecode; Others are shapes, closure    *)
(* variables and async function data, which refer to values only and are   *)
(* freed by the value that drops the last reference to them.               *)
(***************************************************************************)
EXTENDS Integers, Sequences, FiniteSets, SequencesExt, FiniteSetsExt

CONSTANTS
    Values,     \* cells that hold objects or bytecode
    Others,     \* cells that hold shapes, variables, async function data
    MaxRefs,    \* bound: references between cells
    MaxRoots    \* bound: references from stacks, C code and Dart to one cell

Cells == Values \cup Others
End == "end"

VARIABLES
    status,     \* "free", "alive", or "emptied": fields gone, memory kept
    rc,         \* ref_count in the header
    mark,       \* mark in the header
    refs,       \* refs[c][d]: how many references c holds to d
    roots,      \* references from outside the heap
    gcList,     \* gc_obj_list
    tmpList,    \* tmp_obj_list
    zeroList,   \* gc_zero_ref_count_list
    phase,      \* what the memory manager is doing
    cur,        \* the list element it looks at next
    fault,      \* history: an assertion failed or freed memory was used
    collected   \* history: nothing has changed since a collection

lists == <<gcList, tmpList, zeroList>>
vars == <<status, rc, mark, refs, roots, lists, phase, cur, fault, collected>>

NoRefs == [c \in Cells |-> 0]
SumOver(S, f(_)) == FoldSet(LAMBDA c, n : n + f(c), 0, S)
Count(c) == roots[c] + SumOver(Cells, LAMBDA d : refs[d][c])
Reachable ==
    LET step[n \in 0 .. Cardinality(Cells)] ==
          IF n = 0 THEN {c \in Cells : roots[c] > 0}
          ELSE LET S == step[n - 1]
               IN S \cup {c \in Cells : \E d \in S : refs[d][c] > 0}
    IN step[Cardinality(Cells)]
TotalRefs == SumOver(Cells, LAMBDA c : SumOver(Cells, LAMBDA d : refs[c][d]))

Init ==
    /\ status = [c \in Cells |-> "free"] /\ rc = NoRefs /\ mark = NoRefs
    /\ refs = [c \in Cells |-> NoRefs] /\ roots = NoRefs
    /\ gcList = <<>> /\ tmpList = <<>> /\ zeroList = <<>>
    /\ phase = "none" /\ cur = End /\ fault = FALSE /\ collected = FALSE

\* The neighbours of an intrusive list.
First(list) == IF list = <<>> THEN End ELSE Head(list)
After(list, c) ==
    LET k == SelectInSeq(list, LAMBDA d : d = c)
    IN IF k = Len(list) THEN End ELSE list[k + 1]
Without(list, S) == SelectSeq(list, LAMBDA c : c \notin S)

-----------------------------------------------------------------------------
(* Giving references back. *)

\* What free_property and the finalizer of its class give back, and what
\* mark_children and the gc_mark function of its class visit.
Fields(c) == refs[c]
Children(c) == refs[c]

Released(bag) == {c \in Cells : bag[c] > 0 /\ rc[c] = bag[c]}
\* The references in bag and those of the Others that lose their last one.
WithOthers(bag) ==
    [c \in Cells |-> bag[c] + SumOver(Released(bag) \cap Others, LAMBDA d : Fields(d)[c])]

\* The end of free_object: while cycles are removed, memory that other garbage
\* still refers to is kept until all of it has been emptied.
AfterFreeObject(c, left) == IF phase = "remove" /\ left # 0 THEN "emptied" ELSE "free"

\* remove_gc_object and list_del.
Unlinked(queued, others, gone) == queued \cup others \cup gone

\* __JS_FreeValueRT: a value without references goes to the front of
\* gc_zero_ref_count_list, unless cycles are being removed.
Queued(zero) == IF phase = "remove" THEN {} ELSE zero \cap Values

\* The references in bag are given back and the fields of the cells in gone
\* are dropped; Others without references are freed on the spot.
Release(bag, gone, held) ==
    LET all == WithOthers(bag)
        zero == Released(all)
        others == zero \cap Others
        queued == Queued(zero)
        after == [c \in gone |-> AfterFreeObject(c, rc[c] - all[c])]
        kept == {c \in gone : after[c] = "emptied"}
        unlinked == Unlinked(queued, others, gone)
    IN /\ rc' = [c \in Cells |-> rc[c] - all[c]]
       /\ refs' = [c \in Cells |-> IF c \in others \cup gone THEN NoRefs ELSE held[c]]
       /\ status' = [c \in Cells |-> IF c \in gone THEN after[c]
                                     ELSE IF c \in others THEN "free" ELSE status[c]]
       /\ gcList' = Without(gcList, unlinked)
       /\ tmpList' = Without(tmpList, unlinked)
       /\ \E front \in SetToSeqs(queued) :
             zeroList' = front \o Without(zeroList, unlinked) \o SetToSeq(kept)
       /\ fault' = (fault \/ (\E c \in Cells : all[c] > 0 /\ status[c] = "free")
                          \/ (\E c \in queued : status[c] # "alive"))

\* free_zero_refcount runs as long as its list has an element.
DecrefPhase == IF zeroList' = <<>> THEN "none" ELSE "decref"

FreeZero ==
    /\ phase = "decref"
    /\ LET c == Head(zeroList)
       IN Release(Fields(c), {c}, refs)
    /\ phase' = DecrefPhase
    /\ UNCHANGED <<mark, roots, cur, collected>>

-----------------------------------------------------------------------------
(* The program, between two collections. *)

\* add_gc_object: whoever allocates a cell holds the first reference to it.
Alloc(c) ==
    /\ phase = "none" /\ status[c] = "free"
    /\ status' = [status EXCEPT ![c] = "alive"]
    /\ rc' = [rc EXCEPT ![c] = 1] /\ mark' = [mark EXCEPT ![c] = 0]
    /\ roots' = [roots EXCEPT ![c] = 1]
    /\ gcList' = Append(gcList, c)
    /\ collected' = FALSE
    /\ UNCHANGED <<refs, tmpList, zeroList, phase, cur, fault>>

\* JS_DupValue into a property, variable, constant, prototype ...
Store(c, d) ==
    /\ phase = "none" /\ {c, d} \subseteq Reachable /\ TotalRefs < MaxRefs
    /\ c \in Values \/ d \in Values
    /\ refs' = [refs EXCEPT ![c][d] = @ + 1]
    /\ rc' = [rc EXCEPT ![d] = @ + 1]
    /\ collected' = FALSE
    /\ UNCHANGED <<status, mark, roots, lists, phase, cur, fault>>

\* ... or onto a stack, or into C code or a wrapper in Dart.
Hold(c) ==
    /\ phase = "none" /\ c \in Reachable /\ roots[c] < MaxRoots
    /\ roots' = [roots EXCEPT ![c] = @ + 1]
    /\ rc' = [rc EXCEPT ![c] = @ + 1]
    /\ collected' = FALSE
    /\ UNCHANGED <<status, mark, refs, lists, phase, cur, fault>>

Drop(c, d) ==
    /\ phase = "none" /\ c \in Reachable /\ refs[c][d] > 0
    /\ Release([NoRefs EXCEPT ![d] = 1], {}, [refs EXCEPT ![c][d] = @ - 1])
    /\ phase' = DecrefPhase /\ collected' = FALSE
    /\ UNCHANGED <<mark, roots, cur>>

DropRoot(c) ==
    /\ phase = "none" /\ roots[c] > 0
    /\ Release([NoRefs EXCEPT ![c] = 1], {}, refs)
    /\ roots' = [roots EXCEPT ![c] = @ - 1]
    /\ phase' = DecrefPhase /\ collected' = FALSE
    /\ UNCHANGED <<mark, cur>>

-----------------------------------------------------------------------------
(* JS_RunGC. *)

RunGC ==
    /\ phase = "none"
    /\ phase' = "gc_decref" /\ cur' = First(gcList) /\ tmpList' = <<>>
    /\ UNCHANGED <<status, rc, mark, refs, roots, gcList, zeroList, fault, collected>>

\* gc_decref_child moves a child that reaches zero if the walk has passed it;
\* gc_decref moves the element itself once its own children are counted.
MovedByDecref(c, left) ==
    {d \in Cells : Children(c)[d] > 0 /\ left[d] = 0 /\ mark[d] = 1}

GCDecref ==
    /\ phase = "gc_decref" /\ cur # End
    /\ LET left == [d \in Cells |-> rc[d] - Children(cur)[d]]
           moved == MovedByDecref(cur, left) \cup {d \in {cur} : left[d] = 0}
       IN /\ rc' = left
          /\ mark' = [mark EXCEPT ![cur] = 1]
          /\ gcList' = Without(gcList, moved)
          /\ \E s \in SetToSeqs(moved) : tmpList' = Without(tmpList, moved) \o s
          /\ fault' = (fault \/ mark[cur] # 0 \/ cur \notin Range(gcList)
                             \/ (\E d \in Cells : left[d] < 0))
    /\ cur' = IF cur \in Range(gcList) THEN After(gcList, cur) ELSE End
    /\ UNCHANGED <<status, refs, roots, zeroList, phase, collected>>

GCDecrefEnd ==
    /\ phase = "gc_decref" /\ cur = End
    /\ phase' = "gc_scan" /\ cur' = First(gcList)
    /\ UNCHANGED <<status, rc, mark, refs, roots, lists, fault, collected>>

\* Mutant: a rescued child goes to the front, where the walk does not come.
RescuedInFront(list, s) == s \o list

\* gc_scan_incref_child: a rescued child goes to the end of the list walked.
Rescued(list, s) == list \o s

\* Whose mark is reset for the next collection.
MarkReset(c, back) == back \cup {c}

\* One element of the first loop of gc_scan: its children are counted again.
GCScan ==
    /\ phase = "gc_scan" /\ cur # End
    /\ LET back == {d \in Cells : Children(cur)[d] > 0 /\ rc[d] = 0}
       IN /\ rc' = [d \in Cells |-> rc[d] + Children(cur)[d]]
          /\ mark' = [d \in Cells |-> IF d \in MarkReset(cur, back) THEN 0 ELSE mark[d]]
          /\ \E s \in SetToSeqs(back) : gcList' = Rescued(Without(gcList, back), s)
          /\ tmpList' = Without(tmpList, back)
    /\ fault' = (fault \/ rc[cur] <= 0)
    /\ cur' = After(gcList', cur)
    /\ UNCHANGED <<status, refs, roots, zeroList, phase, collected>>

GCScanEnd ==
    /\ phase = "gc_scan" /\ cur = End
    /\ phase' = "gc_restore" /\ cur' = First(tmpList)
    /\ UNCHANGED <<status, rc, mark, refs, roots, lists, fault, collected>>

\* gc_scan_incref_child2 for the children of one element.
Restored(c) == [d \in Cells |-> rc[d] + Children(c)[d]]

\* The second loop of gc_scan restores the counts of what will be deleted.
GCRestore ==
    /\ phase = "gc_restore" /\ cur # End
    /\ rc' = Restored(cur) /\ cur' = After(tmpList, cur)
    /\ UNCHANGED <<status, mark, refs, roots, lists, phase, fault, collected>>

GCRestoreEnd ==
    /\ phase = "gc_restore" /\ cur = End
    /\ phase' = "remove"
    /\ UNCHANGED <<status, rc, mark, refs, roots, lists, cur, fault, collected>>

\* gc_free_cycles: a value at the head of tmp_obj_list is freed ...
RemoveValue ==
    /\ phase = "remove" /\ tmpList # <<>> /\ Head(tmpList) \in Values
    /\ Release(Fields(Head(tmpList)), {Head(tmpList)}, refs)
    /\ UNCHANGED <<mark, roots, phase, cur, collected>>

\* ... and anything else is put aside for its owner to free.
RemoveOther ==
    /\ phase = "remove" /\ tmpList # <<>> /\ Head(tmpList) \in Others
    /\ zeroList' = Append(zeroList, Head(tmpList)) /\ tmpList' = Tail(tmpList)
    /\ UNCHANGED <<status, rc, mark, refs, roots, gcList, phase, cur, fault, collected>>

\* Only emptied values may be left; their memory is given back.
RemoveEnd ==
    /\ phase = "remove" /\ tmpList = <<>>
    /\ status' = [c \in Cells |-> IF c \in Range(zeroList) THEN "free" ELSE status[c]]
    /\ rc' = [c \in Cells |-> IF c \in Range(zeroList) THEN 0 ELSE rc[c]]
    /\ fault' = (fault \/ Range(zeroList) \cap Others # {})
    /\ zeroList' = <<>> /\ phase' = "none" /\ collected' = TRUE
    /\ UNCHANGED <<mark, refs, roots, gcList, tmpList, cur>>

Collector == GCDecref \/ GCDecrefEnd \/ GCScan \/ GCScanEnd \/ GCRestore \/ GCRestoreEnd
             \/ RemoveValue \/ RemoveOther \/ RemoveEnd \/ FreeZero

Next ==
    \/ \E c \in Cells : Alloc(c) \/ Hold(c) \/ DropRoot(c)
    \/ \E c, d \in Cells : Store(c, d) \/ Drop(c, d)
    \/ RunGC \/ Collector

Spec == Init /\ [][Next]_vars

-----------------------------------------------------------------------------
(* Properties. *)

\* The shape of the heap that __JS_FreeValueRT and JS_RunGC work on: every
\* cell in use is on exactly one list, a free one on none.
GCTypeOK ==
    /\ status \in [Cells -> {"free", "alive", "emptied"}]
    /\ rc \in [Cells -> Nat] /\ mark \in [Cells -> {0, 1}]
    /\ phase \in {"none", "decref", "gc_decref", "gc_scan", "gc_restore", "remove"}
    /\ LET all == gcList \o tmpList \o zeroList
       IN /\ IsInjective(all)
          /\ Range(all) = {c \in Cells : status[c] # "free"}

\* What the program can still reach is never freed or emptied, whatever the
\* collector (gc_scan, gc_free_cycles) has found unreferenced.
ReachableStaysAlive == \A c \in Reachable : status[c] = "alive"

\* Between collections a reference count is the number of references: the
\* subtraction of gc_decref has been undone for everything that was kept, the
\* marks are reset for the next gc_decref, and nothing has count zero.
CountsExact ==
    phase = "none" =>
        \A c \in Cells : status[c] # "free" =>
            status[c] = "alive" /\ rc[c] = Count(c) /\ rc[c] > 0 /\ mark[c] = 0

\* JS_RunGC frees everything that cannot be reached, cycles of any shape and
\* what hangs on them included.
CollectionIsComplete ==
    collected => \A c \in Cells : status[c] # "free" => c \in Reachable

\* No assertion of the collector fails (a count below zero, a mark left set, a
\* cell other than a value left over), and no freed cell is released again.
NoFault == ~fault
================================================================================
