------------------------------ MODULE MapRecords ------------------------------
(***************************************************************************)
(* The records of a Map or Set while iterators and forEach walk them.  A   *)
(* deleted record that somebody stands on stays in the list as an empty    *)
(* one, and is freed by the last one to leave it.  The language keeps all  *)
(* entries ever added and walks them by index: "log" is that list, and     *)
(* what an iterator or forEach delivers is compared with it.               *)
(*                                                                         *)
(* Values are plain or are iterators of the map itself: dropping a value   *)
(* can free an iterator, which leaves its record.  When that record is the *)
(* one js_map_clear or js_map_forEach goes to next, they read it after it  *)
(* was freed ("stranded"); what follows is undefined and not modelled.     *)
(* The hash table finds the record that is not empty and has the key; its  *)
(* layout is left out.                                                     *)
(***************************************************************************)
EXTENDS Integers, Sequences, FiniteSets, SequencesExt

CONSTANTS
    Keys,           \* normalised keys
    Addresses,      \* where records live; reused after a record is freed
    Iters,          \* map iterators
    MaxAdds         \* bound: entries ever added

Nowhere == "none"
Plain == "plain"
ValuesOf == {Plain} \cup Iters

VARIABLES
    m,      \* the map: list of records, their fields, the iterators
    each,   \* js_map_forEach: where it stands
    clear,  \* js_map_clear: the record it looks at next
    log,    \* history: every entry ever added: its record, or Nowhere once deleted
    pos,    \* history: how many entries an iterator, or forEach, is past
    fault,  \* history: a freed record was read, or an assertion failed
    stranded,   \* history: a walk freed an iterator, and with it its next record
    given   \* history: the entry delivered last is the one the language says

vars == <<m, each, clear, log, pos, fault, stranded, given>>

NoRecord == [key |-> Nowhere, val |-> Plain, rc |-> 0, empty |-> TRUE]
Walkers == Iters \cup {"forEach"}
\* at: the record el; in: the callback runs; arg: the value given to it.
NotWalking == [at |-> Nowhere, in |-> FALSE, arg |-> Plain]

Init ==
    /\ m = [list |-> <<>>, rec |-> [a \in Addresses |-> NoRecord],
            \* refs: references to an iterator; on: cur_record; obj: map still held
            refs |-> [i \in Iters |-> 0], on |-> [i \in Iters |-> Nowhere],
            obj |-> [i \in Iters |-> FALSE]]
    /\ each = NotWalking /\ clear = Nowhere /\ log = <<>>
    /\ pos = [w \in Walkers |-> 0]
    /\ fault = FALSE /\ stranded = FALSE /\ given = TRUE

In(mm, a) == a \in Range(mm.list)
Live(mm) == {a \in Range(mm.list) : ~mm.rec[a].empty}
FirstOf(mm) == IF mm.list = <<>> THEN "head" ELSE Head(mm.list)
NextOf(mm, a) ==
    LET k == SelectInSeq(mm.list, LAMBDA b : b = a)
    IN IF k = Len(mm.list) THEN "head" ELSE mm.list[k + 1]

\* Mutant: an empty record is freed as soon as one walker leaves it.
LeaveFrees(mm, a) == [mm EXCEPT !.list = SelectSeq(@, LAMBDA b : b # a \/ ~mm.rec[a].empty),
                                !.rec[a].rc = @ - 1]

\* map_decref_record
DecrefRecord(mm, a) ==
    IF mm.rec[a].rc = 1
    THEN [mm EXCEPT !.list = SelectSeq(@, LAMBDA b : b # a), !.rec[a] = NoRecord]
    ELSE [mm EXCEPT !.rec[a].rc = @ - 1]

\* js_map_iterator_finalizer, when the last reference is dropped.
FreeValue(mm, v) ==
    IF v \notin Iters THEN mm
    ELSE IF mm.refs[v] > 1 THEN [mm EXCEPT !.refs[v] = @ - 1]
    ELSE LET gone == [mm EXCEPT !.refs[v] = 0, !.on[v] = Nowhere, !.obj[v] = FALSE]
         IN IF mm.on[v] = Nowhere THEN gone ELSE DecrefRecord(gone, mm.on[v])

\* map_delete_record: the key and the value are freed first.
DeleteRecord(mm, a) ==
    IF mm.rec[a].empty THEN mm
    ELSE LET left == FreeValue(mm, mm.rec[a].val)
         IN IF left.rec[a].rc = 1
            THEN [left EXCEPT !.list = SelectSeq(@, LAMBDA b : b # a), !.rec[a] = NoRecord]
            ELSE [left EXCEPT !.rec[a] = [NoRecord EXCEPT !.rc = left.rec[a].rc - 1]]

Deleted(a) == [n \in DOMAIN log |-> IF log[n] = a THEN Nowhere ELSE log[n]]

\* The script runs: no clear under way, and forEach, if any, is in its callback.
Script == clear = Nowhere /\ (each.at # Nowhere => each.in)

Find(k) == {a \in Live(m) : m.rec[a].key = k}
Held(v) == v \in Iters => m.refs[v] > 0
DupValue(mm, v) == IF v \in Iters THEN [mm EXCEPT !.refs[v] = @ + 1] ELSE mm

\* The script has a reference of its own, besides those in the map and the
\* argument of the callback.
Owned(i) ==
    m.refs[i] > Cardinality({a \in Live(m) : m.rec[a].val = i})
                + (IF each.in /\ each.arg = i THEN 1 ELSE 0)

\* Freeing v frees an iterator, which was the last to stand on an empty record.
Strands(mm, v, a) ==
    /\ v \in Iters /\ mm.refs[v] = 1 /\ mm.on[v] = a
    /\ In(mm, a) /\ mm.rec[a].empty /\ mm.rec[a].rc = 1

-----------------------------------------------------------------------------
(* Operations of the script. *)

\* js_map_set for a key that is there.
Overwrite(k, v) ==
    /\ Script /\ Held(v) /\ Find(k) # {}
    /\ \E a \in Find(k) :
          m' = [FreeValue(DupValue(m, v), m.rec[a].val) EXCEPT !.rec[a].val = v]
    /\ UNCHANGED <<each, clear, log, pos, fault, stranded, given>>

\* js_map_set for a new key: map_add_record.
Add(k, v) ==
    /\ Script /\ Held(v) /\ Find(k) = {} /\ Len(log) < MaxAdds
    /\ \E a \in Addresses : ~In(m, a) /\
          /\ m' = [DupValue(m, v) EXCEPT !.list = Append(@, a),
                       !.rec[a] = [key |-> k, val |-> v, rc |-> 1, empty |-> FALSE]]
          /\ log' = Append(log, a)
    /\ UNCHANGED <<each, clear, pos, fault, stranded, given>>

Delete(k) ==
    /\ Script
    /\ \E a \in Find(k) : m' = DeleteRecord(m, a) /\ log' = Deleted(a)
    /\ UNCHANGED <<each, clear, pos, fault, stranded, given>>

\* js_map_clear remembers the next record before it deletes one.
Clear ==
    /\ Script /\ clear' = FirstOf(m)
    /\ UNCHANGED <<m, each, log, pos, fault, stranded, given>>

ClearStep ==
    /\ clear \notin {Nowhere, "head"}
    /\ IF In(m, clear)
       THEN /\ m' = DeleteRecord(m, clear) /\ log' = Deleted(clear)
            /\ clear' = NextOf(m, clear) /\ UNCHANGED fault
            /\ stranded' = (stranded \/
                              Strands(m, m.rec[clear].val, NextOf(m, clear)))
       ELSE fault' = TRUE /\ clear' = "head" /\ UNCHANGED <<m, log, stranded>>
    /\ UNCHANGED <<each, pos, given>>

ClearEnd ==
    /\ clear = "head" /\ clear' = Nowhere
    /\ UNCHANGED <<m, each, log, pos, fault, stranded, given>>

\* js_create_map_iterator
NewIterator(i) ==
    /\ Script /\ m.refs[i] = 0
    /\ m' = [m EXCEPT !.refs[i] = 1, !.on[i] = Nowhere, !.obj[i] = TRUE]
    /\ pos' = [pos EXCEPT ![i] = 0]
    /\ UNCHANGED <<each, clear, log, fault, stranded, given>>

DropIterator(i) ==
    /\ Script /\ Owned(i)
    /\ m' = FreeValue(m, i)
    /\ pos' = [pos EXCEPT ![i] = IF m.refs[i] = 1 THEN 0 ELSE @]
    /\ UNCHANGED <<each, clear, log, fault, stranded, given>>

-----------------------------------------------------------------------------
(* Walking. *)

\* The first record from el on that is not empty.
RECURSIVE SkipEmpty(_, _)
SkipEmpty(mm, el) ==
    IF el = "head" \/ ~mm.rec[el].empty THEN el ELSE SkipEmpty(mm, NextOf(mm, el))

\* What the language delivers next: an index into the log, or zero.
Expected(w) ==
    LET rest == {n \in (pos[w] + 1) .. Len(log) : log[n] # Nowhere}
    IN IF rest = {} THEN 0 ELSE CHOOSE n \in rest : \A k \in rest : n <= k
Delivers(w, a) ==
    /\ given' = (given /\ IF a = "head" THEN Expected(w) = 0
                          ELSE Expected(w) # 0 /\ log[Expected(w)] = a)
    /\ pos' = [pos EXCEPT ![w] = IF Expected(w) = 0 THEN Len(log) ELSE Expected(w)]

\* js_map_iterator_next leaves one record and locks the next.
IteratorNext(i) ==
    /\ Script /\ m.refs[i] > 0 /\ m.obj[i]
    /\ LET on == m.on[i]
           el == IF on = Nowhere THEN FirstOf(m) ELSE NextOf(m, on)
           left == IF on = Nowhere THEN m ELSE DecrefRecord(m, on)
           a == SkipEmpty(left, el)
       IN /\ fault' = (fault \/ (on # Nowhere /\ ~In(m, on))
                             \/ (on # Nowhere /\ m.rec[on].rc = 1 /\ ~m.rec[on].empty))
          /\ m' = IF a = "head" THEN [left EXCEPT !.on[i] = Nowhere, !.obj[i] = FALSE]
                  ELSE [left EXCEPT !.on[i] = a, !.rec[a].rc = @ + 1]
          /\ Delivers(i, a)
    /\ UNCHANGED <<each, clear, log, stranded>>

ForEach ==
    /\ Script /\ each.at = Nowhere
    /\ each' = [NotWalking EXCEPT !.at = FirstOf(m)]
    /\ pos' = [pos EXCEPT !["forEach"] = 0]
    /\ UNCHANGED <<m, clear, log, fault, stranded, given>>

\* The record is locked and the callback called, or an empty one passed over.
ForEachCall ==
    /\ each.at \notin {Nowhere, "head"} /\ ~each.in /\ clear = Nowhere
    /\ IF ~In(m, each.at)
       THEN fault' = TRUE /\ each' = [each EXCEPT !.at = "head"] /\ UNCHANGED <<m, pos, given>>
       ELSE IF m.rec[each.at].empty
       THEN each' = [each EXCEPT !.at = NextOf(m, @)] /\ UNCHANGED <<m, pos, given, fault>>
       ELSE /\ m' = DupValue([m EXCEPT !.rec[each.at].rc = @ + 1], m.rec[each.at].val)
            /\ each' = [each EXCEPT !.in = TRUE, !.arg = m.rec[each.at].val]
            /\ Delivers("forEach", each.at) /\ UNCHANGED fault
    /\ UNCHANGED <<clear, log, stranded>>

\* The callback returned v: the argument is freed, the next record looked up,
\* the lock given up, and then the returned value freed.
ForEachReturn(v) ==
    /\ Script /\ each.in /\ (v \in Iters => Owned(v))
    /\ LET back == FreeValue(m, each.arg)
           el == NextOf(back, each.at)
           left == DecrefRecord(back, each.at)
       IN /\ each' = [NotWalking EXCEPT !.at = el]
          /\ m' = FreeValue(left, v)
          /\ stranded' = (stranded \/ Strands(left, v, el))
    /\ fault' = (fault \/ ~In(m, each.at))
    /\ UNCHANGED <<clear, log, pos, given>>

ForEachThrows ==
    /\ Script /\ each.in
    /\ m' = DecrefRecord(FreeValue(m, each.arg), each.at) /\ each' = NotWalking
    /\ pos' = [pos EXCEPT !["forEach"] = 0]
    /\ UNCHANGED <<clear, log, fault, stranded, given>>

ForEachEnd ==
    /\ each.at = "head" /\ each' = [each EXCEPT !.at = Nowhere]
    /\ given' = (given /\ (fault \/ Expected("forEach") = 0))
    /\ pos' = [pos EXCEPT !["forEach"] = 0]
    /\ UNCHANGED <<m, clear, log, fault, stranded>>

\* Reading a freed record is undefined: the behaviour ends there.
Next ==
    /\ ~fault
    /\ \/ \E k \in Keys : Delete(k) \/ \E v \in ValuesOf : Overwrite(k, v) \/ Add(k, v)
       \/ Clear \/ ClearStep \/ ClearEnd
       \/ \E i \in Iters : NewIterator(i) \/ DropIterator(i) \/ IteratorNext(i)
       \/ ForEach \/ ForEachCall \/ ForEachThrows \/ ForEachEnd
       \/ \E v \in ValuesOf : ForEachReturn(v)

Spec == Init /\ [][Next]_vars

-----------------------------------------------------------------------------
(* Properties. *)

\* Reference counts of records: one for an entry that is not deleted, one for
\* each iterator on it, one for the callback of forEach; an empty record is in
\* the list only as long as somebody stands on it (map_decref_record).
RecordCounts ==
    \A a \in Addresses :
        IF In(m, a)
        THEN /\ m.rec[a].rc = (IF m.rec[a].empty THEN 0 ELSE 1)
                  + Cardinality({i \in Iters : m.on[i] = a})
                  + (IF each.in /\ each.at = a THEN 1 ELSE 0)
             /\ m.rec[a].rc > 0
        ELSE m.rec[a] = NoRecord /\ \A i \in Iters : m.on[i] # a

\* js_map_forEach and js_map_clear: a walk reads a freed record only if it
\* freed that record itself, with an iterator of the map which stood there and
\* whose last reference was the value of the entry being cleared or the result
\* of the callback. No record is freed full.
FreedOnlyByItself == fault => stranded

\* Iterators and forEach deliver every entry that is there when they come to
\* it, in the order of insertion, and no entry twice, whatever has been
\* deleted, cleared and added between two steps.
WalksLikeTheLanguage == given

\* The entries of the map are those of the language: no key has two records,
\* and the records come in the order in which the entries were added.
EntriesInOrder ==
    clear = Nowhere =>
        SelectSeq(m.list, LAMBDA a : ~m.rec[a].empty)
        = SelectSeq(log, LAMBDA a : a # Nowhere)
================================================================================
