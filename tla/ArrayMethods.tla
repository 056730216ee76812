------------------------------ MODULE ArrayMethods -----------------------------
(***************************************************************************)
(* The methods of Array.prototype that move, copy and search elements, on  *)
(* arrays with holes, over a prototype that has an element too, in the     *)
(* fast and in the slow representation.  Each is compared with a           *)
(* definition that says where every element goes at once.                  *)
(***************************************************************************)
EXTENDS Integers, Sequences, FiniteSets, SequencesExt

CONSTANTS
    MaxLen,     \* length up to which arrays grow
    Values,     \* elements; Undefined may be one
    Inherited   \* indexes under which the prototype has an element

Undefined == 99
FromProto == 50

VARIABLE a      \* [len, el, fast]: el maps the indexes that are there

Elements(f) == [len |-> Cardinality(DOMAIN f), el |-> f, fast |-> TRUE]
Init == a = Elements(<<>>)

-----------------------------------------------------------------------------
(* Elements. *)

Min2(x, y) == IF x < y THEN x ELSE y
Max2(x, y) == IF x > y THEN x ELSE y
Count(o) == Cardinality(DOMAIN o.el)
Range0(n) == [i \in 1 .. n |-> i - 1]

Present(o, i) == i \in DOMAIN o.el \/ i \in Inherited
Get(o, i) == IF i \in DOMAIN o.el THEN o.el[i] ELSE IF i \in Inherited THEN FromProto ELSE Undefined
Set(o, i, v) ==
    [len |-> Max2(o.len, i + 1), el |-> (i :> v) @@ o.el, fast |-> o.fast /\ i <= Count(o)]
Delete(o, i) ==
    [o EXCEPT !.el = [j \in DOMAIN @ \ {i} |-> @[j]], !.fast = @ /\ i >= Count(o) - 1]
SetLength(o, n) == [o EXCEPT !.len = n, !.el = [j \in {k \in DOMAIN @ : k < n} |-> @[j]]]
Holes(n) == [len |-> n, el |-> <<>>, fast |-> TRUE]

\* JS_ToInt64Clamp.
\* Mutant: there is no upper bound.
Clamp(n, min, max, offset) ==
    LET m == IF n < 0 THEN n + offset ELSE n IN Max2(min, Min2(max, m))

\* JS_CopySubArray.
CopySubArray(o, to, from, count, dir) ==
    LET step(x, i) ==
            LET j == IF dir < 0 THEN count - i - 1 ELSE i
            IN IF Present(x, from + j) THEN Set(x, to + j, Get(x, from + j)) ELSE Delete(x, to + j)
    IN FoldLeft(step, o, Range0(Max2(count, 0)))

-----------------------------------------------------------------------------
(* The methods.  Those that return something and change the array give     *)
(* both.                                                                   *)

Ends(o, res) == [o |-> o, res |-> res]

\* Mutant: the vector is taken for the whole array.
Pop(o, shift) ==
    LET new == Max2(o.len - 1, 0)
        slow == Delete(IF shift THEN CopySubArray(o, 0, 1, o.len - 1, 1) ELSE o, new)
    IN CASE o.len = 0 -> Ends(o, Undefined)
         [] o.len > 0 /\ o.fast /\ Count(o) = o.len ->
               Ends([len |-> new, fast |-> TRUE,
                     el |-> [i \in 0 .. new - 1 |-> o.el[IF shift THEN i + 1 ELSE i]]],
                    o.el[IF shift THEN 0 ELSE new])
         [] OTHER -> Ends(SetLength(slow, new), Get(o, IF shift THEN 0 ELSE new))

Push(o, items, unshift) ==
    LET from == IF unshift THEN 0 ELSE o.len
        moved == IF unshift THEN CopySubArray(o, Len(items), 0, o.len, -1) ELSE o
        filled == FoldLeft(LAMBDA x, i : Set(x, from + i, items[i + 1]), moved, Range0(Len(items)))
    IN SetLength(filled, o.len + Len(items))

Reverse0(o) ==
    LET step(x, l) ==
            LET h == o.len - 1 - l
            IN CASE Present(x, h) /\ Present(x, l) -> Set(Set(x, l, Get(x, h)), h, Get(x, l))
                 [] Present(x, h) /\ ~Present(x, l) -> Delete(Set(x, l, Get(x, h)), h)
                 [] ~Present(x, h) /\ Present(x, l) -> Set(Delete(x, l), h, Get(x, l))
                 [] OTHER -> x
    IN IF o.fast /\ Count(o) = o.len
       THEN [o EXCEPT !.el = [i \in DOMAIN @ |-> @[o.len - 1 - i]]]
       ELSE FoldLeft(step, o, Range0(o.len \div 2))

\* js_array_slice: the copy, from the vector as far as it goes.
\* Mutant: what lies behind the vector is not copied.
CopyOut(o, start, count) ==
    LET inVector(k) == o.fast /\ k < Count(o)
        step(x, n) ==
            LET k == start + n
            IN IF inVector(k) THEN Set(x, n, o.el[k]) ELSE IF Present(o, k) THEN Set(x, n, Get(o, k)) ELSE x
    IN SetLength(FoldLeft(step, Holes(count), Range0(count)), count)
Slice(o, s, e) ==
    LET start == Clamp(s, 0, o.len, o.len)
        final == IF e = Undefined THEN o.len ELSE Clamp(e, 0, o.len, o.len)
    IN CopyOut(o, start, Max2(final - start, 0))

\* Mutant: the tail moves upwards always.
SpliceUpwards(o, s, d, items) ==
    LET start == Clamp(s, 0, o.len, o.len)
        del == IF d = Undefined THEN o.len - start ELSE Clamp(d, 0, o.len - start, 0)
        n == Len(items)
        moved == CopySubArray(o, start + n, start + del, o.len - (start + del), 1)
    IN Ends(SetLength(FoldLeft(LAMBDA x, i : Set(x, start + i, items[i + 1]), moved, Range0(n)), o.len + n - del),
            CopyOut(o, start, del))
Splice(o, s, d, items) ==
    LET start == Clamp(s, 0, o.len, o.len)
        del == IF d = Undefined THEN o.len - start ELSE Clamp(d, 0, o.len - start, 0)
        n == Len(items)
        new == o.len + n - del
        moved == CopySubArray(o, start + n, start + del, o.len - (start + del), IF n <= del THEN 1 ELSE -1)
        cut == FoldLeft(LAMBDA x, i : Delete(x, o.len - 1 - i), moved, Range0(Max2(o.len - new, 0)))
        opened == IF n = del THEN o ELSE cut
        filled == FoldLeft(LAMBDA x, i : Set(x, start + i, items[i + 1]), opened, Range0(n))
    IN Ends(SetLength(filled, new), CopyOut(o, start, del))

CopyWithin(o, t, f, e) ==
    LET to == Clamp(t, 0, o.len, o.len)
        from == Clamp(f, 0, o.len, o.len)
        final == IF e = Undefined THEN o.len ELSE Clamp(e, 0, o.len, o.len)
        count == Min2(final - from, o.len - to)
    IN CopySubArray(o, to, from, count, IF from < to /\ to < from + count THEN -1 ELSE 1)

Fill(o, v, s, e) ==
    LET start == IF s = Undefined THEN 0 ELSE Clamp(s, 0, o.len, o.len)
        end == IF e = Undefined THEN o.len ELSE Clamp(e, 0, o.len, o.len)
    IN FoldLeft(LAMBDA x, i : Set(x, start + i, v), o, Range0(Max2(end - start, 0)))

Concat(o, p) ==
    LET step(x, k) ==
            CASE k < o.len -> IF Present(o, k) THEN Set(x, k, Get(o, k)) ELSE x
              [] OTHER -> IF Present(p, k - o.len) THEN Set(x, k, Get(p, k - o.len)) ELSE x
    IN SetLength(FoldLeft(step, Holes(0), Range0(o.len + p.len)), o.len + p.len)

\* The searches: in the vector first, then by property from where it ends.
From(n, m) == [i \in 1 .. Max2(m - n, 0) |-> n + i - 1]
IndexOf(o, v, s) ==
    LET n == IF s = Undefined THEN 0 ELSE Clamp(s, 0, o.len, o.len)
        inVector == IF o.fast THEN SelectSeq(From(n, Count(o)), LAMBDA i : o.el[i] = v) ELSE <<>>
        behind == SelectSeq(From(IF o.fast THEN Max2(n, Count(o)) ELSE n, o.len),
                            LAMBDA i : Present(o, i) /\ Get(o, i) = v)
        all == inVector \o behind
    IN IF all = <<>> THEN -1 ELSE all[1]
LastIndexOf(o, v, s) ==
    LET n == IF s = Undefined THEN o.len - 1 ELSE Clamp(s, -1, o.len - 1, o.len)
        found == SelectSeq(From(0, n + 1), LAMBDA i : Present(o, i) /\ Get(o, i) = v)
    IN IF found = <<>> THEN -1 ELSE Last(found)
Includes(o, v, s) ==
    LET n == IF s = Undefined THEN 0 ELSE Clamp(s, 0, o.len, o.len)
    IN \/ o.fast /\ \E i \in n .. Count(o) - 1 : o.el[i] = v
       \/ \E i \in (IF o.fast THEN Max2(n, Count(o)) ELSE n) .. o.len - 1 : Get(o, i) = v

\* js_array_join: what stands between the separators.
Join(o) == [i \in 1 .. o.len |-> IF Get(o, i - 1) = Undefined THEN <<>> ELSE <<Get(o, i - 1)>>]

\* js_array_cmp_generic: by an order in which some elements are equal, then by
\* where they were.
LessThan(x, y) == x \div 2 < y \div 2
\* Mutant: equal elements keep no order.
ComesBefore(o, i, j) == LessThan(Get(o, i), Get(o, j)) \/ (~LessThan(Get(o, j), Get(o, i)) /\ i < j)

\* js_array_sort: the elements that are there and not undefined, sorted; rqsort
\* gives the one order of these.  Then the
\* undefined ones, then holes.  An element that stays is not written.
Sort(o) ==
    LET there == SelectSeq(Range0(o.len), LAMBDA i : Present(o, i))
        slots == SelectSeq(there, LAMBDA i : Get(o, i) # Undefined)
        undefs == Len(there) - Len(slots)
        sorted == SortSeq(slots, LAMBDA i, j : ComesBefore(o, i, j))
        n == Len(sorted)
        placed == FoldLeft(LAMBDA x, k : IF sorted[k + 1] = k THEN x ELSE Set(x, k, Get(o, sorted[k + 1])),
                           o, Range0(n))
        filled == FoldLeft(LAMBDA x, k : Set(x, n + k, Undefined), placed, Range0(undefs))
    IN FoldLeft(LAMBDA x, k : Delete(x, n + undefs + k), filled, Range0(o.len - n - undefs))

-----------------------------------------------------------------------------

Fits(o) == o.len <= MaxLen
ItemLists == {<<>>} \cup {<<v>> : v \in Values}
Positions == -MaxLen - 1 .. MaxLen + 1

PushItem(items, unshift) == a' = Push(a, items, unshift)
TakeOne(shift) == a' = Pop(a, shift).o
Change(s, d, items) == a' = Splice(a, s, d, items).o
Shuffle(t, f) == \/ a' = CopyWithin(a, t, f, Undefined)
                 \/ a' = Reverse0(a)
                 \/ a' = Sort(a)
FillAll(v) == a' = Fill(a, v, Undefined, Undefined)
Write(i, v) == a' = Set(a, i, v)
Erase(i) == a' = Delete(a, i)
Resize(n) == a' = SetLength(a, n)

Next ==
    /\ \/ \E items \in ItemLists, u \in BOOLEAN : PushItem(items, u)
       \/ \E shift \in BOOLEAN : TakeOne(shift)
       \/ \E s, d \in Positions, items \in ItemLists : Change(s, d, items)
       \/ \E t, f \in Positions : Shuffle(t, f)
       \/ \E v \in Values : FillAll(v)
       \/ \E i \in 0 .. MaxLen - 1 : Erase(i) \/ \E v \in Values : Write(i, v)
       \/ \E n \in 0 .. MaxLen : Resize(n)
    /\ Fits(a')

Spec == Init /\ [][Next]_a

-----------------------------------------------------------------------------
(* Properties. *)

\* An array as a list of cells; a hole is {}.
Cell(o, i) == IF Present(o, i) THEN {Get(o, i)} ELSE {}
Own(o, i) == IF i \in DOMAIN o.el THEN {o.el[i]} ELSE {}
Is(o, n, C(_)) == o.len = n /\ \A i \in 0 .. n - 1 : Own(o, i) = C(i)
\* An argument of the language: from the end when negative, within the array.
Relative(n, len) == IF n < 0 THEN Max2(len + n, 0) ELSE Min2(n, len)

\* What is moved or removed arrives as if every element moved at once: no
\* element is read after it was overwritten, whatever the overlap and the order
\* of the loop, and holes move like elements.
MovesAtOnce ==
    LET n == a.len
    IN /\ n > 0 => /\ Is(Pop(a, FALSE).o, n - 1, LAMBDA i : Own(a, i))
                   /\ Is(Pop(a, TRUE).o, n - 1, LAMBDA i : Cell(a, i + 1))
                   /\ Pop(a, TRUE).res = Get(a, 0) /\ Pop(a, FALSE).res = Get(a, n - 1)
       /\ \A items \in ItemLists :
             LET m == Len(items)
             IN /\ Is(Push(a, items, FALSE), n + m, LAMBDA i : IF i < n THEN Own(a, i) ELSE {items[i - n + 1]})
                /\ m > 0 => Is(Push(a, items, TRUE), n + m,
                               LAMBDA i : IF i < m THEN {items[i + 1]} ELSE Cell(a, i - m))
       /\ \A i \in 0 .. n - 1 : n - 1 - i # i => Own(Reverse0(a), i) = Cell(a, n - 1 - i)
       /\ Reverse0(a).len = n
       /\ \A t, f \in Positions :
             LET to == Relative(t, n)
                 from == Relative(f, n)
             IN Is(CopyWithin(a, t, f, Undefined), n,
                   LAMBDA i : IF i >= to /\ i - to + from < n THEN Cell(a, i - to + from) ELSE Own(a, i))
       /\ \A s, d \in Positions, items \in ItemLists :
             LET start == Relative(s, n)
                 del == Max2(0, Min2(d, n - start))
                 m == Len(items)
                 r == Splice(a, s, d, items)
             IN /\ Is(r.o, n + m - del,
                      LAMBDA i : CASE i < start -> Own(a, i)
                                   [] i >= start /\ i < start + m -> {items[i - start + 1]}
                                   [] OTHER -> IF m = del THEN Own(a, i) ELSE Cell(a, i - m + del))
                /\ Is(r.res, del, LAMBDA i : Cell(a, start + i))

\* Slices, concatenations and searches see the same elements.
CopiesAndSearches ==
    LET n == a.len
    IN /\ \A s \in Positions, e \in Positions \cup {Undefined} :
             LET start == Relative(s, n)
                 final == IF e = Undefined THEN n ELSE Relative(e, n)
             IN Is(Slice(a, s, e), Max2(final - start, 0), LAMBDA i : Cell(a, start + i))
       /\ Is(Concat(a, Slice(a, 1, Undefined)), n + Max2(n - 1, 0),
             LAMBDA i : IF i < n THEN Cell(a, i) ELSE Cell(Slice(a, 1, Undefined), i - n))
       /\ \A v \in Values \cup {FromProto, Undefined}, s \in Positions :
             LET at == {i \in Relative(s, n) .. n - 1 : Cell(a, i) = {v}}
                 upTo == {i \in 0 .. (IF s < 0 THEN n + s ELSE Min2(s, n - 1)) : Cell(a, i) = {v}}
             IN /\ IF at = {} THEN IndexOf(a, v, s) = -1
                   ELSE IndexOf(a, v, s) \in at /\ \A i \in at : IndexOf(a, v, s) <= i
                /\ IF upTo = {} THEN LastIndexOf(a, v, s) = -1
                   ELSE LastIndexOf(a, v, s) \in upTo /\ \A i \in upTo : LastIndexOf(a, v, s) >= i
                /\ Includes(a, v, s) = \E i \in Relative(s, n) .. n - 1 : Get(a, i) = v
       /\ Len(Join(a)) = n

\* sort orders the elements, keeps the order of equal ones, and puts undefined
\* ones behind them and holes last.
SortKeepsAll ==
    LET r == Sort(a)
        vals == {i \in 0 .. a.len - 1 : Present(a, i) /\ Get(a, i) # Undefined}
        all == {i \in 0 .. a.len - 1 : Present(a, i)}
        rank(i) == Cardinality({j \in vals : LessThan(Get(a, j), Get(a, i))
                                               \/ (~LessThan(Get(a, i), Get(a, j)) /\ j < i)})
    IN /\ r.len = a.len
       /\ \A i \in vals : Cell(r, rank(i)) = Cell(a, i)
       /\ \A i \in Cardinality(vals) .. Cardinality(all) - 1 : Own(r, i) = {Undefined}
       /\ \A i \in Cardinality(all) .. a.len - 1 : Own(r, i) = {}

\* A method gives the same on the two representations of an array, and the
\* vector has no holes.
FastAsSlow ==
    LET slow == [a EXCEPT !.fast = FALSE]
        Same(x, y) == x.len = y.len /\ x.el = y.el
    IN /\ a.fast => DOMAIN a.el = 0 .. Count(a) - 1 /\ Count(a) <= a.len
       /\ \A shift \in BOOLEAN : /\ Same(Pop(a, shift).o, Pop(slow, shift).o)
                                 /\ Pop(a, shift).res = Pop(slow, shift).res
       /\ Same(Reverse0(a), Reverse0(slow))
       /\ \A s \in Positions : Same(Slice(a, s, Undefined), Slice(slow, s, Undefined))
       /\ \A v \in Values \cup {FromProto}, s \in Positions :
             IndexOf(a, v, s) = IndexOf(slow, v, s) /\ Includes(a, v, s) = Includes(slow, v, s)
================================================================================
