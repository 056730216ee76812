----------------------------- MODULE ModuleExports -----------------------------
(***************************************************************************)
(* Finding what an imported name stands for: js_resolve_export follows     *)
(* re-exports and star exports through a graph of modules that may have    *)
(* cycles, and get_exported_names lists the names of a namespace object.   *)
(* Both are compared with definitions by reachability.                     *)
(***************************************************************************)
EXTENDS Integers, Sequences, FiniteSets, SequencesExt

CONSTANTS
    Modules,    \* the modules of the graph
    Leaves,     \* the modules without re-exports
    StarExporters,  \* the modules with star exports
    Names,      \* exported names
    Locals,     \* names of local variables
    Others      \* modules outside the graph whose namespaces are exported

VARIABLES
    exports,    \* export_entries: per module and name, what it stands for
    stars,      \* star_export_entries: per module, in order
    result      \* what the functions return

vars == <<exports, stars, result>>

None == [type |-> "none"]
\* A local variable, which may be exported under two names.
Local == [type : {"local"}, local : Locals]
\* export * as n from "other": local_name is "*".
Namespace == [type : {"ns"}, local : {"*"}, of : Others]
Indirect == [type : {"indirect"}, from : Modules, name : Names]
\* default is exported as a local variable only, other names in any way.
Entries(types) ==
    {f \in [Names -> types] :
        "default" \in Names => f["default"] \in {None, [type |-> "local", local |-> "v"]}}

\* What parsing a set of modules leaves; no module imports itself.
Init ==
    /\ \E inner \in [Modules \ Leaves -> Entries({None} \cup Namespace \cup Local \cup Indirect)],
           leaf \in [Leaves -> Entries({None} \cup Namespace \cup Local)] :
         /\ \A m \in Modules \ Leaves, n \in Names :
                inner[m][n].type = "indirect" => inner[m][n].from # m
         /\ exports = inner @@ leaf
    /\ \E all \in [StarExporters -> SUBSET Modules] :
         /\ \A m \in StarExporters : m \notin all[m]
         /\ stars = [m \in Modules |-> IF m \in StarExporters THEN SetToSeq(all[m]) ELSE <<>>]
    /\ result = [done |-> FALSE]

-----------------------------------------------------------------------------
(* js_resolve_export. *)

\* Where a name was found: the module, the name of its export entry, and the
\* local_name of that entry.
Found(m, n, e) ==
    [res |-> "found", b |-> [module |-> m, name |-> n, local |-> e.local]]
SameBinding(a, b) == a.module = b.module /\ a.local = b.local
NotFound == [res |-> "not_found", b |-> None]
Circular == [res |-> "circular", b |-> None]
Ambiguous == [res |-> "ambiguous", b |-> None]

\* Mutant: two star exports that find the same variable are ambiguous.
MergeByEntry(old, new) ==
    IF new.res = "found" /\ old.res = "found" THEN Ambiguous
    ELSE IF new.res \in {"found", "ambiguous"} THEN new ELSE old

\* What a further star export changes: a second binding is ambiguous, a name
\* not found there, or being looked up already, changes nothing.
Merge(old, new) ==
    CASE new.res = "ambiguous" -> new
      [] new.res = "found" /\ old.res = "found" /\ ~SameBinding(new.b, old.b) -> Ambiguous
      [] new.res = "found" /\ old.res # "found" -> new
      [] OTHER -> old

\* js_resolve_export1 with the list of names already looked up; the result and
\* the list as it is left.
RECURSIVE Resolve1(_, _, _), ResolveStars(_, _, _, _, _)
Resolve1(m, n, seen) ==
    IF <<m, n>> \in seen THEN [r |-> Circular, seen |-> seen]
    ELSE LET e == exports[m][n]
             seen1 == seen \cup {<<m, n>>}
         IN CASE e.type \in {"local", "ns"} -> [r |-> Found(m, n, e), seen |-> seen1]
              [] e.type = "indirect" -> Resolve1(e.from, e.name, seen1)
              [] n = "default" -> [r |-> NotFound, seen |-> seen1]
              [] OTHER -> ResolveStars(m, n, 1, NotFound, seen1)
\* The loop over the star exports ends at an ambiguity.
ResolveStars(m, n, i, acc, seen) ==
    IF i > Len(stars[m]) \/ acc.res = "ambiguous" THEN [r |-> acc, seen |-> seen]
    ELSE LET next == Resolve1(stars[m][i], n, seen)
         IN ResolveStars(m, n, i + 1, Merge(acc, next.r), next.seen)

ResolveExport(m, n) == Resolve1(m, n, {}).r

-----------------------------------------------------------------------------
(* get_exported_names. *)

Explicit(m) == {n \in Names : exports[m][n].type # "none"}

NamesOf(m, fromStar) == Explicit(m) \ (IF fromStar THEN {"default"} ELSE {})

RECURSIVE ExportedNames1(_, _, _), StarNames(_, _, _)
ExportedNames1(m, fromStar, s) ==
    IF m \in s.modules THEN s
    ELSE StarNames(m, 1, [modules |-> s.modules \cup {m},
                          names |-> s.names \cup NamesOf(m, fromStar)])
StarNames(m, i, s) ==
    IF i > Len(stars[m]) THEN s
    ELSE StarNames(m, i + 1, ExportedNames1(stars[m][i], TRUE, s))

ExportedNames(m) == ExportedNames1(m, FALSE, [modules |-> {}, names |-> {}]).names

-----------------------------------------------------------------------------

\* js_build_module_ns: it throws when a listed name leads nowhere, and leaves
\* the ambiguous ones out.
BuildNamespace(m) ==
    LET res == [n \in ExportedNames(m) |-> ResolveExport(m, n).res]
    IN IF \E n \in DOMAIN res : res[n] \in {"not_found", "circular"} THEN [throws |-> TRUE]
       ELSE [throws |-> FALSE, names |-> {n \in DOMAIN res : res[n] = "found"}]

\* Everything js_instantiate_module asks for.
Lookup ==
    /\ ~result.done
    /\ result' = [done |-> TRUE,
                  binding |-> [m \in Modules |-> [n \in Names |-> ResolveExport(m, n)]],
                  names |-> [m \in Modules |-> ExportedNames(m)],
                  ns |-> [m \in Modules |-> BuildNamespace(m)]]
    /\ UNCHANGED <<exports, stars>>

Next == Lookup

Spec == Init /\ [][Next]_vars

-----------------------------------------------------------------------------
(* Properties. *)

\* One step of the search for a name.
Steps(m, n) ==
    LET e == exports[m][n]
    IN CASE e.type \in {"local", "ns"} -> {}
         [] e.type = "indirect" -> {<<e.from, e.name>>}
         [] n = "default" -> {}
         [] OTHER -> {<<k, n>> : k \in Range(stars[m])}
Closure(S, Step(_)) ==
    LET grow[i \in 0 .. Cardinality(Modules \X Names)] ==
          IF i = 0 THEN S ELSE LET T == grow[i - 1] IN T \cup UNION {Step(p) : p \in T}
    IN grow[Cardinality(Modules \X Names)]
\* The entries that a name leads to.
Reached(m, n) ==
    {p \in Closure({<<m, n>>}, LAMBDA q : Steps(q[1], q[2])) : exports[p[1]][p[2]].type \in {"local", "ns"}}
\* What an entry stands for: a variable of a module, or the namespace of one.
Thing(p) ==
    LET e == exports[p[1]][p[2]] IN IF e.type = "ns" THEN <<e.of, "*">> ELSE <<p[1], e.local>>
Variables(m, n) == {Thing(p) : p \in Reached(m, n)}

\* Entries of namespaces are compared by the module that has them, not by the
\* namespace: different ones of one module pass for the same, and one that two
\* modules have for different ones.
OnlyNamespaces(m, n) == \A p \in Reached(m, n) : exports[p[1]][p[2]].type = "ns"
Exporters(m, n) == {p[1] : p \in Reached(m, n)}
Mixed(m, n) == OnlyNamespaces(m, n) /\ Cardinality(Exporters(m, n)) = 1
TakenApart(m, n) == OnlyNamespaces(m, n) /\ Cardinality(Exporters(m, n)) > 1

\* js_resolve_export finds a name exactly when one variable or namespace can be
\* reached, and then that one; it is ambiguous exactly when several can, but for
\* namespaces that are mixed or taken apart.  The list of names looked up
\* already cuts cycles without cutting off a variable.
ResolvesByReachability ==
    result.done => \A m \in Modules, n \in Names :
        LET r == result.binding[m][n]
            vs == Variables(m, n)
        IN /\ r.res = "found" <=> (Cardinality(vs) = 1 /\ ~TakenApart(m, n)) \/ Mixed(m, n)
           /\ r.res = "found" => Thing(<<r.b.module, r.b.name>>) \in vs
           /\ r.res = "ambiguous" <=> (Cardinality(vs) > 1 /\ ~Mixed(m, n)) \/ TakenApart(m, n)

\* A namespace object has exactly the names that an import of the module could
\* bind, default only when the module itself exports it; it cannot be built
\* exactly when a listed name leads nowhere.
NamespaceIsTheImportable ==
    result.done => \A m \in Modules :
        LET importable == {n \in Names : result.binding[m][n].res = "found"}
        IN /\ importable \subseteq result.names[m]
           /\ ~result.ns[m].throws => result.ns[m].names = importable
           /\ result.ns[m].throws <=>
                 \E n \in Names \ importable :
                    /\ Variables(m, n) = {}
                    /\ n # "default" => \E k \in Closure({m}, LAMBDA k : Range(stars[k])) :
                                            n \in Explicit(k)
                    /\ n = "default" => n \in Explicit(m)

================================================================================
