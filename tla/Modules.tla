-------------------------------- MODULE Modules --------------------------------
(***************************************************************************)
(* The life of module definitions: loading them with what they request,    *)
(* linking, running the bodies, and what is thrown away when one of these  *)
(* fails.  An import runs to its end before anything else does, so each is *)
(* one action; the functions it calls are operators on the list of         *)
(* definitions.  The loader is the one of quickjs-libc.c; without it, as   *)
(* in the library, every requested module is missing.                      *)
(***************************************************************************)
EXTENDS Integers, Sequences, FiniteSets, SequencesExt

CONSTANTS
    Names,      \* module names
    FaultKinds, \* which of "missing", "unlinkable", "throwing", "nameless" happen
    MaxFaults,  \* bound: files that cannot be read, linked or run
    MaxImports, \* bound: imports
    MaxDefs     \* bound: module definitions ever made

VARIABLES
    requests,   \* what the file of each name requests, in order
    missing,    \* names the loader cannot read or parse
    unlinkable, \* modules that import a name nobody exports
    throwing,   \* modules whose body throws
    nameless,   \* modules for whose namespace object memory runs out
    defs,       \* every JSModuleDef made, by number
    log,        \* bodies run, by number of their definition
    outcome     \* how the last import ended

vars == <<requests, missing, unlinkable, throwing, nameless, defs, log, outcome>>
files == <<requests, missing, unlinkable, throwing, nameless>>

Null == 0
Lists == {<<>>} \cup {s \in UNION {[1 .. k -> Names] : k \in 1 .. 2} : IsInjective(s)}
Reaches(r, a, b) ==
    \E k \in 1 .. Cardinality(Names) : \E p \in [0 .. k -> Names] :
        p[0] = a /\ p[k] = b /\ \A i \in 1 .. k : p[i] \in Range(r[p[i - 1]])
Faulty(kind) == IF kind \in FaultKinds THEN SUBSET Names ELSE {{}}

Init ==
    /\ requests \in {r \in [Names -> Lists] : \A m \in Names : m \notin Range(r[m])}
    /\ missing \in Faulty("missing")
    /\ unlinkable \in Faulty("unlinkable")
    /\ throwing \in Faulty("throwing")
    /\ nameless \in Faulty("nameless")
    /\ Cardinality(missing) + Cardinality(unlinkable) + Cardinality(throwing)
         + Cardinality(nameless) <= MaxFaults
    /\ defs = <<>> /\ log = <<>> /\ outcome = [kind |-> "none"]

-----------------------------------------------------------------------------
(* Loading.  S is [defs, log]; a call returns it with ok or the module.    *)

NewDef(name) ==
    [name |-> name, live |-> TRUE, resolved |-> FALSE, created |-> FALSE,
     instantiated |-> FALSE, evaluated |-> FALSE, exception |-> Null,
     ns |-> FALSE, reqs |-> [i \in 1 .. Len(requests[name]) |-> Null]]
Set(S, d, field, v) == [S EXCEPT !.defs[d][field] = v]

\* js_find_loaded_module takes the first in the list.
FindLoaded(S, name) ==
    LET found == {d \in DOMAIN S.defs : S.defs[d].live /\ S.defs[d].name = name}
    IN IF found = {} THEN Null ELSE CHOOSE d \in found : \A e \in found : d <= e

RECURSIVE HostResolve(_, _), Compile(_, _), ResolveModule(_, _), ResolveReqs(_, _, _)
HostResolve(S, name) ==
    LET d == FindLoaded(S, name)
    IN CASE d # Null -> [S |-> S, d |-> d]
         [] d = Null /\ name \in missing -> [S |-> S, d |-> Null]
         [] OTHER -> Compile(S, name)
\* __JS_EvalInternal up to the point where the module would be run.
Compile(S, name) ==
    LET d == Len(S.defs) + 1
        r == ResolveModule([S EXCEPT !.defs = Append(@, NewDef(name))], d)
    IN IF r.ok THEN [S |-> r.S, d |-> d] ELSE [S |-> Set(r.S, d, "live", FALSE), d |-> Null]
ResolveModule(S, d) ==
    IF S.defs[d].resolved THEN [S |-> S, ok |-> TRUE]
    ELSE ResolveReqs(Set(S, d, "resolved", TRUE), d, 1)
ResolveReqs(S, d, i) ==
    IF i > Len(S.defs[d].reqs) THEN [S |-> S, ok |-> TRUE]
    ELSE LET h == HostResolve(S, requests[S.defs[d].name][i])
         IN IF h.d = Null THEN [S |-> h.S, ok |-> FALSE]
            ELSE LET r == ResolveModule([h.S EXCEPT !.defs[d].reqs[i] = h.d], h.d)
                 IN IF r.ok THEN ResolveReqs(r.S, d, i + 1) ELSE r

-----------------------------------------------------------------------------
(* Linking and running. *)

RECURSIVE CreateFunction(_, _), Instantiate(_, _), InstantiateReqs(_, _, _),
          Evaluate(_, _, _), EvaluateReqs(_, _, _, _)
CreateFunction(S, d) ==
    IF S.defs[d].created THEN S
    ELSE FoldLeft(LAMBDA acc, r : CreateFunction(acc, r), Set(S, d, "created", TRUE), S.defs[d].reqs)

\* The flag is set before the work is done; the imports are looked up after
\* the requested modules are linked.
Instantiate(S, d) ==
    IF S.defs[d].instantiated THEN [S |-> S, ok |-> TRUE]
    ELSE InstantiateReqs(Set(S, d, "instantiated", TRUE), d, 1)
InstantiateReqs(S, d, i) ==
    IF i > Len(S.defs[d].reqs) THEN [S |-> S, ok |-> S.defs[d].name \notin unlinkable]
    ELSE LET r == Instantiate(S, S.defs[d].reqs[i])
         IN IF r.ok THEN InstantiateReqs(r.S, d, i + 1) ELSE r

\* Mutant: a body that has thrown is run again.
AlreadyRun(S, d) == S.defs[d].evaluated

\* marked: the modules whose eval_mark is set.
RunBody(S, d) ==
    LET exc == IF S.defs[d].name \in throwing THEN d ELSE Null
    IN [S |-> [S EXCEPT !.log = Append(@, d), !.defs[d].evaluated = TRUE,
                        !.defs[d].exception = exc],
        exc |-> exc]
Evaluate(S, d, marked) ==
    IF d \in marked THEN [S |-> S, exc |-> Null]
    ELSE IF AlreadyRun(S, d) THEN [S |-> S, exc |-> S.defs[d].exception]
    ELSE EvaluateReqs(S, d, 1, marked \cup {d})
\* Mutant: only the module itself is run.
SkipRequested(S, d, i, marked) == RunBody(S, d)

\* A requested module that throws ends the loop; the one that requested it is
\* left as not evaluated.
EvaluateReqs(S, d, i, marked) ==
    IF i > Len(S.defs[d].reqs) THEN RunBody(S, d)
    ELSE LET r == Evaluate(S, S.defs[d].reqs[i], marked)
         IN IF r.exc # Null THEN r ELSE EvaluateReqs(r.S, d, i + 1, marked)

\* js_free_modules.
FreeModules(S, unless) ==
    [S EXCEPT !.defs = [d \in DOMAIN @ |-> [@[d] EXCEPT !.live = @ /\ S.defs[d][unless]]]]

\* JS_EvalFunctionInternal on a module.  exc is the definition whose body
\* threw; an error of linking has no definition.
Failed(S) == [S |-> FreeModules(S, "evaluated"), kind |-> "error", exc |-> Null]
EvalFunction(S, d) ==
    LET i == Instantiate(CreateFunction(S, d), d)
        e == Evaluate(i.S, d, {})
    IN CASE ~i.ok -> Failed(i.S)
         [] i.ok /\ e.exc # Null -> [Failed(e.S) EXCEPT !.exc = e.exc]
         [] OTHER -> [S |-> e.S, kind |-> "done", exc |-> Null]

-----------------------------------------------------------------------------

State == [defs |-> defs, log |-> log]
Imports == IF outcome.kind = "none" THEN 0 ELSE outcome.count
\* Modules that request each other are freed one by one when one of them fails,
\* and one that is kept then points to one that is not.  What the program does
\* with that is undefined, so the behaviour ends there.
Sound ==
    \A d \in DOMAIN defs : defs[d].live /\ defs[d].resolved =>
        \A e \in Range(defs[d].reqs) : e # Null /\ defs[e].live
\* At most one definition is made for every name that is not loaded.
Room == Imports < MaxImports /\ Len(defs) + Cardinality(Names) <= MaxDefs
End(d, r) ==
    /\ defs' = r.S.defs /\ log' = r.S.log
    /\ outcome' = [kind |-> r.kind, exc |-> r.exc, module |-> d, count |-> Imports + 1]
    /\ UNCHANGED files

\* JS_Eval of a module's text: a new definition, also under a name in use.
EvalModule(name) ==
    LET c == Compile(State, name)
    IN /\ Room /\ Sound /\ name \notin missing
       /\ End(c.d, IF c.d = Null THEN [S |-> c.S, kind |-> "error", exc |-> Null]
                   ELSE EvalFunction(c.S, c.d))

\* js_get_module_ns: the namespace is built once and kept.
GetModuleNS(S, d) ==
    IF S.defs[d].name \in nameless THEN S ELSE Set(S, d, "ns", TRUE)

\* js_dynamic_import_job, which settles the promise of import().  After the
\* namespace was asked for it is the result of the evaluation that is looked
\* at again: the promise is resolved also when there is no namespace.
DynamicImport(name) ==
    LET h == HostResolve(State, name)
        r == ResolveModule(h.S, h.d)
        e == EvalFunction(r.S, h.d)
    IN /\ Room /\ Sound
       /\ End(h.d, CASE h.d = Null -> [S |-> h.S, kind |-> "error", exc |-> Null]
                     [] h.d # Null /\ ~r.ok ->
                           [S |-> FreeModules(r.S, "resolved"), kind |-> "error", exc |-> Null]
                     [] h.d # Null /\ r.ok /\ e.kind = "error" -> e
                     [] OTHER -> [e EXCEPT !.S = GetModuleNS(@, h.d)])

Next == \E name \in Names : EvalModule(name) \/ DynamicImport(name)

Spec == Init /\ [][Next]_vars

-----------------------------------------------------------------------------
(* Properties. *)

Defs == DOMAIN defs
RanAt(d) == {i \in DOMAIN log : log[i] = d}
\* A request of a module that does not lead back to the module itself.
Before(d) ==
    {e \in Range(defs[d].reqs) : e # Null /\ ~Reaches(requests, defs[e].name, defs[d].name)}

\* However imports fail and are repeated, the body of a definition runs at most
\* once, and after the bodies of the modules it requests (js_evaluate_module),
\* circles apart; none of those has thrown.
BodiesInOrder ==
    \A d \in Defs :
        /\ Cardinality(RanAt(d)) <= 1
        /\ \A i \in RanAt(d) : \A e \in Before(d) :
              /\ \E j \in RanAt(e) : j < i
              /\ defs[e].exception = Null

\* Between imports a definition is either as it was loaded or has been run: a
\* failed import leaves none half linked, and only modules whose body came to
\* its end have been given out as a namespace.
AllOrNothing ==
    \A d \in Defs : defs[d].live =>
        /\ (defs[d].created <=> defs[d].evaluated)
        /\ (defs[d].instantiated <=> defs[d].evaluated)
        /\ defs[d].ns => defs[d].evaluated /\ defs[d].exception = Null

\* What a module in the list requests is in the list too, circles apart.
NoDanglingRequest ==
    \A d \in Defs : defs[d].live /\ defs[d].resolved =>
        \A e \in Before(d) : defs[e].live

\* A module that has thrown throws the same again at every later import, and
\* one that has run never fails (js_evaluate_module rethrows).
SameOutcomeAgain ==
    LET d == outcome'.module
    IN d \in Defs /\ defs[d].live /\ defs[d].evaluated =>
         /\ outcome'.exc = defs[d].exception
         /\ outcome'.kind = IF defs[d].exception = Null THEN "done" ELSE "error"
         /\ log' = log
================================================================================
