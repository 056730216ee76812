------------------------------- MODULE MCObjects -------------------------------
(***************************************************************************)
(* What scripts do with objects, side by side: the properties of ordinary  *)
(* objects and of arrays, proxies, the methods of arrays, and modules.  A  *)
(* behaviour exercises one of them; the variables of the others are        *)
(* parked.  None of them shares state with another.                        *)
(***************************************************************************)
EXTENDS Integers, Sequences, FiniteSets

CONSTANTS Names, MaxFaults, MaxImports, MaxDefs     \* of modules

VARIABLES
    unit,                                           \* what is exercised
    o, protos,                                      \* of properties
    target, revoked, claims,                        \* of proxies
    a,                                              \* of array methods
    requests, missing, unlinkable, throwing,        \* of modules
    nameless, defs, log, outcome,
    exports, stars, result                          \* of exports

Object == INSTANCE ObjectProperties WITH
            Keys <- {101}, Values <- {0, 1}, Lengths <- {},
            Attrs <- {"configurable", "enumerable"}, Accessors <- TRUE,
            Freezing <- TRUE,
            Inherited <- {"none", "data", "readonly", "setter", "nosetter"}
Array == INSTANCE ObjectProperties WITH
            Keys <- {0, 1, 100}, Values <- {0}, Lengths <- {0, 4},
            Attrs <- {"configurable"}, Accessors <- FALSE, Freezing <- TRUE,
            Inherited <- {"none", "readonly"}
Proxy == INSTANCE Proxies WITH
            Protos <- {"p", "q"}, Values <- {"1", "2"}, Enums <- BOOLEAN
Method == INSTANCE ArrayMethods WITH
            MaxLen <- 4, Values <- {2, 3, 99}, Inherited <- {1}
Module == INSTANCE Modules WITH
            FaultKinds <- {"missing", "unlinkable", "throwing", "nameless"}
Export == INSTANCE ModuleExports WITH
            Modules <- Names, Leaves <- {"m3"}, StarExporters <- {"m1", "m2"},
            Names <- {"x", "default"}, Locals <- {"v", "w"}, Others <- {"a"}
Spaces == INSTANCE ModuleExports WITH
            Modules <- Names, Leaves <- {"m3"}, StarExporters <- {"m1"},
            Names <- {"x", "y"}, Locals <- {}, Others <- {"a", "b"}

propertyVars == <<o, protos>>
proxyVars == <<target, revoked, claims>>
methodVars == <<a>>
moduleVars == <<requests, missing, unlinkable, throwing, nameless,
                defs, log, outcome>>
exportVars == <<exports, stars, result>>
allVars == <<unit, propertyVars, proxyVars, methodVars, moduleVars, exportVars>>

Parked == "parked"
PropertiesParked == o = Parked /\ protos = Parked
ProxyParked == target = Parked /\ revoked = Parked /\ claims = Parked
MethodParked == a = Parked
ModuleParked ==
    /\ requests = Parked /\ missing = Parked /\ unlinkable = Parked
    /\ throwing = Parked /\ nameless = Parked /\ defs = Parked
    /\ log = Parked /\ outcome = Parked
ExportParked == exports = Parked /\ stars = Parked /\ result = Parked

MCInit ==
    \/ /\ unit = "object" /\ Object!Init
       /\ ProxyParked /\ MethodParked /\ ModuleParked /\ ExportParked
    \/ /\ unit = "array" /\ Array!Init
       /\ ProxyParked /\ MethodParked /\ ModuleParked /\ ExportParked
    \/ /\ unit = "proxy" /\ Proxy!Init
       /\ PropertiesParked /\ MethodParked /\ ModuleParked /\ ExportParked
    \/ /\ unit = "methods" /\ Method!Init
       /\ PropertiesParked /\ ProxyParked /\ ModuleParked /\ ExportParked
    \/ /\ unit = "modules" /\ Module!Init
       /\ PropertiesParked /\ ProxyParked /\ MethodParked /\ ExportParked
    \/ /\ unit = "exports" /\ Export!Init
       /\ PropertiesParked /\ ProxyParked /\ MethodParked /\ ModuleParked
    \/ /\ unit = "namespaces" /\ Spaces!Init
       /\ PropertiesParked /\ ProxyParked /\ MethodParked /\ ModuleParked

MCNext ==
    \/ /\ unit = "object" /\ Object!Next
       /\ UNCHANGED <<unit, proxyVars, methodVars, moduleVars, exportVars>>
    \/ /\ unit = "array" /\ Array!Next
       /\ UNCHANGED <<unit, proxyVars, methodVars, moduleVars, exportVars>>
    \/ /\ unit = "proxy" /\ Proxy!Next
       /\ UNCHANGED <<unit, propertyVars, methodVars, moduleVars, exportVars>>
    \/ /\ unit = "methods" /\ Method!Next
       /\ UNCHANGED <<unit, propertyVars, proxyVars, moduleVars, exportVars>>
    \/ /\ unit = "modules" /\ Module!Next
       /\ UNCHANGED <<unit, propertyVars, proxyVars, methodVars, exportVars>>
    \/ /\ unit = "exports" /\ Export!Next
       /\ UNCHANGED <<unit, propertyVars, proxyVars, methodVars, moduleVars>>
    \/ /\ unit = "namespaces" /\ Spaces!Next
       /\ UNCHANGED <<unit, propertyVars, proxyVars, methodVars, moduleVars>>

MCSpec == MCInit /\ [][MCNext]_allVars

-----------------------------------------------------------------------------
(* Correctness. *)

\* JS_DefineProperty, JS_SetPropertyInternal, JS_SetPropertyValue,
\* JS_SetPropertyGeneric and delete_property do on either representation of an
\* object what ECMA-262 says, for every object that can be reached, and keep
\* the representation sound.  In two cases they do something else, and the
\* property says what: the length of an array is raised for an element that is
\* then refused (XXX at 8872), and a setter or a read-only property behind an
\* inherited data property is found although it is hidden.
PropertiesAsLanguage ==
    /\ unit = "object" => Object!DefineAsTheLanguage /\ Object!SetAsTheLanguage
    /\ unit = "array" => /\ Array!DefineAsTheLanguage /\ Array!SetAsTheLanguage
                         /\ Array!Representation

\* js_proxy_get_own_property and the other traps: answers are checked as ECMA-262
\* says, and so what a program was told of an object that cannot be extended, or
\* of a property that is not configurable, is not contradicted.  The cases that
\* are checked otherwise are named: values and accessors of a descriptor are not
\* compared (XXX at 44263), an accessor is told as data, a target that is a proxy
\* is always taken to be extensible, and a value is refused that could be set.
ProxiesKeepInvariants ==
    unit = "proxy" =>
        /\ Proxy!ChecksAsLanguage
        /\ Proxy!ExtensibilityKept /\ Proxy!PresenceKept /\ Proxy!ValueKept
        /\ Proxy!DescriptorKept /\ Proxy!ClosedTargetShown
        /\ Proxy!HonestTrapsPass

\* js_array_splice, js_array_sort and their like: elements and holes end where
\* they would if all moved at once, searches see them, sorting is stable, and
\* the two representations of an array agree.
ArraysAsLanguage ==
    unit = "methods" =>
        /\ Method!MovesAtOnce /\ Method!CopiesAndSearches
        /\ Method!SortKeepsAll /\ Method!FastAsSlow

\* js_evaluate_module, js_free_modules: however imports fail and are repeated, a
\* body runs at most once and after those it requests, a failed import leaves
\* no module half linked, and an import of a module that has run ends as the
\* first one did.
ModulesRunInOrder ==
    /\ [](unit = "modules" => /\ Module!BodiesInOrder /\ Module!AllOrNothing
                              /\ Module!NoDanglingRequest)
    /\ [][unit = "modules" => Module!SameOutcomeAgain]_allVars

\* js_resolve_export, js_build_module_ns: a name resolves exactly when one
\* variable can be reached through re-exports and star exports, and a
\* namespace has exactly the names that an import could bind.  Only where all
\* that is reached are namespaces the code counts the modules that export them
\* and not the namespaces (27181).
ExportsResolve ==
    /\ unit = "exports" =>
          Export!ResolvesByReachability /\ Export!NamespaceIsTheImportable
    /\ unit = "namespaces" =>
          Spaces!ResolvesByReachability /\ Spaces!NamespaceIsTheImportable
=============================================================================
