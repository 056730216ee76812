------------------------------- MODULE MCRuntime -------------------------------
(***************************************************************************)
(* What lives between Dart and JavaScript and what the engine keeps in     *)
(* memory for it, side by side: the registry of hooks, the references of   *)
(* the wrappers, the conversions of values, the encodings of texts and the *)
(* interrupt handler; cells and the cycle collector, the table of atoms,   *)
(* the shapes of objects and the records of maps.  Each is given by its    *)
(* own variables: a behaviour exercises one of them, and the variables of  *)
(* the others stay as they are.                                            *)
(***************************************************************************)
EXTENDS HookRegistry, JSValueRefs, Interrupts, TLC

CONSTANTS
    Bits32, Bits53, Bits64,                     \* of conversions
    Units, HexUnits, MaxLen,                    \* of encodings
    Values, Others, MaxRefs, MaxRoots,          \* of cells
    UIntMod, TagInt, AtomMax, HashMod, FirstSize, FirstHash,    \* of atoms
    Classes, MaxStr, MaxHeld,
    ObjectIds, ArrayProto, Names, Length, Flags, Contents,      \* of shapes
    Configurable, InitialSize, InitialHash, InitialTable, CompactMin,
    HashMul, MaxShape, MaxProps, MaxSteps,
    Keys, Addresses, Iters, MaxAdds             \* of maps

VARIABLES
    unit,                                           \* what is exercised
    step, dart, js, back, again, input, inputLen,   \* of conversions
    job, text, bytes, out, phase,                   \* of encodings
    status, rc, mark, refs, roots, gcList, tmpList, zeroList,   \* of cells
    gcPhase, cur, fault, collected,
    rt, strings, symbols, atoms, classes, ret,      \* of atoms
    shapes, seen, steps,                            \* of shapes
    map, each, clear, log, pos, mapFault, stranded, given     \* of maps

Conv == INSTANCE Conversions
Enc == INSTANCE Encoding
Cell == INSTANCE CycleGC WITH phase <- gcPhase
Atom == INSTANCE Atoms WITH MaxRefs <- MaxHeld
Shape == INSTANCE Shapes WITH Values <- Contents, heap <- shapes
Map == INSTANCE MapRecords WITH m <- map, fault <- mapFault

convVars == <<step, dart, js, back, again, input, inputLen>>
encVars == <<job, text, bytes, out, phase>>
cellVars == <<status, rc, mark, refs, roots, gcList, tmpList, zeroList,
              gcPhase, cur, fault, collected>>
atomVars == <<rt, strings, symbols, atoms, classes, ret>>
shapeVars == <<shapes, seen, steps>>
mapVars == <<map, each, clear, log, pos, mapFault, stranded, given>>
bridgeVars == <<hookVars, refVars, convVars, encVars, vars>>
memoryVars == <<cellVars, atomVars, shapeVars, mapVars>>
allVars == <<unit, bridgeVars, memoryVars>>

Parked == "parked"

ConvParked ==
    /\ step = Parked /\ dart = Parked /\ js = Parked /\ back = Parked
    /\ again = Parked /\ input = Parked /\ inputLen = Parked
EncParked ==
    /\ job = Parked /\ text = Parked /\ bytes = Parked /\ out = Parked
    /\ phase = Parked
IntrParked == Init /\ uses = {}

CellParked ==
    /\ status = Parked /\ rc = Parked /\ mark = Parked /\ refs = Parked
    /\ roots = Parked /\ gcList = Parked /\ tmpList = Parked
    /\ zeroList = Parked /\ gcPhase = Parked /\ cur = Parked
    /\ fault = Parked /\ collected = Parked
AtomParked ==
    /\ rt = Parked /\ strings = Parked /\ symbols = Parked
    /\ atoms = Parked /\ classes = Parked /\ ret = Parked
MapParked ==
    /\ map = Parked /\ each = Parked /\ clear = Parked /\ log = Parked
    /\ pos = Parked /\ mapFault = Parked /\ stranded = Parked
    /\ given = Parked
BridgeParked == ConvParked /\ EncParked /\ IntrParked
MemoryParked == CellParked /\ AtomParked /\ MapParked

MCInit ==
    /\ HooksInit /\ RefsInit /\ Shape!Init
    /\ \/ unit \in {"hooks", "refs"} /\ BridgeParked /\ MemoryParked
       \/ /\ unit = "conversions" /\ Conv!ConvInit
          /\ EncParked /\ IntrParked /\ MemoryParked
       \/ /\ unit = "encoding" /\ Enc!Init
          /\ ConvParked /\ IntrParked /\ MemoryParked
       \/ /\ unit = "interrupts" /\ Init
          /\ ConvParked /\ EncParked /\ MemoryParked
       \/ /\ unit = "cells" /\ Cell!Init
          /\ BridgeParked /\ AtomParked /\ MapParked
       \/ /\ unit = "atoms" /\ Atom!Init
          /\ BridgeParked /\ CellParked /\ MapParked
       \/ /\ unit = "shapes"
          /\ BridgeParked /\ CellParked /\ AtomParked /\ MapParked
       \/ /\ unit = "maps" /\ Map!Init
          /\ BridgeParked /\ CellParked /\ AtomParked

MCNext ==
    \/ /\ unit = "hooks" /\ HooksNext
       /\ UNCHANGED <<unit, memoryVars, refVars, convVars, encVars, vars>>
    \/ /\ unit = "refs" /\ RefsNext
       /\ UNCHANGED <<unit, memoryVars, hookVars, convVars, encVars, vars>>
    \/ /\ unit = "conversions" /\ Conv!ConvNext
       /\ UNCHANGED <<unit, memoryVars, hookVars, refVars, encVars, vars>>
    \/ /\ unit = "encoding" /\ Enc!Next
       /\ UNCHANGED <<unit, memoryVars, hookVars, refVars, convVars, vars>>
    \/ /\ unit = "interrupts" /\ Next
       /\ UNCHANGED <<unit, memoryVars, hookVars, refVars, convVars, encVars>>
    \/ /\ unit = "cells" /\ Cell!Next
       /\ UNCHANGED <<unit, bridgeVars, atomVars, shapeVars, mapVars>>
    \/ /\ unit = "atoms" /\ Atom!Next
       /\ UNCHANGED <<unit, bridgeVars, cellVars, shapeVars, mapVars>>
    \/ /\ unit = "shapes" /\ Shape!Next
       /\ UNCHANGED <<unit, bridgeVars, cellVars, atomVars, mapVars>>
    \/ /\ unit = "maps" /\ Map!Next
       /\ UNCHANGED <<unit, bridgeVars, cellVars, atomVars, shapeVars>>

MCSpec == MCInit /\ [][MCNext]_allVars

\* Objects other than the global one are interchangeable, and so are wrappers,
\* cells that hold values, and the keys and records of a map.
\* Components may be given the same model values: only one of them moves.
Symmetry ==
    Permutations(Objects \ {Global}) \cup Permutations(Wrappers)
        \cup Permutations(Values) \cup Permutations(Keys)
        \cup Permutations(Addresses) \cup Permutations(Iters)

-----------------------------------------------------------------------------
(* Correctness. *)

\* engine.dart, toJSVal and fromJSVal: what comes back to either side is what
\* set out exactly for the values that Survives and Echoes describe, elements
\* keep their index, and only values of unsupported types throw.
ValuesCross ==
    unit = "conversions" =>
        /\ Conv!ConvTypeOK
        /\ Conv!RoundTripExactly /\ Conv!EchoExactly /\ Conv!IndexesKept
        /\ Conv!JavaScriptSeesTheInt /\ Conv!ThrowsOnUnsupported

\* extensions.dart: ASCII texts arrive in a script as they were sent by
\* callJSEncode, console output shows strings without their quotes, and hex
\* texts are the number they write.
TextsCross ==
    unit = "encoding" =>
        Enc!AsciiArrives /\ Enc!ConsoleShowsStrings /\ Enc!HexIsTheNumber

\* JS_RunGC, free_zero_refcount: what the program can reach is never freed,
\* a collection frees everything else, counts are exact between collections,
\* and no assertion of the collector fails.
HeapSound ==
    unit = "cells" =>
        /\ Cell!GCTypeOK
        /\ Cell!ReachableStaysAlive /\ Cell!CollectionIsComplete
        /\ Cell!CountsExact /\ Cell!NoFault

\* JS_NewAtom and JS_FreeAtom: counts are exact, the structures that share the
\* array agree, a key has one atom, and an atom that is kept goes on naming
\* the same thing while others come and go.
AtomsAgree ==
    /\ [](unit = "atoms" =>
            /\ Atom!AtomsTypeOK /\ Atom!ReferencesExact /\ Atom!TablesAgree
            /\ Atom!OneAtomPerKey /\ Atom!ArrayIndexesRecognised)
    /\ [][unit = "atoms" => Atom!KeptAtomsKeepTheirName]_allVars

\* js_clone_shape, add_property and their like: whatever objects share, the
\* program sees objects that own their prototype and their properties; counts
\* are exact, the table finds a shape by what it holds, and the arrays of
\* values have the size their shape says.
ObjectsAreTheirOwn ==
    /\ Shape!Plain!Init
    /\ [](unit = "shapes" => /\ Shape!ShapesTypeOK /\ Shape!CountsExact
                             /\ Shape!TableIsTrue /\ Shape!ArraysFit)
    /\ [][unit = "shapes" => [Shape!Plain!Next]_seen]_allVars

\* js_map_forEach, js_map_iterator_next and map_delete_record: walks deliver
\* what the language says while entries come and go, the counts of records are
\* exact, and a freed record is read only by a walk that freed it itself, with
\* the last reference to an iterator of the map that stood on it.
MapWalksAsLanguage ==
    unit = "maps" =>
        /\ Map!WalksLikeTheLanguage /\ Map!FreedOnlyByItself
        /\ Map!RecordCounts /\ Map!EntriesInOrder
=============================================================================
