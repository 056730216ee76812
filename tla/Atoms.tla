-------------------------------- MODULE Atoms --------------------------------
(***************************************************************************)
(* The atom table of QuickJS: property names, symbols and private names    *)
(* are small integers.  An integer above TagInt is a number that needs no  *)
(* entry; any other is an index of rt->atom_array, whose entry points at   *)
(* the JSString that holds the name.  The names are found through a hash   *)
(* table chained through the strings themselves, free entries form a list  *)
(* inside the array, and one reference count is shared by the string       *)
(* values and by the atoms that use the same JSString.                     *)
(*                                                                         *)
(* The widths are scaled: UIntMod stands for 2^32, TagInt for 2^31,        *)
(* AtomMax for JS_ATOM_MAX, HashMod for 2^30.  A character is a number and *)
(* the digits are 0..9.  `rt' is the part of JSRuntime that is modelled,   *)
(* the other variables are the references the rest of the program holds.   *)
(***************************************************************************)
EXTENDS Naturals, Sequences, FiniteSets, SequencesExt, FiniteSetsExt, Functions

CONSTANTS
    UIntMod, TagInt, AtomMax, HashMod,
    FirstSize,      \* size of the first atom array (211)
    FirstHash,      \* size of the first hash table (256)
    Classes,        \* class identifiers a host registers
    MaxStr,         \* bound: strings alive at once
    MaxRefs         \* bound: references the program holds

VARIABLES
    rt,         \* [str, arr, hash, free, count]
    strings,    \* how many string values of the program use each JSString
    symbols,    \* how many symbol values of the program use each JSString
    atoms,      \* how many references the program holds on each atom index
    classes,    \* class_array: the atom that names each registered class
    ret         \* the last atom asked for: its kind, its text, the answer

vars == <<rt, strings, symbols, atoms, classes, ret>>

NoType == 0
StringType == 1
GlobalSymbol == 2
Symbol == 3
Private == 4
HashSymbol == 0
HashPrivate == 1
AtomNull == 0
(* quickjs-atom.h: [text, type] of atoms 1 .. JS_ATOM_END - 1.  Letters are *)
(* 10, 11, ...                                                             *)
Predefined == <<[text |-> <<>>, type |-> StringType],
                [text |-> <<10>>, type |-> StringType],
                [text |-> <<12>>, type |-> Private],
                [text |-> <<13>>, type |-> Symbol]>>
(* The strings that the program makes.  With TagInt = 64 the text 63 is    *)
(* the largest tagged integer, 64 and 126 are array indexes kept as        *)
(* strings, 127 is no array index and 128 does not fit in 32 bits.         *)
Texts == {<<>>, <<10>>, <<11>>, <<6, 3>>, <<6, 4>>, <<1, 2, 6>>, <<1, 2, 7>>}
AtomEnd == Len(Predefined) + 1
Ids == 1 .. MaxStr
Indexes == 1 .. AtomMax

IsConst(a) == a < AtomEnd
IsTaggedInt(a) == a >= TagInt
FromUInt32(n) == n + TagInt
ToUInt32(a) == a - TagInt
IsDigit(c) == c < 10

Digits(n) ==
    LET k == CHOOSE j \in 1 .. 10 : n < 10 ^ j /\ (j = 1 \/ n >= 10 ^ (j - 1))
    IN  [i \in 1 .. k |-> (n \div 10 ^ (k - i)) % 10]

(* is_num_string: -1 of the source is "not a number"; here it is UIntMod.  *)
NotNum == UIntMod

RECURSIVE NumFrom(_, _)
NumFrom(n, t) ==
    IF t = <<>> \/ n = NotNum THEN n
    ELSE NumFrom(IF IsDigit(Head(t)) /\ n * 10 + Head(t) < UIntMod THEN n * 10 + Head(t) ELSE NotNum, Tail(t))
IsNumString(t) ==
    CASE t = <<>> \/ Len(t) > Len(Digits(UIntMod - 1)) \/ ~IsDigit(t[1]) -> NotNum
      [] t # <<>> /\ t[1] = 0 -> IF Len(t) = 1 THEN 0 ELSE NotNum
      [] OTHER -> NumFrom(t[1], Tail(t))

RECURSIVE HashString(_, _)
HashString(t, h) == IF t = <<>> THEN h ELSE HashString(Tail(t), (h * 263 + Head(t)) % HashMod)

(***************************************************************************)
(* Operations on the runtime.                                              *)
(***************************************************************************)
Bucket(r, h) == (h % Len(r.hash)) + 1

(* The chain that starts at atom index i, in order.                        *)
RECURSIVE Chain(_, _)
Chain(r, i) == IF i = AtomNull THEN <<>> ELSE <<i>> \o Chain(r, r.str[r.arr[i].str].next)

Alloc(r, text, wide) ==
    LET s == Min(Ids \ DOMAIN r.str)
        p == [ref |-> 1, type |-> NoType, hash |-> 0, next |-> 0,
              text |-> text, wide |-> wide]
    IN  [rt |-> [r EXCEPT !.str = (s :> p) @@ @], id |-> s]

Release(r, s) == [r EXCEPT !.str = Restrict(@, DOMAIN @ \ {s})]

Up(r, s) == [r EXCEPT !.str[s].ref = @ + 1]
Down(r, s) == [r EXCEPT !.str[s].ref = @ - 1]

LinkHash(r, i, h) ==
    LET b == Bucket(r, h)
    IN  [r EXCEPT !.str[r.arr[i].str].next = r.hash[b], !.hash[b] = i]

RECURSIVE LinkAll(_, _)
LinkAll(r, is) ==
    IF is = <<>> THEN r ELSE LinkAll(LinkHash(r, Head(is), r.str[r.arr[Head(is)].str].hash), Tail(is))

(* Mutant of ResizeAtomHash: the chains are copied bucket by bucket.       *)
ResizeAtomHash(r, n) ==
    LET all == FlattenSeq([b \in 1 .. Len(r.hash) |-> Chain(r, r.hash[b])])
    IN  LinkAll([r EXCEPT !.hash = [b \in 1 .. n |-> AtomNull]], all)

(* js_get_atom_index: a symbol keeps its index in hash_next, another atom  *)
(* is looked for in its chain.                                             *)
IndexIn(r, s, c) == CHOOSE k \in 1 .. Len(c) : r.arr[c[k]].str = s
ChainOf(r, s) == Chain(r, r.hash[Bucket(r, r.str[s].hash)])
GetAtomIndex(r, s) ==
    IF r.str[s].type = Symbol THEN r.str[s].next
    ELSE CHOOSE i \in ToSet(ChainOf(r, s)) : r.arr[i].str = s

UnlinkAfter(r, s, i) == [r EXCEPT !.str[r.arr[i].str].next = r.str[s].next]
UnlinkFirst(r, s) == [r EXCEPT !.hash[Bucket(r, r.str[s].hash)] = r.str[s].next]
(* Mutant of UnlinkNth: the head of the chain is not looked at.            *)
UnlinkNth(r, s, c, k) == IF k = 1 THEN UnlinkFirst(r, s) ELSE UnlinkAfter(r, s, c[k - 1])
UnlinkFrom(r, s, c) == UnlinkNth(r, s, c, IndexIn(r, s, c))
UnlinkHash(r, s) == UnlinkFrom(r, s, ChainOf(r, s))

(* Mutants of FreeSlot: the entry is not put back in the free list, or it  *)
(* goes on pointing at the string.                                         *)
FreeForgetsSlot(r, s, i) ==
    Release([r EXCEPT !.arr[i] = [str |-> 0, next |-> r.free], !.count = @ - 1], s)
FreeSlot(r, s, i) ==
    Release([r EXCEPT !.arr[i] = [str |-> 0, next |-> r.free], !.free = i, !.count = @ - 1], s)
FreeAtomStruct(r, s) ==
    FreeSlot(IF r.str[s].type = Symbol THEN r ELSE UnlinkHash(r, s), s, GetAtomIndex(r, s))

(* Mutant of FreeUnused: the other references are not looked at.           *)
FreeUnused(r, s) ==
    CASE r.str[s].ref > 0 -> r
      [] r.str[s].ref = 0 /\ r.str[s].type # NoType -> FreeAtomStruct(r, s)
      [] OTHER -> Release(r, s)
FreeString(r, s) == FreeUnused(Down(r, s), s)

DupAtom(r, a) == IF IsConst(a) \/ IsTaggedInt(a) THEN r ELSE Up(r, r.arr[a].str)

FreeAtom(r, a) == IF IsConst(a) \/ IsTaggedInt(a) THEN r ELSE FreeString(r, r.arr[a].str)

(* Room for more atoms: the array grows by half and the new entries become *)
(* the free list.  Entry 0 is taken once and for all.                      *)
Grow(r) ==
    LET old == Cardinality(DOMAIN r.arr)
        new == Max({FirstSize, (old * 3) \div 2})
        start == Max({1, old})
        free(i) == [str |-> 0, next |-> IF i = new - 1 THEN 0 ELSE i + 1]
    IN  [r EXCEPT !.arr = [i \in 0 .. new - 1 |->
                              IF i < old THEN r.arr[i]
                              ELSE IF i = 0 THEN [str |-> 0, next |-> 0]
                              ELSE free(i)],
                  !.free = start,
                  !.count = @ + (IF old = 0 THEN 1 ELSE 0)]

CanGrow(r) == Max({FirstSize, (Cardinality(DOMAIN r.arr) * 3) \div 2}) <= AtomMax

(* The registered atom of this text and type, or AtomNull.                 *)
FirstOrNull(c) == IF c = <<>> THEN AtomNull ELSE c[1]
Registered(r, text, type, h, narrow) ==
    LET match(i) == LET p == r.str[r.arr[i].str]
                    IN  /\ p.hash = h /\ p.type = type /\ p.text = text
                        /\ narrow => ~p.wide
    IN  FirstOrNull(SelectSeq(Chain(r, r.hash[Bucket(r, h)]), match))

(* Put string s (0: a symbol without description) in a free entry, as it   *)
(* is or, when it is in use as another atom, as a copy.                    *)
ResizeIfFull(r) == IF r.count >= 2 * Len(r.hash) THEN ResizeAtomHash(r, 2 * Len(r.hash)) ELSE r
Fill(r, s, type, h, i) ==
    LET e == [r EXCEPT !.free = r.arr[i].next,
                       !.arr[i] = [str |-> s, next |-> 0],
                       !.str[s].hash = h, !.str[s].next = i, !.str[s].type = type,
                       !.count = @ + 1]
    IN  [rt |-> IF type = Symbol THEN e ELSE ResizeIfFull(LinkHash(e, i, h)), atom |-> i]
CopyFreed(n, s) == [n EXCEPT !.rt = FreeString(n.rt, s)]
OwnString(r, s) ==
    CASE s = 0 -> Alloc(r, <<>>, TRUE)
      [] s # 0 /\ r.str[s].type = NoType -> [rt |-> r, id |-> s]
      [] OTHER -> CopyFreed(Alloc(r, r.str[s].text, r.str[s].wide), s)
EnterOwned(n, type, h) == Fill(n.rt, n.id, type, h, n.rt.free)
Enter(r, s, type, h) == EnterOwned(OwnString(IF r.free = 0 THEN Grow(r) ELSE r, s), type, h)

Full(r, s) ==
    [rt |-> IF s = 0 THEN r ELSE FreeString(r, s), atom |-> AtomNull]

(* __JS_NewAtom for the two kinds that are found again by their text.      *)
NewOrRegistered(r, s, type, h, f) ==
    CASE f # AtomNull -> [rt |-> FreeString(DupAtom(r, f), s), atom |-> f]
      [] f = AtomNull /\ r.free = 0 /\ ~CanGrow(r) -> Full(r, s)
      [] OTHER -> Enter(r, s, type, h)
(* Mutant of Itself: a predefined atom keeps the reference it was given.   *)
Itself(r, s, i) == [rt |-> IF IsConst(i) THEN Down(r, s) ELSE r, atom |-> i]
NewHashedAtom(r, s, type) ==
    LET h == HashString(r.str[s].text, type)
    IN  IF r.str[s].type = type THEN Itself(r, s, GetAtomIndex(r, s))
        ELSE NewOrRegistered(r, s, type, h, Registered(r, r.str[s].text, type, h, FALSE))

NewAtom(r, s, type) ==
    IF type < Symbol THEN NewHashedAtom(r, s, type)
    ELSE IF r.free = 0 /\ ~CanGrow(r) THEN Full(r, s)
    ELSE Enter(r, s, Symbol, IF type = Symbol THEN HashSymbol ELSE HashPrivate)

FindAtom(r, text) ==
    Registered(r, text, StringType, HashString(text, StringType), TRUE)

(* Mutant of NewAtomNum: the largest tagged integer is left out.           *)
NewAtomNum(r, s, n) ==
    IF n <= TagInt - 1 THEN [rt |-> FreeString(r, s), atom |-> FromUInt32(n)] ELSE NewAtom(r, s, StringType)
NewAtomStr(r, s) == NewAtomNum(r, s, IsNumString(r.str[s].text))

(* js_new_string8: the empty string is the predefined one.                 *)
EmptyString == CHOOSE i \in 1 .. AtomEnd - 1 : Predefined[i].text = <<>>

NewString(r, text) ==
    IF text = <<>> THEN [rt |-> Up(r, r.arr[EmptyString].str), id |-> r.arr[EmptyString].str]
    ELSE Alloc(r, text, FALSE)

NewAtomOf(n) == NewAtomStr(n.rt, n.id)
NewAtomLen(r, text) ==
    LET f == IF text = <<>> \/ ~IsDigit(text[1]) THEN FindAtom(r, text) ELSE AtomNull
    IN  IF f # AtomNull THEN [rt |-> DupAtom(r, f), atom |-> f] ELSE NewAtomOf(NewString(r, text))

NewAtomAs(n, type) == NewAtom(n.rt, n.id, type)
NewAtomUInt32(r, n) ==
    IF n <= TagInt - 1 THEN [rt |-> r, atom |-> FromUInt32(n)]
    ELSE NewAtomAs(Alloc(r, Digits(n), FALSE), StringType)

(* Mutant of IsArrayIndex: 2^32 - 1 is taken for one.                      *)
IsArrayIndex(r, a) ==
    IF IsTaggedInt(a) THEN ToUInt32(a)
    ELSE LET p == r.str[r.arr[a].str]
         IN  IF p.type = StringType /\ IsNumString(p.text) # UIntMod - 1
             THEN IsNumString(p.text) ELSE NotNum

(***************************************************************************)
(* JS_InitAtoms, and what the program can do.                              *)
(***************************************************************************)
EmptyRuntime ==
    [str |-> <<>>, arr |-> <<>>, hash |-> [b \in 1 .. FirstHash |-> AtomNull],
     free |-> 0, count |-> 0]

NewAtomInit(r, text, type) == NewAtomAs(Alloc(r, text, FALSE), type)

RECURSIVE InitFrom(_, _)
InitFrom(r, ds) == IF ds = <<>> THEN r ELSE InitFrom(NewAtomInit(r, Head(ds).text, Head(ds).type).rt, Tail(ds))
InitAtoms == InitFrom(EmptyRuntime, Predefined)

NoRet == [type |-> NoType, text |-> <<>>, atom |-> AtomNull]

Init ==
    /\ rt = InitAtoms
    /\ strings = [s \in Ids |-> 0]
    /\ symbols = [s \in Ids |-> 0]
    /\ atoms = [a \in Indexes |-> 0]
    /\ classes = <<>>
    /\ ret = NoRet

Held == SumFunction(strings) + SumFunction(symbols) + SumFunction(atoms)

(* Bounds of the instance: what the program holds, and room in the heap.   *)
MayHold == Held < MaxRefs /\ Cardinality(DOMAIN rt.str) + 2 <= MaxStr

Give(f, x) == [f EXCEPT ![x] = @ + 1]
Take(f, x) == [f EXCEPT ![x] = @ - 1]
Hold(a) == IF a \in Indexes THEN Give(atoms, a) ELSE atoms
Asked(type, text, a) == ret' = [type |-> type, text |-> text, atom |-> a]

GotString(n) == rt' = n.rt /\ strings' = Give(strings, n.id)
GotAtom(n, type, text) == rt' = n.rt /\ atoms' = Hold(n.atom) /\ Asked(type, text, n.atom)
GotSymbol(n) ==
    /\ rt' = n.rt
    /\ symbols' = IF n.atom = AtomNull THEN symbols ELSE Give(symbols, n.rt.arr[n.atom].str)

MakeString(text) ==
    /\ MayHold
    /\ GotString(NewString(rt, text))
    /\ ret' = NoRet
    /\ UNCHANGED <<symbols, atoms, classes>>

(* A property key from a string value, which is given away.                *)
KeyOfString(s) ==
    /\ strings[s] > 0 /\ MayHold
    /\ GotAtom(NewAtomStr(rt, s), StringType, rt.str[s].text)
    /\ strings' = Take(strings, s)
    /\ UNCHANGED <<symbols, classes>>

KeyOfBytes(text) ==
    /\ MayHold
    /\ GotAtom(NewAtomLen(rt, text), StringType, text)
    /\ UNCHANGED <<strings, symbols, classes>>

KeyOfIndex(n) ==
    /\ MayHold
    /\ GotAtom(NewAtomUInt32(rt, n), StringType, Digits(n))
    /\ UNCHANGED <<strings, symbols, classes>>

SymbolAtom(i) == [rt |-> DupAtom(rt, i), atom |-> i]
KeyOfSymbol(s) ==
    /\ symbols[s] > 0 /\ MayHold
    /\ GotAtom(SymbolAtom(GetAtomIndex(rt, s)), rt.str[s].type, rt.str[s].text)
    /\ UNCHANGED <<strings, symbols, classes>>

(* js_symbol_constructor and JS_NewSymbolFromAtom (a private name): the    *)
(* description is a string of the program, of which JS_ToString gives      *)
(* another reference; s = 0 is no description.                             *)
MakeSymbol(s, type) ==
    /\ s # 0 => strings[s] > 0
    /\ MayHold
    /\ GotSymbol(NewAtom(IF s = 0 THEN rt ELSE Up(rt, s), s, type))
    /\ ret' = NoRet
    /\ UNCHANGED <<strings, atoms, classes>>

GotGlobal(n, text) == GotSymbol(n) /\ Asked(GlobalSymbol, text, n.atom)
SymbolFor(s) ==
    /\ strings[s] > 0 /\ MayHold
    /\ GotGlobal(NewAtom(Up(rt, s), s, GlobalSymbol), rt.str[s].text)
    /\ UNCHANGED <<strings, atoms, classes>>

SymbolKeyFor(s) ==
    /\ symbols[s] > 0 /\ MayHold
    /\ rt.str[s].type = GlobalSymbol
    /\ rt' = Up(rt, s)
    /\ strings' = Give(strings, s)
    /\ ret' = NoRet
    /\ UNCHANGED <<symbols, atoms, classes>>

(* js_symbol_get_description; a symbol made without one answers undefined. *)
Description(s) ==
    /\ symbols[s] > 0 /\ MayHold
    /\ ~(rt.str[s].text = <<>> /\ rt.str[s].wide)
    /\ LET p == rt.arr[GetAtomIndex(rt, s)].str
       IN  rt' = Up(rt, p) /\ strings' = Give(strings, p)
    /\ ret' = NoRet
    /\ UNCHANGED <<symbols, atoms, classes>>

(* __JS_AtomToValue on an atom of the program.                             *)
AtomToValue(a, forceString) ==
    /\ atoms[a] > 0 /\ MayHold
    /\ LET p == rt.str[rt.arr[a].str]
           none == p.text = <<>> /\ p.wide
           s == IF forceString /\ p.type # StringType /\ none
                THEN rt.arr[EmptyString].str ELSE rt.arr[a].str
       IN  /\ rt' = Up(rt, s)
           /\ IF p.type = StringType \/ forceString
              THEN strings' = Give(strings, s) /\ UNCHANGED symbols
              ELSE symbols' = Give(symbols, s) /\ UNCHANGED strings
    /\ ret' = NoRet
    /\ UNCHANGED <<atoms, classes>>

DropString(s) ==
    /\ strings[s] > 0
    /\ rt' = FreeString(rt, s)
    /\ strings' = Take(strings, s)
    /\ ret' = NoRet
    /\ UNCHANGED <<symbols, atoms, classes>>

DropSymbol(s) ==
    /\ symbols[s] > 0
    /\ rt' = FreeString(rt, s)
    /\ symbols' = Take(symbols, s)
    /\ ret' = NoRet
    /\ UNCHANGED <<strings, atoms, classes>>

DropAtom(a) ==
    /\ atoms[a] > 0
    /\ rt' = FreeAtom(rt, a)
    /\ atoms' = Take(atoms, a)
    /\ ret' = NoRet
    /\ UNCHANGED <<strings, symbols, classes>>

(* JS_NewClass: the name is found or made, kept by the class, given back.  *)
FoundOrNew(f, text) ==
    IF f = AtomNull THEN NewAtomInit(rt, text, StringType) ELSE [rt |-> DupAtom(rt, f), atom |-> f]
NameClass(c, n) ==
    /\ n.atom # AtomNull
    /\ rt' = FreeAtom(DupAtom(n.rt, n.atom), n.atom)
    /\ classes' = (c :> n.atom) @@ classes
NewClass(c, text) ==
    /\ c \notin DOMAIN classes
    /\ MayHold
    /\ NameClass(c, FoundOrNew(FindAtom(rt, text), text))
    /\ ret' = NoRet
    /\ UNCHANGED <<strings, symbols, atoms>>

Next ==
    \/ \E t \in Texts : MakeString(t) \/ KeyOfBytes(t)
    \/ \E t \in Texts, c \in Classes : t # <<>> /\ ~IsDigit(t[1]) /\ NewClass(c, t)
    \/ \E n \in {IsNumString(t) : t \in Texts} \ {NotNum} : KeyOfIndex(n)
    \/ \E s \in Ids : \/ KeyOfString(s) \/ KeyOfSymbol(s)
                      \/ SymbolFor(s) \/ SymbolKeyFor(s) \/ Description(s)
                      \/ DropString(s) \/ DropSymbol(s)
    \/ \E s \in Ids \cup {0} : MakeSymbol(s, Symbol)
    \/ \E s \in Ids : MakeSymbol(s, Private)
    \/ \E a \in Indexes : \/ DropAtom(a)
                          \/ \E force \in BOOLEAN : AtomToValue(a, force)

Spec == Init /\ [][Next]_vars

-----------------------------------------------------------------------------
Live == {i \in DOMAIN rt.arr \ {AtomNull} : rt.arr[i].str # 0}

AtomsTypeOK ==
    /\ DOMAIN rt.str \subseteq Ids
    /\ \A s \in DOMAIN rt.str : rt.str[s].type \in NoType .. Symbol
    /\ \A i \in Live : rt.arr[i].str \in DOMAIN rt.str
    /\ DOMAIN strings = Ids /\ DOMAIN symbols = Ids /\ DOMAIN atoms = Indexes

(* A string, as value, symbol, key or class name at once, is kept by one   *)
(* count: exactly one for every reference somebody holds and one for being *)
(* predefined.  A string without references is gone, so that only the      *)
(* predefined atoms are left when everything has been given back           *)
(* (JS_FreeRuntime: "only the atoms defined in JS_InitAtoms() should be    *)
(* left").                                                                 *)
ReferencesExact ==
    \A s \in Ids :
        LET at == {i \in Live : rt.arr[i].str = s}
            held == MapThenSumSet(LAMBDA i : IF IsConst(i) THEN 1 ELSE atoms[i], at)
            named == Cardinality({c \in DOMAIN classes :
                                     classes[c] \in at /\ ~IsConst(classes[c])})
            n == strings[s] + symbols[s] + held + named
        IN  /\ s \in DOMAIN rt.str <=> n > 0
            /\ s \in DOMAIN rt.str => rt.str[s].ref = n

(* The four structures that share one array agree: every hashed atom is on *)
(* the chain of its bucket and on no other, every symbol knows its index,  *)
(* the free list runs through exactly the unused entries, and the count    *)
(* that triggers the next resize is the number of used ones.               *)
TablesAgree ==
    LET chains == FlattenSeq([b \in 1 .. Len(rt.hash) |-> Chain(rt, rt.hash[b])])
        nth[n \in 1 .. AtomMax] == IF n = 1 THEN rt.free ELSE rt.arr[nth[n - 1]].next
        free == SelectSeq([n \in 1 .. AtomMax |-> nth[n]], LAMBDA i : i # 0)
    IN  /\ IsInjective(chains)
        /\ ToSet(chains) = {i \in Live : rt.str[rt.arr[i].str].type \in {StringType, GlobalSymbol}}
        /\ \A i \in ToSet(chains) :
               i \in ToSet(Chain(rt, rt.hash[Bucket(rt, rt.str[rt.arr[i].str].hash)]))
        /\ \A i \in Live : rt.str[rt.arr[i].str].type = Symbol => rt.str[rt.arr[i].str].next = i
        /\ IsInjective(free)
        /\ ToSet(free) = (DOMAIN rt.arr \ {AtomNull}) \ Live
        /\ rt.count = Cardinality(Live) + 1

(* One key, one atom, however it was asked for: no two entries hold the    *)
(* same name, no entry holds a number small enough to be a tagged integer, *)
(* and the atom that was answered names what was asked (or the table was   *)
(* full).                                                                  *)
OneAtomPerKey ==
    LET p(i) == rt.str[rt.arr[i].str]
        hashed == {i \in Live : p(i).type \in {StringType, GlobalSymbol}}
        answers(a) == IF IsTaggedInt(a) THEN ret.type = StringType /\ ret.text = Digits(ToUInt32(a))
                      ELSE p(a).type = ret.type /\ p(a).text = ret.text
    IN  /\ \A i, j \in hashed : p(i).type = p(j).type /\ p(i).text = p(j).text => i = j
        /\ \A i \in hashed : p(i).type = StringType =>
               \A n \in 0 .. TagInt - 1 : p(i).text # Digits(n)
        /\ ret.atom # AtomNull => answers(ret.atom)

(* JS_AtomIsArrayIndex recognises exactly the decimal forms of             *)
(* 0 .. 2^32 - 2, as ECMAScript's array index.                             *)
ArrayIndexesRecognised ==
    \A i \in Live :
        LET p == rt.str[rt.arr[i].str]
        IN  IsArrayIndex(rt, i) =
              IF p.type = StringType /\ \E n \in 0 .. UIntMod - 2 : p.text = Digits(n)
              THEN CHOOSE n \in 0 .. UIntMod - 2 : p.text = Digits(n)
              ELSE NotNum

(* An atom that somebody keeps hold of goes on naming the same thing while *)
(* other names come and go and the tables are rebuilt.                     *)
KeptAtomsKeepTheirName ==
    \A a \in Indexes :
        atoms[a] > 0 /\ atoms'[a] > 0 =>
            /\ rt'.arr[a].str = rt.arr[a].str
            /\ rt'.str[rt.arr[a].str].type = rt.str[rt.arr[a].str].type
            /\ rt'.str[rt.arr[a].str].text = rt.str[rt.arr[a].str].text
=============================================================================
