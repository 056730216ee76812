----------------------------- MODULE Conversions ------------------------------
(***************************************************************************)
(* What a value becomes when it crosses between Dart and JavaScript:       *)
(* toJSVal with createJSArray and createJSObject on the way in, fromJSVal  *)
(* with JSON on the way out, and the text of a script given to eval.       *)
(*                                                                         *)
(* Widths are scaled: Bits32, Bits53 and Bits64 stand for 32, 53 and 64.   *)
(* A double is written as its number of halves, so that integral and       *)
(* fractional ones both occur; NaN and -0.0 are values of their own.  A    *)
(* string is a sequence of kinds of characters.                            *)
(***************************************************************************)
EXTENDS Integers, Sequences, FiniteSetsExt

CONSTANTS
    Bits32, Bits53, Bits64      \* scaled widths, increasing

Range32 == -(2 ^ (Bits32 - 1)) .. 2 ^ (Bits32 - 1) - 1
Range64 == -(2 ^ (Bits64 - 1)) .. 2 ^ (Bits64 - 1) - 1

\* Characters: ASCII, U+0000, one of two UTF-8 bytes, one outside the basic
\* plane, an unpaired surrogate, and U+FFFD.
Chars == {"a", "NUL", "e2", "e4", "lone", "repl"}
NullChar == "NUL"

-----------------------------------------------------------------------------
(* Values. A Dart value has a field type, a JavaScript value a field tag.  *)

DInt(n) == [type |-> "int", int |-> n]
DDouble(h) == [type |-> "double", halves |-> h]
DNaN == [type |-> "double", special |-> "NaN"]
DNegZero == [type |-> "double", special |-> "-0.0"]
DBool(b) == [type |-> "bool", bool |-> b]
DString(s) == [type |-> "String", chars |-> s]
DList(l) == [type |-> "List", list |-> l]
DMap(m) == [type |-> "Map", map |-> m]
DHandler == [type |-> "DartCHandler"]
DNull == [type |-> "Null"]
\* A JSValue wrapper around the JavaScript value v.
DWrapper(v) == [type |-> "JSValue", wrapped |-> v]

JInt(n) == [tag |-> "int", int |-> n]
JFloat(h) == [tag |-> "float64", halves |-> h]
JNaN == [tag |-> "float64", special |-> "NaN"]
JNegZero == [tag |-> "float64", special |-> "-0.0"]
JBool(b) == [tag |-> "bool", bool |-> b]
JString(s) == [tag |-> "string", chars |-> s]
JArray(e) == [tag |-> "array", elems |-> e]
JObject(p) == [tag |-> "object", props |-> p]
JFunction == [tag |-> "function"]
JUndefined == [tag |-> "undefined"]
JNull == [tag |-> "null"]
JSymbol == [tag |-> "symbol"]
\* An index of an array that has no property.
Hole == [tag |-> "hole"]

\* A Dart exception, on either side.
Throw == [tag |-> "throw", type |-> "throw"]

-----------------------------------------------------------------------------
(* Numbers and strings crossing the FFI. *)

\* The FFI passes the low bits of a Dart int as an int32_t.
Wrap32(n) == ((n + 2 ^ (Bits32 - 1)) % 2 ^ Bits32) - 2 ^ (Bits32 - 1)

Abs(n) == IF n < 0 THEN -n ELSE n

\* int64_t to double: to the nearest multiple of the quantum, ties to even.
RoundToDouble(n) ==
    LET e == Min({k \in 0 .. Bits64 : Abs(n) <= 2 ^ (Bits53 + k)})
        quantum == 2 ^ e
        down == Abs(n) \div quantum
        rest == Abs(n) % quantum
        up == IF 2 * rest > quantum \/ (2 * rest = quantum /\ down % 2 = 1)
              THEN down + 1 ELSE down
    IN IF n < 0 THEN -(up * quantum) ELSE up * quantum

NewInt32(n) == JInt(Wrap32(n))

NewInt64(n) == IF n \in Range32 THEN JInt(n) ELSE JFloat(2 * RoundToDouble(n))

\* JS_NewFloat64: a double that is an int32 becomes one; -0.0 does not.
NewFloat64(d) ==
    IF "special" \in DOMAIN d THEN [tag |-> "float64", special |-> d.special]
    ELSE IF d.halves % 2 = 0 /\ d.halves \div 2 \in Range32
         THEN JInt(d.halves \div 2)
    ELSE JFloat(d.halves)

\* Utf8Encoder replaces an unpaired surrogate; JS_NewString reads the bytes
\* up to the first zero.
UntilNull(s) ==
    LET ends == {i \in DOMAIN s : s[i] = NullChar}
    IN IF ends = {} THEN s ELSE SubSeq(s, 1, Min(ends) - 1)
Encoded(s) == [i \in DOMAIN s |-> IF s[i] = "lone" THEN "repl" ELSE s[i]]
NewString(s) == JString(UntilNull(Encoded(s)))

-----------------------------------------------------------------------------
(* Dart to JavaScript. *)

\* Elements from the first to the last one that has a property.
WithoutTrailingHoles(e) ==
    SubSeq(e, 1, Max({0} \cup {i \in DOMAIN e : e[i] # Hole}))

RECURSIVE Element(_)

CreateJSArray(l) ==
    LET e == [i \in DOMAIN l |-> Element(l[i])]
    IN IF \E i \in DOMAIN e : e[i] = Throw THEN Throw
       ELSE JArray(WithoutTrailingHoles(e))

CreateJSObject(m) ==
    LET p == [k \in DOMAIN m |-> Element(m[k])]
    IN IF \E k \in DOMAIN p : p[k] = Throw THEN Throw
       ELSE JObject([k \in {j \in DOMAIN p : p[j] # Hole} |-> p[k]])

\* The switch that createJSArray and createJSObject share: an int is always
\* made by newInt32, and there is no case for a double.
Element(d) ==
    CASE d.type = "int" -> NewInt32(d.int)
      [] d.type = "String" -> NewString(d.chars)
      [] d.type = "bool" -> JBool(d.bool)
      [] d.type = "double" -> Hole
      [] d.type = "List" -> CreateJSArray(d.list)
      [] d.type = "Map" -> CreateJSObject(d.map)
      [] d.type = "DartCHandler" -> JFunction
      [] OTHER -> Throw

ToJSVal(d) ==
    CASE d.type = "int" -> IF d.int \in Range32 THEN NewInt32(d.int)
                           ELSE NewInt64(d.int)
      [] d.type = "double" -> NewFloat64(d)
      [] d.type = "String" -> NewString(d.chars)
      [] d.type = "bool" -> JBool(d.bool)
      [] d.type = "List" -> CreateJSArray(d.list)
      [] d.type = "Map" -> CreateJSObject(d.map)
      [] OTHER -> Throw

-----------------------------------------------------------------------------
(* JavaScript to Dart. *)

\* oper_typeof: null is an "object"; only callable objects are functions.
OperTypeof(v) ==
    CASE v.tag \in {"int", "float64"} -> "number"
      [] v.tag = "bool" -> "boolean"
      [] v.tag \in {"array", "object", "null"} -> "object"
      [] OTHER -> v.tag

\* Mutant: without isInt, every number comes back as a double.
FromNumberNoIsInt(v) ==
    CASE v.tag = "int" -> DDouble(2 * v.int)
      [] v = JNaN -> DNaN
      [] v = JNegZero -> DNegZero
      [] OTHER -> DDouble(v.halves)

\* _getValueType: what typeof says of a symbol is not among its cases.
ValueType(v) ==
    LET type == OperTypeof(v)
    IN IF type \in {"number", "string", "undefined", "null", "boolean",
                    "object", "function"}
       THEN type ELSE "unknown"

\* toFloat64, isInt, toInt32. NaN is no integer and -0.0 is.
FromNumber(v) ==
    CASE v.tag = "int" -> DInt(v.int)
      [] v = JNaN -> DNaN
      [] v = JNegZero -> DInt(0)
      [] OTHER -> IF v.halves % 2 = 0 THEN DInt(Wrap32(v.halves \div 2))
                  ELSE DDouble(v.halves)

\* toDartString: the C string ends at the first zero, and an unpaired
\* surrogate is no UTF-8, which the decoder refuses.
FromString(s) ==
    LET c == UntilNull(s)
    IN IF \E i \in DOMAIN c : c[i] = "lone" THEN Throw ELSE DString(c)

\* What JSON has no text for: null in an array, left out of an object.
NoJSON(v) == v.tag \in {"undefined", "function", "symbol", "hole"}

RECURSIVE ThroughJSON(_)

JSONArray(e) ==
    DList([i \in DOMAIN e |-> IF NoJSON(e[i]) THEN DNull ELSE ThroughJSON(e[i])])

JSONObject(p) ==
    DMap([k \in {j \in DOMAIN p : ~NoJSON(p[j])} |-> ThroughJSON(p[k])])

\* jsonDecode(JSONStringify(v)): strings keep every character, escaped where
\* needed, and integers keep every digit.
ThroughJSON(v) ==
    CASE v.tag = "int" -> DInt(v.int)
      [] v = JNaN -> DNull
      [] v = JNegZero -> DInt(0)
      [] v.tag = "float64" -> IF v.halves % 2 = 0 THEN DInt(v.halves \div 2)
                              ELSE DDouble(v.halves)
      [] v.tag = "bool" -> DBool(v.bool)
      [] v.tag = "string" -> DString(v.chars)
      [] v.tag = "null" -> DNull
      [] v.tag = "array" -> JSONArray(v.elems)
      [] v.tag = "object" -> JSONObject(v.props)

\* The native tests that are true of v, by its tag.
NativeTests(v) ==
    CASE v.tag \in {"int", "float64"} -> {"isNumber"} \cup (IF v = JNaN THEN {"isNan"} ELSE {})
      [] v.tag = "string" -> {"isString"}
      [] v.tag = "bool" -> {"isBool"}
      [] v.tag = "undefined" -> {"isUndefined"}
      [] v.tag = "null" -> {"isNull"}
      [] v.tag = "symbol" -> {"isSymbol"}
      [] v.tag = "array" -> {"isObject", "isExtensible", "isArray"}
      [] v.tag = "object" -> {"isObject", "isExtensible"}
      [] v.tag = "function" -> {"isObject", "isExtensible", "isFunction"}

\* The isX() method of the wrapper: does the native test return non-zero?
Is(v, test) == test \in NativeTests(v)

\* fromJSVal: null is no "null" to oper_typeof and no object to isObject, so
\* it comes back wrapped.
FromJSVal(v) ==
    LET type == ValueType(v)
    IN CASE type = "number" -> FromNumber(v)
         [] type = "string" -> FromString(v.chars)
         [] type \in {"undefined", "null"} -> DNull
         [] type = "boolean" -> DBool(v.bool)
         [] type = "object" /\ (Is(v, "isArray") \/ Is(v, "isObject")) -> ThroughJSON(v)
         [] OTHER -> DWrapper(v)

-----------------------------------------------------------------------------
(* The source text of evalScript. *)

\* Utf8Fix.toUtf8 writes the bytes and a zero; a byte is named by the
\* character it belongs to.
Utf8Bytes(c) == CASE c \in {"a", "NUL"} -> <<c>>
                  [] c = "e2" -> <<c, c>>
                  [] c = "e4" -> <<c, c, c, c>>
                  [] OTHER -> <<"repl", "repl", "repl">>
ToUtf8(s) ==
    LET upTo[n \in 0 .. Len(s)] ==
          IF n = 0 THEN <<>> ELSE upTo[n - 1] \o Utf8Bytes(s[n])
    IN upTo[Len(s)] \o <<NullChar>>

\* String.length counts UTF-16 code units.
CodeUnits(s) == Len(s) + Cardinality({i \in DOMAIN s : s[i] = "e4"})

-----------------------------------------------------------------------------
(* The values that are sent: of every type, alone, in lists and maps, and  *)
(* nested; and the texts handed to evalScript.                             *)

Texts == {<<>>, <<"a">>, <<"e2", "a">>, <<"a", "NUL", "a">>, <<"lone", "a">>}

DartDoubles == {DDouble(h) : h \in {-17, -1, 0, 4, 5, 14, 17}} \cup {DNaN, DNegZero}
\* Inside a list or a map: one value for each case of the switch.
DartElements ==
    {DInt(3), DInt(9), DBool(TRUE), DString(<<"a">>), DString(<<"NUL">>),
     DDouble(1), DHandler, DNull, DWrapper(JSymbol)}
DartLists == {DList(l) : l \in UNION {[1 .. n -> DartElements] : n \in 0 .. 3}}
DartMaps == {DMap(m) : m \in UNION {[K -> DartElements] : K \in SUBSET {"k", "l"}}}
DartNested ==
    {DList(<<x, y>>) : x \in DartMaps, y \in {DInt(1), DDouble(1)}}
        \cup {DMap([k |-> x]) : x \in {DList(l) : l \in [1 .. 2 -> DartElements]}}

DartInputs ==
    {DInt(n) : n \in Range64} \cup DartDoubles
        \cup {DBool(b) : b \in BOOLEAN} \cup {DString(s) : s \in Texts}
        \cup {DHandler, DWrapper(JNull)} \cup DartLists \cup DartMaps \cup DartNested

JSNumbers == {JInt(n) : n \in Range32} \cup {JFloat(h) : h \in {-17, -16, 1, 16, 18}}
                 \cup {JNaN, JNegZero}
JSElements ==
    {JInt(1), JFloat(1), JFloat(16), JNaN, JBool(FALSE), JFunction, JUndefined,
     JNull, JString(<<"e2">>), JString(<<"a", "NUL">>), JString(<<"lone">>)}
JSArrays ==
    {JArray(e) : e \in UNION {[1 .. n -> JSElements] : n \in 0 .. 2}}
        \cup {JArray(<<Hole, x>>) : x \in JSElements}
JSObjects ==
    {JObject(p) : p \in UNION {[K -> JSElements] : K \in SUBSET {"k", "l"}}}
JSInputs ==
    JSNumbers \cup {JBool(TRUE), JFunction, JUndefined, JNull, JSymbol}
        \cup {JString(s) : s \in Texts} \cup JSArrays \cup JSObjects
        \cup {JArray(<<x>>) : x \in JSArrays \cup JSObjects}

Scripts == UNION {[1 .. n -> {"a", "e2", "e4"}] : n \in 0 .. 2}

-----------------------------------------------------------------------------
VARIABLES
    step,       \* "dart", "js", "back" or "again"; "script", "eval"
    dart,       \* the Dart value that set out
    js,         \* the JavaScript value
    back,       \* the Dart value that came back
    again,      \* the JavaScript value that back becomes
    input,      \* eval's input
    inputLen    \* eval's input_len

convVars == <<step, dart, js, back, again, input, inputLen>>

ConvInit ==
    /\ again = JUndefined /\ input = <<>> /\ inputLen = 0 /\ back = DNull
    /\ \/ step = "dart" /\ dart \in DartInputs /\ js = JUndefined
       \/ step = "js" /\ dart = DNull /\ js \in JSInputs
       \/ step = "script" /\ dart = DNull /\ js = JUndefined

\* Dart hands its value to JavaScript.
Send ==
    /\ step = "dart"
    /\ js' = ToJSVal(dart)
    /\ step' = IF js' = Throw THEN "threw" ELSE "js"
    /\ UNCHANGED <<dart, back, again, input, inputLen>>

\* Dart reads a JavaScript value.
Receive ==
    /\ step = "js"
    /\ back' = FromJSVal(js)
    /\ step' = IF back' = Throw THEN "threw" ELSE "back"
    /\ UNCHANGED <<dart, js, again, input, inputLen>>

\* A Dart handler returns what it was given: wrapperFunc passes a JSValue
\* on and null as undefined.
Return ==
    /\ step = "back"
    /\ again' = CASE back.type = "JSValue" -> back.wrapped
                  [] back = DNull -> JUndefined
                  [] OTHER -> ToJSVal(back)
    /\ step' = "again"
    /\ UNCHANGED <<dart, js, back, input, inputLen>>

EvalScript(s) ==
    /\ step = "script"
    /\ input' = ToUtf8(s) /\ inputLen' = CodeUnits(s)
    /\ step' = "eval"
    /\ UNCHANGED <<dart, js, back, again>>

ConvNext == Send \/ Receive \/ Return \/ \E s \in Scripts : EvalScript(s)

ConvSpec == ConvInit /\ [][ConvNext]_convVars

-----------------------------------------------------------------------------
(* Correctness. *)

RECURSIVE WellFormed(_)
WellFormed(v) ==
    CASE v.tag = "int" -> v.int \in Range32
      [] v.tag = "float64" -> v \in {JNaN, JNegZero} \/ v.halves \in Int
      [] v.tag = "array" -> \A i \in DOMAIN v.elems : WellFormed(v.elems[i])
      [] v.tag = "object" -> \A k \in DOMAIN v.props : WellFormed(v.props[k])
      [] v.tag = "string" -> \A i \in DOMAIN v.chars : v.chars[i] \in Chars
      [] v.tag = "bool" -> v.bool \in BOOLEAN
      [] OTHER -> v \in {JFunction, JUndefined, JNull, JSymbol, Hole, Throw}

ConvTypeOK ==
    /\ step \in {"dart", "js", "back", "again", "threw", "script", "eval"}
    /\ WellFormed(js) /\ WellFormed(again)
    /\ input \in Seq(Chars) /\ inputLen \in Nat

FromDart == step \in {"js", "back", "again"} /\ dart # DNull

\* Text without U+0000 and without unpaired surrogates.
PlainText(s) == \A i \in DOMAIN s : s[i] \notin {NullChar, "lone"}

RECURSIVE SurvivesInside(_)
SurvivesInside(d) ==
    CASE d.type = "int" -> d.int \in Range32
      [] d.type = "bool" -> TRUE
      [] d.type = "String" -> PlainText(d.chars)
      [] d.type = "List" -> \A i \in DOMAIN d.list : SurvivesInside(d.list[i])
      [] d.type = "Map" -> \A k \in DOMAIN d.map : SurvivesInside(d.map[k])
      [] OTHER -> FALSE
Survives(d) ==
    IF d.type = "double" THEN d = DNaN \/ (d # DNegZero /\ d.halves % 2 = 1)
    ELSE SurvivesInside(d)

\* engine.dart: a Dart value that goes to JavaScript and comes back is the
\* same exactly when it is a 32 bit int, a bool, a double that is no integer,
\* text without U+0000 and unpaired surrogates, or a list or map of such
\* values without doubles.
RoundTripExactly ==
    FromDart /\ step \in {"back", "again"} => (back = dart <=> Survives(dart))

RECURSIVE EchoesInside(_)
EchoesInside(v) ==
    CASE v.tag \in {"int", "bool"} -> TRUE
      [] v.tag = "string" -> PlainText(v.chars)
      [] v.tag = "array" -> \A i \in DOMAIN v.elems : EchoesInside(v.elems[i])
      [] v.tag = "object" -> \A k \in DOMAIN v.props : EchoesInside(v.props[k])
      [] OTHER -> FALSE
Echoes(v) ==
    CASE v.tag = "float64" -> v = JNaN \/ (v # JNegZero /\ v.halves % 2 = 1)
      [] v.tag \in {"undefined", "null", "symbol", "function"} -> TRUE
      [] OTHER -> EchoesInside(v)

\* engine.dart and function.dart: a hook whose handler returns what fromJSVal
\* made of its argument gives JavaScript an equal value exactly for 32 bit
\* integers, other numbers that are no integers, plain text, null, undefined,
\* symbols and functions, and structures of integers, booleans and text.
EchoExactly == step = "again" => (again = js <=> Echoes(js))

\* engine.dart: an int is the same number to JavaScript as long as a double
\* holds it, although what comes back may differ.
JavaScriptSeesTheInt ==
    FromDart /\ dart.type = "int" /\ Abs(dart.int) <= 2 ^ Bits53 =>
        js \in {JInt(dart.int), JFloat(2 * dart.int)}

\* engine.dart: elements keep their index. A list comes back shorter only by
\* doubles at its end, and null stands only for a double or a handler.
IndexesKept ==
    FromDart /\ step \in {"back", "again"} /\ dart.type = "List" =>
        /\ \A i \in DOMAIN back.list :
              IF back.list[i] = DNull
              THEN dart.list[i].type \in {"double", "DartCHandler"}
              ELSE back.list[i].type = dart.list[i].type
        /\ \A i \in DOMAIN dart.list \ DOMAIN back.list :
              dart.list[i].type = "double"

RECURSIVE Unsupported(_)
Unsupported(d) ==
    CASE d.type = "List" -> \E i \in DOMAIN d.list : Unsupported(d.list[i])
      [] d.type = "Map" -> \E k \in DOMAIN d.map : Unsupported(d.map[k])
      [] OTHER -> d.type \in {"Null", "JSValue"}

\* engine.dart: toJSVal throws exactly when the value, or a value anywhere
\* inside it, has a type it does not support, or is itself a handler.
ThrowsOnUnsupported ==
    step \in {"js", "threw"} /\ dart # DNull =>
        (js = Throw <=> Unsupported(dart) \/ dart = DHandler)

=============================================================================
