-------------------------- MODULE ValueConversions --------------------------
(***************************************************************************)
(* The conversions of quickjs.c between JavaScript values.  A value is a   *)
(* record whose t is its tag: int, float, bool, null, undefined, string,   *)
(* symbol, object or bigint.  A conversion may run methods of an object,   *)
(* so it takes the log of what has been run and returns it with the value  *)
(* or the exception.  Math mode needs JS_EnableBignumExt, which this       *)
(* library never calls: it is off, and there are no bigfloats, bigdecimals *)
(* or overloaded operators.                                                *)
(***************************************************************************)
EXTENDS Rounding, Sequences

CONSTANTS
    IntBits,    \* 32 in the code: ints, and twice as many bits for int64
    Mantissa,   \* 53: the significant bits of a double
    MaxExp,     \* 1023: its greatest exponent
    FracBits,   \* 1074: its bits after the point
    ByteBits,   \* 8: the width of an element of a clamped array
    Objects     \* for every object what its three conversion methods do

(* The machine's numbers, narrow.  A double is a record: k says finite,    *)
(* infinite or not a number, neg is the sign and q the magnitude, counted  *)
(* in the least unit.                                                      *)

Unit == 2 ^ FracBits
IntMin(bits) == -(2 ^ (bits - 1))
IntMax(bits) == 2 ^ (bits - 1) - 1
Wrap(n, bits) == ((n + 2 ^ (bits - 1)) % 2 ^ bits) - 2 ^ (bits - 1)

NaN == [k |-> "nan", neg |-> FALSE, q |-> 0]
Inf(neg) == [k |-> "inf", neg |-> neg, q |-> 0]
Fin(neg, q) == [k |-> "fin", neg |-> neg, q |-> q]
MinusZero == Fin(TRUE, 0)

\* To the nearest, ties to even.
NearestEven(n, d) ==
    n \div d + (IF 2 * (n % d) > d \/ (2 * (n % d) = d /\ (n \div d) % 2 = 1)
                THEN 1 ELSE 0)
Excess(bits) == IF bits > Mantissa THEN 2 ^ (bits - Mantissa) ELSE 1
InSteps(n, d, step) == step * NearestEven(n, d * step)
Bounded(neg, q) == IF q >= 2 ^ (MaxExp + 1) * Unit THEN Inf(neg) ELSE Fin(neg, q)
Rounds(neg, n, d) == Bounded(neg, InSteps(n, d, Excess(BitLen(n \div d))))

Signed(a) == IF a.neg THEN -a.q ELSE a.q
OfUnits(s) == Rounds(s < 0, AbsOf(s), 1)
OfInt(n) == OfUnits(n * Unit)

DNeg(a) == IF a.k = "nan" THEN a ELSE [a EXCEPT !.neg = ~@]
DAdd(a, b) ==
    CASE "nan" \in {a.k, b.k} -> NaN
      [] a.k = "inf" /\ b.k = "inf" -> IF a.neg = b.neg THEN a ELSE NaN
      [] a.k = "inf" -> a
      [] b.k = "inf" -> b
      [] Signed(a) + Signed(b) = 0 -> Fin(a.neg /\ b.neg, 0)
      [] OTHER -> OfUnits(Signed(a) + Signed(b))
DSub(a, b) == DAdd(a, DNeg(b))

IsZero(a) == a.k = "fin" /\ a.q = 0
DMul(a, b) ==
    CASE "nan" \in {a.k, b.k} -> NaN
      [] "inf" \in {a.k, b.k} ->
            IF IsZero(a) \/ IsZero(b) THEN NaN ELSE Inf(a.neg # b.neg)
      [] OTHER -> Rounds(a.neg # b.neg, a.q * b.q, Unit)
DDiv(a, b) ==
    CASE "nan" \in {a.k, b.k} \/ (a.k = "inf" /\ b.k = "inf")
            \/ (IsZero(a) /\ IsZero(b)) -> NaN
      [] a.k = "inf" \/ IsZero(b) -> Inf(a.neg # b.neg)
      [] b.k = "inf" -> Fin(a.neg # b.neg, 0)
      [] OTHER -> Rounds(a.neg # b.neg, a.q * Unit, b.q)
fmod(a, b) ==
    CASE "nan" \in {a.k, b.k} \/ a.k = "inf" \/ IsZero(b) -> NaN
      [] b.k = "inf" -> a
      [] OTHER -> Fin(a.neg, a.q % b.q)

\* -1, 0 or 1, for two that are numbers.
Place(a) == IF a.k = "inf" THEN (IF a.neg THEN -1 ELSE 1) * 2 ^ (MaxExp + 2) * Unit
            ELSE Signed(a)
DLess(a, b) == "nan" \notin {a.k, b.k} /\ Place(a) < Place(b)
DEqual(a, b) == "nan" \notin {a.k, b.k} /\ Place(a) = Place(b)

\* The power of a whole number, or of a special value, to a whole or special
\* exponent.
IsWhole(a) == a.k = "fin" /\ a.q % Unit = 0
WholeOf(a) == (IF a.neg THEN -1 ELSE 1) * (a.q \div Unit)
Odd(b) == IsWhole(b) /\ (b.q \div Unit) % 2 = 1
Cap == 2 ^ (MaxExp + 2)
RECURSIVE PowCap(_, _)
Capped(n) == IF n >= Cap THEN Cap ELSE n
PowCap(n, i) == IF i = 0 THEN 1 ELSE Capped(n * PowCap(n, i - 1))
PowTo(n, i) == PowCap(n, IF i > MaxExp + 2 THEN MaxExp + 2 ELSE i)
PowWhole(neg, n, b) ==
    IF b.neg THEN Rounds(neg, Unit, PowTo(n, b.q \div Unit))
    ELSE Rounds(neg, Unit * PowTo(n, b.q \div Unit), 1)
DOne == OfInt(1)
pow(a, b) ==
    CASE IsZero(b) -> DOne
      [] a = DOne -> DOne
      [] "nan" \in {a.k, b.k} -> NaN
      [] b.k = "inf" /\ AbsOf(Place(a)) = Unit -> DOne
      [] b.k = "inf" -> IF (AbsOf(Place(a)) > Unit) = b.neg THEN Fin(FALSE, 0)
                        ELSE Inf(FALSE)
      [] a.k = "inf" \/ IsZero(a) ->
            IF (a.k = "inf") = b.neg THEN Fin(a.neg /\ Odd(b), 0)
            ELSE Inf(a.neg /\ Odd(b))
      [] OTHER -> PowWhole(a.neg /\ Odd(b), a.q \div Unit, b)

\* The exponent field, and the significand with its hidden bit.
Exponent(a) == IF a.k # "fin" THEN MaxExp + 1 ELSE BitLen(a.q) - 1 - FracBits
Significand(a) == a.q \div 2 ^ (BitLen(a.q) - Mantissa)

-----------------------------------------------------------------------------
(* Values.                                                                 *)

IntV(n) == [t |-> "int", n |-> n]
Float(d) == [t |-> "float", d |-> d]
BoolV(b) == [t |-> "bool", n |-> IF b THEN 1 ELSE 0]
Null == [t |-> "null", n |-> 0]
Undefined == [t |-> "undefined", n |-> 0]
String(s) == [t |-> "string", s |-> s]
Symbol(i) == [t |-> "symbol", id |-> i]
Object(i) == [t |-> "object", id |-> i]
BigInt(n, negz) == [t |-> "bigint", n |-> n, negz |-> negz]

Ok(v, log) == [ok |-> TRUE, v |-> v, e |-> "", log |-> log]
Err(e, log) == [ok |-> FALSE, v |-> Undefined, e |-> e, log |-> log]

JS_NewInt64(n) ==
    IF n \in IntMin(IntBits) .. IntMax(IntBits) THEN IntV(n) ELSE Float(OfInt(n))
JS_NewUint32(n) == IF n <= IntMax(IntBits) THEN IntV(n) ELSE Float(OfInt(n))
JS_NewFloat64(d) ==
    IF /\ IsWhole(d) /\ d # MinusZero
       /\ WholeOf(d) \in IntMin(IntBits) .. IntMax(IntBits)
    THEN IntV(WholeOf(d)) ELSE Float(d)

-----------------------------------------------------------------------------
(* Objects to primitive values.                                            *)

Got(log, o, name) == Append(log, <<o, "get", name, "">>)
Ran(log, o, name, hint) == Append(log, <<o, "call", name, hint>>)

CallMethod(o, m, name, hint, log) ==
    IF m.k = "throws" THEN Err("user", Ran(log, o, name, hint))
    ELSE Ok(m.v, Ran(log, o, name, hint))

PrimitiveOnly(r) ==
    IF r.ok /\ r.v.t = "object" THEN Err("TypeError", r.log) ELSE r

RECURSIVE OrdinaryToPrimitive(_, _, _, _)
OrAgain(r, o, hint, i) ==
    IF r.ok /\ r.v.t = "object" THEN OrdinaryToPrimitive(o, hint, i + 1, r.log)
    ELSE r
TryMethod(o, hint, i, name, m, log) ==
    CASE m.k = "getthrows" -> Err("user", log)
      [] m.k \in {"throws", "returns"} ->
            OrAgain(CallMethod(o, m, name, "", log), o, hint, i)
      [] OTHER -> OrdinaryToPrimitive(o, hint, i + 1, log)
MethodName(hint, i) == IF (hint = "string") = (i = 0) THEN "toString" ELSE "valueOf"
OrdinaryToPrimitive(o, hint, i, log) ==
    IF i = 2 THEN Err("TypeError", log)
    ELSE TryMethod(o, hint, i, MethodName(hint, i),
                   Objects[o][MethodName(hint, i)],
                   Got(log, o, MethodName(hint, i)))

ExoticToPrimitive(o, hint, m, log) ==
    CASE m.k = "getthrows" -> Err("user", log)
      [] m.k \in {"undefined", "null"} -> OrdinaryToPrimitive(o, hint, 0, log)
      [] m.k = "notcallable" -> Err("TypeError", log)
      [] OTHER -> PrimitiveOnly(CallMethod(o, m, "toPrimitive", hint, log))

RECURSIVE JS_ToPrimitiveFree(_, _, _)
JS_ToPrimitiveFree(x, hint, log) ==
    IF x.t # "object" THEN Ok(x, log)
    ELSE ExoticToPrimitive(x.id, hint, Objects[x.id].toPrimitive,
                           Got(log, x.id, "toPrimitive"))

JS_ToBoolFree(x) ==
    CASE x.t \in {"int", "bool", "null", "undefined"} -> x.n # 0
      [] x.t = "string" -> Len(x.s) # 0
      [] x.t = "bigint" -> x.n # 0
      [] x.t = "float" -> x.d.k # "nan" /\ ~IsZero(x.d)
      [] OTHER -> TRUE

-----------------------------------------------------------------------------
(* Strings, as the code units of ASCII, and the numbers they stand for.    *)

Space == 32
Minus == 45
Zero == 48
IsDigit(c) == c \in Zero .. Zero + 9

RECURSIVE skip_spaces(_)
skip_spaces(s) == IF s # <<>> /\ Head(s) = Space THEN skip_spaces(Tail(s)) ELSE s

RECURSIVE Digits(_, _)
Digits(s, n) ==     \* the number read, and what is left
    IF s # <<>> /\ IsDigit(Head(s)) THEN Digits(Tail(s), 10 * n + Head(s) - Zero)
    ELSE [n |-> n, rest |-> s]
Scan(s, neg) == [neg |-> neg, some |-> s # <<>> /\ IsDigit(Head(s)),
                 n |-> Digits(s, 0).n, rest |-> Digits(s, 0).rest]
js_atof(s) == IF s # <<>> /\ Head(s) = Minus THEN Scan(Tail(s), TRUE)
              ELSE Scan(s, FALSE)
Complete(p) == p.some /\ skip_spaces(p.rest) = <<>>

StringToNumber(s) ==
    IF skip_spaces(s) = <<>> THEN IntV(0)
    ELSE IF Complete(js_atof(skip_spaces(s)))
         THEN JS_NewFloat64(Rounds(js_atof(skip_spaces(s)).neg,
                                   Unit * js_atof(skip_spaces(s)).n, 1))
         ELSE Float(NaN)

JS_StringToBigInt(s) ==
    IF skip_spaces(s) = <<>> THEN BigInt(0, FALSE)
    ELSE IF Complete(js_atof(skip_spaces(s)))
         THEN BigInt((IF js_atof(skip_spaces(s)).neg THEN -1 ELSE 1)
                        * js_atof(skip_spaces(s)).n, FALSE)
         ELSE Float(NaN)

RECURSIVE DigitsOf(_)
DigitsOf(n) == (IF n < 10 THEN <<>> ELSE DigitsOf(n \div 10)) \o <<Zero + (n % 10)>>
SignedDigits(n) == IF n < 0 THEN <<Minus>> \o DigitsOf(-n) ELSE DigitsOf(n)
Word(w) ==      \* the code units of the words that constants print as
    CASE w = "nan" -> <<78, 97, 78>>
      [] w = "inf" -> <<73, 110, 102, 105, 110, 105, 116, 121>>
      [] w = "-inf" -> <<45, 73, 110, 102, 105, 110, 105, 116, 121>>
      [] w = "null" -> <<110, 117, 108, 108>>
      [] w = "undefined" ->
            <<117, 110, 100, 101, 102, 105, 110, 101, 100>>
      [] w = "true" -> <<116, 114, 117, 101>>
      [] w = "false" -> <<102, 97, 108, 115, 101>>
NumberText(d) ==
    CASE d.k = "nan" -> Word("nan")
      [] d.k = "inf" -> Word(IF d.neg THEN "-inf" ELSE "inf")
      [] OTHER -> SignedDigits(WholeOf(d))
\* Of a primitive; floats that are not whole are not printed here.
JS_ToStringFree(x, log) ==
    CASE x.t = "string" -> Ok(x, log)
      [] x.t = "symbol" -> Err("TypeError", log)
      [] x.t \in {"int", "bigint"} -> Ok(String(SignedDigits(x.n)), log)
      [] x.t = "float" -> Ok(String(NumberText(x.d)), log)
      [] x.t = "bool" -> Ok(String(Word(IF x.n = 1 THEN "true" ELSE "false")), log)
      [] OTHER -> Ok(String(Word(x.t)), log)

-----------------------------------------------------------------------------
(* To numbers.                                                             *)

RECURSIVE JS_ToNumberHintFree(_, _, _)
NumberAgain(r, numeric) ==
    IF r.ok THEN JS_ToNumberHintFree(r.v, numeric, r.log) ELSE r
JS_ToNumberHintFree(x, numeric, log) ==
    CASE x.t = "bigint" -> IF numeric THEN Ok(x, log) ELSE Err("TypeError", log)
      [] x.t \in {"int", "float"} -> Ok(x, log)
      [] x.t \in {"bool", "null"} -> Ok(IntV(x.n), log)
      [] x.t = "undefined" -> Ok(Float(NaN), log)
      [] x.t = "object" -> NumberAgain(JS_ToPrimitiveFree(x, "number", log), numeric)
      [] x.t = "string" -> Ok(StringToNumber(x.s), log)
      [] x.t = "symbol" -> Err("TypeError", log)
JS_ToNumberFree(x, log) == JS_ToNumberHintFree(x, FALSE, log)
JS_ToNumericFree(x, log) == JS_ToNumberHintFree(x, TRUE, log)

DoubleOf(x) == IF x.t = "float" THEN x.d ELSE OfInt(x.n)
AsDouble(r) == IF r.ok THEN Ok(Float(DoubleOf(r.v)), r.log) ELSE r
JS_ToFloat64Free(x, log) ==
    IF x.t \in {"int", "bool", "null", "float"} THEN Ok(Float(DoubleOf(x)), log)
    ELSE AsDouble(JS_ToNumberFree(x, log))

\* The shape of all the conversions to an integer: F of what ToNumber gives.
Integral(x) == x.t \in {"int", "bool", "null", "undefined"}
Simple(x) == Integral(x) \/ x.t = "float"
ToIntegral(x, log, ofInt(_), ofDouble(_)) ==
    LET r == IF Simple(x) THEN Ok(x, log) ELSE JS_ToNumberFree(x, log)
    IN IF ~r.ok THEN r
       ELSE Ok(IntV(IF Integral(r.v) THEN ofInt(r.v.n) ELSE ofDouble(r.v.d)), r.log)
AsIs(n) == n

Trunc(d) == WholeOf(d)      \* the cast of a double that fits
RoundToInt(d) == NearestEven(d.q, Unit)     \* lrint, of d >= 0

JS_ToIntegerDouble(d) ==
    CASE d.k = "nan" -> IntV(0)
      [] d.k = "inf" -> Float(d)
      [] OTHER -> JS_NewFloat64(OfInt(Trunc(d)))
IntegerOf(r) ==
    IF ~r.ok THEN r
    ELSE Ok(IF Integral(r.v) THEN IntV(r.v.n) ELSE JS_ToIntegerDouble(r.v.d), r.log)
JS_ToIntegerFree(x, log) ==
    IntegerOf(IF Simple(x) THEN Ok(x, log) ELSE JS_ToNumberFree(x, log))

SatDouble(d) ==
    CASE d.k = "nan" -> 0
      [] DLess(d, OfInt(IntMin(IntBits))) -> IntMin(IntBits)
      [] DLess(OfInt(IntMax(IntBits)), d) -> IntMax(IntBits)
      [] OTHER -> Trunc(d)
JS_ToInt32SatFree(x, log) == ToIntegral(x, log, AsIs, SatDouble)

ClampTo(n, min, max, offset) ==
    IF n < min THEN (IF n + offset < min THEN min ELSE n + offset)
    ELSE IF n > max THEN max ELSE n
JS_ToInt32Clamp(x, min, max, offset, log) ==
    LET clamped(n) == ClampTo(n, min, max, offset)
        ofDouble(d) == clamped(SatDouble(d))
    IN ToIntegral(x, log, clamped, ofDouble)

\* INT64_MAX becomes 2^63 as a double: the cast of 2^63 itself is undefined,
\* one machine saturates and the other returns the least integer.
Long == 2 * IntBits
Sat64Double(d, machine) ==
    CASE d.k = "nan" -> 0
      [] DLess(d, OfInt(IntMin(Long))) -> IntMin(Long)
      [] DLess(OfInt(IntMax(Long)), d) -> IntMax(Long)
      [] Trunc(d) > IntMax(Long) ->
            IF machine = "saturates" THEN IntMax(Long) ELSE IntMin(Long)
      [] OTHER -> Trunc(d)
Clamp64To(n, min, max, offset) ==
    LET m == IF n < 0 THEN n + offset ELSE n
    IN IF m < min THEN min ELSE IF m > max THEN max ELSE m
JS_ToInt64Clamp(x, min, max, offset, machine, log) ==
    LET clamped(n) == Clamp64To(n, min, max, offset)
        ofDouble(d) == clamped(Sat64Double(d, machine))
    IN ToIntegral(x, log, clamped, ofDouble)

\* The significand is shifted in twice the width; what leaves it is a
\* multiple of the modulus.
Negated(n, neg) == IF neg THEN -n ELSE n
ModInt32(d) ==
    CASE Exponent(d) <= IntBits - 2 -> Trunc(d)
      [] Exponent(d) <= IntBits - 2 + Mantissa ->
            Wrap(Negated(((Significand(d)
                            * 2 ^ (Exponent(d) - (Mantissa - 1) + IntBits))
                               % 2 ^ Long) \div 2 ^ IntBits, d.neg), IntBits)
      [] OTHER -> 0
JS_ToInt32Free(x, log) == ToIntegral(x, log, AsIs, ModInt32)

ModInt64(d) ==
    CASE Exponent(d) <= Long - 2 -> Trunc(d)
      [] Exponent(d) <= Long - 2 + Mantissa ->
            Wrap(Negated(Significand(d) * 2 ^ (Exponent(d) - (Mantissa - 1)),
                         d.neg), Long)
      [] OTHER -> 0
JS_ToInt64Free(x, log) == ToIntegral(x, log, AsIs, ModInt64)

ByteMax == 2 ^ ByteBits - 1
ClampInt(n) == IF n < 0 THEN 0 ELSE IF n > ByteMax THEN ByteMax ELSE n
ClampDouble(d) ==
    CASE d.k = "nan" \/ DLess(d, OfInt(0)) -> 0
      [] DLess(OfInt(ByteMax), d) -> ByteMax
      [] OTHER -> RoundToInt(d)
JS_ToUint8ClampFree(x, log) == ToIntegral(x, log, ClampInt, ClampDouble)

\* A cast of a double out of range gives a length that differs from it.
ArrayLength(v, log) ==
    CASE v.t = "int" -> IF v.n < 0 THEN Err("RangeError", log) ELSE Ok(v, log)
      [] v.t = "float" ->
            IF IsWhole(v.d) /\ WholeOf(v.d) \in 0 .. 2 ^ IntBits - 1
            THEN Ok(IntV(WholeOf(v.d)), log) ELSE Err("RangeError", log)
      [] v.t = "bigint" ->
            IF v.n % 2 ^ IntBits = v.n THEN Ok(IntV(v.n), log)
            ELSE Err("RangeError", log)
ArrayLengthOf(r) == IF r.ok THEN ArrayLength(r.v, r.log) ELSE r
JS_ToArrayLengthFree(x, log) ==
    IF x.t \in {"bool", "null"} THEN Ok(IntV(x.n), log)
    ELSE ArrayLengthOf(IF x.t \in {"int", "float", "bigint"} THEN Ok(x, log)
                       ELSE JS_ToNumberFree(x, log))

-----------------------------------------------------------------------------
(* To bigints.                                                             *)

RECURSIVE JS_ToBigIntFree(_, _)
BigAgain(r) == IF r.ok THEN JS_ToBigIntFree(r.v, r.log) ELSE r
JS_ToBigIntFree(x, log) ==
    CASE x.t = "bool" -> Ok(BigInt(x.n, FALSE), log)
      [] x.t = "bigint" -> Ok(x, log)
      [] x.t = "string" -> IF JS_StringToBigInt(x.s).t = "bigint"
                           THEN Ok(JS_StringToBigInt(x.s), log)
                           ELSE Err("SyntaxError", log)
      [] x.t = "object" -> BigAgain(JS_ToPrimitiveFree(x, "number", log))
      [] OTHER -> Err("TypeError", log)

\* The sign that libbf leaves on a zero is taken away.
JS_CompactBigInt(x) == [x EXCEPT !.negz = FALSE]

BigInt64Of(r) == IF r.ok THEN Ok(IntV(Wrap(r.v.n, Long)), r.log) ELSE r
JS_ToBigInt64Free(x, log) == BigInt64Of(JS_ToBigIntFree(x, log))
JS_ToInt64Ext(x, log) ==
    IF x.t = "bigint" THEN JS_ToBigInt64Free(x, log) ELSE JS_ToInt64Free(x, log)

=============================================================================
