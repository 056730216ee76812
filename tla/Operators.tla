------------------------------ MODULE Operators ------------------------------
(***************************************************************************)
(* The operators of JavaScript as JS_CallInternal executes them: a quick   *)
(* path for integers and doubles and the functions js_..._slow behind it.  *)
(* quickjs.c has two sets of those functions.  The build with bigints (big *)
(* = TRUE) is the one for iOS; the other is the one for Android.           *)
(***************************************************************************)
EXTENDS ValueConversions, Bitwise

-----------------------------------------------------------------------------
(* Two operands, the left one converted first.                             *)

PairErr(r) == [ok |-> FALSE, a |-> Undefined, b |-> Undefined, e |-> r.e,
               log |-> r.log]
PairWith(a, r) == IF r.ok THEN [ok |-> TRUE, a |-> a, b |-> r.v, e |-> "",
                                log |-> r.log]
                  ELSE PairErr(r)

AfterPrimitive(r, y, hint) ==
    IF r.ok THEN PairWith(r.v, JS_ToPrimitiveFree(y, hint, r.log)) ELSE PairErr(r)
PrimitivePair(x, y, hint, log) ==
    AfterPrimitive(JS_ToPrimitiveFree(x, hint, log), y, hint)

AfterNumeric(r, y) ==
    IF r.ok THEN PairWith(r.v, JS_ToNumericFree(y, r.log)) ELSE PairErr(r)
NumericPair(x, y, log) == AfterNumeric(JS_ToNumericFree(x, log), y)

AfterDouble(r, y) ==
    IF r.ok THEN PairWith(r.v, JS_ToFloat64Free(y, r.log)) ELSE PairErr(r)
DoublePair(x, y, log) == AfterDouble(JS_ToFloat64Free(x, log), y)

AfterInt32(r, y) ==
    IF r.ok THEN PairWith(r.v, JS_ToInt32Free(y, r.log)) ELSE PairErr(r)
Int32Pair(x, y, log) == AfterInt32(JS_ToInt32Free(x, log), y)

-----------------------------------------------------------------------------
(* Machine arithmetic.                                                     *)

js_pow(a, b) == IF b.k # "fin" /\ AbsOf(Place(a)) = Unit THEN NaN ELSE pow(a, b)

FloatOp(op, a, b) ==
    CASE op = "add" -> DAdd(a, b)
      [] op = "sub" -> DSub(a, b)
      [] op = "mul" -> DMul(a, b)
      [] op = "div" -> DDiv(a, b)
      [] op = "mod" -> fmod(a, b)
      [] op = "pow" -> js_pow(a, b)

Bits(n, w) == n % 2 ^ w
LogicBits(op, a, b, w) ==
    Wrap(CASE op = "and" -> Bits(a, w) & Bits(b, w)
           [] op = "or" -> Bits(a, w) | Bits(b, w)
           [] op = "xor" -> Bits(a, w) ^^ Bits(b, w), w)
ShiftMask(n) == n % IntBits
IntLogic(op, a, b) ==
    CASE op = "shl" -> Wrap(a * 2 ^ ShiftMask(b), IntBits)
      [] op = "sar" -> a \div 2 ^ ShiftMask(b)
      [] OTHER -> LogicBits(op, a, b, IntBits)
IntShr(a, b) == JS_NewUint32(Bits(a, IntBits) \div 2 ^ ShiftMask(b))

-----------------------------------------------------------------------------
(* Bigints: libbf is exact, and keeps a sign on zero.                      *)

BigBits == 12   \* wider than any bigint of the instances
Sign(n) == IF n < 0 THEN -1 ELSE 1
TruncDiv(a, b) == Sign(a) * Sign(b) * (AbsOf(a) \div AbsOf(b))
TruncMod(a, b) == Sign(a) * (AbsOf(a) % AbsOf(b))
ShiftLeft(a, n) == IF n >= 0 THEN a * 2 ^ n ELSE a \div 2 ^ (-n)
Raw(n, neg) == BigInt(n, n = 0 /\ neg)

bf_op(op, a, b) ==
    CASE op = "add" -> Raw(a + b, FALSE)
      [] op = "sub" -> Raw(a - b, FALSE)
      [] op = "mul" -> Raw(a * b, (a < 0) # (b < 0))
      [] op = "div" -> Raw(TruncDiv(a, b), (a < 0) # (b < 0))
      [] op = "mod" -> Raw(TruncMod(a, b), a < 0)
      [] op = "pow" -> Raw(IF b = 0 THEN 1 ELSE a ^ b, FALSE)
      [] op = "shl" -> Raw(ShiftLeft(a, b), a < 0)
      [] op = "sar" -> Raw(ShiftLeft(a, -b), a < 0)
      [] OTHER -> Raw(LogicBits(op, a, b, BigBits), FALSE)

js_binary_arith_bigint(op, a, b, log) ==
    CASE a.t # "bigint" \/ b.t # "bigint" -> Err("TypeError", log)
      [] op \in {"div", "mod"} /\ b.n = 0 -> Err("RangeError", log)
      [] op = "pow" /\ b.n < 0 -> Err("RangeError", log)
      [] OTHER -> Ok(JS_CompactBigInt(bf_op(op, a.n, b.n)), log)

js_unary_arith_bigint(op, a, log) ==
    CASE op = "plus" -> Err("TypeError", log)
      [] op = "inc" -> Ok(JS_CompactBigInt(Raw(a.n + 1, FALSE)), log)
      [] op = "dec" -> Ok(JS_CompactBigInt(Raw(a.n - 1, FALSE)), log)
      [] op = "neg" -> Ok(JS_CompactBigInt(Raw(-a.n, ~a.negz)), log)
      [] op = "not" -> Ok(JS_CompactBigInt(Raw(-(a.n + 1), a.n + 1 = 0)), log)

-----------------------------------------------------------------------------
(* Unary operators.                                                        *)

StepOf(op) == IF op = "inc" THEN 1 ELSE -1
UnaryDouble(op, d) ==
    CASE op \in {"inc", "dec"} -> DAdd(d, OfInt(StepOf(op)))
      [] op = "plus" -> d
      [] op = "neg" -> DNeg(d)
UnaryInt(op, n) ==
    CASE op \in {"inc", "dec"} -> JS_NewInt64(n + StepOf(op))
      [] op = "plus" -> IntV(n)
      [] op = "neg" -> IF n = 0 THEN Float(MinusZero) ELSE JS_NewInt64(-n)

UnaryOf(op, r) ==
    CASE ~r.ok -> r
      [] r.v.t = "int" -> Ok(UnaryInt(op, r.v.n), r.log)
      [] r.v.t = "bigint" -> js_unary_arith_bigint(op, r.v, r.log)
      [] OTHER -> Ok(Float(UnaryDouble(op, r.v.d)), r.log)
js_unary_arith_slow(op, x, log) == UnaryOf(op, JS_ToNumericFree(x, log))

PlainUnaryOf(op, r) ==
    IF r.ok THEN Ok(JS_NewFloat64(UnaryDouble(op, r.v.d)), r.log) ELSE r
js_unary_arith_slow_plain(op, x, log) == PlainUnaryOf(op, JS_ToFloat64Free(x, log))

\* The old value, as a number, stays below the new one on the stack.
WithOld(r, old) == [ok |-> r.ok, v |-> r.v, e |-> r.e, log |-> r.log, old |-> old]
PostIncOf(op, r) ==
    IF r.ok THEN WithOld(js_unary_arith_slow(op, r.v, r.log), r.v)
    ELSE WithOld(r, Undefined)
js_post_inc_slow(op, x, log) == PostIncOf(op, JS_ToNumericFree(x, log))

\* Two or nothing is added first and one is taken away after it.
PlainPostStep(op, d) == DSub(DAdd(d, OfInt(1 + StepOf(op))), DOne)
PlainPostIncOf(op, r) ==
    IF r.ok THEN WithOld(Ok(JS_NewFloat64(PlainPostStep(op, r.v.d)), r.log),
                         JS_NewFloat64(r.v.d))
    ELSE WithOld(r, Undefined)
js_post_inc_slow_plain(op, x, log) == PlainPostIncOf(op, JS_ToFloat64Free(x, log))

Complement(r) == IF r.ok THEN Ok(IntV(-1 - r.v.n), r.log) ELSE r
NotOf(r) ==
    CASE ~r.ok -> r
      [] r.v.t = "bigint" -> js_unary_arith_bigint("not", r.v, r.log)
      [] OTHER -> Complement(JS_ToInt32Free(r.v, r.log))
js_not_slow(x, log) == NotOf(JS_ToNumericFree(x, log))
js_not_slow_plain(x, log) == Complement(JS_ToInt32Free(x, log))

-----------------------------------------------------------------------------
(* Binary arithmetic.                                                      *)

IntArith(op, a, b) ==
    CASE op = "sub" -> JS_NewInt64(a - b)
      [] op = "mul" -> IF a * b = 0 /\ (a < 0 \/ b < 0) THEN Float(MinusZero)
                       ELSE JS_NewInt64(a * b)
      [] op = "div" -> Float(DDiv(OfInt(a), OfInt(b)))
      [] op = "mod" -> IF a < 0 \/ b <= 0 THEN JS_NewFloat64(fmod(OfInt(a), OfInt(b)))
                       ELSE JS_NewInt64(a % b)
      [] op = "pow" -> JS_NewFloat64(js_pow(OfInt(a), OfInt(b)))
      [] op = "add" -> JS_NewInt64(a + b)

ArithOn(op, p) ==
    CASE ~p.ok -> Err(p.e, p.log)
      [] p.a.t = "int" /\ p.b.t = "int" -> Ok(IntArith(op, p.a.n, p.b.n), p.log)
      [] "bigint" \in {p.a.t, p.b.t} -> js_binary_arith_bigint(op, p.a, p.b, p.log)
      [] OTHER -> Ok(Float(FloatOp(op, DoubleOf(p.a), DoubleOf(p.b))), p.log)
js_binary_arith_slow(op, x, y, log) ==
    IF x.t = "float" /\ y.t = "float" THEN Ok(Float(FloatOp(op, x.d, y.d)), log)
    ELSE ArithOn(op, NumericPair(x, y, log))

PlainArithOn(op, p) ==
    IF p.ok THEN Ok(JS_NewFloat64(FloatOp(op, p.a.d, p.b.d)), p.log)
    ELSE Err(p.e, p.log)
js_binary_arith_slow_plain(op, x, y, log) == PlainArithOn(op, DoublePair(x, y, log))

Concatenated(a, r) == IF r.ok THEN Ok(String(a \o r.v.s), r.log) ELSE r
ConcatAfter(r, y) ==
    IF r.ok THEN Concatenated(r.v.s, JS_ToStringFree(y, r.log)) ELSE r
JS_ConcatString(x, y, log) == ConcatAfter(JS_ToStringFree(x, log), y)

AddOn(p) ==
    CASE ~p.ok -> Err(p.e, p.log)
      [] "string" \in {p.a.t, p.b.t} -> JS_ConcatString(p.a, p.b, p.log)
      [] OTHER -> ArithOn("add", NumericPair(p.a, p.b, p.log))
js_add_slow(x, y, log) ==
    IF x.t = "float" /\ y.t = "float" THEN Ok(Float(DAdd(x.d, y.d)), log)
    ELSE AddOn(PrimitivePair(x, y, "default", log))

PlainAddOn(p) ==
    CASE ~p.ok -> Err(p.e, p.log)
      [] "string" \in {p.a.t, p.b.t} -> JS_ConcatString(p.a, p.b, p.log)
      [] OTHER -> PlainArithOn("add", DoublePair(p.a, p.b, p.log))
js_add_slow_plain(x, y, log) ==
    IF {x.t, y.t} \subseteq {"int", "float"}
    THEN PlainArithOn("add", DoublePair(x, y, log))
    ELSE PlainAddOn(PrimitivePair(x, y, "default", log))

Int32LogicOn(op, p) ==
    CASE ~p.ok -> Err(p.e, p.log)
      [] op = "shr" -> Ok(IntShr(p.a.n, p.b.n), p.log)
      [] OTHER -> Ok(IntV(IntLogic(op, p.a.n, p.b.n)), p.log)
LogicOn(op, p) ==
    CASE ~p.ok -> Err(p.e, p.log)
      [] "bigint" \in {p.a.t, p.b.t} /\ op = "shr" -> Err("TypeError", p.log)
      [] p.a.t = "bigint" /\ p.b.t = "bigint" ->
            js_binary_arith_bigint(op, p.a, p.b, p.log)
      [] "bigint" \in {p.a.t, p.b.t} -> Err("TypeError", p.log)
      [] OTHER -> Int32LogicOn(op, Int32Pair(p.a, p.b, p.log))
js_binary_logic_slow(op, x, y, log) == LogicOn(op, NumericPair(x, y, log))
js_binary_logic_slow_plain(op, x, y, log) == Int32LogicOn(op, Int32Pair(x, y, log))
js_shr_slow(x, y, log) == LogicOn("shr", NumericPair(x, y, log))
js_shr_slow_plain(x, y, log) == Int32LogicOn("shr", Int32Pair(x, y, log))

-----------------------------------------------------------------------------
(* Comparisons.                                                            *)

RECURSIVE js_string_compare(_, _)
js_string_compare(s, t) ==
    CASE s = <<>> \/ t = <<>> -> Compared(Len(s), Len(t))
      [] Head(s) # Head(t) -> Compared(Head(s), Head(t))
      [] OTHER -> js_string_compare(Tail(s), Tail(t))

Ordered(op, c) ==       \* c is -1, 0 or 1
    CASE op = "lt" -> c < 0
      [] op = "lte" -> c <= 0
      [] op = "gt" -> c > 0
      [] op = "gte" -> c >= 0
      [] op = "eq" -> c = 0
DoubleOrdered(op, a, b) ==
    "nan" \notin {a.k, b.k} /\ Ordered(op, Compared(Place(a), Place(b)))

\* As bigfloats, which hold every double and every bigint.
BigPlace(x) == IF x.t = "float" THEN Place(x.d) ELSE x.n * Unit
IsNaN(x) == x.t = "float" /\ x.d.k = "nan"
js_compare_bigfloat(op, a, b) ==
    ~IsNaN(a) /\ ~IsNaN(b) /\ Ordered(op, Compared(BigPlace(a), BigPlace(b)))

BigString(x) == IF x.t = "string" THEN JS_StringToBigInt(x.s) ELSE x
BothBig(op, a, b) ==
    a.t = "bigint" /\ b.t = "bigint" /\ js_compare_bigfloat(op, a, b)
ComparedBig(op, p) ==
    IF p.ok THEN Ok(BoolV(js_compare_bigfloat(op, p.a, p.b)), p.log)
    ELSE Err(p.e, p.log)

RelationalOn(op, p) ==
    CASE ~p.ok -> Err(p.e, p.log)
      [] p.a.t = "string" /\ p.b.t = "string" ->
            Ok(BoolV(Ordered(op, js_string_compare(p.a.s, p.b.s))), p.log)
      [] {p.a.t, p.b.t} \subseteq {"int", "bool", "null", "float"} ->
            Ok(BoolV(DoubleOrdered(op, DoubleOf(p.a), DoubleOf(p.b))), p.log)
      [] {p.a.t, p.b.t} = {"bigint", "string"} ->
            Ok(BoolV(BothBig(op, BigString(p.a), BigString(p.b))), p.log)
      [] OTHER -> ComparedBig(op, NumericPair(p.a, p.b, p.log))
js_relational_slow(op, x, y, log) ==
    RelationalOn(op, PrimitivePair(x, y, "number", log))

OrderedDoubles(op, p) ==
    IF p.ok THEN Ok(BoolV(DoubleOrdered(op, p.a.d, p.b.d)), p.log)
    ELSE Err(p.e, p.log)
PlainRelationalOn(op, p) ==
    CASE ~p.ok -> Err(p.e, p.log)
      [] p.a.t = "string" /\ p.b.t = "string" ->
            Ok(BoolV(Ordered(op, js_string_compare(p.a.s, p.b.s))), p.log)
      [] OTHER -> OrderedDoubles(op, DoublePair(p.a, p.b, p.log))
js_relational_slow_plain(op, x, y, log) ==
    PlainRelationalOn(op, PrimitivePair(x, y, "number", log))

NumberTest(a, b, mode) ==
    CASE mode = "strict" -> DEqual(a, b)
      [] "nan" \in {a.k, b.k} -> a.k = b.k
      [] mode = "zero" -> DEqual(a, b)
      [] OTHER -> a = b
StrictTags(x, y, mode) ==
    CASE x.t # y.t /\ x.t # "float" -> FALSE
      [] x.t \in {"int", "float"} ->
            y.t \in {"int", "float"} /\ NumberTest(DoubleOf(x), DoubleOf(y), mode)
      [] x.t \in {"null", "undefined"} -> TRUE
      [] x.t \in {"bool", "bigint"} -> x.n = y.n
      [] x.t = "string" -> js_string_compare(x.s, y.s) = 0
      [] OTHER -> x.id = y.id
js_strict_eq2(x, y, mode) ==
    CASE x.t \in {"int", "float"} ->
            y.t \in {"int", "float"} /\ NumberTest(DoubleOf(x), DoubleOf(y), mode)
      [] x.t # y.t -> FALSE
      [] x.t \in {"null", "undefined"} -> TRUE
      [] x.t \in {"bool", "bigint"} -> x.n = y.n
      [] x.t = "string" -> js_string_compare(x.s, y.s) = 0
      [] OTHER -> x.id = y.id

tag_is_number(x) == x.t \in {"int", "float", "bigint"}
StrictOn(p) ==
    IF p.ok THEN Ok(BoolV(js_strict_eq2(p.a, p.b, "strict")), p.log)
    ELSE Err(p.e, p.log)
Meets(x) == tag_is_number(x) \/ x.t \in {"string", "symbol"}
RECURSIVE js_eq_slow(_, _, _)
EqAgain(p) == IF p.ok THEN js_eq_slow(p.a, p.b, p.log) ELSE Err(p.e, p.log)
js_eq_slow(x, y, log) ==
    CASE {x.t, y.t} \subseteq {"int", "float"} ->
            Ok(BoolV(DEqual(DoubleOf(x), DoubleOf(y))), log)
      [] tag_is_number(x) /\ tag_is_number(y) ->
            Ok(BoolV(js_compare_bigfloat("eq", x, y)), log)
      [] x.t = y.t -> Ok(BoolV(js_strict_eq2(x, y, "strict")), log)
      [] {x.t, y.t} = {"null", "undefined"} -> Ok(BoolV(TRUE), log)
      [] {x.t, y.t} = {"string", "bigint"} ->
            Ok(BoolV(BothBig("eq", BigString(x), BigString(y))), log)
      [] "string" \in {x.t, y.t} /\ (tag_is_number(x) \/ tag_is_number(y)) ->
            StrictOn(NumericPair(x, y, log))
      [] x.t = "bool" -> js_eq_slow(IntV(x.n), y, log)
      [] y.t = "bool" -> js_eq_slow(x, IntV(y.n), log)
      [] (x.t = "object" /\ Meets(y)) \/ (y.t = "object" /\ Meets(x)) ->
            EqAgain(PrimitivePair(x, y, "default", log))
      [] OTHER -> Ok(BoolV(FALSE), log)

RECURSIVE js_eq_slow_plain(_, _, _)
EqLeft(r, y) == IF r.ok THEN js_eq_slow_plain(r.v, y, r.log) ELSE r
EqRight(x, r) == IF r.ok THEN js_eq_slow_plain(x, r.v, r.log) ELSE r
js_eq_slow_plain(x, y, log) ==
    CASE x.t = y.t \/ {x.t, y.t} = {"int", "float"} ->
            Ok(BoolV(js_strict_eq2(x, y, "strict")), log)
      [] {x.t, y.t} = {"null", "undefined"} -> Ok(BoolV(TRUE), log)
      [] {x.t, y.t} \in {{"string", "int"}, {"string", "float"}} ->
            OrderedDoubles("eq", DoublePair(x, y, log))
      [] x.t = "bool" -> js_eq_slow_plain(IntV(x.n), y, log)
      [] y.t = "bool" -> js_eq_slow_plain(x, IntV(y.n), log)
      [] x.t = "object" /\ Meets(y) ->
            EqLeft(JS_ToPrimitiveFree(x, "default", log), y)
      [] y.t = "object" /\ Meets(x) ->
            EqRight(x, JS_ToPrimitiveFree(y, "default", log))
      [] OTHER -> Ok(BoolV(FALSE), log)

js_operator_typeof(x) ==
    CASE x.t \in {"int", "float"} -> "number"
      [] x.t = "bool" -> "boolean"
      [] x.t = "null" -> "object"
      [] OTHER -> x.t

-----------------------------------------------------------------------------
(* The interpreter.                                                        *)

BothInt(x, y) == x.t = "int" /\ y.t = "int"
BothFloat(x, y) == x.t = "float" /\ y.t = "float"
Fits(n) == n \in IntMin(IntBits) .. IntMax(IntBits)

Flipped(op, r) == IF r.ok /\ op = "neq" THEN Ok(BoolV(r.v.n = 0), r.log) ELSE r
SlowBinary(big, op, x, y, log) ==
    CASE op = "add" -> IF big THEN js_add_slow(x, y, log)
                       ELSE js_add_slow_plain(x, y, log)
      [] op = "shr" -> IF big THEN js_shr_slow(x, y, log)
                       ELSE js_shr_slow_plain(x, y, log)
      [] op \in {"shl", "sar", "and", "or", "xor"} ->
            IF big THEN js_binary_logic_slow(op, x, y, log)
            ELSE js_binary_logic_slow_plain(op, x, y, log)
      [] op \in {"lt", "lte", "gt", "gte"} ->
            IF big THEN js_relational_slow(op, x, y, log)
            ELSE js_relational_slow_plain(op, x, y, log)
      [] op \in {"eq", "neq"} ->
            Flipped(op, IF big THEN js_eq_slow(x, y, log)
                        ELSE js_eq_slow_plain(x, y, log))
      [] op = "strict_eq" -> Ok(BoolV(js_strict_eq2(x, y, "strict")), log)
      [] op = "strict_neq" -> Ok(BoolV(~js_strict_eq2(x, y, "strict")), log)
      [] OTHER -> IF big THEN js_binary_arith_slow(op, x, y, log)
                  ELSE js_binary_arith_slow_plain(op, x, y, log)

\* The quick path: the value, or Slow.
Slow == [t |-> "slow"]
OP_add(x, y) ==
    CASE BothInt(x, y) /\ Fits(x.n + y.n) -> IntV(x.n + y.n)
      [] BothFloat(x, y) -> Float(DAdd(x.d, y.d))
      [] OTHER -> Slow
OP_sub(x, y) ==
    CASE BothInt(x, y) /\ Fits(x.n - y.n) -> IntV(x.n - y.n)
      [] BothFloat(x, y) -> Float(DSub(x.d, y.d))
      [] OTHER -> Slow
MulForgetsSign(x, y) ==
    CASE BothInt(x, y) /\ ~Fits(x.n * y.n) -> Float(OfInt(x.n * y.n))
      [] BothInt(x, y) -> IntV(x.n * y.n)
      [] BothFloat(x, y) -> Float(DMul(x.d, y.d))
      [] OTHER -> Slow
OP_mul(x, y) ==
    CASE BothInt(x, y) /\ ~Fits(x.n * y.n) -> Float(OfInt(x.n * y.n))
      [] BothInt(x, y) /\ x.n * y.n = 0 /\ (x.n < 0 \/ y.n < 0) -> Float(MinusZero)
      [] BothInt(x, y) -> IntV(x.n * y.n)
      [] BothFloat(x, y) -> Float(DMul(x.d, y.d))
      [] OTHER -> Slow
OP_div(x, y) ==
    IF BothInt(x, y) THEN JS_NewFloat64(DDiv(OfInt(x.n), OfInt(y.n))) ELSE Slow
OP_mod(x, y) ==
    IF BothInt(x, y) /\ ~(x.n < 0 \/ y.n <= 0) THEN IntV(x.n % y.n) ELSE Slow
OP_logic(op, x, y) ==
    CASE ~BothInt(x, y) -> Slow
      [] op = "shr" -> IntShr(x.n, y.n)
      [] OTHER -> IntV(IntLogic(op, x.n, y.n))
IntCompare(op, a, b) ==
    CASE op \in {"neq", "strict_neq"} -> a # b
      [] op = "strict_eq" -> a = b
      [] OTHER -> Ordered(op, Compared(a, b))
OP_CMP(op, x, y) ==
    IF BothInt(x, y) THEN BoolV(IntCompare(op, x.n, y.n)) ELSE Slow

Quick(op, x, y) ==
    CASE op = "add" -> OP_add(x, y)
      [] op = "sub" -> OP_sub(x, y)
      [] op = "mul" -> OP_mul(x, y)
      [] op = "div" -> OP_div(x, y)
      [] op = "mod" -> OP_mod(x, y)
      [] op = "pow" -> Slow
      [] op \in {"shl", "sar", "shr", "and", "or", "xor"} -> OP_logic(op, x, y)
      [] OTHER -> OP_CMP(op, x, y)
QuickOrSlow(v, big, op, x, y, log) ==
    IF v = Slow THEN SlowBinary(big, op, x, y, log) ELSE Ok(v, log)
Binary(big, op, x, y, log) == QuickOrSlow(Quick(op, x, y), big, op, x, y, log)

SlowUnary(big, op, x, log) ==
    IF big THEN js_unary_arith_slow(op, x, log)
    ELSE js_unary_arith_slow_plain(op, x, log)
OP_plus(x) == IF x.t \in {"int", "float"} THEN x ELSE Slow
OP_neg(x) ==
    CASE x.t = "int" /\ x.n = 0 -> Float(MinusZero)
      [] x.t = "int" /\ x.n = IntMin(IntBits) -> Float(DNeg(OfInt(x.n)))
      [] x.t = "int" -> IntV(-x.n)
      [] x.t = "float" -> Float(DNeg(x.d))
      [] OTHER -> Slow
AtEdge(op, n) == n = (IF op = "inc" THEN IntMax(IntBits) ELSE IntMin(IntBits))
OP_inc(op, x) ==
    IF x.t = "int" /\ ~AtEdge(op, x.n) THEN IntV(x.n + StepOf(op)) ELSE Slow
OP_not(big, x, log) ==
    CASE x.t = "int" -> Ok(IntV(-1 - x.n), log)
      [] big -> js_not_slow(x, log)
      [] OTHER -> js_not_slow_plain(x, log)
OP_post_inc(big, op, x, log) ==
    IF big THEN js_post_inc_slow(op, x, log) ELSE js_post_inc_slow_plain(op, x, log)

QuickUnary(op, x) ==
    CASE op = "plus" -> OP_plus(x)
      [] op = "neg" -> OP_neg(x)
      [] OTHER -> OP_inc(op, x)
UnaryFrom(v, big, op, x, log) ==
    IF v = Slow THEN SlowUnary(big, op, x, log) ELSE Ok(v, log)
Unary(big, op, x, log) ==
    CASE op = "not" -> OP_not(big, x, log)
      [] op \in {"post_inc", "post_dec"} ->
            OP_post_inc(big, IF op = "post_inc" THEN "inc" ELSE "dec", x, log)
      [] OTHER -> UnaryFrom(QuickUnary(op, x), big, op, x, log)

\* The operators that work in place on a local variable; after an exception
\* the variable is undefined.
InPlace(r, var) == [r |-> r, var |-> IF r.ok THEN r.v ELSE var]
OP_inc_loc(big, op, var, log) ==
    IF var.t = "int" /\ ~AtEdge(op, var.n)
    THEN InPlace(Ok(IntV(var.n + StepOf(op)), log), var)
    ELSE InPlace(SlowUnary(big, op, var, log), Undefined)
AppendTo(var, r) ==
    IF r.ok THEN InPlace(JS_ConcatString(var, r.v, r.log), Undefined)
    ELSE InPlace(r, var)
OP_add_loc(big, var, y, log) ==
    CASE BothInt(var, y) /\ Fits(var.n + y.n) ->
            InPlace(Ok(IntV(var.n + y.n), log), var)
      [] var.t = "string" -> AppendTo(var, JS_ToPrimitiveFree(y, "default", log))
      [] OTHER -> InPlace(SlowBinary(big, "add", var, y, log), Undefined)

-----------------------------------------------------------------------------
(* The calls that TLC makes: in F the kind, the operators and the operands. *)

ArithOps == {"add", "sub", "mul", "div", "mod", "pow"}
LogicOps == {"shl", "sar", "shr", "and", "or", "xor"}
M(k, v) == [k |-> k, v |-> v]
No == M("undefined", Undefined)
Gives(v) == M("returns", v)
Fails == M("throws", Undefined)
GetFails == M("getthrows", Undefined)
Obj(p, v, s) == [toPrimitive |-> p, valueOf |-> v, toString |-> s]

Two == String(<<50>>)
MCObjects ==
    [plain |-> Obj(No, Gives(IntV(3)), Gives(Two)),
     other |-> Obj(M("null", Null), Gives(Object("other")), Gives(Float(OfInt(9)))),
     exotic |-> Obj(Gives(IntV(-8)), Fails, Fails),
     broken |-> Obj(No, Fails, Gives(Two)),
     stuck |-> Obj(No, M("notcallable", Null), Gives(Object("plain"))),
     getter |-> Obj(No, M("notcallable", Null), GetFails),
     hidden |-> Obj(GetFails, Gives(IntV(1)), Gives(Two)),
     wrong |-> Obj(M("notcallable", Null), Gives(IntV(1)), Gives(Two)),
     deep |-> Obj(Gives(Object("plain")), Gives(IntV(1)), Gives(Two)),
     named |-> Obj(No, Gives(Symbol("s")), Fails),
     big |-> Obj(No, Gives(BigInt(5, FALSE)), Gives(Two))]

Ints == {IntV(n) : n \in IntMin(IntBits) .. IntMax(IntBits)}
Finite(qs) == {Float(Fin(neg, q)) : neg \in BOOLEAN, q \in qs}
Specials == {Float(NaN), Float(Inf(FALSE)), Float(Inf(TRUE))}
Doubles == {d \in {Fin(neg, q) : neg \in BOOLEAN, q \in 0 .. 2 ^ 15 - 1} :
                d = Rounds(d.neg, d.q, 1)}
Floats == Finite({0, 1, 6, 31, 32, 34, 64, 2 ^ 7, 31 * Unit, 2 ^ 10}) \cup Specials
WholeFloats == Finite({0, 8, 32, 36, 2 ^ 10}) \cup Specials
Strings == {String(s) : s \in {<<>>, <<50>>, <<32, 45, 56, 32>>, <<49, 54>>, <<120>>,
                               <<45, 48>>}}
Bigs == {BigInt(n, FALSE) : n \in {-9, -1, 0, 3, 8, 33, 65}}
Others == {BoolV(TRUE), BoolV(FALSE), Null, Undefined, Symbol("s"), Symbol("t")}
Objs == {Object(o) : o \in DOMAIN MCObjects}
Mixed == {IntV(0), IntV(3), IntV(-8), Float(MinusZero), Float(NaN), Float(OfInt(9))}
            \cup Strings \cup Others \cup Objs \cup {BigInt(0, FALSE), BigInt(5, FALSE)}

F(kind, ops, xs, ys) == [kind |-> kind, ops |-> ops, xs |-> xs, ys |-> ys]
None == {Undefined}

ArithCalls == {
    F("binary", ArithOps \cup LogicOps, Ints, Ints),
    F("binary", (ArithOps \ {"pow"}) \cup LogicOps, Floats, Floats \cup Ints),
    F("binary", {"pow"}, WholeFloats \cup Ints, WholeFloats),
    F("binary", (ArithOps \ {"pow"}) \cup LogicOps, Ints, Floats),
    F("unary", {"plus", "neg", "inc", "dec", "not", "post_inc", "post_dec"},
      Floats \cup Ints, None)}

MixedCalls == {
    F("binary", {"add", "sub", "and", "shr", "lt", "gte", "eq", "neq",
                 "strict_eq"}, Mixed, Mixed),
    F("binary", ArithOps \cup LogicOps, {b \in Bigs : b.n < 9},
      {BigInt(n, FALSE) : n \in {-1, 0, 2}} \cup {IntV(1), Float(OfInt(9))}),
    F("unary", {"plus", "neg", "inc", "dec", "not", "post_inc", "post_dec"},
      Mixed \cup Bigs, None),
    F("local", {"add_loc"}, Mixed, Mixed),
    F("local", {"inc", "dec"}, Mixed \cup Ints, None)}

CompareCalls == {
    F("compare", {"all"}, Mixed \cup Bigs, Mixed \cup Bigs),
    F("compare", {"all"}, Floats \cup Bigs, Floats \cup Bigs \cup Ints),
    F("same", {"all"}, Mixed \cup Floats, Mixed \cup Floats)}

ConvertCalls == {
    F("convert", {"int32", "int64", "integer", "sat", "byte", "length"},
      {Float(d) : d \in Doubles} \cup Specials, None),
    F("convert", {"clamp", "clamp64", "clamp64_wraps"},
      {Float(d) : d \in Doubles} \cup Specials, {IntV(0), IntV(5)}),
    F("convert", {"string", "number", "default", "int32", "int64", "integer",
                  "sat", "byte", "length", "bigint", "bool", "typeof"},
      Mixed \cup Ints \cup Bigs, None)}

Families == ArithCalls \cup MixedCalls \cup CompareCalls \cup ConvertCalls

-----------------------------------------------------------------------------
(* Operators and conversions are applied one at a time, in both builds of  *)
(* the library.                                                            *)

VARIABLES
    call,       \* the call being made, or Idle
    result      \* what it returned, or Idle

vars == <<call, result>>

Idle == [kind |-> "idle"]

Init == call = Idle /\ result = Idle

Call ==
    /\ call = Idle
    /\ \E f \in Families : \E op \in f.ops, x \in f.xs, y \in f.ys :
            call' = [kind |-> f.kind, op |-> op, x |-> x, y |-> y]
    /\ UNCHANGED result

\* The build without bigints has no values of that type.
Values(x) ==
    {x} \cup (IF x.t = "object"
              THEN {Objects[x.id][name].v : name \in DOMAIN Objects[x.id]}
              ELSE {})
UsesBigInt(c) == \E v \in Values(c.x) \cup Values(c.y) : v.t = "bigint"
Builds(c) == IF UsesBigInt(c) THEN {TRUE} ELSE BOOLEAN

Returns(kind, r) ==
    /\ call.kind = kind /\ result = Idle
    /\ result' = [kind |-> kind, r |-> r]
    /\ UNCHANGED call

BinaryCall == Returns("binary",
    [big \in Builds(call) |-> Binary(big, call.op, call.x, call.y, <<>>)])
UnaryCall == Returns("unary",
    [big \in Builds(call) |-> Unary(big, call.op, call.x, <<>>)])
LocalCall == Returns("local",
    [big \in Builds(call) |->
        IF call.op = "add_loc" THEN OP_add_loc(big, call.x, call.y, <<>>)
        ELSE OP_inc_loc(big, call.op, call.x, <<>>)])

Comparisons == {"lt", "lte", "gt", "gte", "eq", "neq", "strict_eq", "strict_neq"}
CompareCall == Returns("compare",
    [big \in Builds(call) |-> [op \in Comparisons |->
        [i \in 1 .. 2 |-> Binary(big, op, IF i = 1 THEN call.x ELSE call.y,
                                  IF i = 1 THEN call.y ELSE call.x, <<>>)]]])
SameCall == Returns("same",
    [mode \in {"strict", "zero", "same"} |-> js_strict_eq2(call.x, call.y, mode)])

Converted(op, x, y) ==
    CASE op = "int32" -> JS_ToInt32Free(x, <<>>)
      [] op = "int64" -> JS_ToInt64Ext(x, <<>>)
      [] op = "integer" -> JS_ToIntegerFree(x, <<>>)
      [] op = "sat" -> JS_ToInt32SatFree(x, <<>>)
      [] op = "clamp" -> JS_ToInt32Clamp(x, 0, y.n, y.n, <<>>)
      [] op = "clamp64" -> JS_ToInt64Clamp(x, 0, y.n, y.n, "saturates", <<>>)
      [] op = "clamp64_wraps" -> JS_ToInt64Clamp(x, 0, y.n, y.n, "wraps", <<>>)
      [] op = "byte" -> JS_ToUint8ClampFree(x, <<>>)
      [] op = "length" -> JS_ToArrayLengthFree(x, <<>>)
      [] op = "bigint" -> JS_ToBigIntFree(x, <<>>)
      [] op = "bool" -> Ok(BoolV(JS_ToBoolFree(x)), <<>>)
      [] op = "typeof" -> Ok([t |-> js_operator_typeof(x)], <<>>)
      [] OTHER -> JS_ToPrimitiveFree(x, op, <<>>)
ConvertCall == Returns("convert", Converted(call.op, call.x, call.y))

Done == result # Idle /\ call' = Idle /\ result' = Idle

Next ==
    \/ Call \/ BinaryCall \/ UnaryCall \/ LocalCall \/ CompareCall \/ SameCall
    \/ ConvertCall \/ Done

Spec == Init /\ [][Next]_vars

Returned(kind) == call.kind = kind /\ result # Idle

-----------------------------------------------------------------------------
(* What the operators promise.                                             *)

IsNumber(x) == x.t \in {"int", "float"}

PostOps == {"post_inc", "post_dec"}
StepName(op) == CASE op = "post_inc" -> "inc" [] op = "post_dec" -> "dec"
                  [] OTHER -> op
\* The build without bigints adds two before it takes one away.
TwoFits(d) == d.k = "fin" => LET s == DAdd(d, OfInt(2))
                             IN s.k = "fin" /\ Signed(s) = Signed(d) + 2 * Unit
RoundsTwice(big, x) == ~big /\ call.op = "post_inc" /\ ~TwoFits(DoubleOf(x))
StepsOnce(big, x) ==
    LET r == result.r[big]
        d == DoubleOf(x)
    IN /\ DoubleOf(r.v) = IF RoundsTwice(big, x) THEN DSub(DAdd(d, OfInt(2)), DOne)
                          ELSE UnaryDouble(StepName(call.op), d)
       /\ call.op \in PostOps => DoubleOf(r.old) = d

\* Whatever path the interpreter takes, arithmetic on two numbers gives what
\* the operation on two doubles gives, the sign of zero included: OP_add ...
\* OP_mod, js_add_slow and js_binary_arith_slow of both builds, and the steps
\* by one; only x++ without bigints is x + 2 - 1 where x + 2 has to be rounded,
\* so that it may leave x as it is.
NumbersActAsDoubles ==
    /\ Returned("binary") /\ call.op \in ArithOps
            /\ IsNumber(call.x) /\ IsNumber(call.y) =>
        \A big \in BOOLEAN :
            LET v == result.r[big].v
            IN /\ IsNumber(v)
               /\ DoubleOf(v) = FloatOp(call.op, DoubleOf(call.x), DoubleOf(call.y))
    /\ Returned("unary") /\ IsNumber(call.x) /\ call.op # "not" =>
        \A big \in BOOLEAN : StepsOnce(big, call.x)

\* The integer part of a double, as mathematics has it.
Integer(d) == IF d.k = "fin" THEN WholeOf(d) ELSE 0
AsInt32(x) == Wrap(Integer(DoubleOf(x)), IntBits)
BitsOf(n) == {i \in 0 .. IntBits - 1 : (Bits(n, IntBits) \div 2 ^ i) % 2 = 1}
Positions == 0 .. IntBits - 1
Expected(op, a, n) ==       \* the bits of a shifted by n
    CASE op = "shl" -> {i \in Positions : i - n \in BitsOf(a)}
      [] op = "shr" -> {i \in Positions : i + n \in BitsOf(a)}
      [] op = "sar" -> {i \in Positions :
                            i + n \in BitsOf(a) \/ (i + n >= IntBits /\ a < 0)}
      [] op = "and" -> BitsOf(a) \cap BitsOf(n)
      [] op = "or" -> BitsOf(a) \cup BitsOf(n)
      [] op = "xor" -> (BitsOf(a) \cup BitsOf(n)) \ (BitsOf(a) \cap BitsOf(n))

\* Bitwise operators and shifts work on the integer part of their operands
\* modulo 2^32, and shift by a count modulo 32; >>> alone is unsigned:
\* js_binary_logic_slow, js_shr_slow, js_not_slow and JS_ToInt32Free.
BitwiseOnInt32 ==
    /\ Returned("binary") /\ call.op \in LogicOps
            /\ IsNumber(call.x) /\ IsNumber(call.y) =>
        \A big \in BOOLEAN :
            LET v == result.r[big].v
                n == Integer(DoubleOf(v))
                count == IF call.op \in {"shl", "sar", "shr"}
                         THEN AsInt32(call.y) % IntBits ELSE AsInt32(call.y)
            IN /\ BitsOf(n) = Expected(call.op, AsInt32(call.x), count)
               /\ IF call.op = "shr" THEN n >= 0
                  ELSE n \in IntMin(IntBits) .. IntMax(IntBits)
    /\ Returned("unary") /\ IsNumber(call.x) /\ call.op = "not" =>
        \A big \in BOOLEAN :
            BitsOf(result.r[big].v.n) = Positions \ BitsOf(AsInt32(call.x))

Alike(v, w) == \/ v = w
               \/ IsNumber(v) /\ IsNumber(w) /\ DoubleOf(v) = DoubleOf(w)
Agree(r, s) == r.ok = s.ok /\ r.e = s.e /\ r.log = s.log /\ Alike(r.v, s.v)

\* A program without bigints runs the same in both builds: the same result or
\* exception after the same methods, though no function is shared; but for
\* x++ where x + 2 has to be rounded.
BuildsAgree ==
    /\ Returned("binary") \/ Returned("unary")
    /\ ~UsesBigInt(call)
    /\ IsNumber(call.x) => ~RoundsTwice(FALSE, call.x)
    =>
        /\ Agree(result.r[TRUE], result.r[FALSE])
        /\ "old" \in DOMAIN result.r[TRUE] =>
                Alike(result.r[TRUE].old, result.r[FALSE].old)

IsObject(x) == x.t = "object"
Throws(entry) ==
    \/ Objects[entry[1]][entry[3]].k = "getthrows"
    \/ entry[2] = "call" /\ Objects[entry[1]][entry[3]].k = "throws"
LogInOrder(r, x, y) ==
    LET log == r.log
    IN /\ \A i, j \in DOMAIN log : i # j => log[i] # log[j]
       /\ \A i, j \in DOMAIN log :
            (IsObject(x) /\ x # y /\ log[i][1] = x.id /\ log[j][1] # x.id) => i < j
       /\ \A i \in DOMAIN log : Throws(log[i]) => (i = Len(log) /\ r.e = "user")

\* An operand that is an object is converted at most once, the left one before
\* the right one, and nothing runs after a method that threw; the strings and
\* numbers that the methods return are not converted again through them:
\* every js_..._slow function, js_post_inc_slow above all.
ConvertedOnceInOrder ==
    (Returned("binary") \/ Returned("unary")) /\ call.x # call.y =>
        \A big \in DOMAIN result.r : LogInOrder(result.r[big], call.x, call.y)

\* A bigint meets only bigints in arithmetic: with a number the result is a
\* TypeError, never a number or a rounded bigint, and ">>>" takes none at all.
BigIntsKeepApart ==
    Returned("binary") /\ call.op \in ArithOps \cup LogicOps
            /\ tag_is_number(call.x) /\ tag_is_number(call.y)
            /\ "bigint" \in {call.x.t, call.y.t} =>
        LET r == result.r[TRUE]
        IN /\ r.ok => r.v.t = "bigint"
           /\ call.x.t # call.y.t \/ call.op = "shr" => r.e = "TypeError"

Truth(big, op, i) == result.r[big][op][i].v.n = 1
Succeeds(big) == \A op \in Comparisons, i \in 1 .. 2 : result.r[big][op][i].ok

\* x == y and y == x agree in both builds, and the negated operators are
\* their negations, whatever the types: js_eq_slow.
EqualitySymmetric ==
    Returned("compare") => \A big \in DOMAIN result.r : Succeeds(big) =>
        /\ Truth(big, "eq", 1) = Truth(big, "eq", 2)
        /\ Truth(big, "strict_eq", 1) = Truth(big, "strict_eq", 2)
        /\ Truth(big, "neq", 1) # Truth(big, "eq", 1)
        /\ Truth(big, "strict_neq", 1) # Truth(big, "strict_eq", 1)
        /\ Truth(big, "strict_eq", 1) => Truth(big, "eq", 1)
        /\ Truth(TRUE, "eq", 1) = Truth(big, "eq", 1)

\* x < y is y > x and x <= y is y >= x, the operands of mixed types included,
\* and x <= y says x < y or, of numbers and bigints, x == y:
\* js_relational_slow and js_compare_bigfloat.
OrderConsistent ==
    Returned("compare") => \A big \in DOMAIN result.r : Succeeds(big) =>
        /\ Truth(big, "lt", 1) = Truth(big, "gt", 2)
        /\ Truth(big, "lte", 1) = Truth(big, "gte", 2)
        /\ ~(Truth(big, "lt", 1) /\ Truth(big, "gte", 1))
        /\ tag_is_number(call.x) /\ tag_is_number(call.y) =>
                Truth(big, "lte", 1) = (Truth(big, "lt", 1) \/ Truth(big, "eq", 1))

Units(x) == IF x.t = "float" THEN Signed(x.d) ELSE x.n * Unit
\* Two finite numbers, bigints among them, compare as the mathematical values
\* they are, also where a bigint has more bits than a double holds.
ComparesExactly ==
    Returned("compare") /\ tag_is_number(call.x) /\ tag_is_number(call.y)
            /\ (\A x \in {call.x, call.y} : x.t = "float" => x.d.k = "fin") =>
        \A big \in DOMAIN result.r :
            /\ Truth(big, "lt", 1) = (Units(call.x) < Units(call.y))
            /\ Truth(big, "eq", 1) = (Units(call.x) = Units(call.y))

\* Object.is is finer than the equality of Map keys, which differs from ===
\* for NaN alone: js_strict_eq2 with its three modes.
EqualityLevels ==
    Returned("same") =>
        LET r == result.r
            nans == IsNaN(call.x) /\ IsNaN(call.y)
        IN /\ r["same"] => r["zero"]
           /\ r["zero"] = (r["strict"] \/ nans)
           /\ r["zero"] /\ ~r["same"] =>
                \A x \in {call.x, call.y} : IsNumber(x) /\ IsZero(DoubleOf(x))

OperandFails ==
    call.op = "add_loc" /\ call.x.t = "string" /\ ~JS_ToPrimitiveFree(call.y, "default", <<>>).ok
\* `x += y`, `x++` and `x--` on a local variable in place do what the
\* operator does: OP_add_loc, OP_inc_loc and OP_dec_loc.  After an exception
\* the variable is undefined, where the language leaves it alone (XXX at 17851
\* and 17861); it is left alone only when the operand of a string fails.
InPlaceAgrees ==
    Returned("local") => \A big \in DOMAIN result.r :
        LET r == result.r[big]
            out == IF call.op = "add_loc" THEN Binary(big, "add", call.x, call.y, <<>>)
                   ELSE Unary(big, call.op, call.x, <<>>)
        IN /\ Agree(r.r, out)
           /\ r.var = CASE r.r.ok -> r.r.v
                        [] OperandFails -> call.x
                        [] OTHER -> Undefined

-----------------------------------------------------------------------------
(* What the conversions promise.                                           *)

NumberOf(x) == JS_ToNumericFree(x, <<>>)
OfNumber(x) == NumberOf(x).ok /\ IsNumber(NumberOf(x).v)
ValueOf(x) == DoubleOf(NumberOf(x).v)
Limit(d, lo, hi) ==     \* the integer part between two bounds
    CASE d.k = "nan" -> 0
      [] Place(d) < lo * Unit -> lo
      [] Place(d) > hi * Unit -> hi
      [] OTHER -> WholeOf(d)
ConvertedNumber(op) == Returned("convert") /\ call.op = op /\ OfNumber(call.x)

\* The conversions to 32 and 64 bits give the integer part modulo a power of
\* two for every double, also for those that no integer of the machine holds:
\* the shifts of JS_ToInt32Free and JS_ToInt64Free.
IntegersModular ==
    /\ ConvertedNumber("int32") =>
            result.r.v.n = Wrap(Integer(ValueOf(call.x)), IntBits)
    /\ ConvertedNumber("int64") =>
            result.r.v.n = Wrap(Integer(ValueOf(call.x)), Long)
    /\ ConvertedNumber("integer") =>
            LET d == ValueOf(call.x)
            IN DoubleOf(result.r.v) =
                IF d.k = "inf" THEN d ELSE OfInt(Integer(d))

\* Saturating conversions give the nearest integer of the range, a relative
\* index stays between its bounds, and a byte is the nearest one, ties to
\* even: JS_ToInt32SatFree, JS_ToInt32Clamp and JS_ToUint8ClampFree.
ClampsToNearest ==
    /\ ConvertedNumber("sat") =>
            result.r.v.n = Limit(ValueOf(call.x), IntMin(IntBits), IntMax(IntBits))
    /\ ConvertedNumber("clamp") =>
            LET i == Limit(ValueOf(call.x), IntMin(IntBits), IntMax(IntBits))
            IN result.r.v.n = Limit(OfInt(IF i < 0 THEN i + call.y.n ELSE i),
                                    0, call.y.n)
    /\ \A op \in {"clamp64", "clamp64_wraps"} :
            ConvertedNumber(op) => result.r.v.n \in 0 .. call.y.n
    /\ ConvertedNumber("byte") =>
            LET d == ValueOf(call.x)
                n == result.r.v.n
                off == AbsOf(2 * n * Unit - 2 * Place(d))
            IN /\ n \in 0 .. ByteMax
               /\ (d.k = "fin" /\ Place(d) \in 0 .. ByteMax * Unit) =>
                    off < Unit \/ (off = Unit /\ n % 2 = 0)
               /\ Place(d) > ByteMax * Unit => n = ByteMax

\* A length is accepted if and only if it is a whole number of 32 bits, and
\* then it is kept as it is: JS_ToArrayLengthFree.
LengthsExact ==
    ConvertedNumber("length") =>
        LET d == ValueOf(call.x)
            whole == IsWhole(d) /\ Place(d) \in 0 .. (2 ^ IntBits - 1) * Unit
        IN /\ result.r.ok = whole
           /\ result.r.ok => result.r.v.n * Unit = Place(d)

Candidates(o, hint) ==
    LET order == IF hint = "string" THEN <<"toString", "valueOf">>
                 ELSE <<"valueOf", "toString">>
    IN {i \in 1 .. 2 : LET m == Objects[o][order[i]]
                       IN m.k \in {"throws", "getthrows"}
                            \/ (m.k = "returns" /\ m.v.t # "object")}
Decisive(o, hint) ==
    LET i == CHOOSE i \in Candidates(o, hint) :
                \A j \in Candidates(o, hint) : i <= j
    IN Objects[o][IF (hint = "string") = (i = 1) THEN "toString" ELSE "valueOf"]

\* The methods of an object are tried in the order of the hint, one that
\* returns an object or cannot be called is passed over, and
\* Symbol.toPrimitive, if there is one, decides alone: JS_ToPrimitiveFree.
PrimitiveByTheHint ==
    Returned("convert") /\ IsObject(call.x)
            /\ call.op \in {"string", "number", "default"} =>
        LET o == call.x.id
            exotic == Objects[o].toPrimitive
            r == result.r
            m == IF exotic.k \in {"undefined", "null"}
                 THEN Decisive(o, call.op) ELSE exotic
            some == exotic.k \notin {"undefined", "null"}
                        \/ Candidates(o, call.op) # {}
        IN /\ r.ok = (some /\ m.k = "returns" /\ m.v.t # "object")
           /\ r.ok => r.v = m.v
           /\ ~r.ok => (r.e = "user") = (some /\ m.k \in {"throws", "getthrows"})

\* js_add_slow, js_binary_arith_slow, js_binary_logic_slow and the fast cases of
\* the interpreter: however a number is represented, and with each of the
\* builds, operators and integer conversions give what the language says, but
\* for x++ near the largest integers in the build without bigints, and for the
\* variable that is lost when `x += y` or x++ throws.
NumbersAsLanguage ==
    /\ NumbersActAsDoubles /\ BitwiseOnInt32 /\ BuildsAgree /\ BigIntsKeepApart
    /\ InPlaceAgrees /\ IntegersModular /\ ClampsToNearest /\ LengthsExact

\* JS_ToPrimitiveFree, js_relational_slow and js_eq_slow: operands are converted
\* once, in order and by the hint, and comparisons are those of the
\* mathematical values: symmetric, consistent and exact.
ComparesAsLanguage ==
    /\ ConvertedOnceInOrder /\ PrimitiveByTheHint /\ EqualitySymmetric
    /\ OrderConsistent /\ ComparesExactly /\ EqualityLevels
=============================================================================
