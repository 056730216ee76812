------------------------- MODULE BigFloatArithmetic -------------------------
(***************************************************************************)
(* Calls of the functions of Limbs and BigFloat, one at a time, against    *)
(* exact arithmetic: an operation on arrays is exact, a result of an       *)
(* operation on numbers is the exact one rounded once.                     *)
(***************************************************************************)
EXTENDS BigFloat, Rounding

(* The calls that TLC makes. *)

Numbers(signs, tabs, expns) ==
    {[sign |-> s, expn |-> e, tab |-> t] : s \in signs, e \in expns,
                                           t \in tabs}

Zeroes == {bf_set_zero(s) : s \in {0, 1}}
Specials == Zeroes \cup {bf_set_inf(s) : s \in {0, 1}} \cup {bf_set_nan}

\* The limbs at which roundings and carries turn, for limbs of four bits.
One == {<<8>>, <<9>>, <<12>>, <<15>>}
Two == {<<1, 8>>, <<8, 8>>, <<15, 11>>, <<15, 15>>}
Three == {<<1, 0, 8>>, <<8, 0, 12>>, <<15, 15, 15>>, <<1, 8, 10>>}

Op(op, as, bs, precs, flags, ks) ==
    [op |-> op, as |-> as, bs |-> bs, precs |-> precs, flags |-> flags,
     ks |-> ks]

Nothing == {bf_set_nan}
Modes(rnds) == {Plain(r) : r \in rnds}
Narrow(rnds) == {[rnd |-> r, radpnt |-> FALSE, subnormal |-> s,
                  expBits |-> 3] : r \in rnds, s \in BOOLEAN}

\* Sums whose operands overlap, touch or lie apart.
SumCalls == {
    Op("add", Numbers({0}, One \cup Two, {1}),
              Numbers({0, 1}, One \cup Two, {-9, -5, -4, -3, -1, 0, 1}),
       {2, 6}, Modes({"N", "D", "F"}), {0}),
    Op("sub", Numbers({0}, Two \cup Three, {1}),
              Numbers({0, 1}, Two \cup Three, {-9, -4, -1, 1}),
       {3, PREC_INF}, Modes(RoundingModes \ {"N", "F"}), {0})}

\* Products, quotients and roots; with few bits of exponent too.
MulCalls == {
    Op("mul", Numbers({0, 1}, One \cup Two, {1}), Numbers({0}, One \cup Two \cup Three, {0}),
       {2, 7}, Modes(RoundingModes \ {"F"}), {0}),
    Op("mul", Numbers({0, 1}, Two \cup Three \cup {<<15, 10, 10>>, <<15, 15, 11>>}, {1}),
              Numbers({0}, Two \cup Three \cup {<<15, 10, 10>>, <<15, 15, 11>>}, {0}),
       {2, 5, 6, 7}, Modes({"F"}), {0}),
    Op("div", Numbers({0, 1}, One \cup Two, {1}), Numbers({0}, One \cup Two, {-1}),
       {2, 6}, Modes(RoundingModes), {0}),
    Op("sqrt", Numbers({0}, One \cup Two \cup Three, {-1, 0, 1, 2}), Nothing,
       {2, 3, 6}, Modes(RoundingModes), {0}),
    Op("pow", Numbers({0, 1}, One, {2}), Nothing, {PREC_INF}, {ToZero}, 0 .. 5),
    Op("round", Numbers({0, 1}, One \cup Two, -6 .. 5), Nothing,
       {2, 4}, Narrow(RoundingModes), {0}),
    Op("round", Numbers({0, 1}, One \cup Two, -1 .. 9), Nothing,
       {0, 1}, {[f EXCEPT !.radpnt = TRUE] : f \in Modes(RoundingModes)}, {0}),
    Op("mul2exp", Numbers({0, 1}, Two, {1}), Nothing, {3}, Narrow(RoundingModes),
       -6 .. 5)}

SomeNumbers == Numbers({0, 1}, One \cup Two, -1 .. 1) \cup Specials
Integers8 == Numbers({0, 1}, {<<8>>, <<10>>, <<12>>, <<15>>}, {4})
             \cup Numbers({0, 1}, {<<8>>}, 1 .. 9)
             \cup Numbers({0, 1}, {<<1, 8>>, <<8, 12>>, <<15, 15>>, <<10, 10>>}, {8})
             \cup Numbers({0, 1}, Three, {12}) \cup Zeroes

\* Remainders, comparisons, bitwise operations and conversions to integers.
IntegerCalls == {
    Op("divrem", Numbers({0, 1}, One \cup Two, {1, 5}),
       Numbers({0, 1}, One \cup Two, {1}), {0}, Modes(RoundingModes), {0}),
    Op("sqrtrem", Integers8 \cap Numbers({0}, One \cup Two \cup Three \cup {<<10>>}, 0 .. 12),
             Nothing, {0}, {ToZero}, {0}),
    Op("cmp", SomeNumbers, SomeNumbers, {0}, {ToZero}, {0}),
    Op("or", Integers8, Integers8, {0}, {ToZero}, {0}),
    Op("xor", Integers8, Integers8, {0}, {ToZero}, {0}),
    Op("and", Integers8, Integers8, {0}, {ToZero}, {0}),
    Op("int", Numbers({0, 1}, One \cup Two, -1 .. 9) \cup Specials, Nothing, {0},
             {ToZero}, {3, 4})}

CanRoundCalls == {
    Op("can_round", Numbers({0}, {<<l>> : l \in 8 .. 15}
            \cup {<<l, h>> : l \in {1, 8, 15}, h \in 8 .. 15}, {0}),
       Nothing, 2 .. 4, Modes(RoundingModes), 3 .. 8)}

\* Doubles with two bits of exponent and one of mantissa.
DoubleCalls == {
    Op("set_float", Nothing, Nothing, Limb, {ToZero}, {2}),
    Op("get_float", Numbers({0, 1}, One \cup Two \cup {<<10>>, <<11>>, <<13>>, <<14>>, <<8, 14>>}, -4 .. 4)
                \cup Specials,
       Nothing, {0}, Modes({"N", "Z"}), {2})}

\* Arrays of n limbs of a set; the highest limb is in tops.
Arrays(n, limbs, tops) ==
    {Append(t, h) : t \in [1 .. n - 1 -> limbs], h \in tops}

LimbOp(op, as, bs, ks) == Op(op, as, bs, {0}, {ToZero}, ks)
NoArray == {<<>>}

\* The limbs at which carries, borrows and estimates turn.
Edges == {0, 1, Base \div 2 - 1, Base \div 2, AllOnes}
NormalLimb == {l \in Limb : l >= Base \div 2}
NormalEdges == {Base \div 2, Base \div 2 + 1, AllOnes}

LinearCalls ==
    LET three == Arrays(3, {0, 1, AllOnes}, {0, Base \div 2, AllOnes})
    IN {LimbOp("limb_add", three, three, {0, 1}),
        LimbOp("limb_sub", three, three, {0, 1}),
        LimbOp("limb_add_ui", three, NoArray, Limb),
        LimbOp("limb_sub_ui", three, NoArray, Limb),
        LimbOp("limb_neg", three, NoArray, {0, 1}),
        LimbOp("limb_shr", Arrays(3, Edges, Edges), NoArray, 1 .. LIMB_BITS - 1),
        LimbOp("limb_mul", Arrays(3, Edges, Edges), Arrays(2, Edges, Edges), {0})}

\* Both methods of division, with quotients shorter and longer than the
\* divisor.
DivCalls == {
    LimbOp("limb_div", Arrays(2, Edges, Limb), Arrays(1, Limb, NormalLimb), {0}),
    LimbOp("limb_div", Arrays(3, Edges, Edges), Arrays(1, Limb, NormalEdges), {0}),
    LimbOp("limb_div", Arrays(3, Edges, Edges), Arrays(2, Edges, NormalEdges), {0}),
    LimbOp("limb_div", Arrays(4, {0, 1, AllOnes}, Edges),
                       Arrays(2, Edges, NormalEdges), {0}),
    LimbOp("limb_div", Arrays(5, {0, AllOnes}, {0, AllOnes}),
                       Arrays(3, Edges, NormalEdges), {0}),
    LimbOp("limb_div", Arrays(7, {0, AllOnes}, {0, AllOnes}),
                       Arrays(3, {0, AllOnes}, {Base \div 2, AllOnes})
                            \cup Arrays(4, {0, AllOnes}, {Base \div 2}), {0}),
    LimbOp("limb_recip", Arrays(1, Limb, NormalLimb) \cup Arrays(2, Edges \cup {3}, NormalLimb)
                            \cup Arrays(3, Edges, NormalLimb), NoArray, {0})}

\* Roots: the highest limb is at least a quarter of Base.
Quarter == {l \in Limb : l >= Base \div 4}
RootCalls == {
    LimbOp("limb_sqrt", Arrays(2, Edges \cup {3}, Quarter), NoArray, {0}),
    LimbOp("limb_sqrt", Arrays(4, {0, 1, AllOnes}, Quarter), NoArray, {0}),
    LimbOp("limb_sqrt", Arrays(6, {0, AllOnes},
                               Quarter \cap (Edges \cup {Base \div 4})), NoArray, {0}),
    LimbOp("limb_isqrt", NoArray, NoArray, Limb),
    Op("word_sqrt", NoArray, NoArray, {8}, {ToZero}, 64 .. 255),
    Op("word_sqrt", NoArray, NoArray, {16}, {ToZero}, {a \in 16384 .. 65535 : a % 97 < 2})}

-----------------------------------------------------------------------------
VARIABLES
    call,       \* the call being made, or Idle
    result      \* what it returned, or Idle

vars == <<call, result>>

Idle == [op |-> "idle"]

Init == call = Idle /\ result = Idle

CallOf(families) ==
    /\ call = Idle
    /\ \E f \in families : \E a \in f.as, b \in f.bs, prec \in f.precs,
                              flags \in f.flags, k \in f.ks :
            call' = [op |-> f.op, a |-> a, b |-> b, prec |-> prec,
                     flags |-> flags, k |-> k]
    /\ UNCHANGED result
Call ==
    \/ CallOf(SumCalls \cup MulCalls \cup IntegerCalls \cup CanRoundCalls \cup DoubleCalls)
    \/ CallOf(LinearCalls \cup DivCalls \cup RootCalls)

Returns(op, r) ==
    /\ call.op = op /\ result = Idle
    /\ result' = r
    /\ UNCHANGED call

Add == Returns("add", bf_add(call.a, call.b, call.prec, call.flags))
Sub == Returns("sub", bf_sub(call.a, call.b, call.prec, call.flags))
Mul == Returns("mul", bf_mul(call.a, call.b, call.prec, call.flags))
Div == Returns("div", bf_div(call.a, call.b, call.prec, call.flags))
Sqrt == Returns("sqrt", bf_sqrt(call.a, call.prec, call.flags))
Pow == Returns("pow", bf_pow_ui(call.a, call.k, call.prec, call.flags))
RoundCall == Returns("round", bf_round(call.a, call.prec, call.flags))
Mul2Exp == Returns("mul2exp",
                   bf_mul_2exp(call.a, call.k, call.prec, call.flags))
Divrem == Returns("divrem",
            bf_divrem(call.a, call.b, PREC_INF, ToZero, call.flags.rnd))
SqrtRem == Returns("sqrtrem", bf_sqrtrem(call.a))
Compare == Returns("cmp", [cmp |-> bf_cmp(call.a, call.b),
                           full |-> bf_cmp_full(call.a, call.b)])
Logic(op) == Returns(op, Ret(bf_logic_op(call.a, call.b, op), {}))
CanRound == Returns("can_round",
                [can |-> bf_can_round(call.a, call.prec, call.flags.rnd,
                                      call.k)])
GetInt == Returns("int", [plain |-> bf_get_int(call.a, call.k, FALSE),
                          mod |-> bf_get_int(call.a, call.k, TRUE),
                          unsigned |-> bf_get_uint64(call.a),
                          low |-> bf_get_exp_min(call.a)])
GetFloat == Returns("get_float",
                [d |-> bf_get_float64(call.a, call.flags.rnd, call.k)])
SetFloat == Returns("set_float", Ret(bf_set_float64(call.prec, call.k), {}))

\* The functions on arrays of limbs.
LimbAdd == Returns("limb_add", mp_add(call.a, call.b, call.k))
LimbAddUi == Returns("limb_add_ui", mp_add_ui(call.a, call.k))
LimbSub == Returns("limb_sub", mp_sub(call.a, call.b, call.k))
LimbSubUi == Returns("limb_sub_ui", mp_sub_ui(call.a, call.k))
LimbNeg == Returns("limb_neg", mp_neg(call.a, call.k))
LimbShr == Returns("limb_shr", mp_shr(call.a, call.k, 0))
LimbMul == Returns("limb_mul", [tab |-> mp_mul(call.a, call.b)])
LimbDiv == Returns("limb_div", mp_divnorm(call.a, call.b))
LimbRecip == Returns("limb_recip", [tab |-> mp_recip(call.a)])
LimbSqrt == Returns("limb_sqrt", mp_sqrtrem(call.a))
LimbISqrt == Returns("limb_isqrt", [c |-> bf_isqrt(call.k)])
\* mp_sqrtrem1 with the second step of limbs of 64 bits.
WordSqrt == Returns("word_sqrt", WordRoot(call.k, call.prec, call.prec \div 8))

Done == result # Idle /\ call' = Idle /\ result' = Idle

Next ==
    \/ Call \/ Add \/ Sub \/ Mul \/ Div \/ Sqrt \/ Pow \/ RoundCall
    \/ Mul2Exp \/ Divrem \/ SqrtRem \/ Compare
    \/ \E op \in {"or", "xor", "and"} : Logic(op)
    \/ CanRound \/ GetInt \/ GetFloat \/ SetFloat
    \/ LimbAdd \/ LimbAddUi \/ LimbSub \/ LimbSubUi \/ LimbNeg \/ LimbShr
    \/ LimbMul \/ LimbDiv \/ LimbRecip \/ LimbSqrt \/ LimbISqrt
    \/ WordSqrt \/ Done

Spec == Init /\ [][Next]_vars

Returned(op) == call.op = op /\ result # Idle

-----------------------------------------------------------------------------
(* Exact arithmetic.  A positive number is [n, d, e]: n / d * 2^e, or the  *)
(* root of n * 2^e when d is 0.                                            *)

RECURSIVE Value(_)
Value(tab) == IF tab = <<>> THEN 0 ELSE tab[1] + Base * Value(Tail(tab))

IsFinite(a) == a.expn \notin {EXP_INF, EXP_NAN}
Exp2(a) == a.expn - Len(a.tab) * LIMB_BITS
Exact(a) == [n |-> Value(a.tab), d |-> 1, e |-> Exp2(a)]

\* n = m * 2^e with m odd: what makes two finite numbers equal.
RECURSIVE Odd(_, _)
Odd(n, e) == CASE n = 0 -> <<0, 0>>
               [] n # 0 /\ n % 2 = 1 -> <<n, e>>
               [] OTHER -> Odd(n \div 2, e + 1)

OddOf(a) == IF a.tab = <<>> THEN <<0, 0>> ELSE Odd(Value(a.tab), Exp2(a))

Shift(n, s) == IF s >= 0 THEN n * 2 ^ s ELSE n

\* Floor of n / d * 2^s, and whether that is all of it.
Quotient(n, d, s) ==
    [h |-> Shift(n, s) \div Shift(d, -s), all |-> Shift(n, s) % Shift(d, -s) = 0]

RootQuotient(n, s, h) ==
    [h |-> h, all |-> h * h * Shift(1, -s) = Shift(n, s)]

\* How many half units of 2^k there are in x.
HalfUnits(x, k) ==
    IF x.d = 0
    THEN RootQuotient(x.n, x.e - 2 * (k - 1),
            RootOf(Shift(x.n, x.e - 2 * (k - 1))
                    \div Shift(1, 2 * (k - 1) - x.e)))
    ELSE Quotient(x.n, x.d, x.e - (k - 1))

\* The exponent of x: 2^(e-1) <= x < 2^e.
ExponentOf(x) ==
    LET t == BitLen(x.n) - BitLen(x.d)
    IN IF x.d = 0 THEN (BitLen(x.n) + x.e + 1) \div 2
       ELSE x.e + (IF Shift(x.n, -t) >= Shift(x.d, t) THEN t + 1 ELSE t)

\* The unit of the last place the flags ask for.
Unit(x, prec, flags) ==
    CASE flags.radpnt -> -prec
      [] ~flags.radpnt /\ flags.subnormal /\ ExponentOf(x) < ExpMin(flags) ->
            ExpMin(flags) - prec
      [] OTHER -> ExponentOf(x) - prec

\* Mutants change the code, never this: does r stand for m * 2^k with sign,
\* within the limits of the exponent?
Stands(r, m, k, sign, prec, flags) ==
    LET e == BitLen(m) + k
        toInf == flags.rnd \in {"N", "NA", "A"}
                    \/ flags.rnd = (IF sign = 1 THEN "D" ELSE "U")
    IN CASE m = 0 \/ (e < ExpMin(flags) /\ ~flags.subnormal /\ ~flags.radpnt) ->
                r = bf_set_zero(sign)
         [] m # 0 /\ e > ExpMax(flags) ->
                IF toInf THEN r = bf_set_inf(sign)
                ELSE r.sign = sign /\ OddOf(r)
                        = Odd(2 ^ prec - 1, ExpMax(flags) - prec)
         [] OTHER -> r.sign = sign /\ OddOf(r) = Odd(m, k)

\* r is x rounded once.
RoundsTo(r, x, sign, prec, flags) ==
    IF prec = PREC_INF THEN r.sign = sign /\ OddOf(r) = Odd(x.n, x.e)
    ELSE LET k == Unit(x, prec, flags)
             hu == HalfUnits(x, k)
         IN \E m \in Rounded(hu.h, hu.all, sign, flags.rnd) :
                Stands(r, m, k, sign, prec, flags)

\* The sum of two finite numbers as an integer times 2^LowExp.
LowExp(a, b) == Min({Exp2(x) : x \in {y \in {a, b} : y.tab # <<>>}})
Scaled(a, sign, e) ==
    IF a.tab = <<>> THEN 0
    ELSE (IF sign = 1 THEN -1 ELSE 1) * Value(a.tab) * 2 ^ (Exp2(a) - e)

SumRounds(r, a, b, bsign, prec, flags) ==
    IF a.tab = <<>> /\ b.tab = <<>>
    THEN r = bf_set_zero(IF a.sign = bsign THEN a.sign
                         ELSE Bit(flags.rnd = "D"))
    ELSE LET e == LowExp(a, b)
             sum == Scaled(a, a.sign, e) + Scaled(b, bsign, e)
         IN IF sum = 0 THEN r = bf_set_zero(Bit(flags.rnd = "D"))
            ELSE RoundsTo(r, [n |-> AbsOf(sum), d |-> 1, e |-> e],
                          SignBit(sum), prec, flags)

ProductOf(a, b) ==
    [n |-> Value(a.tab) * Value(b.tab), d |-> 1, e |-> Exp2(a) + Exp2(b)]
RatioOf(a, b) ==
    [n |-> Value(a.tab), d |-> Value(b.tab), e |-> Exp2(a) - Exp2(b)]

\* The code departs: with faithful rounding the factors of the product are cut
\* to FactorLen limbs, two of them by too much.
\* The result is then less than two units of the last place from the product.
Factor(a) == [a EXCEPT !.tab = HighLimbs(@, FactorLen(@, call.prec, call.flags.rnd))]
Near(r, x, prec) ==
    LET k == ExponentOf(x) - prec
        e == Min({Exp2(r), x.e, k})
    IN AbsOf(Value(r.tab) * 2 ^ (Exp2(r) - e) - x.n * 2 ^ (x.e - e)) < 2 * 2 ^ (k - e)

HaveLimbs(a, b) == a.tab # <<>> /\ b.tab # <<>>

-----------------------------------------------------------------------------

\* A number is in normal form: its highest bit is set, no limb at its low
\* end is zero, and the exponents of zero, infinity and NaN have no limbs.
Normal(a) ==
    IF a.tab = <<>> THEN a.expn \in {EXP_ZERO, EXP_INF, EXP_NAN}
    ELSE /\ a.tab[Len(a.tab)] >= Base \div 2
         /\ a.tab[1] # 0
         /\ \A i \in 1 .. Len(a.tab) : a.tab[i] \in Limb

\* Functions on arrays of limbs return arrays, which are not normalised.
LimbCalls == {"limb_add", "limb_sub", "limb_add_ui", "limb_sub_ui", "limb_neg",
              "limb_shr", "limb_mul", "limb_div", "limb_recip", "limb_sqrt",
              "limb_isqrt", "word_sqrt"}

\* bf_normalize_and_round: the numbers that a call returns are normalised.
BigFloatTypeOK ==
    result # Idle /\ call.op \notin LimbCalls =>
        \A f \in {"r", "q", "rem"} \cap DOMAIN result : Normal(result[f])

\* Every operation returns the exact result rounded once, in every mode,
\* with the limits of the exponent, whatever part of the operands it cut
\* off on the way; but for products with faithful rounding.
RoundsOnce ==
    LET a == call.a
        b == call.b
        prec == call.prec
        flags == call.flags
    IN /\ Returned("add") /\ IsFinite(a) /\ IsFinite(b) =>
            SumRounds(result.r, a, b, b.sign, prec, flags)
       /\ Returned("sub") /\ IsFinite(a) /\ IsFinite(b) =>
            SumRounds(result.r, a, b, 1 - b.sign, prec, flags)
       /\ Returned("mul") /\ HaveLimbs(a, b) =>
            /\ RoundsTo(result.r, ProductOf(Factor(a), Factor(b)), SignOf(a, b), prec, flags)
            /\ flags.rnd = "F" => Near(result.r, ProductOf(a, b), prec)
       /\ Returned("div") /\ HaveLimbs(a, b) =>
            RoundsTo(result.r, RatioOf(a, b), SignOf(a, b), prec, flags)
       /\ Returned("sqrt") /\ a.tab # <<>> /\ a.sign = 0 =>
            RoundsTo(result.r, [n |-> Value(a.tab), d |-> 0, e |-> Exp2(a)],
                     0, prec, flags)
       /\ Returned("round") /\ a.tab # <<>> =>
            RoundsTo(result.r, Exact(a), a.sign, prec, flags)
       /\ Returned("mul2exp") /\ a.tab # <<>> =>
            RoundsTo(result.r, [Exact(a) EXCEPT !.e = @ + call.k], a.sign,
                     prec, flags)
       /\ Returned("pow") /\ a.tab # <<>> /\ prec = PREC_INF =>
            RoundsTo(result.r, [n |-> Value(a.tab) ^ call.k, d |-> 1,
                                e |-> Exp2(a) * call.k],
                     (a.sign * call.k) % 2, prec, flags)

\* Is the number r exactly x?
Equals(r, x) ==
    CASE x.d = 1 -> OddOf(r) = Odd(x.n, x.e)
      [] x.d = 0 -> Odd(Value(r.tab) * Value(r.tab), 2 * Exp2(r))
                        = Odd(x.n, x.e)
      [] OTHER -> Odd(Value(r.tab) * x.d, Exp2(r)) = Odd(x.n, x.e)

Flagged(x) ==
    ("INEXACT" \in result.st) = ~(IsFinite(result.r) /\ Equals(result.r, x))

\* A result is marked inexact if and only if it is not the exact one: no bit
\* that was cut off, below the operands' limbs, in a remainder or at the
\* limits of the exponent, escapes the flag.  (Faithful rounding always
\* sets it.)
InexactIffRounded ==
    LET a == call.a
        b == call.b
    IN /\ Returned("mul") /\ HaveLimbs(a, b) /\ call.flags.rnd # "F" =>
            Flagged(ProductOf(a, b))
       /\ Returned("div") /\ HaveLimbs(a, b) /\ call.flags.rnd # "F" =>
            Flagged(RatioOf(a, b))
       /\ Returned("sqrt") /\ a.tab # <<>> /\ a.sign = 0
            /\ call.flags.rnd # "F" =>
            Flagged([n |-> Value(a.tab), d |-> 0, e |-> Exp2(a)])
       /\ Returned("round") /\ a.tab # <<>> /\ call.flags.rnd # "F" =>
            Flagged(Exact(a))
       /\ Returned("add") /\ IsFinite(a) /\ HaveLimbs(a, b)
            /\ call.flags.rnd # "F" =>
            LET e == LowExp(a, b)
                sum == Scaled(a, a.sign, e) + Scaled(b, b.sign, e)
            IN Flagged([n |-> AbsOf(sum), d |-> 1, e |-> e])

\* Comparisons agree with the values, and bf_cmp_full with an order of all
\* numbers in which -0 precedes 0 and NaN comes last.
ComparesAsNumbers ==
    Returned("cmp") =>
        LET a == call.a
            b == call.b
            e == Min({0} \cup {Exp2(x) : x \in {y \in {a, b} : y.tab # <<>>}})
            key(x) == IF x.expn = EXP_INF THEN 2 ^ 20 * (1 - 2 * x.sign)
                      ELSE Scaled(x, x.sign, e)
            value == Compared(key(a), key(b))
        IN IF EXP_NAN \in {a.expn, b.expn}
           THEN /\ result.cmp = 2
                /\ result.full = Compared(Bit(a.expn = EXP_NAN),
                                          Bit(b.expn = EXP_NAN))
           ELSE /\ result.cmp = value
                /\ result.full = IF value = 0 THEN Compared(b.sign, a.sign)
                                 ELSE value

\* The numbers as integers times the smallest power of two among them.
Balanced(a, b, q, r) ==
    LET e == Min({Exp2(a)} \cup (IF r.tab = <<>> THEN {} ELSE {Exp2(r)})
                \cup (IF q.tab = <<>> THEN {} ELSE {Exp2(q) + Exp2(b)}))
        qb == IF q.tab = <<>> THEN 0
              ELSE (1 - 2 * q.sign) * (1 - 2 * b.sign) * Value(q.tab)
                        * Value(b.tab) * 2 ^ (Exp2(q) + Exp2(b) - e)
    IN Scaled(a, a.sign, e) = qb + Scaled(r, r.sign, e)

\* A division with remainder: the quotient is the ratio rounded to an
\* integer by the mode (toward where the remainder is not negative for the
\* Euclidean one), and the remainder is exactly what is left; a square root
\* with remainder leaves less than the next square needs.
RemainderExact ==
    LET a == call.a
        b == call.b
        rnd == IF call.flags.rnd # "F" THEN call.flags.rnd
               ELSE IF a.sign = 1 THEN "A" ELSE "Z"
        hu == HalfUnits(RatioOf(a, b), 0)
    IN /\ Returned("divrem") /\ HaveLimbs(a, b) =>
            /\ \E m \in Rounded(hu.h, hu.all, SignOf(a, b), rnd) :
                    OddOf(result.q) = Odd(m, 0)
            /\ Balanced(a, b, result.q, result.r)
            /\ call.flags.rnd = "F" =>
                    result.r.tab = <<>> \/ result.r.sign = 0
       /\ Returned("sqrtrem") /\ a.tab # <<>> =>
            /\ Balanced(a, result.r, result.r, result.rem)
            /\ result.rem.tab = <<>> \/ result.rem.sign = 0
            /\ bf_cmp(result.rem, [result.r EXCEPT !.expn = @ + 1]) <= 0

IntegerOf(a) ==
    IF a.tab = <<>> THEN 0
    ELSE (1 - 2 * a.sign) * (IF Exp2(a) >= 0 THEN Value(a.tab) * 2 ^ Exp2(a)
                             ELSE Value(a.tab) \div 2 ^ (-Exp2(a)))

Width == 16
TwosComplement(n) == n % 2 ^ Width

\* The bitwise operations on numbers kept as sign and magnitude are those of
\* integers in two's complement with as many sign bits as it takes.
LogicAsTwosComplement ==
    \A op \in {"or", "xor", "and"} :
        Returned(op) =>
            TwosComplement(IntegerOf(result.r))
                = bf_logic_op1(TwosComplement(IntegerOf(call.a)),
                               TwosComplement(IntegerOf(call.b)), op)

\* Numbers x at a distance of at most 2^(EXP(a) - k) from a, in quarters.
Around(a, k) ==
    LET unit == a.expn - k - 2
        e == Min({Exp2(a), unit})
        n == Value(a.tab) * 2 ^ (Exp2(a) - e)
    IN {[n |-> n + j * 2 ^ (unit - e), d |-> 1, e |-> e, end |-> AbsOf(j) = 4] : j \in -4 .. 4}

\* The code departs: x at the very end of the interval, where the rounding turns.
AtTurn(x, prec, flags) == x.end /\ HalfUnits(x, Unit(x, prec, flags)).all

\* Every x that a may stand for rounds as a does.
SameRounding(a, prec, flags, k) ==
    \A x \in Around(a, k) :
        AtTurn(x, prec, flags) \/ RoundsTo(bf_round(a, prec, flags).r, x, a.sign, prec, flags)

\* When bf_can_round says that an approximation is good enough, the exact
\* result, which lies within its error, would be rounded to the same number:
\* the loop that computes with more and more bits stops at the right value,
\* also where the rounding changes the exponent; but for a result at the full
\* distance that the comment allows (<=), where the rounding turns.
CanRoundSound ==
    Returned("can_round") /\ result.can =>
        SameRounding(call.a, call.prec, call.flags, call.k)

\* Conversions to integers cut off the fraction; a number that does not fit
\* is replaced by the nearest that does and reported, or reduced modulo the
\* width, never both; the lowest set bit is where bf_get_exp_min says.
IntegersConvert ==
    Returned("int") /\ IsFinite(call.a) =>
        LET v == IntegerOf(call.a)
            w == call.k
            low == -(2 ^ (w - 1))
            fits == v \in low .. -low - 1
        IN /\ result.plain.ok = fits
           /\ result.plain.v = IF fits THEN v
                               ELSE IF v < 0 THEN low ELSE -low - 1
           /\ result.mod.ok /\ (result.mod.v - v) % 2 ^ w = 0
           /\ result.unsigned.ok = (v \in Limb \/ v = 0)
           /\ result.unsigned.v = IF v < 0 THEN 0 ELSE Min({v, AllOnes})
           /\ call.a.tab # <<>> => result.low = OddOf(call.a)[2]

\* A double, by the IEEE layout: its value as an integer, in units of the
\* smallest subnormal, and the doubles that are neither infinite nor NaN.
DoubleValue(d, ebits) ==
    LET mbits == LIMB_BITS - 1 - ebits
        e == (d \div 2 ^ mbits) % 2 ^ ebits
        m == d % 2 ^ mbits
    IN IF e = 0 THEN m ELSE (2 ^ mbits + m) * 2 ^ (e - 1)
FiniteDoubles(ebits) == 0 .. Double(0, 2 ^ ebits - 1, 0, ebits) - 1

\* A double taken as a number and back is the same double, subnormals and
\* the signs of zeros included, and a number becomes a double next to it:
\* no double lies strictly between the two, on either side of the limits.
DoublesRoundTrip ==
    LET ebits == call.k
        unit == 3 - 2 ^ (ebits - 1) - (LIMB_BITS - ebits)
    IN /\ Returned("set_float") /\ result.r.expn # EXP_NAN =>
            \A rnd \in {"N", "Z"} :
                bf_get_float64(result.r, rnd, ebits) = call.prec
       /\ Returned("get_float") /\ IsFinite(call.a) =>
            LET d == result.d % 2 ^ (LIMB_BITS - 1)
                e == Min({unit, Exp2(call.a)})
                x == Value(call.a.tab) * 2 ^ (Exp2(call.a) - e)
                val(y) == DoubleValue(y, ebits) * 2 ^ (unit - e)
                near(y) == AbsOf(val(y) - x)
                inf == Double(0, 2 ^ ebits - 1, 0, ebits)
            IN /\ call.a.tab = <<>> => d = 0
               /\ call.a.tab # <<>> /\ call.flags.rnd = "N" =>
                    \A y \in FiniteDoubles(ebits) \cup {inf} : near(d) <= near(y)
               /\ call.a.tab # <<>> /\ call.flags.rnd = "Z" =>
                    /\ d # inf /\ val(d) <= x
                    /\ \A y \in FiniteDoubles(ebits) : val(y) <= x => y <= d
               /\ result.d \div 2 ^ (LIMB_BITS - 1) = call.a.sign

\* A sum, a difference or a shifted array and the carry it returns are
\* together the exact value: no carry is lost from limb to limb.
CarriesExact ==
    LET n == Base ^ Len(call.a)
        a == Value(call.a)
    IN /\ Returned("limb_add") =>
            Value(result.tab) + n * result.c = a + Value(call.b) + call.k
       /\ Returned("limb_add_ui") => Value(result.tab) + n * result.c = a + call.k
       /\ Returned("limb_sub") =>
            Value(result.tab) - n * result.c = a - Value(call.b) - call.k
       /\ Returned("limb_sub_ui") => Value(result.tab) - n * result.c = a - call.k
       /\ Returned("limb_neg") => Value(result.tab) - n * result.c = -a - call.k
       /\ Returned("limb_shr") =>
            Value(result.tab) * 2 ^ call.k + result.c = a

\* The product of two arrays is exact.
ProductExact ==
    Returned("limb_mul") => Value(result.tab) = Value(call.a) * Value(call.b)

\* The division, by either method, leaves a remainder below the divisor, and
\* its highest digit is at most 1.
QuotientExact ==
    Returned("limb_div") =>
        LET rem == Value(SubSeq(result.r, 1, Len(call.b)))
        IN /\ Value(call.a) = Value(result.q) * Value(call.b) + rem
           /\ rem < Value(call.b)
           /\ Len(call.b) > 1 => result.q[Len(result.q)] <= 1

\* The reciprocal is at most two below the quotient Base^2n / a and never
\* reaches it, and its highest limb is 1.
ReciprocalBelow ==
    Returned("limb_recip") =>
        LET n == Len(call.a)
        IN /\ Value(call.a) * Value(result.tab) < Base ^ (2 * n)
           /\ Base ^ (2 * n) < Value(call.a) * (Value(result.tab) + 2)
           /\ result.tab[n + 1] = 1

\* The root is the largest whose square fits, and the remainder is what is
\* left, with its highest limb returned apart.
RootExact ==
    /\ Returned("limb_sqrt") =>
        LET s == Value(result.s)
            rem == Value(result.r) + result.c * Base ^ Len(result.r)
        IN Value(call.a) = s * s + rem /\ rem <= 2 * s
    /\ Returned("limb_isqrt") =>
        /\ result.c * result.c <= call.k
        /\ call.k < (result.c + 1) * (result.c + 1)
    /\ Returned("word_sqrt") =>
        call.k = result.s * result.s + result.r /\ result.r \in 0 .. 2 * result.s

\* bf_add, bf_mul, bf_div, bf_sqrt and their like: a result is the exact one
\* rounded once (but for a faithful product, within two units), the inexact flag
\* says whether it was, bf_can_round is right within its error (but for its very
\* end), and the remainders, comparisons, logical operations, conversions and
\* operations on limbs that they rest on are exact.
BigFloatsExact ==
    /\ BigFloatTypeOK
    /\ RoundsOnce /\ InexactIffRounded /\ RemainderExact /\ ComparesAsNumbers
    /\ LogicAsTwosComplement /\ IntegersConvert /\ CanRoundSound
    /\ DoublesRoundTrip /\ CarriesExact /\ ProductExact /\ QuotientExact
    /\ ReciprocalBelow /\ RootExact
=============================================================================
