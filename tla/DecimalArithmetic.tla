-------------------------- MODULE DecimalArithmetic --------------------------
(***************************************************************************)
(* Calls of the functions of BigDecimal, one at a time, against exact      *)
(* arithmetic in base ten.                                                 *)
(***************************************************************************)
EXTENDS BigDecimal, Rounding

(* The calls that TLC makes: limbs of two digits in eight bits. *)

Numbers(signs, tabs, expns) ==
    {[sign |-> s, expn |-> e, tab |-> t] : s \in signs, e \in expns,
                                           t \in tabs}

Zeroes == {bf_set_zero(s) : s \in {0, 1}}
Specials == Zeroes \cup {bf_set_inf(s) : s \in {0, 1}} \cup {bf_set_nan}

\* The limbs at which roundings and carries turn.
One == {<<10>>, <<15>>, <<25>>, <<50>>, <<95>>, <<99>>}
Two == {<<50, 10>>, <<1, 25>>, <<50, 49>>, <<99, 99>>, <<95, 99>>, <<5, 15>>}

Op(op, as, bs, precs, flags, ks) ==
    [op |-> op, as |-> as, bs |-> bs, precs |-> precs, flags |-> flags,
     ks |-> ks]

Nothing == {bf_set_nan}
Modes(rnds) == {Plain(r) : r \in rnds}
Narrow(rnds) == {[rnd |-> r, radpnt |-> FALSE, subnormal |-> s,
                  expBits |-> 3] : r \in rnds, s \in BOOLEAN}

SumCalls == {
    Op("add", Numbers({0}, One \cup Two, {1}),
              Numbers({0, 1}, One \cup Two, -3 .. 1) \cup Specials,
       {1, 2, 3}, Modes({"N", "D", "A"}), {0}),
    Op("sub", Numbers({0}, Two, {1}), Numbers({0, 1}, Two, {-3, -1, 0, 1}),
       {2, 4, PREC_INF}, Modes({"NA", "U", "Z", "F"}), {0}),
    Op("round", Numbers({0, 1}, One \cup Two, -4 .. 4), Nothing,
       {1, 2, 3}, Narrow(RoundingModes), {0}),
    Op("rint", Numbers({0, 1}, One \cup Two, -1 .. 4), Nothing,
       {0}, Modes(RoundingModes), {0})}

MulCalls == {
    Op("mul", Numbers({0, 1}, One \cup Two, {1}), Numbers({0}, One \cup Two, {0})
                \cup Specials,
       {1, 3, PREC_INF}, Modes(RoundingModes), {0}),
    Op("div", Numbers({0, 1}, One \cup Two, {1}), Numbers({0}, One \cup Two, {-1})
                \cup Specials,
       {1, 2, 4}, Modes(RoundingModes), {0}),
    Op("div", Numbers({0, 1}, One \cup Two, {1}),
       Numbers({0}, One \cup Two \cup {<<40>>, <<64>>, <<24, 10>>, <<48, 20>>, <<96, 40>>, <<25, 31>>}, {-1, 0})
                \cup Specials,
       {PREC_INF}, {ToZero}, {0}),
    Op("sqrt", Numbers({0}, One \cup Two, {-1, 0, 1, 2}), Nothing,
       {1, 2, 3}, Modes(RoundingModes), {0}),
    Op("pow", Numbers({0, 1}, One, {2}), Nothing, {0}, {ToZero}, 0 .. 4),
    Op("divrem", Numbers({0, 1}, One \cup Two, {1, 2, 3}),
       Numbers({0, 1}, One \cup Two, {1, 2}), {0}, Modes(RoundingModes), {0}),
    Op("int", Numbers({0, 1}, One \cup Two \cup {<<16>>, <<64>>}, -1 .. 5) \cup Specials, Nothing,
       {0}, {ToZero}, {5, 7})}

SomeLimbs == {0, 1, 9, 10, 49, 50, 51, 99}
TwoLimbs == {<<l, h>> : l \in SomeLimbs, h \in SomeLimbs}
LimbCalls == {
    Op("udiv", Limb, {<<>>}, {0}, {ToZero}, 1 .. 99),
    Op("div_limbs", {t \o u : t \in TwoLimbs, u \in {<<0, 1>>, <<98, 50>>, <<99, 99>>, <<49, 10>>}},
            {<<l, h>> : l \in SomeLimbs, h \in SomeLimbs \ {0}}
                \cup {<<l>> : l \in SomeLimbs \ {0}},
            {0}, {ToZero}, {0}),
    Op("root_limbs", {<<l, h>> : l \in DecLimb, h \in 25 .. 99}
                \cup {t \o <<m, h>> : t \in TwoLimbs, m \in SomeLimbs, h \in {25, 50, 98, 99} \cap 25 .. 99} ,
            {<<>>}, {0}, {ToZero}, {0}),
    Op("shift_limbs", TwoLimbs \cup {t \o <<m>> : t \in TwoLimbs, m \in SomeLimbs},
            {<<>>}, {0}, {ToZero}, {1})}

-----------------------------------------------------------------------------
VARIABLES
    call,       \* the call being made, or Idle
    result      \* what it returned, or Idle

vars == <<call, result>>

Idle == [op |-> "idle"]

Init == call = Idle /\ result = Idle

CallOf(families) ==
    /\ call = Idle
    /\ \E f \in families : \E a \in f.as, b \in f.bs, prec \in f.precs,
                              flags \in f.flags, k \in f.ks :
            call' = [op |-> f.op, a |-> a, b |-> b, prec |-> prec,
                     flags |-> flags, k |-> k]
    /\ UNCHANGED result
Call == CallOf(SumCalls \cup MulCalls) \/ CallOf(LimbCalls)

Returns(op, r) ==
    /\ call.op = op /\ result = Idle
    /\ result' = r
    /\ UNCHANGED call

Add == Returns("add", bfdec_add(call.a, call.b, call.prec, call.flags))
Sub == Returns("sub", bfdec_sub(call.a, call.b, call.prec, call.flags))
Mul == Returns("mul", bfdec_mul(call.a, call.b, call.prec, call.flags))
Div == Returns("div", bfdec_div(call.a, call.b, call.prec, call.flags))
Sqrt == Returns("sqrt", bfdec_sqrt(call.a, call.prec, call.flags))
RoundCall == Returns("round", bfdec_round(call.a, call.prec, call.flags))
Rint == Returns("rint", bfdec_rint(call.a, call.flags.rnd))
Pow == Returns("pow", Ret(bfdec_pow_ui(call.a, call.k), {}))
Divrem == Returns("divrem",
            bfdec_divrem(call.a, call.b, PREC_INF, ToZero, call.flags.rnd))
GetInt == Returns("int", bfdec_get_int32(call.a, call.k))
Udiv == Returns("udiv", [q |-> fast_udiv(call.a, fast_udiv_init(call.k))])
DivLimbs == Returns("div_limbs", mp_div_dec(call.a, call.b))
RootLimbs == Returns("root_limbs", mp_sqrtrem_dec(call.a))
ShiftLimbs == Returns("shift_limbs",
                [down |-> mp_shr_dec(call.a, call.k, 0),
                 up |-> mp_shl_dec(call.a, call.k, 0)])

Done == result # Idle /\ call' = Idle /\ result' = Idle

Next ==
    \/ Call \/ Add \/ Sub \/ Mul \/ Div \/ Sqrt \/ RoundCall \/ Rint \/ Pow
    \/ Divrem \/ GetInt \/ Udiv \/ DivLimbs \/ RootLimbs \/ ShiftLimbs
    \/ Done

Spec == Init /\ [][Next]_vars

Returned(op) == call.op = op /\ result # Idle

-----------------------------------------------------------------------------
(* Exact arithmetic.  A positive number is [n, d, e]: n / d * 10^e, or the *)
(* root of n * 10^e when d is 0.                                           *)

RECURSIVE Value(_)
Value(tab) == IF tab = <<>> THEN 0 ELSE tab[1] + DecBase * Value(Tail(tab))

IsFinite(a) == a.expn \notin {EXP_INF, EXP_NAN}
Exp10(a) == a.expn - Len(a.tab) * LIMB_DIGITS
Exact(a) == [n |-> Value(a.tab), d |-> 1, e |-> Exp10(a)]
HaveLimbs(a, b) == a.tab # <<>> /\ b.tab # <<>>

RECURSIVE Digits(_)
Digits(n) == IF n = 0 THEN 0 ELSE 1 + Digits(n \div 10)

\* n = m * 10^e where ten does not divide m.
RECURSIVE Reduced(_, _)
Reduced(n, e) == CASE n = 0 -> <<0, 0>>
                   [] n # 0 /\ n % 10 # 0 -> <<n, e>>
                   [] OTHER -> Reduced(n \div 10, e + 1)

ReducedOf(a) ==
    IF a.tab = <<>> THEN <<0, 0>> ELSE Reduced(Value(a.tab), Exp10(a))

Shift(n, s) == IF s >= 0 THEN n * 10 ^ s ELSE n

Quotient(n, d, s) ==
    [h |-> Shift(n, s) \div Shift(d, -s),
     all |-> Shift(n, s) % Shift(d, -s) = 0]

RootQuotient(n, s, h) ==
    [h |-> h, all |-> h * h * Shift(1, -s) = Shift(n, s)]

\* How many half units of 10^k there are in x.
HalfUnits(x, k) ==
    IF x.d = 0
    THEN RootQuotient(4 * x.n, x.e - 2 * k,
                      RootOf(Shift(4 * x.n, x.e - 2 * k)
                                \div Shift(1, 2 * k - x.e)))
    ELSE Quotient(2 * x.n, x.d, x.e - k)

\* The exponent of x: 10^(e-1) <= x < 10^e.
ExponentOf(x) ==
    LET t == Digits(x.n) - Digits(x.d)
    IN IF x.d = 0 THEN (Digits(x.n) + x.e + 1) \div 2
       ELSE x.e + (IF Shift(x.n, -t) >= Shift(x.d, t) THEN t + 1 ELSE t)

Unit(x, prec, flags) ==
    CASE flags.radpnt -> -prec
      [] ~flags.radpnt /\ flags.subnormal /\ ExponentOf(x) < ExpMin(flags) ->
            ExpMin(flags) - prec
      [] OTHER -> ExponentOf(x) - prec

\* Does r stand for m * 10^k with sign, within the limits of the exponent?
Stands(r, m, k, sign, flags) ==
    LET e == Digits(m) + k
    IN CASE m = 0 \/ (e < ExpMin(flags) /\ ~flags.subnormal /\ ~flags.radpnt) ->
                r = bf_set_zero(sign)
         [] m # 0 /\ e > ExpMax(flags) -> r = bf_set_inf(sign)
         [] OTHER -> r.sign = sign /\ ReducedOf(r) = Reduced(m, k)

RoundsTo(r, x, sign, prec, flags) ==
    IF prec = PREC_INF THEN r.sign = sign /\ ReducedOf(r) = Reduced(x.n, x.e)
    ELSE LET k == Unit(x, prec, flags)
             hu == HalfUnits(x, k)
         IN \E m \in Rounded(hu.h, hu.all, sign, flags.rnd) :
                Stands(r, m, k, sign, flags)

LowExp(a, b) == Min({Exp10(x) : x \in {y \in {a, b} : y.tab # <<>>}})
Scaled(a, sign, e) ==
    IF a.tab = <<>> THEN 0
    ELSE (1 - 2 * sign) * Value(a.tab) * 10 ^ (Exp10(a) - e)

SumRounds(r, a, b, bsign, prec, flags) ==
    IF a.tab = <<>> /\ b.tab = <<>>
    THEN r = bf_set_zero(IF a.sign = bsign THEN a.sign
                         ELSE Bit(flags.rnd = "D"))
    ELSE LET e == LowExp(a, b)
             sum == Scaled(a, a.sign, e) + Scaled(b, bsign, e)
         IN IF sum = 0 THEN r = bf_set_zero(Bit(flags.rnd = "D"))
            ELSE RoundsTo(r, [n |-> AbsOf(sum), d |-> 1, e |-> e],
                          SignBit(sum), prec, flags)

ProductOf(a, b) ==
    [n |-> Value(a.tab) * Value(b.tab), d |-> 1, e |-> Exp10(a) + Exp10(b)]
RatioOf(a, b) ==
    [n |-> Value(a.tab), d |-> Value(b.tab), e |-> Exp10(a) - Exp10(b)]
\* n / d by long division, with places digits behind the point.
RECURSIVE LongDivision(_, _, _, _)
LongDivision(q, r, d, places) ==
    IF places = 0 THEN [q |-> q, r |-> r]
    ELSE LongDivision(q * 10 + (r * 10) \div d, (r * 10) % d, d, places - 1)

\* Does n / d have an end: are there no primes in d but those of n and of ten?
RECURSIVE CommonDivisor(_, _), Without(_, _)
CommonDivisor(n, d) == IF d = 0 THEN n ELSE CommonDivisor(d, n % d)
Without(n, p) == IF n % p = 0 THEN Without(n \div p, p) ELSE n
Terminates(x) == Without(Without(x.d \div CommonDivisor(x.n, x.d), 2), 5) = 1

\* A quotient without bound on its digits is the exact one, and refused if there
\* is none.  The code departs (XXX: check): a quotient of more limbs than the
\* dividend, and more than one more than the divisor, is refused too.
DividesExactly(a, b) ==
    LET x == RatioOf(a, b)
        limbs == Max({Len(a.tab), Len(b.tab) + 1})
        places == (limbs - Len(a.tab) + Len(b.tab)) * LIMB_DIGITS
        long == LongDivision(x.n \div x.d, x.n % x.d, x.d, places)
        tooLong == long.r # 0
    IN IF Terminates(x) /\ ~tooLong
       THEN /\ ReducedOf(result.r) = Reduced(long.q, x.e - places)
            /\ result.r.sign = SignOf(a, b) /\ result.st = {}
       ELSE result.r = bf_set_nan /\ result.st = {"INVALID_OP"}
RootOfNumber(a) == [n |-> Value(a.tab), d |-> 0, e |-> Exp10(a)]

-----------------------------------------------------------------------------

\* The highest digit of a number is not zero, no limb at its low end is, and
\* every limb is below the base.
NormalDec(a) ==
    IF a.tab = <<>> THEN a.expn \in {EXP_ZERO, EXP_INF, EXP_NAN}
    ELSE /\ a.tab[Len(a.tab)] >= DecBase \div 10
         /\ a.tab[1] # 0
         /\ \A i \in 1 .. Len(a.tab) : a.tab[i] \in DecLimb

NumberOps == {"add", "sub", "mul", "div", "sqrt", "round", "rint", "pow",
              "divrem"}

DecimalTypeOK ==
    result # Idle /\ call.op \in NumberOps =>
        \A f \in {"r", "q"} \cap DOMAIN result : NormalDec(result[f])

\* Every decimal operation returns the exact result rounded once, whatever
\* digits were shifted out of a limb, cut from an operand or left in a
\* remainder on the way; a quotient to be exact is as DividesExactly says.
DecimalRoundsOnce ==
    LET a == call.a
        b == call.b
        prec == call.prec
        flags == call.flags
    IN /\ Returned("add") /\ IsFinite(a) /\ IsFinite(b) =>
            SumRounds(result.r, a, b, b.sign, prec, flags)
       /\ Returned("sub") /\ IsFinite(a) /\ IsFinite(b) =>
            SumRounds(result.r, a, b, 1 - b.sign, prec, flags)
       /\ Returned("mul") /\ HaveLimbs(a, b) =>
            RoundsTo(result.r, ProductOf(a, b), SignOf(a, b), prec, flags)
       /\ Returned("div") /\ HaveLimbs(a, b) =>
            IF prec = PREC_INF THEN DividesExactly(a, b)
            ELSE RoundsTo(result.r, RatioOf(a, b), SignOf(a, b), prec, flags)
       /\ Returned("sqrt") /\ a.tab # <<>> /\ a.sign = 0 =>
            RoundsTo(result.r, RootOfNumber(a), 0, prec, flags)
       /\ Returned("round") /\ a.tab # <<>> =>
            RoundsTo(result.r, Exact(a), a.sign, prec, flags)
       /\ Returned("rint") /\ a.tab # <<>> =>
            RoundsTo(result.r, Exact(a), a.sign, 0, AtPoint(flags.rnd))
       /\ Returned("pow") /\ a.tab # <<>> =>
            RoundsTo(result.r, [n |-> Value(a.tab) ^ call.k, d |-> 1,
                                e |-> Exp10(a) * call.k],
                     (a.sign * call.k) % 2, PREC_INF, flags)

Equals(r, x) ==
    CASE x.d = 1 -> ReducedOf(r) = Reduced(x.n, x.e)
      [] x.d = 0 -> Reduced(Value(r.tab) * Value(r.tab), 2 * Exp10(r))
                        = Reduced(x.n, x.e)
      [] OTHER -> Reduced(Value(r.tab) * x.d, Exp10(r)) = Reduced(x.n, x.e)

Flagged(x) ==
    ("INEXACT" \in result.st) = ~(IsFinite(result.r) /\ Equals(result.r, x))

\* A decimal result is marked inexact if and only if it is not the exact
\* one (in the faithful mode always).
DecimalInexactIffRounded ==
    LET a == call.a
        b == call.b
    IN "flags" \in DOMAIN call /\ call.flags.rnd # "F" =>
       /\ Returned("mul") /\ HaveLimbs(a, b) => Flagged(ProductOf(a, b))
       /\ Returned("div") /\ HaveLimbs(a, b) /\ call.prec # PREC_INF =>
            Flagged(RatioOf(a, b))
       /\ Returned("sqrt") /\ a.tab # <<>> /\ a.sign = 0 =>
            Flagged(RootOfNumber(a))
       /\ Returned("round") /\ a.tab # <<>> => Flagged(Exact(a))
       /\ Returned("add") /\ HaveLimbs(a, b) =>
            LET e == LowExp(a, b)
                sum == Scaled(a, a.sign, e) + Scaled(b, b.sign, e)
            IN Flagged([n |-> AbsOf(sum), d |-> 1, e |-> e])

Balanced(a, b, q, r) ==
    LET e == Min({Exp10(a)} \cup (IF r.tab = <<>> THEN {} ELSE {Exp10(r)})
                \cup (IF q.tab = <<>> THEN {} ELSE {Exp10(q) + Exp10(b)}))
        qb == IF q.tab = <<>> THEN 0
              ELSE (1 - 2 * q.sign) * (1 - 2 * b.sign) * Value(q.tab)
                        * Value(b.tab) * 10 ^ (Exp10(q) + Exp10(b) - e)
    IN Scaled(a, a.sign, e) = qb + Scaled(r, r.sign, e)

\* A decimal division with remainder: the quotient is the ratio rounded to
\* an integer by the mode, the remainder exactly what is left.
DecimalRemainderExact ==
    LET a == call.a
        b == call.b
        rnd == IF call.flags.rnd # "F" THEN call.flags.rnd
               ELSE IF a.sign = 1 THEN "A" ELSE "Z"
        hu == HalfUnits(RatioOf(a, b), 0)
    IN Returned("divrem") /\ HaveLimbs(a, b) =>
            /\ \E m \in Rounded(hu.h, hu.all, SignOf(a, b), rnd) :
                    ReducedOf(result.q) = Reduced(m, 0)
            /\ Balanced(a, b, result.q, result.r)
            /\ call.flags.rnd = "F" =>
                    result.r.tab = <<>> \/ result.r.sign = 0

IntegerOf(a) ==
    IF a.tab = <<>> THEN 0
    ELSE (1 - 2 * a.sign)
            * (IF Exp10(a) >= 0 THEN Value(a.tab) * 10 ^ Exp10(a)
               ELSE Value(a.tab) \div 10 ^ (-Exp10(a)))

\* A finite decimal becomes the integer it is cut off to, or the nearest
\* that fits, and only then an overflow is reported.
DecimalsConvert ==
    Returned("int") /\ IsFinite(call.a) =>
        LET v == IntegerOf(call.a)
            low == -(2 ^ (call.k - 1))
        IN /\ result.ok = (v \in low .. -low - 1)
           /\ result.v = IF v < low THEN low
                         ELSE IF v > -low - 1 THEN -low - 1 ELSE v

\* Division by multiplication with a precomputed inverse is exact for every
\* dividend and divisor; long division, square roots and shifts of decimal
\* limbs leave exactly the remainder they should.
DecimalLimbsExact ==
    LET a == Value(call.a)
        b == Value(call.b)
        root == Value(result.s)
        left == Value(Append(result.r, result.c))
        p == 10 ^ call.k
        n == Len(call.a)
    IN /\ Returned("udiv") => result.q = call.a \div call.k
       /\ Returned("div_limbs") =>
            Value(result.q) = a \div b /\ Value(result.r) = a % b
       /\ Returned("root_limbs") =>
            root * root + left = a /\ left \in 0 .. 2 * root
       /\ Returned("shift_limbs") =>
            /\ Value(result.down.tab) = a \div p /\ result.down.c = a % p
            /\ Value(Append(result.up.tab, result.up.c)) = a * p

\* bfdec_add, bfdec_mul, bfdec_div, bfdec_sqrt and their like: the same for
\* numbers in base ten.  The quotient of BigDecimal / is exact or refused, and
\* refused also when it has an end that is too far (XXX of __bfdec_div).
DecimalsExact ==
    /\ DecimalTypeOK
    /\ DecimalRoundsOnce /\ DecimalInexactIffRounded /\ DecimalRemainderExact
    /\ DecimalsConvert /\ DecimalLimbsExact
=============================================================================
