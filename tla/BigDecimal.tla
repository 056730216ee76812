----------------------------- MODULE BigDecimal -----------------------------
(***************************************************************************)
(* Decimal floating point numbers of any precision: the functions bfdec_*  *)
(* of libbf.  A number has the fields of a binary one, its exponent counts *)
(* digits and the highest digit of its limbs is not zero; zero, infinity,  *)
(* NaN, the flags and comparisons are those of BigFloat.                   *)
(*                                                                         *)
(* The first part is about arrays of limbs of LIMB_DIGITS decimal digits:  *)
(* the functions mp_*_dec.  A limb still wraps at Base, which is more than *)
(* DecBase, and the carries are found from that.  The division of two      *)
(* limbs by DecBase with its hard-coded constants (divdq_base) is taken as *)
(* exact.                                                                  *)
(***************************************************************************)
EXTENDS BigFloat

CONSTANT LIMB_DIGITS     \* digits of a limb, with DecBase < Base

DecBase == 10 ^ LIMB_DIGITS

DecLimb == 0 .. DecBase - 1

-----------------------------------------------------------------------------
(* Division by a constant without a division. *)

\* The multiplier and the two shifts for the divisor d.
fast_udiv_init(d) ==
    LET l == IF d = 1 THEN 0 ELSE LIMB_BITS - clz(d - 1)
    IN [m1 |-> Wrap((Wrap(2 ^ l - d) * Base) \div d + 1),
        shift1 |-> Min({l, 1}), shift2 |-> Max({l - 1, 0})]

UdivCorrected(a, t1, s) ==
    Wrap(t1 + Wrap(a - t1) \div 2 ^ s.shift1) \div 2 ^ s.shift2

fast_udiv(a, s) == UdivCorrected(a, High(s.m1 * a), s)

mp_pow_dec(i) == 10 ^ i
mp_pow_div == [i \in 0 .. LIMB_DIGITS |-> fast_udiv_init(mp_pow_dec(i))]
fast_shr_dec(a, shift) == fast_udiv(a, mp_pow_div[shift])
fast_rem_dec(a, shift) == Wrap(a - fast_shr_dec(a, shift) * mp_pow_dec(shift))

\* Leading zero digits of a limb.
clz_dec(a) ==
    IF a = 0 THEN LIMB_DIGITS
    ELSE Max({z \in 0 .. LIMB_DIGITS - 1 : a < 10 ^ (LIMB_DIGITS - z)})

-----------------------------------------------------------------------------
(* Sums and products; tab is the array, c the limb a function returns. *)

\* One limb of a sum: v + w - DecBase wraps unless there is a carry.
AddDigit(v, w) ==
    LET a == Wrap(v + w - DecBase)
    IN IF a <= v THEN [a |-> a, k |-> 1] ELSE [a |-> Wrap(a + DecBase), k |-> 0]

SubDigit(v, w) ==
    LET a == Wrap(v - w)
    IN IF a > v THEN [a |-> Wrap(a + DecBase), k |-> 1] ELSE [a |-> a, k |-> 0]

Grow(a, rest) == [rest EXCEPT !.tab = <<a>> \o @]

RECURSIVE mp_add_dec(_, _, _)
mp_add_dec(op1, op2, k) ==
    IF op1 = <<>> THEN [tab |-> <<>>, c |-> k]
    ELSE LET d == AddDigit(op1[1], op2[1] + k)
         IN Grow(d.a, mp_add_dec(Tail(op1), Tail(op2), d.k))

RECURSIVE mp_add_ui_dec(_, _)
mp_add_ui_dec(tab, k) ==
    IF tab = <<>> THEN [tab |-> <<>>, c |-> k]
    ELSE LET d == AddDigit(tab[1], k)
         IN IF d.k = 0 THEN [tab |-> <<d.a>> \o Tail(tab), c |-> 0]
            ELSE Grow(d.a, mp_add_ui_dec(Tail(tab), d.k))

RECURSIVE mp_sub_dec(_, _, _)
mp_sub_dec(op1, op2, k) ==
    IF op1 = <<>> THEN [tab |-> <<>>, c |-> k]
    ELSE LET d == SubDigit(op1[1], op2[1] + k)
         IN Grow(d.a, mp_sub_dec(Tail(op1), Tail(op2), d.k))

RECURSIVE mp_sub_ui_dec(_, _)
mp_sub_ui_dec(tab, k) ==
    IF tab = <<>> THEN [tab |-> <<>>, c |-> k]
    ELSE LET d == SubDigit(tab[1], k)
         IN IF d.k = 0 THEN [tab |-> <<d.a>> \o Tail(tab), c |-> 0]
            ELSE Grow(d.a, mp_sub_ui_dec(Tail(tab), d.k))

\* tabr + taba * b + l; mp_mul1_dec has no tabr.
RECURSIVE AddMulDec(_, _, _, _)
AddMulDec(tabr, taba, b, l) ==
    IF taba = <<>> THEN [tab |-> <<>>, c |-> l]
    ELSE LET t == taba[1] * b + l + tabr[1]
         IN Grow(t % DecBase, AddMulDec(Tail(tabr), Tail(taba), b,
                                        t \div DecBase))

mp_mul1_dec(taba, b, l) == AddMulDec(Zeros(Len(taba)), taba, b, l)
mp_add_mul1_dec(tabr, taba, b) == AddMulDec(tabr, taba, b, 0)

RECURSIVE SubMulDec(_, _, _, _)
SubMulDec(tabr, taba, b, l) ==
    IF taba = <<>> THEN [tab |-> <<>>, c |-> l]
    ELSE LET t == taba[1] * b + l
             d == SubDigit(tabr[1], t % DecBase)
         IN Grow(d.a, SubMulDec(Tail(tabr), Tail(taba), b,
                                (t \div DecBase) + d.k))

mp_sub_mul1_dec(tabr, taba, b) == SubMulDec(tabr, taba, b, 0)

RECURSIVE MulLoopDec(_, _, _, _)
MulLoopDec(result, op1, op2, i) ==
    IF i = Len(op2) THEN result
    ELSE LET r == mp_add_mul1_dec(Part(result, i, Len(op1)), op1, op2[i + 1])
         IN MulLoopDec(Put(result, i, Append(r.tab, r.c)), op1, op2, i + 1)

mp_mul_basecase_dec(op1, op2) ==
    LET first == mp_mul1_dec(op1, op2[1], 0)
    IN MulLoopDec(Append(first.tab, first.c) \o Zeros(Len(op2) - 1),
                  op1, op2, 1)

-----------------------------------------------------------------------------
(* Division. *)

\* By two: half the base is what an odd limb leaves to the next.
RECURSIVE HalveDec(_, _)
HalveDec(taba, r) ==
    IF taba = <<>> THEN [tab |-> <<>>, c |-> Bit(r # 0)]
    ELSE LET n == Len(taba)
             rest == HalveDec(SubSeq(taba, 1, n - 1), taba[n] % 2)
         IN [rest EXCEPT !.tab =
                Append(@, (taba[n] \div 2) + (DecBase \div 2) * r)]

\* One limb, with the inverse of b shifted up or by a division.
DivShifted(d, shift) == [q |-> d.q, r |-> d.r \div 2 ^ shift]
DivInverse(up, b, shift) ==
    DivShifted(udiv1norm(High(up), Wrap(up), b, udiv1norm_init(b)), shift)
DivLimbDec(r, limb, b, shift, useInverse) ==
    LET t == r * DecBase + limb
    IN IF useInverse
       THEN DivInverse(Wrap2(t * 2 ^ shift), Wrap(b * 2 ^ shift), shift)
       ELSE [q |-> t \div b, r |-> t % b]

RECURSIVE Div1LoopDec(_, _, _, _)
Div1LoopDec(taba, b, r, useInverse) ==
    IF taba = <<>> THEN [tab |-> <<>>, c |-> r]
    ELSE LET n == Len(taba)
             step == DivLimbDec(r, taba[n], b, clz(b), useInverse)
             rest == Div1LoopDec(SubSeq(taba, 1, n - 1), b, step.r, useInverse)
         IN [rest EXCEPT !.tab = Append(@, step.q)]

mp_div1_dec(taba, b, r) ==
    IF b = 2 THEN HalveDec(taba, Bit(r # 0))
    ELSE Div1LoopDec(taba, b, r, Len(taba) >= UDIV1NORM_THRESHOLD)

\* The digit was too large: the divisor is added until the carry of the
\* highest limb says that the difference is positive.
RECURSIVE AddBackDec(_, _, _)
AddBackDec(part, tabb, q) ==
    LET nb == Len(tabb)
        sum == mp_add_dec(SubSeq(part, 1, nb), tabb, 0)
        next == Append(sum.tab, part[nb + 1] + sum.c)
    IN IF sum.c # 0 /\ next[nb + 1] = DecBase
       THEN [part |-> next, q |-> q - 1]
       ELSE AddBackDec(next, tabb, q - 1)

EstimateDec(part, tabb) ==
    LET nb == Len(tabb)
    IN IF part[nb + 1] >= tabb[nb] THEN DecBase - 1
       ELSE (part[nb + 1] * DecBase + part[nb]) \div tabb[nb]

DivTopDec(low, top, tabb, q) ==
    IF top.k # 0 THEN AddBackDec(Append(low, top.a), tabb, q)
    ELSE [part |-> Append(low, top.a), q |-> q]

DivLowDec(part, diff, tabb, q) ==
    DivTopDec(diff.tab, SubDigit(part[Len(part)], diff.c), tabb, q)

DivDigitDec(part, tabb, q) ==
    DivLowDec(part, mp_sub_mul1_dec(SubSeq(part, 1, Len(tabb)), tabb, q),
              tabb, q)

RECURSIVE DivLoopDec(_, _, _, _)
DivLoopDec(i, taba, tabq, tabb) ==
    IF i < 0 THEN [q |-> tabq, r |-> SubSeq(taba, 1, Len(tabb))]
    ELSE LET part == Part(taba, i, Len(tabb) + 1)
             digit == DivDigitDec(part, tabb, EstimateDec(part, tabb))
         IN DivLoopDec(i - 1, Put(taba, i, digit.part),
                       Put(tabq, i, <<digit.q>>), tabb)

\* The divisor is large enough: the first digit is 0 or 1.
DivFirstDec(taba, tabb, i, q) ==
    DivLoopDec(i - 1,
        IF q = 0 THEN taba
        ELSE Put(taba, i, mp_sub_dec(Part(taba, i, Len(tabb)), tabb, 0).tab),
        Append(Zeros(i), q), tabb)

DivNormalDec(taba, tabb, i) ==
    DivFirstDec(taba, tabb, i, Bit(mp_cmp(Part(taba, i, Len(tabb)), tabb) >= 0))

\* Both are multiplied first, and the remainder divided again.
WithCarry(a) == Append(a.tab, a.c)

\* Mutant: the remainder stays multiplied.
DivStaysScaled(d, mult) == d

DivUnscaled(d, mult) ==
    IF mult = 1 THEN d ELSE [d EXCEPT !.r = mp_div1_dec(@, mult, 0).tab]

DivScaledDec(taba, tabb, i, mult) ==
    DivUnscaled(DivLoopDec(i, WithCarry(mp_mul1_dec(taba, mult, 0)),
                           Zeros(i + 1), mp_mul1_dec(tabb, mult, 0).tab), mult)

mp_div_dec(taba, tabb) ==
    LET r == tabb[Len(tabb)]
    IN IF r >= DecBase \div 2
       THEN DivNormalDec(taba, tabb, Len(taba) - Len(tabb))
       ELSE DivScaledDec(taba, tabb, Len(taba) - Len(tabb),
                         DecBase \div (r + 1))

-----------------------------------------------------------------------------
(* Shifts by digits. *)

RECURSIVE mp_shr_dec(_, _, _)
mp_shr_dec(tab, shift, high) ==
    IF tab = <<>> THEN [tab |-> <<>>, c |-> high]
    ELSE LET n == Len(tab)
             rest == mp_shr_dec(SubSeq(tab, 1, n - 1), shift,
                                fast_rem_dec(tab[n], shift))
         IN [rest EXCEPT !.tab = Append(@, fast_shr_dec(tab[n], shift)
                            + high * mp_pow_dec(LIMB_DIGITS - shift))]

RECURSIVE mp_shl_dec(_, _, _)
mp_shl_dec(tab, shift, low) ==
    IF tab = <<>> THEN [tab |-> <<>>, c |-> low]
    ELSE Grow(fast_rem_dec(tab[1], LIMB_DIGITS - shift) * mp_pow_dec(shift)
                + low,
              mp_shl_dec(Tail(tab), shift,
                         fast_shr_dec(tab[1], LIMB_DIGITS - shift)))

-----------------------------------------------------------------------------
(* Square root: s is the root, r the limbs and c the high limb of what is  *)
(* left.  The structure is that of the binary one.                         *)

\* Two limbs are taken to binary, shifted up to a normal number and back.
Root2Left(s, r) == [s |-> <<s>>, r |-> <<r % DecBase>>, c |-> r \div DecBase]
Root2Square(s, a) == Root2Left(s, a - s * s)
Root2Shifted(a, b, k) ==
    Root2Square(mp_sqrtrem2(Wrap(b), High(b)).s \div 2 ^ (k \div 2), a)
Root2At(a, k) == Root2Shifted(a, Wrap2(a * 2 ^ k), k)
Root2Of(a) == Root2At(a, (clz(High(a)) \div 2) * 2)
mp_sqrtrem2_dec(a0, a1) == Root2Of(a1 * DecBase + a0)

RootLowered(s, twice, one, rh) ==
    [s |-> s, r |-> one.tab, c |-> Wrap(rh + twice.c + one.c)]
RootLowerTwice(s, twice, rh) ==
    RootLowered(s, twice, mp_add_ui_dec(twice.tab, 1), rh)
RootLowerDec(s, rem, rh) == RootLowerTwice(s, mp_add_mul1_dec(rem, s, 2), rh)

RootSignDec(tabs, low, high, rh) ==
    IF IsNegative(rh)
    THEN RootLowerDec(mp_sub_ui_dec(tabs, 1).tab, low \o high, rh)
    ELSE [s |-> tabs, r |-> low \o high, c |-> rh]

RootBorrowDec(tabs, low, high, rh) ==
    RootSignDec(tabs, low, high.tab, Wrap(rh - high.c))

RootSubtracted(tabs, low, high, rh) ==
    RootBorrowDec(tabs, low.tab, mp_sub_ui_dec(high, low.c), rh)

RootCorrectDec(tabs, rem, rh, qh, l, square) ==
    RootSubtracted(tabs,
        IF qh # 0 THEN [tab |-> SubSeq(rem, 1, 2 * l), c |-> qh]
        ELSE mp_sub_dec(SubSeq(rem, 1, 2 * l), square, 0),
        SubSeq(rem, 2 * l + 1, Len(rem)), rh)

RootSquareDec(tabs, half, rem, rh, qh, l) ==
    RootCorrectDec(tabs, rem, rh, qh, l, mp_mul_basecase_dec(half, half))

RootAddedDec(s1, a0, half, back, qh) ==
    RootSquareDec(half \o mp_add_ui_dec(s1, qh).tab, half, a0 \o back.tab,
                  back.c, qh, Len(a0))

RootLowDec(s1, a0, u, half, qh) ==
    RootAddedDec(s1, a0, half.tab,
                 IF half.c # 0 THEN mp_add_dec(u, s1, 0)
                 ELSE [tab |-> u, c |-> 0], qh)

RootDivideDec(s1, a0, div, l, qh) ==
    RootLowDec(s1, a0, div.r, mp_div1_dec(SubSeq(div.q, 1, l), 2, qh % 2),
               qh \div 2)

RootDividedDec(high, a0, div, l) ==
    RootDivideDec(high.s, a0, div, l, high.c + div.q[l + 1])

RootNextDec(high, a0, a1, l) ==
    RootDividedDec(high, a0,
        mp_div_dec(a1 \o (IF high.c # 0 THEN mp_sub_dec(high.r, high.s, 0).tab
                          ELSE high.r), high.s), l)

RECURSIVE mp_sqrtrem_rec_dec(_, _, _)
mp_sqrtrem_rec_dec(taba, n, l) ==
    IF n = 1 THEN mp_sqrtrem2_dec(taba[1], taba[2])
    ELSE RootNextDec(mp_sqrtrem_rec_dec(Part(taba, 2 * l, 2 * (n - l)),
                                        n - l, (n - l) \div 2),
                     SubSeq(taba, 1, l), Part(taba, l, l), l)

mp_sqrtrem_dec(taba) ==
    mp_sqrtrem_rec_dec(taba, Len(taba) \div 2, Len(taba) \div 4)

-----------------------------------------------------------------------------

AtPoint(rnd) == [Plain(rnd) EXCEPT !.radpnt = TRUE]

-----------------------------------------------------------------------------
(* Rounding. *)

\* Is a digit from 0 to pos not zero?
scan_digit_nz(tab, pos) ==
    /\ pos >= 0
    /\ \/ fast_rem_dec(tab[(pos \div LIMB_DIGITS) + 1],
                       (pos % LIMB_DIGITS) + 1) # 0
       \/ mp_scan_nz(SubSeq(tab, 1, pos \div LIMB_DIGITS))

get_digit(tab, pos) ==
    fast_shr_dec(get_limbz(tab, pos \div LIMB_DIGITS), pos % LIMB_DIGITS) % 10

\* digit1 is the first digit that is cut off, digit0 whether one below it
\* is not zero.
RndAddDec(tab, sign, prec, rnd, digit1, digit0) ==
    CASE rnd = "Z" -> 0
      [] rnd = "N" ->
            IF digit1 = 5 /\ ~digit0
            THEN get_digit(tab, Len(tab) * LIMB_DIGITS - prec) % 2
            ELSE Bit(digit1 >= 5)
      [] rnd \in {"D", "U"} ->
            Bit(sign = Bit(rnd = "D") /\ (digit1 # 0 \/ digit0))
      [] rnd \in {"NA", "F"} -> Bit(digit1 >= 5)
      [] rnd = "A" -> Bit(digit1 # 0 \/ digit0)

bfdec_get_rnd_add(tab, sign, prec, rnd) ==
    LET n == Len(tab) * LIMB_DIGITS - 1
        digit0 == rnd = "F" \/ scan_digit_nz(tab, n - Max({0, prec + 1}))
        digit1 == get_digit(tab, n - prec)
    IN [add |-> RndAddDec(tab, sign, prec, rnd, digit1, digit0),
        st |-> IF digit1 # 0 \/ digit0 THEN {"INEXACT"} ELSE {}]

\* Keep the digits above pos and drop limbs that are zero.
KeepDigits(tab, pos) ==
    LET i == pos \div LIMB_DIGITS
        shift == pos % LIMB_DIGITS
    IN IF pos < 0 THEN DropZeros(tab)
       ELSE DropZeros(<<fast_shr_dec(tab[i + 1], shift) * mp_pow_dec(shift)>>
                        \o SubSeq(tab, i + 2, Len(tab)))

RoundEndDec(r, prec, flags, st) ==
    CASE r.expn < ExpMin(flags) /\ ~flags.subnormal ->
            Ret(bf_set_zero(r.sign), st \cup {"UNDERFLOW", "INEXACT"})
      [] r.expn > ExpMax(flags) ->
            Ret(bf_set_inf(r.sign), st \cup {"OVERFLOW", "INEXACT"})
      [] OTHER ->
            Ret([r EXCEPT !.tab = KeepDigits(@, Len(@) * LIMB_DIGITS - prec)],
                IF r.expn < ExpMin(flags) /\ "INEXACT" \in st
                THEN st \cup {"UNDERFLOW"} ELSE st)

RoundCarryDec(r, low, sum) ==
    IF sum.c # 0
    THEN [r EXCEPT !.tab = low \o mp_shr_dec(sum.tab, 1, 1).tab,
                   !.expn = @ + 1]
    ELSE [r EXCEPT !.tab = low \o sum.tab]

RoundUpDec(r, pos) ==
    RoundCarryDec(r, SubSeq(r.tab, 1, pos \div LIMB_DIGITS),
        mp_add_ui_dec(SubSeq(r.tab, (pos \div LIMB_DIGITS) + 1, Len(r.tab)),
                      mp_pow_dec(pos % LIMB_DIGITS)))

RoundAtDec(r, prec, flags, rounding) ==
    CASE prec <= 0 /\ rounding.add = 1 ->
            Ret([sign |-> r.sign, expn |-> r.expn + 1 - prec,
                 tab |-> <<DecBase \div 10>>], {"UNDERFLOW", "INEXACT"})
      [] prec <= 0 /\ rounding.add = 0 ->
            Ret(bf_set_zero(r.sign), {"UNDERFLOW", "INEXACT"})
      [] OTHER ->
            RoundEndDec(IF rounding.add = 0 THEN r
                        ELSE RoundUpDec(r, Len(r.tab) * LIMB_DIGITS - prec),
                        prec, flags, rounding.st)

RoundToDec(r, prec, flags) ==
    RoundAtDec(r, prec, flags,
               bfdec_get_rnd_add(r.tab, r.sign, prec, flags.rnd))

\* __bfdec_round of a number with limbs.
RoundDec(r, prec1, flags) ==
    RoundToDec(r, RoundPrec(r, prec1, flags), flags)

bfdec_round(r, prec, flags) ==
    IF r.tab = <<>> THEN Ret(r, {}) ELSE RoundDec(r, prec, flags)

bfdec_rint(r, rnd) == bfdec_round(r, 0, AtPoint(rnd))

NormalizeDecTab(r, tab, shift, prec1, flags) ==
    RoundDec([sign |-> r.sign,
              expn |-> r.expn - (Len(r.tab) - Len(tab)) * LIMB_DIGITS - shift,
              tab |-> IF shift = 0 THEN tab ELSE mp_shl_dec(tab, shift, 0).tab],
             prec1, flags)

NormalizeDecTop(r, tab, prec1, flags) ==
    IF tab = <<>> THEN Ret([r EXCEPT !.expn = EXP_ZERO, !.tab = <<>>], {})
    ELSE NormalizeDecTab(r, tab, clz_dec(tab[Len(tab)]), prec1, flags)

bfdec_normalize_and_round(r, prec1, flags) ==
    NormalizeDecTop(r, DropTop(r.tab), prec1, flags)

bfdec_set_ui(v) ==
    bfdec_normalize_and_round(
        IF v >= DecBase
        THEN [sign |-> 0, expn |-> 2 * LIMB_DIGITS,
              tab |-> <<v % DecBase, v \div DecBase>>]
        ELSE [sign |-> 0, expn |-> LIMB_DIGITS, tab |-> <<v>>],
        PREC_INF, Plain("N")).r

bfdec_set_si(v) == IF v < 0 THEN [bfdec_set_ui(-v) EXCEPT !.sign = 1]
                   ELSE bfdec_set_ui(v)

-----------------------------------------------------------------------------
(* Addition: the operands are aligned to a limb and added in full. *)

Carried(high, c, isSub) ==
    CASE c = 0 -> [tab |-> high, c |-> 0]
      [] c # 0 /\ isSub -> mp_sub_ui_dec(high, c)
      [] OTHER -> mp_add_ui_dec(high, c)

AddCarried(a, low, mid, high, isSub, prec, flags) ==
    bfdec_normalize_and_round(
        IF high.c # 0 /\ ~isSub
        THEN [a EXCEPT !.tab = low \o mid \o high.tab \o <<1>>,
                       !.expn = @ + LIMB_DIGITS]
        ELSE [a EXCEPT !.tab = low \o mid \o high.tab],
        prec, flags)

AddMid(a, low, mid, high, isSub, prec, flags) ==
    AddCarried(a, low, mid.tab, Carried(high, mid.c, isSub), isSub, prec,
               flags)

AddAt(a, tab, b1, b_offset, isSub, prec, flags) ==
    LET mid == Part(tab, b_offset, Len(b1))
    IN AddMid(a, SubSeq(tab, 1, b_offset),
              IF isSub THEN mp_sub_dec(mid, b1, 0) ELSE mp_add_dec(mid, b1, 0),
              SubSeq(tab, b_offset + Len(b1) + 1, Len(tab)), isSub, prec,
              flags)

\* b shifted down by part of a limb.
Widened(s, b_shift) ==
    <<s.c * mp_pow_dec(LIMB_DIGITS - b_shift)>> \o s.tab
ShiftedDec(tab, b_shift) ==
    IF b_shift = 0 THEN tab ELSE Widened(mp_shr_dec(tab, b_shift, 0), b_shift)

AddFiniteDec(a, b, isSub, d, prec, flags) ==
    LET b_len == Len(b.tab) + ((d + LIMB_DIGITS - 1) \div LIMB_DIGITS)
        r_len == Max({Len(a.tab), b_len})
    IN AddAt(a, Zeros(r_len - Len(a.tab)) \o a.tab,
             ShiftedDec(b.tab, d % LIMB_DIGITS), r_len - b_len, isSub, prec,
             flags)

AddOrderedDec(a, b, sign, isSub, cmp, prec, flags) ==
    CASE cmp = 0 /\ isSub /\ a.expn < EXP_INF ->
            Ret(bf_set_zero(Bit(flags.rnd = "D")), {})
      [] ~(cmp = 0 /\ isSub) /\ a.expn < EXP_INF
            /\ (a.tab = <<>> \/ b.tab = <<>>) ->
            bfdec_normalize_and_round([a EXCEPT !.sign = sign], prec, flags)
      [] a.expn = EXP_NAN -> Ret(bf_set_nan, {})
      [] a.expn = EXP_INF ->
            (IF b.expn = EXP_INF /\ isSub
             THEN Ret(bf_set_nan, {"INVALID_OP"})
             ELSE Ret(bf_set_inf(sign), {}))
      [] OTHER -> AddFiniteDec([a EXCEPT !.sign = sign], b, isSub,
                               a.expn - b.expn, prec, flags)

AddCompared(a, b, bsign, cmp, prec, flags) ==
    AddOrderedDec(IF cmp < 0 THEN b ELSE a, IF cmp < 0 THEN a ELSE b,
                  IF cmp < 0 THEN bsign ELSE a.sign, a.sign # bsign, cmp,
                  prec, flags)

bfdec_add_internal(a, b, prec, flags, bsign) ==
    AddCompared(a, b, bsign, bf_cmpu(a, b), prec, flags)

bfdec_add(a, b, prec, flags) ==
    bfdec_add_internal(a, b, prec, flags, b.sign)
bfdec_sub(a, b, prec, flags) ==
    bfdec_add_internal(a, b, prec, flags, 1 - b.sign)
bfdec_add_si(a, n, prec, flags) == bfdec_add(a, bfdec_set_si(n), prec, flags)

-----------------------------------------------------------------------------
(* Multiplication and division. *)

MulOrderedDec(a, b) == IF Len(a.tab) >= Len(b.tab)
                       THEN mp_mul_basecase_dec(a.tab, b.tab)
                       ELSE mp_mul_basecase_dec(b.tab, a.tab)

bfdec_mul(a, b, prec, flags) ==
    IF a.tab = <<>> \/ b.tab = <<>> THEN MulSpecial(a, b)
    ELSE bfdec_normalize_and_round(
            [sign |-> SignOf(a, b), expn |-> a.expn + b.expn,
             tab |-> MulOrderedDec(a, b)], prec, flags)

bfdec_mul_si(a, n, prec, flags) == bfdec_mul(a, bfdec_set_si(n), prec, flags)

\* A remainder makes the last digit odd, for the rounding, or is refused
\* where the result has to be exact.
DivRoundDec(a, b, d, prec, flags) ==
    IF mp_scan_nz(d.r) /\ prec = PREC_INF
    THEN Ret(bf_set_nan, {"INVALID_OP"})
    ELSE bfdec_normalize_and_round(
            [sign |-> SignOf(a, b), expn |-> a.expn - b.expn + LIMB_DIGITS,
             tab |-> [d.q EXCEPT ![1] = @ | Bit(mp_scan_nz(d.r))]],
            prec, flags)

\* Limbs of the quotient.
DivPrecLimbs(a, b, prec, flags) ==
    CASE prec = PREC_INF -> Len(b.tab) + 1
      [] prec # PREC_INF /\ flags.radpnt ->
            (Max({a.expn - b.expn, 0}) + 2 + prec + 2 + LIMB_DIGITS - 1)
                \div LIMB_DIGITS
      [] OTHER -> (prec + 2 + LIMB_DIGITS - 1) \div LIMB_DIGITS

DivFiniteDec(a, b, n, prec, flags) ==
    DivRoundDec(a, b,
        mp_div_dec(Zeros(n + Len(b.tab) - Len(a.tab)) \o a.tab, b.tab),
        prec, flags)

bfdec_div(a, b, prec, flags) ==
    CASE EXP_NAN \in {a.expn, b.expn} -> Ret(bf_set_nan, {})
      [] a.expn = EXP_INF /\ b.expn # EXP_NAN ->
            (IF b.expn = EXP_INF THEN Ret(bf_set_nan, {"INVALID_OP"})
             ELSE Ret(bf_set_inf(SignOf(a, b)), {}))
      [] b.expn = EXP_INF /\ a.expn < EXP_INF ->
            Ret(bf_set_zero(SignOf(a, b)), {})
      [] a.expn = EXP_ZERO /\ b.expn < EXP_INF ->
            (IF b.expn = EXP_ZERO THEN Ret(bf_set_nan, {"INVALID_OP"})
             ELSE Ret(bf_set_zero(SignOf(a, b)), {}))
      [] b.expn = EXP_ZERO /\ a.expn < EXP_INF /\ a.expn # EXP_ZERO ->
            Ret(bf_set_inf(SignOf(a, b)), {"DIVIDE_ZERO"})
      [] OTHER -> DivFiniteDec(a, b,
                    Max({Len(a.tab), DivPrecLimbs(a, b, prec, flags)}),
                    prec, flags)

TdivRemDec(a, b, q) ==
    [q |-> q, r |-> bfdec_sub(a, bfdec_mul(q, b, PREC_INF, ToZero).r,
                              PREC_INF, ToZero).r]

bfdec_tdivremu(a, b) ==
    IF bf_cmpu(a, b) < 0 THEN [q |-> bfdec_set_ui(0), r |-> a]
    ELSE TdivRemDec(a, b, bfdec_div(a, b, 0, AtPoint("Z")).r)

\* Whether the quotient toward zero is one too small for the mode.
QuotientHalf(q, half, rnd) ==
    half > 0 \/ (half = 0 /\ (rnd = "NA"
        \/ get_digit(q.tab, Len(q.tab) * LIMB_DIGITS - q.expn) % 2 = 1))

QuotientUpDec(q, r, a, b, rnd) ==
    /\ r.tab # <<>>
    /\ CASE rnd \in {"N", "NA"} ->
                QuotientHalf(q, bf_cmpu(bfdec_mul_si(r, 2, PREC_INF, ToZero).r,
                                        b), rnd)
         [] rnd = "Z" -> FALSE
         [] rnd = "D" -> SignOf(a, b) = 1
         [] rnd = "U" -> SignOf(a, b) = 0
         [] rnd = "A" -> TRUE
         [] rnd = "F" -> a.sign = 1         \* BF_DIVREM_EUCLIDIAN

DivRemEnd(a, b, q, end) ==
    [q |-> [q EXCEPT !.sign = SignOf(a, b)], r |-> end.r, st |-> end.st]

DivRemSignedDec(a, b, q, r, prec, flags) ==
    DivRemEnd(a, b, q,
        bfdec_round([r EXCEPT !.sign = IF a.sign = 1 THEN 1 - @ ELSE @],
                    prec, flags))

DivRemUpDec(a, b, b1, d, up, prec, flags) ==
    DivRemSignedDec(a, b,
        IF up THEN bfdec_add_si(d.q, 1, PREC_INF, ToZero).r ELSE d.q,
        IF up THEN bfdec_sub(d.r, b1, PREC_INF, ToZero).r ELSE d.r,
        prec, flags)

DivRemRoundedDec(a, b, b1, d, prec, flags, rnd) ==
    DivRemUpDec(a, b, b1, d, QuotientUpDec(d.q, d.r, a, b, rnd), prec, flags)

DivRemSpecialDec(a, b, prec, flags) ==
    CASE EXP_NAN \in {a.expn, b.expn} ->
            [q |-> bf_set_zero(0), r |-> bf_set_nan, st |-> {}]
      [] EXP_NAN \notin {a.expn, b.expn}
            /\ (a.expn = EXP_INF \/ b.expn = EXP_ZERO) ->
            [q |-> bf_set_zero(0), r |-> bf_set_nan, st |-> {"INVALID_OP"}]
      [] OTHER -> [q |-> bf_set_zero(0), r |-> bfdec_round(a, prec, flags).r,
                   st |-> bfdec_round(a, prec, flags).st]

bfdec_divrem(a, b, prec, flags, rnd) ==
    IF a.tab = <<>> \/ b.tab = <<>> THEN DivRemSpecialDec(a, b, prec, flags)
    ELSE DivRemRoundedDec(a, b, [b EXCEPT !.sign = 0],
            bfdec_tdivremu([a EXCEPT !.sign = 0], [b EXCEPT !.sign = 0]),
            prec, flags, rnd)

-----------------------------------------------------------------------------
(* Square root, power and conversion. *)

SqrtRoundDec(a, s, inexact, prec, flags) ==
    bfdec_round([sign |-> 0, expn |-> (a.expn + 1) \div 2,
                 tab |-> [s EXCEPT ![1] = @ | Bit(inexact)]], prec, flags)

SqrtRootDec(a, root, cut, k, prec, flags) ==
    SqrtRoundDec(a, IF k = 0 THEN root.s
                    ELSE mp_div1_dec(root.s, 2 ^ k, 0).tab,
                 cut \/ root.c # 0 \/ mp_scan_nz(root.r), prec, flags)

\* The highest limb is made at least a quarter of the base: a power of four.
RECURSIVE QuarterShift(_)
QuarterShift(v) == IF v < DecBase \div 4 THEN 1 + QuarterShift(v * 4) ELSE 0

SqrtNormalDec(a, a1, cut, k, prec, flags) ==
    SqrtRootDec(a, mp_sqrtrem_dec(IF k = 0 THEN a1
                                  ELSE mp_mul1_dec(a1, 4 ^ k, 0).tab),
                cut, k, prec, flags)

SqrtScaledDec(a, a1, cut, prec, flags) ==
    SqrtNormalDec(a, a1, cut,
        IF Len(a1) = 2 THEN 0 ELSE QuarterShift(a1[Len(a1)]), prec, flags)

SqrtEvenDec(a, shifted, left, prec, flags) ==
    SqrtScaledDec(a, shifted.tab, left \/ shifted.c # 0, prec, flags)

SqrtLimbsDec(a, a1, n1, prec, flags) ==
    SqrtEvenDec(a, IF a.expn % 2 = 1 THEN mp_shr_dec(a1, 1, 0)
                   ELSE [tab |-> a1, c |-> 0],
                mp_scan_nz(SubSeq(a.tab, 1, Len(a.tab) - n1)), prec, flags)

SqrtFiniteDec(a, prec1, prec, flags) ==
    LET n == (2 * (prec1 + 2) + 2 * LIMB_DIGITS - 1) \div (2 * LIMB_DIGITS)
        n1 == Min({2 * n, Len(a.tab)})
    IN SqrtLimbsDec(a, Zeros(2 * n - n1) \o HighLimbs(a.tab, n1), n1,
                    prec, flags)

bfdec_sqrt(a, prec, flags) ==
    CASE a.expn = EXP_NAN -> Ret(bf_set_nan, {})
      [] a.expn # EXP_NAN /\ ((a.sign = 1 /\ a.expn # EXP_ZERO)
                              \/ (a.tab # <<>> /\ prec = PREC_INF)) ->
            Ret(bf_set_nan, {"INVALID_OP"})
      [] a.tab = <<>> /\ a.expn # EXP_NAN
            /\ (a.sign = 0 \/ a.expn = EXP_ZERO) -> Ret(a, {})
      [] OTHER ->
            SqrtFiniteDec(a, IF flags.radpnt
                             THEN Max({((a.expn + 1) \div 2) + prec, 1})
                             ELSE prec, prec, flags)

PowStepDec(square, a, bit) ==
    IF bit = 1 THEN bfdec_mul(square, a, PREC_INF, ToZero).r ELSE square

RECURSIVE PowLoopDec(_, _, _, _)
PowLoopDec(r, a, b, i) ==
    IF i < 0 THEN r
    ELSE PowLoopDec(PowStepDec(bfdec_mul(r, r, PREC_INF, ToZero).r, a,
                               (b \div 2 ^ i) % 2), a, b, i - 1)

bfdec_pow_ui(a, b) ==
    IF b = 0 THEN bfdec_set_ui(1)
    ELSE PowLoopDec(a, a, b, LIMB_BITS - clz(b) - 2)

\* An integer of w bits, at most LIMB_DIGITS digits long, and whether an
\* overflow is reported.
bfdec_get_int32(a, w) ==
    LET most == 2 ^ (w - 1) - 1
        digits == Min({k \in 0 .. LIMB_DIGITS : most < 10 ^ k})
        v1 == fast_shr_dec(a.tab[Len(a.tab)], LIMB_DIGITS - a.expn)
    IN CASE a.expn >= EXP_INF ->
                [v |-> IF a.expn = EXP_INF THEN ToInt(most + a.sign, w)
                       ELSE most, ok |-> TRUE]
         [] a.expn <= 0 -> [v |-> 0, ok |-> TRUE]
         [] a.expn \in 1 .. digits /\ v1 <= most + a.sign ->
                [v |-> Signed(a, v1), ok |-> TRUE]
         [] OTHER -> [v |-> ToInt(most + a.sign, w), ok |-> FALSE]

=============================================================================
