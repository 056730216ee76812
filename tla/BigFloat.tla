------------------------------ MODULE BigFloat ------------------------------
(***************************************************************************)
(* Binary floating point numbers of any precision: the functions bf_* of   *)
(* libbf.  A number is its sign, its exponent and an array of limbs whose  *)
(* highest bit is set: 0.tab * 2^expn; zero, infinity and NaN have no      *)
(* limbs and an exponent of their own.  A function returns the number r    *)
(* and the set st of its status bits.  Allocations do not fail.            *)
(***************************************************************************)
EXTENDS Limbs

EXP_ZERO == -10000
EXP_INF == 9999
EXP_NAN == 10000
PREC_INF == 1000        \* BF_PREC_INF: more bits than any number has

\* How a result is rounded: rnd is a mode, radpnt BF_FLAG_RADPNT_PREC,
\* subnormal BF_FLAG_SUBNORMAL and expBits the bits of an exponent.
RoundingModes == {"N", "Z", "D", "U", "NA", "A", "F"}
Plain(rnd) == [rnd |-> rnd, radpnt |-> FALSE, subnormal |-> FALSE,
               expBits |-> 12]
ToZero == Plain("Z")

bf_set_nan == [sign |-> 0, expn |-> EXP_NAN, tab |-> <<>>]
bf_set_zero(sign) == [sign |-> sign, expn |-> EXP_ZERO, tab |-> <<>>]
bf_set_inf(sign) == [sign |-> sign, expn |-> EXP_INF, tab |-> <<>>]

Ret(r, st) == [r |-> r, st |-> st]

bf_set_ui(a) ==
    IF a = 0 THEN bf_set_zero(0)
    ELSE [sign |-> 0, expn |-> LIMB_BITS - clz(a),
          tab |-> <<Wrap(a * 2 ^ clz(a))>>]

bf_set_si(a) == IF a < 0 THEN [bf_set_ui(-a) EXCEPT !.sign = 1]
                ELSE bf_set_ui(a)

-----------------------------------------------------------------------------
(* Bits of an array: position 0 is the lowest bit of the lowest limb. *)

get_limbz(tab, i) == IF i \in 0 .. Len(tab) - 1 THEN tab[i + 1] ELSE 0

\* The LIMB_BITS bits from pos on.
get_bits(tab, pos) ==
    (get_limbz(tab, pos \div LIMB_BITS) \div 2 ^ (pos % LIMB_BITS))
        | Wrap(get_limbz(tab, (pos \div LIMB_BITS) + 1)
                    * 2 ^ (LIMB_BITS - (pos % LIMB_BITS)))

get_bit(tab, pos) ==
    (get_limbz(tab, pos \div LIMB_BITS) \div 2 ^ (pos % LIMB_BITS)) % 2

\* Is a bit from 0 to bit_pos set?
scan_bit_nz(tab, bit_pos) ==
    /\ bit_pos >= 0
    /\ \/ get_limbz(tab, bit_pos \div LIMB_BITS)
            % 2 ^ ((bit_pos % LIMB_BITS) + 1) # 0
       \/ mp_scan_nz(SubSeq(tab, 1, bit_pos \div LIMB_BITS))

-----------------------------------------------------------------------------
(* Rounding. *)

\* bit1 is the first bit that is cut off, bit0 whether one below it is set.
RndAdd(tab, sign, prec, rnd, bit1, bit0) ==
    CASE rnd = "Z" -> 0
      [] rnd = "N" -> IF bit1 = 0 THEN 0
                      ELSE IF bit0 THEN 1
                      ELSE get_bit(tab, Len(tab) * LIMB_BITS - prec)
      [] rnd \in {"D", "U"} ->
            Bit(sign = Bit(rnd = "D") /\ (bit1 # 0 \/ bit0))
      [] rnd = "A" -> Bit(bit1 # 0 \/ bit0)
      [] rnd \in {"NA", "F"} -> bit1

bf_get_rnd_add(tab, sign, prec, rnd) ==
    LET n == Len(tab) * LIMB_BITS - 1
        bit0 == rnd = "F" \/ scan_bit_nz(tab, n - Max({0, prec + 1}))
        bit1 == get_bit(tab, n - prec)
    IN [add |-> RndAdd(tab, sign, prec, rnd, bit1, bit0),
        st |-> IF bit1 # 0 \/ bit0 THEN {"INEXACT"} ELSE {}]

ExpRange(flags) == 2 ^ (flags.expBits - 1)
ExpMin(flags) == 3 - ExpRange(flags)
ExpMax(flags) == ExpRange(flags)

OverflowsToInf(sign, prec, rnd) ==
    \/ prec = PREC_INF
    \/ rnd \in {"N", "NA", "A"}
    \/ rnd = "D" /\ sign = 1
    \/ rnd = "U" /\ sign = 0

bf_set_overflow(sign, prec, flags) ==
    LET l == (prec + LIMB_BITS - 1) \div LIMB_BITS
        low == (-prec) % LIMB_BITS
    IN Ret(IF OverflowsToInf(sign, prec, flags.rnd) THEN bf_set_inf(sign)
           ELSE [sign |-> sign, expn |-> ExpMax(flags),
                 tab |-> [i \in 1 .. l |-> IF i = 1 THEN Base - 2 ^ low
                                           ELSE AllOnes]],
           {"OVERFLOW", "INEXACT"})

RECURSIVE DropZeros(_)
DropZeros(tab) == IF tab[1] = 0 THEN DropZeros(Tail(tab)) ELSE tab

\* Keep the bits above bit_pos and drop limbs that are zero.
KeepBits(tab, bit_pos) ==
    LET i == bit_pos \div LIMB_BITS
        unit == 2 ^ (bit_pos % LIMB_BITS)
    IN IF bit_pos < 0 THEN DropZeros(tab)
       ELSE DropZeros(<<(tab[i + 1] \div unit) * unit>>
                        \o SubSeq(tab, i + 2, Len(tab)))

\* After the addition of one: the limits of the exponent.
RoundEnd(r, prec1, prec, flags, st) ==
    IF r.expn < ExpMin(flags) /\ ~flags.subnormal
    THEN Ret(bf_set_zero(r.sign), st \cup {"UNDERFLOW", "INEXACT"})
    ELSE IF r.expn > ExpMax(flags) THEN bf_set_overflow(r.sign, prec1, flags)
    ELSE Ret([r EXCEPT !.tab = KeepBits(@, Len(@) * LIMB_BITS - prec)],
             IF r.expn < ExpMin(flags) /\ "INEXACT" \in st
             THEN st \cup {"UNDERFLOW"} ELSE st)

\* A carry out of the highest limb: one shift to the right.
RoundCarry(r, low, sum, prec1, prec, flags, st) ==
    IF sum.c # 0
    THEN RoundEnd([r EXCEPT !.tab = low \o mp_shr(sum.tab, 1, 1).tab,
                            !.expn = @ + 1], prec1, prec, flags, st)
    ELSE RoundEnd([r EXCEPT !.tab = low \o sum.tab], prec1, prec, flags, st)

RoundAt(r, prec1, prec, flags, rounding, st) ==
    LET bit_pos == Len(r.tab) * LIMB_BITS - prec
        pos == bit_pos \div LIMB_BITS
    IN CASE prec <= 0 /\ rounding.add = 1 ->
                Ret([sign |-> r.sign, expn |-> r.expn + 1 - prec,
                     tab |-> <<Base \div 2>>],
                    st \cup {"UNDERFLOW", "INEXACT"})
         [] prec <= 0 /\ rounding.add = 0 ->
                Ret(bf_set_zero(r.sign), st \cup {"UNDERFLOW", "INEXACT"})
         [] prec > 0 /\ rounding.add = 1 ->
                RoundCarry(r, SubSeq(r.tab, 1, pos),
                    mp_add_ui(SubSeq(r.tab, pos + 1, Len(r.tab)),
                              2 ^ (bit_pos % LIMB_BITS)),
                    prec1, prec, flags, st \cup rounding.st)
         [] OTHER -> RoundEnd(r, prec1, prec, flags, st \cup rounding.st)

\* The precision the flags leave.
RoundPrec(r, prec1, flags) ==
    CASE flags.radpnt ->
            IF prec1 # PREC_INF THEN r.expn + prec1 ELSE prec1
      [] ~flags.radpnt /\ r.expn < ExpMin(flags) /\ flags.subnormal ->
            prec1 - (ExpMin(flags) - r.expn)
      [] OTHER -> prec1

RoundTo(r, prec1, prec, flags, st) ==
    RoundAt(r, prec1, prec, flags,
            bf_get_rnd_add(r.tab, r.sign, prec, flags.rnd), st)

\* __bf_round of a number with limbs.
Round(r, prec1, flags, st) ==
    RoundTo(r, prec1, RoundPrec(r, prec1, flags), flags, st)

bf_round(r, prec, flags) ==
    IF r.tab = <<>> THEN Ret(r, {}) ELSE Round(r, prec, flags, {})

bf_rint(r, rnd) == bf_round(r, 0, [Plain(rnd) EXCEPT !.radpnt = TRUE])

\* Shift left until the highest bit is set.
ShiftUp(tab, shift) ==
    [i \in 1 .. Len(tab) |->
        Wrap(tab[i] * 2 ^ shift)
            | (get_limbz(tab, i - 2) \div 2 ^ (LIMB_BITS - shift))]

RECURSIVE DropTop(_)
DropTop(tab) ==
    IF tab # <<>> /\ tab[Len(tab)] = 0
    THEN DropTop(SubSeq(tab, 1, Len(tab) - 1)) ELSE tab

NormalizeTab(r, tab, prec1, flags) ==
    LET shift == clz(tab[Len(tab)])
    IN IF tab = <<>> THEN Ret([r EXCEPT !.expn = EXP_ZERO, !.tab = <<>>], {})
       ELSE Round([sign |-> r.sign,
                   expn |-> r.expn - (Len(r.tab) - Len(tab)) * LIMB_BITS
                                - shift,
                   tab |-> ShiftUp(tab, shift)], prec1, flags, {})

bf_normalize_and_round(r, prec1, flags) ==
    NormalizeTab(r, DropTop(r.tab), prec1, flags)

\* Whether a, which is within 2^(a.expn - k) of the exact result, rounds as
\* that does.
bf_can_round(a, prec, rnd, k) ==
    LET n == Len(a.tab) * LIMB_BITS - 1
        first == get_bit(a.tab, n - prec)
        same == IF rnd \in {"N", "NA"} THEN 1 - first ELSE first
    IN CASE a.expn \in {EXP_INF, EXP_NAN} -> FALSE
         [] a.expn < EXP_INF /\ rnd = "F" -> k >= prec + 1
         [] OTHER ->
                /\ a.expn # EXP_ZERO
                /\ k >= prec + 2
                /\ \E j \in 1 .. k - prec - 1 :
                        get_bit(a.tab, n - prec - j) # same

-----------------------------------------------------------------------------
(* Comparisons. *)

RECURSIVE CmpLimbs(_, _, _, _)
CmpLimbs(a, b, len, i) ==
    LET v1 == get_limbz(a, Len(a) - len + i)
        v2 == get_limbz(b, Len(b) - len + i)
    IN IF i < 0 THEN 0
       ELSE IF v1 # v2 THEN (IF v1 < v2 THEN -1 ELSE 1)
       ELSE CmpLimbs(a, b, len, i - 1)

\* Of the absolute values.
bf_cmpu(a, b) ==
    IF a.expn # b.expn THEN (IF a.expn < b.expn THEN -1 ELSE 1)
    ELSE CmpLimbs(a.tab, b.tab, Max({Len(a.tab), Len(b.tab)}),
                  Max({Len(a.tab), Len(b.tab)}) - 1)

CmpSigned(a, b) == IF a.sign = 1 THEN -bf_cmpu(a, b) ELSE bf_cmpu(a, b)

\* -0 before 0, NaN equal to itself and above all others.
bf_cmp_full(a, b) ==
    CASE a.expn = EXP_NAN \/ b.expn = EXP_NAN ->
            (IF a.expn = b.expn THEN 0
             ELSE IF a.expn = EXP_NAN THEN 1 ELSE -1)
      [] a.expn # EXP_NAN /\ b.expn # EXP_NAN /\ a.sign # b.sign ->
            1 - 2 * a.sign
      [] OTHER -> CmpSigned(a, b)

\* 2 when one is NaN; the zeros are equal.
bf_cmp(a, b) ==
    CASE a.expn = EXP_NAN \/ b.expn = EXP_NAN -> 2
      [] a.expn # EXP_NAN /\ b.expn # EXP_NAN /\ a.sign # b.sign ->
            (IF a.expn = EXP_ZERO /\ b.expn = EXP_ZERO THEN 0
             ELSE 1 - 2 * a.sign)
      [] OTHER -> CmpSigned(a, b)

-----------------------------------------------------------------------------
(* Addition and subtraction. *)

NotLimb(v) == AllOnes - v

\* In a - b as many leading bits vanish as a = X1000.. and b = X0111..
\* agree in; off runs down the bits of a, boff takes it to those of b.
RECURSIVE CancelledTail(_, _, _, _, _)
CancelledTail(a, b, off, boff, n) ==
    LET v1 == get_limbz(a, off \div LIMB_BITS)
        v2 == get_bits(b, off + boff)
    IN IF v1 # 0 \/ v2 # AllOnes THEN n + Min({clz(v1), clz(NotLimb(v2))})
       ELSE CancelledTail(a, b, off - LIMB_BITS, boff, n + LIMB_BITS)

CancelledInLimb(a, b, off, boff, n, v1, v2, p) ==
    LET mask == 2 ^ p - 1
        p1 == Min({clz(v1 & mask), clz(NotLimb(v2) & mask)})
                - (LIMB_BITS - p)
    IN IF p > 0 /\ p1 # p THEN n + p1
       ELSE CancelledTail(a, b, off - LIMB_BITS, boff, n + p)

RECURSIVE CancelledFrom(_, _, _, _, _)
CancelledFrom(a, b, off, boff, n) ==
    LET v1 == get_limbz(a, off \div LIMB_BITS)
        v2 == get_bits(b, off + boff)
        same == clz(v1 ^^ v2) + 1
    IN IF v1 = v2
       THEN CancelledFrom(a, b, off - LIMB_BITS, boff, n + LIMB_BITS)
       ELSE CancelledInLimb(a, b, off, boff, n + same, v1, v2,
                            LIMB_BITS - same)

count_cancelled_bits(a, b) ==
    CancelledFrom(a.tab, b.tab, Len(a.tab) * LIMB_BITS - 1,
        (Len(b.tab) - Len(a.tab)) * LIMB_BITS - (LIMB_BITS - 1)
            + a.expn - b.expn, 0)

Masked(v, isSub) == IF isSub THEN NotLimb(v) ELSE v

\* The limbs below those of the result, i from -k up to 0: only the carry
\* out of them and whether one is not zero (z) count.  Where neither a nor b
\* has limbs the loop leaps to the next that has.
RECURSIVE AddBelow(_, _, _, _, _, _, _)
AddBelow(a, b, aoff, boff, isSub, i, acc) ==
    LET ap == aoff + i
        bp == boff + i * LIMB_BITS
        inA == ap >= 0 /\ ap < Len(a)
        inB == bp + LIMB_BITS > 0 /\ bp < Len(b) * LIMB_BITS
        next == Min({0} \cup (IF ap < 0 THEN {-aoff} ELSE {})
                     \cup (IF bp + LIMB_BITS <= 0
                           THEN {(-boff) \div LIMB_BITS} ELSE {}))
        v1 == IF inA THEN a[ap + 1] ELSE 0
        sum == v1 + Masked(IF inB THEN get_bits(b, bp) ELSE 0, isSub) + acc.c
    IN IF i >= 0 THEN acc
       ELSE AddBelow(a, b, aoff, boff, isSub,
                     IF inA \/ inB THEN i + 1 ELSE next,
                     [c |-> High(sum), z |-> acc.z \/ Wrap(sum) # 0])

RECURSIVE AddLimbs(_, _, _, _, _, _, _)
AddLimbs(a, b, aoff, boff, isSub, r_len, acc) ==
    LET i == Len(acc.tab)
        sum == get_limbz(a, aoff + i)
                + Masked(get_bits(b, boff + i * LIMB_BITS), isSub) + acc.c
    IN IF i = r_len THEN acc
       ELSE AddLimbs(a, b, aoff, boff, isSub, r_len,
                [tab |-> Append(acc.tab, Wrap(sum)), c |-> High(sum)])

\* The extra bit for the rounding, and the carry of an addition.
AddFinish(sign, expn, isSub, sum, sticky, prec, flags) ==
    LET tab == [sum.tab EXCEPT ![1] = @ | Bit(sticky)]
    IN IF ~isSub /\ sum.c # 0
       THEN bf_normalize_and_round(
                [sign |-> sign, expn |-> expn + LIMB_BITS,
                 tab |-> Append(tab, 1)], prec, flags)
       ELSE bf_normalize_and_round(
                [sign |-> sign, expn |-> expn, tab |-> tab], prec, flags)

AddFrom(a, b, sign, isSub, r_len, aoff, boff, low, prec, flags) ==
    AddFinish(sign, a.expn, isSub,
        AddLimbs(a.tab, b.tab, aoff, boff, isSub, r_len,
                 [tab |-> <<>>, c |-> low.c]), low.z, prec, flags)

AddAligned(a, b, sign, isSub, d, r_len, tot_len, prec, flags) ==
    LET aoff == Len(a.tab) - r_len
        boff == (Len(b.tab) - r_len) * LIMB_BITS + d
    IN AddFrom(a, b, sign, isSub, r_len, aoff, boff,
               AddBelow(a.tab, b.tab, aoff, boff, isSub, r_len - tot_len,
                        [c |-> Bit(isSub), z |-> FALSE]), prec, flags)

CancelledBits(a, b, isSub, d) ==
    IF ~isSub THEN 0 ELSE IF d <= 1 THEN count_cancelled_bits(a, b) ELSE 1

AddFinite(a, b, sign, isSub, d, prec, flags) ==
    LET precl == (CancelledBits(a, b, isSub, d) + prec + 2 + LIMB_BITS - 1)
                    \div LIMB_BITS
        tot_len == Max({Len(a.tab),
                        Len(b.tab) + ((d + LIMB_BITS - 1) \div LIMB_BITS)})
    IN AddAligned(a, b, sign, isSub, d, Min({precl, tot_len}), tot_len,
                  prec, flags)

\* |a| >= |b|, cmp their comparison.
AddOrdered(a, b, sign, isSub, cmp, prec, flags) ==
    CASE cmp = 0 /\ isSub /\ a.expn < EXP_INF ->
            Ret(bf_set_zero(Bit(flags.rnd = "D")), {})
      [] ~(cmp = 0 /\ isSub) /\ a.expn < EXP_INF
            /\ (a.tab = <<>> \/ b.tab = <<>>) ->
            bf_normalize_and_round([a EXCEPT !.sign = sign], prec, flags)
      [] a.expn = EXP_NAN -> Ret(bf_set_nan, {})
      [] a.expn = EXP_INF ->
            (IF b.expn = EXP_INF /\ isSub
             THEN Ret(bf_set_nan, {"INVALID_OP"})
             ELSE Ret(bf_set_inf(sign), {}))
      [] OTHER -> AddFinite(a, b, sign, isSub, a.expn - b.expn, prec, flags)

bf_add_internal(a, b, prec, flags, bsign) ==
    IF bf_cmpu(a, b) < 0
    THEN AddOrdered(b, a, bsign, a.sign # bsign, -1, prec, flags)
    ELSE AddOrdered(a, b, a.sign, a.sign # bsign, bf_cmpu(a, b), prec, flags)

bf_add(a, b, prec, flags) == bf_add_internal(a, b, prec, flags, b.sign)
bf_sub(a, b, prec, flags) == bf_add_internal(a, b, prec, flags, 1 - b.sign)
bf_add_si(a, n, prec, flags) == bf_add(a, bf_set_si(n), prec, flags)

-----------------------------------------------------------------------------
(* Multiplication and division. *)

SignOf(a, b) == IF a.sign = b.sign THEN 0 ELSE 1

HighLimbs(tab, n) == SubSeq(tab, Len(tab) - n + 1, Len(tab))

\* Faithful rounding does without the low limbs of the operands.
FactorLen(tab, prec, rnd) ==
    IF rnd = "F" THEN Min({Len(tab), (prec + 2 + LIMB_BITS - 1) \div LIMB_BITS})
    ELSE Len(tab)

MulFinite(a, b, prec, flags) ==
    bf_normalize_and_round(
        [sign |-> SignOf(a, b), expn |-> a.expn + b.expn,
         tab |-> mp_mul_basecase(
                    HighLimbs(a.tab, FactorLen(a.tab, prec, flags.rnd)),
                    HighLimbs(b.tab, FactorLen(b.tab, prec, flags.rnd)))],
        prec, flags)

MulSpecial(a, b) ==
    CASE EXP_NAN \in {a.expn, b.expn} -> Ret(bf_set_nan, {})
      [] {a.expn, b.expn} = {EXP_INF, EXP_ZERO} ->
            Ret(bf_set_nan, {"INVALID_OP"})
      [] EXP_INF \in {a.expn, b.expn}
            /\ {EXP_NAN, EXP_ZERO} \cap {a.expn, b.expn} = {} ->
            Ret(bf_set_inf(SignOf(a, b)), {})
      [] OTHER -> Ret(bf_set_zero(SignOf(a, b)), {})

bf_mul(a, b, prec, flags) ==
    CASE a.tab = <<>> \/ b.tab = <<>> -> MulSpecial(a, b)
      [] a.tab # <<>> /\ Len(a.tab) >= Len(b.tab) /\ b.tab # <<>> ->
            MulFinite(a, b, prec, flags)
      [] OTHER -> MulFinite(b, a, prec, flags)

\* The exponent e of a = m * 2^e with m odd.
RECURSIVE ExpMinFrom(_, _)
ExpMinFrom(a, i) ==
    CASE i = Len(a.tab) -> 0
      [] i < Len(a.tab) /\ a.tab[i + 1] # 0 ->
            a.expn - (Len(a.tab) - i) * LIMB_BITS + ctz(a.tab[i + 1])
      [] OTHER -> ExpMinFrom(a, i + 1)

bf_get_exp_min(a) == ExpMinFrom(a, 0)

bf_mul_2exp(r, e, prec, flags) ==
    IF r.tab = <<>> THEN Ret(r, {})
    ELSE Round([r EXCEPT !.expn = @ + e], prec, flags, {})

\* A remainder sets the lowest bit of the quotient, for the rounding.
DivRound(a, b, d, prec, flags) ==
    bf_normalize_and_round(
        [sign |-> SignOf(a, b), expn |-> a.expn - b.expn + LIMB_BITS,
         tab |-> [d.q EXCEPT ![1] =
                    @ | Bit(mp_scan_nz(SubSeq(d.r, 1, Len(b.tab))))]],
        prec, flags)

DivFinite(a, b, n, prec, flags) ==
    DivRound(a, b,
        mp_divnorm(Zeros(n + Len(b.tab) - Len(a.tab)) \o a.tab, b.tab),
        prec, flags)

bf_div(a, b, prec, flags) ==
    CASE EXP_NAN \in {a.expn, b.expn} -> Ret(bf_set_nan, {})
      [] a.expn = EXP_INF /\ b.expn # EXP_NAN ->
            (IF b.expn = EXP_INF THEN Ret(bf_set_nan, {"INVALID_OP"})
             ELSE Ret(bf_set_inf(SignOf(a, b)), {}))
      [] b.expn = EXP_INF /\ a.expn < EXP_INF ->
            Ret(bf_set_zero(SignOf(a, b)), {})
      [] a.expn = EXP_ZERO /\ b.expn < EXP_INF ->
            (IF b.expn = EXP_ZERO THEN Ret(bf_set_nan, {"INVALID_OP"})
             ELSE Ret(bf_set_zero(SignOf(a, b)), {}))
      [] b.expn = EXP_ZERO /\ a.expn < EXP_INF /\ a.expn # EXP_ZERO ->
            Ret(bf_set_inf(SignOf(a, b)), {"DIVIDE_ZERO"})
      [] OTHER ->
            DivFinite(a, b, Max({Len(a.tab),
                        (prec + 2 + LIMB_BITS - 1) \div LIMB_BITS}),
                      prec, flags)

-----------------------------------------------------------------------------
(* Remainder, root and power. *)

\* Quotient toward zero and remainder of absolute values.
TdivRem(a, b, q) ==
    [q |-> q, r |-> bf_sub(a, bf_mul(q, b, PREC_INF, ToZero).r,
                           PREC_INF, ToZero).r]

bf_tdivremu(a, b) ==
    IF bf_cmpu(a, b) < 0 THEN [q |-> bf_set_ui(0), r |-> a]
    ELSE TdivRem(a, b,
            bf_rint(bf_div(a, b, Max({a.expn - b.expn + 1, 2}), ToZero).r,
                    "Z").r)

\* Whether the quotient toward zero is one too small for the mode.
QuotientUp(q, r, a, b, rnd) ==
    LET half == bf_cmpu(r, [b EXCEPT !.expn = @ - 1])
        odd == get_bit(q.tab, Len(q.tab) * LIMB_BITS - q.expn) = 1
    IN /\ r.tab # <<>>
       /\ CASE rnd \in {"N", "NA"} ->
                    half > 0 \/ (half = 0 /\ (rnd = "NA" \/ odd))
            [] rnd = "Z" -> FALSE
            [] rnd = "D" -> SignOf(a, b) = 1
            [] rnd = "U" -> SignOf(a, b) = 0
            [] rnd = "A" -> TRUE
            [] rnd = "F" -> a.sign = 1      \* BF_DIVREM_EUCLIDIAN

DivRemSigned(a, b, q, r, prec, flags) ==
    LET end == bf_round([r EXCEPT !.sign = IF a.sign = 1 THEN 1 - @ ELSE @],
                        prec, flags)
    IN [q |-> [q EXCEPT !.sign = SignOf(a, b)], r |-> end.r, st |-> end.st]

DivRemRounded(a, b, b1, d, prec, flags, rnd) ==
    IF QuotientUp(d.q, d.r, a, b, rnd)
    THEN DivRemSigned(a, b, bf_add_si(d.q, 1, PREC_INF, ToZero).r,
                      bf_sub(d.r, b1, PREC_INF, ToZero).r, prec, flags)
    ELSE DivRemSigned(a, b, d.q, d.r, prec, flags)

DivRemSpecial(a, b, prec, flags) ==
    CASE EXP_NAN \in {a.expn, b.expn} ->
            [q |-> bf_set_zero(0), r |-> bf_set_nan, st |-> {}]
      [] EXP_NAN \notin {a.expn, b.expn}
            /\ (a.expn = EXP_INF \/ b.expn = EXP_ZERO) ->
            [q |-> bf_set_zero(0), r |-> bf_set_nan, st |-> {"INVALID_OP"}]
      [] OTHER -> [q |-> bf_set_zero(0), r |-> bf_round(a, prec, flags).r,
                   st |-> bf_round(a, prec, flags).st]

bf_divrem(a, b, prec, flags, rnd) ==
    IF a.tab = <<>> \/ b.tab = <<>> THEN DivRemSpecial(a, b, prec, flags)
    ELSE DivRemRounded(a, b, [b EXCEPT !.sign = 0],
            bf_tdivremu([a EXCEPT !.sign = 0], [b EXCEPT !.sign = 0]),
            prec, flags, rnd)

SqrtRound(a, root, cut, prec, flags) ==
    bf_round([sign |-> 0, expn |-> (a.expn + 1) \div 2,
              tab |-> [root.s EXCEPT ![1] =
                @ | Bit(cut \/ root.c # 0 \/ mp_scan_nz(root.r))]],
             prec, flags)

\* n1 limbs of a fit in the 2 * n whose root is taken; an odd exponent
\* shifts them by one.
SqrtLimbs(a, a1, n1, prec, flags) ==
    LET shifted == mp_shr(a1, 1, 0)
        left == mp_scan_nz(SubSeq(a.tab, 1, Len(a.tab) - n1))
    IN IF a.expn % 2 = 1
       THEN SqrtRound(a, mp_sqrtrem(shifted.tab), left \/ shifted.c # 0,
                      prec, flags)
       ELSE SqrtRound(a, mp_sqrtrem(a1), left, prec, flags)

SqrtFinite(a, n, prec, flags) ==
    LET n1 == Min({2 * n, Len(a.tab)})
    IN SqrtLimbs(a, Zeros(2 * n - n1) \o HighLimbs(a.tab, n1), n1,
                 prec, flags)

bf_sqrt(a, prec, flags) ==
    CASE a.expn = EXP_NAN -> Ret(bf_set_nan, {})
      [] a.sign = 1 /\ a.expn \notin {EXP_NAN, EXP_ZERO} ->
            Ret(bf_set_nan, {"INVALID_OP"})
      [] a.tab = <<>> /\ a.expn # EXP_NAN
            /\ (a.sign = 0 \/ a.expn = EXP_ZERO) -> Ret(a, {})
      [] OTHER ->
            SqrtFinite(a, (2 * (prec + 2) + 2 * LIMB_BITS - 1)
                                \div (2 * LIMB_BITS), prec, flags)

\* The root of an integer and what is left of it.
SqrtRemOf(a, r) ==
    LET square == bf_mul(r, r, PREC_INF, ToZero).r
        rem == bf_add([square EXCEPT !.sign = 1], a, PREC_INF, ToZero).r
    IN [r |-> r, rem |-> rem,
        st |-> IF rem.tab # <<>> THEN {"INEXACT"} ELSE {}]

bf_sqrtrem(a) ==
    IF a.tab # <<>> /\ a.sign = 0
    THEN SqrtRemOf(a, bf_rint(bf_sqrt(a, (a.expn + 1) \div 2, ToZero).r,
                              "Z").r)
    ELSE [r |-> bf_sqrt(a, 1, ToZero).r, rem |-> bf_set_ui(0),
          st |-> bf_sqrt(a, 1, ToZero).st]

\* From the second highest bit of the exponent down.
RECURSIVE PowLoop(_, _, _, _, _, _, _)
PowLoop(r, st, a, b, i, prec, flags) ==
    LET square == bf_mul(r, r, prec, flags)
        more == bf_mul(square.r, a, prec, flags)
    IN CASE i < 0 -> Ret(r, st)
         [] i >= 0 /\ (b \div 2 ^ i) % 2 = 1 ->
                PowLoop(more.r, st \cup square.st \cup more.st, a, b, i - 1,
                        prec, flags)
         [] OTHER -> PowLoop(square.r, st \cup square.st, a, b, i - 1,
                             prec, flags)

bf_pow_ui(a, b, prec, flags) ==
    IF b = 0 THEN Ret(bf_set_ui(1), {})
    ELSE PowLoop(a, {}, a, b, LIMB_BITS - clz(b) - 2, prec, flags)

-----------------------------------------------------------------------------
(* Bitwise operations, as on integers in two's complement. *)

bf_logic_op1(v1, v2, op) ==
    CASE op = "or" -> v1 | v2
      [] op = "xor" -> v1 ^^ v2
      [] op = "and" -> v1 & v2

\* The limbs of the result: no more than the shorter positive number has,
\* where an "and" has zeros above.
LogicLen(a, b, asign, bsign, op) ==
    LET expn == CASE op = "and" /\ asign = 0 /\ bsign = 0 ->
                        Min({a.expn, b.expn})
                  [] op = "and" /\ asign = 0 /\ bsign = 1 -> a.expn
                  [] op = "and" /\ asign = 1 /\ bsign = 0 -> b.expn
                  [] OTHER -> Max({a.expn, b.expn})
    IN (Max({expn, 1}) + LIMB_BITS - 1) \div LIMB_BITS

LogicLimb(x, sign, i) ==
    Masked(get_bits(x.tab, Len(x.tab) * LIMB_BITS - x.expn + i * LIMB_BITS),
           sign = 1)

LogicLimbs(a, b, asign, bsign, op, rsign, l) ==
    bf_normalize_and_round(
        [sign |-> rsign, expn |-> l * LIMB_BITS,
         tab |-> [i \in 1 .. l |->
            Masked(bf_logic_op1(LogicLimb(a, asign, i - 1),
                                LogicLimb(b, bsign, i - 1), op),
                   rsign = 1)]], PREC_INF, ToZero).r

LogicSign(r, rsign) ==
    IF rsign = 1 THEN bf_add_si(r, -1, PREC_INF, ToZero).r ELSE r

LogicSigned(a, b, asign, bsign, op) ==
    LogicSign(LogicLimbs(a, b, asign, bsign, op,
                         bf_logic_op1(asign, bsign, op),
                         LogicLen(a, b, asign, bsign, op)),
              bf_logic_op1(asign, bsign, op))

\* A negative number is taken as the complement of -(a + 1).
LogicOperand(a, sign) ==
    IF sign = 1 THEN bf_add_si(a, 1, PREC_INF, ToZero).r ELSE a

LogicSignOf(a) == IF a.expn <= 0 THEN 0 ELSE a.sign

bf_logic_op(a1, b1, op) ==
    LogicSigned(LogicOperand(a1, LogicSignOf(a1)),
                LogicOperand(b1, LogicSignOf(b1)),
                LogicSignOf(a1), LogicSignOf(b1), op)

-----------------------------------------------------------------------------
(* Conversions to and from the machine's numbers, scaled: an integer of w  *)
(* bits, w at most a limb, and a double of one limb with ebits bits of     *)
(* exponent.                                                               *)

ToInt(v, w) == LET u == v % 2 ^ w
               IN IF u >= 2 ^ (w - 1) THEN u - 2 ^ w ELSE u

TopBits(a, n) == a.tab[Len(a.tab)] \div 2 ^ (LIMB_BITS - n)

Signed(a, v) == IF a.sign = 1 THEN -v ELSE v

\* bf_get_int32 and bf_get_int64: v the value, ok whether it fits.
bf_get_int(a, w, mod) ==
    LET most == 2 ^ (w - 1) - 1
    IN CASE a.expn >= EXP_INF ->
                [v |-> IF mod THEN 0
                       ELSE IF a.expn = EXP_INF THEN ToInt(most + a.sign, w)
                       ELSE most, ok |-> FALSE]
         [] a.expn <= 0 -> [v |-> 0, ok |-> TRUE]
         [] a.expn \in 1 .. w - 1 ->
                [v |-> Signed(a, TopBits(a, a.expn)), ok |-> TRUE]
         [] a.expn \in w .. EXP_INF - 1 /\ ~mod ->
                [v |-> IF a.sign = 1 THEN -most - 1 ELSE most,
                 ok |-> a.sign = 1 /\ a.expn = w /\ TopBits(a, w) = most + 1]
         [] OTHER ->
                [v |-> ToInt(Signed(a, get_bits(a.tab,
                            Len(a.tab) * LIMB_BITS - a.expn)), w),
                 ok |-> TRUE]

bf_get_uint64(a) ==
    CASE a.expn <= 0 -> [v |-> 0, ok |-> TRUE]
      [] a.expn \in 1 .. EXP_INF /\ a.sign = 1 -> [v |-> 0, ok |-> FALSE]
      [] a.expn \in 1 .. LIMB_BITS /\ a.sign = 0 ->
            [v |-> TopBits(a, a.expn), ok |-> TRUE]
      [] OTHER -> [v |-> AllOnes, ok |-> FALSE]

Bias(ebits) == 2 ^ (ebits - 1) - 1
Double(sign, e, m, ebits) ==
    sign * 2 ^ (LIMB_BITS - 1) + e * 2 ^ (LIMB_BITS - 1 - ebits) + m

\* The bits of a number that was rounded to the precision of a double.
Float64Of(b, ebits) ==
    LET e == b.expn + Bias(ebits) - 1
    IN CASE b.expn = EXP_INF -> Double(b.sign, 2 ^ ebits - 1, 0, ebits)
         [] b.expn = EXP_ZERO -> Double(b.sign, 0, 0, ebits)
         [] e <= 0 -> Double(b.sign, 0, b.tab[1] \div 2 ^ (ebits + 1 - e),
                             ebits)
         [] OTHER -> Double(b.sign, e,
                            Wrap(b.tab[1] * 2) \div 2 ^ (ebits + 1), ebits)

bf_get_float64(a, rnd, ebits) ==
    IF a.expn = EXP_NAN
    THEN Double(0, 2 ^ ebits - 1, 2 ^ (LIMB_BITS - 2 - ebits), ebits)
    ELSE Float64Of(
            bf_round(a, LIMB_BITS - ebits,
                     [rnd |-> rnd, radpnt |-> FALSE, subnormal |-> TRUE,
                      expBits |-> ebits]).r, ebits)

bf_set_float64(d, ebits) ==
    LET sgn == d \div 2 ^ (LIMB_BITS - 1)
        e == (d \div 2 ^ (LIMB_BITS - 1 - ebits)) % 2 ^ ebits
        m == d % 2 ^ (LIMB_BITS - 1 - ebits)
        up == Wrap(m * 2 ^ (ebits + 1))
        shift == clz(up)
        num(e1, limb) == [sign |-> sgn, expn |-> e1 - Bias(ebits) + 1,
                          tab |-> <<limb>>]
    IN CASE e = 2 ^ ebits - 1 /\ m # 0 -> bf_set_nan
         [] e = 2 ^ ebits - 1 /\ m = 0 -> bf_set_inf(sgn)
         [] e = 0 /\ m = 0 -> bf_set_zero(sgn)
         [] e = 0 /\ m # 0 -> num(-shift, Wrap(up * 2 ^ shift))
         [] OTHER -> num(e, m * 2 ^ ebits + 2 ^ (LIMB_BITS - 1))

=============================================================================
