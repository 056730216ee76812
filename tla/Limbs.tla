------------------------------- MODULE Limbs --------------------------------
(***************************************************************************)
(* Arithmetic of natural numbers kept as arrays of limbs, the lowest       *)
(* first: the functions mp_* of libbf, on which BigInt, BigFloat and the   *)
(* decimal numbers rest.                                                   *)
(*                                                                         *)
(* The width of a limb and the lengths from which the faster methods are   *)
(* used are parameters, as they are in libbf, so that short arrays of      *)
(* narrow limbs go through every branch.  A limb wraps at Base, a pair of  *)
(* limbs (dlimb_t) at Base^2.  A function that returns through pointers    *)
(* returns a record here: tab is the array, c the limb it returns.         *)
(***************************************************************************)
EXTENDS Integers, Sequences, FiniteSetsExt, Bitwise

CONSTANTS
    LIMB_BITS,                  \* width of a limb, 4 or 8 here
    UDIV1NORM_THRESHOLD,        \* limbs from which an inverse is used
    DIVNORM_LARGE_THRESHOLD     \* limbs from which a reciprocal is used; a
                                \* reciprocal of two limbs is a division

Base == 2 ^ LIMB_BITS
AllOnes == Base - 1
Wrap(v) == v % Base
Wrap2(v) == v % (Base * Base)
High(v) == v \div Base
IsNegative(limb) == limb >= Base \div 2
Bit(cond) == IF cond THEN 1 ELSE 0

Limb == 0 .. AllOnes

\* The number of leading zero bits of a limb.
clz(a) == LIMB_BITS - Min({k \in 0 .. LIMB_BITS : a < 2 ^ k})

ctz(a) == Max({k \in 0 .. LIMB_BITS : a % (2 ^ k) = 0})

Zeros(n) == [i \in 1 .. n |-> 0]

\* n limbs of an array from index i on, and the array with part put there.
Part(tab, i, n) == SubSeq(tab, i + 1, i + n)

Put(tab, i, part) ==
    SubSeq(tab, 1, i) \o part \o SubSeq(tab, i + Len(part) + 1, Len(tab))

-----------------------------------------------------------------------------
(* Additions, subtractions and shifts. *)

RECURSIVE mp_add(_, _, _)
mp_add(op1, op2, k) ==
    IF op1 = <<>> THEN [tab |-> <<>>, c |-> k]
    ELSE LET v == op1[1]
             a == Wrap(v + op2[1])
             sum == Wrap(a + k)
             rest == mp_add(Tail(op1), Tail(op2),
                            Bit(sum < k) | Bit(a < v))
         IN [tab |-> <<sum>> \o rest.tab, c |-> rest.c]

RECURSIVE mp_add_ui(_, _)
mp_add_ui(tab, k) ==
    IF tab = <<>> \/ k = 0 THEN [tab |-> tab, c |-> k]
    ELSE LET a == Wrap(tab[1] + k)
             rest == mp_add_ui(Tail(tab), Bit(a < k))
         IN [tab |-> <<a>> \o rest.tab, c |-> rest.c]

RECURSIVE mp_sub(_, _, _)
mp_sub(op1, op2, k) ==
    IF op1 = <<>> THEN [tab |-> <<>>, c |-> k]
    ELSE LET a == Wrap(op1[1] - op2[1])
             v == Wrap(a - k)
             rest == mp_sub(Tail(op1), Tail(op2),
                            Bit(v > a) | Bit(a > op1[1]))
         IN [tab |-> <<v>> \o rest.tab, c |-> rest.c]

\* mp_neg: 0 - op2.
mp_neg(op2, k) == mp_sub(Zeros(Len(op2)), op2, k)

RECURSIVE mp_sub_ui(_, _)
mp_sub_ui(tab, k) ==
    IF tab = <<>> THEN [tab |-> tab, c |-> k]
    ELSE LET a == Wrap(tab[1] - k)
             borrow == Bit(a > tab[1])
             rest == IF borrow = 0 THEN [tab |-> Tail(tab), c |-> 0]
                     ELSE mp_sub_ui(Tail(tab), borrow)
         IN [tab |-> <<a>> \o rest.tab, c |-> rest.c]

\* (a + high * Base^n) >> shift, from the highest limb down.
RECURSIVE mp_shr(_, _, _)
mp_shr(tab, shift, high) ==
    IF tab = <<>> THEN [tab |-> <<>>, c |-> high % (2 ^ shift)]
    ELSE LET n == Len(tab)
             limb == (tab[n] \div 2 ^ shift)
                        | Wrap(high * 2 ^ (LIMB_BITS - shift))
             rest == mp_shr(SubSeq(tab, 1, n - 1), shift, tab[n])
         IN [tab |-> Append(rest.tab, limb), c |-> rest.c]

RECURSIVE mp_scan_nz(_)
mp_scan_nz(tab) == tab # <<>> /\ (tab[1] # 0 \/ mp_scan_nz(Tail(tab)))

RECURSIVE mp_cmp(_, _)
mp_cmp(taba, tabb) ==
    LET n == Len(taba)
    IN CASE n = 0 -> 0
         [] n > 0 /\ taba[n] < tabb[n] -> -1
         [] n > 0 /\ taba[n] > tabb[n] -> 1
         [] OTHER -> mp_cmp(SubSeq(taba, 1, n - 1), SubSeq(tabb, 1, n - 1))

-----------------------------------------------------------------------------
(* Products. *)

\* tabr + taba * b: mp_add_mul1, and mp_mul1 with tabr zero and carry l.
RECURSIVE AddMul(_, _, _, _)
AddMul(tabr, taba, b, l) ==
    IF taba = <<>> THEN [tab |-> <<>>, c |-> l]
    ELSE LET t == taba[1] * b + l + tabr[1]
             rest == AddMul(Tail(tabr), Tail(taba), b, High(t))
         IN [tab |-> <<Wrap(t)>> \o rest.tab, c |-> rest.c]

mp_mul1(taba, b, l) == AddMul(Zeros(Len(taba)), taba, b, l)

mp_add_mul1(tabr, taba, b) == AddMul(tabr, taba, b, 0)

\* One limb of op2 after the other is multiplied in, from limb i on.
RECURSIVE MulLoop(_, _, _, _)
MulLoop(result, op1, op2, i) ==
    IF i = Len(op2) THEN result
    ELSE LET n == Len(op1)
             r == mp_add_mul1(Part(result, i, n), op1, op2[i + 1])
         IN MulLoop(Put(result, i, Append(r.tab, r.c)), op1, op2, i + 1)

mp_mul_basecase(op1, op2) ==
    LET first == mp_mul1(op1, op2[1], 0)
    IN MulLoop(Append(first.tab, first.c) \o Zeros(Len(op2) - 1),
               op1, op2, 1)

\* mp_mul below FFT_MUL_THRESHOLD.
mp_mul(op1, op2) == mp_mul_basecase(op1, op2)

\* tabr - taba * b.
RECURSIVE SubMul(_, _, _, _)
SubMul(tabr, taba, b, l) ==
    IF taba = <<>> THEN [tab |-> <<>>, c |-> l]
    ELSE LET t == Wrap2(tabr[1] - taba[1] * b - l)
             rest == SubMul(Tail(tabr), Tail(taba), b, Wrap(-High(t)))
         IN [tab |-> <<Wrap(t)>> \o rest.tab, c |-> rest.c]

mp_sub_mul1(tabr, taba, b) == SubMul(tabr, taba, b, 0)

-----------------------------------------------------------------------------
(* Division by one limb. *)

\* The inverse of a limb whose top bit is set.
udiv1norm_init(d) == (Wrap(-d - 1) * Base + AllOnes) \div d

\* Quotient (q) and remainder (r) of a1 * Base + a0 by d, a1 < d, without a
\* division: an estimate from the inverse, put right by its remainder.
udiv1norm(a1, a0, d, d_inv) ==
    LET n1m == IF IsNegative(a0) THEN AllOnes ELSE 0
        n_adj == Wrap(a0 + (n1m & d))
        q == Wrap(High(Wrap2(d_inv * Wrap(a1 - n1m) + n_adj)) + a1)
        a == Wrap2(a1 * Base + a0 - q * d - d)
        ah == High(a)
    IN [q |-> Wrap(q + 1 + ah), r |-> Wrap(Wrap(a) + (ah & d))]

DivLimb(r, limb, b) ==
    [q |-> (r * Base + limb) \div b, r |-> (r * Base + limb) % b]

\* From the highest limb down; the remainder is what comes back in c.
RECURSIVE Div1Loop(_, _, _, _, _)
Div1Loop(taba, b, b_inv, useInverse, r) ==
    IF taba = <<>> THEN [tab |-> <<>>, c |-> r]
    ELSE LET n == Len(taba)
             step == IF useInverse THEN udiv1norm(r, taba[n], b, b_inv)
                     ELSE DivLimb(r, taba[n], b)
             rest == Div1Loop(SubSeq(taba, 1, n - 1), b, b_inv, useInverse,
                              step.r)
         IN [tab |-> Append(rest.tab, step.q), c |-> rest.c]

mp_div1norm(taba, b, r) ==
    IF Len(taba) >= UDIV1NORM_THRESHOLD
    THEN Div1Loop(taba, b, udiv1norm_init(b), TRUE, r)
    ELSE Div1Loop(taba, b, 0, FALSE, r)

-----------------------------------------------------------------------------
(* Division by an array whose highest bit is set.  The result has the      *)
(* quotient in q and the remainder in the low limbs of r.                  *)

\* The digit was too large: put the divisor back until the difference is
\* positive again.  part is what is left of taba from limb i on, nb + 1 limbs.
RECURSIVE AddBack(_, _, _)
AddBack(part, tabb, q) ==
    LET nb == Len(tabb)
        sum == mp_add(SubSeq(part, 1, nb), tabb, 0)
        top == IF sum.c # 0 THEN Wrap(part[nb + 1] + 1) ELSE part[nb + 1]
        next == Append(sum.tab, top)
    IN IF sum.c # 0 /\ top = 0 THEN [part |-> next, q |-> Wrap(q - 1)]
       ELSE AddBack(next, tabb, Wrap(q - 1))

\* One digit of the quotient: estimated from the two highest limbs.
EstimateDigit(part, tabb, b1_inv) ==
    LET nb == Len(tabb)
        b1 == tabb[nb]
    IN CASE part[nb + 1] >= b1 -> AllOnes
         [] part[nb + 1] < b1 /\ b1_inv # 0 ->
                udiv1norm(part[nb + 1], part[nb], b1, b1_inv).q
         [] OTHER -> DivLimb(part[nb + 1], part[nb], b1).q

DivDigit(part, tabb, q) ==
    LET nb == Len(tabb)
        diff == mp_sub_mul1(SubSeq(part, 1, nb), tabb, q)
        top == Wrap(part[nb + 1] - diff.c)
        next == Append(diff.tab, top)
    IN IF top > part[nb + 1] THEN AddBack(next, tabb, q)
       ELSE [part |-> next, q |-> q]

RECURSIVE DivLoop(_, _, _, _, _)
DivLoop(i, taba, tabq, tabb, b1_inv) ==
    IF i < 0 THEN [q |-> tabq, r |-> taba]
    ELSE LET part == Part(taba, i, Len(tabb) + 1)
             digit == DivDigit(part, tabb, EstimateDigit(part, tabb, b1_inv))
         IN DivLoop(i - 1, Put(taba, i, digit.part),
                    Put(tabq, i, <<digit.q>>), tabb, b1_inv)

\* The first digit is 0 or 1.
FirstDigit(taba, tabb, n) ==
    Bit(mp_cmp(Part(taba, n, Len(tabb)), tabb) >= 0)

DivBasecase(taba, tabb) ==
    LET nb == Len(tabb)
        n == Len(taba) - nb
        q == FirstDigit(taba, tabb, n)
        left == IF q = 0 THEN taba
                ELSE Put(taba, n, mp_sub(Part(taba, n, nb), tabb, 0).tab)
        b1_inv == IF n >= UDIV1NORM_THRESHOLD
                  THEN udiv1norm_init(tabb[nb]) ELSE 0
    IN DivLoop(n - 1, left, Append(Zeros(n), q), tabb, b1_inv)

\* mp_divnorm calls mp_divnorm_large, that mp_recip, and that mp_divnorm.
RECURSIVE mp_divnorm(_, _), mp_recip(_)

\* How far the reciprocal xh of the high half is too large.
RECURSIVE LowerReciprocal(_, _, _, _)
LowerReciprocal(xh, t, taba, h) ==
    IF t[Len(taba) + h + 1] = 0 THEN [xh |-> xh, t |-> t]
    ELSE LET n == Len(taba)
             low == mp_sub(SubSeq(t, 1, n), taba, 0)
             high == mp_sub_ui(Part(t, n, h + 1), low.c)
         IN LowerReciprocal(mp_sub_ui(xh, 1).tab, low.tab \o high.tab,
                            taba, h)

\* The reciprocal of the high half, refined by one step of Newton's method.
RefineReciprocal(taba, l, h, fixed) ==
    LET n == Len(taba)
        t1 == mp_neg(fixed.t, 0).tab
        t == Put(t1, n + h, <<Wrap(t1[n + h + 1] + 1)>>)
        u == mp_mul(Part(t, l, n + h + 1 - l), fixed.xh)
        high == mp_add(SubSeq(fixed.xh, 1, h), Part(u, 2 * h, h), 0)
    IN Part(u, 2 * h - l, l) \o high.tab \o <<fixed.xh[h + 1]>>

\* Base^2n / a rounded up, less one.
SmallReciprocal(quotient, rem) ==
    IF mp_scan_nz(rem) THEN quotient ELSE mp_sub_ui(quotient, 1).tab

mp_recip(taba) ==
    LET n == Len(taba)
        l == (n - 1) \div 2
        h == n - l
        xh == mp_recip(Part(taba, l, h))
        small == mp_divnorm(Append(Zeros(2 * n), 1), taba)
    IN IF n <= 2
       THEN SmallReciprocal(SubSeq(small.q, 1, n + 1), SubSeq(small.r, 1, n))
       ELSE RefineReciprocal(taba, l, h,
                LowerReciprocal(xh, mp_mul(taba, xh), taba, h))

\* The quotient was estimated too small: count it up.
RECURSIVE CountUp(_, _, _)
CountUp(taba, tabb, tabq) ==
    LET nb == Len(tabb)
        diff == mp_sub(SubSeq(taba, 1, nb), tabb, 0)
        top == Wrap(taba[nb + 1] - diff.c)
    IN IF taba[nb + 1] = 0 /\ mp_cmp(SubSeq(taba, 1, nb), tabb) < 0
       THEN [q |-> tabq, r |-> taba]
       ELSE CountUp(Put(taba, 0, Append(diff.tab, top)), tabb,
                    mp_add_ui(tabq, 1).tab)

\* The reciprocal of the n highest limbs of the divisor, of one more than
\* them when limbs are left out, so that it is never too large.
DivisorReciprocal(tabb, n) ==
    LET nb == Len(tabb)
        up == mp_add_ui(Part(tabb, nb - n, n), 1)
    IN CASE n >= nb -> mp_recip(Zeros(n - nb) \o tabb)
         [] n < nb /\ up.c # 0 -> Append(Zeros(n), 1)
         [] OTHER -> mp_recip(up.tab)

LargeQuotient(taba, n, nq, inv) ==
    Part(mp_mul(inv, Part(taba, Len(taba) - (n + 1), n + 1)),
         2 * (n + 1) - (nq + 1), nq + 1)

LargeRemainder(taba, tabb, tabq) ==
    LET nb == Len(tabb)
        product == mp_mul(tabq, tabb)
        diff == mp_sub(SubSeq(taba, 1, nb + 1), SubSeq(product, 1, nb + 1), 0)
    IN CountUp(Put(taba, 0, diff.tab), tabb, tabq)

mp_divnorm_large(taba, tabb) ==
    LET nb == Len(tabb)
        nq == Len(taba) - nb
        n == IF nq < nb THEN nq + 1 ELSE nq
    IN LargeRemainder(taba, tabb,
                      LargeQuotient(taba, n, nq, DivisorReciprocal(tabb, n)))

DivOneLimb(taba, b1) ==
    LET d == mp_div1norm(taba, b1, 0)
    IN [q |-> d.tab, r |-> Put(taba, 0, <<d.c>>)]

mp_divnorm(taba, tabb) ==
    LET nb == Len(tabb)
        n == Len(taba) - nb
    IN CASE nb = 1 -> DivOneLimb(taba, tabb[1])
         [] nb > 1 /\ Min({n, nb}) >= DIVNORM_LARGE_THRESHOLD ->
                mp_divnorm_large(taba, tabb)
         [] OTHER -> DivBasecase(taba, tabb)

-----------------------------------------------------------------------------
(* Square roots: tab or s is the root, r what is left. *)

FloorRoot(a) == Max({s \in 0 .. AllOnes : s * s <= a})
\* An entry of the table is the root of its index filled up with zeros.
sqrt_table(top, bits) == FloorRoot(top * 2 ^ bits)

\* The root s1 of the high half is made one of all: bits more bits of a come
\* in twice.
RootStep(s1, r1, bits, mid, low) ==
    LET num == r1 * 2 ^ bits + mid
        q == num \div (2 * s1)
        r == (num % (2 * s1)) * 2 ^ bits + low - q * q
        s == s1 * 2 ^ bits + q
    IN IF r < 0 THEN [s |-> s - 1, r |-> r + 2 * (s - 1) + 1]
       ELSE [s |-> s, r |-> r]

\* root is that of the high 2 * bits bits of a; a step doubles them.
RECURSIVE RootSteps(_, _, _, _)
RootSteps(root, a, width, bits) ==
    IF 2 * bits = width THEN root
    ELSE RootSteps(RootStep(root.s, root.r, bits,
                            (a \div 2 ^ (width - 3 * bits)) % 2 ^ bits,
                            (a \div 2 ^ (width - 4 * bits)) % 2 ^ bits),
                   a, width, 2 * bits)

\* A table for the root of the high 2 * bits bits (16 in the code), then one
\* step when the width is four times bits (32 bits), two when it is eight
\* times (64 bits).
WordRoot(a, width, bits) ==
    LET s0 == sqrt_table(a \div 2 ^ (width - bits), bits)
        r0 == a \div 2 ^ (width - 2 * bits) - s0 * s0
    IN RootSteps(IF r0 > 2 * s0 THEN [s |-> s0 + 1, r |-> r0 - (2 * s0 + 1)]
                 ELSE [s |-> s0, r |-> r0], a, width, bits)

mp_sqrtrem1(a) == WordRoot(a, LIMB_BITS, LIMB_BITS \div 4)

bf_isqrt(a) ==
    LET k == (clz(a) \div 2) * 2
    IN IF a = 0 THEN 0
       ELSE mp_sqrtrem1(Wrap(a * 2 ^ k)).s \div 2 ^ (k \div 2)

mp_sqrtrem2(a0, a1) ==
    LET l == LIMB_BITS \div 2
        first == mp_sqrtrem1(a1)
        num == first.r * 2 ^ l + (a0 \div 2 ^ l)
        q == num \div (2 * first.s)
        s == first.s * 2 ^ l + q
        r == (num % (2 * first.s)) * 2 ^ l + (a0 % 2 ^ l)
                - (IF q \div 2 ^ l # 0 THEN Base ELSE q * q)
    IN IF r < 0
       THEN [s |-> Wrap(s - 1), r |-> Wrap2(r + 2 * Wrap(s - 1) + 1)]
       ELSE [s |-> Wrap(s), r |-> Wrap2(r)]

\* A negative remainder lowers the root s by one and adds 2 * s + 1.
RootLower(s, rem, rh) ==
    LET twice == mp_add_mul1(rem, s, 2)
        one == mp_add_ui(twice.tab, 1)
    IN [s |-> s, r |-> one.tab, c |-> Wrap(rh + twice.c + one.c)]

RootSign(tabs, low, high, rh) ==
    IF IsNegative(rh) THEN RootLower(mp_sub_ui(tabs, 1).tab, low \o high, rh)
    ELSE [s |-> tabs, r |-> low \o high, c |-> rh]

RootBorrow(tabs, low, high, rh) ==
    RootSign(tabs, low, high.tab, Wrap(rh - high.c))

\* The square of the low half is taken from the remainder rem; when qh is
\* set the low half is Base^l.
RootCorrect(tabs, rem, rh, qh, l, square) ==
    LET diff == mp_sub(SubSeq(rem, 1, 2 * l), square, 0)
    IN IF qh # 0
       THEN RootBorrow(tabs, SubSeq(rem, 1, 2 * l),
                mp_sub_ui(SubSeq(rem, 2 * l + 1, Len(rem)), qh), rh)
       ELSE RootBorrow(tabs, diff.tab,
                mp_sub_ui(SubSeq(rem, 2 * l + 1, Len(rem)), diff.c), rh)

\* Half of the quotient is the low half of the root; an odd one gives s1
\* back to the remainder u.
RootLow(s1, a0, u, half, qh) ==
    LET back == mp_add(u, s1, 0)
        tabs == half.tab \o mp_add_ui(s1, qh).tab
        square == mp_mul(half.tab, half.tab)
    IN IF half.c # 0
       THEN RootCorrect(tabs, a0 \o back.tab, back.c, qh, Len(a0), square)
       ELSE RootCorrect(tabs, a0 \o u, 0, qh, Len(a0), square)

RootHalve(s1, a0, div, l, qh) ==
    RootLow(s1, a0, SubSeq(div.r, 1, Len(s1)),
            mp_shr(SubSeq(div.q, 1, l), 1, qh % 2), qh \div 2)

RootDivide(s1, a0, div, l, qh) ==
    RootHalve(s1, a0, div, l, Wrap(qh + div.q[l + 1]))

\* The root of the high half divides what it leaves, with the next l limbs.
RootNext(high, a0, a1, l) ==
    IF high.c # 0
    THEN RootDivide(high.s, a0,
            mp_divnorm(a1 \o mp_sub(high.r, high.s, 0).tab, high.s), l, high.c)
    ELSE RootDivide(high.s, a0, mp_divnorm(a1 \o high.r, high.s), l, 0)

\* Mutant: the low limb of the remainder keeps all of it.
RootOfTwoWide(two) == [s |-> <<two.s>>, r |-> <<two.r>>, c |-> High(two.r)]

RootOfTwo(two) == [s |-> <<two.s>>, r |-> <<Wrap(two.r)>>, c |-> High(two.r)]

RECURSIVE mp_sqrtrem_rec(_, _, _)
mp_sqrtrem_rec(taba, n, l) ==
    IF n = 1 THEN RootOfTwo(mp_sqrtrem2(taba[1], taba[2]))
    ELSE RootNext(mp_sqrtrem_rec(Part(taba, 2 * l, 2 * (n - l)), n - l,
                                 (n - l) \div 2),
                  SubSeq(taba, 1, l), Part(taba, l, l), l)

mp_sqrtrem(taba) ==
    mp_sqrtrem_rec(taba, Len(taba) \div 2, Len(taba) \div 4)

=============================================================================
