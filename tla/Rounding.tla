------------------------------ MODULE Rounding ------------------------------
(***************************************************************************)
(* What rounding means, for the properties of numbers of any radix.        *)
(***************************************************************************)
EXTENDS Integers

RECURSIVE BitLen(_)
BitLen(n) == IF n = 0 THEN 0 ELSE 1 + BitLen(n \div 2)

RECURSIVE ISqrt(_, _, _)
ISqrt(y, low, high) ==
    IF high - low <= 1 THEN low
    ELSE LET mid == (low + high) \div 2
         IN IF mid * mid <= y THEN ISqrt(y, mid, high)
            ELSE ISqrt(y, low, mid)
RootOf(y) == ISqrt(y, 0, 2 ^ ((BitLen(y) + 1) \div 2) + 1)

\* The multiples of the unit that x may be rounded to; h half units, all of
\* x or not.
Rounded(h, all, sign, rnd) ==
    LET down == h \div 2
        up == down + 1
        half == h % 2 = 1
        away == rnd = "A" \/ rnd = (IF sign = 1 THEN "D" ELSE "U")
    IN CASE ~half /\ all -> {down}
         [] rnd = "F" /\ ~(~half /\ all) -> {down, up}
         [] rnd \in {"N", "NA"} /\ ~half /\ ~all -> {down}
         [] rnd \in {"N", "NA"} /\ half /\ ~all -> {up}
         [] rnd = "NA" /\ half /\ all -> {up}
         [] rnd = "N" /\ half /\ all ->
                {IF down % 2 = 0 THEN down ELSE up}
         [] OTHER -> {IF away THEN up ELSE down}

AbsOf(n) == IF n < 0 THEN -n ELSE n
SignBit(n) == IF n < 0 THEN 1 ELSE 0

Compared(x, y) == IF x < y THEN -1 ELSE IF x > y THEN 1 ELSE 0

=============================================================================
