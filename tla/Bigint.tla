------------------------------- MODULE Bigint -------------------------------
(***************************************************************************)
(* Integers of any size (util.c: bigint and bitarr), in which constants    *)
(* are evaluated: a sign, and a magnitude in limbs of LimbBits bits, the   *)
(* least significant limb first.  A result is written to a bigint that may *)
(* also be an operand.                                                     *)
(*                                                                         *)
(* `heap` is what the code computes; `ints` are the integers that are      *)
(* meant.  Any sequence of calls is possible: constant expressions are.    *)
(***************************************************************************)
EXTENDS Integers, Sequences, FiniteSetsExt

CONSTANTS
    Vars,       \* the bigints
    LimbBits,   \* BIGINT__LIMB_BITS_ (8 in the code)
    Radices,    \* the radices of integer literals (2, 8, 10 and 16 in the code)
    Radix,      \* the radix of bigint_to_new_cstr (10 in the code)
    Widths,     \* the counts of bit arrays (8, 16, 32, 64 in the code)
    MaxInt      \* bound: the magnitude of a result

Base == 2 ^ LimbBits

ASSUME BigintAssumption ==
    /\ LimbBits \in Nat \ {0}
    /\ Radices \cup {Radix} \subseteq 2..(Base - 1)
    /\ Widths \subseteq Nat \ {0}
    /\ MaxInt \in Nat

NULL == "NULL"

VARIABLES
    heap,   \* the bigints: a sign and limbs
    ints    \* history: their values

vars == <<heap, ints>>

Zero == [sign |-> 0, limbs |-> <<>>]    \* BIGINT_ZERO

Count(x) == Len(x.limbs)
Limb(x, i) == IF i <= Count(x) THEN x.limbs[i] ELSE 0
Larger(m, n) == IF m > n THEN m ELSE n
Zeros(n) == [i \in 1..n |-> 0]

-----------------------------------------------------------------------------
(***************************************************************************)
(* The operations, as values.                                              *)
(***************************************************************************)
bigint__normalize_(x) ==
    LET count == Max({0} \cup {i \in 1..Count(x) : x.limbs[i] # 0})
    IN  [sign |-> IF count = 0 THEN 0 ELSE x.sign, limbs |-> SubSeq(x.limbs, 1, count)]

bigint__resize_(x, count) ==
    [x EXCEPT !.limbs = IF count <= Len(@) THEN SubSeq(@, 1, count)
                        ELSE @ \o Zeros(count - Len(@))]

bigint_cmp(x, y) ==
    LET differ == {i \in 1..Count(x) : x.limbs[i] # y.limbs[i]}
    IN  IF x.sign # y.sign THEN IF x.sign > y.sign THEN 1 ELSE -1
        ELSE IF Count(x) # Count(y) THEN IF Count(x) > Count(y) THEN x.sign ELSE -x.sign
        ELSE IF differ = {} THEN 0
        ELSE IF x.limbs[Max(differ)] > y.limbs[Max(differ)] THEN x.sign ELSE -x.sign

bigint_neg(x) == [x EXCEPT !.sign = -@]
bigint_abs(x) == [x EXCEPT !.sign = @ * @]

\* Both of one sign.
SumOfMagnitudes(x, y) ==
    LET n == 1 + Larger(Count(x), Count(y))
        carry[i \in 0..n] ==
            IF i = 0 THEN 0 ELSE (Limb(x, i) + Limb(y, i) + carry[i - 1]) \div Base
    IN  bigint__normalize_(
            [sign |-> x.sign,
             limbs |-> [i \in 1..n |-> (Limb(x, i) + Limb(y, i) + carry[i - 1]) % Base]])

DifferenceOfMagnitudes(lhs, rhs) ==
    LET cmp == bigint_cmp(lhs, rhs)
        neg == \/ lhs.sign = 1 /\ cmp < 0
               \/ lhs.sign = -1 /\ cmp > 0
        x == IF neg THEN rhs ELSE lhs
        y == IF neg THEN lhs ELSE rhs
        n == Larger(Count(x), Count(y))
        borrow[i \in 0..n] ==
            IF i = 0 THEN 0
            ELSE IF Limb(x, i) - Limb(y, i) - borrow[i - 1] < 0 THEN 1 ELSE 0
        res == [sign |-> x.sign,
                limbs |-> [i \in 1..n |-> (Limb(x, i) - Limb(y, i) - borrow[i - 1]) % Base]]
    IN  bigint__normalize_(IF neg THEN bigint_neg(res) ELSE res)

bigint_add(x, y) ==
    CASE x.sign = 0 -> y
      [] x.sign # 0 /\ y.sign = 0 -> x
      [] x.sign = 1 /\ y.sign = -1 -> DifferenceOfMagnitudes(x, bigint_neg(y))
      [] x.sign = -1 /\ y.sign = 1 -> DifferenceOfMagnitudes(y, bigint_neg(x))
      [] x.sign * y.sign = 1 -> SumOfMagnitudes(x, y)

bigint_sub(x, y) ==
    CASE x.sign = 0 -> bigint_neg(y)
      [] x.sign # 0 /\ y.sign = 0 -> x
      [] x.sign * y.sign = -1 -> SumOfMagnitudes(x, bigint_neg(y))
      [] x.sign * y.sign = 1 -> DifferenceOfMagnitudes(x, y)

\* Algorithm M.  A row adds x, times the j-th limb v of y, to w at j.
Row(w, x, v, j) ==
    LET m == Count(x)
        k[i \in 0..m] ==
            IF i = 0 THEN 0 ELSE (x.limbs[i] * v + w[i + j - 1] + k[i - 1]) \div Base
    IN  IF v = 0 THEN [w EXCEPT ![j + m] = 0]
        ELSE [p \in DOMAIN w |->
                 IF p \in j..(j + m - 1)
                 THEN (x.limbs[p - j + 1] * v + w[p] + k[p - j]) % Base
                 ELSE IF p = j + m THEN k[m] ELSE w[p]]

bigint_mul(x, y) ==
    LET rows[j \in 0..Count(y)] ==
            IF j = 0 THEN Zeros(Count(x) + Count(y)) ELSE Row(rows[j - 1], x, y.limbs[j], j)
    IN  IF x.sign = 0 \/ y.sign = 0 THEN Zero
        ELSE bigint__normalize_([sign |-> x.sign * y.sign, limbs |-> rows[Count(y)]])

-----------------------------------------------------------------------------
(***************************************************************************)
(* Bits of the magnitude, and division, which is bit by bit.               *)
(***************************************************************************)
bigint_magnitude_bit_count(x) ==
    IF Count(x) = 0 THEN 0
    ELSE (Count(x) - 1) * LimbBits
         + (CHOOSE n \in 0..LimbBits : 2 ^ n > x.limbs[Count(x)]
                                       /\ \A m \in 0..(n - 1) : 2 ^ m <= x.limbs[Count(x)])

bigint_magnitude_bit_get(x, n) ==
    IF n >= Count(x) * LimbBits THEN 0
    ELSE (x.limbs[n \div LimbBits + 1] \div 2 ^ (n % LimbBits)) % 2

bigint_magnitude_bit_set(x, n, value) ==
    LET at == n \div LimbBits + 1
        y == bigint__resize_(x, Larger(at, Count(x)))
        mask == 2 ^ (n % LimbBits)
        bit == (y.limbs[at] \div mask) % 2
    IN  IF at > Count(x) /\ value = 0 THEN x
        ELSE bigint__normalize_(
                [sign |-> IF x.sign = 0 /\ value = 1 THEN 1 ELSE x.sign,
                 limbs |-> [y.limbs EXCEPT ![at] = @ + (value - bit) * mask]])

ShiftLeftOnce(x) ==
    LET grown == IF x.limbs[Count(x)] >= Base \div 2 THEN Append(x.limbs, 0) ELSE x.limbs
    IN  [x EXCEPT !.limbs = [i \in DOMAIN grown |->
            ((grown[i] * 2) % Base)
            + (IF i > 1 THEN grown[i - 1] \div (Base \div 2) ELSE 0)]]

bigint_magnitude_shiftl(x, nbits) ==
    LET by[n \in 0..(nbits % LimbBits)] ==
            IF n = 0 THEN [x EXCEPT !.limbs = Zeros(nbits \div LimbBits) \o @]
            ELSE ShiftLeftOnce(by[n - 1])
    IN  IF nbits = 0 \/ x.sign = 0 THEN x ELSE by[nbits % LimbBits]

ShiftRightOnce(x) ==
    [x EXCEPT !.limbs = [i \in DOMAIN @ |->
        @[i] \div 2 + (IF i < Len(@) THEN (@[i + 1] % 2) * (Base \div 2) ELSE 0)]]

bigint_magnitude_shiftr(x, nbits) ==
    LET by[n \in 0..(nbits % LimbBits)] ==
            IF n = 0 THEN [x EXCEPT !.limbs = SubSeq(@, nbits \div LimbBits + 1, Len(@))]
            ELSE ShiftRightOnce(by[n - 1])
    IN  IF nbits = 0 THEN x
        ELSE IF nbits >= bigint_magnitude_bit_count(x) THEN Zero
        ELSE bigint__normalize_(by[nbits % LimbBits])

\* The quotient and the remainder of the magnitudes, and their signs.
bigint_divrem(lhs, rhs) ==
    LET N == bigint_abs(lhs)
        D == bigint_abs(rhs)
        n == bigint_magnitude_bit_count(lhs)
        \* after the bits from n - 1 down to i
        from[i \in 0..n] ==
            IF i = n THEN [Q |-> Zero, R |-> Zero]
            ELSE LET R == bigint_magnitude_bit_set(
                              bigint_magnitude_shiftl(from[i + 1].R, 1),
                              0, bigint_magnitude_bit_get(N, i))
                 IN  IF bigint_cmp(R, D) >= 0
                     THEN [Q |-> bigint_magnitude_bit_set(from[i + 1].Q, i, 1),
                           R |-> bigint_sub(R, D)]
                     ELSE [Q |-> from[i + 1].Q, R |-> R]
    IN  [res |-> bigint__normalize_([from[0].Q EXCEPT !.sign = lhs.sign * rhs.sign]),
         rem |-> bigint__normalize_([from[0].R EXCEPT !.sign = lhs.sign])]

-----------------------------------------------------------------------------
(***************************************************************************)
(* Conversions.  A text is its sign, its radix and its digits; a bit array *)
(* is a function from 0..(count - 1), the least significant bit at 0.      *)
(***************************************************************************)
Single(n) == [sign |-> 1, limbs |-> <<n>>]

\* The bigint of a digit 0 is not normalized.
bigint_new_text(sign, radix, digits) ==
    LET self[n \in 0..Len(digits)] ==
            IF n = 0 THEN Zero
            ELSE bigint_add(bigint_mul(self[n - 1], Single(radix)), Single(digits[n]))
    IN  bigint__normalize_([self[Len(digits)] EXCEPT !.sign = sign])

\* The sign and the digits, the most significant first.
bigint_to_new_cstr(x) ==
    LET most == bigint_magnitude_bit_count(x)
        self[n \in 0..most] ==
            IF n = 0 THEN bigint_abs(x)
            ELSE IF self[n - 1] = Zero THEN Zero
            ELSE bigint_divrem(self[n - 1], Single(Radix)).res
        count == CHOOSE n \in 0..most :
                    self[n] = Zero /\ \A m \in 0..(n - 1) : self[m] # Zero
        dec(n) == bigint_divrem(self[n], Single(Radix)).rem
    IN  [negative |-> x.sign = -1,
         digits |-> IF count = 0 THEN <<0>>
                    ELSE [i \in 1..count |-> Limb(dec(count - i), 1)]]

bitarr_twos_complement_neg(bits) ==
    LET W == Cardinality(DOMAIN bits)
        compl == [i \in DOMAIN bits |-> 1 - bits[i]]
        carry[i \in 0..W] ==
            IF i = 0 THEN 1 ELSE IF carry[i - 1] + compl[i - 1] >= 2 THEN 1 ELSE 0
    IN  [i \in DOMAIN bits |-> (carry[i] + compl[i]) % 2]

bitarr_to_bigint(bits, is_signed) ==
    LET W == Cardinality(DOMAIN bits)
        is_neg == is_signed /\ bits[W - 1] = 1
        mag_bits == IF is_neg THEN bitarr_twos_complement_neg(bits) ELSE bits
        set[i \in 0..W] ==
            IF i = 0 THEN Zero ELSE bigint_magnitude_bit_set(set[i - 1], i - 1, mag_bits[i - 1])
    IN  IF is_neg THEN bigint_neg(set[W]) ELSE set[W]

TooLarge == <<>>     \* -1 is returned
\* Mutant of bigint_to_bitarr: the largest magnitudes are thought not to fit.
bigint_to_bitarr_fewer(x, W) ==
    LET bits == [i \in 0..(W - 1) |-> bigint_magnitude_bit_get(x, i)]
    IN  IF bigint_magnitude_bit_count(x) >= W THEN TooLarge
        ELSE IF bigint_cmp(x, Zero) < 0 THEN bitarr_twos_complement_neg(bits)
        ELSE bits

bigint_to_bitarr(x, W) ==
    LET bits == [i \in 0..(W - 1) |-> bigint_magnitude_bit_get(x, i)]
    IN  IF bigint_magnitude_bit_count(x) > W THEN TooLarge
        ELSE IF bigint_cmp(x, Zero) < 0 THEN bitarr_twos_complement_neg(bits)
        ELSE bits

-----------------------------------------------------------------------------
(***************************************************************************)
(* What is meant.                                                          *)
(***************************************************************************)
Sign(i) == IF i > 0 THEN 1 ELSE IF i < 0 THEN -1 ELSE 0
Magnitude(i) == Sign(i) * i

Value(x) ==
    x.sign * MapThenSumSet(LAMBDA i : x.limbs[i] * Base ^ (i - 1), 1..Count(x))

\* Truncation towards zero, as in C.
Quotient(i, j) == Sign(i) * Sign(j) * (Magnitude(i) \div Magnitude(j))
Remainder(i, j) == i - j * Quotient(i, j)

\* The digits of a magnitude, the most significant first.
Digits(i, radix) ==
    LET count == CHOOSE n \in 1..(i + 1) :
                    radix ^ n > i /\ (n = 1 \/ radix ^ (n - 1) <= i)
    IN  [n \in 1..count |-> (i \div radix ^ (count - n)) % radix]

\* What a bit array of W bits says, and what it says of a signed integer.
Unsigned(bits) == MapThenSumSet(LAMBDA i : bits[i] * 2 ^ i, DOMAIN bits)
Signed(i, W) == IF i >= 2 ^ (W - 1) THEN i - 2 ^ W ELSE i

-----------------------------------------------------------------------------
(***************************************************************************)
(* The calls.  Operands may be the bigint that the result is written to.   *)
(***************************************************************************)
Init == heap = [r \in Vars |-> Zero] /\ ints = [r \in Vars |-> 0]

\* The integer i is meant by the call that writes res.
Means(res, i) ==
    /\ Magnitude(i) <= MaxInt
    /\ ints' = [ints EXCEPT ![res] = i]

New ==
    \E res \in Vars, sign \in {-1, 1}, radix \in Radices, n \in 1..2 :
        \E digits \in [1..n -> 0..(radix - 1)] :
            /\ Means(res, sign * (digits[n] + IF n = 1 THEN 0 ELSE radix * digits[1]))
            /\ heap' = [heap EXCEPT ![res] = bigint_new_text(sign, radix, digits)]

Assign ==
    \E res, othr \in Vars :
        /\ Means(res, ints[othr])
        /\ heap' = [heap EXCEPT ![res] = heap[othr]]

Neg ==
    \E res, rhs \in Vars :
        /\ Means(res, -ints[rhs])
        /\ heap' = [heap EXCEPT ![res] = bigint_neg(heap[rhs])]

Abs ==
    \E res, rhs \in Vars :
        /\ Means(res, Magnitude(ints[rhs]))
        /\ heap' = [heap EXCEPT ![res] = bigint_abs(heap[rhs])]

Add ==
    \E res, lhs, rhs \in Vars :
        /\ Means(res, ints[lhs] + ints[rhs])
        /\ heap' = [heap EXCEPT ![res] = bigint_add(heap[lhs], heap[rhs])]

Sub ==
    \E res, lhs, rhs \in Vars :
        /\ Means(res, ints[lhs] - ints[rhs])
        /\ heap' = [heap EXCEPT ![res] = bigint_sub(heap[lhs], heap[rhs])]

Mul ==
    \E res, lhs, rhs \in Vars :
        /\ Means(res, ints[lhs] * ints[rhs])
        /\ heap' = [heap EXCEPT ![res] = bigint_mul(heap[lhs], heap[rhs])]

\* Mutant of DivRem: the sign of lhs is read again when res has been written.
DivRemLate ==
    \E res, rem \in Vars \cup {NULL}, lhs, rhs \in Vars :
        LET divided == bigint_divrem(heap[lhs], heap[rhs])
            sign == IF res = lhs THEN divided.res.sign ELSE heap[lhs].sign
        IN  /\ heap[rhs].sign # 0
            /\ {res, rem} # {NULL}
            /\ heap' = [r \in Vars |->
                           IF r = rem THEN bigint__normalize_([divided.rem EXCEPT !.sign = sign])
                           ELSE IF r = res THEN divided.res
                           ELSE heap[r]]
            /\ ints' = [r \in Vars |-> IF r = rem THEN Remainder(ints[lhs], ints[rhs])
                                       ELSE IF r = res THEN Quotient(ints[lhs], ints[rhs])
                                       ELSE ints[r]]

\* fatal() if rhs is zero.  The remainder is written last.
DivRem ==
    \E res, rem \in Vars \cup {NULL}, lhs, rhs \in Vars :
        LET divided == bigint_divrem(heap[lhs], heap[rhs])
        IN  /\ heap[rhs].sign # 0
            /\ {res, rem} # {NULL}
            /\ heap' = [r \in Vars |-> IF r = rem THEN divided.rem
                                       ELSE IF r = res THEN divided.res
                                       ELSE heap[r]]
            /\ ints' = [r \in Vars |-> IF r = rem THEN Remainder(ints[lhs], ints[rhs])
                                       ELSE IF r = res THEN Quotient(ints[lhs], ints[rhs])
                                       ELSE ints[r]]

ShiftLeft ==
    \E self \in Vars, nbits \in 0..(LimbBits + 1) :
        /\ Means(self, ints[self] * 2 ^ nbits)
        /\ heap' = [heap EXCEPT ![self] = bigint_magnitude_shiftl(@, nbits)]

ShiftRight ==
    \E self \in Vars, nbits \in 0..(LimbBits + 1) :
        /\ Means(self, Sign(ints[self]) * (Magnitude(ints[self]) \div 2 ^ nbits))
        /\ heap' = [heap EXCEPT ![self] = bigint_magnitude_shiftr(@, nbits)]

BitSet ==
    \E self \in Vars, n \in 0..(2 * LimbBits), value \in {0, 1} :
        LET magnitude == Magnitude(ints[self])
            bit == (magnitude \div 2 ^ n) % 2
        IN  /\ Means(self, (IF ints[self] < 0 THEN -1 ELSE 1)
                           * (magnitude + (value - bit) * 2 ^ n))
            /\ heap' = [heap EXCEPT ![self] = bigint_magnitude_bit_set(@, n, value)]

Next ==
    \/ New \/ Assign \/ Neg \/ Abs \/ Add \/ Sub \/ Mul \/ DivRem
    \/ ShiftLeft \/ ShiftRight \/ BitSet

Spec == Init /\ [][Next]_vars

-----------------------------------------------------------------------------
\* Limbs are below Base (a borrow or a carry never stays in a limb), and the
\* only number without limbs is zero: comparisons and early returns of every
\* operation read the sign and the count of limbs instead of the value.
BigintTypeOK ==
    \A r \in Vars :
        /\ heap[r].limbs \in Seq(0..(Base - 1))
        /\ heap[r].sign \in {-1, 0, 1}
        /\ heap[r].sign = 0 <=> heap[r].limbs = <<>>
        /\ Count(heap[r]) > 0 => heap[r].limbs[Count(heap[r])] # 0

\* After any sequence of calls, whichever operands are also results, a bigint
\* stands for the integer that arithmetic gives (util.c, bigint_add to
\* bigint_magnitude_bit_set).
Stands == \A r \in Vars : Value(heap[r]) = ints[r]

\* bigint_cmp orders bigints as the integers they stand for, which bounds of
\* types, the order of sizes and the evaluator's comparisons rely on.
Compares == \A r, s \in Vars : bigint_cmp(heap[r], heap[s]) = Sign(ints[r] - ints[s])

\* Arithmetic and comparison are those of the integers.
Represents == BigintTypeOK /\ Stands /\ Compares

\* A constant printed into the C program and a literal read from the source
\* are the same integer, in every radix and with leading zeros.
Prints ==
    \A r \in Vars :
        LET text == bigint_to_new_cstr(heap[r])
        IN  /\ text = [negative |-> ints[r] < 0,
                       digits |-> Digits(Magnitude(ints[r]), Radix)]
            /\ \A radix \in Radices, zeros \in {<<>>, <<0>>} :
                  heap[r] = bigint_new_text(IF ints[r] < 0 THEN -1 ELSE 1, radix,
                                zeros \o Digits(Magnitude(ints[r]), radix))

\* Exactly the integers whose magnitude fits have bits, the bits are those of
\* the integer modulo 2^W, and they are read back as two's complement says:
\* on this the evaluator's casts and wrapping arithmetic rest.
Fits ==
    \A r \in Vars, W \in Widths :
        LET bits == bigint_to_bitarr(heap[r], W)
            i == ints[r] % 2 ^ W
        IN  IF Magnitude(ints[r]) >= 2 ^ W THEN bits = TooLarge
            ELSE /\ bits # TooLarge
                 /\ Unsigned(bits) = i
                 /\ Value(bitarr_to_bigint(bits, FALSE)) = i
                 /\ Value(bitarr_to_bigint(bits, TRUE)) = Signed(i, W)

\* Text and bits stand for the integer that they are made from or into.
Converts == Prints /\ Fits
=============================================================================
