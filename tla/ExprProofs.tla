----------------------------- MODULE ExprProofs -----------------------------
(***************************************************************************)
(* What the overflow checks of sys.h find, for integers of every width.    *)
(* A type comes in through its limits alone (LimitsAssumption).            *)
(***************************************************************************)
EXTENDS Expr, TLAPS

\* An operand of type t.
Operand(t, v) == v \in Int /\ MinOf(t) <= v /\ v <= MaxOf(t)

\* Without the compiler's builtins, __sunder_add_T finds exactly the sums that
\* are out of range, for signed and unsigned types of any width.
THEOREM SumCheckIsExact ==
    ASSUME NEW t \in SizedIntegers, NEW l, NEW r,
           Operand(t, l), Operand(t, r)
    PROVE  SumOverflows(t, l, r) <=> ~InRange(t, l + r)
  BY LimitsAssumption, SMT DEF SumOverflows, InRange, LimitsOf, Operand

\* The same of __sunder_sub_T and differences.
THEOREM DifferenceCheckIsExact ==
    ASSUME NEW t \in SizedIntegers, NEW l, NEW r,
           Operand(t, l), Operand(t, r)
    PROVE  DifferenceOverflows(t, l, r) <=> ~InRange(t, l - r)
  BY LimitsAssumption, SMT DEF DifferenceOverflows, InRange, LimitsOf, Operand

-----------------------------------------------------------------------------
\* Multiplication by a positive number keeps the order.
LEMMA Monotone ==
    ASSUME NEW a \in Int, NEW b \in Int, NEW c \in Nat, a <= b
    PROVE  c * a <= c * b
  OBVIOUS

\* What a \div b is for a natural a and a positive b.
LEMMA Division ==
    ASSUME NEW a \in Nat, NEW b \in Nat \ {0}
    PROVE  /\ a \div b \in Nat
           /\ b * (a \div b) <= a
           /\ a < b * ((a \div b) + 1)
  OBVIOUS

\* Comparing with a quotient is comparing with a product.
LEMMA Beyond ==
    ASSUME NEW a \in Nat, NEW k \in Nat \ {0}, NEW r \in Int
    PROVE  r > a \div k <=> k * r > a
  <1> DEFINE q == a \div k
  <1>1. q \in Nat /\ k * q <= a /\ a < k * (q + 1)
    BY Division
  <1> HIDE DEF q
  <1>2. CASE r > q
    <2>1. q + 1 <= r
      BY <1>1, <1>2
    <2>2. k * (q + 1) <= k * r
      BY <1>1, <2>1, Monotone
    <2> QED BY <1>1, <1>2, <2>2 DEF q
  <1>3. CASE ~(r > q)
    <2>1. r <= q
      BY <1>1, <1>3
    <2>2. k * r <= k * q
      BY <1>1, <2>1, Monotone
    <2> QED BY <1>1, <1>3, <2>2 DEF q
  <1> QED BY <1>2, <1>3

\* Division towards zero, sign by sign.
LEMMA QuotientIs ==
    ASSUME NEW a \in Int, NEW b \in Int
    PROVE  /\ a >= 0 /\ b > 0 => Quotient(a, b) = a \div b
           /\ a < 0 /\ b > 0 => Quotient(a, b) = -((-a) \div b)
           /\ a >= 0 /\ b < 0 => Quotient(a, b) = -(a \div (-b))
           /\ a < 0 /\ b < 0 => Quotient(a, b) = (-a) \div (-b)
  BY SMT DEF Quotient, Abs

\* Without the compiler's builtins, __sunder_mul_T finds exactly the products
\* that are out of range, by comparing with quotients of the limits.
THEOREM ProductCheckIsExact ==
    ASSUME NEW t \in SizedIntegers, NEW l, NEW r,
           Operand(t, l), Operand(t, r)
    PROVE  ProductOverflows(t, l, r) <=> ~InRange(t, l * r)
  <1> DEFINE min == MinOf(t)
             max == MaxOf(t)
  <1>1. /\ l \in Int /\ r \in Int /\ min \in Int /\ max \in Nat
        /\ min <= l /\ l <= max /\ min <= r /\ r <= max
        /\ min = IF t \in SIntegers THEN -max - 1 ELSE 0
    BY LimitsAssumption DEF LimitsOf, Operand
  <1>2. ~InRange(t, l * r) <=> l * r < min \/ l * r > max
    BY <1>1, LimitsAssumption DEF InRange, LimitsOf
  <1>3. CASE t \notin SIntegers
    <2>1. ProductOverflows(t, l, r) <=> l # 0 /\ r > Quotient(max, l)
      BY <1>3 DEF ProductOverflows
    <2>2. l \in Nat /\ r \in Nat /\ min = 0
      BY <1>1, <1>3
    <2>3. l * r >= 0
      BY <2>2, Monotone
    <2>4. CASE l = 0
      BY <1>1, <1>2, <2>1, <2>2, <2>4
    <2>5. CASE l # 0
      <3>1. Quotient(max, l) = max \div l
        BY <1>1, <2>2, <2>5, QuotientIs
      <3>2. r > max \div l <=> l * r > max
        BY <1>1, <2>2, <2>5, Beyond
      <3> QED BY <1>1, <1>2, <2>1, <2>2, <2>3, <2>5, <3>1, <3>2
    <2> QED BY <2>4, <2>5
  <1>4. CASE t \in SIntegers
    <2> DEFINE Spread ==
                 \/ l > 0 /\ (r > Quotient(max, l) \/ r < Quotient(min, l))
                 \/ l < -1 /\ (r < Quotient(max, l) \/ r > Quotient(min, l))
    <2>1. ProductOverflows(t, l, r)
            <=> (l = -1 /\ r = min) \/ (r = -1 /\ l = min) \/ Spread
      BY <1>4 DEF ProductOverflows
    <2>2. min = -max - 1 /\ min < 0 /\ -min \in Nat
      BY <1>1, <1>4
    <2>3. CASE l = 0
      BY <1>1, <1>2, <2>1, <2>2, <2>3
    <2>4. CASE l = -1
      BY <1>1, <1>2, <2>1, <2>2, <2>4
    <2>5. CASE l > 0
      <3>1. Quotient(max, l) = max \div l /\ Quotient(min, l) = -((-min) \div l)
        <4>1. max \in Int /\ min \in Int /\ l \in Int /\ max >= 0 /\ min < 0
          BY <1>1, <2>2
        <4>2. Quotient(max, l) = max \div l
          BY ONLY <4>1, <2>5, QuotientIs
        <4>3. Quotient(min, l) = -((-min) \div l)
          BY ONLY <4>1, <2>5, QuotientIs
        <4> QED BY <4>2, <4>3
      <3>2. r > max \div l <=> l * r > max
        BY <1>1, <2>5, Beyond
      <3>3. -r > (-min) \div l <=> l * (-r) > -min
        BY <1>1, <2>2, <2>5, Beyond
      <3>4. (-min) \div l \in Nat /\ l * (-r) = -(l * r)
        BY <1>1, <2>2, <2>5, Division
      <3>5. r < Quotient(min, l) <=> l * r < min
        BY <1>1, <3>1, <3>3, <3>4
      <3>6. Spread <=> l * r < min \/ l * r > max
        BY <1>1, <2>5, <3>1, <3>2, <3>5
      <3> QED BY <1>1, <1>2, <2>1, <2>2, <2>5, <3>6
    <2>6. CASE l < -1
      <3> DEFINE k == -l
      <3>1. k \in Nat \ {0}
        BY <1>1, <2>6
      <3>2. Quotient(max, l) = -(max \div k) /\ Quotient(min, l) = (-min) \div k
        <4>1. /\ max \in Int /\ min \in Int /\ l \in Int
              /\ max >= 0 /\ min < 0 /\ l < 0
          BY <1>1, <2>2, <2>6
        <4>2. Quotient(max, l) = -(max \div (-l))
          BY ONLY <4>1, QuotientIs
        <4>3. Quotient(min, l) = (-min) \div (-l)
          BY ONLY <4>1, QuotientIs
        <4> QED BY <4>2, <4>3
      <3>3. -r > max \div k <=> k * (-r) > max
        BY <1>1, <3>1, Beyond
      <3>4. r > (-min) \div k <=> k * r > -min
        BY <1>1, <2>2, <3>1, Beyond
      <3>5. max \div k \in Nat /\ k * (-r) = l * r /\ k * r = -(l * r)
        BY <1>1, <3>1, Division
      <3>6. r < Quotient(max, l) <=> l * r > max
        BY <1>1, <3>2, <3>3, <3>5
      <3>7. r > Quotient(min, l) <=> l * r < min
        BY <1>1, <2>2, <3>2, <3>4, <3>5
      <3>8. Spread <=> l * r < min \/ l * r > max
        BY <2>6, <1>1, <3>6, <3>7
      <3>9. r = -1 => l * r = -l
        BY <1>1
      <3>10. r = -1 /\ l = min => l * r > max
        BY <1>1, <2>2, <3>9
      <3> HIDE DEF Spread
      <3> QED BY <1>1, <1>2, <2>1, <2>6, <3>8, <3>10
    <2> QED BY <1>1, <2>3, <2>4, <2>5, <2>6
  <1> QED BY <1>3, <1>4

\* A quotient is at most its dividend, and at most half of it but for 1.
LEMMA Shrinks ==
    ASSUME NEW a \in Nat, NEW k \in Nat \ {0}
    PROVE  /\ a \div k \in Nat /\ a \div k <= a
           /\ k >= 2 => 2 * (a \div k) <= a
  <1> DEFINE q == a \div k
  <1>1. q \in Nat /\ k * q <= a
    BY Division
  <1> HIDE DEF q
  <1>2. \A c \in Nat : c <= k => q * c <= q * k
    BY <1>1, Monotone
  <1>3. q * 1 <= q * k /\ q * k = k * q /\ (k >= 2 => q * 2 <= q * k)
    BY <1>1, <1>2
  <1> QED BY <1>1, <1>3 DEF q

\* __sunder_div_T refuses, besides a zero divisor, exactly the division whose
\* quotient is out of range; __sunder_rem_T refuses the same operands.
THEOREM DivisionCheckIsExact ==
    ASSUME NEW t \in SizedIntegers, NEW l, NEW r,
           Operand(t, l), Operand(t, r), r # 0
    PROVE  DivisionFails(t, l, r) <=> ~InRange(t, Quotient(l, r))
  <1> DEFINE min == MinOf(t)
             max == MaxOf(t)
             m == Abs(l) \div Abs(r)
  <1>1. /\ l \in Int /\ r \in Int /\ r # 0 /\ min \in Int /\ max \in Nat
        /\ min <= l /\ l <= max /\ min <= r /\ r <= max
        /\ min = IF t \in SIntegers THEN -max - 1 ELSE 0
    BY LimitsAssumption DEF LimitsOf, Operand
  <1>2. ~InRange(t, Quotient(l, r)) <=> ~(min <= Quotient(l, r) /\ Quotient(l, r) <= max)
    BY LimitsAssumption DEF InRange, LimitsOf
  <1>3. DivisionFails(t, l, r) <=> t \in SIntegers /\ l = min /\ r = -1
    BY DEF DivisionFails
  <1>4. /\ Abs(l) \in Nat /\ Abs(r) \in Nat \ {0}
        /\ l >= 0 => Abs(l) = l
        /\ l < 0 => Abs(l) = -l
        /\ r >= 0 => Abs(r) = r
        /\ r < 0 => Abs(r) = -r
    BY <1>1 DEF Abs
  <1>5. /\ m \in Nat /\ m <= Abs(l)
        /\ Abs(r) >= 2 => 2 * m <= Abs(l)
    BY <1>4, Shrinks
  <1>6. Abs(r) = 1 => m = Abs(l)
    BY <1>4
  <1>7. Quotient(l, r) = IF (l < 0) = (r < 0) THEN m ELSE -m
    BY DEF Quotient
  <1> HIDE DEF m
  <1>8. CASE t \notin SIntegers
    BY <1>1, <1>2, <1>3, <1>4, <1>5, <1>7, <1>8
  <1>9. CASE t \in SIntegers
    <2>1. min = -max - 1
      BY <1>1, <1>9
    <2>2. CASE l = min /\ r = -1
      <3>1. Quotient(l, r) = -min
        BY <1>1, <1>4, <1>6, <1>7, <2>1, <2>2
      <3> QED BY <1>1, <1>2, <1>3, <1>9, <2>1, <2>2, <3>1
    <2>3. CASE l # min
      <3>1. Abs(l) <= max
        BY <1>1, <1>4, <2>1, <2>3
      <3>2. m <= max
        BY <1>1, <1>4, <1>5, <3>1
      <3>3. min <= Quotient(l, r) /\ Quotient(l, r) <= max
        BY <1>1, <1>5, <1>7, <2>1, <3>2
      <3> QED BY <1>2, <1>3, <2>3, <3>3
    <2>4. CASE l = min /\ r = 1
      <3>1. Quotient(l, r) = min
        BY <1>1, <1>4, <1>6, <1>7, <2>1, <2>4
      <3> QED BY <1>1, <1>2, <1>3, <2>1, <2>4, <3>1
    <2>5. CASE l = min /\ r # 1 /\ r # -1
      <3>1. Abs(r) >= 2 /\ Abs(l) = max + 1
        BY <1>1, <1>4, <2>1, <2>5
      <3>2. m <= max
        BY <1>1, <1>5, <3>1
      <3>3. min <= Quotient(l, r) /\ Quotient(l, r) <= max
        BY <1>1, <1>5, <1>7, <2>1, <3>2
      <3> QED BY <1>2, <1>3, <2>5, <3>3
    <2> QED BY <2>2, <2>3, <2>4, <2>5
  <1> QED BY <1>8, <1>9

\* The checks find the same on every C compiler, with its builtins and without:
\* exactly the results that are out of range.
THEOREM OverflowIsExact ==
    ASSUME NEW op \in {"+", "-", "*"}, NEW t \in SizedIntegers, NEW l, NEW r,
           Operand(t, l), Operand(t, r)
    PROVE  Overflow(op, t, l, r) <=> ~InRange(t, Exact(op, l, r))
  <1>1. CASE op = "+"
    <2>1. Exact("+", l, r) = l + r /\ PortableOverflow("+", t, l, r) = SumOverflows(t, l, r)
      BY Zenon DEF Exact, PortableOverflow
    <2> QED BY <1>1, <2>1, SumCheckIsExact DEF Overflow
  <1>2. CASE op = "-"
    <2>1. /\ Exact("-", l, r) = l - r
          /\ PortableOverflow("-", t, l, r) = DifferenceOverflows(t, l, r)
      BY Zenon DEF Exact, PortableOverflow
    <2> QED BY <1>2, <2>1, DifferenceCheckIsExact DEF Overflow
  <1>3. CASE op = "*"
    <2>1. /\ Exact("*", l, r) = l * r
          /\ PortableOverflow("*", t, l, r) = ProductOverflows(t, l, r)
      BY Zenon DEF Exact, PortableOverflow
    <2> QED BY <1>3, <2>1, ProductCheckIsExact DEF Overflow
  <1> QED BY <1>1, <1>2, <1>3

=============================================================================
