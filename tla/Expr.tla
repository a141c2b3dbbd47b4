-------------------------------- MODULE Expr --------------------------------
(***************************************************************************)
(* The two meanings that the compiler gives to an expression on integers,  *)
(* booleans and bytes: what eval.c computes when it folds constants, and   *)
(* what the C that codegen.c prints computes with the help of sys.h.       *)
(*                                                                         *)
(* An expression is built from its leaves by the steps of the resolver     *)
(* (resolve_expr and its callees): `stack` holds the operands that wait.   *)
(* Since a node is only its type, its kind and its two outcomes,           *)
(* expressions of every depth are reached.  An expression on constant      *)
(* symbols is evaluated by eval.c in a constant context and by C elsewhere;*)
(* one on literals is folded.                                              *)
(***************************************************************************)
EXTENDS Integers, Sequences, FiniteSets

CONSTANTS
    Types,      \* the types in use; u8 and s8 stand for all fixed widths
    SmallBits,  \* the width of byte, u8 and s8: 8 in the code
    SizeBits,   \* the width of usize and ssize: 64 in the code
    MaxUnsized, \* bound: the absolute value of an unsized integer
    Count       \* the number of elements of the array that is indexed

AllTypes == {"bool", "byte", "u8", "s8", "usize", "ssize", "integer"}

ASSUME TypesAssumption == Types \subseteq AllTypes
ASSUME WidthAssumption ==
    SmallBits \in Nat \ {0} /\ SizeBits \in Nat /\ SmallBits <= SizeBits
ASSUME MaxUnsizedAssumption == MaxUnsized \in Nat
ASSUME CountAssumption == Count \in 0..2^SizeBits - 1

VARIABLES
    target,     \* the C compiler: defines __GNUC__?  is its char signed?
    stack,      \* the resolved operands, last one on top
    made,       \* what was made last, as far as the properties tell it apart
    phase       \* "resolve", or "refused" after a fatal error

vars == <<target, stack, made, phase>>

-----------------------------------------------------------------------------
\* Operators.
Logical == {"or", "and"}
Shifts == {"<<", ">>"}
Comparisons == {"==", "!=", "<=", "<", ">=", ">"}
Wrapping == {"+%", "-%", "*%"}
Arithmetics == {"+", "-", "*", "/", "%"} \cup Wrapping
BitOps == {"|", "^", "&"}
UnaryOps == {"not", "+", "-", "-%", "~"}
BinaryOps == Logical \cup Shifts \cup Comparisons \cup Arithmetics \cup BitOps

\* Types (type_is_uinteger, type_is_sinteger, type_is_integer) and their ranges.
UIntegers == {"u8", "usize"}
SIntegers == {"s8", "ssize"}
SizedIntegers == UIntegers \cup SIntegers
IntegerTypes == SizedIntegers \cup {"integer"}
Sized == AllTypes \ {"integer"}

BitCount(t) == IF t \in {"usize", "ssize"} THEN SizeBits ELSE SmallBits
SameSizedUInteger(t) == IF t \in {"usize", "ssize"} THEN "usize" ELSE "u8"
MinOf(t) == IF t \in SIntegers THEN -(2^(BitCount(t) - 1)) ELSE 0
MaxOf(t) ==
    CASE t = "bool" -> 1
      [] t \in SIntegers -> 2^(BitCount(t) - 1) - 1
      [] OTHER -> 2^BitCount(t) - 1
InRange(t, v) == t = "integer" \/ (MinOf(t) <= v /\ v <= MaxOf(t))

\* What the proofs use of the powers of two that limit a type.
LimitsOf(t) ==
    /\ t # "integer"
    /\ MinOf(t) \in Int /\ MaxOf(t) \in Int
    /\ 0 <= MaxOf(t)
    /\ MinOf(t) = IF t \in SIntegers THEN -MaxOf(t) - 1 ELSE 0
ASSUME LimitsAssumption == \A t \in SizedIntegers : LimitsOf(t)

Unsized == -MaxUnsized..MaxUnsized

\* The values of a type that the checks enumerate.
ValuesOf(t) == IF t = "integer" THEN Unsized ELSE MinOf(t)..MaxOf(t)

\* struct bitarr: a two's complement pattern of b bits, as the set of the bits
\* that are set (bigint_to_bitarr), and its value (bitarr_to_bigint).
Bits(v, b) == {i \in 0..b - 1 : ((v % 2^b) \div 2^i) % 2 = 1}
Magnitude(S, b) == CHOOSE v \in 0..2^b - 1 : Bits(v, b) = S
FromBits(S, b, signed) ==
    IF signed /\ b - 1 \in S THEN Magnitude(S, b) - 2^b ELSE Magnitude(S, b)
OfType(S, t) == FromBits(S, BitCount(t), t \in SIntegers)

Below(b) == 0..b - 1
Xor(S, T) == (S \ T) \cup (T \ S)
Trimmed(S, b) == S \cap Below(b)
ShiftedLeft(S, n, b) == {i \in Below(b) : i - n \in S}
ShiftedRight(S, n, b, high) ==
    {i \in Below(b) : IF i + n < b THEN i + n \in S ELSE high}

\* Division as bigint_divrem and C have it: towards zero.
Abs(v) == IF v < 0 THEN -v ELSE v
Quotient(a, b) ==
    IF (a < 0) = (b < 0) THEN Abs(a) \div Abs(b) ELSE -(Abs(a) \div Abs(b))
Remainder(a, b) == a - b * Quotient(a, b)

-----------------------------------------------------------------------------
\* Outcomes: a value, a fatal error ("divide by zero", "out-of-range"), or the
\* compiler's own UNREACHABLE().
Value(v) == <<"value", v>>
Fatal == <<"fatal">>
Unreachable == <<"unreachable">>
IsValue(o) == o[1] = "value"
Truth(p) == IF p THEN 1 ELSE 0

\* The outcome of f on the values of the operands: the compiler's own failure
\* comes first, whatever order the C would take.
Then(o, F(_)) == IF IsValue(o) THEN F(o[2]) ELSE o
Both(p, q, F(_, _)) ==
    IF Unreachable \in {p, q} THEN Unreachable
    ELSE IF Fatal \in {p, q} THEN Fatal
    ELSE F(p[2], q[2])

-----------------------------------------------------------------------------
\* C.  Operators work on promoted operands, whose values are exact; a value is
\* narrowed where it is cast, or stored in a temporary or a variable.
Narrowed(v, min, b) == min + ((v - min) % 2^b)
ToC(v, t) ==
    CASE t = "bool" -> Truth(v # 0)
      [] t = "byte" -> Narrowed(v, IF target.signed_char THEN -(2^(SmallBits - 1)) ELSE 0,
                                SmallBits)
      [] OTHER -> Narrowed(v, MinOf(t), BitCount(t))

\* The bitwise operators of C on operands as wide as the widest.
Wide == SizeBits + 1
CBits(S) == FromBits(S, Wide, TRUE)

\* strgen_value: the literal that stands for a value; a byte is an int literal.
Text(t, v) == IF t = "integer" THEN Unreachable ELSE Value(v)

Compare(op, a, b) ==
    CASE op = "==" -> a = b
      [] op = "!=" -> a # b
      [] op = "<=" -> a <= b
      [] op = "<"  -> a < b
      [] op = ">=" -> a >= b
      [] op = ">"  -> a > b

Exact(op, a, b) ==
    CASE op \in {"+", "+%"} -> a + b
      [] op \in {"-", "-%"} -> a - b
      [] op \in {"*", "*%"} -> a * b

-----------------------------------------------------------------------------
\* eval.c.  Values are unbounded integers; sized ones are checked.

\* Mutant of Checked: the result of an operation is not checked.
CheckedNever(t, v) == Value(v)

Checked(t, v) == IF InRange(t, v) THEN Value(v) ELSE Fatal

\* Mutant of Extended: negative values are extended with zeros.
ExtendedUnsigned(v, f, t) == Bits(v, BitCount(f)) \cap Below(BitCount(t))

\* The bytes of a value, extended or cut to the width of another type.
Extended(v, f, t) ==
    LET S == Bits(v, BitCount(f))
        high == f \in SIntegers /\ BitCount(f) - 1 \in S
    IN  (S \cap Below(BitCount(t)))
          \cup {i \in Below(BitCount(t)) : high /\ i >= BitCount(f)}

\* eval_rvalue_cast.
EvalCast(t, f, v) ==
    CASE t = f -> Value(v)
      [] t # f /\ t = "bool" -> Value(Truth(v # 0))
      [] t \notin {f, "bool"} /\ f = "integer" -> Checked(t, v)
      [] OTHER -> Value(OfType(Extended(v, f, t), t))

\* eval_rvalue_unary.
EvalUnary(op, t, v) ==
    CASE op = "not" -> Value(1 - v)
      [] op = "+"  -> Value(v)
      [] op = "-"  -> Checked(t, -v)
      [] op = "-%" -> Value(OfType(Bits(-v, BitCount(t)), t))
      [] op = "~"  -> Value(OfType(Below(BitCount(t)) \ Bits(v, BitCount(t)), t))

\* eval_rvalue_binary, on operands of type t (the right one of a shift is usize).
EvalBinary(op, t, a, b) ==
    LET w == BitCount(t)
        A == Bits(a, w)
        B == Bits(b, w)
    IN  CASE op = "or"  -> Value(Truth(a = 1 \/ b = 1))
          [] op = "and" -> Value(Truth(a = 1 /\ b = 1))
          [] op \in Comparisons -> Value(Truth(Compare(op, a, b)))
          [] op = "<<" -> Value(OfType(ShiftedLeft(A, b, w), t))
          [] op = ">>" -> Value(OfType(ShiftedRight(A, b, w, a < 0), t))
          [] op \in {"+", "-", "*"} -> Checked(t, Exact(op, a, b))
          [] op \in Wrapping -> Value(OfType(Bits(Exact(op, a, b), w), t))
          [] op = "/" -> IF b = 0 THEN Fatal ELSE Checked(t, Quotient(a, b))
          [] op = "%" -> IF b = 0 \/ ~InRange(t, Quotient(a, b))
                           THEN Fatal ELSE Value(Remainder(a, b))
          [] op = "|" -> Value(OfType(A \cup B, t))
          [] op = "^" -> Value(OfType(Xor(A, B), t))
          [] op = "&" -> Value(OfType(A \cap B, t))

-----------------------------------------------------------------------------
\* sys.h.  What the checks before an operation find: the compiler's builtins
\* with __GNUC__, comparisons that cannot overflow themselves without.
SumOverflows(t, l, r) ==
    IF t \in SIntegers
      THEN (l > 0 /\ r > MaxOf(t) - l) \/ (l < 0 /\ r < MinOf(t) - l)
      ELSE l > MaxOf(t) - r
DifferenceOverflows(t, l, r) ==
    IF t \in SIntegers
      THEN (r < 0 /\ l > MaxOf(t) + r) \/ (r > 0 /\ l < MinOf(t) + r)
      ELSE l < r
ProductOverflows(t, l, r) ==
    IF t \in SIntegers
      THEN \/ (l = -1 /\ r = MinOf(t)) \/ (r = -1 /\ l = MinOf(t))
           \/ l > 0 /\ (r > Quotient(MaxOf(t), l) \/ r < Quotient(MinOf(t), l))
           \/ l < -1 /\ (r < Quotient(MaxOf(t), l) \/ r > Quotient(MinOf(t), l))
      ELSE l # 0 /\ r > Quotient(MaxOf(t), l)
PortableOverflow(op, t, l, r) ==
    CASE op = "+" -> SumOverflows(t, l, r)
      [] op = "-" -> DifferenceOverflows(t, l, r)
      [] op = "*" -> ProductOverflows(t, l, r)

Overflow(op, t, l, r) ==
    IF target.gnu THEN ~InRange(t, Exact(op, l, r)) ELSE PortableOverflow(op, t, l, r)

\* __sunder_add_wrapping_T and the like.
Wrapped(op, t, l, r) ==
    IF target.gnu THEN ToC(Exact(op, l, r), t)
    ELSE LET u == SameSizedUInteger(t) IN ToC(Exact(op, ToC(l, u), ToC(r, u)), t)

\* Mutant of DivisionFails: only a division by zero is found.
DivisionFailsByZero(t, l, r) == r = 0

\* __sunder_div_T and __sunder_rem_T.
DivisionFails(t, l, r) == r = 0 \/ (t \in SIntegers /\ l = MinOf(t) /\ r = -1)

\* __sunder_add_T and the like, on temporaries of type T.
Arithmetic(op, t, l, r) ==
    CASE op \in {"+", "-", "*"} ->
           IF Overflow(op, t, l, r) THEN Fatal ELSE Value(ToC(Exact(op, l, r), t))
      [] op \in Wrapping -> Value(Wrapped(op, t, l, r))
      [] op = "/" -> IF DivisionFails(t, l, r) THEN Fatal ELSE Value(Quotient(l, r))
      [] op = "%" -> IF DivisionFails(t, l, r) THEN Fatal ELSE Value(Remainder(l, r))

-----------------------------------------------------------------------------
\* codegen.c.  strgen_rvalue_cast: a byte is first made unsigned.
RunCast(t, f, v) == Value(ToC(IF f = "byte" THEN ToC(v, "u8") ELSE v, t))

\* strgen_rvalue_unary.
RunUnary(op, t, v) ==
    CASE op = "not" -> Value(Truth(v = 0))
      [] op = "+"  -> Value(v)
      [] op = "-"  -> IF ToC(v, t) = MinOf(t) THEN Fatal ELSE Value(-ToC(v, t))
      [] op = "-%" -> Value(Wrapped("+%", t, ToC(-v - 1, t), 1))
      [] op = "~"  -> Value(ToC(-v - 1, t))

\* strgen_rvalue_binary_shl and _shr.
RunShift(op, t, l, n) ==
    IF op = "<<"
      THEN IF n < BitCount(t) THEN ToC(ToC(l, SameSizedUInteger(t)) * 2^n, t) ELSE 0
      ELSE IF n < BitCount(t) THEN l \div 2^n
           ELSE IF t \in SIntegers /\ l < 0 THEN -1 ELSE 0

\* strgen_rvalue_binary, but for the logical operators.
RunBinary(op, t, l, r) ==
    CASE op \in Comparisons -> Value(Truth(Compare(op, l, r)))
      [] op \in Shifts -> Value(RunShift(op, t, ToC(l, t), ToC(r, "usize")))
      [] op = "|" -> Value(CBits(Bits(l, Wide) \cup Bits(r, Wide)))
      [] op = "^" -> Value(CBits(Xor(Bits(l, Wide), Bits(r, Wide))))
      [] op = "&" -> Value(CBits(Bits(l, Wide) \cap Bits(r, Wide)))
      [] OTHER -> Arithmetic(op, t, ToC(l, t), ToC(r, t))

\* || and &&: the right operand is not evaluated when the left one decides.
RunLogical(op, p, q) ==
    IF Unreachable \in {p, q} THEN Unreachable
    ELSE IF p = Value(Truth(op = "or")) THEN p
    ELSE IF IsValue(p) THEN q ELSE p

-----------------------------------------------------------------------------
\* struct expr: its type, whether it is an EXPR_VALUE or an EXPR_SYMBOL, what
\* eval_rvalue makes of it, and what its C text computes.
Node(t, kind, eval, run) == [type |-> t, kind |-> kind, eval |-> eval, run |-> run]
ValueNode(t, v) == Node(t, "value", Value(v), Text(t, v))

\* fatal() in the resolver.
Refused(t) == Node(t, "refused", Fatal, Fatal)
IsRefused(n) == n.kind = "refused"

\* "OPTIMIZATION(constant folding)".
Folded(n) == IF IsValue(n.eval) THEN ValueNode(n.type, n.eval[2]) ELSE Refused(n.type)

\* explicit_cast.
ExplicitCast(t, n) ==
    LET cast == Node(t, "other",
                     Then(n.eval, LAMBDA v : EvalCast(t, n.type, v)),
                     Then(n.run, LAMBDA v : RunCast(t, n.type, v)))
    IN  IF t = "integer" THEN Refused(t)
        ELSE IF n.kind = "value" THEN Folded(cast) ELSE cast

\* implicit_cast: from unsized integers to byte and sized ones.
ImplicitCast(t, n) ==
    IF n.type = "integer" /\ t \in SizedIntegers \cup {"byte"}
      THEN ExplicitCast(t, n) ELSE n

\* The checks of resolve_expr_unary_logical, _arithmetic and _bitwise.
UnaryIsValid(op, t) ==
    CASE op = "not" -> t = "bool"
      [] op = "+"  -> t \in IntegerTypes
      [] op = "-"  -> t \in IntegerTypes \ UIntegers
      [] op = "-%" -> t \in SIntegers
      [] op = "~"  -> t \in SizedIntegers \cup {"byte"}

\* resolve_expr_unary: never folded.
UnaryExpr(op, n) ==
    IF UnaryIsValid(op, n.type)
      THEN Node(n.type, "other",
                Then(n.eval, LAMBDA v : EvalUnary(op, n.type, v)),
                Then(n.run, LAMBDA v : RunUnary(op, n.type, v)))
      ELSE Refused(n.type)

\* The checks of resolve_expr_binary_logical, _shift, _compare_equality,
\* _compare_order, _arithmetic and _bitwise, after implicit casts.
BinaryIsValid(op, l, r) ==
    CASE op \in Logical -> l = "bool" /\ r = "bool"
      [] op \in Shifts -> l \in SizedIntegers /\ r = "usize"
      [] op \in Comparisons -> l = r
      [] op \in {"+", "-", "*", "/"} -> l = r /\ l \in IntegerTypes
      [] op \in Wrapping \cup {"%"} -> l = r /\ l \in SizedIntegers
      [] op \in BitOps -> l = r /\ l # "integer"

\* resolve_expr_binary: the operands after implicit casts, and the node.
LeftOperand(op, l, r) ==
    IF op \in Logical \cup Shifts THEN l ELSE ImplicitCast(r.type, l)
RightOperand(op, l, r) ==
    CASE op \in Logical -> r
      [] op \in Shifts -> ImplicitCast("usize", r)
      [] OTHER -> ImplicitCast(LeftOperand(op, l, r).type, r)
BinaryOf(op, l, r) ==
    Node(IF op \in Logical \cup Comparisons THEN "bool" ELSE l.type, "other",
         Both(l.eval, r.eval, LAMBDA a, b : EvalBinary(op, l.type, a, b)),
         IF op \in Logical THEN RunLogical(op, l.run, r.run)
         ELSE Both(l.run, r.run, LAMBDA a, b : RunBinary(op, l.type, a, b)))
BinaryExpr(op, lhs, rhs) ==
    LET l == LeftOperand(op, lhs, rhs)
        r == RightOperand(op, lhs, rhs)
    IN  IF IsRefused(l) \/ IsRefused(r) \/ ~BinaryIsValid(op, l.type, r.type)
        THEN Refused(l.type)
        ELSE IF {l.kind, r.kind} = {"value"} /\ op \notin Shifts
        THEN Folded(BinaryOf(op, l, r))
        ELSE BinaryOf(op, l, r)

\* resolve_stmt_assign and codegen_stmt_assign: the value that the variable
\* takes, to be compared with what eval.c makes of the expression `l op r`.
\* For `op=` that expression is resolved, too, as a check.
AssignedOf(op, l, r) ==
    Node(l.type, "other",
         IF op = "=" THEN r.eval
         ELSE Both(l.eval, r.eval, LAMBDA a, b : EvalBinary(op, l.type, a, b)),
         IF op = "=" THEN Then(r.run, LAMBDA v : Value(ToC(v, l.type)))
         ELSE Then(Both(l.run, r.run,
                        LAMBDA a, b : RunBinary(op, l.type, a, ToC(b, r.type))),
                   LAMBDA v : Value(ToC(v, l.type))))
Assigned(op, l, rhs) ==
    LET r == ImplicitCast(IF op \in Shifts THEN "usize" ELSE l.type, rhs)
    IN  IF \/ IsRefused(r)
           \/ op \notin Shifts /\ r.type # l.type
           \/ op # "=" /\ IsRefused(BinaryExpr(op, l, rhs))
        THEN Refused(l.type) ELSE AssignedOf(op, l, r)
AssignOps == {"="} \cup Shifts \cup Arithmetics \cup BitOps

\* resolve_expr_access_index: the i-th element, from 0, of an array is i.
IsUsize(n) == ~IsRefused(n) /\ n.type = "usize"
Element(n) ==
    LET i == ImplicitCast("usize", n)
    IN  IF ~IsUsize(i) THEN Refused("usize")
        ELSE Node("usize", "other",
                  Then(i.eval, LAMBDA v : IF v >= Count THEN Fatal ELSE Value(v)),
                  Then(i.run, LAMBDA v :
                      IF ToC(v, "usize") >= Count THEN Fatal ELSE Value(v)))

\* resolve_expr_access_slice and _unary_countof: the length of array[b:e].
SliceLength(begin, end) ==
    LET b == ImplicitCast("usize", begin)
        e == ImplicitCast("usize", end)
    IN  IF ~IsUsize(b) \/ ~IsUsize(e) THEN Refused("usize")
        ELSE Node("usize", "other",
                  Both(b.eval, e.eval, LAMBDA x, y :
                      IF x > Count \/ y > Count \/ x > y THEN Fatal ELSE Value(y - x)),
                  Both(b.run, e.run, LAMBDA x, y :
                      IF x > y \/ x > Count \/ y > Count THEN Fatal ELSE Value(y - x)))

-----------------------------------------------------------------------------
Init ==
    /\ target \in [gnu : BOOLEAN, signed_char : BOOLEAN]
    /\ stack = <<>>
    /\ made = "leaf"
    /\ phase = "resolve"

\* What a value of a type is, whatever C makes of its bits.
Denotation(t, v) == IF t = "byte" THEN v % 2^SmallBits ELSE v

\* eval.c and the generated C agree on a node.
SameOutcome(n) ==
    IF IsValue(n.eval) /\ IsValue(n.run)
      THEN n.eval[2] = Denotation(n.type, n.run[2])
      ELSE n.eval = n.run

\* An expression with an operand on which they differ is not built on; an
\* unsized integer has no C of its own.
Resolving ==
    /\ phase = "resolve"
    /\ \A i \in 1..Len(stack) : stack[i].type = "integer" \/ SameOutcome(stack[i])

Settle(rest, n, what) ==
    /\ n.type = "integer" /\ IsValue(n.eval) => n.eval[2] \in Unsized
    /\ IF IsRefused(n)
         THEN phase' = "refused" /\ stack' = <<>> /\ made' = "leaf"
         ELSE phase' = phase /\ stack' = Append(rest, n) /\ made' = what
    /\ UNCHANGED target

Push(n) == Resolving /\ Len(stack) < 2 /\ Settle(stack, n, "leaf")

\* The integers that a literal is written with.
Written(t) ==
    CASE t = "bool" -> {0, 1}
      [] t = "integer" -> 0..MaxUnsized
      [] OTHER -> 0..MaxOf(t) + 1

\* resolve_expr_integer, resolve_expr_boolean: checks the range.
LiteralOf(t, v) == IF InRange(t, v) THEN ValueNode(t, v) ELSE Refused(t)
Literal ==
    \E n \in UNION {{LiteralOf(t, v) : v \in Written(t)} : t \in Types} : Push(n)

\* resolve_expr_unary, of a sign and an integer token.  A byte is made by
\* value_new_integer, which sets a pointer where the byte is read.
SignedLiteralsOf(t, v) ==
    IF InRange(t, v) /\ t = "byte" THEN {ValueNode(t, byte) : byte \in ValuesOf(t)}
    ELSE {LiteralOf(t, v)}
SignedLiteral ==
    \E n \in UNION {UNION {SignedLiteralsOf(t, v) \cup SignedLiteralsOf(t, -v) :
                           v \in Written(t)} : t \in Types \ {"bool"}} : Push(n)

\* resolve_expr_identifier, of a constant.  Its C object has its C type.
SymbolOf(t, v) == Node(t, "symbol", Value(v), Value(ToC(v, t)))
Symbol ==
    \E n \in UNION {{SymbolOf(t, v) : v \in ValuesOf(t)} : t \in Types \cap Sized} :
        Push(n)

Top == stack[Len(stack)]
Rest == SubSeq(stack, 1, Len(stack) - 1)

\* An unsized operand that is not a value: it is not folded by a cast.
Unfolded(n) == n.type = "integer" /\ n.kind # "value"
Making(operands, what) ==
    IF \E n \in operands : Unfolded(n) THEN "unsized" ELSE what

Unary ==
    /\ Resolving /\ stack # <<>>
    /\ \E op \in UnaryOps : Settle(Rest, UnaryExpr(op, Top), "other")

\* resolve_expr_cast.
Cast ==
    /\ Resolving /\ stack # <<>>
    /\ \E t \in Types : Settle(Rest, ExplicitCast(t, Top), Making({Top}, "other"))

\* A byte whose C value is not the value that eval.c has for it.
NegativeByte(n) == n.type = "byte" /\ n.run # n.eval

\* What a binary expression is to the properties.
BinaryKind(op, operands) ==
    IF op \in Logical THEN "logical"
    ELSE IF op \in Comparisons /\ \E n \in operands : NegativeByte(n) THEN "bytes"
    ELSE "other"

\* The operands in either order.
Binary ==
    /\ Resolving /\ Len(stack) = 2
    /\ \E op \in BinaryOps, i \in {1, 2} :
         LET l == stack[i]  r == stack[3 - i] IN
         Settle(<<>>, BinaryExpr(op, l, r),
                Making({l, r}, BinaryKind(op, {l, r})))

\* To a variable.
Assign ==
    /\ Resolving /\ Len(stack) = 2 /\ stack[1].kind = "symbol"
    /\ \E op \in AssignOps :
         Settle(<<>>, Assigned(op, stack[1], stack[2]), Making({stack[2]}, "other"))

Index ==
    /\ Resolving /\ stack # <<>> /\ "usize" \in Types
    /\ Settle(Rest, Element(Top), Making({Top}, "other"))

Slice ==
    /\ Resolving /\ Len(stack) = 2 /\ "usize" \in Types
    /\ Settle(<<>>, SliceLength(stack[1], stack[2]),
              Making({stack[1], stack[2]}, "other"))

\* A fatal error, or a difference has been found.
Stopped == ~Resolving /\ UNCHANGED vars

Next ==
    \/ Literal \/ SignedLiteral \/ Symbol \/ Unary \/ Cast \/ Binary
    \/ Assign \/ Index \/ Slice \/ Stopped

Spec == Init /\ [][Next]_vars

-----------------------------------------------------------------------------
Outcomes == {Fatal, Unreachable} \cup {Value(v) : v \in -(2^Wide)..2^Wide}

\* The types of the variables; a value that eval.c makes is in the range of
\* its type, which value_new_integer asserts.
ExprTypeOK ==
    /\ target \in [gnu : BOOLEAN, signed_char : BOOLEAN]
    /\ Len(stack) <= 2
    /\ \A i \in 1..Len(stack) : LET n == stack[i] IN
         /\ n.type \in AllTypes
         /\ n.kind \in {"value", "symbol", "other"}
         /\ IsValue(n.eval) => n.eval[2] \in ValuesOf(n.type)
         /\ n.kind = "value" => IsValue(n.eval)
         /\ n.run \in Outcomes
    /\ made \in {"leaf", "unsized", "logical", "bytes", "other"}
    /\ phase \in {"resolve", "refused"}

\* The node that was made last.
Made(P(_)) == stack # <<>> => P(stack[Len(stack)])

\* Where eval.c and the generated C both have a value for an expression, it is
\* the same one, at every width and on every compiler: that a constant is folded
\* ("OPTIMIZATION(constant folding)" in resolve.c) does not change what a program
\* computes.  Comparisons of bytes of which C holds one as a negative number are
\* excepted: there a folded comparison and the C one do differ.
SameValue ==
    Made(LAMBDA n : IsValue(n.eval) /\ IsValue(n.run) /\ made # "bytes"
                      => n.eval[2] = Denotation(n.type, n.run[2]))

\* A sized expression that the compiler refuses to evaluate (out of range,
\* division by zero, index out of bounds) stops the program with the same
\* check when it is evaluated at run time, and the other way around; only the
\* right operand of `and` and `or` may be left out by C and not by eval.c.
SameFaults ==
    Made(LAMBDA n :
        n.type # "integer" /\ n.run # Unreachable =>
            /\ n.run = Fatal => n.eval = Fatal
            /\ n.eval = Fatal => n.run = Fatal \/ made = "logical")

\* The text of an unsized integer is asked of the code generator, which strgen_value takes to be
\* unreachable, only if an operand is an unsized expression that was not folded:
\* a unary expression, or one that has such an operand.
UnsizedIsUnfolded ==
    Made(LAMBDA n : n.type # "integer" /\ n.run = Unreachable => made = "unsized")

\* The compiler and the program refuse the same, and the compiler does not end
\* in UNREACHABLE() instead.
RefusalsAgree == SameFaults /\ UnsizedIsUnfolded
=============================================================================
