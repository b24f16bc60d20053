------------------------------ MODULE SqlValues ------------------------------
(***************************************************************************)
(* The values a query computes with, shared by the engine's evaluator and  *)
(* by the reference evaluator of the golden tests.  An INT64 or a DATE is  *)
(* an integer, a FLOAT64 a normalised fraction or NaN, a BOOL a Boolean, a *)
(* STRING a sequence of character numbers.  Every column has one type, so  *)
(* values of two types are never compared.                                 *)
(*                                                                         *)
(* A float64 holds every integer up to MaxExact (2^53 in the code) and     *)
(* every second one beyond it: FloatOf rounds to nearest, ties to even, as *)
(* Go's conversion does up to 2 * MaxExact.  Fractions stay exact: no      *)
(* property is about the rounding of a quotient.                           *)
(***************************************************************************)
EXTENDS Integers, Sequences, FiniteSets

CONSTANTS Null, NaN,   \* SQL's NULL; the float64 that is not a number
          MaxExact     \* the last integer up to which float64 is exact

ASSUME MaxExactAssumption == MaxExact \in Nat /\ MaxExact % 4 = 0

Abs(n) == IF n < 0 THEN -n ELSE n

(* Go's integer division truncates toward zero; TLA+'s \div rounds down. *)
TruncDiv(a, b) ==
  LET q == Abs(a) \div Abs(b) IN IF (a < 0) = (b < 0) THEN q ELSE -q

Frac(n, d) ==
  LET a == IF d < 0 THEN -n ELSE n
      b == Abs(d)
      g == CHOOSE k \in 1..b : /\ a % k = 0 /\ b % k = 0
                               /\ \A j \in (k + 1)..b : a % j # 0 \/ b % j # 0
  IN <<a \div g, b \div g>>

FloatOf(n) ==
  IF Abs(n) <= MaxExact \/ n % 2 = 0 THEN <<n, 1>>
  ELSE <<CHOOSE m \in {n - 1, n + 1} : m % 4 = 0, 1>>

FloatLess(x, y)  == x # NaN /\ y # NaN /\ x[1] * y[2] < y[1] * x[2]
FloatEqual(x, y) == x # NaN /\ x = y

FloatAdd(x, y) == IF x = NaN \/ y = NaN THEN NaN
                  ELSE Frac(x[1] * y[2] + y[1] * x[2], x[2] * y[2])
FloatMul(x, y) == IF x = NaN \/ y = NaN THEN NaN ELSE Frac(x[1] * y[1], x[2] * y[2])
FloatDiv(x, y) == IF x = NaN \/ y = NaN THEN NaN ELSE Frac(x[1] * y[2], x[2] * y[1])
FloatNeg(x)    == IF x = NaN THEN NaN ELSE <<-x[1], x[2]>>

StringLess(s, t) ==
  \E i \in 1..Len(t) :
    /\ i <= Len(s) + 1
    /\ SubSeq(s, 1, i - 1) = SubSeq(t, 1, i - 1)
    /\ i > Len(s) \/ s[i] < t[i]

(* SQL's three truth values are TRUE, FALSE and Null. *)
And3(p, q) == IF p = FALSE \/ q = FALSE THEN FALSE
              ELSE IF p = Null \/ q = Null THEN Null ELSE TRUE
Or3(p, q)  == IF p = TRUE \/ q = TRUE THEN TRUE
              ELSE IF p = Null \/ q = Null THEN Null ELSE FALSE
Not3(p)    == IF p = Null THEN Null ELSE ~p

(* The two characters a LIKE pattern gives a meaning. *)
Percent    == 98
Underscore == 99
=============================================================================
