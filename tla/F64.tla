-------------------------------- MODULE F64 --------------------------------
(***************************************************************************)
(* The f64 arithmetic the CalculatorActor handlers perform                 *)
(* (src/examples/intranet_common.rs), and the replies they build.          *)
(*                                                                         *)
(* A finite f64 is abstracted to the exact rational n/d (d > 0): rounding  *)
(* is not modelled, but overflow is: a result whose magnitude exceeds      *)
(* MaxMag becomes an infinity, as IEEE 754 overflow does.  Infinities and  *)
(* NaN follow IEEE 754.  The sign of zero is not kept: the only test the   *)
(* code makes on zero, `msg.b == 0.0`, holds for both zeros.               *)
(*                                                                         *)
(* Every value is a record [k, n, d] so that TLC can compare any two:      *)
(* k = "fin" (n/d), "inf" (n is the sign), "nan", or "none" (the None of   *)
(* the divide handler's Option<CalcResponse>).                             *)
(***************************************************************************)
EXTENDS Integers

CONSTANT MaxMag   \* the largest finite magnitude (f64::MAX in the code)

ASSUME MaxMagAssumption == MaxMag \in Nat \ {0}

Fin(n, d) == [k |-> "fin", n |-> n, d |-> d]
PosInf    == [k |-> "inf", n |-> 1, d |-> 1]
NegInf    == [k |-> "inf", n |-> -1, d |-> 1]
NaN       == [k |-> "nan", n |-> 0, d |-> 1]
None      == [k |-> "none", n |-> 0, d |-> 1]

IsFinite(x)   == x.k = "fin"
IsZero(x)     == IsFinite(x) /\ x.n = 0
\* f64::is_infinite and f64::is_nan
is_infinite(x) == x.k = "inf"
is_nan(x)      == x.k = "nan"

Sign(i) == IF i > 0 THEN 1 ELSE IF i < 0 THEN -1 ELSE 0
SignOf(x) == Sign(x.n)

(* The f64 nearest to n/d, d > 0: an infinity when it overflows. *)
Rounded(n, d) ==
  IF n > MaxMag * d THEN PosInf
  ELSE IF n < -(MaxMag * d) THEN NegInf
  ELSE Fin(n, d)

Inf(s) == IF s > 0 THEN PosInf ELSE NegInf

FNeg(x) == IF is_nan(x) THEN x ELSE [x EXCEPT !.n = -x.n]

(* x + y *)
FAdd(x, y) ==
  IF is_nan(x) \/ is_nan(y) THEN NaN
  ELSE IF is_infinite(x) /\ is_infinite(y) THEN (IF x.n = y.n THEN x ELSE NaN)
  ELSE IF is_infinite(x) THEN x
  ELSE IF is_infinite(y) THEN y
  ELSE Rounded(x.n * y.d + y.n * x.d, x.d * y.d)

(* x - y *)
FSub(x, y) == FAdd(x, FNeg(y))

(* x * y *)
FMul(x, y) ==
  IF is_nan(x) \/ is_nan(y) THEN NaN
  ELSE IF is_infinite(x) \/ is_infinite(y)
       THEN IF IsZero(x) \/ IsZero(y) THEN NaN ELSE Inf(SignOf(x) * SignOf(y))
  ELSE Rounded(x.n * y.n, x.d * y.d)

(* x / y, the zero divisor taken as +0.0 *)
FDiv(x, y) ==
  IF is_nan(x) \/ is_nan(y) THEN NaN
  ELSE IF is_infinite(x) /\ is_infinite(y) THEN NaN
  ELSE IF is_infinite(x) THEN Inf(SignOf(x) * (IF IsZero(y) THEN 1 ELSE SignOf(y)))
  ELSE IF is_infinite(y) THEN Fin(0, 1)
  ELSE IF IsZero(y) THEN (IF IsZero(x) THEN NaN ELSE Inf(SignOf(x)))
  ELSE Rounded(x.n * y.d * Sign(y.n), x.d * y.n * Sign(y.n))

(***************************************************************************)
(* The result a CalculatorActor handler replies with, for a request with   *)
(* operation op and operands a, b.  The textual expression and the server  *)
(* label of the reply tuple are left out: no property reads them.          *)
(***************************************************************************)
AddReply(a, b)      == FAdd(a, b)
SubtractReply(a, b) == FSub(a, b)
MultiplyReply(a, b) == FMul(a, b)

\* Validation variant: the divide handler without its check on the result.
DivideReplyNoFiniteCheck(a, b) == IF IsZero(b) THEN None ELSE FDiv(a, b)

(* Message<DivideRequest>::handle: None for a zero divisor, and None for a *)
(* quotient that is infinite or NaN.                                       *)
DivideReply(a, b) ==
  IF IsZero(b) THEN None
  ELSE LET result == FDiv(a, b)
       IN  IF is_infinite(result) \/ is_nan(result) THEN None ELSE result

Ops == {"add", "sub", "mul", "div"}

\* Validation variant: multiply dispatched to the divide handler.
CalcReplyMulAsDiv(op, a, b) ==
  CASE op = "add" -> AddReply(a, b)
    [] op = "sub" -> SubtractReply(a, b)
    [] op = "mul" -> DivideReply(a, b)
    [] op = "div" -> DivideReply(a, b)

CalcReply(op, a, b) ==
  CASE op = "add" -> AddReply(a, b)
    [] op = "sub" -> SubtractReply(a, b)
    [] op = "mul" -> MultiplyReply(a, b)
    [] op = "div" -> DivideReply(a, b)
=============================================================================
