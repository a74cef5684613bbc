-------------------------- MODULE CalculatorProofs --------------------------
(***************************************************************************)
(* Proofs about the CalculatorActor handlers, for every bound MaxMag and   *)
(* every set of operands: the replies have their type, divide never lets   *)
(* a non-finite value through, and add, subtract and multiply are exact    *)
(* within range.                                                            *)
(***************************************************************************)
EXTENDS Calculator, TLAPS

USE MaxMagAssumption

(* A finite operand is the rational n/d with d > 0. *)
FinOp(x) == x = Fin(x.n, x.d) /\ x.n \in Int /\ x.d \in Nat \ {0}

LEMMA OperandCases ==
  ASSUME NEW x \in Operands
  PROVE  x \in {PosInf, NegInf, NaN} \/ FinOp(x)
  BY OperandsAssumption DEF FinOp

(* Rounding a rational in range keeps it; out of range gives an infinity. *)
LEMMA RoundedInRange ==
  ASSUME NEW n \in Int, NEW d \in Nat \ {0}
  PROVE  /\ ~OutOfRange(n, d) => Rounded(n, d) = Fin(n, d)
         /\ OutOfRange(n, d) => is_infinite(Rounded(n, d))
<1>1. Abs(d) = d /\ MaxMag * d \in Nat
  BY DEF Abs
<1>2. OutOfRange(n, d) <=> n > MaxMag * d \/ n < -(MaxMag * d)
  BY <1>1 DEF OutOfRange, Abs
<1>. QED
  BY <1>2 DEF Rounded, Fin, PosInf, NegInf, is_infinite
(* Divide of two finite operands, the divisor not zero: None when the     *)
(* exact quotient is out of range, the exact quotient otherwise.          *)
LEMMA DivideFinite ==
  ASSUME NEW a, NEW b, FinOp(a), FinOp(b), ~IsZero(b)
  PROVE  DivideOk(a, b, DivideReply(a, b))
<1> DEFINE N == a.n * b.d
           D == a.d * b.n
<1>1. N \in Int /\ D \in Int /\ b.n # 0 /\ IsFinite(a) /\ IsFinite(b)
  BY DEF FinOp, IsZero, IsFinite, Fin
<1>0. \A v : DivideOk(a, b, v) <=> IF OutOfRange(N, D) THEN v = None ELSE Denotes(v, N, D)
  BY <1>1 DEF DivideOk, FinOp, Fin, IsZero, IsFinite, is_infinite
<1>2. DivideReply(a, b) = LET r == FDiv(a, b)
                          IN  IF is_infinite(r) \/ is_nan(r) THEN None ELSE r
  BY DEF DivideReply
<1>3. FDiv(a, b) = Rounded(N * Sign(b.n), D * Sign(b.n))
  <2>1. ~is_nan(a) /\ ~is_nan(b) /\ ~is_infinite(a) /\ ~is_infinite(b) /\ ~IsZero(b)
    BY DEF FinOp, Fin, is_nan, is_infinite
  <2>2. a.n * b.d * Sign(b.n) = N * Sign(b.n) /\ a.d * b.n * Sign(b.n) = D * Sign(b.n)
    OBVIOUS
  <2>. QED
    BY <2>1, <2>2 DEF FDiv
<1>4. CASE b.n > 0
  <2>1. Sign(b.n) = 1 /\ D \in Nat \ {0}
    BY <1>4 DEF Sign, FinOp
  <2>2. FDiv(a, b) = Rounded(N, D)
    BY <1>1, <1>3, <2>1
  <2>3. CASE OutOfRange(N, D)
    <3>1. is_infinite(FDiv(a, b))
      BY <1>1, <2>1, <2>2, <2>3, RoundedInRange
    <3>. QED
      BY <1>0, <1>2, <2>3, <3>1
  <2>4. CASE ~OutOfRange(N, D)
    <3>1. FDiv(a, b) = Fin(N, D)
      BY <1>1, <2>1, <2>2, <2>4, RoundedInRange
    <3>2. DivideReply(a, b) = Fin(N, D)
      BY <1>2, <3>1 DEF Fin, is_infinite, is_nan
    <3>. QED
      BY <1>0, <1>1, <2>4, <3>2 DEF Denotes, Fin
  <2>. QED
    BY <2>3, <2>4
<1>5. CASE b.n < 0
  <2>1. Sign(b.n) = -1 /\ -D \in Nat \ {0}
    BY <1>5 DEF Sign, FinOp
  <2>2. FDiv(a, b) = Rounded(-N, -D)
    BY <1>1, <1>3, <2>1
  <2>3. -N \in Int /\ (OutOfRange(N, D) <=> OutOfRange(-N, -D))
    BY <1>1 DEF OutOfRange, Abs
  <2>4. CASE OutOfRange(N, D)
    <3>1. is_infinite(FDiv(a, b))
      BY <2>1, <2>2, <2>3, <2>4, RoundedInRange
    <3>. QED
      BY <1>0, <1>2, <2>4, <3>1
  <2>5. CASE ~OutOfRange(N, D)
    <3>1. FDiv(a, b) = Fin(-N, -D)
      BY <1>1, <2>1, <2>2, <2>3, <2>5, RoundedInRange
    <3>2. DivideReply(a, b) = Fin(-N, -D)
      BY <1>2, <3>1 DEF Fin, is_infinite, is_nan
    <3>3. (-N) * D = N * (-D)
      BY <1>1
    <3>. QED
      BY <1>0, <1>1, <2>5, <3>2, <3>3 DEF Denotes, Fin
  <2>. QED
    BY <2>4, <2>5
<1>. QED
  BY <1>1, <1>4, <1>5 DEF FinOp

(* Divide on every pair of operands meets the reference DivideOk. *)
LEMMA DivideAll ==
  ASSUME NEW a \in Operands, NEW b \in Operands
  PROVE  DivideOk(a, b, DivideReply(a, b))
<1>a. a \in {PosInf, NegInf, NaN} \/ FinOp(a)
  BY OperandCases
<1>b. b \in {PosInf, NegInf, NaN} \/ FinOp(b)
  BY OperandCases
<1>1. CASE FinOp(b) /\ IsZero(b)
  <2>1. DivideReply(a, b) = None
    BY <1>1 DEF DivideReply
  <2>. QED
    BY <1>1, <2>1 DEF DivideOk, FinOp, Fin, is_infinite
<1>2. CASE FinOp(b) /\ ~IsZero(b) /\ FinOp(a)
  BY <1>2, DivideFinite
<1>3. CASE FinOp(b) /\ ~IsZero(b) /\ a \in {PosInf, NegInf, NaN}
  <2>1. is_infinite(FDiv(a, b)) \/ is_nan(FDiv(a, b))
    BY <1>3 DEF FDiv, FinOp, Fin, PosInf, NegInf, NaN, is_nan, is_infinite, Inf
  <2>2. DivideReply(a, b) = None
    BY <1>3, <2>1 DEF DivideReply
  <2>. QED
    BY <1>3, <2>2 DEF DivideOk, IsFinite, IsZero, PosInf, NegInf, NaN, FinOp, Fin
<1>4. CASE b \in {PosInf, NegInf} /\ FinOp(a)
  <2>1. FDiv(a, b) = Fin(0, 1)
    BY <1>4 DEF FDiv, FinOp, Fin, PosInf, NegInf, is_nan, is_infinite
  <2>2. DivideReply(a, b) = Fin(0, 1)
    BY <1>4, <2>1 DEF DivideReply, IsZero, IsFinite, PosInf, NegInf, Fin, is_infinite, is_nan
  <2>. QED
    BY <1>4, <2>2 DEF DivideOk, Denotes, IsZero, IsFinite, is_infinite, PosInf, NegInf, FinOp, Fin
<1>5. CASE b \in {PosInf, NegInf} /\ a \in {PosInf, NegInf, NaN}
  <2>1. FDiv(a, b) = NaN
    BY <1>5 DEF FDiv, PosInf, NegInf, NaN, is_nan, is_infinite
  <2>2. DivideReply(a, b) = None
    BY <1>5, <2>1 DEF DivideReply, IsZero, IsFinite, PosInf, NegInf, NaN, is_nan
  <2>. QED
    BY <1>5, <2>2 DEF DivideOk, IsZero, IsFinite, PosInf, NegInf, NaN
<1>6. CASE b = NaN
  <2>1. FDiv(a, b) = NaN
    BY <1>6 DEF FDiv, NaN, is_nan
  <2>2. DivideReply(a, b) = None
    BY <1>6, <2>1 DEF DivideReply, IsZero, IsFinite, NaN, is_nan
  <2>. QED
    BY <1>6, <2>2 DEF DivideOk, IsZero, IsFinite, is_infinite, NaN
<1>. QED
  BY <1>a, <1>b, <1>1, <1>2, <1>3, <1>4, <1>5, <1>6

-----------------------------------------------------------------------------
(* The f64 values: an infinity, NaN, or a finite rational. *)
Num(x) == x \in {PosInf, NegInf, NaN} \/ FinOp(x)

Kinds == {"fin", "inf", "nan"}

LEMMA RoundedKind ==
  ASSUME NEW n, NEW d
  PROVE  Rounded(n, d).k \in {"fin", "inf"}
  BY DEF Rounded, Fin, PosInf, NegInf

LEMMA NegNum ==
  ASSUME NEW y, Num(y)
  PROVE  Num(FNeg(y))
<1>1. CASE FinOp(y)
  BY <1>1 DEF FNeg, FinOp, Fin, is_nan, Num
<1>2. CASE y \in {PosInf, NegInf, NaN}
  BY <1>2 DEF FNeg, PosInf, NegInf, NaN, is_nan, Num
<1>. QED
  BY <1>1, <1>2 DEF Num

LEMMA AddKind ==
  ASSUME NEW x, NEW y, Num(x), Num(y)
  PROVE  FAdd(x, y).k \in Kinds
  BY RoundedKind DEF FAdd, Num, FinOp, Fin, PosInf, NegInf, NaN, is_nan, is_infinite, Kinds

LEMMA MulKind ==
  ASSUME NEW x, NEW y
  PROVE  FMul(x, y).k \in Kinds
  BY RoundedKind DEF FMul, Inf, PosInf, NegInf, NaN, Kinds

LEMMA DivKind ==
  ASSUME NEW x, NEW y
  PROVE  FDiv(x, y).k \in Kinds
  BY RoundedKind DEF FDiv, Inf, PosInf, NegInf, NaN, Fin, Kinds

(* Each handler replies a value of its type: an f64 for add, subtract and *)
(* multiply, Some of a finite f64 or None for divide.                     *)
LEMMA ReplyKind ==
  ASSUME NEW op \in Ops, NEW a \in Operands, NEW b \in Operands
  PROVE  CalcReply(op, a, b).k \in IF op = "div" THEN {"fin", "none"} ELSE Kinds
<1>1. Num(a) /\ Num(b)
  BY OperandCases DEF Num
<1>2. CASE op = "add"
  BY <1>1, <1>2, AddKind DEF CalcReply, AddReply
<1>3. CASE op = "sub"
  BY <1>1, <1>3, AddKind, NegNum DEF CalcReply, SubtractReply, FSub
<1>4. CASE op = "mul"
  BY <1>4, MulKind DEF CalcReply, MultiplyReply
<1>5. CASE op = "div"
  <2>1. FDiv(a, b).k \in Kinds
    BY DivKind
  <2>. QED
    BY <1>5, <2>1 DEF CalcReply, DivideReply, None, is_infinite, is_nan, Kinds
<1>. QED
  BY <1>2, <1>3, <1>4, <1>5 DEF Ops

-----------------------------------------------------------------------------
CalcInv == TypeOK /\ DivideContract

(* A finite operand is a rational. *)
LEMMA FiniteOperand ==
  ASSUME NEW x \in Operands, IsFinite(x)
  PROVE  FinOp(x)
  BY OperandCases DEF IsFinite, PosInf, NegInf, NaN

LEMMA InitCalcInv == Init => CalcInv
  BY DEF Init, CalcInv, TypeOK, DivideContract, NoRequest

(* Handling one request establishes both facts for its reply. *)
LEMMA HandleCalcInv == Handle => CalcInv'
<1> SUFFICES ASSUME NEW op \in Ops, NEW a \in Operands, NEW b \in Operands,
                    last' = [op |-> op, a |-> a, b |-> b, val |-> CalcReply(op, a, b)]
             PROVE  CalcInv'
  BY DEF Handle
<1>1. TypeOK'
  BY ReplyKind DEF TypeOK, Kinds
<1>2. DivideContract'
  <2>1. op = "div" => CalcReply(op, a, b) = DivideReply(a, b)
    BY DEF CalcReply
  <2>. QED
    BY <2>1, DivideAll DEF DivideContract
<1>. QED
  BY <1>1, <1>2 DEF CalcInv

LEMMA CalcInvariant == Spec => []CalcInv
<1>1. CalcInv /\ UNCHANGED last => CalcInv'
  BY DEF CalcInv, TypeOK, DivideContract
<1>. QED
  BY <1>1, InitCalcInv, HandleCalcInv, PTL DEF Spec

(* Every reply of the CalculatorActor handlers has its type: an f64 for   *)
(* add, subtract and multiply, a finite f64 or None for divide.           *)
THEOREM CalcTypeCorrect == Spec => []TypeOK
  BY CalcInvariant, PTL DEF CalcInv

(* Message<DivideRequest>::handle never lets an infinity or NaN reach the *)
(* caller and otherwise replies the exact quotient, for every MaxMag and  *)
(* every set of operands.                                                 *)
THEOREM DivideSafe == Spec => []DivideContract
  BY CalcInvariant, PTL DEF CalcInv

=============================================================================
