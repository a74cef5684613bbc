----------------------------- MODULE Calculator -----------------------------
(***************************************************************************)
(* The CalculatorActor of src/examples/intranet_common.rs on its own: one   *)
(* request at a time (the actor's mailbox serialises them), any of the     *)
(* four operations, any operands of a small set that holds zero, a         *)
(* fraction, a negative, the largest finite magnitude, the infinities and  *)
(* NaN.  request_count is left out: it is only logged.                     *)
(*                                                                         *)
(* The replies are checked against reference definitions of what spec 8    *)
(* asks of them, written with exact rational arithmetic and independent of *)
(* the handlers' code.                                                     *)
(***************************************************************************)
EXTENDS Integers, F64

CONSTANT Operands   \* the f64 operands a request may carry

ASSUME OperandsAssumption ==
  \A x \in Operands :
    \/ x \in {PosInf, NegInf, NaN}
    \/ x = Fin(x.n, x.d) /\ x.n \in Int /\ x.d \in Nat \ {0}

VARIABLE last   \* the latest request handled, with the reply it got

NoRequest == [op |-> "none", a |-> None, b |-> None, val |-> None]

(* The reply of a handler: an f64 for add, subtract and multiply, an       *)
(* Option<CalcResponse> for divide.                                        *)
TypeOK ==
  \/ last = NoRequest
  \/ /\ last.op \in Ops
     /\ last.a \in Operands /\ last.b \in Operands
     /\ last.val.k \in IF last.op = "div" THEN {"fin", "none"}
                                           ELSE {"fin", "inf", "nan"}

Init == last = NoRequest

(* The actor takes the next request from its mailbox and replies.          *)
Handle ==
  \E op \in Ops, a \in Operands, b \in Operands :
    last' = [op |-> op, a |-> a, b |-> b, val |-> CalcReply(op, a, b)]

Spec == Init /\ [][Handle]_last

-----------------------------------------------------------------------------
(***************************************************************************)
(* Reference definitions                                                   *)
(***************************************************************************)

Abs(i) == IF i < 0 THEN -i ELSE i

(* The exact rational n/d (d # 0) is beyond f64's range.                   *)
OutOfRange(n, d) == Abs(n) > MaxMag * Abs(d)

(* v is the finite value n/d.                                              *)
Denotes(v, n, d) == v.k = "fin" /\ v.n * d = n * v.d

(* Spec 8 on divide: the exact quotient of two finite operands when it is  *)
(* finite; the explicit empty result for a zero divisor and for every      *)
(* quotient that is not finite (overflow, infinite or NaN operands), but 0 *)
(* for a finite number divided by an infinity.                             *)
DivideOk(a, b, v) ==
  CASE IsZero(b)                   -> v = None
    [] IsFinite(a) /\ IsFinite(b) /\ ~IsZero(b)
                                   -> IF OutOfRange(a.n * b.d, a.d * b.n)
                                      THEN v = None
                                      ELSE Denotes(v, a.n * b.d, a.d * b.n)
    [] IsFinite(a) /\ is_infinite(b) -> Denotes(v, 0, 1)
    [] OTHER                       -> v = None

-----------------------------------------------------------------------------
(* The divide handler (Message<DivideRequest>::handle) replies None for a   *)
(* zero divisor and for a quotient that is infinite or NaN, and the exact   *)
(* quotient otherwise: no NaN or infinity ever reaches the caller.          *)
DivideContract ==
  last.op = "div" => DivideOk(last.a, last.b, last.val)

=============================================================================
