--------------------------- MODULE MC_Calculator ---------------------------
(* The operands of the calculator run: zero, a fraction, a negative, the    *)
(* largest finite magnitude, both infinities and NaN.  With MaxMag = 4,     *)
(* 4 + 4, 4 * -3 and 4 / (1/2) overflow.                                   *)
EXTENDS Calculator

MCOperands == {Fin(0, 1), Fin(1, 2), Fin(-3, 1), Fin(4, 1), PosInf, NegInf, NaN}
=============================================================================
