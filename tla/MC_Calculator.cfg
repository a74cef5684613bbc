\* The four CalculatorActor handlers on every pair of seven operands, with
\* overflow, zero divisors, infinities and NaN among them.
CONSTANTS
  MaxMag = 4
  Operands <- MCOperands

SPECIFICATION Spec
INVARIANTS TypeOK DivideContract
