----------------------------- MODULE PlanNumbers -----------------------------
(***************************************************************************)
(* The arithmetic of read plans: unsigned numbers of a fixed width, what   *)
(* the ten binary operators compute, and how an operator over operands     *)
(* that are already simplified is folded.                                  *)
(***************************************************************************)
EXTENDS Integers

CONSTANTS
  Modulus,               \* 2^128 in the code
  NumBits,               \* 128
  Pow2,                  \* Pow2[s]: 2^s, for the shifts of a number
  BitAnd, BitOr, BitXor, \* the operators on bits, as functions of two numbers,
                         \* one after the other
  Err                    \* the evaluation failed

Num == 0 .. Modulus - 1

(* What the folding relies on; the bits themselves do not matter to it.    *)
ASSUME ModulusAssumption ==
  /\ Modulus \in Nat /\ Modulus > 1 /\ NumBits \in Nat \ {0}
  /\ Pow2 \in [0 .. NumBits - 1 -> Nat \ {0}] /\ Pow2[0] = 1
ASSUME BitAssumption ==
  /\ {BitAnd, BitOr, BitXor} \subseteq [Num -> [Num -> Num]]
  /\ \A x \in Num :
       /\ BitAnd[x][0] = 0 /\ BitAnd[0][x] = 0
       /\ BitOr[x][0] = x /\ BitOr[0][x] = x
ASSUME ErrAssumption == Err \notin Num

BinaryOps == {"add", "sub", "mul", "div", "mod", "shr", "shl", "and", "or", "xor"}

(* eval_num on numbers: wrapping, failing on a zero divisor, and empty     *)
(* after a shift by the width or more.                                     *)
Apply(op, x, y) ==
  CASE op = "add" -> (x + y) % Modulus
    [] op = "sub" -> (x - y) % Modulus
    [] op = "mul" -> (x * y) % Modulus
    [] op = "div" -> IF y = 0 THEN Err ELSE x \div y
    [] op = "mod" -> IF y = 0 THEN Err ELSE x % y
    [] op = "shr" -> IF y >= NumBits THEN 0 ELSE x \div Pow2[y]
    [] op = "shl" -> IF y >= NumBits THEN 0 ELSE (x * Pow2[y]) % Modulus
    [] op = "and" -> BitAnd[x][y]
    [] op = "or"  -> BitOr[x][y]
    [] op = "xor" -> BitXor[x][y]

(* ... and with the failures of the operands.                              *)
Combine(op, x, y) == IF x = Err \/ y = Err THEN Err ELSE Apply(op, x, y)

Const(n)        == [k |-> "const", n |-> n]
Binary(op, a, b) == [k |-> op, a |-> a, b |-> b]
IsConst(e)      == e.k = "const"

----------------------------------------------------------------------------
(* simplify_num, for one operator.  The match arms of the code differ in   *)
(* their order from operator to operator; where two of them apply they     *)
(* yield the same expression.                                              *)

Zero == Const(0)
One  == Const(1)

Absorbed(op, a, b) ==
  \/ op \in {"mul", "and", "shr", "shl"} /\ a = Zero
  \/ op \in {"mul", "and"} /\ b = Zero

ZeroMinus(op, a) ==
  \/ op \in {"add", "sub", "or"} /\ a = Zero
  \/ op = "mul" /\ a = One

LeftUnit(op, a) ==
  \/ op \in {"add", "or"} /\ a = Zero
  \/ op = "mul" /\ a = One

RightUnit(op, b) ==
  \/ op \in {"add", "sub", "or", "shr", "shl"} /\ b = Zero
  \/ op = "mul" /\ b = One

Foldable(op, a, b) ==
  /\ IsConst(a) /\ IsConst(b)
  /\ op \in {"div", "mod"} => b.n # 0
  /\ op \in {"shr", "shl"} => b.n < NumBits

Fold(op, a, b) ==
  IF Absorbed(op, a, b) THEN Zero
  ELSE IF LeftUnit(op, a) THEN b
  ELSE IF RightUnit(op, b) THEN a
  ELSE IF Foldable(op, a, b) THEN Const(Apply(op, a.n, b.n))
  ELSE Binary(op, a, b)
=============================================================================
