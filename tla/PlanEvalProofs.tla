---------------------------- MODULE PlanEvalProofs ----------------------------
(***************************************************************************)
(* What read plans evaluate to, and that the extractor may rewrite them:   *)
(* for all plans, however deep, all worlds and all widths of numbers.      *)
(*                                                                         *)
(* The plans are the layers of expressions over expressions, and a claim   *)
(* about all of them follows from one step of the evaluator or simplifier  *)
(* (PlansLeast); the folds over the parts of an expression go through the  *)
(* numbers from 0 to their length (Upward).  tlapm instantiates no operator *)
(* parameter, so each of the folds of PlanEval has a lemma of its own.     *)
(***************************************************************************)
EXTENDS PlanEval, SequenceTheorems, WellFoundedInduction, TLAPS

(* The numbers of plans. *)

LEMMA Remainder == ASSUME NEW n \in Int PROVE n % Modulus \in Num
  BY ModulusAssumption DEF Num

LEMMA Quotient == ASSUME NEW x \in Num, NEW d \in Nat \ {0} PROVE x \div d \in Num
<1>1. x \div d \in Nat /\ x \div d <= x
  BY ModulusAssumption DEF Num
<1> QED
  BY <1>1, ModulusAssumption DEF Num

LEMMA PowerType == ASSUME NEW y \in Num, y < NumBits PROVE Pow2[y] \in Nat \ {0}
  BY ModulusAssumption DEF Num

(* Operators on numbers yield a number, or fail.                           *)
LEMMA ApplyType ==
  ASSUME NEW op \in BinaryOps, NEW x \in Num, NEW y \in Num
  PROVE  Apply(op, x, y) \in Num \cup {Err}
<1>0. x \in Nat /\ y \in Nat /\ 0 \in Num
  BY ModulusAssumption DEF Num
<1>1. CASE op \in {"add", "sub", "mul"}
  <2>1. x + y \in Int /\ x - y \in Int /\ x * y \in Int
    BY <1>0
  <2> QED BY <1>1, <2>1, Remainder DEF Apply
<1>2. CASE op = "div" 
  <2>1. y # 0 => x \div y \in Num
    BY <1>0, Quotient
  <2> QED BY <1>2, <2>1 DEF Apply
<1>3. CASE op = "mod"
  <2>1. y # 0 => x % y \in Num
    BY <1>0, ModulusAssumption DEF Num
  <2> QED BY <1>3, <2>1 DEF Apply
<1>4. CASE op = "shr"
  <2>1. y < NumBits => x \div Pow2[y] \in Num
    BY PowerType, Quotient
  <2> QED BY <1>0, <1>4, <2>1, ModulusAssumption DEF Apply
<1>5. CASE op = "shl"
  <2>1. y < NumBits => x * Pow2[y] \in Int
    BY <1>0, PowerType
  <2> QED BY <1>0, <1>5, <2>1, Remainder, ModulusAssumption DEF Apply
<1>6. CASE op \in {"and", "or", "xor"}
  BY <1>6, BitAssumption DEF Apply
<1> QED
  BY <1>1, <1>2, <1>3, <1>4, <1>5, <1>6 DEF BinaryOps

----------------------------------------------------------------------------
(* v is a way to evaluate expressions that agrees with eval_num on         *)
(* constants and on this application of op.                                *)
Evaluates(v, op, a, b) ==
  /\ \A e \in {a, b} :
       /\ v[e] \in Num \cup {Err}
       /\ IsConst(e) => e.n \in Num /\ e = Const(e.n)
  /\ \A n \in Num : v[Const(n)] = n
  /\ v[Binary(op, a, b)] = Combine(op, v[a], v[b])

(* Zeros and ones that absorb, or leave the other operand.                 *)
LEMMA Absorbing ==
  ASSUME NEW x \in Num
  PROVE  /\ Apply("mul", 0, x) = 0 /\ Apply("mul", x, 0) = 0
         /\ Apply("and", 0, x) = 0 /\ Apply("and", x, 0) = 0
         /\ Apply("shr", 0, x) = 0 /\ Apply("shl", 0, x) = 0
<1>0. x \in Nat /\ 0 \in Num /\ 0 % Modulus = 0
  BY ModulusAssumption DEF Num
<1>1. Apply("mul", 0, x) = 0 /\ Apply("mul", x, 0) = 0
  <2>1. 0 * x = 0 /\ x * 0 = 0
    BY <1>0
  <2> QED BY <1>0, <2>1 DEF Apply
<1>2. Apply("and", 0, x) = 0 /\ Apply("and", x, 0) = 0
  BY BitAssumption DEF Apply
<1>3. Apply("shr", 0, x) = 0
  <2>1. x < NumBits => 0 \div Pow2[x] = 0
    BY PowerType
  <2> QED BY <1>0, <2>1, ModulusAssumption DEF Apply
<1>4. Apply("shl", 0, x) = 0
  <2>1. x < NumBits => 0 * Pow2[x] = 0
    BY PowerType
  <2> QED BY <1>0, <2>1, ModulusAssumption DEF Apply
<1> QED BY <1>1, <1>2, <1>3, <1>4

LEMMA Neutral ==
  ASSUME NEW x \in Num
  PROVE  /\ Apply("add", 0, x) = x /\ Apply("add", x, 0) = x
         /\ Apply("sub", x, 0) = x
         /\ Apply("or", 0, x) = x /\ Apply("or", x, 0) = x
         /\ Apply("mul", 1, x) = x /\ Apply("mul", x, 1) = x
         /\ Apply("shr", x, 0) = x /\ Apply("shl", x, 0) = x
<1>0. x \in Nat /\ 0 < NumBits /\ x % Modulus = x
  BY ModulusAssumption DEF Num
<1>1. 0 + x = x /\ x + 0 = x /\ x - 0 = x /\ 1 * x = x /\ x * 1 = x
  BY <1>0
<1>2. x \div Pow2[0] = x /\ x * Pow2[0] = x
  BY <1>0, ModulusAssumption
<1>3. /\ Apply("add", 0, x) = x /\ Apply("add", x, 0) = x
      /\ Apply("sub", x, 0) = x
      /\ Apply("mul", 1, x) = x /\ Apply("mul", x, 1) = x
  BY <1>0, <1>1 DEF Apply
<1>4. Apply("or", 0, x) = x /\ Apply("or", x, 0) = x
  BY BitAssumption DEF Apply
<1>5. Apply("shr", x, 0) = x /\ Apply("shl", x, 0) = x
  BY <1>0, <1>2, ModulusAssumption DEF Apply
<1> QED BY <1>3, <1>4, <1>5

(* One step of simplify_num keeps the value: where the operator applied to *)
(* the simplified operands has a value, so has the folded expression, and  *)
(* the same one, whatever the operands are and however wide numbers are.   *)
THEOREM FoldKeepsValue ==
  ASSUME NEW op \in BinaryOps, NEW a, NEW b, NEW v, Evaluates(v, op, a, b),
         Combine(op, v[a], v[b]) # Err
  PROVE  v[Fold(op, a, b)] = Combine(op, v[a], v[b])
<1>1. v[a] \in Num /\ v[b] \in Num
  BY DEF Evaluates, Combine
<1>2. Combine(op, v[a], v[b]) = Apply(op, v[a], v[b])
  BY <1>1, ErrAssumption DEF Combine
<1>3. 0 \in Num /\ 1 \in Num
  BY ModulusAssumption DEF Num
<1>4. v[Zero] = 0 /\ v[One] = 1
  BY <1>3 DEF Evaluates, Zero, One
<1>5. CASE Absorbed(op, a, b)
  <2>1. Apply(op, v[a], v[b]) = 0
    BY <1>1, <1>4, <1>5, Absorbing DEF Absorbed
  <2> QED BY <1>2, <1>4, <1>5, <2>1 DEF Fold
<1>6. CASE ~Absorbed(op, a, b) /\ LeftUnit(op, a)
  <2>1. Apply(op, v[a], v[b]) = v[b]
    BY <1>1, <1>4, <1>6, Neutral DEF LeftUnit
  <2> QED BY <1>2, <1>6, <2>1 DEF Fold
<1>7. CASE ~Absorbed(op, a, b) /\ ~LeftUnit(op, a) /\ RightUnit(op, b)
  <2>1. Apply(op, v[a], v[b]) = v[a]
    BY <1>1, <1>4, <1>7, Neutral DEF RightUnit
  <2> QED BY <1>2, <1>7, <2>1 DEF Fold
<1>8. CASE /\ ~Absorbed(op, a, b) /\ ~LeftUnit(op, a) /\ ~RightUnit(op, b)
           /\ Foldable(op, a, b)
  <2>1. v[a] = a.n /\ v[b] = b.n
    BY <1>8 DEF Foldable, Evaluates
  <2>2. Apply(op, v[a], v[b]) \in Num
    BY <1>1, <1>2, ApplyType
  <2>3. v[Const(Apply(op, v[a], v[b]))] = Apply(op, v[a], v[b])
    BY <2>2 DEF Evaluates
  <2> QED BY <1>2, <1>8, <2>1, <2>3 DEF Fold
<1>9. CASE /\ ~Absorbed(op, a, b) /\ ~LeftUnit(op, a) /\ ~RightUnit(op, b)
           /\ ~Foldable(op, a, b)
  BY <1>9 DEF Fold, Evaluates
<1> QED BY <1>5, <1>6, <1>7, <1>8, <1>9

----------------------------------------------------------------------------
(* Induction over natural numbers, and numbers and their bytes. *)

LEMMA Smallest ==
  ASSUME NEW T \in SUBSET Nat, T # {}
  PROVE  \E x \in T : \A y \in T : x <= y
<1>1. PICK R : R = {ss \in Nat \X Nat : ss[1] < ss[2]}
  OBVIOUS
<1>2. IsWellFoundedOn(R, Nat)
  BY <1>1, NatLessThanWellFounded DEF OpToRel
<1>3. PICK x \in T : \A y \in T : ~(<<y, x>> \in R)
  BY <1>2, WFMin
<1>4. \A y \in T : ~(y < x)
  BY <1>1, <1>3
<1> QED BY <1>4

LEMMA Upward ==
  ASSUME NEW m \in Nat, NEW n \in Nat, NEW T, m \in T,
         \A i \in m .. n : m < i /\ i - 1 \in T => i \in T
  PROVE  \A i \in m .. n : i \in T
<1>1. SUFFICES ASSUME NEW i \in m .. n, i \notin T  PROVE FALSE
  OBVIOUS
<1>2. PICK Gaps : Gaps = {j \in m .. n : j \notin T}
  OBVIOUS
<1>3. Gaps \in SUBSET Nat /\ Gaps # {}
  BY <1>1, <1>2
<1>4. PICK x \in Gaps : \A y \in Gaps : x <= y
  BY <1>3, Smallest
<1>5. x \in m .. n /\ m < x /\ x \notin T
  BY <1>2, <1>4
<1>6. x - 1 \in m .. n /\ ~(x <= x - 1)
  BY <1>5
<1>7. x - 1 \in T
  BY <1>2, <1>4, <1>6
<1> QED BY <1>5, <1>7

LEMMA BaseType == Base \in Nat \ {0}
BY BaseAssumption

(* A sequence of integers that starts with s0 and grows by a factor and an *)
(* addend per number.                                                      *)
Grows(f, n, s0, factor, addend) ==
  /\ f \in [0 .. n -> Int] /\ f[0] = s0
  /\ \A i \in 1 .. n : f[i] = f[i - 1] * factor + addend[i]

LEMMA Growth ==
  ASSUME NEW n \in Nat, NEW s0 \in Int, NEW factor \in Int, NEW addend \in [1 .. n -> Int]
  PROVE  \E f : Grows(f, n, s0, factor, addend)
<1>1. PICK T : T = {m \in 0 .. n : \E f : Grows(f, m, s0, factor, addend)}
  OBVIOUS
<1>2. 0 \in T
  <2>1. PICK f : f = [i \in 0 .. 0 |-> s0]
    OBVIOUS
  <2>2. f \in [0 .. 0 -> Int] /\ f[0] = s0
    BY <2>1
  <2> QED BY <1>1, <2>2 DEF Grows
<1>3. ASSUME NEW m \in 0 .. n, 0 < m, m - 1 \in T  PROVE m \in T
  <2>1. PICK f : /\ f \in [0 .. m - 1 -> Int] /\ f[0] = s0
                 /\ \A i \in 1 .. m - 1 : f[i] = f[i - 1] * factor + addend[i]
    BY <1>1, <1>3 DEF Grows
  <2> m \in 1 .. n /\ m - 1 \in 0 .. n
    BY <1>3
  <2>2. PICK x \in Int : x = f[m - 1] * factor + addend[m]
    <3>1. f[m - 1] \in Int /\ addend[m] \in Int
      BY <2>1
    <3> QED BY <3>1
  <2>3. PICK g : g = [i \in 0 .. m |-> IF i = m THEN x ELSE f[i]]
    OBVIOUS
  <2>4. g \in [0 .. m -> Int] /\ g[0] = s0
    BY <2>1, <2>3
  <2>5. ASSUME NEW i \in 1 .. m  PROVE g[i] = g[i - 1] * factor + addend[i]
    <3>1. i - 1 \in 0 .. m - 1 /\ i - 1 # m
      OBVIOUS
    <3>2. g[i - 1] = f[i - 1]
      BY <2>3, <3>1
    <3>3. CASE i = m
      BY <2>2, <2>3, <3>2, <3>3
    <3>4. CASE i # m
      <4>1. i \in 1 .. m - 1
        BY <3>4
      <4>2. g[i] = f[i]
        BY <2>3, <3>4
      <4> QED BY <2>1, <3>2, <4>1, <4>2
    <3> QED BY <3>3, <3>4
  <2>6. Grows(g, m, s0, factor, addend)
    BY <2>4, <2>5 DEF Grows
  <2> QED BY <1>1, <2>6
<1>4. \A m \in 0 .. n : m \in T
  BY <1>2, <1>3, Upward
<1> QED BY <1>1, <1>4

(* Two that grow alike are alike, as far as both go.                       *)
Powers(n) == CHOOSE f : f = [i \in 0 .. n |-> IF i = 0 THEN 1 ELSE f[i - 1] * Base]

LEMMA PowersUnfold ==
  ASSUME NEW n \in Nat
  PROVE  /\ Powers(n) \in [0 .. n -> Nat \ {0}] /\ Powers(n)[0] = 1
         /\ \A i \in 1 .. n : Powers(n)[i] = Powers(n)[i - 1] * Base
         /\ Power(n) = Powers(n)[n]
<1>1. PICK addend : addend = [i \in 1 .. n |-> 0]
  OBVIOUS
<1>2. addend \in [1 .. n -> Int]
  BY <1>1
<1>3. PICK f : Grows(f, n, 1, Base, addend)
  BY <1>2, Growth, BaseType
<1>4. ASSUME NEW i \in 1 .. n  PROVE f[i] = f[i - 1] * Base
  <2>1. i - 1 \in 0 .. n
    OBVIOUS
  <2>2. f[i - 1] \in Int /\ f[i] = f[i - 1] * Base + 0
    BY <1>1, <1>3, <2>1 DEF Grows
  <2> QED BY <2>2, BaseType
<1>5. f = [i \in 0 .. n |-> IF i = 0 THEN 1 ELSE f[i - 1] * Base]
  <2>1. \A i \in 0 .. n : i # 0 => i \in 1 .. n
    OBVIOUS
  <2> QED BY <1>3, <1>4, <2>1 DEF Grows
<1>6. PICK g : g = Powers(n)
  OBVIOUS
<1>7. g = [i \in 0 .. n |-> IF i = 0 THEN 1 ELSE g[i - 1] * Base]
  BY <1>5, <1>6 DEF Powers
<1>8. g[0] = 1
  BY <1>7
<1>9. ASSUME NEW i \in 1 .. n  PROVE g[i] = g[i - 1] * Base
  <2>1. i \in 0 .. n /\ i # 0
    OBVIOUS
  <2> QED BY <1>7, <2>1
<1>10. PICK T : T = {i \in 0 .. n : g[i] \in Nat \ {0}}
  OBVIOUS
<1>11. ASSUME NEW i \in 0 .. n, 0 < i, i - 1 \in T  PROVE i \in T
  <2>1. i \in 1 .. n /\ g[i - 1] \in Nat \ {0}
    BY <1>10, <1>11
  <2>2. g[i] = g[i - 1] * Base
    BY <1>9, <2>1
  <2>3. g[i] \in Nat \ {0}
    BY <2>1, <2>2, BaseType
  <2> QED BY <1>10, <2>3
<1>12. 0 \in T
  BY <1>8, <1>10
<1>13. \A i \in 0 .. n : i \in T
  BY <1>11, <1>12, Upward
<1>14. g \in [0 .. n -> Nat \ {0}]
  BY <1>7, <1>10, <1>13
<1>15. Power(n) = g[n]
  BY <1>6 DEF Power, Powers
<1> QED BY <1>6, <1>8, <1>9, <1>14, <1>15

LEMMA PowerLaws ==
  /\ Power(0) = 1
  /\ \A n \in Nat : Power(n) \in Nat \ {0}
  /\ \A n \in Nat \ {0} : Power(n) = Power(n - 1) * Base
<1>1. Power(0) = 1
  BY PowersUnfold
<1>2. ASSUME NEW n \in Nat  PROVE Power(n) \in Nat \ {0}
  <2>1. n \in 0 .. n
    OBVIOUS
  <2> QED BY <2>1, PowersUnfold
<1>3. ASSUME NEW n \in Nat \ {0}  PROVE Power(n) = Power(n - 1) * Base
  <2>1. PICK m \in Nat : m = n - 1
    OBVIOUS
  <2>2. PICK f, g : f = Powers(m) /\ g = Powers(n)
    OBVIOUS
  <2>3. /\ f[0] = 1 /\ \A i \in 1 .. m : f[i] = f[i - 1] * Base
        /\ g[0] = 1 /\ \A i \in 1 .. n : g[i] = g[i - 1] * Base
        /\ Power(m) = f[m] /\ Power(n) = g[n]
    BY <2>2, PowersUnfold
  <2>4. PICK T : T = {i \in 0 .. m : f[i] = g[i]}
    OBVIOUS
  <2>5. 0 \in T
    BY <2>3, <2>4
  <2>6. ASSUME NEW i \in 0 .. m, 0 < i, i - 1 \in T  PROVE i \in T
    <3>1. i \in 1 .. m /\ i \in 1 .. n
      BY <2>1, <2>6
    <3> QED BY <2>3, <2>4, <2>6, <3>1
  <2>7. \A i \in 0 .. m : i \in T
    BY <2>5, <2>6, Upward
  <2>8. f[m] = g[m]
    BY <2>4, <2>7
  <2>9. n \in 1 .. n
    OBVIOUS
  <2> QED BY <2>1, <2>3, <2>8, <2>9
<1> QED BY <1>1, <1>2, <1>3

(* The numbers that the first bytes of a sequence stand for.               *)
Sums(bytes) ==
  CHOOSE f : f = [i \in 0 .. Len(bytes) |->
                    IF i = 0 THEN 0 ELSE f[i - 1] + bytes[i] * Power(i - 1)]

LEMMA SumsUnfold ==
  ASSUME NEW bytes \in Seq(Byte)
  PROVE  /\ FromLe(bytes) = Sums(bytes)[Len(bytes)]
         /\ Sums(bytes) \in [0 .. Len(bytes) -> Int] /\ Sums(bytes)[0] = 0
         /\ \A i \in 1 .. Len(bytes) :
              Sums(bytes)[i] = Sums(bytes)[i - 1] + bytes[i] * Power(i - 1)
<1>1. PICK n \in Nat : n = Len(bytes)
  OBVIOUS
<1>2. PICK addend : addend = [i \in 1 .. n |-> bytes[i] * Power(i - 1)]
  OBVIOUS
<1>3. addend \in [1 .. n -> Int]
  <2>1. ASSUME NEW i \in 1 .. n  PROVE bytes[i] * Power(i - 1) \in Int
    <3>1. bytes[i] \in Byte /\ i - 1 \in Nat
      BY <1>1, <2>1
    <3>2. bytes[i] \in Int
      BY <3>1, BaseType DEF Byte
    <3>3. Power(i - 1) \in Int
      BY <3>1, PowerLaws
    <3> QED BY <3>2, <3>3
  <2> QED BY <1>2, <2>1
<1>4. PICK f : Grows(f, n, 0, 1, addend)
  BY <1>3, Growth
<1>5. ASSUME NEW i \in 1 .. n  PROVE f[i] = f[i - 1] + bytes[i] * Power(i - 1)
  <2>1. i - 1 \in 0 .. n
    OBVIOUS
  <2>2. f[i - 1] \in Int /\ f[i] = f[i - 1] * 1 + addend[i]
    BY <1>4, <2>1 DEF Grows
  <2> QED BY <1>2, <2>2
<1>6. f = [i \in 0 .. n |-> IF i = 0 THEN 0 ELSE f[i - 1] + bytes[i] * Power(i - 1)]
  <2>1. \A i \in 0 .. n : i # 0 => i \in 1 .. n
    OBVIOUS
  <2> QED BY <1>4, <1>5, <2>1 DEF Grows
<1>7. PICK g : g = Sums(bytes)
  OBVIOUS
<1>8. g = [i \in 0 .. n |-> IF i = 0 THEN 0 ELSE g[i - 1] + bytes[i] * Power(i - 1)]
  BY <1>1, <1>6, <1>7 DEF Sums
<1>9. g[0] = 0
  BY <1>8
<1>10. ASSUME NEW i \in 1 .. n  PROVE g[i] = g[i - 1] + bytes[i] * Power(i - 1)
  <2>1. i \in 0 .. n /\ i # 0
    OBVIOUS
  <2> QED BY <1>8, <2>1
<1>11. PICK T : T = {i \in 0 .. n : g[i] \in Int}
  OBVIOUS
<1>12. ASSUME NEW i \in 0 .. n, 0 < i, i - 1 \in T  PROVE i \in T
  <2>1. i \in 1 .. n /\ g[i - 1] \in Int
    BY <1>11, <1>12
  <2>2. bytes[i] * Power(i - 1) \in Int
    BY <1>2, <1>3, <2>1
  <2> QED BY <1>10, <1>11, <2>1, <2>2
<1>13. 0 \in T
  BY <1>9, <1>11
<1>14. \A i \in 0 .. n : i \in T
  BY <1>12, <1>13, Upward
<1>15. g \in [0 .. n -> Int]
  BY <1>8, <1>11, <1>14
<1>16. FromLe(bytes) = g[Len(bytes)]
  BY <1>7 DEF FromLe, Sums
<1> QED BY <1>1, <1>7, <1>9, <1>10, <1>15, <1>16

LEMMA LeType ==
  ASSUME NEW c \in Int, NEW n \in Nat
  PROVE  /\ LeBytes(c, n) \in Seq(Byte) /\ Len(LeBytes(c, n)) = n
         /\ \A i \in 1 .. n : LeBytes(c, n)[i] = (c \div Power(i - 1)) % Base
<1>1. ASSUME NEW i \in 1 .. n  PROVE (c \div Power(i - 1)) % Base \in Byte
  <2>1. Power(i - 1) \in Nat \ {0}
    BY PowerLaws
  <2>2. c \div Power(i - 1) \in Int
    BY <2>1
  <2> QED BY <2>2, BaseType DEF Byte
<1>2. LeBytes(c, n) \in [1 .. n -> Byte]
  BY <1>1 DEF LeBytes
<1> QED BY <1>2 DEF LeBytes

(* The number of n bytes is one of as many as n bytes tell apart.          *)
LEMMA FromLeBounded ==
  ASSUME NEW d \in Seq(Byte)
  PROVE  FromLe(d) \in 0 .. Power(Len(d)) - 1
<1>0. PICK n \in Nat : n = Len(d)
  OBVIOUS
<1>1. PICK f : n = Len(d) /\ f = Sums(d)
  BY <1>0
<1>2. /\ FromLe(d) = f[n] /\ f[0] = 0
      /\ \A i \in 1 .. n : f[i] = f[i - 1] + d[i] * Power(i - 1)
  BY <1>1, SumsUnfold
<1>3. PICK T : T = {i \in 0 .. n : f[i] \in 0 .. Power(i) - 1}
  OBVIOUS
<1>4. 0 \in T
  BY <1>2, <1>3, PowerLaws
<1>5. ASSUME NEW i \in 0 .. n, 0 < i, i - 1 \in T  PROVE i \in T
  <2>1. PICK M \in Nat \ {0} : M = Power(i - 1)
    BY <1>5, PowerLaws
  <2>2. Power(i) = M * Base
    BY <1>5, <2>1, PowerLaws
  <2>3. f[i - 1] \in 0 .. M - 1
    BY <1>3, <1>5, <2>1
  <2>4. d[i] \in Byte
    BY <1>1, <1>5
  <2>5. PICK x \in 0 .. Base - 1 : x = d[i]
    BY <2>4 DEF Byte
  <2>6. f[i] = f[i - 1] + x * M
    BY <1>2, <1>5, <2>1, <2>5
  <2>7. x * M \in 0 .. (Base - 1) * M
    BY <2>5, BaseType
  <2>8. f[i] \in 0 .. M * Base - 1
    BY <2>3, <2>6, <2>7, BaseType
  <2> QED BY <1>3, <2>2, <2>8
<1>6. \A i \in 0 .. n : i \in T
  BY <1>4, <1>5, Upward
<1> QED BY <1>1, <1>2, <1>3, <1>6

LEMMA PowersGrow ==
  ASSUME NEW m \in Nat, NEW n \in Nat, m <= n
  PROVE  Power(m) <= Power(n)
<1>1. PICK T : T = {i \in m .. n : Power(m) <= Power(i)}
  OBVIOUS
<1>2. m \in T
  BY <1>1, PowerLaws
<1>3. ASSUME NEW i \in m .. n, m < i, i - 1 \in T  PROVE i \in T
  <2>1. PICK M \in Nat \ {0} : M = Power(i - 1)
    BY <1>3, PowerLaws
  <2>2. Power(i) = M * Base
    BY <1>3, <2>1, PowerLaws
  <2>4. M <= M * Base
    BY BaseAssumption
  <2>3. Power(m) \in Nat /\ M * Base \in Nat
    BY <2>1, PowerLaws, BaseType
  <2> QED BY <1>1, <1>3, <2>1, <2>2, <2>3, <2>4
<1>4. \A i \in m .. n : i \in T
  BY <1>2, <1>3, Upward
<1> QED BY <1>1, <1>4

(* However long a byte string, its number is one of the plan's.            *)
LEMMA NumOfType ==
  ASSUME NEW d \in Seq(Byte)
  PROVE  NumOf(d) \in Num
<1>1. PICK b : b = IF Len(d) > PlanLen THEN SubSeq(d, 1, PlanLen) ELSE d
  OBVIOUS
<1>2. b \in Seq(Byte) /\ Len(b) <= PlanLen
  <2>1. CASE Len(d) > PlanLen
    BY <1>1, <2>1, BaseAssumption
  <2>2. CASE ~(Len(d) > PlanLen)
    BY <1>1, <2>2, BaseAssumption
  <2> QED BY <2>1, <2>2
<1>3. FromLe(b) \in 0 .. Power(Len(b)) - 1
  BY <1>2, FromLeBounded
<1>4. Power(Len(b)) <= Modulus /\ Power(Len(b)) \in Nat \ {0}
  BY <1>2, BaseAssumption, FilledAssumption, PowersGrow, PowerLaws
<1>5. NumOf(d) = FromLe(b)
  BY <1>1 DEF NumOf
<1> QED
  BY <1>3, <1>4, <1>5, ModulusAssumption DEF Num

----------------------------------------------------------------------------
(* Folding. *)

(* f takes steps from s0, within S.                                        *)
Steps(f, n, S, s0, step) ==
  /\ f \in [0 .. n -> S] /\ f[0] = s0
  /\ \A i \in 1 .. n : f[i] = step[i][f[i - 1]]

LEMMA Iterates ==
  ASSUME NEW n \in Nat, NEW S, NEW s0 \in S, NEW step \in [1 .. n -> [S -> S]]
  PROVE  \E f : Steps(f, n, S, s0, step)
<1>1. PICK T : T = {m \in 0 .. n : \E f : Steps(f, m, S, s0, step)}
  OBVIOUS
<1>2. 0 \in T
  <2>1. PICK f : f = [i \in 0 .. 0 |-> s0]
    OBVIOUS
  <2>2. f \in [0 .. 0 -> S] /\ f[0] = s0 /\ \A i \in 1 .. 0 : f[i] = step[i][f[i - 1]]
    BY <2>1
  <2> QED BY <1>1, <2>2 DEF Steps
<1>3. ASSUME NEW m \in 0 .. n, 0 < m, m - 1 \in T  PROVE m \in T
  <2>1. PICK f : /\ f \in [0 .. m - 1 -> S] /\ f[0] = s0
                 /\ \A i \in 1 .. m - 1 : f[i] = step[i][f[i - 1]]
    BY <1>1, <1>3 DEF Steps
  <2>2. m \in 1 .. n /\ f[m - 1] \in S
    BY <1>3, <2>1
  <2>3. PICK x \in S : x = step[m][f[m - 1]]
    BY <2>2
  <2>4. PICK g : g = [i \in 0 .. m |-> IF i = m THEN x ELSE f[i]]
    OBVIOUS
  <2>5. g \in [0 .. m -> S] /\ g[0] = s0
    BY <1>3, <2>1, <2>3, <2>4
  <2>6. ASSUME NEW i \in 1 .. m  PROVE g[i] = step[i][g[i - 1]]
    <3>1. g[i - 1] = f[i - 1]
      BY <2>4
    <3>2. CASE i = m
      BY <2>3, <2>4, <3>1, <3>2
    <3>3. CASE i # m
      <4>1. i \in 1 .. m - 1 /\ g[i] = f[i]
        BY <2>4, <3>3
      <4> QED BY <2>1, <3>1, <4>1
    <3> QED BY <3>2, <3>3
  <2> QED BY <1>1, <2>5, <2>6 DEF Steps
<1>4. \A m \in 0 .. n : m \in T
  BY <1>2, <1>3, Upward
<1> QED BY <1>1, <1>4

(* Two that proceed alike are alike.                                       *)
Sequel(f, n) == f = [i \in 0 .. n |-> f[i]]

LEMMA Alike ==
  ASSUME NEW n \in Nat, NEW f, NEW g, Sequel(f, n), Sequel(g, n), g[0] = f[0],
         \A i \in 1 .. n : g[i - 1] = f[i - 1] => g[i] = f[i]
  PROVE  g = f
<1>1. PICK T : T = {i \in 0 .. n : g[i] = f[i]}
  OBVIOUS
<1>2. 0 \in T
  BY <1>1
<1>3. ASSUME NEW i \in 0 .. n, 0 < i, i - 1 \in T  PROVE i \in T
  <2>1. i \in 1 .. n /\ g[i - 1] = f[i - 1]
    BY <1>1, <1>3
  <2> QED BY <1>1, <2>1
<1>4. \A i \in 0 .. n : i \in T
  BY <1>2, <1>3, Upward
<1>5. \A i \in 0 .. n : g[i] = f[i]
  BY <1>1, <1>4
<1> QED BY <1>5 DEF Sequel

(* What proceeds by the same steps as long as it stays in S is the same.   *)
Proceeds(g, n, S, s0, step) ==
  /\ Sequel(g, n) /\ g[0] = s0
  /\ \A i \in 1 .. n : g[i - 1] \in S => g[i] = step[i][g[i - 1]]

LEMMA Follows ==
  ASSUME NEW n \in Nat, NEW S, NEW s0, NEW step, NEW f, NEW g,
         Steps(f, n, S, s0, step), Proceeds(g, n, S, s0, step)
  PROVE  g = f
<1>1. Sequel(f, n) /\ Sequel(g, n) /\ g[0] = f[0]
  BY DEF Steps, Sequel, Proceeds
<1>2. ASSUME NEW i \in 1 .. n, g[i - 1] = f[i - 1]  PROVE g[i] = f[i]
  <2>1. f[i - 1] \in S /\ f[i] = step[i][f[i - 1]]
    BY DEF Steps
  <2> QED BY <1>2, <2>1 DEF Proceeds
<1> QED BY <1>1, <1>2, Alike

----------------------------------------------------------------------------
(* Results. *)

(* A value of V or a failure, with the keys that were asked for.           *)
Results(V) == [v : V \cup {Err, Panic}, keys : SUBSET Seq(Byte)]
Contents == Results(Seq(Byte))

LEMMA ResultType ==
  ASSUME NEW V, NEW v \in V \cup {Err, Panic}, NEW keys \in SUBSET Seq(Byte)
  PROVE  /\ Result(v, keys) \in Results(V)
         /\ Result(v, keys).v = v /\ Result(v, keys).keys = keys
BY DEF Result, Results

LEMMA ResultParts ==
  ASSUME NEW V, NEW r \in Results(V)
  PROVE  /\ r.v \in V \cup {Err, Panic} /\ r.keys \in SUBSET Seq(Byte)
         /\ r = Result(r.v, r.keys)
         /\ ~Failed(r.v) => r.v \in V
BY DEF Result, Results, Failed

LEMMA ThenType ==
  ASSUME NEW r \in Contents, NEW s \in Contents
  PROVE  Then(r, s) \in Contents
<1>1. /\ r.v \in Seq(Byte) \cup {Err, Panic} /\ r.keys \in SUBSET Seq(Byte)
      /\ s.v \in Seq(Byte) \cup {Err, Panic} /\ s.keys \in SUBSET Seq(Byte)
  BY DEF Contents, Results
<1>2. CASE Failed(r.v)
  BY <1>2 DEF Then
<1>3. CASE ~Failed(r.v)
  <2>1. PICK v : v = IF Failed(s.v) THEN s.v ELSE r.v \o s.v
    OBVIOUS
  <2>2. v \in Seq(Byte) \cup {Err, Panic}
    <3>1. CASE Failed(s.v)
      BY <1>1, <2>1, <3>1
    <3>2. CASE ~Failed(s.v)
      <4>1. r.v \in Seq(Byte) /\ s.v \in Seq(Byte)
        BY <1>1, <1>3, <3>2 DEF Failed
      <4>2. r.v \o s.v \in Seq(Byte)
        BY <4>1
      <4> QED BY <2>1, <3>2, <4>2
    <3> QED BY <3>1, <3>2
  <2>3. Then(r, s) = Result(v, s.keys \cup r.keys)
    BY <1>3, <2>1 DEF Then, After, Result
  <2>4. s.keys \cup r.keys \in SUBSET Seq(Byte)
    BY <1>1
  <2> QED BY <2>2, <2>3, <2>4 DEF Result, Contents, Results
<1> QED BY <1>2, <1>3

(* Byte strings joined one after the other.                                *)
Joins(f, n, rs) ==
  /\ f \in [0 .. n -> Contents] /\ f[0] = Empty
  /\ \A i \in 1 .. n : f[i] = Then(f[i - 1], rs[i])

LEMMA EmptyType == Empty \in Contents
<1>1. <<>> \in Seq(Byte) /\ {} \in SUBSET Seq(Byte)
  OBVIOUS
<1> QED BY <1>1 DEF Empty, Result, Contents, Results

LEMMA ConcatStep ==
  ASSUME NEW es, Len(es) \in Nat, NEW env, NEW var,
         NEW rs \in [1 .. Len(es) -> Contents],
         \A i \in 1 .. Len(es) : rs[i] = Eval(es[i], env, var)
  PROVE  \E f : Joins(f, Len(es), rs) /\ EvalStep(Concat(es), env, var) = f[Len(es)]
<1>1. PICK n \in Nat : n = Len(es)
  OBVIOUS
<1>2. PICK step : step = [i \in 1 .. n |-> [r \in Contents |-> Then(r, rs[i])]]
  OBVIOUS
<1>3. step \in [1 .. n -> [Contents -> Contents]]
  BY <1>1, <1>2, ThenType
<1>4. PICK f : Steps(f, n, Contents, Empty, step)
  BY <1>3, EmptyType, Iterates
<1>5. Joins(f, n, rs)
  <2>1. ASSUME NEW i \in 1 .. n  PROVE f[i] = Then(f[i - 1], rs[i])
    <3>1. f[i - 1] \in Contents /\ f[i] = step[i][f[i - 1]]
      BY <1>4 DEF Steps
    <3> QED BY <1>2, <3>1
  <2> QED BY <1>4, <2>1 DEF Steps, Joins
<1>6. \A i \in 0 .. n : i # 0 => i \in 1 .. n
  OBVIOUS
<1>7. f = [i \in 0 .. n |-> IF i = 0 THEN Empty ELSE Then(f[i - 1], Eval(es[i], env, var))]
  BY <1>1, <1>5, <1>6 DEF Joins
<1>8. PICK g : g = CHOOSE h : h = [i \in 0 .. n |-> IF i = 0 THEN Empty
                                     ELSE Then(h[i - 1], Eval(es[i], env, var))]
  OBVIOUS
<1>9. g = [i \in 0 .. n |-> IF i = 0 THEN Empty ELSE Then(g[i - 1], Eval(es[i], env, var))]
  BY <1>7, <1>8
<1>10. g[0] = Empty /\ Sequel(g, n)
  BY <1>9 DEF Sequel
<1>11. ASSUME NEW i \in 1 .. n, g[i - 1] \in Contents  PROVE g[i] = step[i][g[i - 1]]
  BY <1>1, <1>2, <1>6, <1>9, <1>11
<1>12. g = f
  <2>1. Proceeds(g, n, Contents, Empty, step)
    BY <1>10, <1>11 DEF Proceeds
  <2> QED BY <1>4, <2>1, Follows
<1>13. EvalStep(Concat(es), env, var) = g[n]
  BY <1>1, <1>8 DEF EvalStep, Evaluation, Concat, LeftFold
<1> QED BY <1>1, <1>5, <1>12, <1>13

(* What the body of a loop evaluates to, turn by turn.                     *)
Turns(rs, n, body, env) ==
  /\ rs \in [1 .. n -> Contents]
  /\ \A i \in 1 .. n : rs[i] = Eval(body, env, i - 1)

LEMMA LoopStep ==
  ASSUME NEW count, NEW body, NEW env, NEW var, NEW n \in Nat,
         Eval(count, env, var).v = n, ~Failed(n), n <= LoopLimit,
         NEW rs, Turns(rs, n, body, env)
  PROVE  \E f : /\ Joins(f, n, rs)
                /\ EvalStep(Loop(count, body), env, var) =
                       After(f[n], Eval(count, env, var).keys)
<1>1. /\ rs \in [1 .. n -> Contents]
      /\ \A i \in 1 .. n : rs[i] = Eval(body, env, i - 1)
  BY DEF Turns
<1>2. PICK step : step = [i \in 1 .. n |-> [r \in Contents |-> Then(r, rs[i])]]
  OBVIOUS
<1>3. step \in [1 .. n -> [Contents -> Contents]]
  BY <1>1, <1>2, ThenType
<1>4. PICK f : Steps(f, n, Contents, Empty, step)
  BY <1>3, EmptyType, Iterates
<1>5. ASSUME NEW i \in 1 .. n  PROVE f[i] = Then(f[i - 1], rs[i])
  <2>1. f[i - 1] \in Contents /\ f[i] = step[i][f[i - 1]]
    BY <1>4 DEF Steps
  <2> QED BY <1>2, <2>1
<1>6. \A i \in 0 .. n : i # 0 => i \in 1 .. n
  OBVIOUS
<1>7. f = [i \in 0 .. n |-> IF i = 0 THEN Empty ELSE Then(f[i - 1], Eval(body, env, i - 1))]
  BY <1>1, <1>4, <1>5, <1>6 DEF Steps
<1>8. PICK g : g = CHOOSE h : h = [i \in 0 .. Eval(count, env, var).v |->
                         IF i = 0 THEN Empty
                                     ELSE Then(h[i - 1], Eval(body, env, i - 1))]
  OBVIOUS
<1>9. g = [i \in 0 .. n |-> IF i = 0 THEN Empty ELSE Then(g[i - 1], Eval(body, env, i - 1))]
  BY <1>7, <1>8
<1>10. g[0] = Empty /\ Sequel(g, n)
  BY <1>9 DEF Sequel
<1>11. ASSUME NEW i \in 1 .. n, g[i - 1] \in Contents  PROVE g[i] = step[i][g[i - 1]]
  <2>1. g[i] = Then(g[i - 1], Eval(body, env, i - 1))
    BY <1>6, <1>9
  <2>2. step[i][g[i - 1]] = Then(g[i - 1], rs[i])
    BY <1>2, <1>11
  <2> QED BY <1>1, <2>1, <2>2
<1>12. g = f
  <2>1. Proceeds(g, n, Contents, Empty, step)
    BY <1>10, <1>11 DEF Proceeds
  <2> QED BY <1>4, <2>1, Follows
<1>13. EvalStep(Loop(count, body), env, var) = After(g[n], Eval(count, env, var).keys)
  <2>1. ~(Eval(count, env, var).v > LoopLimit) /\ ~Failed(Eval(count, env, var).v)
    BY LimitAssumption
  <2>2. EvalStep(Loop(count, body), env, var) =
          LET turn(i) == Eval(body, env, i - 1)
          IN  After(LeftFold(Then, Empty, Eval(count, env, var).v, turn),
                    Eval(count, env, var).keys)
    BY <2>1 DEF EvalStep, Evaluation, Loop
  <2>3. g[n] = LET turn(i) == Eval(body, env, i - 1)
               IN  LeftFold(Then, Empty, Eval(count, env, var).v, turn)
    BY <1>8 DEF LeftFold
  <2> QED BY <2>2, <2>3
<1> QED BY <1>4, <1>5, <1>12, <1>13 DEF Steps, Joins

(* Conditions. *)
Verdicts == Results(BOOLEAN)

LEMMA AndThenType ==
  /\ Result(TRUE, {}) \in Verdicts
  /\ \A r, s \in Verdicts : AndThen(r, s) \in Verdicts
BY DEF Verdicts, Results, Result, After, AndThen

LEMMA AllStep ==
  ASSUME NEW es, Len(es) \in Nat, NEW env, NEW var,
         \A i \in 1 .. Len(es) : Eval(es[i], env, var) \in Verdicts
  PROVE  EvalStep(AllOf(es), env, var) \in Verdicts
<1>1. PICK n \in Nat : n = Len(es) /\ \A i \in 1 .. n : Eval(es[i], env, var) \in Verdicts
  OBVIOUS
<1>2. PICK step :
        step = [i \in 1 .. n |-> [r \in Verdicts |-> AndThen(r, Eval(es[i], env, var))]]
  OBVIOUS
<1>3. step \in [1 .. n -> [Verdicts -> Verdicts]]
  BY <1>1, <1>2, AndThenType
<1>4. PICK f : Steps(f, n, Verdicts, Result(TRUE, {}), step)
  BY <1>3, AndThenType, Iterates
<1>5. ASSUME NEW i \in 1 .. n  PROVE f[i] = AndThen(f[i - 1], Eval(es[i], env, var))
  <2>1. f[i - 1] \in Verdicts /\ f[i] = step[i][f[i - 1]]
    BY <1>4 DEF Steps
  <2> QED BY <1>2, <2>1
<1>6. \A i \in 0 .. n : i # 0 => i \in 1 .. n
  OBVIOUS
<1>7. f = [i \in 0 .. n |-> IF i = 0 THEN Result(TRUE, {})
                             ELSE AndThen(f[i - 1], Eval(es[i], env, var))]
  BY <1>1, <1>4, <1>5, <1>6 DEF Steps
<1>8. PICK g : g = CHOOSE h : h = [i \in 0 .. n |-> IF i = 0 THEN Result(TRUE, {})
                                     ELSE AndThen(h[i - 1], Eval(es[i], env, var))]
  OBVIOUS
<1>9. g = [i \in 0 .. n |-> IF i = 0 THEN Result(TRUE, {})
                             ELSE AndThen(g[i - 1], Eval(es[i], env, var))]
  BY <1>7, <1>8
<1>10. g[0] = Result(TRUE, {}) /\ Sequel(g, n)
  BY <1>9 DEF Sequel
<1>11. ASSUME NEW i \in 1 .. n, g[i - 1] \in Verdicts  PROVE g[i] = step[i][g[i - 1]]
  <2>1. g[i] = AndThen(g[i - 1], Eval(es[i], env, var))
    BY <1>6, <1>9
  <2>2. step[i][g[i - 1]] = AndThen(g[i - 1], Eval(es[i], env, var))
    BY <1>2, <1>11
  <2> QED BY <1>1, <2>1, <2>2
<1>12. g = f
  <2>1. Proceeds(g, n, Verdicts, Result(TRUE, {}), step)
    BY <1>10, <1>11 DEF Proceeds
  <2> QED BY <1>4, <2>1, Follows
<1>13. EvalStep(AllOf(es), env, var) = g[n]
  BY <1>1, <1>8 DEF EvalStep, Evaluation, AllOf, LeftFold
<1>14. n \in 0 .. n
  OBVIOUS
<1> QED BY <1>4, <1>12, <1>13, <1>14 DEF Steps

LEMMA OrElseType ==
  /\ Result(FALSE, {}) \in Verdicts
  /\ \A r, s \in Verdicts : OrElse(r, s) \in Verdicts
BY DEF Verdicts, Results, Result, After, OrElse

LEMMA AnyStep ==
  ASSUME NEW es, Len(es) \in Nat, NEW env, NEW var,
         \A i \in 1 .. Len(es) : Eval(es[i], env, var) \in Verdicts
  PROVE  EvalStep(AnyOf(es), env, var) \in Verdicts
<1>1. PICK n \in Nat : n = Len(es) /\ \A i \in 1 .. n : Eval(es[i], env, var) \in Verdicts
  OBVIOUS
<1>2. PICK step :
        step = [i \in 1 .. n |-> [r \in Verdicts |-> OrElse(r, Eval(es[i], env, var))]]
  OBVIOUS
<1>3. step \in [1 .. n -> [Verdicts -> Verdicts]]
  BY <1>1, <1>2, OrElseType
<1>4. PICK f : Steps(f, n, Verdicts, Result(FALSE, {}), step)
  BY <1>3, OrElseType, Iterates
<1>5. ASSUME NEW i \in 1 .. n  PROVE f[i] = OrElse(f[i - 1], Eval(es[i], env, var))
  <2>1. f[i - 1] \in Verdicts /\ f[i] = step[i][f[i - 1]]
    BY <1>4 DEF Steps
  <2> QED BY <1>2, <2>1
<1>6. \A i \in 0 .. n : i # 0 => i \in 1 .. n
  OBVIOUS
<1>7. f = [i \in 0 .. n |-> IF i = 0 THEN Result(FALSE, {})
                             ELSE OrElse(f[i - 1], Eval(es[i], env, var))]
  BY <1>1, <1>4, <1>5, <1>6 DEF Steps
<1>8. PICK g : g = CHOOSE h : h = [i \in 0 .. n |-> IF i = 0 THEN Result(FALSE, {})
                                     ELSE OrElse(h[i - 1], Eval(es[i], env, var))]
  OBVIOUS
<1>9. g = [i \in 0 .. n |-> IF i = 0 THEN Result(FALSE, {})
                             ELSE OrElse(g[i - 1], Eval(es[i], env, var))]
  BY <1>7, <1>8
<1>10. g[0] = Result(FALSE, {}) /\ Sequel(g, n)
  BY <1>9 DEF Sequel
<1>11. ASSUME NEW i \in 1 .. n, g[i - 1] \in Verdicts  PROVE g[i] = step[i][g[i - 1]]
  <2>1. g[i] = OrElse(g[i - 1], Eval(es[i], env, var))
    BY <1>6, <1>9
  <2>2. step[i][g[i - 1]] = OrElse(g[i - 1], Eval(es[i], env, var))
    BY <1>2, <1>11
  <2> QED BY <1>1, <2>1, <2>2
<1>12. g = f
  <2>1. Proceeds(g, n, Verdicts, Result(FALSE, {}), step)
    BY <1>10, <1>11 DEF Proceeds
  <2> QED BY <1>4, <2>1, Follows
<1>13. EvalStep(AnyOf(es), env, var) = g[n]
  BY <1>1, <1>8 DEF EvalStep, Evaluation, AnyOf, LeftFold
<1>14. n \in 0 .. n
  OBVIOUS
<1> QED BY <1>4, <1>12, <1>13, <1>14 DEF Steps

(* The operands of expressions that evaluate all they have. *)

(* The values of operands, in their order.                                 *)
Lists == Results(Seq(Data))

LEMMA EmptyList == Empty \in Lists
<1>1. <<>> \in Seq(Data) /\ {} \in SUBSET Seq(Byte)
  OBVIOUS
<1> QED BY <1>1 DEF Empty, Result, Lists, Results

LEMMA WithType ==
  ASSUME NEW r \in Lists, NEW s \in Results(Data)
  PROVE  With(r, s) \in Lists
<1>1. /\ r.v \in Seq(Data) \cup {Err, Panic} /\ r.keys \in SUBSET Seq(Byte)
      /\ s.v \in Data \cup {Err, Panic} /\ s.keys \in SUBSET Seq(Byte)
  BY DEF Lists, Results
<1>2. CASE Failed(r.v)
  BY <1>2 DEF With
<1>3. CASE ~Failed(r.v)
  <2>1. PICK v : v = IF Failed(s.v) THEN s.v ELSE Append(r.v, s.v)
    OBVIOUS
  <2>2. v \in Seq(Data) \cup {Err, Panic}
    <3>1. CASE Failed(s.v)
      BY <1>1, <2>1, <3>1 DEF Failed
    <3>2. CASE ~Failed(s.v)
      <4>1. r.v \in Seq(Data) /\ s.v \in Data
        BY <1>1, <1>3, <3>2 DEF Failed
      <4>2. Append(r.v, s.v) \in Seq(Data)
        BY <4>1
      <4> QED BY <2>1, <3>2, <4>2
    <3> QED BY <3>1, <3>2
  <2>3. With(r, s) = Result(v, s.keys \cup r.keys)
    BY <1>3, <2>1 DEF With, After, Result
  <2>4. s.keys \cup r.keys \in SUBSET Seq(Byte)
    BY <1>1
  <2> QED BY <2>2, <2>3, <2>4 DEF Result, Lists, Results
<1> QED BY <1>2, <1>3

(* All operands are evaluated, or the first that fails ends it.            *)
Ordinary(e) == e.k \notin {"if", "choice", "concat", "loop", "div", "mod", "all", "any"}

(* f gathers the results rs, one by one; and what the operator makes of    *)
(* them.                                                                   *)
Gathers(f, n, rs) ==
  /\ f \in [0 .. n -> Lists] /\ f[0] = Empty
  /\ \A i \in 1 .. n : f[i] = With(f[i - 1], rs[i])

Finished(e, r, env, var) ==
  IF Failed(r.v) THEN r
  ELSE Result(Makes(e, r.v, env, var),
              r.keys \cup IF e.k = "storage" THEN {r.v[1]} ELSE {})

Evaluated(rs, n, es, env, var) ==
  /\ n = Len(es) /\ rs \in [1 .. n -> Results(Data)]
  /\ \A i \in 1 .. n : rs[i] = Eval(es[i], env, var)

LEMMA OperandsStep ==
  ASSUME NEW e, Ordinary(e), NEW env, NEW var, NEW n \in Nat, NEW rs,
         Evaluated(rs, n, Operands(e), env, var)
  PROVE  \E f : Gathers(f, n, rs) /\ EvalStep(e, env, var) = Finished(e, f[n], env, var)
<1>1. PICK es : /\ es = Operands(e) /\ n = Len(es) /\ rs \in [1 .. n -> Results(Data)]
                /\ \A i \in 1 .. n : rs[i] = Eval(es[i], env, var)
  BY DEF Evaluated
<1>2. PICK step : step = [i \in 1 .. n |-> [r \in Lists |-> With(r, rs[i])]]
  OBVIOUS
<1>3. step \in [1 .. n -> [Lists -> Lists]]
  BY <1>1, <1>2, WithType
<1>4. PICK f : Steps(f, n, Lists, Empty, step)
  BY <1>3, EmptyList, Iterates
<1>5. ASSUME NEW i \in 1 .. n  PROVE f[i] = With(f[i - 1], rs[i])
  <2>1. f[i - 1] \in Lists /\ f[i] = step[i][f[i - 1]]
    BY <1>4 DEF Steps
  <2> QED BY <1>2, <2>1
<1>6. \A i \in 0 .. n : i # 0 => i \in 1 .. n
  OBVIOUS
<1>7. f = [i \in 0 .. n |-> IF i = 0 THEN Empty ELSE With(f[i - 1], Eval(es[i], env, var))]
  BY <1>1, <1>4, <1>5, <1>6 DEF Steps
<1>8. PICK g : g = CHOOSE h : h = [i \in 0 .. n |-> IF i = 0 THEN Empty
                                     ELSE With(h[i - 1], Eval(es[i], env, var))]
  OBVIOUS
<1>9. g = [i \in 0 .. n |-> IF i = 0 THEN Empty ELSE With(g[i - 1], Eval(es[i], env, var))]
  BY <1>7, <1>8
<1>10. g[0] = Empty /\ Sequel(g, n)
  BY <1>9 DEF Sequel
<1>11. ASSUME NEW i \in 1 .. n, g[i - 1] \in Lists  PROVE g[i] = step[i][g[i - 1]]
  <2>1. g[i] = With(g[i - 1], Eval(es[i], env, var))
    BY <1>6, <1>9
  <2>2. step[i][g[i - 1]] = With(g[i - 1], rs[i])
    BY <1>2, <1>11
  <2> QED BY <1>1, <2>1, <2>2
<1>12. g = f
  <2>1. Proceeds(g, n, Lists, Empty, step)
    BY <1>10, <1>11 DEF Proceeds
  <2> QED BY <1>4, <2>1, Follows
<1>13. EvalStep(e, env, var) = Finished(e, g[n], env, var)
  BY <1>1, <1>8 DEF EvalStep, Evaluation, Finished, LeftFold, Ordinary
<1> QED BY <1>1, <1>4, <1>5, <1>12, <1>13 DEF Steps, Gathers

LEMMA NoFailure ==
  /\ \A v \in Data : ~Failed(v)
  /\ \A v \in Seq(Data) : ~Failed(v)
  /\ Failed(Err) /\ Failed(Panic)
BY MarkAssumption DEF Failed

LEMMA EmptyParts ==
  Empty.v = <<>> /\ Empty.keys = {} /\ ~Failed(<<>>)
<1>1. <<>> \in Seq(Data)
  OBVIOUS
<1> QED BY <1>1, NoFailure DEF Empty, Result

LEMMA Nullary ==
  ASSUME NEW e, Ordinary(e), Operands(e) = <<>>, e.k # "storage", NEW env, NEW var
  PROVE  EvalStep(e, env, var) = Result(Makes(e, <<>>, env, var), {})
<1>1. PICK rs : rs = [i \in 1 .. 0 |-> Empty]
  OBVIOUS
<1>2. Evaluated(rs, 0, Operands(e), env, var)
  BY <1>1 DEF Evaluated
<1>3. PICK f : Gathers(f, 0, rs) /\ EvalStep(e, env, var) = Finished(e, f[0], env, var)
  BY <1>2, OperandsStep
<1>4. f[0] = Empty
  BY <1>3 DEF Gathers
<1> QED BY <1>3, <1>4, EmptyParts DEF Finished, Result

(* What comes of one operand, of two and of three. *)
Of1(e, x, env, var) ==
  IF Failed(x.v) THEN Result(x.v, x.keys)
  ELSE Result(Makes(e, <<x.v>>, env, var), x.keys \cup IF e.k = "storage" THEN {x.v} ELSE {})

(* ... of two, the first failure being that of both,                       *)
Of2(e, x, y, env, var) ==
  IF Failed(x.v) THEN Result(x.v, x.keys)
  ELSE IF Failed(y.v) THEN Result(y.v, x.keys \cup y.keys)
  ELSE Result(Makes(e, <<x.v, y.v>>, env, var), x.keys \cup y.keys)

(* ... and of three.                                                       *)
Of3(e, x, y, z, env, var) ==
  IF Failed(x.v) THEN Result(x.v, x.keys)
  ELSE IF Failed(y.v) THEN Result(y.v, x.keys \cup y.keys)
  ELSE IF Failed(z.v) THEN Result(z.v, x.keys \cup y.keys \cup z.keys)
  ELSE Result(Makes(e, <<x.v, y.v, z.v>>, env, var), x.keys \cup y.keys \cup z.keys)

(* One more operand. *)
LEMMA WithOne ==
  ASSUME NEW r \in Lists, NEW s \in Results(Data)
  PROVE  /\ Failed(r.v) => With(r, s) = r
         /\ ~Failed(r.v) /\ Failed(s.v) => With(r, s) = Result(s.v, r.keys \cup s.keys)
         /\ ~Failed(r.v) /\ ~Failed(s.v) =>
              /\ With(r, s) = Result(Append(r.v, s.v), r.keys \cup s.keys)
              /\ Append(r.v, s.v) \in Seq(Data)
<1>1. r.v \in Seq(Data) \cup {Err, Panic} /\ s.v \in Data \cup {Err, Panic}
  BY DEF Lists, Results
<1>2. s.keys \cup r.keys = r.keys \cup s.keys
  OBVIOUS
<1>3. ASSUME ~Failed(r.v), ~Failed(s.v)  PROVE Append(r.v, s.v) \in Seq(Data)
  <2>1. r.v \in Seq(Data) /\ s.v \in Data
    BY <1>1, <1>3 DEF Failed
  <2> QED BY <2>1
<1> QED BY <1>2, <1>3 DEF With, After, Result

LEMMA Appended ==
  ASSUME NEW x \in Data, NEW y \in Data, NEW z \in Data
  PROVE  /\ <<x>> \in Seq(Data) /\ <<x, y>> \in Seq(Data)
         /\ Append(<<x>>, y) = <<x, y>> /\ Append(<<x, y>>, z) = <<x, y, z>>
<1>1. <<x>> \in Seq(Data) /\ <<x, y>> \in Seq(Data) /\ <<x, y, z>> \in Seq(Data)
  OBVIOUS
<1>2. Append(<<x>>, y) = <<x, y>>
  <2>1. /\ Append(<<x>>, y) \in Seq(Data) /\ Len(Append(<<x>>, y)) = 2 /\ Len(<<x, y>>) = 2
        /\ Append(<<x>>, y)[1] = x /\ Append(<<x>>, y)[2] = y
    BY <1>1
  <2>2. \A i \in 1 .. Len(Append(<<x>>, y)) : Append(<<x>>, y)[i] = <<x, y>>[i]
    BY <2>1
  <2> QED BY <1>1, <2>1, <2>2, SeqEqual
<1>3. Append(<<x, y>>, z) = <<x, y, z>>
  <2>1. /\ Append(<<x, y>>, z) \in Seq(Data)
        /\ Len(Append(<<x, y>>, z)) = 3 /\ Len(<<x, y, z>>) = 3
        /\ Append(<<x, y>>, z)[1] = x /\ Append(<<x, y>>, z)[2] = y
        /\ Append(<<x, y>>, z)[3] = z
    BY <1>1
  <2>2. \A i \in 1 .. Len(Append(<<x, y>>, z)) : Append(<<x, y>>, z)[i] = <<x, y, z>>[i]
    BY <2>1
  <2> QED BY <1>1, <2>1, <2>2, SeqEqual
<1> QED BY <1>1, <1>2, <1>3

LEMMA IsData ==
  ASSUME NEW s \in Results(Data), ~Failed(s.v)
  PROVE  s.v \in Data
BY DEF Results, Failed

LEMMA WithMore ==
  ASSUME NEW v \in Seq(Data), NEW keys, Result(v, keys) \in Lists, NEW s \in Results(Data)
  PROVE  /\ Failed(s.v) => With(Result(v, keys), s) = Result(s.v, keys \cup s.keys)
         /\ ~Failed(s.v) => /\ With(Result(v, keys), s) =
                                 Result(Append(v, s.v), keys \cup s.keys)
                            /\ Append(v, s.v) \in Seq(Data)
<1>1. PICK r \in Lists : r = Result(v, keys) /\ r.v = v /\ r.keys = keys /\ ~Failed(r.v)
  BY NoFailure DEF Result
<1> QED BY <1>1, WithOne

LEMMA WithFirst ==
  ASSUME NEW s \in Results(Data)
  PROVE  /\ Failed(s.v) => With(Empty, s) = Result(s.v, s.keys)
         /\ ~Failed(s.v) => With(Empty, s) = Result(<<s.v>>, s.keys) /\ <<s.v>> \in Seq(Data)
<1>1. {} \cup s.keys = s.keys /\ Append(<<>>, s.v) = <<s.v>>
  OBVIOUS
<1>2. Empty \in Lists
  BY EmptyList
<1>3. Failed(s.v) => With(Empty, s) = Result(s.v, {} \cup s.keys)
  BY <1>2, EmptyParts, WithOne
<1>4. ~Failed(s.v) => /\ With(Empty, s) = Result(Append(<<>>, s.v), {} \cup s.keys)
                      /\ Append(<<>>, s.v) \in Seq(Data)
  BY <1>2, EmptyParts, WithOne
<1> QED BY <1>1, <1>3, <1>4

LEMMA Unary ==
  ASSUME NEW e, Ordinary(e), NEW a, Operands(e) = <<a>>, NEW env, NEW var,
         Eval(a, env, var) \in Results(Data)
  PROVE  EvalStep(e, env, var) = Of1(e, Eval(a, env, var), env, var)
<1>1. PICK x : x = Eval(a, env, var)
  OBVIOUS
<1>2. PICK rs : rs = [i \in 1 .. 1 |-> x]
  OBVIOUS
<1>3. Evaluated(rs, 1, Operands(e), env, var) /\ rs[1] = x
  BY <1>1, <1>2 DEF Evaluated
<1>4. PICK f : Gathers(f, 1, rs) /\ EvalStep(e, env, var) = Finished(e, f[1], env, var)
  BY <1>3, OperandsStep
<1>5. f[1] = With(Empty, x) /\ Empty \in Lists
  BY <1>1, <1>3, <1>4, EmptyList DEF Gathers
<1>6. x \in Results(Data)
  BY <1>1
<1>7. CASE Failed(x.v)
  <2>1. f[1] = Result(x.v, x.keys)
    BY <1>5, <1>6, <1>7, WithFirst
  <2> QED BY <1>1, <1>4, <1>7, <2>1 DEF Finished, Of1, Result
<1>8. CASE ~Failed(x.v)
  <2>1. f[1] = Result(<<x.v>>, x.keys) /\ ~Failed(<<x.v>>)
    BY <1>5, <1>6, <1>8, WithFirst, NoFailure
  <2> QED BY <1>1, <1>4, <1>8, <2>1 DEF Finished, Of1, Result
<1> QED BY <1>7, <1>8

LEMMA Dyadic ==
  ASSUME NEW e, Ordinary(e), NEW a, NEW b, Operands(e) = <<a, b>>, e.k # "storage",
         NEW env, NEW var,
         Eval(a, env, var) \in Results(Data), Eval(b, env, var) \in Results(Data)
  PROVE  EvalStep(e, env, var) = Of2(e, Eval(a, env, var), Eval(b, env, var), env, var)
<1>1. PICK x, y : x = Eval(a, env, var) /\ y = Eval(b, env, var)
  OBVIOUS
<1>2. PICK rs : rs = [i \in 1 .. 2 |-> IF i = 1 THEN x ELSE y]
  OBVIOUS
<1>3. Evaluated(rs, 2, Operands(e), env, var) /\ rs[1] = x /\ rs[2] = y
  BY <1>1, <1>2 DEF Evaluated
<1>4. PICK f : Gathers(f, 2, rs) /\ EvalStep(e, env, var) = Finished(e, f[2], env, var)
  BY <1>3, OperandsStep
<1>5. f[1] = With(Empty, x) /\ f[2] = With(f[1], y) /\ Empty \in Lists /\ f[1] \in Lists
  BY <1>1, <1>3, <1>4, EmptyList DEF Gathers
<1>6. x \in Results(Data)
  BY <1>1
<1>7. CASE Failed(x.v)
  <2>1. f[1] = Result(x.v, x.keys)
    BY <1>5, <1>6, <1>7, WithFirst
  <2>2. f[2] = f[1]
    BY <1>1, <1>5, <1>7, <2>1, WithOne DEF Result
  <2> QED BY <1>1, <1>4, <1>7, <2>1, <2>2 DEF Finished, Of2, Result
<1>8. CASE ~Failed(x.v)
  <2>1. f[1] = Result(<<x.v>>, x.keys) /\ ~Failed(<<x.v>>)
    BY <1>5, <1>6, <1>8, WithFirst, NoFailure
  <2>2. f[1].v = <<x.v>> /\ f[1].keys = x.keys
    BY <2>1 DEF Result
  <2>3. CASE Failed(y.v)
    <3>1. f[2] = Result(y.v, x.keys \cup y.keys)
      BY <1>1, <1>5, <2>1, <2>2, <2>3, WithOne
    <3> QED BY <1>1, <1>4, <1>8, <2>3, <3>1 DEF Finished, Of2, Result
  <2>4. CASE ~Failed(y.v)
    <3>1. f[2] = Result(<<x.v, y.v>>, x.keys \cup y.keys) /\ ~Failed(<<x.v, y.v>>)
      <4>1. x.v \in Data /\ y.v \in Data /\ y \in Results(Data)
        BY <1>1, <1>8, <2>4, IsData
      <4>2. <<x.v>> \in Seq(Data) /\ Append(<<x.v>>, y.v) = <<x.v, y.v>>
        BY <4>1, Appended
      <4>3. Result(<<x.v>>, x.keys) \in Lists
        BY <1>5, <2>1
      <4>4. /\ With(Result(<<x.v>>, x.keys), y) =
                   Result(Append(<<x.v>>, y.v), x.keys \cup y.keys)
            /\ Append(<<x.v>>, y.v) \in Seq(Data)
        BY <2>4, <4>1, <4>2, <4>3, WithMore
      <4> QED BY <1>5, <2>1, <4>2, <4>4, NoFailure
    <3> QED BY <1>1, <1>4, <1>8, <2>4, <3>1 DEF Finished, Of2, Result
  <2> QED BY <2>3, <2>4
<1> QED BY <1>7, <1>8

LEMMA Triadic ==
  ASSUME NEW e, Ordinary(e), NEW a, NEW b, NEW c, Operands(e) = <<a, b, c>>, e.k # "storage",
         NEW env, NEW var,
         Eval(a, env, var) \in Results(Data), Eval(b, env, var) \in Results(Data),
         Eval(c, env, var) \in Results(Data)
  PROVE  EvalStep(e, env, var) =
           Of3(e, Eval(a, env, var), Eval(b, env, var), Eval(c, env, var), env, var)
<1>1. PICK x, y, z : x = Eval(a, env, var) /\ y = Eval(b, env, var) /\ z = Eval(c, env, var)
  OBVIOUS
<1>2. PICK rs : rs = [i \in 1 .. 3 |-> IF i = 1 THEN x ELSE IF i = 2 THEN y ELSE z]
  OBVIOUS
<1>3. Evaluated(rs, 3, Operands(e), env, var) /\ rs[1] = x /\ rs[2] = y /\ rs[3] = z
  BY <1>1, <1>2 DEF Evaluated
<1>4. PICK f : Gathers(f, 3, rs) /\ EvalStep(e, env, var) = Finished(e, f[3], env, var)
  BY <1>3, OperandsStep
<1>5. /\ f[1] = With(Empty, x) /\ f[2] = With(f[1], y) /\ f[3] = With(f[2], z)
      /\ Empty \in Lists /\ f[1] \in Lists /\ f[2] \in Lists
  BY <1>1, <1>3, <1>4, EmptyList DEF Gathers
<1>6. x \in Results(Data)
  BY <1>1
<1>7. CASE Failed(x.v)
  <2>1. f[1] = Result(x.v, x.keys)
    BY <1>5, <1>6, <1>7, WithFirst
  <2>2. f[2] = f[1]
    BY <1>1, <1>5, <1>7, <2>1, WithOne DEF Result
  <2>3. f[3] = f[2]
    BY <1>1, <1>5, <1>7, <2>1, <2>2, WithOne DEF Result
  <2> QED BY <1>1, <1>4, <1>7, <2>1, <2>2, <2>3 DEF Finished, Of3, Result
<1>8. CASE ~Failed(x.v)
  <2>1. f[1] = Result(<<x.v>>, x.keys) /\ ~Failed(<<x.v>>)
    BY <1>5, <1>6, <1>8, WithFirst, NoFailure
  <2>2. f[1].v = <<x.v>> /\ f[1].keys = x.keys
    BY <2>1 DEF Result
  <2>3. CASE Failed(y.v)
    <3>1. f[2] = Result(y.v, x.keys \cup y.keys)
      BY <1>1, <1>5, <2>1, <2>2, <2>3, WithOne
    <3>2. f[3] = f[2]
      BY <1>1, <1>5, <2>3, <3>1, WithOne DEF Result
    <3> QED BY <1>1, <1>4, <1>8, <2>3, <3>1, <3>2 DEF Finished, Of3, Result
  <2>4. CASE ~Failed(y.v)
    <3>1. f[2] = Result(<<x.v, y.v>>, x.keys \cup y.keys) /\ ~Failed(<<x.v, y.v>>)
      <4>1. x.v \in Data /\ y.v \in Data /\ y \in Results(Data)
        BY <1>1, <1>8, <2>4, IsData
      <4>2. <<x.v>> \in Seq(Data) /\ Append(<<x.v>>, y.v) = <<x.v, y.v>>
        BY <4>1, Appended
      <4>3. Result(<<x.v>>, x.keys) \in Lists
        BY <1>5, <2>1
      <4>4. /\ With(Result(<<x.v>>, x.keys), y) =
                   Result(Append(<<x.v>>, y.v), x.keys \cup y.keys)
            /\ Append(<<x.v>>, y.v) \in Seq(Data)
        BY <2>4, <4>1, <4>2, <4>3, WithMore
      <4> QED BY <1>5, <2>1, <4>2, <4>4, NoFailure
    <3>2. PICK u, k : u = <<x.v, y.v>> /\ k = x.keys \cup y.keys
      OBVIOUS
    <3>3. u \in Seq(Data) /\ Result(u, k) \in Lists /\ z \in Results(Data)
      <4>1. x.v \in Data /\ y.v \in Data
        BY <1>1, <1>8, <2>4, IsData
      <4>2. <<x.v, y.v>> \in Seq(Data)
        BY <4>1, Appended
      <4> QED BY <1>1, <1>5, <3>1, <3>2, <4>2
    <3>4. /\ Failed(z.v) => With(Result(u, k), z) = Result(z.v, k \cup z.keys)
          /\ ~Failed(z.v) => /\ With(Result(u, k), z) = Result(Append(u, z.v), k \cup z.keys)
                             /\ Append(u, z.v) \in Seq(Data)
      BY <3>3, WithMore
    <3>5. CASE Failed(z.v)
      <4>1. f[3] = Result(z.v, x.keys \cup y.keys \cup z.keys)
        BY <1>5, <3>1, <3>2, <3>4, <3>5
      <4> QED BY <1>1, <1>4, <1>8, <2>4, <3>5, <4>1 DEF Finished, Of3, Result
    <3>6. CASE ~Failed(z.v)
      <4>1. /\ f[3] = Result(<<x.v, y.v, z.v>>, x.keys \cup y.keys \cup z.keys)
            /\ ~Failed(<<x.v, y.v, z.v>>)
        <5>1. x.v \in Data /\ y.v \in Data /\ z.v \in Data
          BY <1>1, <1>8, <2>4, <3>6, IsData
        <5>2. Append(u, z.v) = <<x.v, y.v, z.v>>
          BY <3>2, <5>1, Appended
        <5> QED BY <1>5, <3>1, <3>2, <3>4, <3>6, <5>2, NoFailure
      <4> QED BY <1>1, <1>4, <1>8, <2>4, <3>6, <4>1 DEF Finished, Of3, Result
    <3> QED BY <3>5, <3>6
  <2> QED BY <2>3, <2>4
<1> QED BY <1>7, <1>8

----------------------------------------------------------------------------
(* The language. *)

(* The numbers, byte strings and conditions over operands of N, B and C:   *)
(* NumExpr, BytesExpr and BoolExpr.                                        *)
NumbersOver(N, B, C) ==
  UNION {{Const(n) : n \in Num}, {Word(i) : i \in Nat}, {BlockHeight, Var},
         {Binary(op, a, b) : op \in BinaryOps, a \in N, b \in N},
         {ULe(e) : e \in B}, {Length(e) : e \in B},
         {If(c, t, e) : c \in C, t \in N, e \in N}}

StringsOver(N, B, C) ==
  UNION {{Bytes(d) : d \in Seq(Byte)},
         {Calldata(s, n) : s \in Nat, n \in Nat \cup {ToEnd}},
         {Storage(e) : e \in B}, {Concat(es) : es \in Seq(B)},
         {Slice(e, s, n) : e \in B, s \in N, n \in N},
         {Le(e, w) : e \in N, w \in Nat},
         {Choice(c, t, e) : c \in C, t \in B, e \in B},
         {Loop(n, e) : n \in N, e \in B}}

ConditionsOver(N, B, C) ==
  UNION {{Compare(c, a, b) : c \in Comparisons \ {"beq"}, a \in N, b \in N},
         {Compare("beq", a, b) : a \in B, b \in B},
         {AllOf(es) : es \in Seq(C)}, {AnyOf(es) : es \in Seq(C)},
         {Negation(e) : e \in C}}

(* The variable of a loop, or none. *)
Vars == Num \cup {NoVar}

(* What numbers evaluate to.                                               *)
Numerals == Results(Num)

(* What expressions of each sort evaluate to, in a world and a turn.       *)
Sorted(N, B, C, env, var) ==
  /\ \A e \in N : Eval(e, env, var) \in Numerals
  /\ \A e \in B : Eval(e, env, var) \in Contents
  /\ \A e \in C : Eval(e, env, var) \in Verdicts

LEMMA SortsAreData ==
  Numerals \subseteq Results(Data) /\ Contents \subseteq Results(Data)
    /\ Verdicts \subseteq Results(Data)
BY DEF Numerals, Contents, Verdicts, Results, Data

(* What becomes of operands that fail, or have values.                     *)
Keyed(e, V) == e.k = "storage" => V \subseteq Seq(Byte)

LEMMA Of1Type ==
  ASSUME NEW e, NEW V, NEW W, NEW x \in Results(V), NEW env, NEW var,
         \A u \in V : Makes(e, <<u>>, env, var) \in W \cup {Err, Panic},
         Keyed(e, V)
  PROVE  Of1(e, x, env, var) \in Results(W)
<1>1. x.v \in V \cup {Err, Panic} /\ x.keys \in SUBSET Seq(Byte)
  BY DEF Results
<1>2. CASE Failed(x.v)
  BY <1>1, <1>2 DEF Of1, Failed, Result, Results
<1>3. CASE ~Failed(x.v)
  <2>1. x.v \in V
    BY <1>1, <1>3 DEF Failed
  <2>2. PICK k : k = x.keys \cup IF e.k = "storage" THEN {x.v} ELSE {}
    OBVIOUS
  <2>3. k \in SUBSET Seq(Byte)
    BY <1>1, <2>1, <2>2 DEF Keyed
  <2> QED BY <1>3, <2>1, <2>2, <2>3 DEF Of1, Result, Results
<1> QED BY <1>2, <1>3

LEMMA Of2Type ==
  ASSUME NEW e, NEW V, NEW U, NEW W, NEW x \in Results(V), NEW y \in Results(U),
         NEW env, NEW var,
         \A v \in V, u \in U : Makes(e, <<v, u>>, env, var) \in W \cup {Err, Panic}
  PROVE  Of2(e, x, y, env, var) \in Results(W)
<1>1. /\ x.v \in V \cup {Err, Panic} /\ x.keys \in SUBSET Seq(Byte)
      /\ y.v \in U \cup {Err, Panic} /\ y.keys \in SUBSET Seq(Byte)
      /\ x.keys \cup y.keys \in SUBSET Seq(Byte)
  BY DEF Results
<1>2. CASE Failed(x.v)
  BY <1>1, <1>2 DEF Of2, Failed, Result, Results
<1>3. CASE ~Failed(x.v) /\ Failed(y.v)
  BY <1>1, <1>3 DEF Of2, Failed, Result, Results
<1>4. CASE ~Failed(x.v) /\ ~Failed(y.v)
  <2>1. x.v \in V /\ y.v \in U
    BY <1>1, <1>4 DEF Failed
  <2>2. Makes(e, <<x.v, y.v>>, env, var) \in W \cup {Err, Panic}
    BY <2>1
  <2> QED BY <1>1, <1>4, <2>2 DEF Of2, Result, Results
<1> QED BY <1>2, <1>3, <1>4

LEMMA Of3Type ==
  ASSUME NEW e, NEW V, NEW U, NEW T, NEW W, NEW x \in Results(V), NEW y \in Results(U),
         NEW z \in Results(T), NEW env, NEW var,
         \A v \in V, u \in U, t \in T : Makes(e, <<v, u, t>>, env, var) \in W \cup {Err, Panic}
  PROVE  Of3(e, x, y, z, env, var) \in Results(W)
<1>1. /\ x.v \in V \cup {Err, Panic} /\ x.keys \in SUBSET Seq(Byte)
      /\ y.v \in U \cup {Err, Panic} /\ y.keys \in SUBSET Seq(Byte)
      /\ z.v \in T \cup {Err, Panic} /\ z.keys \in SUBSET Seq(Byte)
      /\ x.keys \cup y.keys \in SUBSET Seq(Byte)
      /\ x.keys \cup y.keys \cup z.keys \in SUBSET Seq(Byte)
  BY DEF Results
<1>2. CASE Failed(x.v)
  BY <1>1, <1>2 DEF Of3, Failed, Result, Results
<1>3. CASE ~Failed(x.v) /\ Failed(y.v)
  BY <1>1, <1>3 DEF Of3, Failed, Result, Results
<1>4. CASE ~Failed(x.v) /\ ~Failed(y.v) /\ Failed(z.v)
  BY <1>1, <1>4 DEF Of3, Failed, Result, Results
<1>5. CASE ~Failed(x.v) /\ ~Failed(y.v) /\ ~Failed(z.v)
  <2>1. x.v \in V /\ y.v \in U /\ z.v \in T
    BY <1>1, <1>5 DEF Failed
  <2>2. Makes(e, <<x.v, y.v, z.v>>, env, var) \in W \cup {Err, Panic}
    BY <2>1
  <2> QED BY <1>1, <1>5, <2>2 DEF Of3, Result, Results
<1> QED BY <1>2, <1>3, <1>4, <1>5

----------------------------------------------------------------------------
(* What each constructor evaluates to. *)

LEMMA ConstStep ==
  ASSUME NEW n, NEW env, NEW var
  PROVE  EvalStep(Const(n), env, var) = Result(n, {})
<1>1. Ordinary(Const(n)) /\ Operands(Const(n)) = <<>> /\ Const(n).k # "storage"
  BY DEF Const, Ordinary, Operands, BinaryOps, Comparisons
<1>2. Makes(Const(n), <<>>, env, var) = n
  BY DEF Const, Makes, BinaryOps, Comparisons
<1> QED BY <1>1, <1>2, Nullary

LEMMA BytesStep ==
  ASSUME NEW d, NEW env, NEW var
  PROVE  EvalStep(Bytes(d), env, var) = Result(d, {})
<1>1. Ordinary(Bytes(d)) /\ Operands(Bytes(d)) = <<>> /\ Bytes(d).k # "storage"
  BY DEF Bytes, Ordinary, Operands, BinaryOps, Comparisons
<1>2. Makes(Bytes(d), <<>>, env, var) = d
  BY DEF Bytes, Makes, BinaryOps, Comparisons
<1> QED BY <1>1, <1>2, Nullary

LEMMA HeightStep ==
  ASSUME NEW env, NEW var
  PROVE  EvalStep(BlockHeight, env, var) = Result(env.height, {})
<1>1. Ordinary(BlockHeight) /\ Operands(BlockHeight) = <<>> /\ BlockHeight.k # "storage"
  BY DEF BlockHeight, Ordinary, Operands, BinaryOps, Comparisons
<1>2. Makes(BlockHeight, <<>>, env, var) = env.height
  BY DEF BlockHeight, Makes, BinaryOps, Comparisons
<1> QED BY <1>1, <1>2, Nullary

LEMMA VarStep ==
  ASSUME NEW env, NEW var
  PROVE  EvalStep(Var, env, var) = Result(IF var = NoVar THEN Err ELSE var, {})
<1>1. Ordinary(Var) /\ Operands(Var) = <<>> /\ Var.k # "storage"
  BY DEF Var, Ordinary, Operands, BinaryOps, Comparisons
<1>2. Makes(Var, <<>>, env, var) = IF var = NoVar THEN Err ELSE var
  BY DEF Var, Makes, BinaryOps, Comparisons
<1> QED BY <1>1, <1>2, Nullary

LEMMA WordStep ==
  ASSUME NEW i, NEW env, NEW var
  PROVE  EvalStep(Word(i), env, var) =
             Result(IF i < Len(env.words) THEN env.words[i + 1] ELSE Err, {})
<1>1. Ordinary(Word(i)) /\ Operands(Word(i)) = <<>> /\ Word(i).k # "storage"
  BY DEF Word, Ordinary, Operands, BinaryOps, Comparisons
<1>2. Makes(Word(i), <<>>, env, var) = IF i < Len(env.words) THEN env.words[i + 1] ELSE Err
  BY DEF Word, Makes, BinaryOps, Comparisons
<1> QED BY <1>1, <1>2, Nullary

LEMMA CalldataStep ==
  ASSUME NEW s, NEW n, NEW env, NEW var
  PROVE  EvalStep(Calldata(s, n), env, var) = Result(From(env, s, n), {})
<1>1. /\ Ordinary(Calldata(s, n)) /\ Operands(Calldata(s, n)) = <<>>
      /\ Calldata(s, n).k # "storage"
  BY DEF Calldata, Ordinary, Operands, BinaryOps, Comparisons
<1>2. Makes(Calldata(s, n), <<>>, env, var) = From(env, s, n)
  BY DEF Calldata, Makes, BinaryOps, Comparisons
<1> QED BY <1>1, <1>2, Nullary

----------------------------------------------------------------------------
(* The plans there are, by their depth. *)

LEMMA NumberCases ==
  ASSUME NEW N, NEW B, NEW C, NEW x
  PROVE  x \in NumbersOver(N, B, C) <=>
           \/ \E n \in Num : x = Const(n)
           \/ \E i \in Nat : x = Word(i)
           \/ x = BlockHeight
           \/ x = Var
           \/ \E op \in BinaryOps, a \in N, b \in N : x = Binary(op, a, b)
           \/ \E e \in B : x = ULe(e)
           \/ \E e \in B : x = Length(e)
           \/ \E c \in C, t \in N, e \in N : x = If(c, t, e)
BY DEF NumbersOver

LEMMA StringCases ==
  ASSUME NEW N, NEW B, NEW C, NEW x
  PROVE  x \in StringsOver(N, B, C) <=>
           \/ \E d \in Seq(Byte) : x = Bytes(d)
           \/ \E s \in Nat, n \in Nat \cup {ToEnd} : x = Calldata(s, n)
           \/ \E e \in B : x = Storage(e)
           \/ \E es \in Seq(B) : x = Concat(es)
           \/ \E e \in B, s \in N, n \in N : x = Slice(e, s, n)
           \/ \E e \in N, w \in Nat : x = Le(e, w)
           \/ \E c \in C, t \in B, e \in B : x = Choice(c, t, e)
           \/ \E n \in N, e \in B : x = Loop(n, e)
BY DEF StringsOver

LEMMA ConditionCases ==
  ASSUME NEW N, NEW B, NEW C, NEW x
  PROVE  x \in ConditionsOver(N, B, C) <=>
           \/ \E c \in Comparisons \ {"beq"}, a \in N, b \in N : x = Compare(c, a, b)
           \/ \E a \in B, b \in B : x = Compare("beq", a, b)
           \/ \E es \in Seq(C) : x = AllOf(es)
           \/ \E es \in Seq(C) : x = AnyOf(es)
           \/ \E e \in C : x = Negation(e)
BY DEF ConditionsOver

LEMMA OverMonotone ==
  ASSUME NEW N, NEW B, NEW C, NEW N1, NEW B1, NEW C1,
         N \subseteq N1, B \subseteq B1, C \subseteq C1
  PROVE  /\ NumbersOver(N, B, C) \subseteq NumbersOver(N1, B1, C1)
         /\ StringsOver(N, B, C) \subseteq StringsOver(N1, B1, C1)
         /\ ConditionsOver(N, B, C) \subseteq ConditionsOver(N1, B1, C1)
<1>1. Seq(B) \subseteq Seq(B1) /\ Seq(C) \subseteq Seq(C1)
  OBVIOUS
<1>2. ASSUME NEW x \in NumbersOver(N, B, C)  PROVE x \in NumbersOver(N1, B1, C1)
  BY <1>2, NumberCases
<1>3. ASSUME NEW x \in StringsOver(N, B, C)  PROVE x \in StringsOver(N1, B1, C1)
  BY <1>1, <1>3, StringCases
<1>4. ASSUME NEW x \in ConditionsOver(N, B, C)  PROVE x \in ConditionsOver(N1, B1, C1)
  BY <1>1, <1>4, ConditionCases
<1> QED BY <1>2, <1>3, <1>4

(* The plans of depth d: those over the plans of depth d - 1.              *)
Nothing == [num |-> {}, bytes |-> {}, cond |-> {}]
Layer(p) ==
  [num   |-> NumbersOver(p.num, p.bytes, p.cond),
   bytes |-> StringsOver(p.num, p.bytes, p.cond),
   cond  |-> ConditionsOver(p.num, p.bytes, p.cond)]
Plans(d) ==
  LET at[i \in 0 .. d] == IF i = 0 THEN Nothing ELSE Layer(at[i - 1])
  IN  at[d]

Numbers     == UNION {Plans(d).num : d \in Nat}
ByteStrings == UNION {Plans(d).bytes : d \in Nat}
Conditions  == UNION {Plans(d).cond : d \in Nat}

(* f has the layers up to n.                                               *)
Layered(f, n) == f = [i \in 0 .. n |-> IF i = 0 THEN Nothing ELSE Layer(f[i - 1])]

LEMMA LayersExist ==
  ASSUME NEW n \in Nat
  PROVE  \E f : Layered(f, n)
<1>1. PICK T : T = {m \in 0 .. n : \E f : Layered(f, m)}
  OBVIOUS
<1>2. 0 \in T
  <2>1. PICK f : f = [i \in 0 .. 0 |-> Nothing]
    OBVIOUS
  <2>2. f = [i \in 0 .. 0 |-> IF i = 0 THEN Nothing ELSE Layer(f[i - 1])]
    BY <2>1
  <2> QED BY <1>1, <2>2 DEF Layered
<1>3. ASSUME NEW m \in 0 .. n, 0 < m, m - 1 \in T  PROVE m \in T
  <2>1. PICK f : f = [i \in 0 .. m - 1 |-> IF i = 0 THEN Nothing ELSE Layer(f[i - 1])]
    BY <1>1, <1>3 DEF Layered
  <2>2. PICK L : L = Layer(f[m - 1])
    OBVIOUS
  <2>3. PICK g : g = [i \in 0 .. m |-> IF i = m THEN L ELSE f[i]]
    OBVIOUS
  <2>4. ASSUME NEW i \in 0 .. m  PROVE g[i] = IF i = 0 THEN Nothing ELSE Layer(g[i - 1])
    <3>1. i # 0 => g[i - 1] = f[i - 1]
      BY <2>3
    <3>2. CASE i = m
      BY <1>3, <2>2, <2>3, <3>1, <3>2
    <3>3. CASE i # m
      <4>1. i \in 0 .. m - 1 /\ g[i] = f[i]
        BY <2>3, <3>3
      <4> QED BY <2>1, <3>1, <4>1
    <3> QED BY <3>2, <3>3
  <2>5. g = [i \in 0 .. m |-> IF i = 0 THEN Nothing ELSE Layer(g[i - 1])]
    BY <2>3, <2>4
  <2> QED BY <1>1, <2>5 DEF Layered
<1>4. \A m \in 0 .. n : m \in T
  BY <1>2, <1>3, Upward
<1> QED BY <1>1, <1>4

LEMMA PlansUnfold ==
  ASSUME NEW n \in Nat
  PROVE  \E f : /\ Layered(f, n) /\ Plans(n) = f[n] /\ f[0] = Nothing
                /\ \A i \in 1 .. n : f[i] = Layer(f[i - 1])
<1>1. PICK f : f = CHOOSE h : h = [i \in 0 .. n |-> IF i = 0 THEN Nothing ELSE Layer(h[i - 1])]
  OBVIOUS
<1>2. f = [i \in 0 .. n |-> IF i = 0 THEN Nothing ELSE Layer(f[i - 1])]
  BY <1>1, LayersExist DEF Layered
<1>3. Plans(n) = f[n]
  BY <1>1 DEF Plans
<1>4. \A i \in 1 .. n : i \in 0 .. n /\ i # 0
  OBVIOUS
<1> QED BY <1>2, <1>3, <1>4 DEF Layered

(* One layer after the other.                                              *)
LEMMA PlanLaws ==
  /\ Plans(0) = Nothing
  /\ \A n \in Nat \ {0} : Plans(n) = Layer(Plans(n - 1))
<1>1. Plans(0) = Nothing
  BY PlansUnfold
<1>2. ASSUME NEW n \in Nat \ {0}  PROVE Plans(n) = Layer(Plans(n - 1))
  <2>1. PICK m \in Nat : m = n - 1
    OBVIOUS
  <2>2. PICK f : /\ Plans(m) = f[m] /\ f[0] = Nothing
                 /\ \A i \in 1 .. m : f[i] = Layer(f[i - 1])
    BY PlansUnfold
  <2>3. PICK g : /\ Plans(n) = g[n] /\ g[0] = Nothing
                 /\ \A i \in 1 .. n : g[i] = Layer(g[i - 1])
    BY PlansUnfold
  <2>4. PICK T : T = {i \in 0 .. m : f[i] = g[i]}
    OBVIOUS
  <2>5. 0 \in T
    BY <2>2, <2>3, <2>4
  <2>6. ASSUME NEW i \in 0 .. m, 0 < i, i - 1 \in T  PROVE i \in T
    <3>1. i \in 1 .. m /\ i \in 1 .. n
      BY <2>1, <2>6
    <3> QED BY <2>2, <2>3, <2>4, <2>6, <3>1
  <2>7. \A i \in 0 .. m : i \in T
    BY <2>5, <2>6, Upward
  <2>8. f[m] = g[m]
    BY <2>4, <2>7
  <2>9. n \in 1 .. n
    OBVIOUS
  <2> QED BY <2>1, <2>2, <2>3, <2>8, <2>9
<1> QED BY <1>1, <1>2

(* Sort by sort.                                                           *)
Within(p, q) == p.num \subseteq q.num /\ p.bytes \subseteq q.bytes /\ p.cond \subseteq q.cond

LEMMA LayerMonotone ==
  ASSUME NEW p, NEW q, Within(p, q)
  PROVE  Within(Layer(p), Layer(q))
BY OverMonotone DEF Within, Layer

LEMMA Deeper ==
  ASSUME NEW m \in Nat, NEW n \in Nat, m <= n
  PROVE  Within(Plans(m), Plans(n))
<1>1. ASSUME NEW k \in Nat  PROVE Within(Plans(k), Plans(k + 1))
  <2>1. PICK T : T = {i \in 0 .. k : Within(Plans(i), Plans(i + 1))}
    OBVIOUS
  <2>2. 0 \in T
    BY <2>1, PlanLaws DEF Within, Nothing
  <2>3. ASSUME NEW i \in 0 .. k, 0 < i, i - 1 \in T  PROVE i \in T
    <3>1. i \in Nat \ {0} /\ i + 1 \in Nat \ {0} /\ (i + 1) - 1 = i /\ (i - 1) + 1 = i
      BY <2>3
    <3>2. Within(Plans(i - 1), Plans(i))
      BY <2>1, <2>3, <3>1
    <3>3. Plans(i) = Layer(Plans(i - 1)) /\ Plans(i + 1) = Layer(Plans(i))
      BY <3>1, PlanLaws
    <3> QED BY <2>1, <3>2, <3>3, LayerMonotone
  <2>4. \A i \in 0 .. k : i \in T
    BY <2>2, <2>3, Upward
  <2> QED BY <2>1, <2>4
<1>2. PICK T : T = {i \in m .. n : Within(Plans(m), Plans(i))}
  OBVIOUS
<1>3. m \in T
  BY <1>2 DEF Within
<1>4. ASSUME NEW i \in m .. n, m < i, i - 1 \in T  PROVE i \in T
  <2>1. i - 1 \in Nat /\ (i - 1) + 1 = i
    BY <1>4
  <2>2. Within(Plans(i - 1), Plans(i))
    BY <1>1, <2>1
  <2> QED BY <1>2, <1>4, <2>2 DEF Within
<1>5. \A i \in m .. n : i \in T
  BY <1>3, <1>4, Upward
<1> QED BY <1>2, <1>5

(* Finitely many of the first layers are in one.                           *)
Rising(layer)          == \A d, e \in Nat : d <= e => layer[d] \subseteq layer[e]
Somewhere(s, n, layer) == \A i \in 1 .. n : \E d \in Nat : s[i] \in layer[d]

LEMMA Gathered ==
  ASSUME NEW n \in Nat, NEW s, NEW layer, Rising(layer), Somewhere(s, n, layer)
  PROVE  \E d \in Nat : \A i \in 1 .. n : s[i] \in layer[d]
<1>1. PICK T : T = {m \in 0 .. n : \E d \in Nat : \A i \in 1 .. m : s[i] \in layer[d]}
  OBVIOUS
<1>2. 0 \in T
  BY <1>1
<1>3. ASSUME NEW m \in 0 .. n, 0 < m, m - 1 \in T  PROVE m \in T
  <2>1. PICK d \in Nat : \A i \in 1 .. m - 1 : s[i] \in layer[d]
    BY <1>1, <1>3
  <2>2. PICK e \in Nat : s[m] \in layer[e]
    BY <1>3 DEF Somewhere
  <2>3. PICK h \in Nat : d <= h /\ e <= h
    <3>1. d <= d + e /\ e <= d + e /\ d + e \in Nat
      OBVIOUS
    <3> QED BY <3>1
  <2>4. layer[d] \subseteq layer[h] /\ layer[e] \subseteq layer[h]
    BY <2>3 DEF Rising
  <2>5. \A i \in 1 .. m : i = m \/ i \in 1 .. m - 1
    BY <1>3
  <2> QED BY <1>1, <2>1, <2>2, <2>4, <2>5
<1>4. \A m \in 0 .. n : m \in T
  BY <1>2, <1>3, Upward
<1>5. n \in T
  BY <1>4
<1> QED BY <1>1, <1>5

LEMMA PlanParts ==
  ASSUME NEW p
  PROVE  /\ Layer(p).num = NumbersOver(p.num, p.bytes, p.cond)
         /\ Layer(p).bytes = StringsOver(p.num, p.bytes, p.cond)
         /\ Layer(p).cond = ConditionsOver(p.num, p.bytes, p.cond)
BY DEF Layer

(* An expression over expressions is one.                                  *)
LEMMA PlansClosed ==
  /\ NumbersOver(Numbers, ByteStrings, Conditions) \subseteq Numbers
  /\ StringsOver(Numbers, ByteStrings, Conditions) \subseteq ByteStrings
  /\ ConditionsOver(Numbers, ByteStrings, Conditions) \subseteq Conditions
<1> DEFINE NN(d) == Plans(d).num
           BB(d) == Plans(d).bytes
           CC(d) == Plans(d).cond
<1>1. /\ \A x : x \in Numbers <=> \E d \in Nat : x \in NN(d)
      /\ \A x : x \in ByteStrings <=> \E d \in Nat : x \in BB(d)
      /\ \A x : x \in Conditions <=> \E d \in Nat : x \in CC(d)
  BY DEF Numbers, ByteStrings, Conditions
<1>2. \A d, e \in Nat : d <= e =>
        NN(d) \subseteq NN(e) /\ BB(d) \subseteq BB(e) /\ CC(d) \subseteq CC(e)
  BY Deeper DEF Within
<1>3. \A d \in Nat : /\ NumbersOver(NN(d), BB(d), CC(d)) \subseteq Numbers
                    /\ StringsOver(NN(d), BB(d), CC(d)) \subseteq ByteStrings
                    /\ ConditionsOver(NN(d), BB(d), CC(d)) \subseteq Conditions
  <2> TAKE d \in Nat
  <2>1. d + 1 \in Nat \ {0} /\ (d + 1) - 1 = d /\ d + 1 \in Nat
    OBVIOUS
  <2>2. Plans(d + 1) = Layer(Plans(d))
    BY <2>1, PlanLaws
  <2>3. /\ NN(d + 1) = NumbersOver(NN(d), BB(d), CC(d))
        /\ BB(d + 1) = StringsOver(NN(d), BB(d), CC(d))
        /\ CC(d + 1) = ConditionsOver(NN(d), BB(d), CC(d))
    BY <2>2, PlanParts
  <2> HIDE DEF NN, BB, CC
  <2> QED BY <1>1, <2>1, <2>3
<1> HIDE DEF NN, BB, CC
<1>4. \A d, e, h \in Nat : \E m \in Nat : d <= m /\ e <= m /\ h <= m
  <2> TAKE d, e, h \in Nat
  <2>1. d <= d + e + h /\ e <= d + e + h /\ h <= d + e + h /\ d + e + h \in Nat
    OBVIOUS
  <2> QED BY <2>1
<1>5. ASSUME NEW es \in Seq(ByteStrings)
      PROVE  \E d \in Nat : es \in Seq(BB(d))
  <2>1. PICK layer : layer = [d \in Nat |-> BB(d)]
    OBVIOUS
  <2>2. Rising(layer)
    BY <1>2, <2>1 DEF Rising
  <2>3. PICK n \in Nat : n = Len(es) /\ es \in [1 .. n -> ByteStrings]
    OBVIOUS
  <2>4. Somewhere(es, n, layer)
    BY <1>1, <2>1, <2>3 DEF Somewhere
  <2>5. PICK d \in Nat : \A i \in 1 .. n : es[i] \in layer[d]
    BY <2>2, <2>4, Gathered
  <2>6. es \in [1 .. n -> BB(d)]
    BY <2>1, <2>3, <2>5
  <2> QED BY <2>6
<1>6. ASSUME NEW es \in Seq(Conditions)
      PROVE  \E d \in Nat : es \in Seq(CC(d))
  <2>1. PICK layer : layer = [d \in Nat |-> CC(d)]
    OBVIOUS
  <2>2. Rising(layer)
    BY <1>2, <2>1 DEF Rising
  <2>3. PICK n \in Nat : n = Len(es) /\ es \in [1 .. n -> Conditions]
    OBVIOUS
  <2>4. Somewhere(es, n, layer)
    BY <1>1, <2>1, <2>3 DEF Somewhere
  <2>5. PICK d \in Nat : \A i \in 1 .. n : es[i] \in layer[d]
    BY <2>2, <2>4, Gathered
  <2>6. es \in [1 .. n -> CC(d)]
    BY <2>1, <2>3, <2>5
  <2> QED BY <2>6
(* The parts of an expression are in one layer.                            *)
<1>7. \A x \in Conditions, y \in Numbers, z \in Numbers :
        \E m \in Nat : x \in CC(m) /\ y \in NN(m) /\ z \in NN(m)
  <2> TAKE x \in Conditions, y \in Numbers, z \in Numbers
  <2>1. PICK d \in Nat, e \in Nat, h \in Nat : x \in CC(d) /\ y \in NN(e) /\ z \in NN(h)
    BY <1>1
  <2>2. PICK m \in Nat : d <= m /\ e <= m /\ h <= m
    BY <1>4
  <2> QED BY <1>2, <2>1, <2>2
<1>8. \A x \in ByteStrings, y \in Numbers, z \in Numbers :
        \E m \in Nat : x \in BB(m) /\ y \in NN(m) /\ z \in NN(m)
  <2> TAKE x \in ByteStrings, y \in Numbers, z \in Numbers
  <2>1. PICK d \in Nat, e \in Nat, h \in Nat : x \in BB(d) /\ y \in NN(e) /\ z \in NN(h)
    BY <1>1
  <2>2. PICK m \in Nat : d <= m /\ e <= m /\ h <= m
    BY <1>4
  <2> QED BY <1>2, <2>1, <2>2
<1>9. \A x \in Conditions, y \in ByteStrings, z \in ByteStrings :
        \E m \in Nat : x \in CC(m) /\ y \in BB(m) /\ z \in BB(m)
  <2> TAKE x \in Conditions, y \in ByteStrings, z \in ByteStrings
  <2>1. PICK d \in Nat, e \in Nat, h \in Nat : x \in CC(d) /\ y \in BB(e) /\ z \in BB(h)
    BY <1>1
  <2>2. PICK m \in Nat : d <= m /\ e <= m /\ h <= m
    BY <1>4
  <2> QED BY <1>2, <2>1, <2>2
<1>10. \A x \in Numbers, y \in Numbers, z \in Numbers :
        \E m \in Nat : x \in NN(m) /\ y \in NN(m) /\ z \in NN(m)
  <2> TAKE x \in Numbers, y \in Numbers, z \in Numbers
  <2>1. PICK d \in Nat, e \in Nat, h \in Nat : x \in NN(d) /\ y \in NN(e) /\ z \in NN(h)
    BY <1>1
  <2>2. PICK m \in Nat : d <= m /\ e <= m /\ h <= m
    BY <1>4
  <2> QED BY <1>2, <2>1, <2>2
<1>15. \A x \in ByteStrings, y \in ByteStrings, z \in ByteStrings :
        \E m \in Nat : x \in BB(m) /\ y \in BB(m) /\ z \in BB(m)
  <2> TAKE x \in ByteStrings, y \in ByteStrings, z \in ByteStrings
  <2>1. PICK d \in Nat, e \in Nat, h \in Nat : x \in BB(d) /\ y \in BB(e) /\ z \in BB(h)
    BY <1>1
  <2>2. PICK m \in Nat : d <= m /\ e <= m /\ h <= m
    BY <1>4
  <2> QED BY <1>2, <2>1, <2>2
<1>11. 0 \in Nat
  OBVIOUS
<1>12. ASSUME NEW x \in NumbersOver(Numbers, ByteStrings, Conditions)
       PROVE  \E d \in Nat : x \in NumbersOver(NN(d), BB(d), CC(d))
  <2>1. CASE \/ \E n \in Num : x = Const(n)
             \/ \E i \in Nat : x = Word(i)
             \/ x = BlockHeight \/ x = Var
    BY <1>11, <2>1, NumberCases
  <2>2. CASE \E op \in BinaryOps, a \in Numbers, b \in Numbers : x = Binary(op, a, b)
    BY <1>10, <2>2, NumberCases
  <2>3. CASE \/ \E e \in ByteStrings : x = ULe(e)
             \/ \E e \in ByteStrings : x = Length(e)
    BY <1>1, <2>3, NumberCases
  <2>4. CASE \E c \in Conditions, t \in Numbers, e \in Numbers : x = If(c, t, e)
    <3>1. PICK c \in Conditions, t \in Numbers, e \in Numbers : x = If(c, t, e)
      BY <2>4
    <3>2. PICK m \in Nat : c \in CC(m) /\ t \in NN(m) /\ e \in NN(m)
      BY <1>7
    <3> QED BY <3>1, <3>2, NumberCases
  <2> QED BY <1>12, <2>1, <2>2, <2>3, <2>4, NumberCases
<1>13. ASSUME NEW x \in StringsOver(Numbers, ByteStrings, Conditions)
       PROVE  \E d \in Nat : x \in StringsOver(NN(d), BB(d), CC(d))
  <2>1. CASE \/ \E d \in Seq(Byte) : x = Bytes(d)
             \/ \E s \in Nat, n \in Nat \cup {ToEnd} : x = Calldata(s, n)
    BY <1>11, <2>1, StringCases
  <2>2. CASE \E e \in ByteStrings : x = Storage(e)
    BY <1>1, <2>2, StringCases
  <2>3. CASE \E es \in Seq(ByteStrings) : x = Concat(es)
    BY <1>5, <2>3, StringCases
  <2>4. CASE \E e \in ByteStrings, s \in Numbers, n \in Numbers : x = Slice(e, s, n)
    BY <1>8, <2>4, StringCases
  <2>5. CASE \E e \in Numbers, w \in Nat : x = Le(e, w)
    BY <1>1, <2>5, StringCases
  <2>6. CASE \E c \in Conditions, t \in ByteStrings, e \in ByteStrings : x = Choice(c, t, e)
    BY <1>9, <2>6, StringCases
  <2>7. CASE \E n \in Numbers, e \in ByteStrings : x = Loop(n, e)
    BY <1>8, <2>7, StringCases
  <2> QED BY <1>13, <2>1, <2>2, <2>3, <2>4, <2>5, <2>6, <2>7, StringCases
<1>14. ASSUME NEW x \in ConditionsOver(Numbers, ByteStrings, Conditions)
       PROVE  \E d \in Nat : x \in ConditionsOver(NN(d), BB(d), CC(d))
  <2>1. CASE \E c \in Comparisons \ {"beq"}, a \in Numbers, b \in Numbers :
                 x = Compare(c, a, b)
    BY <1>10, <2>1, ConditionCases
  <2>2. CASE \E a \in ByteStrings, b \in ByteStrings : x = Compare("beq", a, b)
    BY <1>15, <2>2, ConditionCases
  <2>3. CASE \/ \E es \in Seq(Conditions) : x = AllOf(es)
             \/ \E es \in Seq(Conditions) : x = AnyOf(es)
    BY <1>6, <2>3, ConditionCases
  <2>4. CASE \E e \in Conditions : x = Negation(e)
    BY <1>1, <2>4, ConditionCases
  <2> QED BY <1>14, <2>1, <2>2, <2>3, <2>4, ConditionCases
<1> QED BY <1>3, <1>12, <1>13, <1>14

(* What holds of all expressions over those it holds of, holds of all.     *)
LEMMA PlansLeast ==
  ASSUME NEW N, NEW B, NEW C,
         NumbersOver(N, B, C) \subseteq N, StringsOver(N, B, C) \subseteq B,
         ConditionsOver(N, B, C) \subseteq C
  PROVE  Numbers \subseteq N /\ ByteStrings \subseteq B /\ Conditions \subseteq C
<1>1. PICK q : q = [num |-> N, bytes |-> B, cond |-> C]
  OBVIOUS
<1>2. Within(Layer(q), q)
  BY <1>1 DEF Within, Layer
<1>3. ASSUME NEW n \in Nat  PROVE Within(Plans(n), q)
  <2>1. PICK T : T = {i \in 0 .. n : Within(Plans(i), q)}
    OBVIOUS
  <2>2. 0 \in T
    BY <2>1, PlanLaws DEF Within, Nothing
  <2>3. ASSUME NEW i \in 0 .. n, 0 < i, i - 1 \in T  PROVE i \in T
    <3>1. Plans(i) = Layer(Plans(i - 1))
      BY <2>3, PlanLaws
    <3>2. Within(Plans(i), Layer(q))
      BY <2>1, <2>3, <3>1, LayerMonotone
    <3> QED BY <1>2, <2>1, <3>2 DEF Within
  <2>4. \A i \in 0 .. n : i \in T
    BY <2>2, <2>3, Upward
  <2> QED BY <2>1, <2>4
<1>4. \A n \in Nat : /\ Plans(n).num \subseteq N /\ Plans(n).bytes \subseteq B
                    /\ Plans(n).cond \subseteq C
  BY <1>1, <1>3 DEF Within
<1> QED BY <1>4 DEF Numbers, ByteStrings, Conditions

(* Every plan is an expression over plans. *)
LEMMA PlansOverPlans ==
  /\ Numbers = NumbersOver(Numbers, ByteStrings, Conditions)
  /\ ByteStrings = StringsOver(Numbers, ByteStrings, Conditions)
  /\ Conditions = ConditionsOver(Numbers, ByteStrings, Conditions)
<1>1. PICK N, B, C : /\ N = NumbersOver(Numbers, ByteStrings, Conditions)
                     /\ B = StringsOver(Numbers, ByteStrings, Conditions)
                     /\ C = ConditionsOver(Numbers, ByteStrings, Conditions)
  OBVIOUS
<1>2. N \subseteq Numbers /\ B \subseteq ByteStrings /\ C \subseteq Conditions
  BY <1>1, PlansClosed
<1>3. /\ NumbersOver(N, B, C) \subseteq N /\ StringsOver(N, B, C) \subseteq B
      /\ ConditionsOver(N, B, C) \subseteq C
  BY <1>1, <1>2, OverMonotone
<1>4. Numbers \subseteq N /\ ByteStrings \subseteq B /\ Conditions \subseteq C
  BY <1>3, PlansLeast
<1> QED BY <1>1, <1>2, <1>4

----------------------------------------------------------------------------
(* What an expression makes of the values of its operands. *)

LEMMA StorageStep ==
  ASSUME NEW a, NEW env, NEW var, Eval(a, env, var) \in Results(Data)
  PROVE  /\ EvalStep(Storage(a), env, var) = Of1(Storage(a), Eval(a, env, var), env, var)
         /\ \A u : Makes(Storage(a), <<u>>, env, var) = StoredAt(env, u)
         /\ (Storage(a).k = "storage") <=> TRUE
<1>1. /\ Ordinary(Storage(a)) /\ Operands(Storage(a)) = <<a>>
      /\ (Storage(a).k = "storage") <=> TRUE
  BY DEF Storage, Operands, Ordinary, BinaryOps, Comparisons
<1>2. ASSUME NEW u  PROVE Makes(Storage(a), <<u>>, env, var) = StoredAt(env, u)
  BY DEF Storage, Makes, BinaryOps, Comparisons
<1> QED BY <1>1, <1>2, Unary

LEMMA LeStep ==
  ASSUME NEW w, NEW a, NEW env, NEW var, Eval(a, env, var) \in Results(Data)
  PROVE  /\ EvalStep(Le(a, w), env, var) = Of1(Le(a, w), Eval(a, env, var), env, var)
         /\ \A u : Makes(Le(a, w), <<u>>, env, var) =
                     IF w > PlanLen THEN Panic ELSE LeBytes(u, w)
         /\ (Le(a, w).k = "storage") <=> FALSE
<1>1. /\ Ordinary(Le(a, w)) /\ Operands(Le(a, w)) = <<a>>
      /\ (Le(a, w).k = "storage") <=> FALSE
  BY DEF Le, Operands, Ordinary, BinaryOps, Comparisons
<1>2. ASSUME NEW u
      PROVE  Makes(Le(a, w), <<u>>, env, var) = IF w > PlanLen THEN Panic ELSE LeBytes(u, w)
  BY DEF Le, Makes, BinaryOps, Comparisons
<1> QED BY <1>1, <1>2, Unary

LEMMA ULeStep ==
  ASSUME NEW a, NEW env, NEW var, Eval(a, env, var) \in Results(Data)
  PROVE  /\ EvalStep(ULe(a), env, var) = Of1(ULe(a), Eval(a, env, var), env, var)
         /\ \A u : Makes(ULe(a), <<u>>, env, var) = NumOf(u)
         /\ (ULe(a).k = "storage") <=> FALSE
<1>1. /\ Ordinary(ULe(a)) /\ Operands(ULe(a)) = <<a>>
      /\ (ULe(a).k = "storage") <=> FALSE
  BY DEF ULe, Operands, Ordinary, BinaryOps, Comparisons
<1>2. ASSUME NEW u  PROVE Makes(ULe(a), <<u>>, env, var) = NumOf(u)
  BY DEF ULe, Makes, BinaryOps, Comparisons
<1> QED BY <1>1, <1>2, Unary

LEMMA LengthStep ==
  ASSUME NEW a, NEW env, NEW var, Eval(a, env, var) \in Results(Data)
  PROVE  /\ EvalStep(Length(a), env, var) = Of1(Length(a), Eval(a, env, var), env, var)
         /\ \A u : Makes(Length(a), <<u>>, env, var) = Len(u) % Modulus
         /\ (Length(a).k = "storage") <=> FALSE
<1>1. /\ Ordinary(Length(a)) /\ Operands(Length(a)) = <<a>>
      /\ (Length(a).k = "storage") <=> FALSE
  BY DEF Length, Operands, Ordinary, BinaryOps, Comparisons
<1>2. ASSUME NEW u  PROVE Makes(Length(a), <<u>>, env, var) = Len(u) % Modulus
  BY DEF Length, Makes, BinaryOps, Comparisons
<1> QED BY <1>1, <1>2, Unary

LEMMA NegationStep ==
  ASSUME NEW a, NEW env, NEW var, Eval(a, env, var) \in Results(Data)
  PROVE  /\ EvalStep(Negation(a), env, var) = Of1(Negation(a), Eval(a, env, var), env, var)
         /\ \A u : Makes(Negation(a), <<u>>, env, var) = ~u
         /\ (Negation(a).k = "storage") <=> FALSE
<1>1. /\ Ordinary(Negation(a)) /\ Operands(Negation(a)) = <<a>>
      /\ (Negation(a).k = "storage") <=> FALSE
  BY DEF Negation, Operands, Ordinary, BinaryOps, Comparisons
<1>2. ASSUME NEW u  PROVE Makes(Negation(a), <<u>>, env, var) = ~u
  BY DEF Negation, Makes, BinaryOps, Comparisons
<1> QED BY <1>1, <1>2, Unary

LEMMA SliceStep ==
  ASSUME NEW a, NEW b, NEW c, NEW env, NEW var, Eval(a, env, var) \in Results(Data),
         Eval(b, env, var) \in Results(Data), Eval(c, env, var) \in Results(Data)
  PROVE  /\ EvalStep(Slice(a, b, c), env, var) =
              Of3(Slice(a, b, c), Eval(a, env, var), Eval(b, env, var), Eval(c, env, var),
                  env, var)
         /\ \A u, v, w : Makes(Slice(a, b, c), <<u, v, w>>, env, var) = Cut(u, v, w)
<1>1. /\ Ordinary(Slice(a, b, c)) /\ Operands(Slice(a, b, c)) = <<a, b, c>>
      /\ Slice(a, b, c).k # "storage"
  BY DEF Slice, Operands, Ordinary, BinaryOps, Comparisons
<1>2. ASSUME NEW u, NEW v, NEW w
      PROVE  Makes(Slice(a, b, c), <<u, v, w>>, env, var) = Cut(u, v, w)
  BY DEF Slice, Makes, BinaryOps, Comparisons
<1> QED BY <1>1, <1>2, Triadic

LEMMA CompareStep ==
  ASSUME NEW op \in Comparisons, NEW a, NEW b, NEW env, NEW var,
         Eval(a, env, var) \in Results(Data), Eval(b, env, var) \in Results(Data)
  PROVE  /\ EvalStep(Compare(op, a, b), env, var) =
              Of2(Compare(op, a, b), Eval(a, env, var), Eval(b, env, var), env, var)
         /\ \A u, v : Makes(Compare(op, a, b), <<u, v>>, env, var) = Compares(op, u, v)
<1>1. /\ Ordinary(Compare(op, a, b)) /\ Operands(Compare(op, a, b)) = <<a, b>>
      /\ Compare(op, a, b).k # "storage"
  BY DEF Compare, Operands, Ordinary, BinaryOps, Comparisons
<1>2. ASSUME NEW u, NEW v
      PROVE  Makes(Compare(op, a, b), <<u, v>>, env, var) = Compares(op, u, v)
  BY DEF Compare, Makes, BinaryOps, Comparisons
<1> QED BY <1>1, <1>2, Dyadic

(* An operator yields a value where both operands have one it is defined   *)
(* on, whichever of them is evaluated first.                               *)
Operated(op, x, y, r) ==
  /\ r \in Numerals
  /\ ~Failed(r.v) <=> ~Failed(x.v) /\ ~Failed(y.v) /\ ~Failed(Apply(op, x.v, y.v))
  /\ ~Failed(r.v) => r = Result(Apply(op, x.v, y.v), x.keys \cup y.keys)

LEMMA NotOperated ==
  ASSUME NEW op, NEW x, NEW y, NEW r, NEW v \in {Err, Panic}, NEW k \in SUBSET Seq(Byte),
         r = Result(v, k), Failed(x.v) \/ Failed(y.v) \/ Failed(Apply(op, x.v, y.v))
  PROVE  Operated(op, x, y, r)
<1>1. r.v = v /\ Failed(r.v) /\ r \in Numerals
  BY DEF Result, Numerals, Results, Failed
<1> QED BY <1>1 DEF Operated

LEMMA IsOperated ==
  ASSUME NEW op \in BinaryOps, NEW x \in Numerals, NEW y \in Numerals, NEW r,
         ~Failed(x.v), ~Failed(y.v), r = Result(Apply(op, x.v, y.v), x.keys \cup y.keys)
  PROVE  Operated(op, x, y, r)
<1>1. x.v \in Num /\ y.v \in Num /\ x.keys \cup y.keys \in SUBSET Seq(Byte)
  BY DEF Numerals, Results, Failed
<1>2. PICK v \in Num \cup {Err} : v = Apply(op, x.v, y.v)
  BY <1>1, ApplyType
<1>3. r.v = v /\ r \in Numerals
  BY <1>1, <1>2 DEF Result, Numerals, Results
<1> QED BY <1>2, <1>3 DEF Operated

LEMMA BinaryStep ==
  ASSUME NEW op \in BinaryOps, NEW a, NEW b, NEW env, NEW var,
         Eval(a, env, var) \in Numerals, Eval(b, env, var) \in Numerals
  PROVE  Operated(op, Eval(a, env, var), Eval(b, env, var),
                  EvalStep(Binary(op, a, b), env, var))
<1>1. PICK x \in Numerals, y \in Numerals : x = Eval(a, env, var) /\ y = Eval(b, env, var)
  OBVIOUS
<1>2. x \in Results(Data) /\ y \in Results(Data)
  BY SortsAreData
<1>3. /\ x.v \in Num \cup {Err, Panic} /\ x.keys \in SUBSET Seq(Byte)
      /\ x = Result(x.v, x.keys)
      /\ y.v \in Num \cup {Err, Panic} /\ y.keys \in SUBSET Seq(Byte)
      /\ y = Result(y.v, y.keys)
      /\ x.keys \cup y.keys \in SUBSET Seq(Byte) /\ y.keys \cup x.keys = x.keys \cup y.keys
  BY DEF Numerals, Results, Result
<1>4. (Failed(x.v) => x.v \in {Err, Panic}) /\ (Failed(y.v) => y.v \in {Err, Panic})
  BY DEF Failed
<1>5. PICK r : r = EvalStep(Binary(op, a, b), env, var)
  OBVIOUS
<1>6. SUFFICES Operated(op, x, y, r)
  BY <1>1, <1>5
<1>10. CASE op \in {"div", "mod"}
  <2>1. r =
          IF Failed(y.v) THEN y
          ELSE IF y.v = 0 THEN Result(Err, y.keys)
          ELSE After(Result(IF Failed(x.v) THEN x.v ELSE Apply(op, x.v, y.v), x.keys), y.keys)
    BY <1>1, <1>5, <1>10 DEF EvalStep, Evaluation, Binary
  <2>2. \A v : After(Result(v, x.keys), y.keys) = Result(v, x.keys \cup y.keys)
    BY DEF After, Result
  <2>3. Failed(Err) /\ \A u : Apply(op, u, 0) = Err
    BY <1>10 DEF Failed, Apply
  <2>4. CASE Failed(y.v)
    BY <1>3, <1>4, <2>1, <2>4, NotOperated
  <2>5. CASE ~Failed(y.v) /\ y.v = 0
    BY <1>3, <2>1, <2>3, <2>5, NotOperated
  <2>6. CASE ~Failed(y.v) /\ y.v # 0 /\ Failed(x.v)
    <3>1. r = Result(x.v, x.keys \cup y.keys)
      BY <2>1, <2>2, <2>6
    <3> QED BY <1>3, <1>4, <2>6, <3>1, NotOperated
  <2>7. CASE ~Failed(y.v) /\ y.v # 0 /\ ~Failed(x.v)
    <3>1. r = Result(Apply(op, x.v, y.v), x.keys \cup y.keys)
      BY <2>1, <2>2, <2>7
    <3> QED BY <2>7, <3>1, IsOperated
  <2> QED BY <2>4, <2>5, <2>6, <2>7
<1>11. CASE op \in {"shr", "shl"}
  <2>1. /\ Ordinary(Binary(op, a, b)) /\ Operands(Binary(op, a, b)) = <<b, a>>
        /\ Binary(op, a, b).k # "storage"
    BY <1>11 DEF Binary, Operands, Ordinary, BinaryOps, Comparisons
  <2>2. \A u, v : Makes(Binary(op, a, b), <<v, u>>, env, var) = Apply(op, u, v)
    BY <1>11 DEF Binary, Makes, BinaryOps, Comparisons
  <2>3. r = Of2(Binary(op, a, b), y, x, env, var)
    BY <1>1, <1>2, <1>5, <2>1, Dyadic
  <2>4. CASE Failed(y.v)
    <3>1. r = Result(y.v, y.keys)
      BY <2>3, <2>4 DEF Of2
    <3> QED BY <1>3, <1>4, <2>4, <3>1, NotOperated
  <2>5. CASE ~Failed(y.v) /\ Failed(x.v)
    <3>1. r = Result(x.v, y.keys \cup x.keys)
      BY <2>3, <2>5 DEF Of2
    <3> QED BY <1>3, <1>4, <2>5, <3>1, NotOperated
  <2>6. CASE ~Failed(y.v) /\ ~Failed(x.v)
    <3>1. r = Result(Apply(op, x.v, y.v), x.keys \cup y.keys)
      BY <1>3, <2>2, <2>3, <2>6 DEF Of2
    <3> QED BY <2>6, <3>1, IsOperated
  <2> QED BY <2>4, <2>5, <2>6
<1>12. CASE op \notin {"div", "mod", "shr", "shl"}
  <2>1. /\ Ordinary(Binary(op, a, b)) /\ Operands(Binary(op, a, b)) = <<a, b>>
        /\ Binary(op, a, b).k # "storage"
    BY <1>12 DEF Binary, Operands, Ordinary, BinaryOps, Comparisons
  <2>2. \A u, v : Makes(Binary(op, a, b), <<u, v>>, env, var) = Apply(op, u, v)
    BY <1>12 DEF Binary, Makes, BinaryOps, Comparisons
  <2>3. r = Of2(Binary(op, a, b), x, y, env, var)
    BY <1>1, <1>2, <1>5, <2>1, Dyadic
  <2>4. CASE Failed(x.v)
    <3>1. r = Result(x.v, x.keys)
      BY <2>3, <2>4 DEF Of2
    <3> QED BY <1>3, <1>4, <2>4, <3>1, NotOperated
  <2>5. CASE ~Failed(x.v) /\ Failed(y.v)
    <3>1. r = Result(y.v, x.keys \cup y.keys)
      BY <2>3, <2>5 DEF Of2
    <3> QED BY <1>3, <1>4, <2>5, <3>1, NotOperated
  <2>6. CASE ~Failed(x.v) /\ ~Failed(y.v)
    <3>1. r = Result(Apply(op, x.v, y.v), x.keys \cup y.keys)
      BY <1>3, <2>2, <2>3, <2>6 DEF Of2
    <3> QED BY <2>6, <3>1, IsOperated
  <2> QED BY <2>4, <2>5, <2>6
<1> QED BY <1>10, <1>11, <1>12

LEMMA ChoiceStep ==
  ASSUME NEW c, NEW t, NEW e, NEW env, NEW var
  PROVE  /\ EvalStep(If(c, t, e), env, var) = EvalStep(Choice(c, t, e), env, var)
         /\ EvalStep(Choice(c, t, e), env, var) =
             IF Failed(Eval(c, env, var).v) THEN Eval(c, env, var)
             ELSE After(Eval(IF Eval(c, env, var).v THEN t ELSE e, env, var),
                        Eval(c, env, var).keys)
BY DEF EvalStep, Evaluation, If, Choice

----------------------------------------------------------------------------
(* Types of the values. *)

LEMMA CalldatumType ==
  ASSUME NEW env \in PlanEnvs
  PROVE  Calldatum(env) \in Seq(Byte)
<1>1. PICK w \in Seq(Num), p \in Nat \ {0} : w = env.words /\ p = PlanLen
  BY WorldAssumption, BaseAssumption
<1>2. PICK n \in Nat : n = Len(w) * p
  OBVIOUS
<1>3. ASSUME NEW i \in 1 .. n
      PROVE  LeBytes(w[(i - 1) \div p + 1], p)[((i - 1) % p) + 1] \in Byte
  <2>1. PICK j \in Nat : j = i - 1 /\ j < Len(w) * p
    BY <1>2
  <2>2. j \div p \in 0 .. Len(w) - 1
    <3>1. PICK q \in Nat : q = j \div p /\ q * p <= j
      <4>1. j \div p \in Nat
        OBVIOUS
      <4>2. (j \div p) * p <= j
        OBVIOUS
      <4> QED BY <4>1, <4>2
    <3>2. PICK l \in Nat : l = Len(w)
      OBVIOUS
    <3>3. ASSUME q >= l  PROVE FALSE
      <4>1. q * p >= l * p
        BY <3>3
      <4> QED BY <2>1, <3>1, <3>2, <4>1
    <3> QED BY <3>1, <3>2, <3>3
  <2>3. w[j \div p + 1] \in Num
    BY <2>2
  <2>4. (j % p) + 1 \in 1 .. p
    BY <2>1
  <2>5. PICK c \in Nat : c = w[j \div p + 1]
    BY <2>3, ModulusAssumption DEF Num
  <2>6. LeBytes(c, p) \in [1 .. p -> Byte]
    BY LeType
  <2> QED BY <2>1, <2>4, <2>5, <2>6
<1>4. Calldatum(env) =
        [i \in 1 .. n |-> LeBytes(w[(i - 1) \div p + 1], p)[((i - 1) % p) + 1]]
  BY <1>1, <1>2 DEF Calldatum
<1>5. Calldatum(env) \in [1 .. n -> Byte]
  BY <1>3, <1>4
<1> QED BY <1>5

LEMMA FromType ==
  ASSUME NEW env \in PlanEnvs, NEW s \in Nat, NEW n \in Nat \cup {ToEnd}
  PROVE  From(env, s, n) \in Seq(Byte) \cup {Err, Panic}
<1>1. PICK all \in Seq(Byte) : all = Calldatum(env)
  BY CalldatumType
<1>2. CASE s > Len(all)
  BY <1>1, <1>2 DEF From
<1>3. CASE s <= Len(all)
  <2>1. SubSeq(all, s + 1, Len(all)) \in Seq(Byte)
    BY <1>3
  <2>2. n \in Nat /\ ~(s + n > Len(all)) => SubSeq(all, s + 1, s + n) \in Seq(Byte)
    BY <1>3
  <2> QED BY <1>1, <1>3, <2>1, <2>2, MarkAssumption DEF From
<1> QED BY <1>2, <1>3

LEMMA CutType ==
  ASSUME NEW d \in Seq(Byte), NEW s \in Num, NEW n \in Num
  PROVE  Cut(d, s, n) \in Seq(Byte) \cup {Err, Panic}
<1>0. s \in Nat /\ n \in Nat /\ USize \in Nat \ {0}
  BY LimitAssumption, ModulusAssumption DEF Num
<1>1. PICK a \in Nat, l \in Nat : a = s % USize /\ l = n % USize
  <2>1. s % USize \in Nat /\ n % USize \in Nat
    BY <1>0
  <2> QED BY <2>1
<1>2. ~(a + l > Len(d)) => SubSeq(d, a + 1, a + l) \in Seq(Byte)
  OBVIOUS
<1> QED BY <1>1, <1>2 DEF Cut

LEMMA StoredBytes ==
  ASSUME NEW env \in PlanEnvs, NEW key
  PROVE  StoredAt(env, key) \in Seq(Byte)
<1>1. <<>> \in Seq(Byte)
  OBVIOUS
<1> QED BY <1>1, WorldAssumption DEF StoredAt

LEMMA LeBytesType ==
  ASSUME NEW c \in Num, NEW n \in Nat
  PROVE  LeBytes(c, n) \in Seq(Byte)
<1>1. c \in Nat
  BY ModulusAssumption DEF Num
<1>2. LeBytes(c, n) \in [1 .. n -> Byte]
  BY <1>1, LeType
<1> QED BY <1>2

LEMMA LengthType ==
  ASSUME NEW d \in Seq(Byte)
  PROVE  Len(d) % Modulus \in Num
BY ModulusAssumption DEF Num

LEMMA AfterType ==
  ASSUME NEW V, NEW r \in Results(V), NEW keys \in SUBSET Seq(Byte)
  PROVE  After(r, keys) \in Results(V)
<1>1. r.keys \cup keys \in SUBSET Seq(Byte)
  BY DEF Results
<1> QED BY <1>1 DEF After, Result, Results

LEMMA JoinsType ==
  ASSUME NEW f, NEW n \in Nat, NEW rs, Joins(f, n, rs)
  PROVE  f[n] \in Contents
BY DEF Joins

(* Whatever becomes of its condition. *)
LEMMA ChoiceType ==
  ASSUME NEW V, NEW c \in Verdicts, NEW t \in Results(V), NEW e \in Results(V)
  PROVE  (IF Failed(c.v) THEN c ELSE After(IF c.v THEN t ELSE e, c.keys)) \in Results(V)
<1>1. c.v \in BOOLEAN \cup {Err, Panic} /\ c.keys \in SUBSET Seq(Byte)
  BY DEF Verdicts, Results
<1>2. CASE Failed(c.v)
  <2>1. c = Result(c.v, c.keys) /\ c.v \in {Err, Panic}
    BY <1>2 DEF Verdicts, Results, Result, Failed
  <2> QED BY <1>1, <1>2, <2>1 DEF Result, Results
<1>3. CASE ~Failed(c.v)
  BY <1>1, <1>3, AfterType
<1> QED BY <1>2, <1>3

LEMMA LoopType ==
  ASSUME NEW env, NEW var, NEW a, NEW b, Eval(a, env, var) \in Numerals,
         \A u \in Vars : Eval(b, env, u) \in Contents
  PROVE  EvalStep(Loop(a, b), env, var) \in Contents
<1>1. PICK c \in Numerals : c = Eval(a, env, var)
  OBVIOUS
<1>2. c.v \in Num \cup {Err, Panic} /\ c.keys \in SUBSET Seq(Byte)
  BY DEF Numerals, Results
<1>3. CASE Failed(c.v)
  <2>1. EvalStep(Loop(a, b), env, var) = c
    BY <1>1, <1>3 DEF EvalStep, Evaluation, Loop
  <2>2. c = Result(c.v, c.keys) /\ c.v \in {Err, Panic}
    BY <1>3 DEF Numerals, Results, Result, Failed
  <2> QED BY <1>2, <2>1, <2>2 DEF Contents, Result, Results
<1>4. CASE ~Failed(c.v) /\ c.v > LoopLimit
  <2>1. EvalStep(Loop(a, b), env, var) = Result(Err, c.keys)
    BY <1>1, <1>4 DEF EvalStep, Evaluation, Loop
  <2> QED BY <1>2, <2>1 DEF Contents, Result, Results
<1>5. CASE ~Failed(c.v) /\ ~(c.v > LoopLimit)
  <2>1. PICK n \in Num : n = c.v
    BY <1>2, <1>5 DEF Failed
  <2>2. n \in Nat /\ n <= LoopLimit /\ ~Failed(n)
    BY <1>5, <2>1, LimitAssumption, ModulusAssumption DEF Num
  <2>3. PICK rs : rs = [i \in 1 .. n |-> Eval(b, env, i - 1)]
    OBVIOUS
  <2>4. \A i \in 1 .. n : i - 1 \in Vars
    BY ModulusAssumption DEF Vars, Num
  <2>5. Turns(rs, n, b, env)
    BY <2>3, <2>4 DEF Turns
  <2>6. PICK f : /\ Joins(f, n, rs)
                 /\ EvalStep(Loop(a, b), env, var) = After(f[n], c.keys)
    <3>1. Eval(a, env, var).v = n
      BY <1>1, <2>1
    <3>2. \E f : /\ Joins(f, n, rs)
                 /\ EvalStep(Loop(a, b), env, var) = After(f[n], Eval(a, env, var).keys)
      BY <2>2, <2>5, <3>1, LoopStep
    <3> QED BY <1>1, <3>2
  <2>7. f[n] \in Contents
    BY <2>2, <2>6, JoinsType
  <2> QED BY <1>2, <2>6, <2>7, AfterType DEF Contents
<1> QED BY <1>3, <1>4, <1>5

LEMMA ConcatType ==
  ASSUME NEW env, NEW var, NEW B, NEW es \in Seq(B), \A e \in B : Eval(e, env, var) \in Contents
  PROVE  EvalStep(Concat(es), env, var) \in Contents
<1>1. PICK rs : rs = [i \in 1 .. Len(es) |-> Eval(es[i], env, var)]
  OBVIOUS
<1>2. /\ Len(es) \in Nat /\ rs \in [1 .. Len(es) -> Contents]
      /\ \A i \in 1 .. Len(es) : rs[i] = Eval(es[i], env, var)
  BY <1>1
<1>3. PICK f : Joins(f, Len(es), rs) /\ EvalStep(Concat(es), env, var) = f[Len(es)]
  BY <1>2, ConcatStep
<1> QED BY <1>2, <1>3, JoinsType

LEMMA AllType ==
  ASSUME NEW env, NEW var, NEW C, NEW es \in Seq(C),
         \A e \in C : Eval(e, env, var) \in Verdicts
  PROVE  /\ EvalStep(AllOf(es), env, var) \in Verdicts
         /\ EvalStep(AnyOf(es), env, var) \in Verdicts
<1>1. /\ Len(es) \in Nat
      /\ \A i \in 1 .. Len(es) : Eval(es[i], env, var) \in Verdicts
  OBVIOUS
<1> QED BY <1>1, AllStep, AnyStep

(* ... in every turn.                                                      *)
Typed(N, B, C, env) == \A var \in Vars : Sorted(N, B, C, env, var)

LEMMA NumbersType ==
  ASSUME NEW N, NEW B, NEW C, NEW env \in PlanEnvs, NEW var \in Vars,
         Sorted(N, B, C, env, var), NEW x \in NumbersOver(N, B, C)
  PROVE  EvalStep(x, env, var) \in Numerals
<1>1. /\ \A e \in N : Eval(e, env, var) \in Numerals
      /\ \A e \in B : Eval(e, env, var) \in Contents
      /\ \A e \in C : Eval(e, env, var) \in Verdicts
  BY DEF Sorted
<1>2. \A v \in Num \cup {Err, Panic} : Result(v, {}) \in Numerals
  BY DEF Result, Numerals, Results
<1>3. CASE \E n \in Num : x = Const(n)
  BY <1>2, <1>3, ConstStep
<1>4. CASE \E i \in Nat : x = Word(i)
  <2>1. PICK i \in Nat : x = Word(i)
    BY <1>4
  <2>2. (IF i < Len(env.words) THEN env.words[i + 1] ELSE Err) \in Num \cup {Err, Panic}
    BY WorldAssumption
  <2>3. EvalStep(x, env, var) =
          Result(IF i < Len(env.words) THEN env.words[i + 1] ELSE Err, {})
    BY <2>1, WordStep
  <2> QED BY <1>2, <2>2, <2>3
<1>5. CASE x = BlockHeight
  <2>1. env.height \in Num /\ EvalStep(x, env, var) = Result(env.height, {})
    BY <1>5, HeightStep, WorldAssumption
  <2> QED BY <1>2, <2>1
<1>6. CASE x = Var
  <2>1. (IF var = NoVar THEN Err ELSE var) \in Num \cup {Err, Panic}
    BY DEF Vars
  <2>2. EvalStep(x, env, var) = Result(IF var = NoVar THEN Err ELSE var, {})
    BY <1>6, VarStep
  <2> QED BY <1>2, <2>1, <2>2
<1>7. CASE \E op \in BinaryOps, a \in N, b \in N : x = Binary(op, a, b)
  <2>1. PICK op \in BinaryOps, a \in N, b \in N : x = Binary(op, a, b)
    BY <1>7
  <2>2. Operated(op, Eval(a, env, var), Eval(b, env, var), EvalStep(x, env, var))
    BY <1>1, <2>1, BinaryStep
  <2> QED BY <2>2 DEF Operated
<1>8. CASE \E e \in B : x = ULe(e)
  <2>1. PICK a \in B : x = ULe(a)
    BY <1>8
  <2>2. PICK s \in Contents : s = Eval(a, env, var)
    BY <1>1
  <2>3. /\ EvalStep(x, env, var) = Of1(x, s, env, var)
        /\ \A u : Makes(x, <<u>>, env, var) = NumOf(u)
        /\ x.k # "storage"
    BY <2>1, <2>2, ULeStep, SortsAreData
  <2>4. \A u \in Seq(Byte) : Makes(x, <<u>>, env, var) \in Num \cup {Err, Panic}
    BY <2>3, NumOfType
  <2> QED BY <2>2, <2>3, <2>4, Of1Type DEF Contents, Numerals, Keyed
<1>9. CASE \E e \in B : x = Length(e)
  <2>1. PICK a \in B : x = Length(a)
    BY <1>9
  <2>2. PICK s \in Contents : s = Eval(a, env, var)
    BY <1>1
  <2>3. /\ EvalStep(x, env, var) = Of1(x, s, env, var)
        /\ \A u : Makes(x, <<u>>, env, var) = Len(u) % Modulus
        /\ x.k # "storage"
    BY <2>1, <2>2, LengthStep, SortsAreData
  <2>4. \A u \in Seq(Byte) : Makes(x, <<u>>, env, var) \in Num \cup {Err, Panic}
    BY <2>3, LengthType
  <2> QED BY <2>2, <2>3, <2>4, Of1Type DEF Contents, Numerals, Keyed
<1>10. CASE \E c \in C, t \in N, e \in N : x = If(c, t, e)
  <2>1. PICK c \in C, t \in N, e \in N : x = If(c, t, e)
    BY <1>10
  <2>2. /\ Eval(c, env, var) \in Verdicts
        /\ Eval(t, env, var) \in Numerals /\ Eval(e, env, var) \in Numerals
    BY <1>1
  <2>3. EvalStep(x, env, var) =
          IF Failed(Eval(c, env, var).v) THEN Eval(c, env, var)
          ELSE After(IF Eval(c, env, var).v THEN Eval(t, env, var) ELSE Eval(e, env, var),
                     Eval(c, env, var).keys)
    BY <2>1, ChoiceStep
  <2> QED BY <2>2, <2>3, ChoiceType DEF Numerals
<1> QED BY <1>3, <1>4, <1>5, <1>6, <1>7, <1>8, <1>9, <1>10, NumberCases

LEMMA StringsType ==
  ASSUME NEW N, NEW B, NEW C, NEW env \in PlanEnvs, NEW var \in Vars,
         Typed(N, B, C, env), NEW x \in StringsOver(N, B, C)
  PROVE  EvalStep(x, env, var) \in Contents
<1>1. /\ \A e \in N : Eval(e, env, var) \in Numerals
      /\ \A e \in B : Eval(e, env, var) \in Contents
      /\ \A e \in C : Eval(e, env, var) \in Verdicts
  BY DEF Typed, Sorted
<1>2. \A v \in Seq(Byte) \cup {Err, Panic} : Result(v, {}) \in Contents
  <2>1. {} \in SUBSET Seq(Byte)
    OBVIOUS
  <2> QED BY <2>1 DEF Result, Contents, Results
<1>3. CASE \E d \in Seq(Byte) : x = Bytes(d)
  BY <1>2, <1>3, BytesStep
<1>4. CASE \E s \in Nat, n \in Nat \cup {ToEnd} : x = Calldata(s, n)
  <2>1. PICK s \in Nat, n \in Nat \cup {ToEnd} : x = Calldata(s, n)
    BY <1>4
  <2>2. From(env, s, n) \in Seq(Byte) \cup {Err, Panic}
    BY FromType
  <2>3. EvalStep(x, env, var) = Result(From(env, s, n), {})
    BY <2>1, CalldataStep
  <2> QED BY <1>2, <2>2, <2>3
<1>5. CASE \E e \in B : x = Storage(e)
  <2>1. PICK a \in B : x = Storage(a)
    BY <1>5
  <2>2. PICK s \in Contents : s = Eval(a, env, var)
    BY <1>1
  <2>3. /\ EvalStep(x, env, var) = Of1(x, s, env, var)
        /\ \A u : Makes(x, <<u>>, env, var) = StoredAt(env, u)
    BY <2>1, <2>2, StorageStep, SortsAreData
  <2>4. \A u \in Seq(Byte) : Makes(x, <<u>>, env, var) \in Seq(Byte) \cup {Err, Panic}
    BY <2>3, StoredBytes
  <2>5. Keyed(x, Seq(Byte)) /\ s \in Results(Seq(Byte))
    BY DEF Contents, Keyed
  <2>6. Of1(x, s, env, var) \in Results(Seq(Byte))
    BY <2>4, <2>5, Of1Type
  <2> QED BY <2>3, <2>6 DEF Contents
<1>6. CASE \E es \in Seq(B) : x = Concat(es)
  BY <1>1, <1>6, ConcatType
<1>7. CASE \E e \in B, s \in N, n \in N : x = Slice(e, s, n)
  <2>1. PICK a \in B, b \in N, c \in N : x = Slice(a, b, c)
    BY <1>7
  <2>2. PICK s \in Contents, p \in Numerals, q \in Numerals :
          s = Eval(a, env, var) /\ p = Eval(b, env, var) /\ q = Eval(c, env, var)
    BY <1>1
  <2>3. s \in Results(Data) /\ p \in Results(Data) /\ q \in Results(Data)
    BY SortsAreData
  <2>4. /\ EvalStep(x, env, var) = Of3(x, s, p, q, env, var)
        /\ \A u, v, w : Makes(x, <<u, v, w>>, env, var) = Cut(u, v, w)
    BY <2>1, <2>2, <2>3, SliceStep
  <2>5. \A u \in Seq(Byte), v \in Num, w \in Num :
          Makes(x, <<u, v, w>>, env, var) \in Seq(Byte) \cup {Err, Panic}
    <3> TAKE u \in Seq(Byte), v \in Num, w \in Num
    <3>1. Cut(u, v, w) \in Seq(Byte) \cup {Err, Panic}
      BY CutType
    <3> QED BY <2>4, <3>1
  <2> QED BY <2>2, <2>4, <2>5, Of3Type DEF Contents, Numerals
<1>8. CASE \E e \in N, w \in Nat : x = Le(e, w)
  <2>1. PICK a \in N, w \in Nat : x = Le(a, w)
    BY <1>8
  <2>2. PICK s \in Numerals : s = Eval(a, env, var)
    BY <1>1
  <2>3. /\ EvalStep(x, env, var) = Of1(x, s, env, var)
        /\ \A u : Makes(x, <<u>>, env, var) = IF w > PlanLen THEN Panic ELSE LeBytes(u, w)
        /\ x.k # "storage"
    BY <2>1, <2>2, LeStep, SortsAreData
  <2>4. \A u \in Num : Makes(x, <<u>>, env, var) \in Seq(Byte) \cup {Err, Panic}
    BY <2>3, LeBytesType
  <2> QED BY <2>2, <2>3, <2>4, Of1Type DEF Contents, Numerals, Keyed
<1>9. CASE \E c \in C, t \in B, e \in B : x = Choice(c, t, e)
  <2>1. PICK c \in C, t \in B, e \in B : x = Choice(c, t, e)
    BY <1>9
  <2>2. /\ Eval(c, env, var) \in Verdicts
        /\ Eval(t, env, var) \in Contents /\ Eval(e, env, var) \in Contents
    BY <1>1
  <2>3. EvalStep(x, env, var) =
          IF Failed(Eval(c, env, var).v) THEN Eval(c, env, var)
          ELSE After(IF Eval(c, env, var).v THEN Eval(t, env, var) ELSE Eval(e, env, var),
                     Eval(c, env, var).keys)
    BY <2>1, ChoiceStep
  <2> QED BY <2>2, <2>3, ChoiceType DEF Contents
<1>10. CASE \E n \in N, e \in B : x = Loop(n, e)
  <2>1. PICK a \in N, b \in B : x = Loop(a, b)
    BY <1>10
  <2>2. Eval(a, env, var) \in Numerals /\ \A u \in Vars : Eval(b, env, u) \in Contents
    BY <1>1 DEF Typed, Sorted
  <2> QED BY <2>1, <2>2, LoopType
<1> QED BY <1>3, <1>4, <1>5, <1>6, <1>7, <1>8, <1>9, <1>10, StringCases

LEMMA ConditionsType ==
  ASSUME NEW N, NEW B, NEW C, NEW env \in PlanEnvs, NEW var \in Vars,
         Sorted(N, B, C, env, var), NEW x \in ConditionsOver(N, B, C)
  PROVE  EvalStep(x, env, var) \in Verdicts
<1>1. /\ \A e \in N : Eval(e, env, var) \in Numerals
      /\ \A e \in B : Eval(e, env, var) \in Contents
      /\ \A e \in C : Eval(e, env, var) \in Verdicts
  BY DEF Sorted
<1>2. CASE \E c \in Comparisons \ {"beq"}, a \in N, b \in N : x = Compare(c, a, b)
  <2>1. PICK c \in Comparisons \ {"beq"}, a \in N, b \in N : x = Compare(c, a, b)
    BY <1>2
  <2>2. PICK p \in Numerals, q \in Numerals : p = Eval(a, env, var) /\ q = Eval(b, env, var)
    BY <1>1
  <2>3. p \in Results(Data) /\ q \in Results(Data)
    BY SortsAreData
  <2>4. /\ EvalStep(x, env, var) = Of2(x, p, q, env, var)
        /\ \A u, v : Makes(x, <<u, v>>, env, var) = Compares(c, u, v)
    BY <2>1, <2>2, <2>3, CompareStep
  <2>5. \A u, v \in Num : Compares(c, u, v) \in BOOLEAN
    <3> TAKE u, v \in Num
    <3>1. CASE c \in {"eq", "ne"}
      BY <3>1 DEF Compares
    <3>2. CASE c = "lt"
      BY <3>2 DEF Compares
    <3>3. CASE c = "lte"
      BY <3>3 DEF Compares
    <3>4. CASE c = "gt"
      BY <3>4 DEF Compares
    <3>5. CASE c = "gte"
      BY <3>5 DEF Compares
    <3> QED BY <2>1, <3>1, <3>2, <3>3, <3>4, <3>5 DEF Comparisons
  <2>6. \A u \in Num, v \in Num : Makes(x, <<u, v>>, env, var) \in BOOLEAN \cup {Err, Panic}
    BY <2>4, <2>5
  <2> QED BY <2>4, <2>6, Of2Type DEF Verdicts, Numerals
<1>3. CASE \E a \in B, b \in B : x = Compare("beq", a, b)
  <2>1. PICK a \in B, b \in B : x = Compare("beq", a, b)
    BY <1>3
  <2>2. PICK p \in Contents, q \in Contents : p = Eval(a, env, var) /\ q = Eval(b, env, var)
    BY <1>1
  <2>3. p \in Results(Data) /\ q \in Results(Data)
    BY SortsAreData
  <2>4. /\ EvalStep(x, env, var) = Of2(x, p, q, env, var)
        /\ \A u, v : Makes(x, <<u, v>>, env, var) = Compares("beq", u, v)
    BY <2>1, <2>2, <2>3, CompareStep DEF Comparisons
  <2>5. \A u, v : Compares("beq", u, v) \in BOOLEAN
    BY DEF Compares
  <2>6. \A u \in Seq(Byte), v \in Seq(Byte) :
          Makes(x, <<u, v>>, env, var) \in BOOLEAN \cup {Err, Panic}
    BY <2>4, <2>5
  <2> QED BY <2>4, <2>6, Of2Type DEF Verdicts, Contents
<1>4. CASE \E es \in Seq(C) : x = AllOf(es)
  BY <1>1, <1>4, AllType
<1>5. CASE \E es \in Seq(C) : x = AnyOf(es)
  BY <1>1, <1>5, AllType
<1>6. CASE \E e \in C : x = Negation(e)
  <2>1. PICK a \in C : x = Negation(a)
    BY <1>6
  <2>2. PICK s \in Verdicts : s = Eval(a, env, var)
    BY <1>1
  <2>3. /\ EvalStep(x, env, var) = Of1(x, s, env, var)
        /\ \A u : Makes(x, <<u>>, env, var) = ~u
        /\ x.k # "storage"
    BY <2>1, <2>2, NegationStep, SortsAreData
  <2>4. \A u \in BOOLEAN : Makes(x, <<u>>, env, var) \in BOOLEAN \cup {Err, Panic}
    BY <2>3
  <2> QED BY <2>2, <2>3, <2>4, Of1Type DEF Verdicts, Keyed
<1> QED BY <1>2, <1>3, <1>4, <1>5, <1>6, ConditionCases

(* The evaluator and the simplifier are what they are for plans: each of   *)
(* them is its step, of the same function on the operands.                 *)
Unfolds ==
  /\ \A e \in Numbers \cup ByteStrings \cup Conditions, env \in PlanEnvs, var \in Vars :
       Eval(e, env, var) = EvalStep(e, env, var)
  /\ \A e \in Numbers \cup ByteStrings : Simplify(e) = SimplifyStep(e)

(* Every plan evaluates to what its sort stands for, or fails, in every    *)
(* world and every turn of a loop, and asks for keys that are bytes.       *)
THEOREM PlansEvaluate ==
  ASSUME Unfolds
  PROVE  \A env \in PlanEnvs : Typed(Numbers, ByteStrings, Conditions, env)
<1>1. PICK N, B, C :
        /\ N = {e \in Numbers :
                   \A env \in PlanEnvs, var \in Vars : Eval(e, env, var) \in Numerals}
        /\ B = {e \in ByteStrings :
                   \A env \in PlanEnvs, var \in Vars : Eval(e, env, var) \in Contents}
        /\ C = {e \in Conditions :
                   \A env \in PlanEnvs, var \in Vars : Eval(e, env, var) \in Verdicts}
  OBVIOUS
<1>2. N \subseteq Numbers /\ B \subseteq ByteStrings /\ C \subseteq Conditions
  BY <1>1
<1>3. /\ NumbersOver(N, B, C) \subseteq Numbers
      /\ StringsOver(N, B, C) \subseteq ByteStrings
      /\ ConditionsOver(N, B, C) \subseteq Conditions
  BY <1>2, OverMonotone, PlansClosed
<1>4. \A env \in PlanEnvs : Typed(N, B, C, env)
  BY <1>1 DEF Typed, Sorted
<1>5. \A env \in PlanEnvs, var \in Vars : Sorted(N, B, C, env, var)
  BY <1>4 DEF Typed
<1>6. NumbersOver(N, B, C) \subseteq N
  <2>1. ASSUME NEW x \in NumbersOver(N, B, C), NEW env \in PlanEnvs, NEW var \in Vars
        PROVE  Eval(x, env, var) \in Numerals
    <3>1. Eval(x, env, var) = EvalStep(x, env, var)
      BY <1>3, <2>1 DEF Unfolds
    <3> QED BY <1>5, <3>1, NumbersType
  <2> QED BY <1>1, <1>3, <2>1
<1>7. StringsOver(N, B, C) \subseteq B
  <2>1. ASSUME NEW x \in StringsOver(N, B, C), NEW env \in PlanEnvs, NEW var \in Vars
        PROVE  Eval(x, env, var) \in Contents
    <3>1. Eval(x, env, var) = EvalStep(x, env, var)
      BY <1>3, <2>1 DEF Unfolds
    <3> QED BY <1>4, <3>1, StringsType
  <2> QED BY <1>1, <1>3, <2>1
<1>8. ConditionsOver(N, B, C) \subseteq C
  <2>1. ASSUME NEW x \in ConditionsOver(N, B, C), NEW env \in PlanEnvs, NEW var \in Vars
        PROVE  Eval(x, env, var) \in Verdicts
    <3>1. Eval(x, env, var) = EvalStep(x, env, var)
      BY <1>3, <2>1 DEF Unfolds
    <3> QED BY <1>5, <3>1, ConditionsType
  <2> QED BY <1>1, <1>3, <2>1
<1>9. Numbers = N /\ ByteStrings = B /\ Conditions = C
  BY <1>2, <1>6, <1>7, <1>8, PlansLeast
<1> QED BY <1>4, <1>9

----------------------------------------------------------------------------
(* Byte strings, one after the other. *)

LEMMA ThenStays ==
  ASSUME NEW u, NEW k, NEW s, Failed(u)
  PROVE  Then(Result(u, k), s) = Result(u, k)
BY DEF Then, Result

LEMMA ThenFails ==
  ASSUME NEW u, NEW k, NEW v, NEW l, ~Failed(u), Failed(v)
  PROVE  Then(Result(u, k), Result(v, l)) = Result(v, k \cup l)
<1>1. l \cup k = k \cup l
  OBVIOUS
<1> QED BY <1>1 DEF Then, After, Result

LEMMA ThenJoins ==
  ASSUME NEW u, NEW k, NEW v, NEW l, ~Failed(u), ~Failed(v)
  PROVE  Then(Result(u, k), Result(v, l)) = Result(u \o v, k \cup l)
<1>1. l \cup k = k \cup l
  OBVIOUS
<1> QED BY <1>1 DEF Then, After, Result

LEMMA AString ==
  ASSUME NEW r \in Contents
  PROVE  \E u, k : r = Result(u, k) /\ r.v = u /\ r.keys = k /\ (~Failed(u) => u \in Seq(Byte))
BY DEF Contents, Results, Result, Failed

LEMMA Succeeded ==
  ASSUME NEW r \in Contents
  PROVE  ~Failed(r.v) => r.v \in Seq(Byte)
BY DEF Contents, Results, Failed

LEMMA JoinedSucceeds ==
  ASSUME NEW u \in Seq(Byte), NEW v \in Seq(Byte)
  PROVE  ~Failed(u \o v)
<1>1. u \o v \in Seq(Byte)
  OBVIOUS
<1> QED BY <1>1, NoFailure DEF Data

LEMMA ThenUnit ==
  ASSUME NEW r \in Contents
  PROVE  Then(Empty, r) = r /\ Then(r, Empty) = r
<1>1. PICK u, k : r = Result(u, k) /\ (~Failed(u) => u \in Seq(Byte))
  BY AString
<1>2. Empty = Result(<<>>, {}) /\ ~Failed(<<>>) /\ {} \cup k = k /\ k \cup {} = k
  BY EmptyParts DEF Empty
<1>3. CASE Failed(u)
  <2>1. Then(Result(<<>>, {}), Result(u, k)) = Result(u, {} \cup k)
    BY <1>2, <1>3, ThenFails
  <2> QED BY <1>1, <1>2, <1>3, <2>1, ThenStays
<1>4. CASE ~Failed(u)
  <2>1. PICK e : e = <<>>
    OBVIOUS
  <2>2. u \in Seq(Byte)
    BY <1>1, <1>4
  <2>3. e \o u = u /\ u \o e = u
    BY <2>1, <2>2
  <2>4. Empty = Result(e, {}) /\ ~Failed(e)
    BY <1>2, <2>1
  <2>5. Then(Result(e, {}), Result(u, k)) = Result(e \o u, {} \cup k)
    BY <1>4, <2>4, ThenJoins
  <2>6. Then(Result(u, k), Result(e, {})) = Result(u \o e, k \cup {})
    BY <1>4, <2>4, ThenJoins
  <2> QED BY <1>1, <1>2, <2>3, <2>4, <2>5, <2>6
<1> QED BY <1>3, <1>4

LEMMA ThenAssociative ==
  ASSUME NEW r \in Contents, NEW s \in Contents, NEW t \in Contents
  PROVE  Then(Then(r, s), t) = Then(r, Then(s, t))
<1>1. PICK u, k : r = Result(u, k) /\ (~Failed(u) => u \in Seq(Byte))
  BY AString
<1>2. PICK v, l : s = Result(v, l) /\ (~Failed(v) => v \in Seq(Byte))
  BY AString
<1>3. PICK w, m : t = Result(w, m) /\ (~Failed(w) => w \in Seq(Byte))
  BY AString
<1>4. (k \cup l) \cup m = k \cup (l \cup m)
  OBVIOUS
<1>5. CASE Failed(u)
  BY <1>1, <1>5, ThenStays
<1>6. CASE ~Failed(u) /\ Failed(v)
  <2>1. Then(r, s) = Result(v, k \cup l) /\ Then(s, t) = s
    BY <1>1, <1>2, <1>6, ThenFails, ThenStays
  <2> QED BY <1>2, <1>6, <2>1, ThenStays
<1>7. CASE ~Failed(u) /\ ~Failed(v)
  <2>1. PICK x : x = u \o v
    OBVIOUS
  <2>2. Then(r, s) = Result(x, k \cup l) /\ ~Failed(x)
    BY <1>1, <1>2, <1>7, <2>1, ThenJoins, JoinedSucceeds
  <2>3. CASE Failed(w)
    <3>1. Then(Then(r, s), t) = Result(w, (k \cup l) \cup m)
      BY <1>3, <2>2, <2>3, ThenFails
    <3>2. Then(s, t) = Result(w, l \cup m)
      BY <1>2, <1>3, <1>7, <2>3, ThenFails
    <3>3. Then(r, Then(s, t)) = Result(w, k \cup (l \cup m))
      BY <1>1, <1>7, <2>3, <3>2, ThenFails
    <3> QED BY <1>4, <3>1, <3>3
  <2>4. CASE ~Failed(w)
    <3>1. Then(Then(r, s), t) = Result(x \o w, (k \cup l) \cup m)
      BY <1>3, <2>2, <2>4, ThenJoins
    <3>2. PICK y : y = v \o w
      OBVIOUS
    <3>3. Then(s, t) = Result(y, l \cup m) /\ ~Failed(y)
      BY <1>2, <1>3, <1>7, <2>4, <3>2, ThenJoins, JoinedSucceeds
    <3>4. Then(r, Then(s, t)) = Result(u \o y, k \cup (l \cup m))
      BY <1>1, <1>7, <3>3, ThenJoins
    <3>5. (u \o v) \o w = u \o (v \o w)
      <4>1. u \in Seq(Byte) /\ v \in Seq(Byte) /\ w \in Seq(Byte)
        BY <1>1, <1>2, <1>3, <1>7, <2>4
      <4> HIDE DEF Byte
      <4> QED BY <4>1, ConcatAssociative
    <3> QED BY <1>4, <2>1, <3>1, <3>2, <3>4, <3>5
  <2> QED BY <2>3, <2>4
<1> QED BY <1>5, <1>6, <1>7

(* What a concatenation of these parts evaluates to.                       *)
Val(es, env, var) == EvalStep(Concat(es), env, var)
Parts == Seq(ByteStrings)

(* PlansEvaluate, world by world.                                          *)
LEMMA AnyWorld ==
  ASSUME Unfolds, NEW env \in PlanEnvs, NEW var \in Vars
  PROVE  /\ \A e \in Numbers : Eval(e, env, var) \in Numerals
         /\ \A e \in ByteStrings : Eval(e, env, var) \in Contents
         /\ \A e \in Conditions : Eval(e, env, var) \in Verdicts
BY PlansEvaluate DEF Typed, Sorted

(* f joins what the parts evaluate to.                                     *)
JoinsParts(f, es, env, var) ==
  /\ f \in [0 .. Len(es) -> Contents] /\ f[0] = Empty /\ f[Len(es)] = Val(es, env, var)
  /\ \A i \in 1 .. Len(es) : f[i] = Then(f[i - 1], Eval(es[i], env, var))

LEMMA ValUnfolds ==
  ASSUME Unfolds, NEW env \in PlanEnvs, NEW var \in Vars, NEW es \in Parts
  PROVE  \E f : JoinsParts(f, es, env, var)
<1>1. Len(es) \in Nat /\ \A i \in 1 .. Len(es) : es[i] \in ByteStrings
  BY DEF Parts
<1>2. PICK rs : rs = [i \in 1 .. Len(es) |-> Eval(es[i], env, var)]
  OBVIOUS
<1>3. /\ rs \in [1 .. Len(es) -> Contents]
      /\ \A i \in 1 .. Len(es) : rs[i] = Eval(es[i], env, var)
  BY <1>1, <1>2, AnyWorld
<1>4. PICK f : Joins(f, Len(es), rs) /\ EvalStep(Concat(es), env, var) = f[Len(es)]
  BY <1>1, <1>3, ConcatStep
<1> QED BY <1>3, <1>4 DEF JoinsParts, Joins, Val

LEMMA ValType ==
  ASSUME Unfolds, NEW env \in PlanEnvs, NEW var \in Vars, NEW es \in Parts
  PROVE  /\ Val(es, env, var) \in Contents
         /\ Concat(es) \in ByteStrings /\ Eval(Concat(es), env, var) = Val(es, env, var)
<1>1. PICK f : JoinsParts(f, es, env, var)
  BY ValUnfolds
<1>2. Len(es) \in Nat
  BY DEF Parts
<1>3. Val(es, env, var) \in Contents
  BY <1>1, <1>2 DEF JoinsParts
<1>4. Concat(es) \in StringsOver(Numbers, ByteStrings, Conditions)
  BY StringCases DEF Parts
<1>5. Concat(es) \in ByteStrings
  BY <1>4, PlansOverPlans
<1> QED BY <1>3, <1>5 DEF Unfolds, Val

(* f takes the same steps from an empty concatenation.                     *)
LEMMA ValFolds ==
  ASSUME Unfolds, NEW env \in PlanEnvs, NEW var \in Vars, NEW es \in Parts, NEW f,
         f[0] = Empty,
         \A i \in 1 .. Len(es) : f[i] = Then(f[i - 1], Eval(es[i], env, var))
  PROVE  f[Len(es)] = Val(es, env, var)
<1>1. PICK g : JoinsParts(g, es, env, var)
  BY ValUnfolds
<1>2. PICK n \in Nat : n = Len(es)
  BY DEF Parts
<1>3. PICK T : T = {i \in 0 .. n : f[i] = g[i]}
  OBVIOUS
<1>4. 0 \in T
  BY <1>1, <1>3 DEF JoinsParts
<1>5. ASSUME NEW i \in 0 .. n, 0 < i, i - 1 \in T  PROVE i \in T
  <2>1. i \in 1 .. n /\ f[i - 1] = g[i - 1]
    BY <1>3, <1>5
  <2>2. /\ f[i] = Then(f[i - 1], Eval(es[i], env, var))
        /\ g[i] = Then(g[i - 1], Eval(es[i], env, var))
    BY <1>1, <1>2, <2>1 DEF JoinsParts
  <2> QED BY <1>3, <2>1, <2>2
<1>6. \A i \in 0 .. n : i \in T
  BY <1>4, <1>5, Upward
<1> QED BY <1>1, <1>2, <1>3, <1>6 DEF JoinsParts

(* Concatenations are joined as their parts are: by Then, which is         *)
(* associative.                                                            *)
LEMMA ValJoins ==
  ASSUME Unfolds, NEW env \in PlanEnvs, NEW var \in Vars, NEW es \in Parts, NEW fs \in Parts
  PROVE  /\ es \o fs \in Parts
         /\ Val(es \o fs, env, var) = Then(Val(es, env, var), Val(fs, env, var))
<1>1. PICK m \in Nat, n \in Nat : m = Len(es) /\ n = Len(fs)
  BY DEF Parts
<1>2. /\ es \o fs \in Parts /\ Len(es \o fs) = m + n
      /\ \A i \in 1 .. m : (es \o fs)[i] = es[i]
      /\ \A i \in 1 .. n : (es \o fs)[m + i] = fs[i]
  BY <1>1 DEF Parts
<1>3. PICK h : JoinsParts(h, es \o fs, env, var)
  BY <1>2, ValUnfolds
<1>4. PICK f : JoinsParts(f, es, env, var)
  BY ValUnfolds
<1>5. PICK g : JoinsParts(g, fs, env, var)
  BY ValUnfolds
<1>6. \A i \in 0 .. m : h[i] = f[i]
  <2>1. PICK T : T = {i \in 0 .. m : h[i] = f[i]}
    OBVIOUS
  <2>2. 0 \in T
    BY <1>3, <1>4, <2>1 DEF JoinsParts
  <2>3. ASSUME NEW i \in 0 .. m, 0 < i, i - 1 \in T  PROVE i \in T
    <3>1. i \in 1 .. m /\ i \in 1 .. m + n /\ h[i - 1] = f[i - 1]
      BY <2>1, <2>3
    <3>2. h[i] = Then(h[i - 1], Eval((es \o fs)[i], env, var))
      BY <1>2, <1>3, <3>1 DEF JoinsParts
    <3>3. f[i] = Then(f[i - 1], Eval(es[i], env, var))
      BY <1>1, <1>4, <3>1 DEF JoinsParts
    <3> QED BY <1>2, <2>1, <3>1, <3>2, <3>3
  <2>4. \A i \in 0 .. m : i \in T
    BY <2>2, <2>3, Upward
  <2> QED BY <2>1, <2>4
<1>7. \A i \in 0 .. n : h[m + i] = Then(f[m], g[i])
  <2>1. PICK T : T = {i \in 0 .. n : h[m + i] = Then(f[m], g[i])}
    OBVIOUS
  <2>2. 0 \in T
    <3>1. h[m + 0] = f[m] /\ f[m] \in Contents /\ g[0] = Empty
      BY <1>1, <1>4, <1>5, <1>6 DEF JoinsParts
    <3> QED BY <2>1, <3>1, ThenUnit
  <2>3. ASSUME NEW i \in 0 .. n, 0 < i, i - 1 \in T  PROVE i \in T
    <3>1. /\ i \in 1 .. n /\ m + i \in 1 .. m + n /\ m + (i - 1) = (m + i) - 1
          /\ h[(m + i) - 1] = Then(f[m], g[i - 1])
      BY <2>1, <2>3
    <3>2. h[m + i] = Then(h[(m + i) - 1], Eval((es \o fs)[m + i], env, var))
      BY <1>2, <1>3, <3>1 DEF JoinsParts
    <3>3. g[i] = Then(g[i - 1], Eval(fs[i], env, var))
      BY <1>1, <1>5, <3>1 DEF JoinsParts
    <3>4. f[m] \in Contents /\ g[i - 1] \in Contents
      BY <1>1, <1>4, <1>5, <3>1 DEF JoinsParts
    <3>5. fs[i] \in ByteStrings
      BY <1>1, <3>1 DEF Parts
    <3>6. Eval(fs[i], env, var) \in Contents
      BY <3>5, AnyWorld
    <3>7. Then(Then(f[m], g[i - 1]), Eval(fs[i], env, var)) =
            Then(f[m], Then(g[i - 1], Eval(fs[i], env, var)))
      BY <3>4, <3>6, ThenAssociative
    <3> QED BY <1>2, <2>1, <3>1, <3>2, <3>3, <3>7
  <2>4. \A i \in 0 .. n : i \in T
    BY <2>2, <2>3, Upward
  <2> QED BY <2>1, <2>4
<1>8. h[m + n] = Then(f[m], g[n])
  BY <1>7
<1> QED BY <1>1, <1>2, <1>3, <1>4, <1>5, <1>8 DEF JoinsParts

LEMMA ValOne ==
  ASSUME Unfolds, NEW env \in PlanEnvs, NEW var \in Vars, NEW e \in ByteStrings
  PROVE  <<e>> \in Parts /\ Val(<<e>>, env, var) = Eval(e, env, var)
<1>1. <<e>> \in Parts /\ Len(<<e>>) = 1 /\ <<e>>[1] = e
  BY DEF Parts
<1>2. PICK f : JoinsParts(f, <<e>>, env, var)
  BY <1>1, ValUnfolds
<1>3. f[1] = Then(f[0], Eval(e, env, var)) /\ f[0] = Empty /\ f[1] = Val(<<e>>, env, var)
  BY <1>1, <1>2 DEF JoinsParts
<1>4. Eval(e, env, var) \in Contents
  BY AnyWorld
<1> QED BY <1>1, <1>3, <1>4, ThenUnit

LEMMA ValEmpty ==
  ASSUME Unfolds, NEW env \in PlanEnvs, NEW var \in Vars
  PROVE  <<>> \in Parts /\ Val(<<>>, env, var) = Empty
<1>1. <<>> \in Parts /\ Len(<<>>) = 0
  BY DEF Parts
<1>2. PICK f : JoinsParts(f, <<>>, env, var)
  BY <1>1, ValUnfolds
<1> QED BY <1>1, <1>2 DEF JoinsParts

LEMMA ValAppend ==
  ASSUME Unfolds, NEW env \in PlanEnvs, NEW var \in Vars, NEW es \in Parts,
         NEW e \in ByteStrings
  PROVE  /\ Append(es, e) \in Parts
         /\ Val(Append(es, e), env, var) = Then(Val(es, env, var), Eval(e, env, var))
<1>1. Append(es, e) = es \o <<e>>
  BY AppendIsConcat, ConcatEmptySeq DEF Parts
<1>2. <<e>> \in Parts /\ Val(<<e>>, env, var) = Eval(e, env, var)
  BY ValOne
<1> QED BY <1>1, <1>2, ValJoins

----------------------------------------------------------------------------
(* Rewriting concatenations. *)

LEMMA Kinds ==
  ASSUME NEW e \in ByteStrings
  PROVE  /\ e.k = "bytes" => e.data \in Seq(Byte) /\ e = Bytes(e.data)
         /\ e.k = "concat" => e.parts \in Parts /\ e = Concat(e.parts)
<1>1. e \in StringsOver(Numbers, ByteStrings, Conditions)
  BY PlansOverPlans
<1>2. \/ \E d \in Seq(Byte) : e = Bytes(d)
      \/ \E es \in Parts : e = Concat(es)
      \/ e.k \notin {"bytes", "concat"}
  <2>1. CASE \/ \E d \in Seq(Byte) : e = Bytes(d)
             \/ \E es \in Seq(ByteStrings) : e = Concat(es)
    BY <2>1 DEF Parts
  <2>2. CASE \/ \E s \in Nat, n \in Nat \cup {ToEnd} : e = Calldata(s, n)
             \/ \E a \in ByteStrings : e = Storage(a)
             \/ \E a \in ByteStrings, s \in Numbers, n \in Numbers : e = Slice(a, s, n)
             \/ \E a \in Numbers, w \in Nat : e = Le(a, w)
             \/ \E c \in Conditions, t \in ByteStrings, a \in ByteStrings : e = Choice(c, t, a)
             \/ \E n \in Numbers, a \in ByteStrings : e = Loop(n, a)
    BY <2>2 DEF Calldata, Storage, Slice, Le, Choice, Loop
  <2> QED BY <1>1, <2>1, <2>2, StringCases
<1>3. \A d : Bytes(d).k = "bytes" /\ Bytes(d).data = d
  BY DEF Bytes
<1>4. \A es : Concat(es).k = "concat" /\ Concat(es).parts = es
  BY DEF Concat
<1> QED BY <1>2, <1>3, <1>4

LEMMA BytesValue ==
  ASSUME Unfolds, NEW env \in PlanEnvs, NEW var \in Vars, NEW d \in Seq(Byte)
  PROVE  /\ Bytes(d) \in ByteStrings /\ Eval(Bytes(d), env, var) = Result(d, {})
         /\ ~Failed(d)
<1>1. Bytes(d) \in StringsOver(Numbers, ByteStrings, Conditions)
  BY StringCases
<1>2. Bytes(d) \in ByteStrings
  BY <1>1, PlansOverPlans
<1>3. Eval(Bytes(d), env, var) = EvalStep(Bytes(d), env, var)
  BY <1>2 DEF Unfolds
<1>4. EvalStep(Bytes(d), env, var) = Result(d, {})
  BY BytesStep
<1> QED BY <1>2, <1>3, <1>4, NoFailure DEF Data

(* All but the last, and the last.                                         *)
LEMMA FrontAndLast ==
  ASSUME NEW es \in Parts, es # <<>>
  PROVE  /\ Front(es) \in Parts /\ Last(es) \in ByteStrings
         /\ es = Append(Front(es), Last(es))
<1>1. PICK n \in Nat \ {0} : n = Len(es)
  BY EmptySeq DEF Parts
<1>2. Front(es) = SubSeq(es, 1, n - 1) /\ Last(es) = es[n]
  BY <1>1 DEF Front, Last
<1>3. /\ SubSeq(es, 1, n - 1) \in Parts /\ Len(SubSeq(es, 1, n - 1)) = n - 1
      /\ \A i \in 1 .. n - 1 : SubSeq(es, 1, n - 1)[i] = es[i]
  BY <1>1 DEF Parts
<1>4. es[n] \in ByteStrings
  BY <1>1 DEF Parts
<1>5. PICK fs \in Parts, e \in ByteStrings :
        fs = Front(es) /\ e = Last(es) /\ Len(fs) = n - 1 /\ e = es[n]
          /\ \A i \in 1 .. n - 1 : fs[i] = es[i]
  BY <1>2, <1>3, <1>4
<1>6. /\ Append(fs, e) \in Seq(ByteStrings) /\ Len(Append(fs, e)) = n
      /\ \A i \in 1 .. n : Append(fs, e)[i] = es[i]
  BY <1>5 DEF Parts
<1>7. Append(fs, e) = es
  BY <1>1, <1>6, SeqEqual DEF Parts
<1> QED BY <1>5, <1>7

(* A part put at the end of others, one way or the other.                  *)
Extends(new, out, e, env, var) ==
  Val(new, env, var) = Then(Val(out, env, var), Eval(e, env, var))

LEMMA PartsType ==
  ASSUME NEW out \in Parts, NEW e \in ByteStrings
  PROVE  /\ Append(out, e) \in Parts
         /\ e.k = "concat" => out \o e.parts \in Parts
<1>1. e.k = "concat" => e.parts \in Parts
  BY Kinds
<1> QED BY <1>1 DEF Parts

LEMMA MergedType ==
  ASSUME NEW out \in Parts, NEW e \in ByteStrings
  PROVE  Merged(out, e) \in Parts
<1>1. CASE out # <<>> /\ e.k = "bytes" /\ Last(out).k = "bytes"
  <2>1. PICK fs \in Parts, a \in ByteStrings : fs = Front(out) /\ a = Last(out)
    BY <1>1, FrontAndLast
  <2>2. a.data \in Seq(Byte) /\ e.data \in Seq(Byte)
    BY <1>1, <2>1, Kinds
  <2>3. a.data \o e.data \in Seq(Byte)
    BY <2>2
  <2>4. PICK x : x = Bytes(a.data \o e.data)
    OBVIOUS
  <2>5. x \in ByteStrings
    BY <2>3, <2>4, PlansOverPlans, StringCases
  <2>6. Merged(out, e) = Append(fs, x)
    BY <1>1, <2>1, <2>4 DEF Merged
  <2> QED BY <2>5, <2>6, PartsType
<1>2. CASE ~(out # <<>> /\ e.k = "bytes" /\ Last(out).k = "bytes")
  BY <1>2, PartsType DEF Merged
<1> QED BY <1>1, <1>2

LEMMA FlattenedType ==
  ASSUME NEW out \in Parts, NEW e \in ByteStrings
  PROVE  Flattened(out, e) \in Parts
BY PartsType DEF Flattened

LEMMA JoinedType ==
  ASSUME NEW out \in Parts, NEW e \in ByteStrings
  PROVE  JoinedTo(out, e) \in Parts
BY PartsType, MergedType DEF JoinedTo

LEMMA AppendExtends ==
  ASSUME Unfolds, NEW env \in PlanEnvs, NEW var \in Vars, NEW out \in Parts,
         NEW e \in ByteStrings
  PROVE  Extends(Append(out, e), out, e, env, var)
BY ValAppend DEF Extends

LEMMA MergedExtends ==
  ASSUME Unfolds, NEW env \in PlanEnvs, NEW var \in Vars, NEW out \in Parts,
         NEW e \in ByteStrings
  PROVE  Extends(Merged(out, e), out, e, env, var)
<1>1. CASE out # <<>> /\ e.k = "bytes" /\ Last(out).k = "bytes"
  <2>1. PICK fs \in Parts, a \in ByteStrings :
          fs = Front(out) /\ a = Last(out) /\ out = Append(fs, a)
    BY <1>1, FrontAndLast
  <2>2. PICK c \in Seq(Byte), d \in Seq(Byte) :
          a = Bytes(c) /\ e = Bytes(d) /\ c = a.data /\ d = e.data
    BY <1>1, <2>1, Kinds
  <2>3. Merged(out, e) = Append(fs, Bytes(c \o d))
    BY <1>1, <2>1, <2>2 DEF Merged
  <2>4. c \o d \in Seq(Byte)
    OBVIOUS
  <2>5. /\ Eval(a, env, var) = Result(c, {}) /\ ~Failed(c)
        /\ Eval(e, env, var) = Result(d, {}) /\ ~Failed(d)
    BY <2>2, BytesValue
  <2>6. Bytes(c \o d) \in ByteStrings /\ Eval(Bytes(c \o d), env, var) = Result(c \o d, {})
    BY <2>4, BytesValue
  <2>7. Then(Eval(a, env, var), Eval(e, env, var)) = Eval(Bytes(c \o d), env, var)
    <3>1. {} \cup {} = {}
      OBVIOUS
    <3>2. Then(Result(c, {}), Result(d, {})) = Result(c \o d, {} \cup {})
      BY <2>5, ThenJoins
    <3> QED BY <2>5, <2>6, <3>1, <3>2
  <2>8. /\ Val(Append(fs, Bytes(c \o d)), env, var) =
             Then(Val(fs, env, var), Eval(Bytes(c \o d), env, var))
        /\ Val(out, env, var) = Then(Val(fs, env, var), Eval(a, env, var))
    <3>1. PICK x \in ByteStrings : x = Bytes(c \o d)
      BY <2>6
    <3>2. Val(Append(fs, x), env, var) = Then(Val(fs, env, var), Eval(x, env, var))
      BY ValAppend
    <3>3. Val(Append(fs, a), env, var) = Then(Val(fs, env, var), Eval(a, env, var))
      BY ValAppend
    <3> QED BY <2>1, <3>1, <3>2, <3>3
  <2>9. /\ Val(fs, env, var) \in Contents /\ Eval(a, env, var) \in Contents
        /\ Eval(e, env, var) \in Contents
    BY AnyWorld, ValType
  <2>10. Then(Then(Val(fs, env, var), Eval(a, env, var)), Eval(e, env, var)) =
           Then(Val(fs, env, var), Then(Eval(a, env, var), Eval(e, env, var)))
    BY <2>9, ThenAssociative
  <2> QED BY <2>3, <2>7, <2>8, <2>10 DEF Extends
<1>2. CASE ~(out # <<>> /\ e.k = "bytes" /\ Last(out).k = "bytes")
  <2>1. Merged(out, e) = Append(out, e)
    BY <1>2 DEF Merged
  <2> QED BY <2>1, AppendExtends
<1> QED BY <1>1, <1>2

LEMMA PartsExtend ==
  ASSUME Unfolds, NEW env \in PlanEnvs, NEW var \in Vars, NEW out \in Parts,
         NEW e \in ByteStrings, e.k = "concat"
  PROVE  Extends(out \o e.parts, out, e, env, var)
<1>1. e.parts \in Parts /\ e = Concat(e.parts)
  BY Kinds
<1>2. Eval(e, env, var) = Val(e.parts, env, var)
  BY <1>1, ValType
<1> QED BY <1>1, <1>2, ValJoins DEF Extends

LEMMA FlattenedExtends ==
  ASSUME Unfolds, NEW env \in PlanEnvs, NEW var \in Vars, NEW out \in Parts,
         NEW e \in ByteStrings
  PROVE  Extends(Flattened(out, e), out, e, env, var)
BY PartsExtend, AppendExtends DEF Flattened

LEMMA JoinedExtends ==
  ASSUME Unfolds, NEW env \in PlanEnvs, NEW var \in Vars, NEW out \in Parts,
         NEW e \in ByteStrings
  PROVE  Extends(JoinedTo(out, e), out, e, env, var)
<1>1. CASE e = Bytes(<<>>)
  <2>1. <<>> \in Seq(Byte)
    OBVIOUS
  <2>2. Eval(e, env, var) = Empty
    BY <1>1, <2>1, BytesValue DEF Empty
  <2>3. Val(out, env, var) \in Contents
    BY ValType
  <2>4. JoinedTo(out, e) = out
    BY <1>1 DEF JoinedTo
  <2> QED BY <2>2, <2>3, <2>4, ThenUnit DEF Extends
<1>2. CASE e # Bytes(<<>>) /\ e.k = "concat"
  <2>1. JoinedTo(out, e) = out \o e.parts
    BY <1>2 DEF JoinedTo
  <2> QED BY <1>2, <2>1, PartsExtend
<1>3. CASE e # Bytes(<<>>) /\ e.k # "concat"
  <2>1. JoinedTo(out, e) = Merged(out, e)
    BY <1>3 DEF JoinedTo
  <2> QED BY <2>1, MergedExtends
<1> QED BY <1>1, <1>2, <1>3

(* From no parts to all of them, one by one.                               *)
Chain(f, es) ==
  f \in [0 .. Len(es) -> Parts] /\ f[0] = <<>>

LEMMA ChainValue ==
  ASSUME Unfolds, NEW env \in PlanEnvs, NEW var \in Vars, NEW es \in Parts, NEW f,
         Chain(f, es),
         \A i \in 1 .. Len(es) : Extends(f[i], f[i - 1], es[i], env, var)
  PROVE  Val(f[Len(es)], env, var) = Val(es, env, var)
<1>1. PICK n \in Nat : n = Len(es)
  BY DEF Parts
<1>2. PICK g : g = [i \in 0 .. n |-> Val(f[i], env, var)]
  OBVIOUS
<1>3. g[0] = Empty
  BY <1>2, ValEmpty DEF Chain
<1>4. \A i \in 1 .. Len(es) : g[i] = Then(g[i - 1], Eval(es[i], env, var))
  BY <1>1, <1>2 DEF Extends
<1>5. g[Len(es)] = Val(es, env, var)
  BY <1>3, <1>4, ValFolds
<1> QED BY <1>1, <1>2, <1>5

LEMMA NoParts == <<>> \in Parts
BY DEF Parts

LEMMA FlattenedChain ==
  ASSUME NEW es \in Parts
  PROVE  \E f : /\ Chain(f, es)
                /\ \A i \in 1 .. Len(es) : f[i] = Flattened(f[i - 1], es[i])
                /\ f[Len(es)] = LET part(i) == es[i]
                               IN  LeftFold(Flattened, <<>>, Len(es), part)
<1>1. PICK n \in Nat : n = Len(es) /\ \A i \in 1 .. n : es[i] \in ByteStrings
  BY DEF Parts
<1>2. PICK step : step = [i \in 1 .. n |-> [r \in Parts |-> Flattened(r, es[i])]]
  OBVIOUS
<1>3. step \in [1 .. n -> [Parts -> Parts]]
  BY <1>1, <1>2, FlattenedType
<1>4. PICK f : Steps(f, n, Parts, <<>>, step)
  BY <1>3, NoParts, Iterates
<1>5. ASSUME NEW i \in 1 .. n  PROVE f[i] = Flattened(f[i - 1], es[i])
  <2>1. f[i - 1] \in Parts /\ f[i] = step[i][f[i - 1]]
    BY <1>4 DEF Steps
  <2> QED BY <1>2, <2>1
<1>6. \A i \in 0 .. n : i # 0 => i \in 1 .. n
  OBVIOUS
<1>7. f = [i \in 0 .. n |-> IF i = 0 THEN <<>> ELSE Flattened(f[i - 1], es[i])]
  BY <1>4, <1>5, <1>6 DEF Steps
<1>8. PICK g : g = CHOOSE h : h = [i \in 0 .. n |-> IF i = 0 THEN <<>>
                                     ELSE Flattened(h[i - 1], es[i])]
  OBVIOUS
<1>9. g = [i \in 0 .. n |-> IF i = 0 THEN <<>> ELSE Flattened(g[i - 1], es[i])]
  BY <1>7, <1>8
<1>10. g[0] = <<>> /\ Sequel(g, n)
  BY <1>9 DEF Sequel
<1>11. ASSUME NEW i \in 1 .. n, g[i - 1] \in Parts  PROVE g[i] = step[i][g[i - 1]]
  <2>1. g[i] = Flattened(g[i - 1], es[i])
    BY <1>6, <1>9
  <2>2. step[i][g[i - 1]] = Flattened(g[i - 1], es[i])
    BY <1>2, <1>11
  <2> QED BY <2>1, <2>2
<1>12. g = f
  <2>1. Proceeds(g, n, Parts, <<>>, step)
    BY <1>10, <1>11 DEF Proceeds
  <2> QED BY <1>4, <2>1, Follows
<1>13. (LET part(i) == es[i] IN LeftFold(Flattened, <<>>, Len(es), part)) = g[n]
  BY <1>1, <1>8 DEF LeftFold
<1>14. Chain(f, es)
  BY <1>1, <1>4 DEF Steps, Chain
<1> QED BY <1>1, <1>5, <1>12, <1>13, <1>14

LEMMA MergedChain ==
  ASSUME NEW es \in Parts
  PROVE  \E f : /\ Chain(f, es)
                /\ \A i \in 1 .. Len(es) : f[i] = Merged(f[i - 1], es[i])
                /\ f[Len(es)] = LET part(i) == es[i]
                               IN  LeftFold(Merged, <<>>, Len(es), part)
<1>1. PICK n \in Nat : n = Len(es) /\ \A i \in 1 .. n : es[i] \in ByteStrings
  BY DEF Parts
<1>2. PICK step : step = [i \in 1 .. n |-> [r \in Parts |-> Merged(r, es[i])]]
  OBVIOUS
<1>3. step \in [1 .. n -> [Parts -> Parts]]
  BY <1>1, <1>2, MergedType
<1>4. PICK f : Steps(f, n, Parts, <<>>, step)
  BY <1>3, NoParts, Iterates
<1>5. ASSUME NEW i \in 1 .. n  PROVE f[i] = Merged(f[i - 1], es[i])
  <2>1. f[i - 1] \in Parts /\ f[i] = step[i][f[i - 1]]
    BY <1>4 DEF Steps
  <2> QED BY <1>2, <2>1
<1>6. \A i \in 0 .. n : i # 0 => i \in 1 .. n
  OBVIOUS
<1>7. f = [i \in 0 .. n |-> IF i = 0 THEN <<>> ELSE Merged(f[i - 1], es[i])]
  BY <1>4, <1>5, <1>6 DEF Steps
<1>8. PICK g : g = CHOOSE h : h = [i \in 0 .. n |-> IF i = 0 THEN <<>>
                                     ELSE Merged(h[i - 1], es[i])]
  OBVIOUS
<1>9. g = [i \in 0 .. n |-> IF i = 0 THEN <<>> ELSE Merged(g[i - 1], es[i])]
  BY <1>7, <1>8
<1>10. g[0] = <<>> /\ Sequel(g, n)
  BY <1>9 DEF Sequel
<1>11. ASSUME NEW i \in 1 .. n, g[i - 1] \in Parts  PROVE g[i] = step[i][g[i - 1]]
  <2>1. g[i] = Merged(g[i - 1], es[i])
    BY <1>6, <1>9
  <2>2. step[i][g[i - 1]] = Merged(g[i - 1], es[i])
    BY <1>2, <1>11
  <2> QED BY <2>1, <2>2
<1>12. g = f
  <2>1. Proceeds(g, n, Parts, <<>>, step)
    BY <1>10, <1>11 DEF Proceeds
  <2> QED BY <1>4, <2>1, Follows
<1>13. (LET part(i) == es[i] IN LeftFold(Merged, <<>>, Len(es), part)) = g[n]
  BY <1>1, <1>8 DEF LeftFold
<1>14. Chain(f, es)
  BY <1>1, <1>4 DEF Steps, Chain
<1> QED BY <1>1, <1>5, <1>12, <1>13, <1>14

(* es are the simplified xs; and what simplify_bytes joins them to.        *)
Simplified(es, xs) == Len(xs) = Len(es) /\ \A i \in 1 .. Len(es) : es[i] = Simplify(xs[i])
JoinedParts(xs) == LET part(i) == Simplify(xs[i]) IN LeftFold(JoinedTo, <<>>, Len(xs), part)

LEMMA JoinedChain ==
  ASSUME NEW es \in Parts, NEW xs, Simplified(es, xs)
  PROVE  \E f : /\ Chain(f, es)
                /\ \A i \in 1 .. Len(es) : f[i] = JoinedTo(f[i - 1], es[i])
                /\ f[Len(es)] = JoinedParts(xs)
<1>1. PICK n \in Nat : n = Len(es) /\ \A i \in 1 .. n : es[i] \in ByteStrings
  BY DEF Parts
<1>0. Len(xs) = n /\ \A i \in 1 .. n : es[i] = Simplify(xs[i])
  BY <1>1 DEF Simplified
<1>2. PICK step : step = [i \in 1 .. n |-> [r \in Parts |-> JoinedTo(r, es[i])]]
  OBVIOUS
<1>3. step \in [1 .. n -> [Parts -> Parts]]
  BY <1>1, <1>2, JoinedType
<1>4. PICK f : Steps(f, n, Parts, <<>>, step)
  BY <1>3, NoParts, Iterates
<1>5. ASSUME NEW i \in 1 .. n  PROVE f[i] = JoinedTo(f[i - 1], es[i])
  <2>1. f[i - 1] \in Parts /\ f[i] = step[i][f[i - 1]]
    BY <1>4 DEF Steps
  <2> QED BY <1>2, <2>1
<1>6. \A i \in 0 .. n : i # 0 => i \in 1 .. n
  OBVIOUS
<1>7. f = [i \in 0 .. n |-> IF i = 0 THEN <<>> ELSE JoinedTo(f[i - 1], Simplify(xs[i]))]
  BY <1>0, <1>4, <1>5, <1>6 DEF Steps
<1>8. PICK g : g = CHOOSE h : h = [i \in 0 .. n |-> IF i = 0 THEN <<>>
                                     ELSE JoinedTo(h[i - 1], Simplify(xs[i]))]
  OBVIOUS
<1>9. g = [i \in 0 .. n |-> IF i = 0 THEN <<>> ELSE JoinedTo(g[i - 1], Simplify(xs[i]))]
  BY <1>7, <1>8
<1>10. g[0] = <<>> /\ Sequel(g, n)
  BY <1>9 DEF Sequel
<1>11. ASSUME NEW i \in 1 .. n, g[i - 1] \in Parts  PROVE g[i] = step[i][g[i - 1]]
  <2>1. g[i] = JoinedTo(g[i - 1], Simplify(xs[i]))
    BY <1>6, <1>9
  <2>2. step[i][g[i - 1]] = JoinedTo(g[i - 1], es[i])
    BY <1>2, <1>11
  <2> QED BY <1>0, <2>1, <2>2
<1>12. g = f
  <2>1. Proceeds(g, n, Parts, <<>>, step)
    BY <1>10, <1>11 DEF Proceeds
  <2> QED BY <1>4, <2>1, Follows
<1>13. JoinedParts(xs) = g[n]
  BY <1>0, <1>8 DEF LeftFold, JoinedParts
<1>14. Chain(f, es)
  BY <1>1, <1>4 DEF Steps, Chain
<1> QED BY <1>1, <1>5, <1>12, <1>13, <1>14

LEMMA FlatType ==
  ASSUME NEW es \in Parts
  PROVE  Flat(es) \in Parts
<1>1. PICK f : Chain(f, es) /\ f[Len(es)] = LET part(i) == es[i]
                                            IN  LeftFold(Flattened, <<>>, Len(es), part)
  BY FlattenedChain
<1>2. f[Len(es)] \in Parts
  BY <1>1 DEF Chain, Parts
<1> QED BY <1>1, <1>2 DEF Flat

LEMMA FlatValue ==
  ASSUME Unfolds, NEW env \in PlanEnvs, NEW var \in Vars, NEW es \in Parts
  PROVE  Val(Flat(es), env, var) = Val(es, env, var)
<1>1. PICK f : /\ Chain(f, es)
               /\ \A i \in 1 .. Len(es) : f[i] = Flattened(f[i - 1], es[i])
               /\ f[Len(es)] = LET part(i) == es[i]
                               IN  LeftFold(Flattened, <<>>, Len(es), part)
  BY FlattenedChain
<1>2. ASSUME NEW i \in 1 .. Len(es)  PROVE Extends(f[i], f[i - 1], es[i], env, var)
  <2>1. f[i - 1] \in Parts /\ es[i] \in ByteStrings
    BY <1>1 DEF Chain, Parts
  <2> QED BY <1>1, <2>1, FlattenedExtends
<1>3. Val(f[Len(es)], env, var) = Val(es, env, var)
  BY <1>1, <1>2, ChainValue
<1> QED BY <1>1, <1>3 DEF Flat

LEMMA AloneType ==
  ASSUME NEW es \in Parts
  PROVE  Alone(es) \in ByteStrings
<1>1. Len(es) = 1 => es[1] \in ByteStrings
  BY DEF Parts
<1>2. Concat(es) \in StringsOver(Numbers, ByteStrings, Conditions)
  BY StringCases DEF Parts
<1> QED BY <1>1, <1>2, PlansOverPlans DEF Alone

LEMMA AloneValue ==
  ASSUME Unfolds, NEW env \in PlanEnvs, NEW var \in Vars, NEW es \in Parts
  PROVE  Eval(Alone(es), env, var) = Val(es, env, var)
<1>1. CASE Len(es) = 1
  <2>1. es[1] \in ByteStrings
    BY <1>1 DEF Parts
  <2>2. /\ <<es[1]>> \in Seq(ByteStrings) /\ Len(<<es[1]>>) = 1
        /\ \A i \in 1 .. 1 : <<es[1]>>[i] = es[i]
    BY <2>1
  <2>3. <<es[1]>> = es
    BY <1>1, <2>2, SeqEqual DEF Parts
  <2> QED BY <1>1, <2>1, <2>3, ValOne DEF Alone
<1>2. CASE Len(es) # 1
  BY <1>2, ValType DEF Alone
<1> QED BY <1>1, <1>2

LEMMA NormalizeType ==
  ASSUME NEW es \in Parts
  PROVE  Normalize(es) \in ByteStrings
<1>1. PICK fs \in Parts : fs = Flat(es)
  BY FlatType
<1>2. PICK f : Chain(f, fs) /\ f[Len(fs)] = LET part(i) == fs[i]
                                            IN  LeftFold(Merged, <<>>, Len(fs), part)
  BY MergedChain
<1>3. f[Len(fs)] \in Parts
  BY <1>2 DEF Chain, Parts
<1>4. Normalize(es) = Alone(f[Len(fs)])
  BY <1>1, <1>2 DEF Normalize
<1> QED BY <1>3, <1>4, AloneType

(* Normalized parts are the parts one after the other.                     *)
THEOREM NormalizeKeeps ==
  ASSUME Unfolds, NEW env \in PlanEnvs, NEW var \in Vars, NEW es \in Seq(ByteStrings)
  PROVE  Eval(Normalize(es), env, var) = Eval(Concat(es), env, var)
<1>0. es \in Parts
  BY DEF Parts
<1>1. PICK fs \in Parts : fs = Flat(es)
  BY <1>0, FlatType
<1>2. PICK f : /\ Chain(f, fs)
               /\ \A i \in 1 .. Len(fs) : f[i] = Merged(f[i - 1], fs[i])
               /\ f[Len(fs)] = LET part(i) == fs[i]
                               IN  LeftFold(Merged, <<>>, Len(fs), part)
  BY MergedChain
<1>3. ASSUME NEW i \in 1 .. Len(fs)  PROVE Extends(f[i], f[i - 1], fs[i], env, var)
  <2>1. f[i - 1] \in Parts /\ fs[i] \in ByteStrings
    BY <1>2 DEF Chain, Parts
  <2> QED BY <1>2, <2>1, MergedExtends
<1>4. Val(f[Len(fs)], env, var) = Val(fs, env, var)
  BY <1>2, <1>3, ChainValue
<1>5. Val(fs, env, var) = Val(es, env, var)
  BY <1>0, <1>1, FlatValue
<1>6. f[Len(fs)] \in Parts
  BY <1>2 DEF Chain, Parts
<1>7. Eval(Alone(f[Len(fs)]), env, var) = Val(f[Len(fs)], env, var)
  BY <1>6, AloneValue
<1>8. Normalize(es) = Alone(f[Len(fs)])
  BY <1>1, <1>2 DEF Normalize
<1> QED BY <1>0, <1>4, <1>5, <1>7, <1>8, ValType

----------------------------------------------------------------------------
(* Simplified expressions. *)

(* s is as good as r: where r has a value, s has it too, with no more keys. *)
Improves(s, r) == ~Failed(r.v) => s.v = r.v /\ s.keys \subseteq r.keys

LEMMA ImprovesTransitive ==
  ASSUME NEW r, NEW s, NEW t, Improves(r, s), Improves(s, t)
  PROVE  Improves(r, t)
BY DEF Improves

LEMMA Of1Improves ==
  ASSUME NEW e, NEW d, NEW x, NEW y, NEW env, NEW var, Improves(y, x),
         \A u : Makes(d, <<u>>, env, var) = Makes(e, <<u>>, env, var),
         (d.k = "storage") <=> (e.k = "storage")
  PROVE  Improves(Of1(d, y, env, var), Of1(e, x, env, var))
BY DEF Improves, Of1, Result

LEMMA Of3Improves ==
  ASSUME NEW e, NEW d, NEW x1, NEW y1, NEW x2, NEW y2, NEW x3, NEW y3, NEW env, NEW var,
         Improves(y1, x1), Improves(y2, x2), Improves(y3, x3),
         \A u, v, w : Makes(d, <<u, v, w>>, env, var) = Makes(e, <<u, v, w>>, env, var)
  PROVE  Improves(Of3(d, y1, y2, y3, env, var), Of3(e, x1, x2, x3, env, var))
<1>1. CASE Failed(x1.v)
  BY <1>1 DEF Improves, Of3, Result
<1>2. CASE ~Failed(x1.v) /\ Failed(x2.v)
  BY <1>2 DEF Improves, Of3, Result
<1>3. CASE ~Failed(x1.v) /\ ~Failed(x2.v) /\ Failed(x3.v)
  BY <1>3 DEF Improves, Of3, Result
<1>4. CASE ~Failed(x1.v) /\ ~Failed(x2.v) /\ ~Failed(x3.v)
  <2>1. /\ y1.v = x1.v /\ y2.v = x2.v /\ y3.v = x3.v
        /\ y1.keys \cup y2.keys \cup y3.keys \subseteq x1.keys \cup x2.keys \cup x3.keys
    BY <1>4 DEF Improves
  <2> QED BY <1>4, <2>1 DEF Improves, Of3, Result
<1> QED BY <1>1, <1>2, <1>3, <1>4

LEMMA ThenImproves ==
  ASSUME NEW r \in Contents, NEW s \in Contents, NEW p \in Contents, NEW q \in Contents,
         Improves(p, r), Improves(q, s)
  PROVE  Improves(Then(p, q), Then(r, s))
<1>1. CASE Failed(r.v)
  BY <1>1 DEF Improves, Then
<1>2. CASE ~Failed(r.v) /\ Failed(s.v)
  BY <1>2 DEF Improves, Then, After, Result
<1>3. CASE ~Failed(r.v) /\ ~Failed(s.v)
  <2>1. p.v = r.v /\ q.v = s.v /\ q.keys \cup p.keys \subseteq s.keys \cup r.keys
    BY <1>3 DEF Improves
  <2> QED BY <1>3, <2>1 DEF Improves, Then, After, Result
<1> QED BY <1>1, <1>2, <1>3

LEMMA ChoiceImproves ==
  ASSUME NEW c \in Verdicts, NEW t, NEW e, NEW p, NEW q, Improves(p, t), Improves(q, e)
  PROVE  /\ Improves(IF Failed(c.v) THEN c ELSE After(IF c.v THEN p ELSE q, c.keys),
                     IF Failed(c.v) THEN c ELSE After(IF c.v THEN t ELSE e, c.keys))
         /\ p = q => Improves(p, IF Failed(c.v) THEN c
                                 ELSE After(IF c.v THEN t ELSE e, c.keys))
<1>1. CASE Failed(c.v)
  BY <1>1 DEF Improves
<1>2. CASE ~Failed(c.v)
  <2>1. c.v \in BOOLEAN
    BY <1>2 DEF Verdicts, Results, Failed
  <2>2. CASE c.v
    BY <1>2, <2>2 DEF Improves, After, Result
  <2>3. CASE ~c.v
    BY <1>2, <2>3 DEF Improves, After, Result
  <2> QED BY <2>1, <2>2, <2>3
<1> QED BY <1>1, <1>2

LEMMA OperatedImproves ==
  ASSUME NEW op, NEW x, NEW y, NEW p, NEW q, NEW r, NEW s,
         Operated(op, x, y, r), Operated(op, p, q, s), Improves(p, x), Improves(q, y)
  PROVE  Improves(s, r)
<1>1. SUFFICES ASSUME ~Failed(r.v)  PROVE s.v = r.v /\ s.keys \subseteq r.keys
  BY DEF Improves
<1>2. ~Failed(x.v) /\ ~Failed(y.v) /\ ~Failed(Apply(op, x.v, y.v))
  BY <1>1 DEF Operated
<1>3. p.v = x.v /\ q.v = y.v /\ p.keys \cup q.keys \subseteq x.keys \cup y.keys
  BY <1>2 DEF Improves
<1>4. r = Result(Apply(op, x.v, y.v), x.keys \cup y.keys)
  BY <1>1 DEF Operated
<1>5. s = Result(Apply(op, x.v, y.v), p.keys \cup q.keys)
  BY <1>2, <1>3 DEF Operated
<1> QED BY <1>3, <1>4, <1>5 DEF Result

(* A concatenation of better parts is better.                              *)
LEMMA ValImproves ==
  ASSUME Unfolds, NEW env \in PlanEnvs, NEW var \in Vars, NEW es \in Parts, NEW fs \in Parts,
         Len(fs) = Len(es),
         \A i \in 1 .. Len(es) : Improves(Eval(fs[i], env, var), Eval(es[i], env, var))
  PROVE  Improves(Val(fs, env, var), Val(es, env, var))
<1>1. PICK n \in Nat : n = Len(es) /\ n = Len(fs)
  BY DEF Parts
<1>2. PICK f : JoinsParts(f, es, env, var)
  BY ValUnfolds
<1>3. PICK g : JoinsParts(g, fs, env, var)
  BY ValUnfolds
<1>4. PICK T : T = {i \in 0 .. n : Improves(g[i], f[i])}
  OBVIOUS
<1>5. 0 \in T
  BY <1>2, <1>3, <1>4 DEF JoinsParts, Improves
<1>6. ASSUME NEW i \in 0 .. n, 0 < i, i - 1 \in T  PROVE i \in T
  <2>1. i \in 1 .. n /\ Improves(g[i - 1], f[i - 1])
    BY <1>4, <1>6
  <2>2. f[i] = Then(f[i - 1], Eval(es[i], env, var)) /\ f[i - 1] \in Contents
    BY <1>1, <1>2, <2>1 DEF JoinsParts
  <2>3. g[i] = Then(g[i - 1], Eval(fs[i], env, var)) /\ g[i - 1] \in Contents
    BY <1>1, <1>3, <2>1 DEF JoinsParts
  <2>4. es[i] \in ByteStrings /\ fs[i] \in ByteStrings
    BY <1>1, <2>1 DEF Parts
  <2>5. Eval(es[i], env, var) \in Contents /\ Eval(fs[i], env, var) \in Contents
    BY <2>4, AnyWorld
  <2>6. Improves(Eval(fs[i], env, var), Eval(es[i], env, var))
    BY <1>1, <2>1
  <2>7. Improves(g[i], f[i])
    BY <2>1, <2>2, <2>3, <2>5, <2>6, ThenImproves
  <2> QED BY <1>4, <2>7
<1>7. \A i \in 0 .. n : i \in T
  BY <1>5, <1>6, Upward
<1>8. Improves(g[n], f[n])
  BY <1>4, <1>7
<1> QED BY <1>1, <1>2, <1>3, <1>8 DEF JoinsParts

LEMMA NumberKinds ==
  ASSUME NEW e \in Numbers
  PROVE  IsConst(e) => e.n \in Num /\ e = Const(e.n)
<1>1. e \in NumbersOver(Numbers, ByteStrings, Conditions)
  BY PlansOverPlans
<1>2. (\E n \in Num : e = Const(n)) \/ e.k # "const"
  <2>1. CASE \E op \in BinaryOps, a \in Numbers, b \in Numbers : e = Binary(op, a, b)
    BY <2>1 DEF Binary, BinaryOps
  <2>2. CASE ~\E op \in BinaryOps, a \in Numbers, b \in Numbers : e = Binary(op, a, b)
    BY <1>1, <2>2, NumberCases DEF Word, BlockHeight, Var, ULe, Length, If
  <2> QED BY <2>1, <2>2
<1>3. \A n : Const(n).k = "const" /\ Const(n).n = n
  BY DEF Const
<1> QED BY <1>2, <1>3 DEF IsConst

LEMMA NumberConstants ==
  ASSUME NEW n \in Num
  PROVE  Const(n) \in Numbers
<1>1. Const(n) \in NumbersOver(Numbers, ByteStrings, Conditions)
  BY NumberCases
<1> QED BY <1>1, PlansOverPlans

LEMMA NumberConstantValue ==
  ASSUME Unfolds, NEW env \in PlanEnvs, NEW var \in Vars, NEW n \in Num
  PROVE  Eval(Const(n), env, var) = Result(n, {})
<1>1. Eval(Const(n), env, var) = EvalStep(Const(n), env, var)
  BY NumberConstants DEF Unfolds
<1> QED BY <1>1, ConstStep

LEMMA BinaryType ==
  ASSUME NEW op \in BinaryOps, NEW a \in Numbers, NEW b \in Numbers
  PROVE  Binary(op, a, b) \in Numbers
<1>1. Binary(op, a, b) \in NumbersOver(Numbers, ByteStrings, Conditions)
  BY NumberCases
<1> QED BY <1>1, PlansOverPlans

LEMMA ZeroAndOne == 0 \in Num /\ 1 \in Num /\ ~Failed(0) /\ ~Failed(1)
<1>1. 0 \in Num /\ 1 \in Num
  BY ModulusAssumption DEF Num
<1>2. \A v \in Num : ~Failed(v)
  BY NoFailure DEF Data
<1> QED BY <1>1, <1>2

LEMMA FoldableValue ==
  ASSUME NEW op \in BinaryOps, NEW a \in Numbers, NEW b \in Numbers, Foldable(op, a, b)
  PROVE  /\ a = Const(a.n) /\ a.n \in Num /\ b = Const(b.n) /\ b.n \in Num
         /\ Apply(op, a.n, b.n) \in Num
<1>1. /\ a = Const(a.n) /\ a.n \in Num /\ b = Const(b.n) /\ b.n \in Num
      /\ op \in {"div", "mod"} => b.n # 0
  BY NumberKinds DEF Foldable
<1>2. Apply(op, a.n, b.n) \in Num \cup {Err}
  BY <1>1, ApplyType
<1>3. PICK x \in Num, y \in Num : x = a.n /\ y = b.n
  BY <1>1
<1>4. x \in Nat /\ y \in Nat
  BY ModulusAssumption DEF Num
<1>5. CASE op = "div"
  <2>1. Apply(op, x, y) = x \div y /\ y \in Nat \ {0}
    BY <1>1, <1>3, <1>4, <1>5 DEF Apply
  <2> QED BY <1>1, <1>3, <2>1, Quotient
<1>6. CASE op = "mod"
  <2>1. Apply(op, x, y) = x % y /\ y \in Nat \ {0}
    BY <1>1, <1>3, <1>4, <1>6 DEF Apply
  <2>2. x % y \in 0 .. y - 1
    BY <1>4, <2>1
  <2>3. x % y \in Num
    BY <1>3, <1>4, <2>2, ModulusAssumption DEF Num
  <2> QED BY <1>1, <1>3, <2>1, <2>3
<1>7. CASE op \in {"add", "sub", "mul"}
  <2>1. x + y \in Int /\ x - y \in Int /\ x * y \in Int
    BY <1>4
  <2> QED BY <1>1, <1>3, <1>7, <2>1, Remainder DEF Apply
<1>8. CASE op \in {"shr", "shl"}
  <2>1. y < NumBits => x \div Pow2[y] \in Num /\ x * Pow2[y] \in Int
    <3>1. y < NumBits => Pow2[y] \in Nat \ {0}
      BY PowerType
    <3> QED BY <1>4, <3>1, Quotient
  <2>2. y >= NumBits \/ y < NumBits
    BY <1>4, ModulusAssumption
  <2> QED BY <1>1, <1>3, <1>4, <1>8, <2>1, <2>2, Remainder, ZeroAndOne DEF Apply
<1>9. CASE op \in {"and", "or", "xor"}
  BY <1>1, <1>9, BitAssumption DEF Apply
<1> QED BY <1>5, <1>6, <1>7, <1>8, <1>9 DEF BinaryOps

LEMMA FoldType ==
  ASSUME NEW op \in BinaryOps, NEW a \in Numbers, NEW b \in Numbers
  PROVE  Fold(op, a, b) \in Numbers
<1>1. Zero \in Numbers
  BY NumberConstants, ZeroAndOne DEF Zero
<1>2. Foldable(op, a, b) => Const(Apply(op, a.n, b.n)) \in Numbers
  BY FoldableValue, NumberConstants
<1>3. Binary(op, a, b) \in Numbers
  BY BinaryType
<1> QED BY <1>1, <1>2, <1>3 DEF Fold

(* Folding an operator and its operands is as good as the operator.        *)
(* simplify_num, for one operator: what it folds to is better.             *)
LEMMA FoldImproves ==
  ASSUME Unfolds, NEW env \in PlanEnvs, NEW var \in Vars, NEW op \in BinaryOps,
         NEW a \in Numbers, NEW b \in Numbers
  PROVE  Improves(Eval(Fold(op, a, b), env, var), Eval(Binary(op, a, b), env, var))
<1>1. PICK x \in Numerals, y \in Numerals : x = Eval(a, env, var) /\ y = Eval(b, env, var)
  BY AnyWorld
<1>2. PICK r : r = Eval(Binary(op, a, b), env, var)
  OBVIOUS
<1>3. Operated(op, x, y, r)
  <2>1. r = EvalStep(Binary(op, a, b), env, var)
    BY <1>2, BinaryType DEF Unfolds
  <2> QED BY <1>1, <2>1, BinaryStep
<1>4. SUFFICES ASSUME ~Failed(r.v)
               PROVE  LET s == Eval(Fold(op, a, b), env, var)
                      IN  s.v = r.v /\ s.keys \subseteq r.keys
  BY <1>2 DEF Improves
<1>5. /\ ~Failed(x.v) /\ ~Failed(y.v)
      /\ r.v = Apply(op, x.v, y.v) /\ r.keys = x.keys \cup y.keys
  BY <1>3, <1>4 DEF Operated, Result
<1>6. x.v \in Num /\ y.v \in Num
  BY <1>5 DEF Numerals, Results, Failed
<1>7. /\ Eval(Zero, env, var) = Result(0, {}) /\ Eval(One, env, var) = Result(1, {})
  BY NumberConstantValue, ZeroAndOne DEF Zero, One
<1>20. /\ (a = Zero => x.v = 0) /\ (a = One => x.v = 1) /\ (b = Zero => y.v = 0)
       /\ (b = One => y.v = 1)
  BY <1>1, <1>7 DEF Result
<1>8. CASE Absorbed(op, a, b)
  <2>1. \/ op \in {"mul", "and", "shr", "shl"} /\ x.v = 0
        \/ op \in {"mul", "and"} /\ y.v = 0
    BY <1>8, <1>20 DEF Absorbed
  <2>2. Apply(op, x.v, y.v) = 0
    BY <1>6, <2>1, Absorbing
  <2> QED BY <1>5, <1>7, <1>8, <2>2 DEF Fold, Result
<1>9. CASE ~Absorbed(op, a, b) /\ LeftUnit(op, a)
  <2>1. \/ op \in {"add", "or"} /\ x.v = 0
        \/ op = "mul" /\ x.v = 1
    BY <1>9, <1>20 DEF LeftUnit
  <2>2. Apply(op, x.v, y.v) = y.v
    BY <1>6, <2>1, Neutral
  <2> QED BY <1>1, <1>5, <1>9, <2>2 DEF Fold
<1>10. CASE ~Absorbed(op, a, b) /\ ~LeftUnit(op, a) /\ RightUnit(op, b)
  <2>1. \/ op \in {"add", "sub", "or", "shr", "shl"} /\ y.v = 0
        \/ op = "mul" /\ y.v = 1
    BY <1>10, <1>20 DEF RightUnit
  <2>2. Apply(op, x.v, y.v) = x.v
    BY <1>6, <2>1, Neutral
  <2> QED BY <1>1, <1>5, <1>10, <2>2 DEF Fold
<1>11. CASE /\ ~Absorbed(op, a, b) /\ ~LeftUnit(op, a) /\ ~RightUnit(op, b)
            /\ Foldable(op, a, b)
  <2>1. PICK c \in Num, d \in Num : /\ a = Const(c) /\ b = Const(d) /\ c = a.n /\ d = b.n
                                    /\ Apply(op, c, d) \in Num
    BY <1>11, FoldableValue
  <2>2. x.v = c /\ y.v = d
    BY <1>1, <2>1, NumberConstantValue DEF Result
  <2>3. Fold(op, a, b) = Const(Apply(op, c, d))
    BY <1>11, <2>1 DEF Fold
  <2>4. Eval(Const(Apply(op, c, d)), env, var) = Result(Apply(op, c, d), {})
    BY <2>1, NumberConstantValue
  <2> QED BY <1>5, <2>2, <2>3, <2>4 DEF Result
<1>12. CASE /\ ~Absorbed(op, a, b) /\ ~LeftUnit(op, a) /\ ~RightUnit(op, b)
            /\ ~Foldable(op, a, b)
  BY <1>2, <1>12 DEF Fold
<1> QED BY <1>8, <1>9, <1>10, <1>11, <1>12

(* Operator by operator. *)
LEMMA BinaryImproves ==
  ASSUME Unfolds, NEW env \in PlanEnvs, NEW var \in Vars, NEW op \in BinaryOps,
         NEW a \in Numbers, NEW b \in Numbers, NEW c \in Numbers, NEW d \in Numbers,
         Improves(Eval(c, env, var), Eval(a, env, var)),
         Improves(Eval(d, env, var), Eval(b, env, var))
  PROVE  Improves(Eval(Fold(op, c, d), env, var), Eval(Binary(op, a, b), env, var))
<1>1. /\ Eval(a, env, var) \in Numerals /\ Eval(b, env, var) \in Numerals
      /\ Eval(c, env, var) \in Numerals /\ Eval(d, env, var) \in Numerals
  BY AnyWorld
<1>2. Operated(op, Eval(a, env, var), Eval(b, env, var), Eval(Binary(op, a, b), env, var))
  <2>1. Eval(Binary(op, a, b), env, var) = EvalStep(Binary(op, a, b), env, var)
    BY BinaryType DEF Unfolds
  <2> QED BY <1>1, <2>1, BinaryStep
<1>3. Operated(op, Eval(c, env, var), Eval(d, env, var), Eval(Binary(op, c, d), env, var))
  <2>1. Eval(Binary(op, c, d), env, var) = EvalStep(Binary(op, c, d), env, var)
    BY BinaryType DEF Unfolds
  <2> QED BY <1>1, <2>1, BinaryStep
<1>4. Improves(Eval(Binary(op, c, d), env, var), Eval(Binary(op, a, b), env, var))
  BY <1>2, <1>3, OperatedImproves
<1>5. Improves(Eval(Fold(op, c, d), env, var), Eval(Binary(op, c, d), env, var))
  BY FoldImproves
<1> QED BY <1>4, <1>5, ImprovesTransitive

----------------------------------------------------------------------------
(* The simplifier on every plan. *)

LEMMA SimplifySteps ==
  /\ \A es : SimplifyStep(Concat(es)) = Alone(JoinedParts(es))
  /\ \A a : SimplifyStep(Storage(a)) = Storage(Simplify(a))
  /\ \A a, w : SimplifyStep(Le(a, w)) =
                 IF IsConst(Simplify(a)) THEN Bytes(LeBytes(Simplify(a).n, w))
                 ELSE Le(Simplify(a), w)
  /\ \A a, b, c : SimplifyStep(Slice(a, b, c)) = Slice(Simplify(a), Simplify(b), Simplify(c))
  /\ \A op \in BinaryOps : \A a, b :
       SimplifyStep(Binary(op, a, b)) = Fold(op, Simplify(a), Simplify(b))
  /\ \A a : SimplifyStep(ULe(a)) = ULe(Simplify(a))
  /\ \A a : SimplifyStep(Length(a)) = Length(Simplify(a))
  /\ \A c, t, e : SimplifyStep(If(c, t, e)) =
                    IF Simplify(t) = Simplify(e) THEN Simplify(t)
                    ELSE If(c, Simplify(t), Simplify(e))
<1>1. \A es : SimplifyStep(Concat(es)) = Alone(JoinedParts(es))
  BY DEF SimplifyStep, Simplifying, Concat, BinaryOps, JoinedParts
<1>2. \A a : SimplifyStep(Storage(a)) = Storage(Simplify(a))
  BY DEF SimplifyStep, Simplifying, Storage, BinaryOps
<1>3. \A a, w : SimplifyStep(Le(a, w)) =
                 IF IsConst(Simplify(a)) THEN Bytes(LeBytes(Simplify(a).n, w))
                 ELSE Le(Simplify(a), w)
  BY DEF SimplifyStep, Simplifying, Le, BinaryOps
<1>4. \A a, b, c : SimplifyStep(Slice(a, b, c)) = Slice(Simplify(a), Simplify(b), Simplify(c))
  BY DEF SimplifyStep, Simplifying, Slice, BinaryOps
<1>5. \A op \in BinaryOps : \A a, b :
       SimplifyStep(Binary(op, a, b)) = Fold(op, Simplify(a), Simplify(b))
  BY DEF SimplifyStep, Simplifying, Binary, BinaryOps
<1>6. \A a : SimplifyStep(ULe(a)) = ULe(Simplify(a))
  BY DEF SimplifyStep, Simplifying, ULe, BinaryOps
<1>7. \A a : SimplifyStep(Length(a)) = Length(Simplify(a))
  BY DEF SimplifyStep, Simplifying, Length, BinaryOps
<1>8. \A c, t, e : SimplifyStep(If(c, t, e)) =
                    IF Simplify(t) = Simplify(e) THEN Simplify(t)
                    ELSE If(c, Simplify(t), Simplify(e))
  BY DEF SimplifyStep, Simplifying, If, BinaryOps
<1> QED BY <1>1, <1>2, <1>3, <1>4, <1>5, <1>6, <1>7, <1>8

LEMMA Unsimplified ==
  ASSUME NEW e, \/ \E n : e = Const(n)
                \/ \E i : e = Word(i)
                \/ e \in {BlockHeight, Var}
                \/ \E d : e = Bytes(d)
                \/ \E s, n : e = Calldata(s, n)
                \/ \E c, t, f : e = Choice(c, t, f)
                \/ \E n, b : e = Loop(n, b)
  PROVE  SimplifyStep(e) = e
<1>1. e.k \in {"const", "word", "height", "var", "bytes", "calldata", "choice", "loop"}
  BY DEF Const, Word, BlockHeight, Var, Bytes, Calldata, Choice, Loop
<1> QED BY <1>1 DEF SimplifyStep, Simplifying, BinaryOps

(* As good in every world, and of the same sort.                           *)
Better(d, e) ==
  \A env \in PlanEnvs, var \in Vars : Improves(Eval(d, env, var), Eval(e, env, var))

LEMMA BetterSelf == \A e : Better(e, e)
BY DEF Better, Improves

(* One step of simplify_num, and below one of simplify_bytes, from operands *)
(* whose simplification is as good as they are.                            *)
LEMMA SimplifyNumber ==
  ASSUME Unfolds, NEW N, NEW B,
         N \subseteq Numbers, B \subseteq ByteStrings,
         \A e \in N : Simplify(e) \in Numbers /\ Better(Simplify(e), e),
         \A e \in B : Simplify(e) \in ByteStrings /\ Better(Simplify(e), e),
         NEW x \in NumbersOver(N, B, Conditions)
  PROVE  Simplify(x) \in Numbers /\ Better(Simplify(x), x)
<1>1. x \in Numbers /\ Simplify(x) = SimplifyStep(x)
  <2>1. x \in NumbersOver(Numbers, ByteStrings, Conditions)
    BY OverMonotone
  <2>2. x \in Numbers
    BY <2>1, PlansOverPlans
  <2> QED BY <2>2 DEF Unfolds
<1>2. \A env \in PlanEnvs, var \in Vars : Eval(x, env, var) = EvalStep(x, env, var)
  BY <1>1 DEF Unfolds
<1>3. CASE \/ \E n \in Num : x = Const(n)
           \/ \E i \in Nat : x = Word(i)
           \/ x = BlockHeight
           \/ x = Var
  <2>1. SimplifyStep(x) = x
    BY <1>3, Unsimplified
  <2> QED BY <1>1, <2>1, BetterSelf
<1>4. CASE \E op \in BinaryOps, a \in N, b \in N : x = Binary(op, a, b)
  <2>1. PICK op \in BinaryOps, a \in N, b \in N : x = Binary(op, a, b)
    BY <1>4
  <2>2. PICK c \in Numbers, d \in Numbers :
          c = Simplify(a) /\ d = Simplify(b) /\ Better(c, a) /\ Better(d, b)
    OBVIOUS
  <2>3. Simplify(x) = Fold(op, c, d)
    BY <1>1, <2>1, <2>2, SimplifySteps
  <2>4. Fold(op, c, d) \in Numbers
    BY FoldType
  <2>5. ASSUME NEW env \in PlanEnvs, NEW var \in Vars
        PROVE  Improves(Eval(Fold(op, c, d), env, var), Eval(Binary(op, a, b), env, var))
    <3>1. /\ Improves(Eval(c, env, var), Eval(a, env, var))
          /\ Improves(Eval(d, env, var), Eval(b, env, var))
          /\ a \in Numbers /\ b \in Numbers
      BY <2>2 DEF Better
    <3> QED BY <3>1, BinaryImproves
  <2> QED BY <2>1, <2>3, <2>4, <2>5 DEF Better
<1>5. CASE \E e \in B : x = ULe(e)
  <2>1. PICK a \in B : x = ULe(a)
    BY <1>5
  <2>2. PICK c \in ByteStrings : c = Simplify(a) /\ Better(c, a)
    OBVIOUS
  <2>3. Simplify(x) = ULe(c)
    BY <1>1, <2>1, <2>2, SimplifySteps
  <2>4. ULe(c) \in Numbers
    BY PlansOverPlans, NumberCases
  <2>5. ASSUME NEW env \in PlanEnvs, NEW var \in Vars
        PROVE  Improves(Eval(ULe(c), env, var), Eval(x, env, var))
    <3>1. Eval(ULe(c), env, var) = EvalStep(ULe(c), env, var)
      BY <2>4 DEF Unfolds
    <3>2. a \in ByteStrings
      OBVIOUS
    <3>3. Eval(a, env, var) \in Results(Data) /\ Eval(c, env, var) \in Results(Data)
      BY <3>2, AnyWorld, SortsAreData
    <3>4. /\ EvalStep(ULe(c), env, var) = Of1(ULe(c), Eval(c, env, var), env, var)
          /\ \A u : Makes(ULe(c), <<u>>, env, var) = NumOf(u)
          /\ ULe(c).k # "storage"
      BY <3>3, ULeStep
    <3>5. /\ EvalStep(ULe(a), env, var) = Of1(ULe(a), Eval(a, env, var), env, var)
          /\ \A u : Makes(ULe(a), <<u>>, env, var) = NumOf(u)
          /\ ULe(a).k # "storage"
      BY <3>3, ULeStep
    <3>6. Improves(Eval(c, env, var), Eval(a, env, var))
      BY <2>2 DEF Better
    <3>7. Improves(Of1(ULe(c), Eval(c, env, var), env, var),
                   Of1(ULe(a), Eval(a, env, var), env, var))
      BY <3>4, <3>5, <3>6, Of1Improves
    <3> QED BY <1>2, <2>1, <3>1, <3>4, <3>5, <3>7
  <2> QED BY <2>3, <2>4, <2>5 DEF Better
<1>6. CASE \E e \in B : x = Length(e)
  <2>1. PICK a \in B : x = Length(a)
    BY <1>6
  <2>2. PICK c \in ByteStrings : c = Simplify(a) /\ Better(c, a)
    OBVIOUS
  <2>3. Simplify(x) = Length(c)
    BY <1>1, <2>1, <2>2, SimplifySteps
  <2>4. Length(c) \in Numbers
    BY PlansOverPlans, NumberCases
  <2>5. ASSUME NEW env \in PlanEnvs, NEW var \in Vars
        PROVE  Improves(Eval(Length(c), env, var), Eval(x, env, var))
    <3>1. Eval(Length(c), env, var) = EvalStep(Length(c), env, var)
      BY <2>4 DEF Unfolds
    <3>2. a \in ByteStrings
      OBVIOUS
    <3>3. Eval(a, env, var) \in Results(Data) /\ Eval(c, env, var) \in Results(Data)
      BY <3>2, AnyWorld, SortsAreData
    <3>4. /\ EvalStep(Length(c), env, var) = Of1(Length(c), Eval(c, env, var), env, var)
          /\ \A u : Makes(Length(c), <<u>>, env, var) = Len(u) % Modulus
          /\ Length(c).k # "storage"
      BY <3>3, LengthStep
    <3>5. /\ EvalStep(Length(a), env, var) = Of1(Length(a), Eval(a, env, var), env, var)
          /\ \A u : Makes(Length(a), <<u>>, env, var) = Len(u) % Modulus
          /\ Length(a).k # "storage"
      BY <3>3, LengthStep
    <3>6. Improves(Eval(c, env, var), Eval(a, env, var))
      BY <2>2 DEF Better
    <3>7. Improves(Of1(Length(c), Eval(c, env, var), env, var),
                   Of1(Length(a), Eval(a, env, var), env, var))
      BY <3>4, <3>5, <3>6, Of1Improves
    <3> QED BY <1>2, <2>1, <3>1, <3>4, <3>5, <3>7
  <2> QED BY <2>3, <2>4, <2>5 DEF Better
<1>7. CASE \E c \in Conditions, t \in N, e \in N : x = If(c, t, e)
  <2>1. PICK c \in Conditions, t \in N, e \in N : x = If(c, t, e)
    BY <1>7
  <2>2. PICK p \in Numbers, q \in Numbers :
          p = Simplify(t) /\ q = Simplify(e) /\ Better(p, t) /\ Better(q, e)
    OBVIOUS
  <2>3. Simplify(x) = IF p = q THEN p ELSE If(c, p, q)
    BY <1>1, <2>1, <2>2, SimplifySteps
  <2>4. If(c, p, q) \in Numbers
    BY PlansOverPlans, NumberCases
  <2>5. ASSUME NEW env \in PlanEnvs, NEW var \in Vars
        PROVE  Improves(Eval(Simplify(x), env, var), Eval(x, env, var))
    <3>1. PICK r \in Verdicts : r = Eval(c, env, var)
      BY AnyWorld
    <3>2. /\ Improves(Eval(p, env, var), Eval(t, env, var))
          /\ Improves(Eval(q, env, var), Eval(e, env, var))
      BY <2>2 DEF Better
    <3>3. Eval(x, env, var) =
            IF Failed(r.v) THEN r
            ELSE After(IF r.v THEN Eval(t, env, var) ELSE Eval(e, env, var), r.keys)
      BY <1>2, <2>1, <3>1, ChoiceStep
    <3>4. Eval(If(c, p, q), env, var) =
            IF Failed(r.v) THEN r
            ELSE After(IF r.v THEN Eval(p, env, var) ELSE Eval(q, env, var), r.keys)
      <4>1. Eval(If(c, p, q), env, var) = EvalStep(If(c, p, q), env, var)
        BY <2>4 DEF Unfolds
      <4> QED BY <3>1, <4>1, ChoiceStep
    <3>5. /\ Improves(Eval(If(c, p, q), env, var), Eval(x, env, var))
          /\ p = q => Improves(Eval(p, env, var), Eval(x, env, var))
      BY <3>2, <3>3, <3>4, ChoiceImproves
    <3> QED BY <2>3, <3>5
  <2> QED BY <2>3, <2>4, <2>5 DEF Better
<1> QED BY <1>3, <1>4, <1>5, <1>6, <1>7, NumberCases

LEMMA SimplifyConcat ==
  ASSUME Unfolds, NEW B, B \subseteq ByteStrings,
         \A e \in B : Simplify(e) \in ByteStrings /\ Better(Simplify(e), e),
         NEW es \in Seq(B)
  PROVE  /\ SimplifyStep(Concat(es)) \in ByteStrings
         /\ Better(SimplifyStep(Concat(es)), Concat(es))
<1>1. PICK n \in Nat : n = Len(es)
  OBVIOUS
<1>2. \A i \in 1 .. n : es[i] \in B
  BY <1>1
<1>3. es \in Parts
  BY DEF Parts
<1>4. PICK fs : fs = [i \in 1 .. n |-> Simplify(es[i])]
  OBVIOUS
<1>5. fs \in Parts /\ Len(fs) = n /\ \A i \in 1 .. n : fs[i] = Simplify(es[i])
  <2>1. fs \in [1 .. n -> ByteStrings]
    BY <1>2, <1>4
  <2> QED BY <1>4, <2>1 DEF Parts
<1>6. fs \in Parts /\ Simplified(fs, es)
  BY <1>1, <1>5 DEF Simplified
<1>7. PICK f : /\ Chain(f, fs)
               /\ \A i \in 1 .. Len(fs) : f[i] = JoinedTo(f[i - 1], fs[i])
               /\ f[Len(fs)] = JoinedParts(es)
  BY <1>6, JoinedChain
<1>8. SimplifyStep(Concat(es)) = Alone(f[Len(fs)])
  BY <1>7, SimplifySteps
<1>9. f[Len(fs)] \in Parts
  BY <1>5, <1>7 DEF Chain
<1>10. Alone(f[Len(fs)]) \in ByteStrings
  BY <1>9, AloneType
<1>11. ASSUME NEW env \in PlanEnvs, NEW var \in Vars
       PROVE  Improves(Eval(Alone(f[Len(fs)]), env, var), Eval(Concat(es), env, var))
  <2>1. ASSUME NEW i \in 1 .. Len(fs)  PROVE Extends(f[i], f[i - 1], fs[i], env, var)
    <3>1. f[i - 1] \in Parts /\ fs[i] \in ByteStrings
      BY <1>5, <1>7 DEF Chain, Parts
    <3> QED BY <1>7, <3>1, JoinedExtends
  <2>2. Val(f[Len(fs)], env, var) = Val(fs, env, var)
    BY <1>5, <1>7, <2>1, ChainValue
  <2>3. Eval(Alone(f[Len(fs)]), env, var) = Val(fs, env, var)
    BY <1>9, <2>2, AloneValue
  <2>4. \A i \in 1 .. Len(es) : Improves(Eval(fs[i], env, var), Eval(es[i], env, var))
    BY <1>1, <1>2, <1>5 DEF Better
  <2>5. Improves(Val(fs, env, var), Val(es, env, var))
    BY <1>1, <1>3, <1>5, <2>4, ValImproves
  <2> QED BY <1>3, <2>3, <2>5, ValType
<1> QED BY <1>8, <1>10, <1>11 DEF Better

LEMMA SimplifyString ==
  ASSUME Unfolds, NEW N, NEW B,
         N \subseteq Numbers, B \subseteq ByteStrings,
         \A e \in N : Simplify(e) \in Numbers /\ Better(Simplify(e), e),
         \A e \in B : Simplify(e) \in ByteStrings /\ Better(Simplify(e), e),
         NEW x \in StringsOver(N, B, Conditions)
  PROVE  Simplify(x) \in ByteStrings /\ Better(Simplify(x), x)
<1>1. x \in ByteStrings /\ Simplify(x) = SimplifyStep(x)
  <2>1. x \in StringsOver(Numbers, ByteStrings, Conditions)
    BY OverMonotone
  <2>2. x \in ByteStrings
    BY <2>1, PlansOverPlans
  <2> QED BY <2>2 DEF Unfolds
<1>2. \A env \in PlanEnvs, var \in Vars : Eval(x, env, var) = EvalStep(x, env, var)
  BY <1>1 DEF Unfolds
<1>3. CASE \/ \E d \in Seq(Byte) : x = Bytes(d)
           \/ \E s \in Nat, n \in Nat \cup {ToEnd} : x = Calldata(s, n)
           \/ \E c \in Conditions, t \in B, e \in B : x = Choice(c, t, e)
           \/ \E n \in N, e \in B : x = Loop(n, e)
  <2>1. SimplifyStep(x) = x
    BY <1>3, Unsimplified
  <2> QED BY <1>1, <2>1, BetterSelf
<1>4. CASE \E e \in B : x = Storage(e)
  <2>1. PICK a \in B : x = Storage(a)
    BY <1>4
  <2>2. PICK c \in ByteStrings : c = Simplify(a) /\ Better(c, a)
    OBVIOUS
  <2>3. Simplify(x) = Storage(c)
    BY <1>1, <2>1, <2>2, SimplifySteps
  <2>4. Storage(c) \in ByteStrings
    BY PlansOverPlans, StringCases
  <2>5. ASSUME NEW env \in PlanEnvs, NEW var \in Vars
        PROVE  Improves(Eval(Storage(c), env, var), Eval(x, env, var))
    <3>1. Eval(Storage(c), env, var) = EvalStep(Storage(c), env, var)
      BY <2>4 DEF Unfolds
    <3>2. a \in ByteStrings
      OBVIOUS
    <3>3. Eval(a, env, var) \in Results(Data) /\ Eval(c, env, var) \in Results(Data)
      BY <3>2, AnyWorld, SortsAreData
    <3>4. /\ EvalStep(Storage(c), env, var) = Of1(Storage(c), Eval(c, env, var), env, var)
          /\ \A u : Makes(Storage(c), <<u>>, env, var) = StoredAt(env, u)
          /\ Storage(c).k = "storage"
      BY <3>3, StorageStep
    <3>5. /\ EvalStep(Storage(a), env, var) = Of1(Storage(a), Eval(a, env, var), env, var)
          /\ \A u : Makes(Storage(a), <<u>>, env, var) = StoredAt(env, u)
          /\ Storage(a).k = "storage"
      BY <3>3, StorageStep
    <3>6. Improves(Eval(c, env, var), Eval(a, env, var))
      BY <2>2 DEF Better
    <3>7. Improves(Of1(Storage(c), Eval(c, env, var), env, var),
                   Of1(Storage(a), Eval(a, env, var), env, var))
      BY <3>4, <3>5, <3>6, Of1Improves
    <3> QED BY <1>2, <2>1, <3>1, <3>4, <3>5, <3>7
  <2> QED BY <2>3, <2>4, <2>5 DEF Better
<1>5. CASE \E es \in Seq(B) : x = Concat(es)
  BY <1>1, <1>5, SimplifyConcat
<1>6. CASE \E e \in B, s \in N, n \in N : x = Slice(e, s, n)
  <2>1. PICK a \in B, s \in N, n \in N : x = Slice(a, s, n)
    BY <1>6
  <2>2. PICK c \in ByteStrings, p \in Numbers, q \in Numbers :
          /\ c = Simplify(a) /\ p = Simplify(s) /\ q = Simplify(n)
          /\ Better(c, a) /\ Better(p, s) /\ Better(q, n)
    OBVIOUS
  <2>3. Simplify(x) = Slice(c, p, q)
    BY <1>1, <2>1, <2>2, SimplifySteps
  <2>4. Slice(c, p, q) \in ByteStrings
    BY PlansOverPlans, StringCases
  <2>5. ASSUME NEW env \in PlanEnvs, NEW var \in Vars
        PROVE  Improves(Eval(Slice(c, p, q), env, var), Eval(x, env, var))
    <3>1. Eval(Slice(c, p, q), env, var) = EvalStep(Slice(c, p, q), env, var)
      BY <2>4 DEF Unfolds
    <3>2. a \in ByteStrings /\ s \in Numbers /\ n \in Numbers
      OBVIOUS
    <3>3. /\ Eval(a, env, var) \in Results(Data) /\ Eval(c, env, var) \in Results(Data)
          /\ Eval(s, env, var) \in Results(Data) /\ Eval(p, env, var) \in Results(Data)
          /\ Eval(n, env, var) \in Results(Data) /\ Eval(q, env, var) \in Results(Data)
      BY <3>2, AnyWorld, SortsAreData
    <3>4. PICK x1, x2, x3, y1, y2, y3 :
            /\ x1 = Eval(a, env, var) /\ x2 = Eval(s, env, var) /\ x3 = Eval(n, env, var)
            /\ y1 = Eval(c, env, var) /\ y2 = Eval(p, env, var) /\ y3 = Eval(q, env, var)
      OBVIOUS
    <3>5. PICK y : y = Slice(c, p, q)
      OBVIOUS
    <3>8. /\ EvalStep(y, env, var) = Of3(y, y1, y2, y3, env, var)
          /\ \A u, v, w : Makes(y, <<u, v, w>>, env, var) = Cut(u, v, w)
      BY <3>3, <3>4, <3>5, SliceStep
    <3>9. /\ EvalStep(x, env, var) = Of3(x, x1, x2, x3, env, var)
          /\ \A u, v, w : Makes(x, <<u, v, w>>, env, var) = Cut(u, v, w)
      BY <2>1, <3>3, <3>4, SliceStep
    <3>6. Improves(y1, x1) /\ Improves(y2, x2) /\ Improves(y3, x3)
      BY <2>2, <3>4 DEF Better
    <3>7. Improves(Of3(y, y1, y2, y3, env, var), Of3(x, x1, x2, x3, env, var))
      BY <3>6, <3>8, <3>9, Of3Improves
    <3> QED BY <1>2, <3>1, <3>5, <3>7, <3>8, <3>9
  <2> QED BY <2>3, <2>4, <2>5 DEF Better
<1>7. CASE \E e \in N, w \in Nat : x = Le(e, w)
  <2>1. PICK a \in N, w \in Nat : x = Le(a, w)
    BY <1>7
  <2>2. PICK c \in Numbers : c = Simplify(a) /\ Better(c, a)
    OBVIOUS
  <2>3. Simplify(x) = IF IsConst(c) THEN Bytes(LeBytes(c.n, w)) ELSE Le(c, w)
    BY <1>1, <2>1, <2>2, SimplifySteps
  <2>4. Le(c, w) \in ByteStrings
    BY PlansOverPlans, StringCases
  <2>5. IsConst(c) => c.n \in Num /\ c = Const(c.n) /\ LeBytes(c.n, w) \in Seq(Byte)
    BY NumberKinds, LeBytesType
  <2>6. IsConst(c) => Bytes(LeBytes(c.n, w)) \in ByteStrings
    BY <2>5, PlansOverPlans, StringCases
  <2>7. ASSUME NEW env \in PlanEnvs, NEW var \in Vars
        PROVE  Improves(Eval(Simplify(x), env, var), Eval(x, env, var))
    <3>1. Eval(Le(c, w), env, var) = EvalStep(Le(c, w), env, var)
      BY <2>4 DEF Unfolds
    <3>2. a \in Numbers
      OBVIOUS
    <3>3. Eval(a, env, var) \in Results(Data) /\ Eval(c, env, var) \in Results(Data)
      BY <3>2, AnyWorld, SortsAreData
    <3>4. /\ EvalStep(Le(c, w), env, var) = Of1(Le(c, w), Eval(c, env, var), env, var)
          /\ \A u : Makes(Le(c, w), <<u>>, env, var) =
                      IF w > PlanLen THEN Panic ELSE LeBytes(u, w)
          /\ Le(c, w).k # "storage"
      BY <3>3, LeStep
    <3>5. /\ EvalStep(Le(a, w), env, var) = Of1(Le(a, w), Eval(a, env, var), env, var)
          /\ \A u : Makes(Le(a, w), <<u>>, env, var) =
                      IF w > PlanLen THEN Panic ELSE LeBytes(u, w)
          /\ Le(a, w).k # "storage"
      BY <3>3, LeStep
    <3>6. Improves(Eval(c, env, var), Eval(a, env, var))
      BY <2>2 DEF Better
    <3>7. Improves(Of1(Le(c, w), Eval(c, env, var), env, var),
                   Of1(Le(a, w), Eval(a, env, var), env, var))
      BY <3>4, <3>5, <3>6, Of1Improves
    <3>8. Improves(Eval(Le(c, w), env, var), Eval(x, env, var))
      BY <1>2, <2>1, <3>1, <3>4, <3>5, <3>7
    <3>9. CASE ~IsConst(c)
      BY <2>3, <3>8, <3>9
    <3>10. CASE IsConst(c)
      <4>1. PICK m \in Num : m = c.n /\ c = Const(m) /\ LeBytes(m, w) \in Seq(Byte)
        BY <2>5, <3>10
      <4>2. Eval(Simplify(x), env, var) = Result(LeBytes(m, w), {})
        BY <2>3, <3>10, <4>1, BytesValue
      <4>3. Eval(c, env, var) = Result(m, {}) /\ ~Failed(m)
        BY <4>1, NumberConstantValue, NoFailure DEF Data
      <4>4. EvalStep(Le(c, w), env, var) =
              Result(IF w > PlanLen THEN Panic ELSE LeBytes(m, w), {})
        <5>1. EvalStep(Le(c, w), env, var) =
                  Result(Makes(Le(c, w), <<m>>, env, var), {} \cup {})
          BY <3>4, <4>3 DEF Of1, Result
        <5> QED BY <3>4, <5>1
      <4>5. Improves(Eval(Simplify(x), env, var), Eval(Le(c, w), env, var))
        BY <3>1, <4>2, <4>4 DEF Improves, Result, Failed
      <4> QED BY <3>8, <4>5, ImprovesTransitive
    <3> QED BY <3>9, <3>10
  <2> QED BY <2>3, <2>4, <2>6, <2>7 DEF Better
<1> QED BY <1>3, <1>4, <1>5, <1>6, <1>7, StringCases

(* Whatever a plan is made of, its simplification is of its sort, and has  *)
(* the same value where the plan has one, without asking for more keys.    *)
THEOREM SimplifyImproves ==
  ASSUME Unfolds
  PROVE  /\ \A e \in Numbers : Simplify(e) \in Numbers /\ Better(Simplify(e), e)
         /\ \A e \in ByteStrings : Simplify(e) \in ByteStrings /\ Better(Simplify(e), e)
<1>1. PICK N, B :
        /\ N = {e \in Numbers : Simplify(e) \in Numbers /\ Better(Simplify(e), e)}
        /\ B = {e \in ByteStrings : Simplify(e) \in ByteStrings /\ Better(Simplify(e), e)}
  OBVIOUS
<1>2. /\ N \subseteq Numbers /\ B \subseteq ByteStrings
      /\ \A e \in N : Simplify(e) \in Numbers /\ Better(Simplify(e), e)
      /\ \A e \in B : Simplify(e) \in ByteStrings /\ Better(Simplify(e), e)
  BY <1>1
<1>3. /\ NumbersOver(N, B, Conditions) \subseteq Numbers
      /\ StringsOver(N, B, Conditions) \subseteq ByteStrings
      /\ ConditionsOver(N, B, Conditions) \subseteq Conditions
  BY <1>2, OverMonotone, PlansClosed
<1>4. NumbersOver(N, B, Conditions) \subseteq N
  BY <1>1, <1>2, <1>3, SimplifyNumber
<1>5. StringsOver(N, B, Conditions) \subseteq B
  BY <1>1, <1>2, <1>3, SimplifyString
<1>6. Numbers \subseteq N /\ ByteStrings \subseteq B
  BY <1>3, <1>4, <1>5, PlansLeast
<1> QED BY <1>2, <1>6

----------------------------------------------------------------------------
(* The plans the machine grows. *)

(* Expressions no world and no turn of a loop tells apart.                 *)
EqualPlans(d, e) ==
  \A env \in PlanEnvs, var \in Vars : Eval(d, env, var) = Eval(e, env, var)

LEMMA IsVar == NoVar \in Vars
BY DEF Vars

LEMMA Sliced ==
  ASSUME NEW env, NEW var, NEW x \in Results(Data), NEW p \in Results(Data),
         NEW q \in Results(Data), NEW d, NEW s, NEW n, NEW y, y = Slice(d, s, n),
         x = Eval(d, env, var), p = Eval(s, env, var), q = Eval(n, env, var)
  PROVE  /\ EvalStep(y, env, var) = Of3(y, x, p, q, env, var)
         /\ \A u, v, w : Makes(y, <<u, v, w>>, env, var) = Cut(u, v, w)
BY SliceStep

LEMMA SameSlice ==
  ASSUME Unfolds, NEW d \in ByteStrings, NEW r \in ByteStrings, EqualPlans(d, r),
         NEW s \in Numbers, NEW n \in Numbers
  PROVE  /\ Slice(d, s, n) \in ByteStrings /\ Slice(r, s, n) \in ByteStrings
         /\ EqualPlans(Slice(d, s, n), Slice(r, s, n))
<1>1. Slice(d, s, n) \in ByteStrings /\ Slice(r, s, n) \in ByteStrings
  BY PlansOverPlans, StringCases
<1>2. ASSUME NEW env \in PlanEnvs, NEW var \in Vars
      PROVE  Eval(Slice(d, s, n), env, var) = Eval(Slice(r, s, n), env, var)
  <2>1. PICK x \in Results(Data), p \in Results(Data), q \in Results(Data) :
          x = Eval(d, env, var) /\ p = Eval(s, env, var) /\ q = Eval(n, env, var)
    BY AnyWorld, SortsAreData
  <2>6. x = Eval(r, env, var)
    BY <2>1 DEF EqualPlans
  <2>2. PICK y, z : y = Slice(d, s, n) /\ z = Slice(r, s, n)
    OBVIOUS
  <2>3. /\ EvalStep(y, env, var) = Of3(y, x, p, q, env, var)
        /\ \A u, v, w : Makes(y, <<u, v, w>>, env, var) = Cut(u, v, w)
    BY <2>1, <2>2, Sliced
  <2>4. /\ EvalStep(z, env, var) = Of3(z, x, p, q, env, var)
        /\ \A u, v, w : Makes(z, <<u, v, w>>, env, var) = Cut(u, v, w)
    <3>1. /\ z = Slice(r, s, n) /\ x = Eval(r, env, var)
          /\ p = Eval(s, env, var) /\ q = Eval(n, env, var)
      BY <2>1, <2>2, <2>6
    <3> QED BY <3>1, Sliced
  <2>5. Of3(y, x, p, q, env, var) = Of3(z, x, p, q, env, var)
    BY <2>3, <2>4 DEF Of3
  <2> QED BY <1>1, <2>2, <2>3, <2>4, <2>5 DEF Unfolds
<1> QED BY <1>1, <1>2 DEF EqualPlans

LEMMA SameStorage ==
  ASSUME Unfolds, NEW d \in ByteStrings, NEW r \in ByteStrings, EqualPlans(d, r)
  PROVE  /\ Storage(d) \in ByteStrings /\ Storage(r) \in ByteStrings
         /\ EqualPlans(Storage(d), Storage(r))
<1>1. Storage(d) \in ByteStrings /\ Storage(r) \in ByteStrings
  BY PlansOverPlans, StringCases
<1>2. ASSUME NEW env \in PlanEnvs, NEW var \in Vars
      PROVE  Eval(Storage(d), env, var) = Eval(Storage(r), env, var)
  <2>1. PICK x \in Results(Data) : x = Eval(d, env, var) /\ x = Eval(r, env, var)
    BY AnyWorld, SortsAreData DEF EqualPlans
  <2>2. PICK y, z : y = Storage(d) /\ z = Storage(r)
    OBVIOUS
  <2>3. /\ EvalStep(y, env, var) = Of1(y, x, env, var)
        /\ \A u : Makes(y, <<u>>, env, var) = StoredAt(env, u)
        /\ y.k = "storage"
    BY <2>1, <2>2, StorageStep
  <2>4. /\ EvalStep(z, env, var) = Of1(z, x, env, var)
        /\ \A u : Makes(z, <<u>>, env, var) = StoredAt(env, u)
        /\ z.k = "storage"
    BY <2>1, <2>2, StorageStep
  <2>5. Of1(y, x, env, var) = Of1(z, x, env, var)
    BY <2>3, <2>4 DEF Of1
  <2> QED BY <1>1, <2>2, <2>3, <2>4, <2>5 DEF Unfolds
<1> QED BY <1>1, <1>2 DEF EqualPlans

LEMMA SameChoice ==
  ASSUME Unfolds, NEW d \in ByteStrings, NEW r \in ByteStrings, EqualPlans(d, r),
         NEW c \in Conditions, NEW e \in ByteStrings
  PROVE  /\ Choice(c, d, e) \in ByteStrings /\ Choice(c, r, e) \in ByteStrings
         /\ EqualPlans(Choice(c, d, e), Choice(c, r, e))
<1>1. Choice(c, d, e) \in ByteStrings /\ Choice(c, r, e) \in ByteStrings
  BY PlansOverPlans, StringCases
<1>2. ASSUME NEW env \in PlanEnvs, NEW var \in Vars
      PROVE  Eval(Choice(c, d, e), env, var) = Eval(Choice(c, r, e), env, var)
  <2>1. PICK x, y, t : /\ x = Eval(d, env, var) /\ x = Eval(r, env, var)
                       /\ y = Eval(e, env, var) /\ t = Eval(c, env, var)
    BY DEF EqualPlans
  <2>2. EvalStep(Choice(c, d, e), env, var) =
          IF Failed(t.v) THEN t ELSE After(IF t.v THEN x ELSE y, t.keys)
    <3>1. EvalStep(Choice(c, d, e), env, var) =
            IF Failed(Eval(c, env, var).v) THEN Eval(c, env, var)
            ELSE After(Eval(IF Eval(c, env, var).v THEN d ELSE e, env, var),
                       Eval(c, env, var).keys)
      BY ChoiceStep
    <3> QED BY <2>1, <3>1
  <2>3. EvalStep(Choice(c, r, e), env, var) =
          IF Failed(t.v) THEN t ELSE After(IF t.v THEN x ELSE y, t.keys)
    <3>1. EvalStep(Choice(c, r, e), env, var) =
            IF Failed(Eval(c, env, var).v) THEN Eval(c, env, var)
            ELSE After(Eval(IF Eval(c, env, var).v THEN r ELSE e, env, var),
                       Eval(c, env, var).keys)
      BY ChoiceStep
    <3> QED BY <2>1, <3>1
  <2> QED BY <1>1, <2>2, <2>3 DEF Unfolds
<1> QED BY <1>1, <1>2 DEF EqualPlans

(* What joins the same results is the same.                                *)
LEMMA JoinsOnce ==
  ASSUME NEW n \in Nat, NEW rs, NEW f, NEW g, Joins(f, n, rs), Joins(g, n, rs)
  PROVE  f[n] = g[n]
<1>1. PICK T : T = {i \in 0 .. n : f[i] = g[i]}
  OBVIOUS
<1>2. 0 \in T
  BY <1>1 DEF Joins
<1>3. ASSUME NEW i \in 0 .. n, 0 < i, i - 1 \in T  PROVE i \in T
  <2>1. i \in 1 .. n /\ f[i - 1] = g[i - 1]
    BY <1>1, <1>3
  <2>2. f[i] = Then(f[i - 1], rs[i]) /\ g[i] = Then(g[i - 1], rs[i])
    BY <2>1 DEF Joins
  <2> QED BY <1>1, <2>1, <2>2
<1>4. \A i \in 0 .. n : i \in T
  BY <1>2, <1>3, Upward
<1> QED BY <1>1, <1>4

LEMMA SameLoop ==
  ASSUME Unfolds, NEW d \in ByteStrings, NEW r \in ByteStrings, EqualPlans(d, r), NEW a \in Numbers
  PROVE  /\ Loop(a, d) \in ByteStrings /\ Loop(a, r) \in ByteStrings
         /\ EqualPlans(Loop(a, d), Loop(a, r))
<1>1. Loop(a, d) \in ByteStrings /\ Loop(a, r) \in ByteStrings
  BY PlansOverPlans, StringCases
<1>2. ASSUME NEW env \in PlanEnvs, NEW var \in Vars
      PROVE  EvalStep(Loop(a, d), env, var) = EvalStep(Loop(a, r), env, var)
  <2>1. PICK c \in Numerals : c = Eval(a, env, var)
    BY AnyWorld
  <2>2. c.v \in Num \cup {Err, Panic}
    BY DEF Numerals, Results
  <2>3. CASE Failed(c.v)
    BY <2>1, <2>3 DEF EvalStep, Evaluation, Loop
  <2>4. CASE ~Failed(c.v) /\ c.v > LoopLimit
    BY <2>1, <2>4 DEF EvalStep, Evaluation, Loop
  <2>5. CASE ~Failed(c.v) /\ ~(c.v > LoopLimit)
    <3>1. PICK n \in Num : n = c.v
      BY <2>2, <2>5 DEF Failed
    <3>2. n \in Nat /\ n <= LoopLimit /\ ~Failed(n)
      BY <2>5, <3>1, LimitAssumption, ModulusAssumption DEF Num
    <3>3. PICK rs : rs = [i \in 1 .. n |-> Eval(d, env, i - 1)]
      OBVIOUS
    <3>4. \A i \in 1 .. n : i - 1 \in Vars
      BY ModulusAssumption DEF Vars, Num
    <3>5. \A i \in 1 .. n : /\ Eval(d, env, i - 1) \in Contents
                            /\ Eval(d, env, i - 1) = Eval(r, env, i - 1)
      BY <3>4, AnyWorld DEF EqualPlans
    <3>6. Turns(rs, n, d, env) /\ Turns(rs, n, r, env)
      BY <3>3, <3>5 DEF Turns
    <3>7. Eval(a, env, var).v = n
      BY <2>1, <3>1
    <3>8. PICK f : /\ Joins(f, n, rs)
                   /\ EvalStep(Loop(a, d), env, var) = After(f[n], Eval(a, env, var).keys)
      BY <3>2, <3>6, <3>7, LoopStep
    <3>9. PICK g : /\ Joins(g, n, rs)
                   /\ EvalStep(Loop(a, r), env, var) = After(g[n], Eval(a, env, var).keys)
      BY <3>2, <3>6, <3>7, LoopStep
    <3>10. f[n] = g[n]
      BY <3>2, <3>8, <3>9, JoinsOnce
    <3> QED BY <3>8, <3>9, <3>10
  <2> QED BY <2>3, <2>4, <2>5
<1>3. ASSUME NEW env \in PlanEnvs, NEW var \in Vars
      PROVE  Eval(Loop(a, d), env, var) = Eval(Loop(a, r), env, var)
  BY <1>1, <1>2 DEF Unfolds
<1> QED BY <1>1, <1>3 DEF EqualPlans

LEMMA SameRecovered ==
  ASSUME Unfolds, NEW d \in ByteStrings, NEW r \in ByteStrings, EqualPlans(d, r),
         NEW e \in ByteStrings
  PROVE  /\ Normalize(<<d, e>>) \in ByteStrings /\ Concat(<<r, e>>) \in ByteStrings
         /\ EqualPlans(Normalize(<<d, e>>), Concat(<<r, e>>))
<1>1. PICK ds \in Parts, rs \in Parts : ds = <<d, e>> /\ rs = <<r, e>>
  <2>1. <<d, e>> \in Seq(ByteStrings) /\ <<r, e>> \in Seq(ByteStrings)
    OBVIOUS
  <2> QED BY <2>1 DEF Parts
<1>2. Normalize(ds) \in ByteStrings /\ Concat(rs) \in ByteStrings
  <2>1. Concat(rs) \in StringsOver(Numbers, ByteStrings, Conditions)
    BY StringCases DEF Parts
  <2> QED BY <2>1, NormalizeType, PlansOverPlans
<1>3. ASSUME NEW env \in PlanEnvs, NEW var \in Vars
      PROVE  Eval(Normalize(ds), env, var) = Eval(Concat(rs), env, var)
  <2>1. Eval(Normalize(ds), env, var) = Eval(Concat(ds), env, var)
    BY NormalizeKeeps DEF Parts
  <2>2. /\ Eval(Concat(ds), env, var) = Val(ds, env, var)
        /\ Eval(Concat(rs), env, var) = Val(rs, env, var)
    BY ValType
  <2>3. PICK f : JoinsParts(f, ds, env, var)
    BY ValUnfolds
  <2>4. Len(ds) = 2 /\ Len(rs) = 2 /\ ds[1] = d /\ ds[2] = e /\ rs[1] = r /\ rs[2] = e
    BY <1>1
  <2>5. /\ f[0] = Empty /\ f[2] = Val(ds, env, var)
        /\ f[1] = Then(f[0], Eval(d, env, var)) /\ f[2] = Then(f[1], Eval(e, env, var))
    BY <2>3, <2>4 DEF JoinsParts
  <2>6. Eval(d, env, var) = Eval(r, env, var)
    BY DEF EqualPlans
  <2>7. \A i \in 1 .. Len(rs) : f[i] = Then(f[i - 1], Eval(rs[i], env, var))
    <3>1. \A i \in 1 .. 2 : i = 1 \/ i = 2
      OBVIOUS
    <3> QED BY <2>4, <2>5, <2>6, <3>1
  <2>8. f[Len(rs)] = Val(rs, env, var)
    BY <2>5, <2>7, ValFolds
  <2> QED BY <2>1, <2>2, <2>4, <2>5, <2>8
<1> QED BY <1>1, <1>2, <1>3 DEF EqualPlans

LEMMA NumbersClosed ==
  ASSUME NEW a \in Numbers, NEW b \in Numbers
  PROVE  /\ \A op \in BinaryOps : Binary(op, a, b) \in Numbers
         /\ \A c \in Conditions : If(c, a, b) \in Numbers
         /\ \A e \in ByteStrings : ULe(e) \in Numbers /\ Length(e) \in Numbers
         /\ \A w \in Nat : Le(a, w) \in ByteStrings
BY PlansOverPlans, NumberCases, StringCases

LEMMA Compared ==
  ASSUME NEW a \in Numbers, NEW b \in Numbers
  PROVE  /\ \A c \in Comparisons \ {"beq"} : Compare(c, a, b) \in Conditions
         /\ Negation(Compare("lt", a, b)) \in Conditions
<1>1. \A c \in Comparisons \ {"beq"} : Compare(c, a, b) \in Conditions
  BY PlansOverPlans, ConditionCases
<1>2. "lt" \in Comparisons \ {"beq"}
  BY DEF Comparisons
<1>3. PICK x \in Conditions : x = Compare("lt", a, b)
  BY <1>1, <1>2
<1> QED BY <1>1, <1>3, PlansOverPlans, ConditionCases

LEMMA Decided ==
  ASSUME NEW x \in Conditions, NEW y \in Conditions
  PROVE  AllOf(<<x, y>>) \in Conditions /\ AnyOf(<<x, y>>) \in Conditions
<1>0. <<x, y>> \in Seq(Conditions)
  OBVIOUS
<1>1. PICK es \in Seq(Conditions) : es = <<x, y>>
  BY <1>0
<1> QED BY <1>1, PlansOverPlans, ConditionCases

LEMMA PartsAreNumbers ==
  ASSUME NEW e \in Firsts \cup Seconds
  PROVE  e \in Numbers
BY PartsAssumption, PlansOverPlans, NumberCases

LEMMA BytesAreStrings ==
  ASSUME NEW d \in Seq(Byte)
  PROVE  Bytes(d) \in ByteStrings
BY PlansOverPlans, StringCases

LEMMA RangesAreStrings ==
  ASSUME NEW s \in Nat, NEW n \in Nat \cup {ToEnd}
  PROVE  Calldata(s, n) \in ByteStrings
BY PlansOverPlans, StringCases

----------------------------------------------------------------------------
(* The invariant of the growth: what is recovered are plans, and no world  *)
(* and no turn of a loop tells the normalized bytes from the others.  That *)
(* they agree outside of loops is not enough: they may become a body.      *)
GrowInv ==
  /\ num \in Numbers /\ recovered \in ByteStrings /\ raw \in ByteStrings
  /\ grown \in 0 .. MaxGrowth
  /\ EqualPlans(recovered, raw)

LEMMA GrowthStarts ==
  ASSUME Unfolds
  PROVE  GrowInit => GrowInv
<1>1. ASSUME GrowInit  PROVE GrowInv
  <2>1. num \in Numbers /\ grown \in 0 .. MaxGrowth
    BY <1>1, PartsAreNumbers, LimitAssumption DEF GrowInit
  <2>2. <<1>> \in Seq(Byte)
    BY BaseAssumption DEF Byte
  <2>3. Bytes(<<1>>) \in ByteStrings
    BY <2>2, BytesAreStrings
  <2>4. Calldata(0, ToEnd) \in ByteStrings /\ Calldata(1, 4) \in ByteStrings
    BY RangesAreStrings
  <2>5. recovered \in ByteStrings /\ raw = recovered
    BY <1>1, <2>3, <2>4 DEF GrowInit
  <2> QED BY <2>1, <2>5 DEF GrowInv, EqualPlans
<1> QED BY <1>1

LEMMA GrownNumber ==
  ASSUME GrowInv, NEW e \in Numbers, GrowNumber(e)
  PROVE  GrowInv'
BY LimitAssumption DEF GrowInv, GrowNumber, Grow

LEMMA GrownBytes ==
  ASSUME GrowInv, NEW d \in ByteStrings, NEW r \in ByteStrings, EqualPlans(d, r), Around(d, r)
  PROVE  GrowInv'
BY LimitAssumption DEF GrowInv, Around, Grow

LEMMA GrownPart ==
  ASSUME Unfolds, GrowInv, NEW e \in ByteStrings, Recover(e)
  PROVE  GrowInv'
<1>1. /\ recovered' \in ByteStrings /\ raw' \in ByteStrings
      /\ EqualPlans(recovered', raw')
  <2>1. PICK d \in ByteStrings, r \in ByteStrings : d = recovered /\ r = raw /\ EqualPlans(d, r)
    BY DEF GrowInv
  <2>2. /\ Normalize(<<d, e>>) \in ByteStrings /\ Concat(<<r, e>>) \in ByteStrings
        /\ EqualPlans(Normalize(<<d, e>>), Concat(<<r, e>>))
    BY <2>1, SameRecovered
  <2>3. recovered' = Normalize(<<d, e>>) /\ raw' = Concat(<<r, e>>)
    BY <2>1 DEF Recover
  <2> QED BY <2>2, <2>3
<1>2. num' \in Numbers /\ grown' \in 0 .. MaxGrowth
  BY LimitAssumption DEF GrowInv, Recover, Grow
<1> QED BY <1>1, <1>2 DEF GrowInv

LEMMA GrowthKeeps ==
  ASSUME Unfolds, GrowInv, [GrowNext]_growVars
  PROVE  GrowInv'
<1>1. PICK n \in Numbers, d \in ByteStrings, r \in ByteStrings :
        n = num /\ d = recovered /\ r = raw /\ EqualPlans(d, r)
  BY DEF GrowInv
<1>2. ASSUME NEW a \in Seconds, NEW op \in BinaryOps,
             GrowNumber(Binary(op, num, a)) \/ GrowNumber(Binary(op, a, num))
      PROVE  GrowInv'
  <2>1. Binary(op, num, a) \in Numbers /\ Binary(op, a, num) \in Numbers
    BY <1>1, NumbersClosed, PartsAreNumbers
  <2> QED BY <1>2, <2>1, GrownNumber
<1>3. ASSUME NEW a \in Seconds, NEW c \in Comparing(a), GrowNumber(If(c, num, a))
      PROVE  GrowInv'
  <2>1. a \in Numbers
    BY PartsAreNumbers
  <2>2. c \in Conditions
    BY <1>1, <2>1, Compared DEF Comparing
  <2>3. If(c, num, a) \in Numbers
    BY <1>1, <2>1, <2>2, NumbersClosed
  <2> QED BY <1>3, <2>3, GrownNumber
<1>4. ASSUME NEW a \in Seconds, Around(Slice(recovered, num, a), Slice(raw, num, a))
      PROVE  GrowInv'
  <2>1. a \in Numbers
    BY PartsAreNumbers
  <2>2. PICK x \in ByteStrings, y \in ByteStrings :
          x = Slice(d, n, a) /\ y = Slice(r, n, a) /\ EqualPlans(x, y)
    BY <1>1, <2>1, SameSlice
  <2>3. Around(x, y)
    BY <1>1, <1>4, <2>2
  <2> QED BY <2>2, <2>3, GrownBytes
<1>5. ASSUME NEW a \in Seconds, Around(Slice(recovered, a, num), Slice(raw, a, num))
       PROVE  GrowInv'
  <2>1. a \in Numbers
    BY PartsAreNumbers
  <2>2. PICK x \in ByteStrings, y \in ByteStrings :
          x = Slice(d, a, n) /\ y = Slice(r, a, n) /\ EqualPlans(x, y)
    BY <1>1, <2>1, SameSlice
  <2>3. Around(x, y)
    BY <1>1, <1>5, <2>2
  <2> QED BY <2>2, <2>3, GrownBytes
<1>6. ASSUME GrowNumber(ULe(recovered)) \/ GrowNumber(Length(recovered))
      PROVE  GrowInv'
  <2>1. ULe(recovered) \in Numbers /\ Length(recovered) \in Numbers
    BY <1>1, NumbersClosed
  <2> QED BY <1>6, <2>1, GrownNumber
<1>7. ASSUME NEW w \in 1 .. PlanLen, Recover(Le(num, w))
      PROVE  GrowInv'
  <2>1. Le(num, w) \in ByteStrings
    <3>1. w \in Nat
      BY BaseAssumption
    <3> QED BY <1>1, <3>1, NumbersClosed
  <2> QED BY <1>7, <2>1, GrownPart
<1>8. ASSUME NEW e \in Literals, Recover(Bytes(e))
      PROVE  GrowInv'
  <2>1. Bytes(e) \in ByteStrings
    BY PartsAssumption, BytesAreStrings
  <2> QED BY <1>8, <2>1, GrownPart
<1>9. ASSUME NEW c \in Deciding,
             LET otherwise == Le(BlockHeight, 1)
             IN  Around(Choice(c, recovered, otherwise), Choice(c, raw, otherwise))
      PROVE  GrowInv'
  <2>1. c \in Conditions
    <3>1. 1 \in Num
      BY ModulusAssumption DEF Num
    <3>2. PICK one \in Numbers : one = Const(1)
      BY <3>1, NumberConstants
    <3>3. PICK y \in Conditions : y = Compare("gt", num, Const(1))
      <4>1. "gt" \in Comparisons \ {"beq"}
        BY DEF Comparisons
      <4> QED BY <1>1, <3>2, <4>1, Compared
    <3>4. PICK s \in ByteStrings : s = Storage(recovered)
      BY <1>1, SameStorage
    <3>5. PICK x \in Conditions : x = Compare("beq", recovered, Storage(recovered))
      BY <1>1, <3>4, PlansOverPlans, ConditionCases
    <3>6. AllOf(<<x, y>>) \in Conditions /\ AnyOf(<<x, y>>) \in Conditions
      BY Decided
    <3> QED BY <3>3, <3>5, <3>6 DEF Deciding
  <2>2. PICK e \in ByteStrings : e = Le(BlockHeight, 1)
    <3>1. BlockHeight \in Numbers /\ 1 \in Nat
      BY PlansOverPlans, NumberCases
    <3> QED BY <3>1, NumbersClosed
  <2>3. PICK x \in ByteStrings, y \in ByteStrings :
          x = Choice(c, d, e) /\ y = Choice(c, r, e) /\ EqualPlans(x, y)
    BY <1>1, <2>1, SameChoice
  <2>4. Around(x, y)
    BY <1>1, <1>9, <2>2, <2>3
  <2> QED BY <2>3, <2>4, GrownBytes
<1>10. ASSUME Around(Storage(recovered), Storage(raw))
      PROVE  GrowInv'
  <2>1. PICK x \in ByteStrings, y \in ByteStrings :
          x = Storage(d) /\ y = Storage(r) /\ EqualPlans(x, y)
    BY <1>1, SameStorage
  <2>2. Around(x, y)
    BY <1>1, <1>10, <2>1
  <2> QED BY <2>1, <2>2, GrownBytes
<1>11. ASSUME Around(Loop(num, recovered), Loop(num, raw))
       PROVE  GrowInv'
  <2>1. PICK x \in ByteStrings, y \in ByteStrings :
          x = Loop(n, d) /\ y = Loop(n, r) /\ EqualPlans(x, y)
    BY <1>1, SameLoop
  <2>2. Around(x, y)
    BY <1>1, <1>11, <2>1
  <2> QED BY <2>1, <2>2, GrownBytes
<1>12. ASSUME UNCHANGED growVars  PROVE GrowInv'
  BY <1>12 DEF GrowInv, growVars
<1> QED
  BY <1>2, <1>3, <1>4, <1>5, <1>6, <1>7, <1>8, <1>9, <1>10, <1>11, <1>12 DEF GrowNext

LEMMA GrowthTyped ==
  ASSUME Unfolds, GrowInv
  PROVE  TypeOK
<1>1. ASSUME NEW env \in PlanEnvs
      PROVE  /\ Eval(num, env, NoVar).v \in Num \cup {Err, Panic}
             /\ LET d == Eval(recovered, env, NoVar).v
                IN  Failed(d) \/ d \in Seq(Byte)
  <2>1. Eval(num, env, NoVar) \in Numerals /\ Eval(recovered, env, NoVar) \in Contents
    BY IsVar, AnyWorld DEF GrowInv
  <2> QED BY <2>1 DEF Numerals, Contents, Results, Failed
<1> QED BY <1>1 DEF GrowInv, TypeOK

LEMMA GrowthFaithful ==
  ASSUME GrowInv
  PROVE  NormalizeFaithful
BY IsVar DEF GrowInv, EqualPlans, NormalizeFaithful

LEMMA GrowthSimplifies ==
  ASSUME Unfolds, GrowInv
  PROVE  SimplifyFaithful
<1>1. ASSUME NEW env \in PlanEnvs, NEW e \in {num, recovered, raw}
      PROVE  Improves(Eval(Simplify(e), env, NoVar), Eval(e, env, NoVar))
  <2>1. e \in Numbers \/ e \in ByteStrings
    BY DEF GrowInv
  <2>2. Better(Simplify(e), e)
    BY <2>1, SimplifyImproves
  <2> QED BY <2>2, IsVar DEF Better
<1> QED BY <1>1 DEF SimplifyFaithful, Improves

(* However a plan was grown, its numbers are within their width and its    *)
(* bytes are bytes, or it fails, in every world: eval_num and eval_bytes.  *)
THEOREM GrowthTypeOK ==
  ASSUME Unfolds
  PROVE  GrowSpec => []TypeOK
<1>1. GrowInit => GrowInv
  BY GrowthStarts
<1>2. GrowInv /\ [GrowNext]_growVars => GrowInv'
  BY GrowthKeeps
<1>3. GrowInv => TypeOK
  BY GrowthTyped
<1> QED BY <1>1, <1>2, <1>3, PTL DEF GrowSpec

(* normalize_concat changes neither what recovered bytes are in any world  *)
(* nor the keys they are read from.                                        *)
THEOREM GrowthNormalizes ==
  ASSUME Unfolds
  PROVE  GrowSpec => []NormalizeFaithful
<1>1. GrowInit => GrowInv
  BY GrowthStarts
<1>2. GrowInv /\ [GrowNext]_growVars => GrowInv'
  BY GrowthKeeps
<1>3. GrowInv => NormalizeFaithful
  BY GrowthFaithful
<1> QED BY <1>1, <1>2, <1>3, PTL DEF GrowSpec

(* simplify_bytes and simplify_num: the plan that is shipped has the value *)
(* of the one that was lifted, wherever that has one, and asks the host    *)
(* for no other keys.                                                      *)
THEOREM GrowthSimplified ==
  ASSUME Unfolds
  PROVE  GrowSpec => []SimplifyFaithful
<1>1. GrowInit => GrowInv
  BY GrowthStarts
<1>2. GrowInv /\ [GrowNext]_growVars => GrowInv'
  BY GrowthKeeps
<1>3. GrowInv => SimplifyFaithful
  BY GrowthSimplifies
<1> QED BY <1>1, <1>2, <1>3, PTL DEF GrowSpec
=============================================================================
