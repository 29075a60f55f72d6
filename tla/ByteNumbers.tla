----------------------------- MODULE ByteNumbers -----------------------------
(***************************************************************************)
(* Numbers and the little-endian bytes they are stored and passed as.      *)
(***************************************************************************)
EXTENDS PlanNumbers, Sequences

CONSTANTS
  Base,    \* values of a byte, 256 in the code
  PlanLen  \* bytes of the numbers of a plan, 16 in the code

Byte == 0 .. Base - 1

(* How many numbers n bytes tell apart.                                    *)
Power(n) ==
  LET pow[i \in 0 .. n] == IF i = 0 THEN 1 ELSE pow[i - 1] * Base
  IN  pow[n]

(* The numbers of a plan fill their bytes.                                 *)
ASSUME BaseAssumption == Base \in Nat \ {0, 1} /\ PlanLen \in Nat \ {0}
ASSUME FilledAssumption == Modulus = Power(PlanLen)

(* The number that bytes stand for, and its lowest n bytes.                *)
FromLe(bytes) ==
  LET num[i \in 0 .. Len(bytes)] ==
        IF i = 0 THEN 0 ELSE num[i - 1] + bytes[i] * Power(i - 1)
  IN  num[Len(bytes)]
LeBytes(c, n) == [i \in 1 .. n |-> (c \div Power(i - 1)) % Base]
=============================================================================
