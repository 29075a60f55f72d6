----------------------------- MODULE MCLiftMemory -----------------------------
(* Small instances of LiftMemory: bytes are bits, an i32 has one, an i64 two. *)
EXTENDS LiftMemory, Bitwise, TLC

CONSTANTS home, away

(* Two keys of one byte; values of two bytes that differ between the       *)
(* worlds, as calldata and height do.                                      *)
Keys1 == [1 .. 1 -> Byte]
EnvsDef ==
  {[storage  |-> [w \in Worlds |->
                    [k \in Keys1 |-> IF w = home THEN IF k = <<0>> THEN <<0, 1>> ELSE <<1, 1>>
                                     ELSE IF k = <<0>> THEN <<1, 0>> ELSE <<0, 0>>]],
    calldata |-> [w \in Worlds |-> IF w = home THEN <<1, 0>> ELSE <<0, 1>>],
    height   |-> [w \in Worlds |-> IF w = home THEN 2 ELSE 1]]}

MCPow2   == [i \in 0 .. NumBits - 1 |-> 2 ^ i]
MCBitAnd == [x \in Num |-> [y \in Num |-> x & y]]
MCBitOr  == [x \in Num |-> [y \in Num |-> x | y]]
MCBitXor == [x \in Num |-> [y \in Num |-> x ^^ y]]
=============================================================================
