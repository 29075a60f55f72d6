------------------------------ MODULE MCPlanEval ------------------------------
(* Numbers of three bits, each a byte of its own, and worlds with missing, *)
(* short and overlong values.                                              *)
EXTENDS PlanEval, Bitwise

MCPow2   == [s \in 0 .. NumBits - 1 |-> 2 ^ s]
MCBitAnd == [x \in Num |-> [y \in Num |-> x & y]]
MCBitOr  == [x \in Num |-> [y \in Num |-> x | y]]
MCBitXor == [x \in Num |-> [y \in Num |-> x ^^ y]]

MCPlanEnvs ==
  {[storage |-> (<<1>> :> <<1, 1>>) @@ (<<1, 0>> :> <<1>>), words |-> <<2>>, height |-> 1],
   [storage |-> (<<>> :> <<1>>) @@ (<<1>> :> <<0, 1, 1, 1>>), words |-> <<7>>, height |-> 0],
   [storage |-> <<>>, words |-> <<>>, height |-> 6]}

RECURSIVE MCEval(_, _, _), MCSimplify(_)
MCEval(e, env, var) == Evaluation(MCEval, e, env, var)
MCSimplify(e)        == Simplifying(MCSimplify, e)

MCLiterals == {<<>>, <<0>>}
MCFirsts   == {Const(0), Const(5), BlockHeight, Word(0), Var}
MCSeconds  == {Const(0), Const(1), BlockHeight}
=============================================================================
