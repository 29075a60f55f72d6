------------------------------- MODULE PlanEval -------------------------------
(***************************************************************************)
(* Read plans as data: what they evaluate to over storage, calldata and    *)
(* height, which keys that reads, and how the extractor rewrites them:     *)
(* normalize while a response is recovered from memory, simplify_bytes     *)
(* before the plan is verified and shipped.                                *)
(*                                                                         *)
(* A plan is grown one constructor at a time, as the lifter does from the  *)
(* guest's operators and a parsed document from its syntax.  Bytes and     *)
(* numbers are small; hex and decimal, the renderings of a plan as text,   *)
(* are left out.                                                           *)
(***************************************************************************)
EXTENDS ByteNumbers, SequencesExt

CONSTANTS
  (* The evaluator and the simplifier are functions of an expression that   *)
  (* call themselves on its operands: Evaluation and Simplifying, below,    *)
  (* say what they make of it, given what they make of the operands.         *)
  Eval(_, _, _), Simplify(_),
  USize,      \* 2^64: lengths and positions are cut to that
  LoopLimit,  \* LOOP_LIMIT
  NoVar,      \* outside a loop
  ToEnd,      \* the calldata up to its end
  Panic,      \* the evaluator panics
  PlanEnvs,   \* [storage, words, height] to evaluate in
  Literals,   \* byte strings that are joined to others
  Firsts,     \* the numbers a plan starts from
  Seconds,    \* the numbers it combines them with
  MaxGrowth   \* constructors a plan is grown by

ASSUME LimitAssumption ==
  /\ USize \in Nat \ {0} /\ LoopLimit \in Nat /\ MaxGrowth \in Nat
  /\ \A s \in DOMAIN Pow2 : Pow2[s] = 2 ^ s

(* What expressions evaluate to: a failure is none of it, and not a list of *)
(* it; and the marks are no numbers.                                       *)
Data == Seq(Byte) \cup Num \cup BOOLEAN
ASSUME MarkAssumption ==
  /\ \A v \in {Err, Panic} : v \notin Data /\ v \notin Seq(Data)
  /\ NoVar \notin Num /\ ToEnd \notin Nat

ASSUME WorldAssumption ==
  \A env \in PlanEnvs :
    /\ \A key \in DOMAIN env.storage : env.storage[key] \in Seq(Byte)
    /\ env.words \in Seq(Num) /\ env.height \in Num

----------------------------------------------------------------------------
(* Expressions *)

Bytes(d)        == [k |-> "bytes", data |-> d]
Storage(e)      == [k |-> "storage", key |-> e]
Calldata(s, n)  == [k |-> "calldata", start |-> s, upto |-> n]
Concat(es)      == [k |-> "concat", parts |-> es]
Slice(e, s, n)  == [k |-> "slice", of |-> e, start |-> s, len |-> n]
Le(e, w)        == [k |-> "le", num |-> e, width |-> w]
If(c, t, e)     == [k |-> "if", cond |-> c, then |-> t, else |-> e]     \* NumExpr::If
Choice(c, t, e) == [k |-> "choice", cond |-> c, then |-> t, else |-> e] \* BytesExpr::If
Loop(n, e)      == [k |-> "loop", count |-> n, body |-> e]
Word(i)         == [k |-> "word", i |-> i]
ULe(e)          == [k |-> "u", of |-> e]
Length(e)       == [k |-> "len", of |-> e]
BlockHeight     == [k |-> "height"]
Var             == [k |-> "var"]
Compare(c, a, b) == [k |-> c, a |-> a, b |-> b]
AllOf(es)       == [k |-> "all", parts |-> es]
AnyOf(es)       == [k |-> "any", parts |-> es]
Negation(e)     == [k |-> "not", of |-> e]

Comparisons == {"eq", "ne", "lt", "lte", "gt", "gte", "beq"}

Failed(v) == v \in {Err, Panic}

(* What a plan starts from: a number that has no operands.                 *)
ASSUME PartsAssumption ==
  /\ \A e \in Firsts \cup Seconds :
       \/ e.k = "const" /\ e = Const(e.n) /\ e.n \in Num
       \/ e.k = "word" /\ e = Word(e.i) /\ e.i \in Nat
       \/ e \in {BlockHeight, Var}
  /\ \A d \in Literals : d \in Seq(Byte)

----------------------------------------------------------------------------
(* Evaluation *)

(* What an operator makes of nth(1) to nth(n), from the left.              *)
LeftFold(op(_, _), base, n, nth(_)) ==
  LET upto[i \in 0 .. n] == IF i = 0 THEN base ELSE op(upto[i - 1], nth(i))
  IN  upto[n]

WholeNumOf(d) == FromLe(d)

(* At most as many of the first bytes count as a number has.               *)
NumOf(d) == FromLe(IF Len(d) > PlanLen THEN SubSeq(d, 1, PlanLen) ELSE d)

StoredAt(env, key) == IF key \in DOMAIN env.storage THEN env.storage[key] ELSE <<>>

Calldatum(env) ==
  [i \in 1 .. Len(env.words) * PlanLen |->
     LeBytes(env.words[(i - 1) \div PlanLen + 1], PlanLen)[((i - 1) % PlanLen) + 1]]

(* A range of the calldata starts within it, and is cut off at its end.    *)
From(env, start, n) ==
  LET all == Calldatum(env)
  IN  IF start > Len(all) THEN Err
      ELSE IF n = ToEnd THEN SubSeq(all, start + 1, Len(all))
      ELSE IF start + n > Len(all) THEN SubSeq(all, start + 1, Len(all))
      ELSE SubSeq(all, start + 1, start + n)

(* A sum beyond USize overflows: the check panics, or is passed by a range *)
(* that ends before it starts, which does.                                 *)
Cut(d, start, n) ==
  LET s == start % USize
      l == n % USize
  IN  IF s > Len(d) THEN Err
      ELSE IF s + l >= USize THEN Panic
      ELSE IF s + l > Len(d) THEN Err
      ELSE SubSeq(d, s + 1, s + l)

Compares(c, x, y) ==
  CASE c \in {"eq", "beq"} -> x = y
    [] c = "ne"  -> x # y
    [] c = "lt"  -> x < y
    [] c = "lte" -> x <= y
    [] c = "gt"  -> x > y
    [] c = "gte" -> x >= y

(* The operands of an expression that evaluates all it has, in the order   *)
(* of their evaluation.                                                    *)
Operands(e) ==
  CASE e.k = "storage" -> <<e.key>>
    [] e.k = "slice" -> <<e.of, e.start, e.len>>
    [] e.k = "le" -> <<e.num>>
    [] e.k \in {"u", "len", "not"} -> <<e.of>>
    [] e.k \in {"shr", "shl"} -> <<e.b, e.a>>
    [] e.k \in (BinaryOps \cup Comparisons) \ {"div", "mod", "shr", "shl"} -> <<e.a, e.b>>
    [] OTHER -> <<>>

(* ... and what it makes of their values x.                                *)
Makes(e, x, env, var) ==
  CASE e.k = "const" -> e.n
    [] e.k = "bytes" -> e.data
    [] e.k = "height" -> env.height
    [] e.k = "var" -> IF var = NoVar THEN Err ELSE var
    [] e.k = "word" -> IF e.i < Len(env.words) THEN env.words[e.i + 1] ELSE Err
    [] e.k = "calldata" -> From(env, e.start, e.upto)
    [] e.k = "storage" -> StoredAt(env, x[1])
    [] e.k = "slice" -> Cut(x[1], x[2], x[3])
    [] e.k = "le" -> IF e.width > PlanLen THEN Panic ELSE LeBytes(x[1], e.width)
    [] e.k = "u" -> NumOf(x[1])
    [] e.k = "len" -> Len(x[1]) % Modulus
    [] e.k = "not" -> ~x[1]
    [] e.k \in {"shr", "shl"} -> Apply(e.k, x[2], x[1])
    [] e.k \in BinaryOps \ {"div", "mod", "shr", "shl"} -> Apply(e.k, x[1], x[2])
    [] e.k \in Comparisons -> Compares(e.k, x[1], x[2])

(* A value or failure, and the storage keys that were asked for on the way.*)
Result(v, keys) == [v |-> v, keys |-> keys]
After(r, keys)  == Result(r.v, r.keys \cup keys)

(* One result after another; the first failure is that of all.             *)
Empty == Result(<<>>, {})
Then(r, s) ==
  IF Failed(r.v) THEN r
  ELSE After(Result(IF Failed(s.v) THEN s.v ELSE r.v \o s.v, s.keys), r.keys)
With(r, s) ==
  IF Failed(r.v) THEN r
  ELSE After(Result(IF Failed(s.v) THEN s.v ELSE Append(r.v, s.v), s.keys), r.keys)

(* Conditions up to the first that decides.                                *)
AndThen(r, s) == IF Failed(r.v) \/ ~r.v THEN r ELSE After(s, r.keys)
OrElse(r, s)  == IF Failed(r.v) \/ r.v THEN r ELSE After(s, r.keys)

(* eval_bytes, eval_num and eval_bool.                                     *)
Evaluation(eval(_, _, _), e, env, var) ==
  CASE e.k \in {"if", "choice"} ->
         LET c == eval(e.cond, env, var)
         IN  IF Failed(c.v) THEN c
             ELSE After(eval(IF c.v THEN e.then ELSE e.else, env, var), c.keys)
    [] e.k = "concat" ->
         LET part(i) == eval(e.parts[i], env, var)
         IN  LeftFold(Then, Empty, Len(e.parts), part)
    [] e.k = "loop" ->
         LET c == eval(e.count, env, var)
             turn(i) == eval(e.body, env, i - 1)
         IN  IF Failed(c.v) THEN c
             ELSE IF c.v > LoopLimit THEN Result(Err, c.keys)
             ELSE After(LeftFold(Then, Empty, c.v, turn), c.keys)
    [] e.k \in {"div", "mod"} ->
         LET d == eval(e.b, env, var)
             n == eval(e.a, env, var)
         IN  IF Failed(d.v) THEN d
             ELSE IF d.v = 0 THEN Result(Err, d.keys)
             ELSE After(Result(IF Failed(n.v) THEN n.v ELSE Apply(e.k, n.v, d.v), n.keys), d.keys)
    [] e.k = "all" ->
         LET part(i) == eval(e.parts[i], env, var)
         IN  LeftFold(AndThen, Result(TRUE, {}), Len(e.parts), part)
    [] e.k = "any" ->
         LET part(i) == eval(e.parts[i], env, var)
         IN  LeftFold(OrElse, Result(FALSE, {}), Len(e.parts), part)
    [] OTHER ->
         LET operand(i) == eval(Operands(e)[i], env, var)
             r == LeftFold(With, Empty, Len(Operands(e)), operand)
         IN  IF Failed(r.v) THEN r
             ELSE Result(Makes(e, r.v, env, var),
                         r.keys \cup IF e.k = "storage" THEN {r.v[1]} ELSE {})

----------------------------------------------------------------------------
(* Rewriting *)

Swapped(out, e) ==
  IF out # <<>> /\ e.k = "bytes" /\ Last(out).k = "bytes"
  THEN Append(Front(out), Bytes(e.data \o Last(out).data))
  ELSE Append(out, e)

(* Bytes next to bytes become one constant.                                *)
Merged(out, e) ==
  IF out # <<>> /\ e.k = "bytes" /\ Last(out).k = "bytes"
  THEN Append(Front(out), Bytes(Last(out).data \o e.data))
  ELSE Append(out, e)

Alone(es) == IF Len(es) = 1 THEN es[1] ELSE Concat(es)

(* The parts of a concatenation take its place.                            *)
Flattened(out, e) == IF e.k = "concat" THEN out \o e.parts ELSE Append(out, e)

Flat(es) == LET part(i) == es[i] IN LeftFold(Flattened, <<>>, Len(es), part)

Normalize(es) ==
  LET part(i) == Flat(es)[i]
  IN  Alone(LeftFold(Merged, <<>>, Len(Flat(es)), part))

(* simplify_bytes of a concatenation, part by part.                        *)
JoinedTo(out, e) ==
  IF e = Bytes(<<>>) THEN out
  ELSE IF e.k = "concat" THEN out \o e.parts
  ELSE Merged(out, e)

(* simplify_bytes and simplify_num.  Conditions, the numeric if's but for  *)
(* its branches, and the constructs the lifter has no use for stay.  (For  *)
(* a constant in more than PlanLen bytes the code panics; none is lifted.) *)
Simplifying(simplify(_), e) ==
  CASE e.k = "concat" ->
         LET part(i) == simplify(e.parts[i])
         IN  Alone(LeftFold(JoinedTo, <<>>, Len(e.parts), part))
    [] e.k = "storage" -> Storage(simplify(e.key))
    [] e.k = "le" ->
         LET n == simplify(e.num)
         IN  IF IsConst(n) THEN Bytes(LeBytes(n.n, e.width)) ELSE Le(n, e.width)
    [] e.k = "slice" -> Slice(simplify(e.of), simplify(e.start), simplify(e.len))
    [] e.k \in BinaryOps -> Fold(e.k, simplify(e.a), simplify(e.b))
    [] e.k = "u" -> ULe(simplify(e.of))
    [] e.k = "len" -> Length(simplify(e.of))
    [] e.k = "if" ->
         LET t == simplify(e.then)
             f == simplify(e.else)
         IN  IF t = f THEN t ELSE If(e.cond, t, f)
    [] OTHER -> e

(* One step of the evaluator and of the simplifier.                        *)
EvalStep(e, env, var) == Evaluation(Eval, e, env, var)
SimplifyStep(e)       == Simplifying(Simplify, e)

----------------------------------------------------------------------------
(* Growth of a plan *)

VARIABLES
  num,       \* a number of the plan
  recovered, \* its bytes, as the lifter recovers and normalizes them
  raw,       \* the same bytes without normalization
  grown

growVars == <<num, recovered, raw, grown>>

GrowInit ==
  /\ num \in Firsts
  /\ recovered \in {Bytes(<<1>>), Calldata(0, ToEnd), Calldata(1, 4)}
  /\ raw = recovered
  /\ grown = 0

Grow == grown < MaxGrowth /\ grown' = grown + 1

GrowNumber(e) == Grow /\ num' = e /\ UNCHANGED <<recovered, raw>>

(* recover_bytes: another part follows what was recovered.                 *)
Recover(e) ==
  /\ Grow
  /\ recovered' = Normalize(<<recovered, e>>)
  /\ raw' = Concat(<<raw, e>>)
  /\ UNCHANGED num

(* A constructor around the bytes.                                         *)
Around(d, r) == Grow /\ recovered' = d /\ raw' = r /\ UNCHANGED num

(* Conditions a number may be chosen by, and bytes.                        *)
Comparing(a) ==
  {Compare(c, num, a) : c \in Comparisons \ {"beq"}} \cup {Negation(Compare("lt", num, a))}
Deciding ==
  LET present == Compare("beq", recovered, Storage(recovered))
      large   == Compare("gt", num, Const(1))
  IN  {present, AllOf(<<present, large>>), AnyOf(<<present, large>>)}

GrowNext ==
  \/ \E a \in Seconds :
       \/ \E op \in BinaryOps : GrowNumber(Binary(op, num, a)) \/ GrowNumber(Binary(op, a, num))
       \/ \E c \in Comparing(a) : GrowNumber(If(c, num, a))
       \/ Around(Slice(recovered, num, a), Slice(raw, num, a))
       \/ Around(Slice(recovered, a, num), Slice(raw, a, num))
  \/ GrowNumber(ULe(recovered)) \/ GrowNumber(Length(recovered))
  \/ \E w \in 1 .. PlanLen : Recover(Le(num, w))
  \/ \E d \in Literals : Recover(Bytes(d))
  \/ \E c \in Deciding :
       LET otherwise == Le(BlockHeight, 1)
       IN  Around(Choice(c, recovered, otherwise), Choice(c, raw, otherwise))
  \/ Around(Storage(recovered), Storage(raw))
  \/ Around(Loop(num, recovered), Loop(num, raw))

GrowSpec == GrowInit /\ [][GrowNext]_growVars

----------------------------------------------------------------------------
(* Whatever a plan is made of, its numbers stay within their width and its *)
(* bytes are bytes, unless the evaluation fails.                           *)
TypeOK ==
  /\ grown \in 0 .. MaxGrowth
  /\ \A env \in PlanEnvs :
       /\ Eval(num, env, NoVar).v \in Num \cup {Err, Panic}
       /\ LET d == Eval(recovered, env, NoVar).v
          IN  Failed(d) \/ d \in Seq(Byte)

(* Normalized bytes are the bytes that were recovered, part by part: the   *)
(* same value or failure, read from the same keys, in every world and in   *)
(* the body of a loop as well.                                             *)
NormalizeFaithful ==
  \A env \in PlanEnvs : Eval(recovered, env, NoVar) = Eval(raw, env, NoVar)

(* A simplified plan is as good as the lifted one: where that one has a    *)
(* value, it has the same, and asks for no key that was not asked for      *)
(* before.                                                                 *)
SimplifyFaithful ==
  \A env \in PlanEnvs, e \in {num, recovered, raw} :
    LET lifted  == Eval(e, env, NoVar)
        shipped == Eval(Simplify(e), env, NoVar)
    IN  ~Failed(lifted.v) => shipped.v = lifted.v /\ shipped.keys \subseteq lifted.keys
=============================================================================
