---------------------------- MODULE PlanDocument ----------------------------
(***************************************************************************)
(* Read plans as JSON: what Plan::write_json writes and parse_plan reads.  *)
(* Every operator is an object with one field, named for it; whether "and" *)
(* is that of numbers or of conditions depends on where it stands.         *)
(***************************************************************************)
EXTENDS JsonValues

CONSTANT Version  \* PLAN_VERSION

(* An expression is its operator and its operands: expressions, numbers or *)
(* bytes.  The body of its field is its one operand, a pair, a list, or an *)
(* object with a field per operand.                                        *)
Expr(op, args) == [op |-> op, args |-> args]

One(op, sort)     == [op |-> op, shape |-> "one", names |-> <<>>, sorts |-> <<sort>>]
Pair(op, sort)    == [op |-> op, shape |-> "pair", names |-> <<>>, sorts |-> <<sort, sort>>]
List(op, sort)    == [op |-> op, shape |-> "list", names |-> <<>>, sorts |-> <<sort>>]
Named(op, ns, ss) == [op |-> op, shape |-> "named", names |-> ns, sorts |-> ss]

Arithmetic  == <<"add", "sub", "mul", "div", "mod", "shr", "shl", "and", "or", "xor">>
Comparisons == <<"eq", "ne", "lt", "lte", "gt", "gte">>

BytesRules ==
  <<One("bytes", "hex"), One("storage", "bytes"),
    Named("calldata", <<"start", "len">>, <<"u32", "u32?">>),
    List("concat", "bytes"),
    Named("slice", <<"of", "start", "len">>, <<"bytes", "num", "num">>),
    Named("le", <<"of", "width">>, <<"num", "u8">>),
    Named("if", <<"cond", "then", "else">>, <<"bool", "bytes", "bytes">>),
    Named("loop", <<"count", "body">>, <<"num", "bytes">>),
    One("hex", "bytes"), One("decimal", "num")>>

NumRules ==
  <<One("num", "dec"), One("word", "u32"), One("u", "bytes"), One("len", "bytes"),
    Named("height", <<>>, <<>>), Named("var", <<>>, <<>>)>>
    \o [i \in DOMAIN Arithmetic |-> Pair(Arithmetic[i], "num")]
    \o <<Named("nif", <<"cond", "then", "else">>, <<"bool", "num", "num">>)>>

BoolRules ==
  [i \in DOMAIN Comparisons |-> Pair(Comparisons[i], "num")]
    \o <<Pair("beq", "bytes"), List("and", "bool"), List("or", "bool"), One("not", "bool")>>

Rules(sort) ==
  CASE sort = "bytes" -> BytesRules
    [] sort = "num" -> NumRules
    [] sort = "bool" -> BoolRules

IsExpr(sort) == sort \in {"bytes", "num", "bool"}

(* Numbers are cut to their width, not compared with it.                   *)
Terminal(sort, v) ==
  CASE sort = "hex" -> IF Is(v, "hex") THEN v.d ELSE None
    [] sort = "dec" -> IF Is(v, "dec") THEN v.n ELSE None
    [] sort = "u8" -> IF AsU64(v) = None THEN None ELSE v.n % U8
    [] sort = "u32" -> IF AsU64(v) = None THEN None ELSE v.n % U32
    [] sort = "u32?" -> IF AsU64(v) = None THEN <<>> ELSE <<v.n % U32>>

RuleOf(sort, op) == SelectSeq(Rules(sort), LAMBDA c : c.op = op)[1]

RECURSIVE WriteExpr(_, _), WriteEach(_, _), WriteNamed(_, _, _)
WriteExpr(sort, x) ==
  CASE sort = "hex" -> Hex(x)
    [] sort = "dec" -> Dec(x)
    [] sort \in {"u8", "u32"} -> Num(x)
    [] sort = "u32?" -> Num(x[1])
    [] IsExpr(sort) ->
         LET r    == RuleOf(sort, x.op)
             body == CASE r.shape = "one" -> WriteExpr(r.sorts[1], x.args[1])
                       [] r.shape \in {"pair", "list"} -> Arr(WriteEach(r.sorts[1], x.args))
                       [] r.shape = "named" -> Obj(WriteNamed(r.names, r.sorts, x.args))
         IN  Obj(<<Field(r.op, body)>>)

WriteEach(sort, xs) ==
  IF xs = <<>> THEN <<>>
  ELSE <<WriteExpr(sort, Head(xs))>> \o WriteEach(sort, Tail(xs))

(* The one optional operand, a len, is <<>> or <<n>>.                      *)
WriteNamed(names, sorts, xs) ==
  IF xs = <<>> THEN <<>>
  ELSE (IF Head(sorts) = "u32?" /\ Head(xs) = <<>> THEN <<>>
        ELSE <<Field(Head(names), WriteExpr(Head(sorts), Head(xs)))>>)
         \o WriteNamed(Tail(names), Tail(sorts), Tail(xs))

ExprOf(r, args) ==
  IF args = None \/ (r.shape = "pair" /\ Len(args) # 2) THEN None ELSE Expr(r.op, args)

RECURSIVE ReadExpr(_, _), ReadEach(_, _)
(* parse_bytes, parse_num and parse_bool: the first operator they look for *)
(* and find decides.                                                       *)
ReadFirst(rules, v) ==
  IF rules = <<>> THEN None
  ELSE ExprOf(rules[1], ReadEach(rules[1], Get(v, rules[1].op)))

ReadExpr(sort, v) ==
  IF IsExpr(sort) THEN ReadFirst(SelectSeq(Rules(sort), LAMBDA r : Get(v, r.op) # None), v)
  ELSE Terminal(sort, v)

ReadEach(r, body) ==
  CASE r.shape = "one" -> All(<<ReadExpr(r.sorts[1], body)>>)
    [] r.shape = "named" ->
         All([i \in DOMAIN r.names |-> ReadExpr(r.sorts[i], Get(body, r.names[i]))])
    [] r.shape \in {"pair", "list"} ->
         IF Is(body, "arr") THEN All([i \in DOMAIN body.vs |-> ReadExpr(r.sorts[1], body.vs[i])])
         ELSE None

(* Plan::write_json leaves the trials to the document.                     *)
WritePlan(p) == Obj(<<Field("v", Num(Version)), Field("expr", WriteExpr("bytes", p.expr))>>)

PlanOf(e, n) ==
  IF e = None THEN None ELSE [expr |-> e, trials |-> IF n = None THEN 0 ELSE n % U32]

ReadPlan(v) == PlanOf(ReadExpr("bytes", Get(v, "expr")), AsU64(Get(v, "trials")))
=============================================================================
