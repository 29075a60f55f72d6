---------------------------- MODULE MCLiftControl ----------------------------
(* Function bodies for LiftControl, all of them valid wasm: blocks, loops  *)
(* and ifs nested three deep around branches to every enclosing label, and   *)
(* blocks with a result that branches carry past other values.             *)
EXTENDS LiftControl

Op(o, n, ts) == [op |-> o, n |-> n, ts |-> ts]
O(o)         == <<Op(o, 0, <<>>)>>
P            == O("push")
D            == O("drop")
E            == O("end")
B(o, k)      == <<Op(o, k, <<>>)>>

\* an address is loaded through, what it gives divided twice, and stored
Computing == P \o P \o O("load") \o P \o O("div_u") \o P \o O("div_s") \o O("store")

\* statements without a block, under d labels
Flat(d) ==
  {P \o D, O("return"), O("unreachable"), Computing}
    \cup {B("br", k) : k \in 0 .. d - 1}
    \cup {P \o B("br_if", k) : k \in 0 .. d - 1}
    \cup {P \o <<Op("br_table", d - 1, <<0>>)>> : k \in 1 .. (IF d > 0 THEN 1 ELSE 0)}

\* x inside each kind of block
Around(X) ==
  UNION {{B("block", 0) \o x \o E, B("loop", 0) \o x \o E,
          P \o B("if", 0) \o P \o D \o O("else") \o x \o E,
          P \o B("if", 0) \o x \o O("else") \o P \o D \o E} : x \in X}

\* blocks with a result, left by falling through and by branching
Valued ==
  {B("block", 1) \o P \o P \o B("br", 0) \o E,
   B("block", 1) \o P \o P \o B("br_if", 0) \o E,
   B("block", 1) \o B("block", 0) \o P \o P \o B("br", 1) \o E \o P \o E,
   B("block", 1) \o B("loop", 0) \o P \o P \o B("br_if", 0) \o B("br", 1) \o E
     \o O("unreachable") \o E,
   P \o B("if", 1) \o P \o O("else") \o P \o P \o B("br", 0) \o E}
Dropped == {v \o D : v \in Valued}

\* an if without else: x is the rest of its then branch
NoElse(X) == {P \o B("if", 0) \o x \o E : x \in X}

Fn(X, n)  == {[code |-> x \o E, results |-> n] : x \in X}
Nested    == Around(Flat(1) \cup Around(Flat(2) \cup Around(Flat(3))) \cup Dropped)
Closed    == Fn(Nested \cup Dropped \cup {P \o v \o D \o D : v \in Valued}, 0)
               \cup Fn(Valued \cup {P \o O("return") \o D \o P}, 1)

\* the two constructs the interpreter treats otherwise than wasm does: an if
\* without else, and a branch to the label of the function
Fallen    == Fn(NoElse(Flat(1)) \cup Around(NoElse(Flat(2))), 0)
               \cup Fn(Around(NoElse({P \o D})) \cup {}, 0)
               \cup Fn({B("block", 1) \o P \o P \o B("if", 0) \o P \o D \o E \o E}, 1)
               \cup Fn({B("block", 0) \o B("block", 0) \o x \o E \o E \o P
                          : x \in NoElse({P \o D})}, 1)
Outward   == Fn({B("br", 0), P \o B("br_if", 0),
                 B("block", 0) \o B("br", 1) \o E}, 0)
WithOutward == Closed \cup Outward

ASSUME ValidatedAssumption == \A f \in WithOutward \cup Fallen : Validated(f)
ASSUME ElseAssumption == \A f \in WithOutward : NoBareIf(f)
ASSUME BareAssumption == \A f \in Fallen : ~NoBareIf(f)
=============================================================================
