----------------------------- MODULE JsonValues -----------------------------
(***************************************************************************)
(* JSON as the extractor sees it: serde_json's Value, with the order of    *)
(* the fields kept.  The text itself is left out, with one exception: a    *)
(* text nested too deeply is not read.                                     *)
(*                                                                         *)
(* A string is a sequence of tokens, as far apart as the code needs them:  *)
(* <<"get", "_", "a">> is get_a and <<"Vec<", "u8", ">">> is Vec<u8>.      *)
(***************************************************************************)
EXTENDS Integers, Sequences, SequencesExt, FiniteSetsExt

CONSTANTS
  None,       \* no value: a missing field, a failed reading
  DepthLimit, \* serde_json reads 127 levels of arrays and objects
  U8, U32, U64  \* one more than the largest number of these widths

ASSUME JsonAssumption == DepthLimit \in Nat /\ {U8, U32, U64} \subseteq Nat \ {0}

Str(s)  == [k |-> "str", s |-> s]
Num(n)  == [k |-> "num", n |-> n]
Arr(vs) == [k |-> "arr", vs |-> vs]
Obj(ps) == [k |-> "obj", ps |-> ps]   \* fields <<name, value>>
Hex(d)  == [k |-> "hex", d |-> d]     \* a string of hexadecimal digits
Dec(n)  == [k |-> "dec", n |-> n]     \* a string of decimal digits

Field(name, v) == <<<<name>>, v>>

Is(v, k) == v # None /\ v.k = k

(* Value::get: the first field of that name, if v is an object at all.     *)
Get(v, name) ==
  LET at == IF Is(v, "obj") THEN {i \in DOMAIN v.ps : v.ps[i][1] = <<name>>} ELSE {}
  IN  IF at = {} THEN None ELSE v.ps[Min(at)][2]

AsStr(v) == IF Is(v, "str") THEN v.s ELSE None
AsU64(v) == IF Is(v, "num") /\ v.n \in 0 .. U64 - 1 THEN v.n ELSE None
AsArr(v) == IF Is(v, "arr") THEN v.vs ELSE None
AsObj(v) == IF Is(v, "obj") THEN v.ps ELSE None

(* All the parts, or nothing if one of them was not read.                  *)
All(parts) ==
  FoldLeft(LAMBDA read, x : IF read = None \/ x = None THEN None ELSE Append(read, x), <<>>, parts)

RECURSIVE Depth(_)
Depth(v) ==
  CASE v.k = "arr" -> 1 + Max({0} \cup {Depth(v.vs[i]) : i \in DOMAIN v.vs})
    [] v.k = "obj" -> 1 + Max({0} \cup {Depth(v.ps[i][2]) : i \in DOMAIN v.ps})
    [] OTHER -> 0

(* from_str of a text that says v.                                         *)
FromStr(v) == IF Depth(v) > DepthLimit THEN None ELSE v
=============================================================================
