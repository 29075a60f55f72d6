------------------------------ MODULE ListBases ------------------------------
(***************************************************************************)
(* The keys of stored lists (list.rs): a base, in which the height of the  *)
(* block may stand, with a tail, "length" or the decimal index of an       *)
(* element.  No key can be split in two ways.  A height stands for its     *)
(* bytes in little-endian order.                                           *)
(***************************************************************************)
EXTENDS Integers, Sequences
LOCAL INSTANCE TLC

CONSTANTS
  Octet, Width,          \* the bytes of a height are Width many (eight)
  Heights, Default,      \* Default: the height of Oracle::default
  Lists,                 \* what the trials store: sequences of elements
  Templates,             \* the bases of the lists a guest may read
  ProbeN,                \* the length the second probe stores
  Trials, MaxAttempts,
  StrayKeys              \* the sequences of keys another guest may request

ASSUME HeightAssumption ==
  /\ Width \in Nat \ {0} /\ Default \in Heights
  /\ \A h \in Heights : h \in Seq(Octet) /\ Len(h) = Width

Bases == [prefix : Seq(Octet), hasHeight : BOOLEAN, suffix : Seq(Octet)]

ASSUME TemplateAssumption ==
  /\ Templates \subseteq Bases
  /\ StrayKeys \subseteq Seq([base : Seq(Octet), tail : STRING])

ASSUME ListAssumption == <<>> \in Lists

ASSUME TrialsAssumption ==
  ProbeN \in Nat /\ Trials \in Nat \ {0} /\ MaxAttempts \in Nat /\ MaxAttempts >= Trials

NoTemplate == [prefix |-> <<>>, hasHeight |-> FALSE, suffix |-> <<>>]

Concrete(t, h) == IF t.hasHeight THEN t.prefix \o h \o t.suffix ELSE t.prefix

LengthKey(base)     == [base |-> base, tail |-> "length"]
ElementKey(base, i) == [base |-> base, tail |-> ToString(i)]

(* Where the bytes of a height occur in a base.                            *)
Places(base, h) ==
  {p \in 0 .. Len(base) - Width : \A j \in 1 .. Width : base[p + j] = h[j]}

SpliceToEnd(base, p) ==
  [prefix |-> SubSeq(base, 1, p), hasHeight |-> TRUE, suffix |-> <<>>]

Splice(base, p) ==
  [prefix |-> SubSeq(base, 1, p), hasHeight |-> TRUE,
   suffix |-> SubSeq(base, p + Width + 1, Len(base))]

(* templatize: the first place of the probe's height becomes the splice.   *)
Templatize(base) ==
  IF Places(base, Default) = {}
  THEN [prefix |-> base, hasHeight |-> FALSE, suffix |-> <<>>]
  ELSE Splice(base, CHOOSE p \in Places(base, Default) :
                      \A q \in Places(base, Default) : p <= q)
=============================================================================
