-------------------------- MODULE MCTypeCollection ---------------------------
(* All programs of three types that have up to two fields each, with every *)
(* way to name them, and one or two variants that name up to two of them.  *)
EXTENDS TypeCollection, TLC

CONSTANTS a, b, c, A, B, C

FieldLists ==
  {<<>>} \cup {<<s>> : s \in Types} \cup {<<s, t>> : s \in Types, t \in Types}

AtMostOne == {<<>>} \cup {<<t>> : t \in Types}

VariantsDef ==
  {v \in [params : AtMostOne, witness : AtMostOne, returns : AtMostOne] :
     Len(v.params) + Len(v.witness) + Len(v.returns) \in {1, 2}}

VariantLists ==
  {<<v>> : v \in VariantsDef}
    \cup {<<v, w>> : v \in {x \in VariantsDef : x.params # <<>> /\ x.returns = <<>> /\ x.witness = <<>>},
                     w \in {x \in VariantsDef : x.witness # <<>> /\ x.params = <<>> /\ x.returns = <<>>}}

ProgramsDef ==
  [name : [Types -> Names],
   fields : [Types -> {f \in FieldLists : Len(f) < 2 \/ f[1] # f[2]}],
   variants : VariantLists]

Symmetry == Permutations(Types) \cup Permutations(Names)
=============================================================================
