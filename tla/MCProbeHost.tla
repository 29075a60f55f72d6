---------------------------- MODULE MCProbeHost ------------------------------
(* Small instances of ProbeHost. *)
EXTENDS ProbeHost, TLC

CONSTANTS k1, k2, empty, x, y, c1, c2, h1, h2

(* Two values of one length, so that a request cannot tell them apart.     *)
SizeDef == [v \in Values |-> IF v = Empty THEN 0 ELSE 2]

(* Memory of 5 bytes: 1 fits, 4 is too close to the end, and -1 is an i32  *)
(* with its highest bit set.                                               *)
PointersDef == {1, 4, -1}

ForeignDef == {"__call", "__load_block"}

Symmetry ==
  Permutations(Keys) \cup Permutations(Contexts) \cup Permutations(Heights)
    \cup Permutations({x, y})
=============================================================================
