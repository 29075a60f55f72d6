------------------------------ MODULE Calldata ------------------------------
(***************************************************************************)
(* Calldata and responses: the words and the bytes a value of a Rust type  *)
(* is encoded to by the code that AlkabiMessage generates, and decoded     *)
(* from (FromBorsh, RawBytes, with LegacyDecode), and what a client that   *)
(* has nothing but a document sends and reads (Encode, ToBorsh, ReadRaw).  *)
(***************************************************************************)
EXTENDS AbiDocument, LegacyDecode

NumOf(bs) == FoldLeftDomain(LAMBDA n, i : n + bs[i] * ByteBase ^ (i - 1), 0, bs)

(* By the client: cut into words, the last one filled up with zeros.       *)
BytesToWords(bs) ==
  [i \in 1 .. (Len(bs) + WordLen - 1) \div WordLen |->
     NumOf(SubSeq(bs, WordLen * (i - 1) + 1, Min({WordLen * i, Len(bs)})))]

----------------------------------------------------------------------------
(* Borsh, which is a library: numbers as bytes, a length byte before the   *)
(* elements of a vector, the fields of a struct one after the other.       *)

Resolve(s, types) ==
  IF s.k = "ref" THEN IF s.name \in DOMAIN types THEN types[s.name] ELSE None ELSE s

Width(p) == IF p = "u8" THEN 1 ELSE WordLen

RECURSIVE ToBorsh(_, _, _), TakeBorsh(_, _, _)
ToBorsh(s, types, v) ==
  LET t == Resolve(s, types) IN
    CASE t.k = "prim" -> BytesOf(v, Width(t.p))
      [] t.k = "vec" -> <<Len(v)>> \o FlattenSeq([i \in DOMAIN v |-> ToBorsh(t.of, types, v[i])])
      [] t.k = "struct" -> FlattenSeq([i \in DOMAIN v |-> ToBorsh(t.fs[i][2], types, v[i])])

(* What a reader of bytes makes of their beginning: [v, rest], or None.    *)
TakeBorsh(s, types, bs) ==
  LET t == Resolve(s, types)
      Each(parts, from) ==
        FoldLeft(LAMBDA r, p : LET e == TakeBorsh(p, types, r.rest) IN
                                 IF r = None \/ e = None THEN None
                                 ELSE [v |-> Append(r.v, e.v), rest |-> e.rest],
                 [v |-> <<>>, rest |-> from], parts)
  IN  CASE t.k = "prim" ->
             IF Len(bs) < Width(t.p) THEN None
             ELSE [v    |-> NumOf(SubSeq(bs, 1, Width(t.p))),
                   rest |-> SubSeq(bs, Width(t.p) + 1, Len(bs))]
        [] t.k = "vec" ->
             IF bs = <<>> THEN None ELSE Each([i \in 1 .. bs[1] |-> t.of], Tail(bs))
        [] t.k = "struct" -> Each([i \in DOMAIN t.fs |-> t.fs[i][2]], bs)

(* decode_words and decode_witness: what follows the value does not matter. *)
FromBorsh(s, types, bs) ==
  LET r == TakeBorsh(s, types, bs) IN IF r = None THEN None ELSE [v |-> r.v]

----------------------------------------------------------------------------
(* What a client sends, by the schema and the types of a document.  None   *)
(* where the document leaves a type undefined.                             *)

RECURSIVE Encode(_, _, _)
Encode(s, types, v) ==
  LET t == Resolve(s, types)
      parts == CASE t.k = "vec" -> [i \in DOMAIN v |-> Encode(t.of, types, v[i])]
                 [] t.k = "struct" -> [i \in DOMAIN v |-> Encode(t.fs[i][2], types, v[i])]
  IN  CASE t.k = "prim" -> IF t.p = "string" THEN BytesToWords(Append(v, 0)) ELSE <<v>>
        [] t.k = "vec" -> <<Len(v)>> \o FlattenSeq(parts)
        [] t.k = "struct" -> FlattenSeq(parts)

RECURSIVE Defined(_, _)
Defined(s, types) ==
  LET t == Resolve(s, types) IN
    /\ t # None
    /\ t.k = "vec" => Defined(t.of, types)
    /\ t.k = "struct" => \A i \in DOMAIN t.fs : Defined(t.fs[i][2], types)

----------------------------------------------------------------------------
(* Responses.  Raw bytes of several values are concatenated.               *)

RawValue(ty, v) ==
  CASE ty = <<"u8">> -> BytesOf(v, 1)
    [] ty = <<"u128">> -> BytesOf(v, WordLen)
    [] OTHER -> v   \* String, Vec<u8>: their bytes

RawBytes(tys, v) == FlattenSeq([i \in DOMAIN tys |-> RawValue(tys[i], v[i])])

(* ... and how a client reads them: numbers by their width, a string or    *)
(* bytes to the end.                                                       *)
RawLength(s, bs) == IF s.k = "prim" /\ s.p # "string" THEN Width(s.p) ELSE Len(bs)

ReadRaw(s, bs) ==
  LET parts == IF s.k = "struct" THEN [i \in DOMAIN s.fs |-> s.fs[i][2]] ELSE <<s>>
  IN  FoldLeft(LAMBDA r, p :
                 LET n  == RawLength(p, r.rest)
                     bs1 == SubSeq(r.rest, 1, n)
                 IN  [v    |-> Append(r.v, IF p.k = "prim" /\ p.p # "string" THEN NumOf(bs1) ELSE bs1),
                      rest |-> SubSeq(r.rest, n + 1, Len(r.rest))],
               [v |-> <<>>, rest |-> bs], parts).v
=============================================================================
