---------------------------- MODULE LegacyDecode ----------------------------
(***************************************************************************)
(* Calldata of the legacy mode: how the generated code reads the fields of *)
(* a variant from words (LegacyDecode).  A word is a number, and WordLen   *)
(* bytes.  A type is a sequence of tokens; a value is a number, a sequence *)
(* of bytes (a string), of words (an AlkaneId) or of elements.             *)
(***************************************************************************)
EXTENDS Integers, Sequences, SequencesExt

CONSTANTS
  Decode(_, _),       \* decode of a type: Decoding, with this name inside
  ByteBase, WordLen,  \* 256 and 16
  USize,              \* 2^32, the width of a usize in a contract
  Reserve,            \* 1024, the elements a vector has room for at first
  Invalid             \* the bytes that are no UTF-8

ASSUME WordAssumption ==
  /\ {ByteBase, WordLen, USize, Reserve} \subseteq Nat \ {0}
  /\ Invalid \subseteq 0 .. ByteBase - 1

Words == 0 .. ByteBase ^ WordLen - 1

BytesOf(n, w) == [i \in 1 .. w |-> (n \div ByteBase ^ (i - 1)) % ByteBase]

WordsToBytes(ws) == FlattenSeq([i \in DOMAIN ws |-> BytesOf(ws[i], WordLen)])

IsVec(ty)   == Len(ty) >= 2 /\ ty[1] = "Vec<" /\ Last(ty) = ">"
Element(ty) == SubSeq(ty, 2, Len(ty) - 1)

----------------------------------------------------------------------------
(* A reader is the words that remain, the value just read, how many        *)
(* elements were decoded and the most that was reserved at once.           *)

Reader(ws) == [ok |-> TRUE, rest |-> ws, v |-> <<>>, elems |-> 0, room |-> 0]

Fails(r)       == [r EXCEPT !.ok = FALSE]
Reads(r, n, v) == [r EXCEPT !.rest = SubSeq(@, n + 1, Len(@)), !.v = v]

(* The words up to the first with a zero byte, that one included, or all.  *)
StringWords(ws) ==
  LET ends == {i \in DOMAIN ws : \E j \in 1 .. WordLen : BytesOf(ws[i], WordLen)[j] = 0}
  IN  IF ends = {} THEN Len(ws) ELSE Min(ends)

(* ... and their bytes before it.                                          *)
StringBytes(ws) ==
  LET bs    == WordsToBytes(SubSeq(ws, 1, StringWords(ws)))
      zeros == {i \in DOMAIN bs : bs[i] = 0}
  IN  IF zeros = {} THEN bs ELSE SubSeq(bs, 1, Min(zeros) - 1)

DecodeWord(r) == IF r.rest = <<>> THEN Fails(r) ELSE Reads(r, 1, r.rest[1])

DecodeTxFirst(r) ==
  IF Len(r.rest) < 2 THEN Fails(r) ELSE Reads(r, 2, <<r.rest[2], r.rest[1]>>)

DecodeId(r) == IF Len(r.rest) < 2 THEN Fails(r) ELSE Reads(r, 2, <<r.rest[1], r.rest[2]>>)

DecodeAnyString(r) ==
  LET bs == StringBytes(r.rest)
  IN  IF \E i \in DOMAIN bs : bs[i] \in Invalid THEN Fails(r)
      ELSE Reads(r, StringWords(r.rest), bs)

(* Invalid bytes fail it, and having no words; having no zero does not.    *)
DecodeString(r) ==
  LET bs == StringBytes(r.rest)
  IN  IF r.rest = <<>> \/ (\E i \in DOMAIN bs : bs[i] \in Invalid) THEN Fails(r)
      ELSE Reads(r, StringWords(r.rest), bs)

(* A length is cut to the width of a usize; the room is bounded apart.     *)
VecLength(n) == n % USize

Room(n) == IF n < Reserve THEN n ELSE Reserve

(* e was read after the values of r.                                       *)
Followed(r, e) == [e EXCEPT !.v = IF e.ok THEN Append(r.v, e.v) ELSE r.v]

(* The next element of a vector, unless one before it has failed.          *)
NextElement(decode(_, _), ty, r) ==
  IF r.ok THEN Followed(r, decode(ty, [r EXCEPT !.elems = @ + 1])) ELSE r

Decoding(decode(_, _), ty, r) ==
  CASE ty = <<"u128">> -> DecodeWord(r)
    [] ty = <<"AlkaneId">> -> DecodeId(r)
    [] ty = <<"String">> -> DecodeString(r)
    [] IsVec(ty) ->
         IF r.rest = <<>> THEN Fails(r)
         ELSE LET n     == VecLength(r.rest[1])
                  begun == [Reads(r, 1, <<>>) EXCEPT !.room = IF Room(n) > @ THEN Room(n) ELSE @]
                  upto[i \in 0 .. n] ==
                    IF i = 0 THEN begun ELSE NextElement(decode, Element(ty), upto[i - 1])
              IN  upto[n]

DecodeStep(ty, r) == Decoding(Decode, ty, r)

(* The fields of a variant, in the order of their declaration.             *)
NextField(ty, r) == IF r.ok THEN Followed(r, Decode(ty, r)) ELSE r

DecodeFields(tys, ws) ==
  LET upto[i \in 0 .. Len(tys)] ==
        IF i = 0 THEN Reader(ws) ELSE NextField(tys[i], upto[i - 1])
  IN  upto[Len(tys)]
=============================================================================
