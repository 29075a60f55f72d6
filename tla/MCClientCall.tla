----------------------------- MODULE MCClientCall -----------------------------
(* Two versions of a contract of this library, which differ in opcodes and *)
(* fields, an upstream one with clashing names and a type that no document *)
(* defines, with and without a plan in its document, and one each whose    *)
(* __meta hangs, lies or says nonsense.                                    *)
EXTENDS ClientCall

MCTokens == {"Set", "Owner", "Note", "Get", "Shop", "a", "get", "set", "log"}
MCUpper  == [t \in MCTokens |-> IF t = "a" THEN "A" ELSE t]
MCLower  == [t \in MCTokens |-> CASE t = "Set" -> "set" [] t = "Note" -> "note"
                                  [] t = "Get" -> "get" [] OTHER -> t]

VecOf(ty) == <<"Vec<">> \o ty \o <<">">>

Method(ident, op, view, borsh, fields, witness, returns) ==
  [ident |-> ident, opcode |-> op, view |-> view, borsh |-> borsh, fields |-> fields,
   witness |-> witness, returns |-> returns]

Owner == <<<<"owner">>, <<"AlkaneId">>>>
Fee   == <<<<"fee">>, <<"u128">>>>

Declared(fields, op) ==
  <<Method(<<"Set", "Owner">>, op, FALSE, FALSE, fields, None,
           [mode |-> "raw", types |-> <<<<"u8">>, <<"u128">>>>]),
    Method(<<"Note">>, 3 - op, FALSE, FALSE,
           <<<<<<"text">>, <<"String">>>>, <<<<"to">>, VecOf(<<"AlkaneId">>)>>>>,
           <<"Blob">>, None),
    Method(<<"Get">>, 7, TRUE, TRUE, <<<<<<"of">>, <<"Blob">>>>>>, None,
           [mode |-> "borsh", types |-> <<<<"Blob">>>>])>>

NamedTypes ==
  [n \in {<<"AlkaneId">>, <<"Blob">>} |->
     IF n = <<"AlkaneId">> THEN AlkaneId
     ELSE Struct(<<<<<<"tag">>, Prim("u8")>>, <<<<"body">>, Vec(Prim("u8"))>>>>)]

Image(ptr, len, meta) == [runs |-> meta, ptr |-> ptr, len |-> len, size |-> 16]

Native(fields, op) ==
  [text |-> ExportAbi(<<"Shop">>, NamedTypes, Declared(fields, op)), upstream |-> FALSE,
   image |-> Image(6, 10, "yes"), types |-> NamedTypes, declared |-> Declared(fields, op)]

(* What the derive of upstream says of its methods.                        *)
UpstreamParams(m) ==
  Arr([i \in DOMAIN m.fields |->
         Obj(<<Field("name", Str(m.fields[i][1])), Field("type", Str(m.fields[i][2]))>>)])
UpstreamMeta(b) ==
  Obj(<<Field("contract", Str(<<"Old">>)),
        Field("methods", Arr([i \in DOMAIN b |->
          Obj(<<Field("name", Str(b[i].ident)), Field("opcode", Num(b[i].opcode)),
                Field("params", UpstreamParams(b[i])),
                Field("returns", Str(IF b[i].returns = None THEN <<"void">>
                                     ELSE b[i].returns.types[1]))>>)]))>>)

RawOf(ty) == [mode |-> "raw", types |-> <<ty>>]

OldDeclared ==
  <<Method(<<"get", "_", "a">>, 1, TRUE, FALSE, <<>>, None, RawOf(<<"u128">>)),
    Method(<<"set", "_", "_", "a">>, 2, FALSE, FALSE, <<>>, None, RawOf(<<"String">>)),
    Method(<<"set", "_", "a">>, 3, FALSE, FALSE,
           <<<<<<"rows">>, VecOf(VecOf(<<"u128">>))>>>>, None, None),
    Method(<<"log">>, 4, FALSE, FALSE, <<Owner, <<<<"text">>, <<"String">>>>>>, None,
           RawOf(VecOf(<<"u8">>))),
    Method(<<"get">>, 5, TRUE, FALSE, <<<<<<"of">>, VecOf(<<"String">>)>>>>, None, RawOf(<<"Foo">>))>>

Old ==
  [text |-> UpstreamMeta(OldDeclared), upstream |-> TRUE, image |-> Image(4, 12, "yes"),
   types |-> [n \in {<<"AlkaneId">>} |-> AlkaneId], declared |-> OldDeclared]

N(n) == Expr("num", <<n>>)
InHex(e) == Expr("hex", <<e>>)
Stored == Expr("storage", <<Expr("bytes", <<<<1, 2>>>>)>>)

(* The same, with a document as __meta in which one of the views has a     *)
(* plan, whose trials are those of new plans beyond 32 bits.               *)
Prior(b) ==
  [b EXCEPT !.text =
     ToJson([ParseAbi(@) EXCEPT !.methods[1].plan = [expr |-> Stored, trials |-> U32 + VerifyTrials]])]

(* No calls are made to the others.                                        *)
Broken(text, image) ==
  [text |-> text, upstream |-> TRUE, image |-> image, types |-> <<>>, declared |-> <<>>]

MCBuilds ==
  {Native(<<Owner, Fee>>, 1), Native(<<Fee, Owner>>, 2), Old, Prior(Old),
   Broken(Str(<<"no">>), Image(6, 10, "yes")), Broken(Num(0), Image(8, 10, "yes"))}

(* A plan of most operators, and one that is nested too deeply.            *)
MCExprs ==
  {Expr("concat",
     <<Expr("slice", <<Stored, N(0), Expr("and", <<N(1), Expr("len", <<Stored>>)>>)>>),
       Expr("le", <<Expr("word", <<0>>), 3>>),
       Expr("calldata", <<2, <<>>>>), Expr("calldata", <<0, <<5>>>>),
       Expr("if", <<Expr("and", <<Expr("beq", <<Stored, Stored>>)>>), Stored, Stored>>),
       Expr("loop", <<Expr("height", <<>>), Expr("decimal", <<Expr("var", <<>>)>>)>>)>>),
   InHex(InHex(InHex(InHex(InHex(InHex(InHex(InHex(InHex(Stored)))))))))}

MCNumbers    == {0, 7}
MCStrings    == {<<>>, <<1>>, <<1, 1>>}
MCPadding    == {<<>>, <<0>>}
MCStrayWords == {0, 1, 2, 4, 7}

RECURSIVE DecodeType(_, _)
DecodeType(ty, r) == Decoding(DecodeType, ty, r)

MCTypes ==
  {<<"u128">>, <<"AlkaneId">>, <<"String">>, VecOf(<<"u128">>), VecOf(<<"AlkaneId">>),
   VecOf(<<"String">>), VecOf(VecOf(<<"u128">>))}

(* What the proofs of ContractCall suppose: the types of fields, and that  *)
(* the client's encoding of a value is the one of EncodesAs.               *)
ASSUME LegacyTypes == Legacy(MCTypes) /\ Declares(MCTypes)

ASSUME ClientsEncode ==
  \A ty \in MCTypes :
    NoString(ty) => \A v \in ValuesOf(UpstreamType(ty), NamedTypes) : EncodesValue(ty, v)

(* The documents in reach of the builds and of attached plans.             *)
MCDocs ==
  LET said == {ParseAbi(MetaText(b)) : b \in {c \in Builds : MetaText(c) # None}} \ {None}
  IN  UNION {{Planned(d, found) : found \in [PendingIn(d) -> Exprs \cup {None}]} : d \in said}

(* What the proofs of Extraction suppose: a document of a build, with any  *)
(* plans attached, reads back from the very text that is written of it,    *)
(* the one number of trials for all its plans included (to_json,           *)
(* parse_abi_json).                                                        *)
ASSUME FormatReadsBack == RoundTrip(MCDocs)
=============================================================================
