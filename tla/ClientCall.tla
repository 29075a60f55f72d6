------------------------------ MODULE ClientCall ------------------------------
(***************************************************************************)
(* A call from end to end.  A client that has nothing but abi.json calls   *)
(* the contract that is deployed (ContractCall), calldata of any other     *)
(* origin reaches it as well.                                              *)
(*                                                                         *)
(* A client is built from the two files that one run has left, and calls   *)
(* between two runs: it shares nothing else with the extractor, whose      *)
(* format (ReadDoc, JsonText, TsText) is that of AbiDocument here.         *)
(***************************************************************************)
EXTENDS Calldata, ContractCall

CONSTANTS
  CallsAfter,                 \* the runs after which clients are built
  Numbers, Strings, MaxList,  \* the values of calls and answers
  Padding,                    \* words that may follow the calldata
  Lower                       \* a token with its first letter in lower case

(* Values of a type as a client means them, by the schema of the document. *)
RECURSIVE ValuesOf(_, _), Rows(_)
ValuesOf(s, types) ==
  LET t == Resolve(s, types) IN
    CASE t.k = "prim" /\ t.p = "string" -> Strings
      [] t.k = "prim" /\ t.p = "u8" -> {0, ByteBase - 1}
      [] t.k = "prim" /\ t.p = "u128" -> Numbers
      [] t.k = "vec" ->
           LET vs == ValuesOf(t.of, types)
           IN  UNION {Rows([i \in 1 .. n |-> vs]) : n \in 0 .. MaxList}
      [] t.k = "struct" -> Rows([i \in DOMAIN t.fs |-> ValuesOf(t.fs[i][2], types)])

(* A member of each set.                                                   *)
Rows(sets) ==
  IF sets = <<>> THEN {<<>>}
  ELSE {Append(r, x) : r \in Rows(Front(sets)), x \in Last(sets)}

----------------------------------------------------------------------------
(* The client *)

(* Words for the input, as its mode says, and bytes for the witness.       *)
WordsOf(io, types, v) ==
  IF io = None THEN <<>>
  ELSE IF io.mode = "borsh" THEN BytesToWords(ToBorsh(io.schema, types, v))
  ELSE Encode(io.schema, types, v)

Meant(io, types) ==
  IF io = None THEN {None}
  ELSE IF Defined(io.schema, types) THEN ValuesOf(io.schema, types) ELSE {}

(* The envelope is in some input of the transaction, behind others without *)
(* a payload.                                                              *)
Envelopes(payload) == {<<payload>>, <<<<>>, payload>>, <<payload, <<1>>>>}

ClientDoc == ParseAbi(files["json"].text)

Send ==
  /\ pc = "idle" /\ runs \in CallsAfter /\ call = NoCall
  /\ \A f \in DOMAIN files : files[f].state = "whole"
  /\ files["json"].run = files["ts"].run
  /\ \E doc \in {ClientDoc} :
       \E i \in DOMAIN doc.methods, tail \in Padding :
         LET m == doc.methods[i] IN
           \E v \in Meant(m.input, doc.types), w \in Meant(m.witness, doc.types) :
             \E tx \in IF w = None THEN {<<>>}
                       ELSE Envelopes(ToBorsh(m.witness.schema, doc.types, w)) :
               call' = Call("client", m, v, w, m.opcode,
                            WordsOf(m.input, doc.types, v) \o tail, tx)
  /\ UNCHANGED runVars

----------------------------------------------------------------------------
(* What the contract says of itself, and what its borsh and its handlers   *)
(* do.  Types are schemas of named types.                                  *)

(* to_lower_camel_case of a variant, a sequence of capitalized words.      *)
LowerCamel(ident) == <<Lower[Head(ident)]>> \o Tail(ident)

PublicName(b, m) == IF b.upstream THEN SnakeToCamel(m.ident) ELSE LowerCamel(m.ident)

(* export_abi of a contract of this library: reference() of a type is what *)
(* the normalization makes of its name.                                    *)
ReturnIo(returns) ==
  CASE returns = None -> None
    [] returns # None /\ Len(returns.types) = 1 -> Io(returns.mode, UpstreamType(returns.types[1]))
    [] returns # None /\ Len(returns.types) > 1 ->
         Io(returns.mode, Struct([i \in DOMAIN returns.types |->
                                    <<<<"_", ToString(i - 1)>>, UpstreamType(returns.types[i])>>]))

MethodExpr(m) ==
  [name    |-> LowerCamel(m.ident), opcode |-> m.opcode,
   kind    |-> IF m.view THEN "view" ELSE "execute",
   input   |-> IF m.fields = <<>> THEN None
               ELSE IF m.borsh THEN Io("borsh", UpstreamType(ParamTypes(m)[1]))
               ELSE Io("legacy", Struct([i \in DOMAIN m.fields |->
                                           <<m.fields[i][1], UpstreamType(m.fields[i][2])>>])),
   witness |-> IF m.witness = None THEN None ELSE Io("borsh", UpstreamType(m.witness)),
   output  |-> ReturnIo(m.returns),
   plan    |-> None]

ExportAbi(contract, types, declared) ==
  ToJson([contract |-> contract, types |-> types,
          methods |-> [i \in DOMAIN declared |-> MethodExpr(declared[i])]])

(* decode_words and decode_witness of a declared type.                     *)
ReadBorsh(ty, types, bs) == FromBorsh(UpstreamType(ty), types, bs)

(* Values a handler may return, one per declared type.  Of types that are  *)
(* defined nowhere nothing is known.                                       *)
Returned(b, returns) ==
  IF returns = None THEN {<<>>}
  ELSE IF \E i \in DOMAIN returns.types : ~Defined(UpstreamType(returns.types[i]), b.types) THEN {}
  ELSE Rows([i \in DOMAIN returns.types |-> ValuesOf(UpstreamType(returns.types[i]), b.types)])

(* finish_return: the data of the response.                                *)
EncodeReturn(b, returns, v) ==
  CASE returns = None -> <<>>
    [] returns # None /\ returns.mode = "raw" -> RawBytes(returns.types, v)
    [] returns # None /\ returns.mode = "borsh" ->
         ToBorsh(UpstreamType(returns.types[1]), b.types, v[1])

(* The words a client sends for a value of a type.                         *)
Sent(ty, v) == Encode(UpstreamType(ty), [n \in {<<"AlkaneId">>} |-> AlkaneId], v)

----------------------------------------------------------------------------
Next ==
  \/ call = NoCall /\ Extract /\ UNCHANGED call
  \/ Send \/ SendStray \/ Handle \/ Reject \/ Answer \/ Close

Spec == CallInit /\ [][Next]_callVars

----------------------------------------------------------------------------
Unplanned(doc) == [doc EXCEPT !.methods = [i \in DOMAIN @ |-> [@[i] EXCEPT !.plan = None]]]

(* The client reads the response by the output of its document.            *)
ReadAnswer(io, types, bs) ==
  CASE io = None -> <<>>
    [] io # None /\ io.mode = "raw" -> ReadRaw(io.schema, bs)
    [] io # None /\ io.mode = "borsh" -> <<FromBorsh(io.schema, types, bs).v>>

(* What extraction makes of each build, plans apart.                       *)
Interfaces ==
  [b \in Builds |->
     IF MetaText(b) = None \/ ParseAbi(MetaText(b)) = None THEN None
     ELSE Unplanned(ParseAbi(MetaText(b)))]

(* The document is that of the deployed build, and no other method has the *)
(* same name in it.                                                        *)
Knows(doc, name) ==
  /\ Unplanned(doc) = Interfaces[wasm]
  /\ Cardinality({i \in DOMAIN doc.methods : doc.methods[i].name = name}) = 1

(* A call made with the document of the deployed build is accepted, and    *)
(* reaches the handler declared under that name, with the arguments and    *)
(* the witness that were meant, whatever words and envelopes surround      *)
(* them; its response reads as what the handler returned.  That takes the  *)
(* writer, the reader or the normalization of the document, the client's   *)
(* encodings and the generated from_opcode, dispatch and finish_return.    *)
CallsArrive ==
  call.phase \in {"handled", "rejected", "answered"} /\ call.by = "client" =>
    LET m == call.method IN
      Knows(ClientDoc, m.name) =>
        /\ call.phase # "rejected"
        /\ PublicName(wasm, Handler) = m.name
        /\ call.reader.v = (CASE m.input = None -> <<>>
                              [] m.input # None /\ m.input.mode = "legacy" -> call.input
                              [] m.input # None /\ m.input.mode = "borsh" -> <<call.input>>)
        /\ call.payload = call.witness
        /\ call.phase = "answered" =>
             ReadAnswer(m.output, ClientDoc.types, call.data) = call.value
=============================================================================
