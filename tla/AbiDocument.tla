----------------------------- MODULE AbiDocument -----------------------------
(***************************************************************************)
(* ABI documents: how one is written as JSON, how one is read back from    *)
(* any JSON, and how the document of an upstream contract, which has       *)
(* another format, becomes one.                                            *)
(*                                                                         *)
(* A document is [contract, types, methods]: types maps names to schemas,  *)
(* and a method is [name, opcode, kind, input, witness, output, plan],     *)
(* the last four None or [mode, schema], respectively [expr, trials].      *)
(***************************************************************************)
EXTENDS PlanDocument

CONSTANTS
  Alkabi,      \* ALKABI_VERSION
  Primitives,  \* the primitive types
  Upper        \* a token with its first letter in upper case

Prim(p)     == [k |-> "prim", p |-> p]
Struct(fs)  == [k |-> "struct", fs |-> fs]   \* <<name, schema>>, as is an enum
Enum(vs)    == [k |-> "enum", vs |-> vs]
Option(s)   == [k |-> "option", of |-> s]
Vec(s)      == [k |-> "vec", of |-> s]
Array(s, n) == [k |-> "array", of |-> s, len |-> n]
Ref(name)   == [k |-> "ref", name |-> name]

Io(mode, schema) == [mode |-> mode, schema |-> schema]

----------------------------------------------------------------------------
(* Writing *)

RECURSIVE WriteSchema(_)
WriteSchema(s) ==
  CASE s.k = "prim" -> Str(<<s.p>>)
    [] s.k = "struct" ->
         Obj(<<Field("struct", Obj([i \in DOMAIN s.fs |->
                                      <<s.fs[i][1], WriteSchema(s.fs[i][2])>>]))>>)
    [] s.k = "enum" ->
         Obj(<<Field("enum", Arr([i \in DOMAIN s.vs |->
               Obj(<<Field("struct", Obj(<<<<s.vs[i][1], WriteSchema(s.vs[i][2])>>>>))>>)]))>>)
    [] s.k = "option" -> Obj(<<Field("option", WriteSchema(s.of))>>)
    [] s.k = "vec" -> Obj(<<Field("array", Obj(<<Field("type", WriteSchema(s.of))>>))>>)
    [] s.k = "array" ->
         Obj(<<Field("array", Obj(<<Field("type", WriteSchema(s.of)), Field("len", Num(s.len))>>))>>)
    [] s.k = "ref" -> Obj(<<Field("$ref", Str(s.name))>>)

(* A field for what there is, none for what there is not.                  *)
Given(name, x, v) == IF x = None THEN <<>> ELSE <<Field(name, v)>>

WriteIo(name, io) ==
  Given(name, io, Obj(<<Field("mode", Str(<<io.mode>>)), Field("schema", WriteSchema(io.schema))>>))

WriteMethod(m) ==
  Obj(<<Field("name", Str(m.name)), Field("opcode", Num(m.opcode)), Field("kind", Str(<<m.kind>>))>>
        \o WriteIo("input", m.input) \o WriteIo("witness", m.witness)
        \o WriteIo("output", m.output) \o Given("plan", m.plan, WritePlan(m.plan)))

(* The trials of a document are those of its first plan.                   *)
TrialsOf(doc) ==
  LET planned == SelectSeq(doc.methods, LAMBDA m : m.plan # None)
  IN  IF planned = <<>> THEN None ELSE planned[1].plan.trials

(* The types are written in the order of their names.                      *)
WriteTypes(types) ==
  LET names == SetToSeq(DOMAIN types)
  IN  Obj([i \in DOMAIN names |-> <<names[i], WriteSchema(types[names[i]])>>])

ToJson(doc) ==
  Obj(<<Field("alkabi", Num(Alkabi)), Field("contract", Str(doc.contract))>>
        \o Given("trials", TrialsOf(doc), Num(TrialsOf(doc)))
        \o <<Field("types", WriteTypes(doc.types)),
             Field("methods", Arr([i \in DOMAIN doc.methods |-> WriteMethod(doc.methods[i])]))>>)

(* to_json_pretty reads what was written, and panics if it cannot (None).  *)
Pretty(doc) == FromStr(ToJson(doc))

(* to_ts: the same under a name.                                           *)
ToTs(doc) == [name |-> Append(doc.contract, "Abi"), is |-> Pretty(doc)]

----------------------------------------------------------------------------
(* Reading *)

FieldOf(name, s)  == IF s = None THEN None ELSE <<name, s>>
VariantOf(fields) == IF fields = None THEN None ELSE fields[1]

SchemaOf(key, part, len) ==
  CASE part = None -> None
    [] part # None /\ key = "$ref" -> Ref(part)
    [] part # None /\ key = "struct" -> Struct(part)
    [] part # None /\ key = "enum" -> Enum(part)
    [] part # None /\ key = "option" -> Option(part)
    [] part # None /\ key = "array" -> IF len = None THEN Vec(part) ELSE Array(part, len.n)

RECURSIVE ReadSchema(_), ReadPart(_, _), ReadFields(_)
(* parse_schema: the first of these fields that is there decides.          *)
ReadKey(keys, v) ==
  IF keys = <<>> THEN None
  ELSE SchemaOf(keys[1], ReadPart(keys[1], Get(v, keys[1])), Get(Get(v, keys[1]), "len"))

ReadSchema(v) ==
  IF ~Is(v, "str")
  THEN ReadKey(SelectSeq(<<"$ref", "struct", "enum", "option", "array">>,
                         LAMBDA key : Get(v, key) # None), v)
  ELSE IF Len(v.s) = 1 /\ v.s[1] \in Primitives THEN Prim(v.s[1])
  ELSE None

(* A variant is an object whose struct has one field.                      *)
ReadVariant(ps) ==
  IF ps = None \/ Len(ps) # 1 THEN None ELSE VariantOf(ReadFields(ps))

ReadPart(key, body) ==
  CASE key = "$ref" -> AsStr(body)
    [] key = "struct" -> ReadFields(AsObj(body))
    [] key = "enum" ->
         IF ~Is(body, "arr") THEN None
         ELSE All([i \in DOMAIN body.vs |-> ReadVariant(AsObj(Get(body.vs[i], "struct")))])
    [] key = "option" -> ReadSchema(body)
    [] key = "array" ->
         IF Get(body, "len") # None /\ AsU64(Get(body, "len")) = None THEN None
         ELSE ReadSchema(Get(body, "type"))

ReadFields(ps) ==
  IF ps = None THEN None
  ELSE All([i \in DOMAIN ps |-> FieldOf(ps[i][1], ReadSchema(ps[i][2]))])

(* A field that is there must be read; one that is not is None.            *)
Failure == [failed |-> TRUE]

IoOf(mode, s) ==
  IF mode \in {<<"legacy">>, <<"borsh">>, <<"raw">>} /\ s # None THEN Io(mode[1], s) ELSE Failure

ReadIo(v) ==
  IF v = None THEN None ELSE IoOf(AsStr(Get(v, "mode")), ReadSchema(Get(v, "schema")))

OrFailure(p) == IF p = None THEN Failure ELSE p

ReadOptional(v) == IF v = None THEN None ELSE OrFailure(ReadPlan(v))

(* A number, or one in a string.                                           *)
Opcode(v) == IF (Is(v, "num") \/ Is(v, "dec")) /\ v.n >= 0 THEN v.n ELSE None

MethodOf(m) ==
  IF m.name = None \/ m.opcode = None \/ m.kind \notin {<<"view">>, <<"execute">>}
     \/ Failure \in {m.input, m.witness, m.output, m.plan}
  THEN None
  ELSE [m EXCEPT !.kind = @[1]]

ReadMethod(v) ==
  MethodOf([name    |-> AsStr(Get(v, "name")), opcode |-> Opcode(Get(v, "opcode")),
            kind    |-> AsStr(Get(v, "kind")), input |-> ReadIo(Get(v, "input")),
            witness |-> ReadIo(Get(v, "witness")), output |-> ReadIo(Get(v, "output")),
            plan    |-> ReadOptional(Get(v, "plan"))])

WithTrials(m, n) ==
  IF n = None \/ m.plan = None THEN m ELSE [m EXCEPT !.plan.trials = n % U32]

(* parse_alkabi_document: the trials of the document become those of all   *)
(* its plans.                                                              *)
DocumentOf(contract, types, methods, trials) ==
  IF contract = None \/ types = None \/ methods = None THEN None
  ELSE [contract |-> contract,
        types    |-> [n \in {types[i][1] : i \in DOMAIN types} |->
                        types[CHOOSE i \in DOMAIN types : types[i][1] = n][2]],
        methods  |-> All([i \in DOMAIN methods |-> WithTrials(methods[i], trials)])]

ReadMethods(vs) ==
  IF vs = None THEN None ELSE All([i \in DOMAIN vs |-> ReadMethod(vs[i])])

ReadDocument(v) ==
  DocumentOf(AsStr(Get(v, "contract")),
             IF Is(Get(v, "types"), "obj") THEN ReadFields(Get(v, "types").ps) ELSE <<>>,
             ReadMethods(AsArr(Get(v, "methods"))),
             AsU64(Get(v, "trials")))

----------------------------------------------------------------------------
(* Normalizing *)

RECURSIVE UpstreamType(_)
UpstreamType(ty) ==
  CASE Len(ty) = 1 /\ ty[1] \in Primitives -> Prim(ty[1])
    [] ty = <<"String">> -> Prim("string")
    [] Len(ty) >= 2 /\ ty[1] = "Vec<" /\ Last(ty) = ">" ->
         Vec(UpstreamType(SubSeq(ty, 2, Len(ty) - 1)))
    [] OTHER -> Ref(ty)   \* AlkaneId, and any name the document does not define

AlkaneId == Struct(<<<<<<"block">>, Prim("u128")>>, <<<<"tx">>, Prim("u128")>>>>)

RECURSIVE Mentions(_, _)
Mentions(s, name) ==
  CASE s.k = "ref" -> s.name = name
    [] s.k = "vec" -> Mentions(s.of, name)
    [] s.k = "struct" -> \E i \in DOMAIN s.fs : Mentions(s.fs[i][2], name)
    [] OTHER -> FALSE

SnakeToCamel(snake) ==
  FoldLeft(LAMBDA r, t : IF t = "_" THEN [r EXCEPT !.up = TRUE]
                         ELSE [up |-> FALSE, out |-> Append(r.out, IF r.up THEN Upper[t] ELSE t)],
           [up |-> FALSE, out |-> <<>>], snake).out

(* A name that gets something is taken for a view's.                       *)
KindOf(snake) ==
  IF snake = <<"get">> \/ (Len(snake) > 1 /\ snake[1] = "get" /\ snake[2] = "_")
  THEN "view" ELSE "execute"

Split(ty) ==
  FoldLeft(LAMBDA parts, t : IF t = "," THEN Append(parts, <<>>)
                             ELSE Append(Front(parts), Append(Last(parts), t)),
           <<<<>>>>, ty)

(* Several types, even if the commas are those of one type.                *)
ReturnSchema(tys) ==
  IF Len(tys) = 1 THEN UpstreamType(tys[1])
  ELSE Struct([i \in DOMAIN tys |-> <<<<"_", ToString(i - 1)>>, UpstreamType(tys[i])>>])

ParamOf(name, ty) == IF None \in {name, ty} THEN None ELSE <<name, UpstreamType(ty)>>

ReadParams(vs) ==
  IF vs = None THEN <<>>
  ELSE All([i \in DOMAIN vs |-> ParamOf(AsStr(Get(vs[i], "name")), AsStr(Get(vs[i], "type")))])

UpstreamMethodOf(name, opcode, fields, returns) ==
  IF name = None \/ opcode = None \/ fields = None THEN None
  ELSE [name    |-> SnakeToCamel(name), opcode |-> opcode, kind |-> KindOf(name),
        input   |-> IF fields = <<>> THEN None ELSE Io("legacy", Struct(fields)),
        witness |-> None,
        output  |-> IF returns \in {None, <<>>, <<"void">>} THEN None
                    ELSE Io("raw", ReturnSchema(Split(returns))),
        plan    |-> None]

UpstreamMethod(v) ==
  UpstreamMethodOf(AsStr(Get(v, "name")), Opcode(Get(v, "opcode")),
                   ReadParams(AsArr(Get(v, "params"))), AsStr(Get(v, "returns")))

(* normalize_upstream: the one type it knows is registered where a         *)
(* parameter or a return mentions it.                                      *)
Mentioned(methods) ==
  {n \in {<<"AlkaneId">>} : \E i \in DOMAIN methods, io \in {"input", "output"} :
     methods[i][io] # None /\ Mentions(methods[i][io].schema, n)}

Normalized(contract, methods) ==
  IF contract = None \/ methods = None THEN None
  ELSE [contract |-> contract,
        types    |-> [n \in Mentioned(methods) |-> AlkaneId],
        methods  |-> methods]

NormalizeMethods(vs) ==
  IF vs = None THEN None ELSE All([i \in DOMAIN vs |-> UpstreamMethod(vs[i])])

Normalize(v) == Normalized(AsStr(Get(v, "contract")), NormalizeMethods(AsArr(Get(v, "methods"))))

(* parse_abi_json: the document, None if there is none.                    *)
Document(v) ==
  CASE v = None -> None
    [] v # None /\ Get(v, "alkabi") # None -> ReadDocument(v)
    [] v # None /\ Get(v, "alkabi") = None -> Normalize(v)

ParseAbi(text) == Document(FromStr(text))
=============================================================================
