---------------------------- MODULE ContractCall ----------------------------
(***************************************************************************)
(* A call of the deployed contract: its generated from_opcode and dispatch *)
(* decode the call, run the handler and encode what it returns.  Calldata  *)
(* and transactions are whatever their sender says.                        *)
(*                                                                         *)
(* Between two runs of the extractor a contract is called, or rebuilt.     *)
(* Borsh, and what handlers may return, are parameters.                    *)
(***************************************************************************)
EXTENDS LegacyDecode, Extraction

CONSTANTS
  BorshValue(_, _, _),    \* the value of a type that bytes say: [v], or Missing
  Returnable(_, _),       \* the values a handler of a build may return
  ReturnData(_, _, _),    \* ... and the data of the response
  ClientWords(_, _),      \* the words a client sends for a value of a type
  StrayWords, MaxStray    \* words and length of calldata of anybody

ASSUME StrayAssumption == StrayWords \subseteq Words /\ MaxStray \in Nat

VARIABLE call

callVars == <<runVars, call>>

NoCall == [phase |-> "none"]

Call(by, m, v, w, op, ws, tx) ==
  [phase |-> "sent", by |-> by, method |-> m, input |-> v, witness |-> w,
   opcode |-> op, words |-> ws, tx |-> tx,
   reader |-> Missing, payload |-> Missing,   \* what the contract read of it
   value |-> Missing, data |-> Missing]       \* what its handler returned

CallInit == ExtractInit /\ call = NoCall

(* Calldata of anybody has nothing to do with documents, and is sent       *)
(* before there is one.                                                    *)
SendStray ==
  /\ runs = 0 /\ call = NoCall /\ wasm.declared # <<>>
  /\ \E ws \in UNION {[1 .. n -> StrayWords] : n \in 0 .. MaxStray},
        op \in {wasm.declared[i].opcode : i \in DOMAIN wasm.declared} \cup {99} :
       call' = Call("anybody", Missing, Missing, Missing, op, ws, <<>>)
  /\ UNCHANGED runVars

----------------------------------------------------------------------------
(* The contract.  A declared method is [ident, opcode, view, borsh,        *)
(* fields, witness, returns]: fields <<name, type>>, witness Missing or a  *)
(* type, returns Missing or [mode, types].                                 *)

ParamTypes(m) == [i \in DOMAIN m.fields |-> m.fields[i][2]]

(* The arms of from_opcode, tried in order.                                *)
Arm(b, op) ==
  LET arms == {i \in DOMAIN b.declared : b.declared[i].opcode = op}
  IN  IF arms = {} THEN Missing ELSE b.declared[Min(arms)]

FromOpcode(b, op, ws) ==
  LET m == Arm(b, op)
      r == BorshValue(ParamTypes(m)[1], b.types, WordsToBytes(ws))
  IN  CASE m = Missing -> Fails(Reader(ws))
        [] m # Missing /\ ~m.borsh -> DecodeFields(ParamTypes(m), ws)
        [] m # Missing /\ m.borsh -> IF r = Missing THEN Fails(Reader(ws))
                                     ELSE Reads(Reader(ws), Len(ws), <<r.v>>)

FirstInput(tx) == IF tx = <<>> THEN <<>> ELSE tx[1]

(* witness_payload: that of the first input that has one.                  *)
WitnessPayload(tx) ==
  LET found == SelectSeq(tx, LAMBDA p : p # <<>>)
  IN  IF found = <<>> THEN <<>> ELSE found[1]

(* decode_witness: a record with the value, or Missing.                    *)
DecodeWitness(b, m, tx) ==
  IF WitnessPayload(tx) = <<>> THEN Missing
  ELSE BorshValue(m.witness, b.types, WitnessPayload(tx))

(* The arm decodes calldata and witness before it calls the handler, which *)
(* is that of the variant decoded.                                         *)
Handler == Arm(wasm, call.opcode)

Handle ==
  /\ call.phase = "sent"
  /\ LET r == FromOpcode(wasm, call.opcode, call.words)
         w == DecodeWitness(wasm, Handler, call.tx)
     IN  /\ r.ok /\ (Handler.witness # Missing => w # Missing)
         /\ call' = [call EXCEPT !.phase = "handled", !.reader = r,
                       !.payload = IF Handler.witness = Missing THEN Missing ELSE w.v]
  /\ UNCHANGED runVars

Reject ==
  /\ call.phase = "sent"
  /\ LET r == FromOpcode(wasm, call.opcode, call.words)
     IN  /\ r.ok => /\ Handler.witness # Missing
                    /\ DecodeWitness(wasm, Handler, call.tx) = Missing
         /\ call' = [call EXCEPT !.phase = "rejected", !.reader = r]
  /\ UNCHANGED runVars

(* finish_return: the data of the response.                                *)
Answer ==
  /\ call.phase = "handled"
  /\ \E v \in Returnable(wasm, Handler.returns) :
       call' = [call EXCEPT !.phase = "answered", !.value = v,
                            !.data = ReturnData(wasm, Handler.returns, v)]
  /\ UNCHANGED runVars

(* The answer has been read, or the call has failed, in the handler also.  *)
Close ==
  /\ call.phase \in {"handled", "rejected", "answered"}
  /\ call' = NoCall
  /\ UNCHANGED runVars

Contract == Handle \/ Reject \/ Answer \/ Close

----------------------------------------------------------------------------
(* Calls of any origin: words, opcode, transaction and all.                *)
Receive ==
  /\ call = NoCall
  /\ \E by, m, v, w, op, tx : \E ws \in Seq(Words) : call' = Call(by, m, v, w, op, ws, tx)
  /\ UNCHANGED runVars

CallNext ==
  \/ call = NoCall /\ Extract /\ UNCHANGED call
  \/ Receive \/ Contract

CallSpec == CallInit /\ [][CallNext]_callVars

(* Whatever the calldata says, decoding it (LegacyDecode) makes no more    *)
(* elements than there are words, and reserves room for no more than       *)
(* Reserve at once: the length of a vector is the sender's to choose.      *)
DecodesBounded ==
  call.phase \in {"handled", "rejected"} =>
    call.reader.elems <= Len(call.words) /\ call.reader.room <= Reserve

HasType(ty, m) == \E i \in DOMAIN m.fields : ty \in {m.fields[i][2][j] : j \in DOMAIN m.fields[i][2]}

(* What a client sends for a value v, of a type without strings.           *)
EncodesAs(ty, v) ==
  CASE ty = <<"u128">> -> <<v>>
    [] ty = <<"AlkaneId">> -> v
    [] IsVec(ty) -> <<Len(v)>> \o FlattenSeq([i \in DOMAIN v |-> ClientWords(Element(ty), v[i])])

NoString(ty) == \A i \in DOMAIN ty : ty[i] # "String"

(* What the proofs suppose of clients; of the types T of fields, which are *)
(* those that LegacyDecode has an implementation for; and of the methods.  *)
EncodesValue(ty, v) ==
  (ty = <<"AlkaneId">> => v \in Words \X Words) => ClientWords(ty, v) = EncodesAs(ty, v)

Legacy(T) ==
  \A ty \in T : /\ ty \in Seq(STRING)
                /\ \/ ty \in {<<"u128">>, <<"AlkaneId">>, <<"String">>}
                   \/ IsVec(ty) /\ Element(ty) \in T

Declares(T) ==
  \A b \in Builds :
    /\ DOMAIN b.declared \subseteq Nat
    /\ \A i \in DOMAIN b.declared :
         LET m == b.declared[i] IN
           /\ m.borsh \in BOOLEAN
           /\ ~m.borsh => /\ Len(m.fields) \in Nat /\ DOMAIN m.fields = 1 .. Len(m.fields)
                          /\ \A j \in DOMAIN m.fields : m.fields[j][2] \in T

(* Calldata that a contract accepts says in no other words what a client   *)
(* would say: encoding the arguments gives back the words that were read,  *)
(* but for strings, whose last word may hold anything behind the zero, and *)
(* for lengths that exceed a usize and are cut (legacy.rs).                *)
DecodeInverts ==
  call.phase = "handled" /\ ~Handler.borsh /\ ~HasType("String", Handler) =>
    LET read == SubSeq(call.words, 1, Len(call.words) - Len(call.reader.rest))
        tys  == ParamTypes(Handler)
    IN  \/ FlattenSeq([i \in DOMAIN tys |-> ClientWords(tys[i], call.reader.v[i])]) = read
        \/ HasType("Vec<", Handler) /\ \E i \in DOMAIN read : read[i] >= USize
=============================================================================
