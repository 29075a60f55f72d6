--------------------------- MODULE TypeCollection ----------------------------
(***************************************************************************)
(* How export_abi fills the types section of a document: the derived       *)
(* message collects the types of every variant, and the derived collect of *)
(* a type registers it under its name and collects the types of its        *)
(* fields, recursively.  Schemas refer to types by that name alone.        *)
(*                                                                         *)
(* A type here is a named one; primitives are nothing to collect, and a    *)
(* Vec, Option or array stands for its element.                            *)
(***************************************************************************)
EXTENDS Integers, Sequences, SequencesExt

CONSTANTS
  Types, Names,
  NoType,
  Programs   \* [name, fields, variants]: the types' names and fields, and
             \* per variant the types of its params, witness and returns

Variants == [params : Seq(Types), witness : Seq(Types), returns : Seq(Types)]

ASSUME NoTypeAssumption == NoType \notin Types
ASSUME ProgramAssumption ==
  \A p \in Programs :
    /\ p.name \in [Types -> Names]
    /\ p.fields \in [Types -> Seq(Types)]
    /\ p.variants \in Seq(Variants)

VARIABLES
  program, \* never changes
  at,      \* the variant whose collect statements run
  todo,    \* those of its statements still to run
  stack,   \* calls of collect in progress: [type, rest of its statements]
  reg      \* TypeRegistry.types: the type whose schema stands under a name

vars == <<program, at, todo, stack, reg>>

Name(t)   == program.name[t]
Fields(t) == program.fields[t]

WitnessForgotten(v) == v.params \o v.returns

(* collect_stmts: one statement per type that the variant names.           *)
CollectStmts(v) == v.params \o v.witness \o v.returns

Init ==
  /\ program \in Programs
  /\ at = 0 /\ todo = <<>>
  /\ stack = <<>>
  /\ reg = [n \in Names |-> NoType]

RegisterLater(t, below) ==
  IF reg[Name(t)] # NoType
  THEN stack' = below /\ UNCHANGED reg
  ELSE stack' = Append(below, [type |-> t, rest |-> Fields(t)]) /\ UNCHANGED reg

FieldsOfRootsOnly(t, below) ==
  IF reg[Name(t)] # NoType
  THEN stack' = below /\ UNCHANGED reg
  ELSE /\ reg' = [reg EXCEPT ![Name(t)] = t]
       /\ stack' = IF below = <<>> THEN <<[type |-> t, rest |-> Fields(t)]>> ELSE below

(* The derived collect: a name that is taken is left alone; otherwise the  *)
(* type is registered before its fields are collected.                     *)
Collect(t, below) ==
  IF reg[Name(t)] # NoType
  THEN stack' = below /\ UNCHANGED reg
  ELSE /\ reg' = [reg EXCEPT ![Name(t)] = t]
       /\ stack' = Append(below, [type |-> t, rest |-> Fields(t)])

Top   == stack[Len(stack)]
Below == SubSeq(stack, 1, Len(stack) - 1)

(* export_abi runs the statements of one variant after the other's.        *)
NextVariant ==
  /\ stack = <<>> /\ todo = <<>> /\ at < Len(program.variants)
  /\ at' = at + 1
  /\ todo' = CollectStmts(program.variants[at'])
  /\ UNCHANGED <<program, stack, reg>>

CollectNext ==
  /\ stack = <<>> /\ todo # <<>>
  /\ Collect(Head(todo), stack)
  /\ todo' = Tail(todo)
  /\ UNCHANGED <<program, at>>

(* The next field of the type being collected. *)
CollectField ==
  /\ stack # <<>> /\ Top.rest # <<>>
  /\ Collect(Head(Top.rest), Append(Below, [Top EXCEPT !.rest = Tail(@)]))
  /\ UNCHANGED <<program, at, todo>>

Leave ==
  /\ stack # <<>> /\ Top.rest = <<>>
  /\ stack' = Below
  /\ UNCHANGED <<program, at, todo, reg>>

Next == NextVariant \/ CollectNext \/ CollectField \/ Leave

Spec == Init /\ [][Next]_vars

----------------------------------------------------------------------------
Exported == stack = <<>> /\ todo = <<>> /\ at = Len(program.variants)

(* What the method entries of the document refer to (method_expr), and     *)
(* what the schemas of its types section do.                               *)
MethodRefs(v) == ToSet(v.params) \cup ToSet(v.witness) \cup ToSet(v.returns)

Registered == {t \in Types : \E n \in Names : reg[n] = t}
Refs ==
  (UNION {MethodRefs(program.variants[i]) : i \in 1 .. Len(program.variants)})
    \cup (UNION {ToSet(Fields(t)) : t \in Registered})

TypeOK ==
  /\ program \in Programs
  /\ at \in 0 .. Len(program.variants)
  /\ todo \in Seq(Types)
  /\ stack \in Seq([type : Types, rest : Seq(Types)])
  /\ reg \in [Names -> Types \cup {NoType}]

(* No dangling reference: whatever refers to whatever, cyclically or under *)
(* clashing names, every name an exported document refers to is defined in *)
(* its types section.                                                      *)
NoDanglingRef == Exported => \A t \in Refs : reg[Name(t)] # NoType

(* The recursion is bounded even for types that contain themselves: the    *)
(* calls in progress are for distinct, already registered names.           *)
DistinctCalls ==
  /\ \A i \in 1 .. Len(stack) : reg[Name(stack[i].type)] # NoType
  /\ \A i, j \in 1 .. Len(stack) :
       Name(stack[i].type) = Name(stack[j].type) => i = j

(* Where no two types share a name, a reference is resolved to the schema  *)
(* of the type it was written for.                                         *)
NamesUnique == \A s, t \in Types : Name(s) = Name(t) => s = t
RefsMeanTheirType == Exported => \A t \in Refs : reg[Name(t)] = t
UniqueNamesSuffice == NamesUnique => RefsMeanTheirType
=============================================================================
